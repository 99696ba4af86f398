-------------------------- MODULE B2CDisbursement --------------------------
(***************************************************************************)
(* Disbursement of a loan to a mobile wallet: the provider is asked to pay *)
(* first, and disburseLoan books the loan afterwards.  A row of            *)
(* mobile_money_b2c_disbursements records how far a request came; it is    *)
(* written by the request that created it, by the provider's callbacks, by *)
(* the core retry job and by the retry routes, each guarding on a set of   *)
(* statuses.  The module is built on LoanLifecycle: requests and retries   *)
(* are callers of disburseLoan there.                                      *)
(***************************************************************************)
EXTENDS LoanLifecycle

CONSTANTS
    Tellers,        \* callers that disburse in cash, not through a wallet
    Rows,           \* wallet requests, and the row each of them inserts
    Retriers,       \* core retries that may run at once
    Jobs,           \* those of them that belong to the background job
    MaxReversals    \* bound: reversal requests recorded on a row

ASSUME B2CAssumption ==
    /\ Callers = Tellers \union Rows \union Retriers
    /\ Tellers \intersect Rows = {}
    /\ Tellers \intersect Retriers = {}
    /\ Rows \intersect Retriers = {}
    /\ Jobs \subseteq Retriers
    /\ MaxReversals \in Nat
    /\ None \notin Rows

VARIABLES
    rowStatus,      \* the row's status
    rowLoan,        \* the row's loan_id
    known,          \* rows whose provider_request_id is recorded
    reversals,      \* row -> reversal_attempts
    handler,        \* row -> where the request that inserted it stands
    payout,         \* row -> what the provider did with the transfer
    notices,        \* row -> results the provider has posted, or may post again
    retry           \* retrier -> where it stands, its row, and whether the row
                    \* is still as the scan found it

rowVars == <<rowStatus, rowLoan, known, reversals>>
b2cVars == <<rowStatus, rowLoan, known, reversals, handler, payout, notices, retry>>
vars == <<lifecycleVars, b2cVars>>

RowStatus == {"absent", "initiated", "accepted", "failed", "core_pending",
              "core_disbursed", "core_failed", "completed"}

NoRetry == [at |-> "idle", row |-> None, fresh |-> FALSE]

B2CInit ==
    /\ Init
    /\ rowStatus = [r \in Rows |-> "absent"]
    /\ rowLoan = [r \in Rows |-> None]
    /\ known = {}
    /\ reversals = [r \in Rows |-> 0]
    /\ handler = [r \in Rows |-> "none"]
    /\ payout = [r \in Rows |-> "none"]
    /\ notices = [r \in Rows |-> {}]
    /\ retry = [w \in Retriers |-> NoRetry]

(* Any update of a row moves its updated_at: a scan that saw the row before no
   longer matches it. *)
RetryAfterWriteOf(r) ==
    [w \in Retriers |-> IF retry[w].row = r
                        THEN [retry[w] EXCEPT !.fresh = FALSE]
                        ELSE retry[w]]

Write(r, st) ==
    /\ rowStatus' = [rowStatus EXCEPT ![r] = st]
    /\ retry' = RetryAfterWriteOf(r)

Proceed(r, where) == handler' = [handler EXCEPT ![r] = where]

-----------------------------------------------------------------------------
(* disburseLoanToWallet: the provider step.  The loan's status is not looked
   at, nor are earlier rows of the loan. *)

(* Mutant of InitiateB2C: the row does not carry its loan. *)
InitiateWithoutLoan(r, l) ==
    /\ handler[r] = "none"
    /\ status[l] # "none"
    /\ Write(r, "initiated")
    /\ Proceed(r, "calling")
    /\ UNCHANGED <<lifecycleVars, rowLoan, known, reversals, payout, notices>>

InitiateB2C(r, l) ==
    /\ handler[r] = "none"
    /\ status[l] # "none"
    /\ rowLoan' = [rowLoan EXCEPT ![r] = l]
    /\ Write(r, "initiated")
    /\ Proceed(r, "calling")
    /\ UNCHANGED <<lifecycleVars, known, reversals, payout, notices>>

CallProvider(r) ==
    /\ handler[r] = "calling"
    /\ payout' = [payout EXCEPT ![r] = "sent"]
    /\ Proceed(r, "awaiting")
    /\ UNCHANGED <<lifecycleVars, rowVars, notices, retry>>

(* Mutant of CircuitOpen: an open circuit is taken for an answer. *)
CircuitIgnored(r) ==
    /\ handler[r] = "calling"
    /\ Proceed(r, "recording")
    /\ UNCHANGED <<lifecycleVars, rowVars, payout, notices, retry>>

(* The circuit breaker refuses the call, or it fails before it is sent. *)
CircuitOpen(r) ==
    /\ handler[r] = "calling"
    /\ Proceed(r, "failing")
    /\ UNCHANGED <<lifecycleVars, rowVars, payout, notices, retry>>

ProviderAccepted(r) == payout[r] \in {"accepted", "paid", "unpaid"}

ProviderAnswers(r) ==
    /\ handler[r] = "awaiting"
    /\ ProviderAccepted(r)
    /\ Proceed(r, "recording")
    /\ UNCHANGED <<lifecycleVars, rowVars, payout, notices, retry>>

(* Mutant of CallThrows: no timeout. *)
CallThrowsOnRefusal(r) ==
    /\ handler[r] = "awaiting"
    /\ payout[r] = "refused"
    /\ Proceed(r, "failing")
    /\ UNCHANGED <<lifecycleVars, rowVars, payout, notices, retry>>

(* The provider refuses, or the call times out whatever becomes of it. *)
CallThrows(r) ==
    /\ handler[r] = "awaiting"
    /\ Proceed(r, "failing")
    /\ UNCHANGED <<lifecycleVars, rowVars, payout, notices, retry>>

RecordAcceptance(r) ==
    /\ handler[r] = "recording"
    /\ IF rowStatus[r] = "initiated"
       THEN /\ Write(r, "accepted")
            /\ known' = known \union {r}
            /\ Proceed(r, "marking")
       ELSE /\ Proceed(r, "failing")
            /\ UNCHANGED <<rowStatus, retry, known>>
    /\ UNCHANGED <<lifecycleVars, rowLoan, reversals, payout, notices>>

(* A result that came in already is overwritten, unless it is a failure. *)
MarkPending(r) ==
    /\ handler[r] = "marking"
    /\ IF rowStatus[r] \in {"initiated", "accepted", "completed"}
       THEN Write(r, "core_pending") /\ Proceed(r, "starting")
       ELSE Proceed(r, "rechecking") /\ UNCHANGED <<rowStatus, retry>>
    /\ UNCHANGED <<lifecycleVars, rowLoan, known, reversals, payout, notices>>

RecheckPending(r) ==
    /\ handler[r] = "rechecking"
    /\ Proceed(r, IF rowStatus[r] \in {"core_pending", "core_disbursed", "completed"}
                  THEN "starting" ELSE "failing")
    /\ UNCHANGED <<lifecycleVars, rowVars, payout, notices, retry>>

(* Mutant of FailableStatus: a result does not stop a late failure. *)
FailableUnlessBooked == {"initiated", "accepted", "failed", "completed"}

FailableStatus == {"initiated", "accepted", "failed"}

MarkFailed(r) ==
    /\ handler[r] = "failing"
    /\ IF rowStatus[r] \in FailableStatus
       THEN Write(r, "failed")
       ELSE UNCHANGED <<rowStatus, retry>>
    /\ Proceed(r, "done")
    /\ UNCHANGED <<lifecycleVars, rowLoan, known, reversals, payout, notices>>

-----------------------------------------------------------------------------
(* disburseLoanToWallet: the core step, for whatever principal remains *)

StartCore(r) ==
    /\ handler[r] = "starting"
    /\ StartDisburse(r, rowLoan[r], Remaining, TRUE)
    /\ Proceed(r, "core")
    /\ UNCHANGED <<rowVars, payout, notices, retry>>

(* Mutant of CoreReturns: an exception of the core step is swallowed. *)
CoreReturnsRegardless(r) ==
    /\ handler[r] = "core"
    /\ Return(r)
    /\ Proceed(r, "reconciling")
    /\ UNCHANGED <<rowVars, payout, notices, retry>>

CoreReturns(r) ==
    /\ handler[r] = "core"
    /\ Return(r)
    /\ Proceed(r, IF pc[r] = "ok" THEN "reconciling" ELSE "core_failing")
    /\ UNCHANGED <<rowVars, payout, notices, retry>>

Reconcile(r) ==
    /\ handler[r] = "reconciling"
    /\ IF rowStatus[r] \in {"initiated", "accepted", "core_pending"}
       THEN Write(r, "core_disbursed") /\ Proceed(r, "done")
       ELSE Proceed(r, "confirming") /\ UNCHANGED <<rowStatus, retry>>
    /\ UNCHANGED <<lifecycleVars, rowLoan, known, reversals, payout, notices>>

Confirm(r) ==
    /\ handler[r] = "confirming"
    /\ Proceed(r, IF rowStatus[r] \in {"completed", "core_disbursed"}
                  THEN "done" ELSE "core_failing")
    /\ UNCHANGED <<lifecycleVars, rowVars, payout, notices, retry>>

MarkCoreFailed(r) ==
    /\ handler[r] = "core_failing"
    /\ IF rowStatus[r] \in {"core_pending", "accepted", "initiated", "core_failed"}
       THEN Write(r, "core_failed")
       ELSE UNCHANGED <<rowStatus, retry>>
    /\ Proceed(r, "done")
    /\ UNCHANGED <<lifecycleVars, rowLoan, known, reversals, payout, notices>>

HandlerStep(r) ==
    \/ CallProvider(r)
    \/ CircuitOpen(r)
    \/ ProviderAnswers(r)
    \/ CallThrows(r)
    \/ RecordAcceptance(r)
    \/ MarkPending(r)
    \/ RecheckPending(r)
    \/ MarkFailed(r)
    \/ StartCore(r)
    \/ CoreReturns(r)
    \/ Reconcile(r)
    \/ Confirm(r)
    \/ MarkCoreFailed(r)

-----------------------------------------------------------------------------
(* The provider, outside this program: it may act on a request whose caller has
   given up, posts each result at least once, and may report a queue timeout as
   a failure before the transfer is settled. *)

ProviderAccepts(r) ==
    /\ payout[r] = "sent"
    /\ payout' = [payout EXCEPT ![r] = "accepted"]
    /\ UNCHANGED <<lifecycleVars, rowVars, handler, notices, retry>>

ProviderRefuses(r) ==
    /\ payout[r] = "sent"
    /\ payout' = [payout EXCEPT ![r] = "refused"]
    /\ UNCHANGED <<lifecycleVars, rowVars, handler, notices, retry>>

ProviderPays(r) ==
    /\ payout[r] = "accepted"
    /\ payout' = [payout EXCEPT ![r] = "paid"]
    /\ notices' = [notices EXCEPT ![r] = @ \union {"completed"}]
    /\ UNCHANGED <<lifecycleVars, rowVars, handler, retry>>

ProviderGivesUp(r) ==
    /\ payout[r] = "accepted"
    /\ payout' = [payout EXCEPT ![r] = "unpaid"]
    /\ notices' = [notices EXCEPT ![r] = @ \union {"failed"}]
    /\ UNCHANGED <<lifecycleVars, rowVars, handler, retry>>

QueueTimesOut(r) ==
    /\ payout[r] = "accepted"
    /\ "failed" \notin notices[r]
    /\ notices' = [notices EXCEPT ![r] = @ \union {"failed"}]
    /\ UNCHANGED <<lifecycleVars, rowVars, handler, payout, retry>>

-----------------------------------------------------------------------------
(* handleB2CCallback: in one transaction, under the row's lock.  A notice for
   a row without a recorded provider_request_id is unmatched and dropped; one
   that finds no allowed status changes nothing either. *)

CompletableStatus ==
    {"initiated", "accepted", "core_pending", "core_disbursed", "completed"}

CallbackFailableStatus ==
    {"initiated", "accepted", "core_pending", "core_disbursed", "failed",
     "core_failed"}

(* Mutant of ResultOf: whatever is posted counts as success. *)
AnyNoticeCompletes(notice) == "completed"

ResultOf(notice) == IF notice = "completed" THEN "completed" ELSE "failed"

Callback(r, notice) ==
    LET next == ResultOf(notice) IN
    /\ r \in known
    /\ notice \in notices[r]
    /\ rowStatus[r] \in IF next = "completed" THEN CompletableStatus
                                              ELSE CallbackFailableStatus
    /\ Write(r, next)
    /\ UNCHANGED <<lifecycleVars, rowLoan, known, reversals, handler, payout, notices>>

-----------------------------------------------------------------------------
(* retryB2CReversal: records that somebody asked, and moves updated_at. *)

RetryReversal(r) ==
    /\ rowStatus[r] \in {"failed", "core_failed"}
    /\ reversals[r] < MaxReversals
    /\ reversals' = [reversals EXCEPT ![r] = @ + 1]
    /\ Write(r, rowStatus[r])
    /\ UNCHANGED <<lifecycleVars, rowLoan, known, handler, payout, notices>>

-----------------------------------------------------------------------------
(* processPendingB2CCoreDisbursements and retryB2CCoreDisbursement.  The age a
   row must have to be scanned is time, and left out: any row may be old. *)

(* Mutant of RetryableStatus: only what failed or was never started. *)
RetryableButPending == {"accepted", "core_failed"}

RetryableStatus == {"accepted", "core_failed", "core_pending"}

Scan(w, r) ==
    /\ w \in Jobs
    /\ retry[w].at = "idle"
    /\ rowStatus[r] \in RetryableStatus
    /\ retry' = [retry EXCEPT ![w] = [at |-> "claiming", row |-> r, fresh |-> TRUE]]
    /\ UNCHANGED <<lifecycleVars, rowVars, handler, payout, notices>>

(* The claim matches the status and updated_at the scan saw; a row somebody
   else wrote since is skipped. *)
Claim(w) ==
    LET r == retry[w].row IN
    /\ retry[w].at = "claiming"
    /\ IF retry[w].fresh
       THEN /\ rowStatus' = [rowStatus EXCEPT ![r] = "core_pending"]
            /\ retry' = [RetryAfterWriteOf(r) EXCEPT
                            ![w] = [at |-> "reading", row |-> r, fresh |-> FALSE]]
       ELSE /\ retry' = [retry EXCEPT ![w] = NoRetry]
            /\ UNCHANGED rowStatus
    /\ UNCHANGED <<lifecycleVars, rowLoan, known, reversals, handler, payout, notices>>

(* The retry route goes straight to the row. *)
AdminRetry(w, r) ==
    /\ w \notin Jobs
    /\ retry[w].at = "idle"
    /\ rowStatus[r] \in RetryableStatus
    /\ retry' = [retry EXCEPT ![w] = [at |-> "reading", row |-> r, fresh |-> FALSE]]
    /\ UNCHANGED <<lifecycleVars, rowVars, handler, payout, notices>>

(* disburseLoan is called for the bare user id: without a role the hierarchy
   service resolves the scope "none", which holds no branch. *)
RetryInScope == FALSE

RetryRead(w) ==
    LET r == retry[w].row IN
    /\ retry[w].at = "reading"
    /\ IF rowStatus[r] \in RetryableStatus
       THEN /\ StartDisburse(w, rowLoan[r], Remaining, RetryInScope)
            /\ retry' = [retry EXCEPT ![w].at = "core"]
       ELSE /\ retry' = [retry EXCEPT ![w] = NoRetry]
            /\ UNCHANGED lifecycleVars
    /\ UNCHANGED <<rowVars, handler, payout, notices>>

(* What a retry writes: success only on a status that allows it; a failure, its
   own or that of the guarded update, on whatever the row holds by now. *)
RetryOutcome(w) ==
    IF /\ pc[w] = "ok"
       /\ rowStatus[retry[w].row] \in RetryableStatus \union {"core_disbursed"}
    THEN "core_disbursed" ELSE "core_failed"

RetryFinish(w) ==
    LET r == retry[w].row IN
    /\ retry[w].at = "core"
    /\ Return(w)
    /\ rowStatus' = [rowStatus EXCEPT ![r] = RetryOutcome(w)]
    /\ retry' = [RetryAfterWriteOf(r) EXCEPT ![w] = NoRetry]
    /\ UNCHANGED <<rowLoan, known, reversals, handler, payout, notices>>

RetryStep(w) == Claim(w) \/ RetryRead(w) \/ RetryFinish(w)

-----------------------------------------------------------------------------

(* The process dies with every request and the job's run; the timer of the job
   starts anew with the next process, the requests do not. *)
B2CCrash ==
    /\ ForgetRequests
    /\ handler' = [r \in Rows |-> IF handler[r] \in {"none", "done"}
                                  THEN handler[r] ELSE "dead"]
    /\ retry' = [w \in Retriers |-> NoRetry]
    /\ UNCHANGED <<loanVars, moneyVars, rowVars, payout, notices>>

ProviderStep(r) ==
    \/ ProviderAccepts(r)
    \/ ProviderRefuses(r)
    \/ ProviderPays(r)
    \/ ProviderGivesUp(r)
    \/ QueueTimesOut(r)

(* Decisions and cash disbursements go on beside the wallet requests. *)
CashDisbursement ==
    \E c \in Tellers, l \in Loans, ask \in Amounts \union {Remaining} :
        status[l] # "none" /\ StartDisburse(c, l, ask, TRUE)

CoreStep(c) == DisburseStep(c) /\ UNCHANGED b2cVars

B2CNext ==
    \/ Decide /\ UNCHANGED b2cVars
    \/ CashDisbursement /\ UNCHANGED b2cVars
    \/ \E c \in Callers : CoreStep(c)
    \/ \E c \in Callers : FailDisbursement(c) /\ UNCHANGED b2cVars
    \/ \E c \in Tellers : Return(c) /\ UNCHANGED b2cVars
    \/ \E r \in Rows, l \in Loans : InitiateB2C(r, l)
    \/ \E r \in Rows : HandlerStep(r)
    \/ \E r \in Rows : ProviderStep(r)
    \/ \E r \in Rows, notice \in {"completed", "failed"} : Callback(r, notice)
    \/ \E r \in Rows : RetryReversal(r)
    \/ \E w \in Retriers, r \in Rows : Scan(w, r)
    \/ \E w \in Retriers, r \in Rows : AdminRetry(w, r)
    \/ \E w \in Retriers : RetryStep(w)
    \/ B2CCrash

B2CSpec == B2CInit /\ [][B2CNext]_vars

(* A request runs on until it answers: its provider call ends by the circuit
   breaker's timeout, every statement returns.  A run of the job ends and the
   timer starts the next; a run takes rows by age, so a row that stays eligible
   is taken.  Nothing is assumed of the provider, tellers or admins. *)
Fairness ==
    /\ \A r \in Rows :
          /\ WF_vars(HandlerStep(r))
          /\ WF_vars(CoreStep(r))
    /\ \A w \in Jobs :
          /\ WF_vars(RetryStep(w))
          /\ \A r \in Rows : SF_vars(Scan(w, r))

FairB2CSpec == B2CSpec /\ Fairness

-----------------------------------------------------------------------------
(* Properties *)

HandlerPC ==
    {"none", "calling", "awaiting", "recording", "marking", "rechecking",
     "failing", "starting", "core", "reconciling", "confirming",
     "core_failing", "done", "dead"}

PayoutState == {"none", "sent", "accepted", "refused", "paid", "unpaid"}

Retry == [at : {"idle", "claiming", "reading", "core"},
          row : Rows \union {None}, fresh : BOOLEAN]

B2CTypeOK ==
    /\ TypeOK
    /\ rowStatus \in [Rows -> RowStatus]
    /\ rowLoan \in [Rows -> Loans \union {None}]
    /\ known \subseteq Rows
    /\ reversals \in [Rows -> 0 .. MaxReversals]
    /\ handler \in [Rows -> HandlerPC]
    /\ payout \in [Rows -> PayoutState]
    /\ notices \in [Rows -> SUBSET {"completed", "failed"}]
    /\ retry \in [Retriers -> Retry]
    /\ \A r \in Rows : (handler[r] = "none") = (rowStatus[r] = "absent")
    /\ \A r \in Rows : rowStatus[r] # "absent" => rowLoan[r] \in Loans
    /\ \A w \in Retriers :
          retry[w].at # "idle" => /\ retry[w].row \in Rows
                                  /\ rowStatus[retry[w].row] # "absent"

(* A row says core_disbursed only if the loan's final tranche is booked, also
   when another request booked it, callbacks came in between, or retries and a
   crash interfered. *)
CoreDisbursedIsBooked ==
    \A r \in Rows : rowStatus[r] = "core_disbursed" => finals[rowLoan[r]] > 0

(* No request reaches the core step before the provider accepted the transfer,
   and rows past acceptance belong to transfers it accepted. *)
CoreFollowsAcceptance ==
    \A r \in Rows :
        \/ handler[r] \in {"marking", "rechecking", "starting", "core",
                           "reconciling", "confirming", "core_failing"}
        \/ rowStatus[r] \in {"accepted", "core_pending", "core_disbursed",
                             "core_failed", "completed"}
        => ProviderAccepted(r)

(* A completed row was paid, whatever the order in which a queue timeout, its
   repetition and the result arrived. *)
CompletedIsPaid ==
    \A r \in Rows : rowStatus[r] = "completed" => payout[r] = "paid"

(* No step takes a completed row to failed: neither a late notice nor the
   request itself when it gives up late. *)
CompletedNeverFails ==
    [][\A r \in Rows :
          rowStatus[r] = "completed" => rowStatus'[r] # "failed"]_rowStatus

(* A row left between acceptance and the core step, by a crash for instance, is
   brought out of there by the job: into core_failed at the latest, where the
   alerts of the operators look. *)
OrphansSurface ==
    \A r \in Rows :
        rowStatus[r] \in {"accepted", "core_pending"} ~>
            rowStatus[r] \notin {"accepted", "core_pending"}

(* A wallet request ends, whatever the provider does. *)
RequestsEnd == \A r \in Rows : handler[r] = "calling" ~> handler[r] \in {"done", "dead"}

(* The runbook on a core_failed row whose loan is approved: the loan just needs
   to be marked disbursed, and the job retries automatically. *)
RetryRecovers ==
    \A r \in Rows, l \in Loans :
        (/\ rowStatus[r] = "core_failed" /\ payout[r] = "paid"
         /\ rowLoan[r] = l /\ status[l] = "approved")
            ~> (status[l] # "approved" \/ rowStatus[r] \in {"failed", "completed"})

=============================================================================
