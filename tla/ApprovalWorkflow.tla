-------------------------- MODULE ApprovalWorkflow --------------------------
(***************************************************************************)
(* High-risk operations on a disbursed loan: write-off, restructure,       *)
(* top-up, refinance and term extension.  A maker's request records the    *)
(* loan as it was; a checker rejects it, or approves it and executes it in *)
(* one transaction, beside other checkers, repayments and the jobs of      *)
(* LoanServicing.                                                          *)
(*                                                                         *)
(* A review's transaction becomes visible at CommitReview.  Until then it  *)
(* holds the lock of its request's row, from the update that approves it,  *)
(* and of the loan's row, from the update that executes it.                *)
(***************************************************************************)
EXTENDS LoanServicing

CONSTANTS
    Requests,       \* ids of approval requests
    Types,          \* request types made
    Makers,         \* users who may request an operation
    Checkers,       \* users with a checker role
    Admins,         \* those of them with the admin role
    MaxFaults       \* bound: failed statements, transaction timeouts, crashes

HighRiskTypes == {"write_off", "restructure", "top_up", "refinance", "term_extension"}

ASSUME ApprovalAssumption ==
    /\ None \notin Requests
    /\ Types \subseteq HighRiskTypes
    /\ Makers \subseteq Users
    /\ Checkers \subseteq Users
    /\ Admins \subseteq Checkers
    /\ MaxFaults \in Nat

VARIABLES
    request,        \* approval_requests
    lapsed,         \* requests whose expires_at has passed
    asking,         \* user -> the request being made: type, loan as read
    review,         \* user -> the review in flight
    events,         \* requests whose loan.written_off or loan.restructured
                    \* event is in the outbox
    faults          \* faults so far

requestVars == <<request, lapsed, asking>>
approvalVars == <<servicingVars, request, lapsed, asking, review, events, faults>>

NoRequest ==
    [type |-> "none", loan |-> None, by |-> None, status |-> "none",
     snapshot |-> NoRow, checker |-> None, ranOn |-> NoRow]

NotAsking == [type |-> "none", loan |-> None, seen |-> NoRow]

NoReview == [at |-> "idle", request |-> None, seen |-> NoRow]

ApprovalInit ==
    /\ ServicingInit
    /\ request = [r \in Requests |-> NoRequest]
    /\ lapsed = {}
    /\ asking = [u \in Users |-> NotAsking]
    /\ review = [u \in Users |-> NoReview]
    /\ events = {}
    /\ faults = 0

InTransaction == {"finalized", "prechecked", "read", "updated", "announced"}

Locked(r) == \E u \in Users : review[u].request = r /\ review[u].at \in InTransaction

Pending(r) == request[r].status = "pending"

Due(r) == Pending(r) /\ r \in lapsed

(* expireStalePendingRequests opens every operation: one UPDATE of all rows
   past their time, which waits for those a transaction holds. *)
NothingToWaitFor == \A r \in Requests : Due(r) => ~Locked(r)

Expired ==
    [r \in Requests |-> IF Due(r) THEN [request[r] EXCEPT !.status = "expired"]
                                  ELSE request[r]]

(* Seven days pass over a pending request. *)
Lapse(r) ==
    /\ Pending(r)
    /\ r \notin lapsed
    /\ lapsed' = lapsed \union {r}
    /\ UNCHANGED <<servicingVars, request, asking, review, events, faults>>

(* A list of pending requests, or an operation refused at its start. *)
ListPendingRequests ==
    /\ NothingToWaitFor
    /\ request' = Expired
    /\ UNCHANGED <<servicingVars, lapsed, asking, review, events, faults>>

-----------------------------------------------------------------------------
(* Making a request: the loan is read, and the request inserted later. *)

ReadForRequest(u, l, type) ==
    /\ asking[u] = NotAsking
    /\ loan[l].status \in Collectible
    /\ type \in {"write_off", "restructure"} => loan[l].balance > 0
    /\ asking' = [asking EXCEPT ![u] = [type |-> type, loan |-> l, seen |-> loan[l]]]
    /\ UNCHANGED <<servicingVars, request, lapsed, review, events, faults>>

AlreadyPending(a) ==
    \E r \in Requests :
        Pending(r) /\ ~Due(r) /\ request[r].type = a.type /\ request[r].loan = a.loan

(* Mutant of MayInsert: neither the query nor the unique index sees others. *)
MayInsertAlways(a) == NothingToWaitFor

(* The transaction looks for a pending request of this type on this loan, and
   a partial unique index catches what two transactions could not see of each
   other. *)
MayInsert(a) == NothingToWaitFor /\ ~AlreadyPending(a)

(* Mutant of NewRequest: the loan is not recorded. *)
NewRequestBare(u, a) ==
    [type |-> a.type, loan |-> a.loan, by |-> u, status |-> "pending",
     snapshot |-> NoRow, checker |-> None, ranOn |-> NoRow]

NewRequest(u, a) ==
    [type |-> a.type, loan |-> a.loan, by |-> u, status |-> "pending",
     snapshot |-> a.seen, checker |-> None, ranOn |-> NoRow]

CreateRequest(u, r) ==
    /\ asking[u] # NotAsking
    /\ request[r] = NoRequest
    /\ MayInsert(asking[u])
    /\ request' = [Expired EXCEPT ![r] = NewRequest(u, asking[u])]
    /\ asking' = [asking EXCEPT ![u] = NotAsking]
    /\ UNCHANGED <<servicingVars, lapsed, review, events, faults>>

RefuseDuplicate(u) ==
    /\ asking[u] # NotAsking
    /\ NothingToWaitFor
    /\ ~MayInsert(asking[u])
    /\ asking' = [asking EXCEPT ![u] = NotAsking]
    /\ UNCHANGED <<servicingVars, request, lapsed, review, events, faults>>

-----------------------------------------------------------------------------
(* Review.  A checker u is idle, then rejecting or approving; an approval goes
   on to finalized, prechecked, read, updated, announced and commits. *)

Goto(u, where) == review' = [review EXCEPT ![u].at = where]

Stop(u) == review' = [review EXCEPT ![u] = NoReview]

(* Mutant of MayReview: the maker is not turned away at the start. *)
MayReviewAny(u, r) == u \in Checkers

MayReview(u, r) == u \in Checkers /\ u # request[r].by

StartReview(u, r, decision) ==
    /\ review[u] = NoReview
    /\ NothingToWaitFor
    /\ Pending(r) /\ ~Due(r)
    /\ MayReview(u, r)
    /\ request' = Expired
    /\ review' = [review EXCEPT ![u] = [at |-> decision, request |-> r, seen |-> NoRow]]
    /\ UNCHANGED <<servicingVars, lapsed, asking, events, faults>>

WithDecision(row, decision, u, ranOn) ==
    [row EXCEPT !.status = decision, !.checker = u, !.ranOn = ranOn]

(* rejectPendingRequest looks again; of the maker it exempts admins. *)
Reject(u) ==
    LET r == review[u].request IN
    /\ review[u].at = "rejecting"
    /\ NothingToWaitFor
    /\ Pending(r) /\ ~Due(r) /\ ~Locked(r)
    /\ u \in Admins \/ u # request[r].by
    /\ request' = [Expired EXCEPT ![r] = WithDecision(@, "rejected", u, NoRow)]
    /\ Stop(u)
    /\ UNCHANGED <<servicingVars, lapsed, asking, events, faults>>

RejectTooLate(u) ==
    /\ review[u].at = "rejecting"
    /\ NothingToWaitFor
    /\ Due(review[u].request)
    /\ request' = Expired
    /\ Stop(u)
    /\ UNCHANGED <<servicingVars, lapsed, asking, events, faults>>

(* Mutant of MayFinalize: the status is left to the check at the start. *)
MayFinalizeAny(u, r) == u # request[r].by

(* The approving update asks for a pending row, whatever its time. *)
MayFinalize(u, r) == Pending(r) /\ u # request[r].by

FinalizeRequest(u) ==
    LET r == review[u].request IN
    /\ review[u].at = "approving"
    /\ ~Locked(r)
    /\ MayFinalize(u, r)
    /\ Goto(u, "finalized")
    /\ UNCHANGED <<servicingVars, requestVars, events, faults>>

(* Another checker was first, or the request expired. *)
FindDecided(u) ==
    LET r == review[u].request IN
    /\ review[u].at \in {"rejecting", "approving"}
    /\ ~Locked(r)
    /\ ~Pending(r)
    /\ Stop(u)
    /\ UNCHANGED <<servicingVars, requestVars, events, faults>>

-----------------------------------------------------------------------------
(* Execution, inside the transaction *)

Rechecks == {"write_off", "restructure"}

TypeOf(u) == request[review[u].request].type
LoanOf(u) == request[review[u].request].loan

Snapshot(u) == request[review[u].request].snapshot

(* assertLoanSnapshotMatchesCurrent compares balance, expected total and what
   the two leave as repaid, and lets a difference of up to 0.01 pass. *)
Differences(row, snapshot) ==
    {row.balance - snapshot.balance,
     row.expected - snapshot.expected,
     (row.expected - row.balance) - (snapshot.expected - snapshot.balance)}

(* Mutant of MayMatch: the amounts are not compared. *)
MayMatchAnyAmount(row, snapshot) == row.status = snapshot.status

(* At exactly one cent of difference binary floating point decides whether it
   exceeds 0.01, so a row may match and another time not. *)
MayMatch(row, snapshot) ==
    row.status = snapshot.status /\ Differences(row, snapshot) \subseteq -1 .. 1

MayDiffer(row, snapshot) ==
    row.status # snapshot.status \/ Differences(row, snapshot) # {0}

PreCheck(u) ==
    /\ review[u].at = "finalized"
    /\ MayMatch(loan[LoanOf(u)], Snapshot(u))
    /\ Goto(u, "prechecked")
    /\ UNCHANGED <<servicingVars, requestVars, events, faults>>

(* Mutant of MayExecute: the loan read to execute on is not compared. *)
MayExecuteAnyRow(u) == loan[LoanOf(u)].status \in Collectible

(* Write-off and restructure compare the snapshot again with the row they are
   going to execute on, and ask for a balance; the other types only test its
   status. *)
MayExecute(u) ==
    LET row == loan[LoanOf(u)] IN
    /\ row.status \in Collectible
    /\ TypeOf(u) \in Rechecks => MayMatch(row, Snapshot(u)) /\ row.balance > 0

MayNotExecute(u) ==
    LET row == loan[LoanOf(u)] IN
    \/ row.status \notin Collectible
    \/ TypeOf(u) \in Rechecks /\ (MayDiffer(row, Snapshot(u)) \/ row.balance = 0)

ReadLoan(u) ==
    /\ review[u].at = "prechecked"
    /\ MayExecute(u)
    /\ review' = [review EXCEPT ![u] = [at |-> "read", request |-> @.request,
                                              seen |-> loan[LoanOf(u)]]]
    /\ UNCHANGED <<servicingVars, requestVars, events, faults>>

(* Rate and term decide what a contract comes to.  New amounts are computed
   from the row as read; a write-off only sets the status. *)
Outcomes(type, now, seen) ==
    CASE type = "write_off" -> {[now EXCEPT !.status = "written_off"]}
      [] type = "top_up" ->
            {[status |-> IF seen.status = "restructured" THEN "restructured" ELSE "active",
              balance |-> seen.balance + t, expected |-> seen.expected + t] :
                  t \in {x \in Totals : seen.expected + x <= MaxTotal}}
      [] OTHER -> {[status |-> "restructured", balance |-> t, expected |-> t] : t \in Totals}

(* What the operation's journals debit to the receivable.  A restructure posts
   none: its change of the balance is not booked. *)
Posted(type, seen, next) ==
    CASE type = "write_off" -> -seen.balance
      [] type = "restructure" -> 0
      [] OTHER -> next.balance - seen.balance

(* Mutant of StillAsRead: the balance is left out of the update's condition. *)
StillAsReadStatus(type, now, seen) == now.status = seen.status

(* The update's condition.  A write-off names status and balance only. *)
StillAsRead(type, now, seen) ==
    /\ now.status = seen.status
    /\ now.balance = seen.balance
    /\ type # "write_off" => now.expected = seen.expected

(* The journal of a write-off goes under the loan's id: there is only one. *)
WrittenOffBefore(l) ==
    \E r \in Requests :
        request[r].loan = l /\ request[r].type = "write_off" /\ request[r].status = "approved"

(* Mutant of MayPost: journals do not have to be unique. *)
MayPostAlways(type, l) == TRUE

MayPost(type, l) == type = "write_off" => ~WrittenOffBefore(l)

UpdateLoan(u) ==
    LET l == LoanOf(u) IN
    /\ review[u].at = "read"
    /\ Unlocked(l)
    /\ StillAsRead(TypeOf(u), loan[l], review[u].seen)
    /\ MayPost(TypeOf(u), l)
    /\ Outcomes(TypeOf(u), loan[l], review[u].seen) # {}
    /\ holder' = [holder EXCEPT ![l] = u]
    /\ Goto(u, "updated")
    /\ UNCHANGED <<loan, receivable, synced, charging, requestVars, events, faults>>

Announces == {"write_off", "restructure"}

(* The event is published on a connection of its own, although the caller's
   transaction is still open; a failure to publish is swallowed. *)
Announce(u) ==
    /\ review[u].at = "updated"
    /\ TypeOf(u) \in Announces
    /\ events' \in {events, events \union {review[u].request}}
    /\ Goto(u, "announced")
    /\ UNCHANGED <<servicingVars, requestVars, faults>>

Release(u) == holder' = [l \in Loans |-> IF holder[l] = u THEN None ELSE holder[l]]

(* Mutant of End: the transaction leaves its lock behind. *)
EndHoldingLock(u) == Stop(u) /\ UNCHANGED holder

End(u) == Stop(u) /\ Release(u)

CommitReview(u) ==
    LET r == review[u].request
        l == LoanOf(u)
    IN
    /\ \/ review[u].at = "announced"
       \/ review[u].at = "updated" /\ TypeOf(u) \notin Announces
    /\ \E next \in Outcomes(TypeOf(u), loan[l], review[u].seen) :
          /\ loan' = [loan EXCEPT ![l] = next]
          /\ receivable' = [receivable EXCEPT ![l] = @ + Posted(TypeOf(u), review[u].seen, next)]
    /\ request' = [request EXCEPT ![r] = WithDecision(@, "approved", u, loan[l])]
    /\ End(u)
    /\ UNCHANGED <<synced, charging, lapsed, asking, events, faults>>

(* The loan is not what it should be: the approval is rolled back with it. *)
RefuseExecution(u) ==
    LET l == LoanOf(u) IN
    /\ \/ review[u].at = "finalized" /\ MayDiffer(loan[l], Snapshot(u))
       \/ review[u].at = "prechecked" /\ MayNotExecute(u)
       \/ /\ review[u].at = "read"
          /\ Unlocked(l)
          /\ \/ ~StillAsRead(TypeOf(u), loan[l], review[u].seen)
             \/ ~MayPost(TypeOf(u), l)
             \/ Outcomes(TypeOf(u), loan[l], review[u].seen) = {}
    /\ End(u)
    /\ UNCHANGED <<loan, receivable, synced, charging, requestVars, events, faults>>

(* A statement fails or the transaction's time is up. *)
RollBack(u) ==
    /\ review[u].at \in InTransaction
    /\ faults < MaxFaults
    /\ faults' = faults + 1
    /\ End(u)
    /\ UNCHANGED <<loan, receivable, synced, charging, requestVars, events>>

ReviewStep(u) ==
    \/ Reject(u)
    \/ RejectTooLate(u)
    \/ FinalizeRequest(u)
    \/ FindDecided(u)
    \/ PreCheck(u)
    \/ ReadLoan(u)
    \/ UpdateLoan(u)
    \/ Announce(u)
    \/ CommitReview(u)
    \/ RefuseExecution(u)

(* The server dies: requests and jobs in flight are gone, their transactions
   roll back and their locks with them. *)
Crash ==
    /\ faults < MaxFaults
    /\ faults' = faults + 1
    /\ holder' = [l \in Loans |-> None]
    /\ synced' = [j \in SyncJobs |-> NotLoaded]
    /\ charging' = [p \in PenaltyJobs |-> None]
    /\ asking' = [u \in Users |-> NotAsking]
    /\ review' = [u \in Users |-> NoReview]
    /\ UNCHANGED <<loan, receivable, request, lapsed, events>>

ApprovalNext ==
    \/ ServicingNext /\ UNCHANGED <<request, lapsed, asking, review, events, faults>>
    \/ \E r \in Requests : Lapse(r)
    \/ ListPendingRequests
    \/ \E u \in Makers, l \in Loans, type \in Types : ReadForRequest(u, l, type)
    \/ \E u \in Makers, r \in Requests : CreateRequest(u, r)
    \/ \E u \in Makers : RefuseDuplicate(u)
    \/ \E u \in Users, r \in Requests, decision \in {"rejecting", "approving"} :
          StartReview(u, r, decision)
    \/ \E u \in Users : ReviewStep(u)
    \/ \E u \in Users : RollBack(u)
    \/ Crash

ApprovalSpec == ApprovalInit /\ [][ApprovalNext]_approvalVars

FairApprovalSpec == ApprovalSpec /\ \A u \in Checkers : SF_approvalVars(ReviewStep(u))

-----------------------------------------------------------------------------
(* Properties *)

Decided == {"approved", "rejected", "expired"}

RequestRows ==
    [type : Types, loan : Loans, by : Users, status : {"pending"} \union Decided,
     snapshot : Rows, checker : Users \union {None}, ranOn : Rows \union {NoRow}]

Stages == {"rejecting", "approving"} \union InTransaction

(* Requests, reviews and locks belong together: a review in flight is of a
   request that exists, and a locked loan is one its transaction has updated. *)
ApprovalTypeOK ==
    /\ ServicingTypeOK
    /\ request \in [Requests -> RequestRows \union {NoRequest}]
    /\ lapsed \subseteq Requests
    /\ asking \in [Users -> [type : Types, loan : Loans, seen : Rows] \union {NotAsking}]
    /\ review \in [Users -> [at : Stages, request : Requests, seen : Rows \union {NoRow}]
                                \union {NoReview}]
    /\ events \subseteq Requests
    /\ faults \in 0 .. MaxFaults
    /\ \A u \in Users : review[u].seen.balance <= review[u].seen.expected
    /\ \A u \in Users : review[u] # NoReview => request[review[u].request] # NoRequest
    /\ \A u \in Users, l \in Loans :
          holder[l] = u <=> review[u].at \in {"updated", "announced"} /\ LoanOf(u) = l

(* Maker-checker: whatever checkers and makers do at once, a request is decided
   by a user with a checker role who did not make it, admins included. *)
OtherEyes ==
    \A r \in Requests :
        request[r].status \in {"approved", "rejected"} =>
            request[r].checker \in Checkers /\ request[r].checker # request[r].by

(* A write-off or restructure that was executed ran on a loan that owed something
   and had the status its maker saw and the balance to a cent: a repayment of more
   or another operation in between, even during the transaction and even in
   steps of a cent, turns it away. *)
ExecutedAsRequested ==
    \A r \in Requests :
        request[r].status = "approved" /\ request[r].type \in {"write_off", "restructure"} =>
            /\ request[r].ranOn.status = request[r].snapshot.status
            /\ request[r].ranOn.balance > 0
            /\ request[r].ranOn.balance - request[r].snapshot.balance \in -1 .. 1

RestructuredBefore(l) ==
    \E r \in Requests :
        request[r].loan = l /\ request[r].type = "restructure" /\ request[r].status = "approved"

(* The ledger and the loan agree on what is owed, nothing once it is written
   off, however repayments and executions interleave.  Only a restructure
   changes the balance without a journal. *)
ReceivableMatchesBalance ==
    \A l \in Loans :
        ~RestructuredBefore(l) =>
            receivable[l] = IF loan[l].status = "written_off" THEN 0 ELSE loan[l].balance

(* At most one request of a type is pending on a loan, two makers at once and
   requests past their time included. *)
OnePending ==
    \A r1, r2 \in Requests :
        /\ Pending(r1) /\ Pending(r2)
        /\ request[r1].type = request[r2].type
        /\ request[r1].loan = request[r2].loan
        => r1 = r2

(* A write-off is booked once in a loan's life, even when the overdue job has
   saved an old row over the first one. *)
WrittenOffOnce ==
    \A r1, r2 \in Requests :
        /\ request[r1].type = "write_off" /\ request[r2].type = "write_off"
        /\ request[r1].loan = request[r2].loan
        /\ request[r1].status = "approved" /\ request[r2].status = "approved"
        => r1 = r2

(* A request is decided once: of two checkers, or a checker and the clock, the
   second finds it decided. *)
DecisionIsFinal ==
    [][\A r \in Requests :
          request[r].status \in Decided => request'[r] = request[r]]_request

(* No row is ever locked there. *)
Atomic ==
    INSTANCE AtomicApprovals
    WITH holder <- [l \in Loans |-> None]

(* However many statements a review takes, and whoever writes the loan and the
   request between them, a review is one step on the loan as it is when it
   commits, or none: seen from outside there are no locks and no transactions. *)
ReviewsAreAtomic == Atomic!AtomicSpec

(* LoanStatus lists written_off among the "statuses from which no further
   mutations are allowed". *)
WrittenOffIsFinal ==
    [][\A l \in Loans : loan[l].status = "written_off" => loan'[l] = loan[l]]_loan

(* "The Prisma transaction has committed": an event in the outbox tells of an
   operation that was executed, or whose transaction is about to be. *)
EventsAreFacts ==
    \A r \in events :
        \/ request[r].status = "approved"
        \/ \E u \in Users : review[u].request = r /\ review[u].at = "announced"

(* Reviews do not wait for each other for ever: each ends, decided, refused or
   rolled back, although it may have waited for two row locks. *)
ReviewsEnd == \A u \in Checkers : review[u].at # "idle" ~> review[u].at = "idle"

=============================================================================
