----------------------- MODULE B2CDisbursement_Proofs -----------------------
(***************************************************************************)
(* Proofs about B2CDisbursement, for every number of wallet requests,      *)
(* retries and loans.  Every step of it is a LifecycleStep or leaves the   *)
(* lifecycle alone, so the invariants of LoanLifecycle carry over; the     *)
(* rows' own invariants are proved on top of them.                         *)
(***************************************************************************)
EXTENDS B2CDisbursement, LoanLifecycle_Proofs

(* What the composition does to loans and disburseLoan calls, the lifecycle
   module's own steps do. *)
LEMMA B2CStepIsLifecycleStep ==
    ASSUME B2CTypeOK, B2CNext
    PROVE  [LifecycleStep]_lifecycleVars
<1> USE B2CAssumption
<1>1. CASE Decide /\ UNCHANGED b2cVars
  BY <1>1 DEF LifecycleStep
<1>2. CASE CashDisbursement /\ UNCHANGED b2cVars
  BY <1>2 DEF CashDisbursement, LifecycleStep
<1>3. ASSUME NEW c \in Callers, CoreStep(c) PROVE LifecycleStep
  BY <1>3 DEF LifecycleStep, CoreStep
<1>4. ASSUME NEW c \in Callers, FailDisbursement(c) PROVE LifecycleStep
  BY <1>4 DEF LifecycleStep
<1>5. ASSUME NEW c \in Tellers, Return(c) PROVE LifecycleStep
  BY <1>5 DEF LifecycleStep
<1>6. ASSUME NEW r \in Rows, NEW l \in Loans, InitiateB2C(r, l)
      PROVE  UNCHANGED lifecycleVars
  BY <1>6 DEF InitiateB2C
<1>7. ASSUME NEW r \in Rows, HandlerStep(r) PROVE [LifecycleStep]_lifecycleVars
  <2>1. CASE StartCore(r)
    <3>1. rowLoan[r] \in Loans
      BY <2>1 DEF StartCore, B2CTypeOK
    <3> QED
      BY <2>1, <3>1 DEF StartCore, LifecycleStep
  <2>2. CASE CoreReturns(r)
    BY <2>2 DEF CoreReturns, LifecycleStep
  <2>3. CASE ~StartCore(r) /\ ~CoreReturns(r)
    BY <1>7, <2>3
    DEF HandlerStep, CallProvider, CircuitOpen, ProviderAnswers, CallThrows,
        RecordAcceptance, MarkPending, RecheckPending, MarkFailed, Reconcile,
        Confirm, MarkCoreFailed
  <2> QED
    BY <2>1, <2>2, <2>3
<1>8. ASSUME NEW r \in Rows, ProviderStep(r) PROVE UNCHANGED lifecycleVars
  BY <1>8 DEF ProviderStep, ProviderAccepts, ProviderRefuses, ProviderPays,
              ProviderGivesUp, QueueTimesOut
<1>9. ASSUME NEW r \in Rows, NEW n \in {"completed", "failed"}, Callback(r, n)
      PROVE  UNCHANGED lifecycleVars
  BY <1>9 DEF Callback
<1>10. ASSUME NEW r \in Rows, RetryReversal(r) PROVE UNCHANGED lifecycleVars
  BY <1>10 DEF RetryReversal
<1>11. ASSUME NEW w \in Retriers, NEW r \in Rows, Scan(w, r) \/ AdminRetry(w, r)
       PROVE  UNCHANGED lifecycleVars
  BY <1>11 DEF Scan, AdminRetry
<1>12. ASSUME NEW w \in Retriers, RetryStep(w) PROVE [LifecycleStep]_lifecycleVars
  <2>1. CASE Claim(w)
    BY <2>1 DEF Claim
  <2>2. CASE RetryRead(w)
    <3>1. retry[w].row \in Rows /\ rowLoan[retry[w].row] \in Loans
      BY <2>2 DEF RetryRead, B2CTypeOK
    <3> QED
      BY <2>2, <3>1 DEF RetryRead, RetryInScope, LifecycleStep
  <2>3. CASE RetryFinish(w)
    BY <2>3 DEF RetryFinish, LifecycleStep
  <2> QED
    BY <1>12, <2>1, <2>2, <2>3 DEF RetryStep
<1>13. CASE B2CCrash
  BY <1>13 DEF B2CCrash, LifecycleStep
<1> QED
  BY <1>1, <1>2, <1>3, <1>4, <1>5, <1>6, <1>7, <1>8, <1>9, <1>10, <1>11, <1>12,
     <1>13
  DEF B2CNext

-----------------------------------------------------------------------------
(* Types.  The part of B2CTypeOK about the rows; TypeOK carries over. *)

RowTypeOK ==
    /\ rowStatus \in [Rows -> RowStatus]
    /\ rowLoan \in [Rows -> Loans \union {None}]
    /\ known \subseteq Rows
    /\ reversals \in [Rows -> 0 .. MaxReversals]
    /\ handler \in [Rows -> HandlerPC]
    /\ payout \in [Rows -> PayoutState]
    /\ notices \in [Rows -> SUBSET {"completed", "failed"}]
    /\ \A r \in Rows : (handler[r] = "none") = (rowStatus[r] = "absent")
    /\ \A r \in Rows : rowStatus[r] # "absent" => rowLoan[r] \in Loans

RetryTypeOK ==
    /\ retry \in [Retriers -> Retry]
    /\ \A w \in Retriers :
          retry[w].at # "idle" => /\ retry[w].row \in Rows
                                  /\ rowStatus[retry[w].row] # "absent"

(* The type invariant is the conjunction of its parts. *)
LEMMA B2CTypeParts == B2CTypeOK <=> TypeOK /\ RowTypeOK /\ RetryTypeOK
  BY DEF B2CTypeOK, RowTypeOK, RetryTypeOK

(* An update of a row changes a retry's freshness at most. *)
LEMMA WriteKeepsRetries ==
    ASSUME RetryTypeOK, NEW r \in Rows
    PROVE  /\ RetryAfterWriteOf(r) \in [Retriers -> Retry]
           /\ \A w \in Retriers :
                 /\ RetryAfterWriteOf(r)[w].at = retry[w].at
                 /\ RetryAfterWriteOf(r)[w].row = retry[w].row
  BY DEF RetryTypeOK, RetryAfterWriteOf, Retry

(* A guarded update of a row sets its status and keeps the types. *)
LEMMA WriteTyped ==
    ASSUME RetryTypeOK, rowStatus \in [Rows -> RowStatus], NEW r \in Rows,
           NEW st \in RowStatus, st # "absent", Write(r, st)
    PROVE  /\ rowStatus' \in [Rows -> RowStatus]
           /\ rowStatus' = [rowStatus EXCEPT ![r] = st]
           /\ RetryTypeOK'
<1>1. /\ rowStatus' = [rowStatus EXCEPT ![r] = st]
      /\ retry' = RetryAfterWriteOf(r)
  BY DEF Write
<1> QED
  BY <1>1, WriteKeepsRetries DEF RetryTypeOK

(* A wallet request's steps keep the types. *)
LEMMA HandlerTyped ==
    ASSUME RowTypeOK, RetryTypeOK, NEW r \in Rows, HandlerStep(r)
    PROVE  RowTypeOK' /\ RetryTypeOK'
<1> USE DEF RowTypeOK, Proceed, HandlerPC, rowVars
<1>1. CASE CallProvider(r)
  BY <1>1 DEF CallProvider, PayoutState, RetryTypeOK
<1>2. CASE CircuitOpen(r)
  BY <1>2 DEF CircuitOpen, RetryTypeOK
<1>3. CASE ProviderAnswers(r)
  BY <1>3 DEF ProviderAnswers, RetryTypeOK
<1>4. CASE CallThrows(r)
  BY <1>4 DEF CallThrows, RetryTypeOK
<1>5. CASE RecordAcceptance(r)
  <2>1. CASE rowStatus[r] = "initiated"
    <3>1. RetryTypeOK' /\ rowStatus' = [rowStatus EXCEPT ![r] = "accepted"]
      BY <1>5, <2>1, WriteTyped DEF RecordAcceptance, RowStatus
    <3> QED
      BY <1>5, <2>1, <3>1 DEF RecordAcceptance, RowStatus
  <2>2. CASE rowStatus[r] # "initiated"
    BY <1>5, <2>2 DEF RecordAcceptance, RetryTypeOK
  <2> QED
    BY <2>1, <2>2
<1>6. CASE MarkPending(r)
  <2>1. CASE rowStatus[r] \in {"initiated", "accepted", "completed"}
    <3>1. RetryTypeOK' /\ rowStatus' = [rowStatus EXCEPT ![r] = "core_pending"]
      BY <1>6, <2>1, WriteTyped DEF MarkPending, RowStatus
    <3> QED
      BY <1>6, <2>1, <3>1 DEF MarkPending, RowStatus
  <2>2. CASE rowStatus[r] \notin {"initiated", "accepted", "completed"}
    BY <1>6, <2>2 DEF MarkPending, RetryTypeOK
  <2> QED
    BY <2>1, <2>2
<1>7. CASE RecheckPending(r)
  BY <1>7 DEF RecheckPending, RetryTypeOK
<1>8. CASE MarkFailed(r)
  <2>1. CASE rowStatus[r] \in FailableStatus
    <3>1. RetryTypeOK' /\ rowStatus' = [rowStatus EXCEPT ![r] = "failed"]
      BY <1>8, <2>1, WriteTyped DEF MarkFailed, RowStatus
    <3> QED
      BY <1>8, <2>1, <3>1 DEF MarkFailed, RowStatus
  <2>2. CASE rowStatus[r] \notin FailableStatus
    BY <1>8, <2>2 DEF MarkFailed, RetryTypeOK
  <2> QED
    BY <2>1, <2>2
<1>9. CASE StartCore(r)
  BY <1>9 DEF StartCore, RetryTypeOK
<1>10. CASE CoreReturns(r)
  BY <1>10 DEF CoreReturns, RetryTypeOK
<1>11. CASE Reconcile(r)
  <2>1. CASE rowStatus[r] \in {"initiated", "accepted", "core_pending"}
    <3>1. RetryTypeOK' /\ rowStatus' = [rowStatus EXCEPT ![r] = "core_disbursed"]
      BY <1>11, <2>1, WriteTyped DEF Reconcile, RowStatus
    <3> QED
      BY <1>11, <2>1, <3>1 DEF Reconcile, RowStatus
  <2>2. CASE rowStatus[r] \notin {"initiated", "accepted", "core_pending"}
    BY <1>11, <2>2 DEF Reconcile, RetryTypeOK
  <2> QED
    BY <2>1, <2>2
<1>12. CASE Confirm(r)
  BY <1>12 DEF Confirm, RetryTypeOK
<1>13. CASE MarkCoreFailed(r)
  <2> DEFINE from == {"core_pending", "accepted", "initiated", "core_failed"}
  <2>1. CASE rowStatus[r] \in from
    <3>1. RetryTypeOK' /\ rowStatus' = [rowStatus EXCEPT ![r] = "core_failed"]
      BY <1>13, <2>1, WriteTyped DEF MarkCoreFailed, RowStatus
    <3> QED
      BY <1>13, <2>1, <3>1 DEF MarkCoreFailed, RowStatus
  <2>2. CASE rowStatus[r] \notin from
    BY <1>13, <2>2 DEF MarkCoreFailed, RetryTypeOK
  <2> QED
    BY <2>1, <2>2
<1> QED
  BY <1>1, <1>2, <1>3, <1>4, <1>5, <1>6, <1>7, <1>8, <1>9, <1>10, <1>11, <1>12,
     <1>13
  DEF HandlerStep

(* A retry that lets go of its row. *)
LEMMA DroppedRetryTyped ==
    ASSUME RowTypeOK, RetryTypeOK, NEW w \in Retriers,
           retry' = [retry EXCEPT ![w] = NoRetry],
           UNCHANGED <<rowVars, handler, payout, notices>>
    PROVE  RowTypeOK' /\ RetryTypeOK'
<1>1. NoRetry \in Retry /\ NoRetry.at = "idle"
  BY DEF NoRetry, Retry
<1>2. retry' \in [Retriers -> Retry]
  BY <1>1 DEF RetryTypeOK
<1>3. \A v \in Retriers : retry'[v] = IF v = w THEN NoRetry ELSE retry[v]
  BY DEF RetryTypeOK
<1>4. RetryTypeOK'
  BY <1>1, <1>2, <1>3 DEF RetryTypeOK, rowVars
<1> QED
  BY <1>4 DEF RowTypeOK, rowVars

(* A retry's steps keep the types. *)
LEMMA RetryTyped ==
    ASSUME RowTypeOK, RetryTypeOK, NEW w \in Retriers,
           \/ \E r \in Rows : Scan(w, r) \/ AdminRetry(w, r)
           \/ RetryStep(w)
    PROVE  RowTypeOK' /\ RetryTypeOK'
<1> USE DEF rowVars
<1> DEFINE r == retry[w].row
<1>1. ASSUME NEW q \in Rows, Scan(w, q) \/ AdminRetry(w, q)
      PROVE  RowTypeOK' /\ RetryTypeOK'
  <2> DEFINE found == {[at |-> "claiming", row |-> q, fresh |-> TRUE],
                       [at |-> "reading", row |-> q, fresh |-> FALSE]}
  <2>1. /\ rowStatus[q] # "absent"
        /\ \E e \in found : retry' = [retry EXCEPT ![w] = e]
        /\ UNCHANGED <<rowVars, handler, payout, notices>>
    BY <1>1 DEF Scan, AdminRetry, RetryableStatus
  <2>2. PICK e \in found : retry' = [retry EXCEPT ![w] = e]
    BY <2>1
  <2>3. e \in Retry /\ e.row = q
    <3>1. CASE e = [at |-> "claiming", row |-> q, fresh |-> TRUE]
      BY <3>1 DEF Retry
    <3>2. CASE e = [at |-> "reading", row |-> q, fresh |-> FALSE]
      BY <3>2 DEF Retry
    <3> QED
      BY <3>1, <3>2
  <2>4. retry' \in [Retriers -> Retry]
    BY <2>2, <2>3 DEF RetryTypeOK
  <2>5. \A v \in Retriers : retry'[v] = IF v = w THEN e ELSE retry[v]
    BY <2>2 DEF RetryTypeOK
  <2>6. RetryTypeOK'
    BY <2>1, <2>3, <2>4, <2>5 DEF RetryTypeOK
  <2> QED
    BY <2>1, <2>6 DEF RowTypeOK
<1>2. CASE Claim(w)
  <2>1. r \in Rows /\ rowStatus[r] # "absent"
    BY <1>2 DEF Claim, RetryTypeOK
  <2>2. CASE retry[w].fresh
    <3>1. rowStatus' = [rowStatus EXCEPT ![r] = "core_pending"]
      BY <1>2, <2>2 DEF Claim
    <3>2. RowTypeOK'
      BY <1>2, <2>1, <3>1 DEF Claim, RowTypeOK, RowStatus
    <3>3. retry' = [RetryAfterWriteOf(r) EXCEPT
                       ![w] = [at |-> "reading", row |-> r, fresh |-> FALSE]]
      BY <1>2, <2>2 DEF Claim
    <3>4. [at |-> "reading", row |-> r, fresh |-> FALSE] \in Retry
      BY <2>1 DEF Retry
    <3>5. retry' \in [Retriers -> Retry]
      BY <2>1, <3>3, <3>4, WriteKeepsRetries
    <3>6. \A v \in Retriers : retry'[v].at # "idle" =>
              retry'[v].row \in Rows /\ rowStatus'[retry'[v].row] # "absent"
      BY <2>1, <3>1, <3>3, WriteKeepsRetries DEF RetryTypeOK, RowTypeOK
    <3> QED
      BY <3>2, <3>5, <3>6 DEF RetryTypeOK
  <2>3. CASE ~retry[w].fresh
    BY <1>2, <2>3, DroppedRetryTyped DEF Claim
  <2> QED
    BY <2>2, <2>3
<1>3. CASE RetryRead(w)
  <2>1. CASE rowStatus[r] \in RetryableStatus
    <3>1. /\ retry' = [retry EXCEPT ![w].at = "core"]
          /\ UNCHANGED <<rowVars, handler, payout, notices>>
      BY <1>3, <2>1 DEF RetryRead
    <3>2. r \in Rows /\ rowStatus[r] # "absent"
      BY <1>3 DEF RetryRead, RetryTypeOK
    <3>3. retry' \in [Retriers -> Retry]
      BY <3>1 DEF RetryTypeOK, Retry
    <3>4. \A v \in Retriers :
              retry'[v] = IF v = w THEN [retry[w] EXCEPT !.at = "core"] ELSE retry[v]
      BY <3>1 DEF RetryTypeOK
    <3>5. [retry[w] EXCEPT !.at = "core"].row = r
      BY DEF RetryTypeOK, Retry
    <3>6. RetryTypeOK'
      BY <3>1, <3>2, <3>3, <3>4, <3>5 DEF RetryTypeOK
    <3> QED
      BY <3>1, <3>6 DEF RowTypeOK
  <2>2. CASE rowStatus[r] \notin RetryableStatus
    BY <1>3, <2>2, DroppedRetryTyped DEF RetryRead
  <2> QED
    BY <2>1, <2>2
<1>4. CASE RetryFinish(w)
  <2>1. r \in Rows /\ rowStatus[r] # "absent"
    BY <1>4 DEF RetryFinish, RetryTypeOK
  <2>2. RetryOutcome(w) \in {"core_disbursed", "core_failed"}
    BY DEF RetryOutcome
  <2>3. RowTypeOK'
    BY <1>4, <2>1, <2>2 DEF RetryFinish, RowTypeOK, RowStatus
  <2>4. /\ rowStatus' = [rowStatus EXCEPT ![r] = RetryOutcome(w)]
        /\ retry' = [RetryAfterWriteOf(r) EXCEPT ![w] = NoRetry]
    BY <1>4 DEF RetryFinish
  <2>5. NoRetry \in Retry /\ NoRetry.at = "idle"
    BY DEF NoRetry, Retry
  <2>6. retry' \in [Retriers -> Retry]
    BY <2>1, <2>4, <2>5, WriteKeepsRetries
  <2>7. \A v \in Retriers : retry'[v].at # "idle" =>
            retry'[v].row \in Rows /\ rowStatus'[retry'[v].row] # "absent"
    BY <2>1, <2>2, <2>4, <2>5, WriteKeepsRetries DEF RetryTypeOK, RowTypeOK
  <2> QED
    BY <2>3, <2>6, <2>7 DEF RetryTypeOK
<1> QED
  BY <1>1, <1>2, <1>3, <1>4 DEF RetryStep

(* What neither a request nor a retry does. *)
LEMMA OthersTyped ==
    ASSUME RowTypeOK, RetryTypeOK,
           \/ Decide /\ UNCHANGED b2cVars
           \/ CashDisbursement /\ UNCHANGED b2cVars
           \/ \E c \in Callers : CoreStep(c)
           \/ \E c \in Callers : FailDisbursement(c) /\ UNCHANGED b2cVars
           \/ \E c \in Tellers : Return(c) /\ UNCHANGED b2cVars
           \/ \E r \in Rows, l \in Loans : InitiateB2C(r, l)
           \/ \E r \in Rows : ProviderStep(r)
           \/ \E r \in Rows, n \in {"completed", "failed"} : Callback(r, n)
           \/ \E r \in Rows : RetryReversal(r)
           \/ B2CCrash
           \/ UNCHANGED b2cVars
    PROVE  RowTypeOK' /\ RetryTypeOK'
<1> USE B2CAssumption DEF rowVars
<1>1. ASSUME UNCHANGED b2cVars PROVE RowTypeOK' /\ RetryTypeOK'
  BY <1>1 DEF b2cVars, RowTypeOK, RetryTypeOK
<1>2. ASSUME NEW r \in Rows, NEW l \in Loans, InitiateB2C(r, l)
      PROVE  RowTypeOK' /\ RetryTypeOK'
  <2>1. RetryTypeOK' /\ rowStatus' = [rowStatus EXCEPT ![r] = "initiated"]
    BY <1>2, WriteTyped DEF InitiateB2C, RowTypeOK, RowStatus
  <2> QED
    BY <1>2, <2>1 DEF InitiateB2C, Proceed, HandlerPC, RowTypeOK, RowStatus
<1>3. ASSUME NEW r \in Rows, ProviderStep(r) PROVE RowTypeOK' /\ RetryTypeOK'
  BY <1>3 DEF ProviderStep, ProviderAccepts, ProviderRefuses, ProviderPays,
              ProviderGivesUp, QueueTimesOut, PayoutState, RowTypeOK, RetryTypeOK
<1>4. ASSUME NEW r \in Rows, NEW n \in {"completed", "failed"}, Callback(r, n)
      PROVE  RowTypeOK' /\ RetryTypeOK'
  <2>1. /\ ResultOf(n) \in {"completed", "failed"}
        /\ rowStatus[r] # "absent"
    BY <1>4 DEF Callback, ResultOf, CompletableStatus, CallbackFailableStatus
  <2>2. RetryTypeOK' /\ rowStatus' = [rowStatus EXCEPT ![r] = ResultOf(n)]
    BY <1>4, <2>1, WriteTyped DEF Callback, RowTypeOK, RowStatus
  <2> QED
    BY <1>4, <2>1, <2>2 DEF Callback, RowTypeOK, RowStatus
<1>5. ASSUME NEW r \in Rows, RetryReversal(r) PROVE RowTypeOK' /\ RetryTypeOK'
  <2>1. RetryTypeOK' /\ rowStatus' = [rowStatus EXCEPT ![r] = rowStatus[r]]
    BY <1>5, WriteTyped DEF RetryReversal, RowTypeOK, RowStatus
  <2> QED
    BY <1>5, <2>1 DEF RetryReversal, RowTypeOK
<1>6. CASE B2CCrash
  BY <1>6 DEF B2CCrash, HandlerPC, RowTypeOK, RetryTypeOK, NoRetry, Retry
<1> QED
  BY <1>1, <1>2, <1>3, <1>4, <1>5, <1>6 DEF CoreStep

(* Every step keeps the types. *)
LEMMA B2CTypeNext == B2CTypeOK /\ [B2CNext]_vars => B2CTypeOK'
<1> SUFFICES ASSUME B2CTypeOK, [B2CNext]_vars
             PROVE  B2CTypeOK'
  OBVIOUS
<1>1. TypeOK /\ RowTypeOK /\ RetryTypeOK
  BY B2CTypeParts
<1>2. [LifecycleStep]_lifecycleVars
  BY B2CStepIsLifecycleStep DEF vars, lifecycleVars
<1>3. TypeOK'
  BY <1>1, <1>2, TypeNext
<1>4. RowTypeOK' /\ RetryTypeOK'
  <2>1. CASE \E r \in Rows : HandlerStep(r)
    BY <1>1, <2>1, HandlerTyped
  <2>2. CASE \/ \E w \in Retriers, r \in Rows : Scan(w, r) \/ AdminRetry(w, r)
             \/ \E w \in Retriers : RetryStep(w)
    BY <1>1, <2>2, RetryTyped
  <2>3. CASE UNCHANGED vars
    BY <1>1, <2>3, OthersTyped DEF vars
  <2> QED
    BY <1>1, <2>1, <2>2, <2>3, OthersTyped DEF B2CNext
<1> QED
  BY <1>3, <1>4 DEF B2CTypeOK, RowTypeOK, RetryTypeOK

(* The initial states are typed. *)
LEMMA B2CInitTyped == B2CInit => B2CTypeOK
<1> SUFFICES ASSUME B2CInit PROVE B2CTypeOK
  OBVIOUS
<1>1. TypeOK
  BY TypeInit DEF B2CInit
<1>2. RowTypeOK
  BY B2CAssumption DEF B2CInit, RowTypeOK, RowStatus, HandlerPC, PayoutState
<1>3. RetryTypeOK
  BY DEF B2CInit, RetryTypeOK, NoRetry, Retry
<1> QED
  BY <1>1, <1>2, <1>3, B2CTypeParts

(* Rows, requests, notices and retries are what the code's columns, statements
   and routes allow; a retry at work holds a row that was inserted. *)
THEOREM B2CTypeCorrect == B2CSpec => []B2CTypeOK
  BY B2CInitTyped, B2CTypeNext, PTL DEF B2CSpec

(* Every step of the composition is one of the lifecycle, or none of it. *)
LEMMA B2CNextIsLifecycleStep ==
    B2CTypeOK /\ [B2CNext]_vars => [LifecycleStep]_lifecycleVars
  BY B2CStepIsLifecycleStep DEF vars, lifecycleVars

(* The lifecycle's invariants, carried over to the composition. *)
LEMMA B2CLifecycle == B2CSpec => []LifecycleInv
<1>1. B2CInit => LifecycleInv
  BY LifecycleInit DEF B2CInit
<1>2. LifecycleInv /\ B2CTypeOK /\ [B2CNext]_vars => LifecycleInv'
  BY LifecycleNext, B2CNextIsLifecycleStep
<1> QED
  BY <1>1, <1>2, B2CTypeCorrect, PTL DEF B2CSpec

(* Wallet requests, retries, callbacks and cash disbursements side by side keep
   the book of a loan: what the wallet code does to it, disburseLoan does. *)
THEOREM WalletKeepsTheBook == B2CSpec => KeepsTheBook
<1>1. B2CInit => Book!Init
  BY DEF B2CInit, Init, Book!Init
<1>2. /\ B2CTypeOK /\ LifecycleInv /\ LifecycleInv'
      /\ [B2CNext]_vars
      => [Book!Next]_(Book!bookVars)
  BY StepIsInBook, B2CNextIsLifecycleStep
<1> QED
  BY <1>1, <1>2, B2CTypeCorrect, B2CLifecycle, PTL
  DEF B2CSpec, KeepsTheBook, Book!Spec

(* With every way to ask for a disbursement open at once, what is out on a loan
   stays within the principal and a cent for each request in flight. *)
THEOREM WalletOverdraftIsBounded == B2CSpec => []OverdrawBounded
<1>1. LifecycleInv => OverdrawBounded
  BY RoomBounds DEF LifecycleInv
<1> QED
  BY <1>1, B2CLifecycle, PTL

-----------------------------------------------------------------------------
(* What a row may say of the provider's answer *)

CoreStatus ==
    {"accepted", "core_pending", "core_disbursed", "core_failed", "completed"}

PastAcceptance ==
    {"recording", "marking", "rechecking", "starting", "core", "reconciling",
     "confirming", "core_failing"}

(* CoreFollowsAcceptance and CompletedIsPaid with what they rest on: before the
   call there is no payout, a recorded request id and a retry are of accepted
   transfers, and the provider only announces what it did. *)
PaymentInv ==
    /\ \A r \in Rows : handler[r] \in {"none", "calling"} => payout[r] = "none"
    /\ \A r \in Rows : handler[r] \in PastAcceptance => ProviderAccepted(r)
    /\ \A r \in Rows : rowStatus[r] \in CoreStatus => ProviderAccepted(r)
    /\ \A r \in known : ProviderAccepted(r)
    /\ \A r \in Rows : "completed" \in notices[r] => payout[r] = "paid"
    /\ \A r \in Rows : rowStatus[r] = "completed" => payout[r] = "paid"
    /\ \A w \in Retriers :
          retry[w].at # "idle" => ProviderAccepted(retry[w].row)

(* A retry takes over no row that was not accepted. *)
RetriesAccepted ==
    \A w \in Retriers : retry[w].at # "idle" => ProviderAccepted(retry[w].row)

(* An update of a row lets no retry take over a row not accepted. *)
LEMMA WriteKeepsAcceptance ==
    ASSUME B2CTypeOK, RetriesAccepted, NEW r \in Rows,
           UNCHANGED payout,
           retry' = RetryAfterWriteOf(r)
    PROVE  RetriesAccepted'
<1>1. RetryTypeOK
  BY B2CTypeParts
<1> QED
  BY <1>1, WriteKeepsRetries DEF RetriesAccepted, ProviderAccepted

(* A wallet request's steps keep PaymentInv. *)
LEMMA PaymentHandler ==
    ASSUME B2CTypeOK, PaymentInv, NEW r \in Rows, HandlerStep(r)
    PROVE  PaymentInv'
<1> USE DEF PaymentInv, B2CTypeOK, Proceed, rowVars, CoreStatus,
            PastAcceptance, ProviderAccepted
<1>1. CASE CallProvider(r)
  BY <1>1 DEF CallProvider, Retry
<1>2. CASE CircuitOpen(r)
  BY <1>2 DEF CircuitOpen
<1>3. CASE ProviderAnswers(r)
  BY <1>3 DEF ProviderAnswers
<1>4. CASE CallThrows(r)
  BY <1>4 DEF CallThrows
<1>5. CASE RecordAcceptance(r)
  BY <1>5, WriteKeepsAcceptance DEF RecordAcceptance, Write, RetriesAccepted
<1>6. CASE MarkPending(r)
  BY <1>6, WriteKeepsAcceptance DEF MarkPending, Write, RetriesAccepted
<1>7. CASE RecheckPending(r)
  BY <1>7 DEF RecheckPending
<1>8. CASE MarkFailed(r)
  BY <1>8, WriteKeepsAcceptance DEF MarkFailed, Write, RetriesAccepted
<1>9. CASE StartCore(r)
  BY <1>9 DEF StartCore
<1>10. CASE CoreReturns(r)
  BY <1>10 DEF CoreReturns
<1>11. CASE Reconcile(r)
  BY <1>11, WriteKeepsAcceptance DEF Reconcile, Write, RetriesAccepted
<1>12. CASE Confirm(r)
  BY <1>12 DEF Confirm
<1>13. CASE MarkCoreFailed(r)
  BY <1>13, WriteKeepsAcceptance DEF MarkCoreFailed, Write, RetriesAccepted
<1> QED
  BY <1>1, <1>2, <1>3, <1>4, <1>5, <1>6, <1>7, <1>8, <1>9, <1>10, <1>11, <1>12,
     <1>13
  DEF HandlerStep

(* A retry's steps keep PaymentInv. *)
LEMMA PaymentRetry ==
    ASSUME B2CTypeOK, PaymentInv, NEW w \in Retriers,
           \/ \E r \in Rows : Scan(w, r) \/ AdminRetry(w, r)
           \/ RetryStep(w)
    PROVE  PaymentInv'
<1> USE DEF PaymentInv, B2CTypeOK, rowVars, CoreStatus, ProviderAccepted
<1>1. ASSUME NEW r \in Rows, Scan(w, r) \/ AdminRetry(w, r) PROVE PaymentInv'
  BY <1>1 DEF Scan, AdminRetry, RetryableStatus
<1>2. CASE Claim(w)
  <2>1. CASE retry[w].fresh
    <3> DEFINE r == retry[w].row
    <3>1. r \in Rows /\ ProviderAccepted(r)
      BY <1>2 DEF Claim
    <3>2. RetryTypeOK
      BY B2CTypeParts
    <3>3. /\ rowStatus' = [rowStatus EXCEPT ![r] = "core_pending"]
          /\ retry' = [RetryAfterWriteOf(r) EXCEPT
                          ![w] = [at |-> "reading", row |-> r, fresh |-> FALSE]]
          /\ UNCHANGED <<known, handler, payout, notices>>
      BY <1>2, <2>1 DEF Claim
    <3>4. \A v \in Retriers : retry'[v].at # "idle" =>
              ProviderAccepted(retry[v].row) /\ retry'[v].row = retry[v].row
      BY <1>2, <3>1, <3>2, <3>3, WriteKeepsRetries DEF Claim
    <3> QED
      BY <3>1, <3>3, <3>4
  <2>2. CASE ~retry[w].fresh
    BY <1>2, <2>2 DEF Claim, NoRetry
  <2> QED
    BY <2>1, <2>2
<1>3. CASE RetryRead(w)
  BY <1>3 DEF RetryRead, NoRetry, Retry
<1>4. CASE RetryFinish(w)
  <2> DEFINE r == retry[w].row
  <2>1. r \in Rows /\ ProviderAccepted(r)
    BY <1>4 DEF RetryFinish
  <2>2. RetryTypeOK
    BY B2CTypeParts
  <2>3. /\ rowStatus' = [rowStatus EXCEPT ![r] = RetryOutcome(w)]
        /\ retry' = [RetryAfterWriteOf(r) EXCEPT ![w] = NoRetry]
        /\ UNCHANGED <<known, handler, payout, notices>>
    BY <1>4 DEF RetryFinish
  <2>4. RetryOutcome(w) # "completed"
    BY DEF RetryOutcome
  <2>5. ASSUME NEW v \in Retriers, retry'[v].at # "idle"
        PROVE  ProviderAccepted(retry[v].row) /\ retry'[v].row = retry[v].row
    <3>1. CASE v = w
      <4>1. retry'[w] = NoRetry
        BY <2>1, <2>2, <2>3, WriteKeepsRetries
      <4> QED
        BY <2>5, <3>1, <4>1 DEF NoRetry
    <3>2. CASE v # w
      <4>1. retry'[v] = RetryAfterWriteOf(r)[v]
        BY <2>1, <2>2, <2>3, <3>2, WriteKeepsRetries
      <4>2. retry'[v].at = retry[v].at /\ retry'[v].row = retry[v].row
        BY <2>1, <2>2, <4>1, WriteKeepsRetries
      <4> QED
        BY <2>5, <4>2
    <3> QED
      BY <3>1, <3>2
  <2> QED
    BY <2>1, <2>3, <2>4, <2>5
<1> QED
  BY <1>1, <1>2, <1>3, <1>4 DEF RetryStep

(* The provider, callbacks, new rows, reversals and a crash keep PaymentInv. *)
LEMMA PaymentOthers ==
    ASSUME B2CTypeOK, PaymentInv,
           \/ UNCHANGED b2cVars
           \/ \E r \in Rows, l \in Loans : InitiateB2C(r, l)
           \/ \E r \in Rows : ProviderStep(r)
           \/ \E r \in Rows, n \in {"completed", "failed"} : Callback(r, n)
           \/ \E r \in Rows : RetryReversal(r)
           \/ B2CCrash
    PROVE  PaymentInv'
<1> USE DEF PaymentInv, B2CTypeOK, rowVars, CoreStatus, PastAcceptance,
            ProviderAccepted
<1>1. CASE UNCHANGED b2cVars
  BY <1>1 DEF b2cVars
<1>2. ASSUME NEW r \in Rows, NEW l \in Loans, InitiateB2C(r, l) PROVE PaymentInv'
  BY <1>2, WriteKeepsAcceptance DEF InitiateB2C, Write, Proceed, RetriesAccepted
<1>3. ASSUME NEW r \in Rows, ProviderStep(r) PROVE PaymentInv'
  BY <1>3 DEF ProviderStep, ProviderAccepts, ProviderRefuses, ProviderPays,
              ProviderGivesUp, QueueTimesOut
<1>4. ASSUME NEW r \in Rows, NEW n \in {"completed", "failed"}, Callback(r, n)
      PROVE  PaymentInv'
  BY <1>4, WriteKeepsAcceptance DEF Callback, Write, ResultOf, RetriesAccepted
<1>5. ASSUME NEW r \in Rows, RetryReversal(r) PROVE PaymentInv'
  BY <1>5, WriteKeepsAcceptance DEF RetryReversal, Write, RetriesAccepted
<1>6. CASE B2CCrash
  BY <1>6 DEF B2CCrash, NoRetry
<1> QED
  BY <1>1, <1>2, <1>3, <1>4, <1>5, <1>6

(* Ids, retries and completed rows belong to transfers that were accepted. *)
LEMMA PaymentAlways == B2CSpec => []PaymentInv
<1>1. B2CInit => PaymentInv
  BY DEF B2CInit, PaymentInv, NoRetry, PastAcceptance, CoreStatus
<1>2. B2CTypeOK /\ PaymentInv /\ [B2CNext]_vars => PaymentInv'
  <2> SUFFICES ASSUME B2CTypeOK, PaymentInv, [B2CNext]_vars PROVE PaymentInv'
    OBVIOUS
  <2>1. CASE \E r \in Rows : HandlerStep(r)
    BY <2>1, PaymentHandler
  <2>2. CASE \/ \E w \in Retriers, r \in Rows : Scan(w, r) \/ AdminRetry(w, r)
             \/ \E w \in Retriers : RetryStep(w)
    BY <2>2, PaymentRetry
  <2>3. CASE UNCHANGED b2cVars
    BY <2>3, PaymentOthers
  <2> QED
    BY <2>1, <2>2, <2>3, PaymentOthers DEF B2CNext, CoreStep, vars
<1> QED
  BY <1>1, <1>2, B2CTypeCorrect, PTL DEF B2CSpec

(* For any number of requests and retries: the core step follows the provider's
   acceptance, and a row is past acceptance only with it. *)
THEOREM CoreStepsAreAccepted == B2CSpec => []CoreFollowsAcceptance
<1>1. PaymentInv => CoreFollowsAcceptance
  BY DEF PaymentInv, CoreFollowsAcceptance, PastAcceptance, CoreStatus
<1> QED
  BY <1>1, PaymentAlways, PTL

(* For any number of requests and retries: a completed row was paid. *)
THEOREM CompletedRowsArePaid == B2CSpec => []CompletedIsPaid
<1>1. PaymentInv => CompletedIsPaid
  BY DEF PaymentInv, CompletedIsPaid
<1> QED
  BY <1>1, PaymentAlways, PTL

-----------------------------------------------------------------------------
(* What a row may say of the loan *)

(* A call in progress is for the row's loan and for what remains of it. *)
CoreCallOf(c, r) == call[c].loan = rowLoan[r] /\ call[c].ask = Remaining

RowBooked(r) == finals[rowLoan[r]] > 0

LinkInv ==
    /\ \A r \in Rows : handler[r] = "core" => CoreCallOf(r, r)
    /\ \A w \in Retriers : retry[w].at = "core" => CoreCallOf(w, retry[w].row)
    /\ \A r \in Rows :
          handler[r] \in {"reconciling", "confirming"} => RowBooked(r)
    /\ \A r \in Rows : rowStatus[r] = "core_disbursed" => RowBooked(r)

(* A booked final tranche stays. *)
LEMMA FinalsStay ==
    ASSUME TypeOK, [LifecycleStep]_lifecycleVars, NEW l \in Loans, finals[l] > 0
    PROVE  finals'[l] > 0
<1> USE DEF TypeOK, CallTyped, moneyVars
<1>1. CASE Decide
  BY <1>1 DEF Decide, CreateLoan, ReadForDecision, ApproveLoan, RejectLoan
<1>2. ASSUME NEW c \in Callers, NEW k \in Loans,
             NEW ask \in Amounts \union {Remaining}, NEW inScope \in BOOLEAN,
             StartDisburse(c, k, ask, inScope)
      PROVE  finals'[l] > 0
  BY <1>2 DEF StartDisburse
<1>3. ASSUME NEW c \in Callers, DisburseStep(c) PROVE finals'[l] > 0
  BY <1>3 DEF DisburseStep, Recheck, SizeDisbursement, RefuseDisbursement, NumberTranche,
              CommitTranche, CommitFinal, LoseToOther, Answer
<1>4. ASSUME NEW c \in Callers, FailDisbursement(c) \/ Return(c)
      PROVE  finals'[l] > 0
  BY <1>4 DEF FailDisbursement, Return
<1>5. CASE ForgetRequests /\ UNCHANGED <<loanVars, moneyVars>>
  BY <1>5
<1>6. CASE UNCHANGED lifecycleVars
  BY <1>6 DEF lifecycleVars
<1> QED
  BY <1>1, <1>2, <1>3, <1>4, <1>5, <1>6 DEF LifecycleStep

CallKept(c) == call'[c].loan = call[c].loan /\ call'[c].ask = call[c].ask

(* A disbursement's steps do not change what any call is for. *)
LEMMA StepsKeepCalls ==
    ASSUME TypeOK, NEW c \in Callers, DisburseStep(c) \/ FailDisbursement(c),
           NEW d \in Callers
    PROVE  CallKept(d)
<1> USE DEF TypeOK, Call, CallKept, Goto
<1>1. CASE SizeDisbursement(c)
  BY <1>1 DEF SizeDisbursement, Sized
<1>2. CASE NumberTranche(c)
  BY <1>2 DEF NumberTranche
<1>3. CASE \/ Recheck(c) \/ RefuseDisbursement(c) \/ CommitTranche(c) \/ CommitFinal(c)
           \/ LoseToOther(c) \/ Answer(c) \/ FailDisbursement(c)
  BY <1>3 DEF Recheck, RefuseDisbursement, CommitTranche, CommitFinal, LoseToOther,
              Answer, FailDisbursement
<1> QED
  BY <1>1, <1>2, <1>3 DEF DisburseStep

(* A new call is for the loan and amount asked, and leaves the others alone. *)
LEMMA StartMakesCall ==
    ASSUME TypeOK, NEW c \in Callers, NEW l \in Loans, NEW ask, NEW inScope,
           StartDisburse(c, l, ask, inScope)
    PROVE  /\ call'[c].loan = l /\ call'[c].ask = ask
           /\ \A d \in Callers : d # c => CallKept(d)
  BY DEF StartDisburse, TypeOK, NoCall, CallKept

(* A call that returns leaves the others alone. *)
LEMMA ReturnKeepsOthers ==
    ASSUME TypeOK, NEW c \in Callers, Return(c), NEW d \in Callers, d # c
    PROVE  CallKept(d)
  BY DEF Return, Reset, TypeOK, CallKept

(* What a step must do to keep LinkInv, apart from what it writes itself. *)
LEMMA BookedStays ==
    ASSUME B2CTypeOK, [LifecycleStep]_lifecycleVars, NEW r \in Rows,
           handler[r] # "none", rowLoan'[r] = rowLoan[r], RowBooked(r)
    PROVE  RowBooked(r)'
<1>1. TypeOK /\ rowLoan[r] \in Loans
  BY DEF B2CTypeOK
<1> QED
  BY <1>1, FinalsStay DEF RowBooked

(* Steps of the lifecycle alone keep LinkInv. *)
LEMMA LinkLifecycle ==
    ASSUME B2CTypeOK, LinkInv, [LifecycleStep]_lifecycleVars, UNCHANGED b2cVars,
           \A c \in Rows \union Retriers : CallKept(c)
    PROVE  LinkInv'
<1> USE DEF b2cVars, LinkInv, CoreCallOf, CallKept
<1>1. ASSUME NEW r \in Rows, RowBooked(r), rowStatus[r] # "absent"
      PROVE  RowBooked(r)'
  BY <1>1, BookedStays DEF B2CTypeOK
<1>2. ASSUME NEW r \in Rows, handler[r] \in {"reconciling", "confirming"}
      PROVE  rowStatus[r] # "absent"
  BY <1>2 DEF B2CTypeOK
<1> QED
  BY <1>1, <1>2

(* The steps of a request that leave the loans alone. *)
LEMMA LinkHandlerRow ==
    ASSUME B2CTypeOK, LinkInv, NEW r \in Rows, HandlerStep(r),
           ~StartCore(r), ~CoreReturns(r)
    PROVE  LinkInv'
<1> USE DEF Proceed, rowVars, LinkInv, CoreCallOf, RowBooked, lifecycleVars
<1>1. RetryTypeOK
  BY B2CTypeParts
<1>2. /\ UNCHANGED <<call, finals, rowLoan>>
      /\ \A w \in Retriers : /\ retry'[w].at = retry[w].at
                             /\ retry'[w].row = retry[w].row
  BY <1>1, WriteKeepsRetries
  DEF HandlerStep, CallProvider, CircuitOpen, ProviderAnswers, CallThrows,
      RecordAcceptance, MarkPending, RecheckPending, MarkFailed, Reconcile,
      Confirm, MarkCoreFailed, Write
<1>3. /\ \A q \in Rows : q # r => /\ handler'[q] = handler[q]
                                  /\ rowStatus'[q] = rowStatus[q]
      /\ handler'[r] # "core"
  BY DEF HandlerStep, CallProvider, CircuitOpen, ProviderAnswers, CallThrows,
         RecordAcceptance, MarkPending, RecheckPending, MarkFailed, Reconcile,
         Confirm, MarkCoreFailed, Write, B2CTypeOK
<1>4. /\ handler'[r] \in {"reconciling", "confirming"} =>
             handler[r] \in {"reconciling", "confirming"}
      /\ rowStatus'[r] = "core_disbursed" =>
             \/ rowStatus[r] = "core_disbursed"
             \/ handler[r] = "reconciling"
  BY DEF HandlerStep, CallProvider, CircuitOpen, ProviderAnswers, CallThrows,
         RecordAcceptance, MarkPending, RecheckPending, MarkFailed, Reconcile,
         Confirm, MarkCoreFailed, Write, B2CTypeOK
<1> QED
  BY <1>2, <1>3, <1>4

(* The core step of a wallet request keeps LinkInv. *)
LEMMA LinkCore ==
    ASSUME B2CTypeOK, BookedInv, LinkInv, [LifecycleStep]_lifecycleVars,
           NEW r \in Rows, StartCore(r) \/ CoreReturns(r)
    PROVE  LinkInv'
<1>1. TypeOK /\ r \in Callers /\ Rows \subseteq Callers /\ Retriers \subseteq Callers
  BY B2CAssumption DEF B2CTypeOK
<1>2. \A w \in Retriers : w # r
  BY B2CAssumption
<1>3. UNCHANGED <<rowStatus, rowLoan, retry>>
  BY DEF StartCore, CoreReturns, rowVars
<1>4. rowLoan[r] \in Loans /\ rowStatus[r] # "absent"
  BY DEF StartCore, CoreReturns, B2CTypeOK
<1>5. \A d \in Callers : d # r => CallKept(d)
  BY <1>1, <1>4, StartMakesCall, ReturnKeepsOthers DEF StartCore, CoreReturns
<1>6. \A q \in Rows : q # r => handler'[q] = handler[q]
  BY DEF StartCore, CoreReturns, Proceed, B2CTypeOK
<1>7. \A q \in Rows : RowBooked(q) /\ rowStatus[q] # "absent" => RowBooked(q)'
  BY <1>3, BookedStays DEF B2CTypeOK
<1>8. handler'[r] = "core" => CoreCallOf(r, r)'
  <2>1. CASE StartCore(r)
    BY <1>1, <1>3, <1>4, <2>1, StartMakesCall DEF StartCore, CoreCallOf
  <2>2. CASE CoreReturns(r)
    BY <2>2 DEF CoreReturns, Proceed, B2CTypeOK
  <2> QED
    BY <2>1, <2>2
<1>9. handler'[r] \in {"reconciling", "confirming"} => RowBooked(r)
  BY <1>1, <1>4 DEF StartCore, CoreReturns, Proceed, B2CTypeOK, LinkInv, CoreCallOf,
                    BookedInv, RowBooked
<1>10. \A q \in Rows : handler'[q] = "core" => CoreCallOf(q, q)'
  BY <1>1, <1>3, <1>5, <1>6, <1>8 DEF LinkInv, CoreCallOf, CallKept
<1>11. \A w \in Retriers : retry'[w].at = "core" => CoreCallOf(w, retry[w].row)'
  BY <1>1, <1>2, <1>3, <1>5 DEF LinkInv, CoreCallOf, CallKept
<1>12. \A q \in Rows :
          handler'[q] \in {"reconciling", "confirming"} => RowBooked(q)'
  BY <1>4, <1>6, <1>7, <1>9 DEF LinkInv, B2CTypeOK
<1>13. \A q \in Rows : rowStatus'[q] = "core_disbursed" => RowBooked(q)'
  BY <1>3, <1>7 DEF LinkInv
<1> QED
  BY <1>3, <1>10, <1>11, <1>12, <1>13 DEF LinkInv

(* A retry's steps keep LinkInv. *)
LEMMA LinkRetry ==
    ASSUME B2CTypeOK, BookedInv, LinkInv, [LifecycleStep]_lifecycleVars,
           NEW w \in Retriers, RetryStep(w)
    PROVE  LinkInv'
<1> DEFINE r == retry[w].row
<1>1. /\ TypeOK /\ RetryTypeOK /\ w \in Callers
      /\ Rows \subseteq Callers /\ Retriers \subseteq Callers
  BY B2CAssumption, B2CTypeParts DEF B2CTypeOK
<1>2. r \in Rows /\ rowStatus[r] # "absent" /\ rowLoan[r] \in Loans
  BY DEF RetryStep, Claim, RetryRead, RetryFinish, B2CTypeOK
<1>3. UNCHANGED <<rowLoan, handler>>
  BY DEF RetryStep, Claim, RetryRead, RetryFinish, rowVars
<1>4. \A d \in Callers : d # w => CallKept(d)
  <2>1. CASE UNCHANGED call
    BY <2>1 DEF CallKept
  <2>2. CASE call' # call
    BY <1>1, <1>2, <2>2, StartMakesCall, ReturnKeepsOthers
    DEF RetryStep, Claim, RetryRead, RetryFinish, lifecycleVars
  <2> QED
    BY <2>1, <2>2
<1>5. \A q \in Rows : RowBooked(q) /\ rowStatus[q] # "absent" => RowBooked(q)'
  BY <1>3, BookedStays DEF B2CTypeOK
<1>6. \A q \in Rows : handler'[q] = "core" => CoreCallOf(q, q)'
  BY <1>1, <1>3, <1>4, B2CAssumption DEF LinkInv, CoreCallOf, CallKept
<1>7. \A q \in Rows :
         handler'[q] \in {"reconciling", "confirming"} => RowBooked(q)'
  BY <1>3, <1>5 DEF LinkInv, B2CTypeOK
<1>8. ASSUME NEW v \in Retriers, v # w, retry'[v].at = "core"
      PROVE  CoreCallOf(v, retry[v].row)' /\ retry'[v].row = retry[v].row
  <2>1. retry'[v] = retry[v] \/ retry'[v] = RetryAfterWriteOf(r)[v]
    BY <1>1, <1>2, <1>8, WriteKeepsRetries
    DEF RetryStep, Claim, RetryRead, RetryFinish, RetryTypeOK
  <2>2. retry'[v].at = retry[v].at /\ retry'[v].row = retry[v].row
    BY <1>1, <1>2, <2>1, WriteKeepsRetries
  <2> QED
    BY <1>1, <1>3, <1>4, <1>8, <2>2 DEF LinkInv, CoreCallOf, CallKept
<1>9. retry'[w].at = "core" => CoreCallOf(w, retry[w].row)' /\ retry'[w].row = r
  <2>1. CASE Claim(w)
    <3>1. retry'[w].at # "core"
      BY <1>1, <1>2, <2>1, WriteKeepsRetries DEF Claim, NoRetry, RetryTypeOK
    <3> QED
      BY <3>1
  <2>2. CASE RetryRead(w)
    <3>1. CASE rowStatus[r] \in RetryableStatus
      <4>1. StartDisburse(w, rowLoan[r], Remaining, RetryInScope)
        BY <2>2, <3>1 DEF RetryRead
      <4>2. retry'[w].row = r
        BY <1>1, <2>2, <3>1 DEF RetryRead, RetryTypeOK, Retry
      <4> QED
        BY <1>1, <1>2, <1>3, <4>1, <4>2, StartMakesCall DEF CoreCallOf
    <3>2. CASE rowStatus[r] \notin RetryableStatus
      BY <1>1, <2>2, <3>2 DEF RetryRead, NoRetry, RetryTypeOK
    <3> QED
      BY <3>1, <3>2
  <2>3. CASE RetryFinish(w)
    <3>1. retry'[w].at # "core"
      BY <1>1, <1>2, <2>3, WriteKeepsRetries DEF RetryFinish, NoRetry
    <3> QED
      BY <3>1
  <2> QED
    BY <2>1, <2>2, <2>3 DEF RetryStep
<1>10. \A v \in Retriers : retry'[v].at = "core" => CoreCallOf(v, retry[v].row)'
  BY <1>8, <1>9
<1>11. ASSUME NEW q \in Rows, rowStatus'[q] = "core_disbursed"
       PROVE  RowBooked(q)'
  <2>1. CASE rowStatus[q] = "core_disbursed"
    BY <1>5, <2>1 DEF LinkInv
  <2>2. CASE rowStatus[q] # "core_disbursed"
    <3>1. RetryFinish(w) /\ q = r /\ RetryOutcome(w) = "core_disbursed"
      BY <1>2, <1>11, <2>2
      DEF RetryStep, Claim, RetryRead, RetryFinish, B2CTypeOK, rowVars
    <3>2. retry[w].at = "core" /\ pc[w] = "ok"
      BY <3>1 DEF RetryFinish, RetryOutcome
    <3>3. RowBooked(r)
      BY <1>1, <3>2 DEF LinkInv, CoreCallOf, BookedInv, RowBooked
    <3> QED
      BY <1>2, <1>5, <3>1, <3>3
  <2> QED
    BY <2>1, <2>2
<1> QED
  BY <1>6, <1>7, <1>10, <1>11 DEF LinkInv

(* The provider, callbacks, new rows, reversals, scans and a crash keep LinkInv. *)
LEMMA LinkOthers ==
    ASSUME B2CTypeOK, LinkInv, [LifecycleStep]_lifecycleVars,
           \/ \E r \in Rows, l \in Loans : InitiateB2C(r, l)
           \/ \E r \in Rows : ProviderStep(r)
           \/ \E r \in Rows, n \in {"completed", "failed"} : Callback(r, n)
           \/ \E r \in Rows : RetryReversal(r)
           \/ \E w \in Retriers, r \in Rows : Scan(w, r) \/ AdminRetry(w, r)
           \/ B2CCrash
    PROVE  LinkInv'
<1> USE DEF LinkInv, CoreCallOf, RowBooked, lifecycleVars, rowVars
<1>1. RetryTypeOK
  BY B2CTypeParts
<1>2. ASSUME NEW r \in Rows, NEW l \in Loans, InitiateB2C(r, l) PROVE LinkInv'
  <2>1. \A w \in Retriers : retry[w].at = "core" => retry[w].row # r
    BY <1>2 DEF InitiateB2C, B2CTypeOK
  <2> QED
    BY <1>1, <1>2, <2>1, WriteKeepsRetries DEF InitiateB2C, Write, Proceed, B2CTypeOK
<1>3. ASSUME NEW r \in Rows, ProviderStep(r) PROVE LinkInv'
  BY <1>3 DEF ProviderStep, ProviderAccepts, ProviderRefuses, ProviderPays,
              ProviderGivesUp, QueueTimesOut
<1>4. ASSUME NEW r \in Rows, NEW n \in {"completed", "failed"}, Callback(r, n)
      PROVE  LinkInv'
  BY <1>1, <1>4, WriteKeepsRetries DEF Callback, Write, ResultOf, B2CTypeOK
<1>5. ASSUME NEW r \in Rows, RetryReversal(r) PROVE LinkInv'
  BY <1>1, <1>5, WriteKeepsRetries DEF RetryReversal, Write, B2CTypeOK
<1>6. ASSUME NEW w \in Retriers, NEW r \in Rows, Scan(w, r) \/ AdminRetry(w, r)
      PROVE  LinkInv'
  BY <1>6 DEF Scan, AdminRetry, B2CTypeOK
<1>7. CASE B2CCrash
  BY <1>7 DEF B2CCrash, NoRetry, moneyVars
<1> QED
  BY <1>2, <1>3, <1>4, <1>5, <1>6, <1>7

(* Every step of the composition keeps LinkInv. *)
LEMMA LinkNext ==
    ASSUME B2CTypeOK, BookedInv, LinkInv, B2CNext
    PROVE  LinkInv'
<1>1. [LifecycleStep]_lifecycleVars /\ TypeOK
  BY B2CStepIsLifecycleStep DEF B2CTypeOK
<1>2. CASE Decide /\ UNCHANGED b2cVars
  <2>1. UNCHANGED call
    BY <1>2 DEF Decide, CreateLoan, ReadForDecision, ApproveLoan, RejectLoan, callVars
  <2> QED
    BY <1>1, <1>2, <2>1, LinkLifecycle DEF CallKept
<1>3. CASE CashDisbursement /\ UNCHANGED b2cVars
  <2>1. \A c \in Rows \union Retriers : CallKept(c)
    BY <1>1, <1>3, B2CAssumption, StartMakesCall DEF CashDisbursement
  <2> QED
    BY <1>1, <1>3, <2>1, LinkLifecycle
<1>4. CASE \/ \E c \in Callers : CoreStep(c)
           \/ \E c \in Callers : FailDisbursement(c) /\ UNCHANGED b2cVars
  BY <1>1, <1>4, B2CAssumption, StepsKeepCalls, LinkLifecycle DEF CoreStep
<1>5. CASE \E c \in Tellers : Return(c) /\ UNCHANGED b2cVars
  BY <1>1, <1>5, B2CAssumption, ReturnKeepsOthers, LinkLifecycle
<1>6. CASE \E r \in Rows : HandlerStep(r)
  BY <1>1, <1>6, LinkCore, LinkHandlerRow
<1>7. CASE \E w \in Retriers : RetryStep(w)
  BY <1>1, <1>7, LinkRetry
<1> QED
  BY <1>1, <1>2, <1>3, <1>4, <1>5, <1>6, <1>7, LinkOthers DEF B2CNext

(* A row says core_disbursed only if the loan's final tranche is booked, for any
   number of requests, retries and loans: each works on its own row's loan, asks
   for the remainder, and a booked final tranche stays. *)
THEOREM DisbursedRowsAreBooked == B2CSpec => []CoreDisbursedIsBooked
<1>1. B2CInit => LinkInv
  BY DEF B2CInit, LinkInv, NoRetry
<1>2. B2CTypeOK /\ BookedInv /\ LinkInv /\ [B2CNext]_vars => LinkInv'
  <2> SUFFICES ASSUME B2CTypeOK, BookedInv, LinkInv, [B2CNext]_vars PROVE LinkInv'
    OBVIOUS
  <2>1. CASE UNCHANGED vars
    BY <2>1 DEF vars, b2cVars, lifecycleVars, LinkInv, CoreCallOf, RowBooked
  <2> QED
    BY <2>1, LinkNext
<1>3. LinkInv => CoreDisbursedIsBooked
  BY DEF LinkInv, CoreDisbursedIsBooked, RowBooked
<1>4. LifecycleInv => BookedInv
  BY DEF LifecycleInv
<1> QED
  BY <1>1, <1>2, <1>3, <1>4, B2CTypeCorrect, B2CLifecycle, PTL DEF B2CSpec

-----------------------------------------------------------------------------
(* The ways of a row's status *)

(* What a row may have said before it comes to say st.  A retry that fails
   writes over whatever is there, every other writer has its guard. *)
Before(st) ==
    CASE st = "initiated" -> {"absent"}
      [] st = "accepted" -> {"initiated"}
      [] st = "failed" -> CallbackFailableStatus
      [] st = "completed" -> CompletableStatus
      [] st = "core_pending" -> {"initiated", "completed"} \union RetryableStatus
      [] st \in {"core_disbursed", "core_failed"} -> RowStatus \ {"absent"}
      [] OTHER -> {}

RowMove(r) == rowStatus'[r] = rowStatus[r] \/ rowStatus[r] \in Before(rowStatus'[r])

(* A claim whose scan is still fresh finds the status it scanned. *)
FreshInv ==
    \A w \in Retriers :
        retry[w].at = "claiming" /\ retry[w].fresh =>
            rowStatus[retry[w].row] \in RetryableStatus

(* An update leaves no fresh scan of its row. *)
LEMMA WriteMakesStale ==
    ASSUME RetryTypeOK, NEW r \in Rows, NEW w \in Retriers
    PROVE  /\ RetryAfterWriteOf(r)[w].fresh => retry[w].fresh /\ retry[w].row # r
           /\ RetryAfterWriteOf(r)[w].at = retry[w].at
           /\ RetryAfterWriteOf(r)[w].row = retry[w].row
<1>1. retry[w] \in Retry
  BY DEF RetryTypeOK
<1>2. CASE retry[w].row = r
  <2>1. RetryAfterWriteOf(r)[w] = [retry[w] EXCEPT !.fresh = FALSE]
    BY <1>2 DEF RetryAfterWriteOf
  <2> QED
    BY <1>1, <2>1 DEF Retry
<1>3. CASE retry[w].row # r
  BY <1>3 DEF RetryAfterWriteOf
<1> QED
  BY <1>2, <1>3

(* What any step does to the rows, in the terms of its scans: nothing, a write
   that makes every scan of its row stale, or a step of a single retry. *)
LEMMA RowEffect ==
    ASSUME B2CTypeOK, [B2CNext]_vars
    PROVE  \/ UNCHANGED <<rowStatus, retry>>
           \/ UNCHANGED rowStatus /\ retry' = [w \in Retriers |-> NoRetry]
           \/ \E r \in Rows, st \in RowStatus :
                 Write(r, st) /\ (st = rowStatus[r] \/ rowStatus[r] \in Before(st))
           \/ \E w \in Retriers :
                 \/ \E r \in Rows : Scan(w, r) \/ AdminRetry(w, r)
                 \/ RetryStep(w)
<1> USE DEF Before, RowStatus, rowVars, RetryableStatus
<1> DEFINE Written == \E r \in Rows, st \in RowStatus :
                         Write(r, st) /\ (st = rowStatus[r] \/ rowStatus[r] \in Before(st))
           Same == UNCHANGED <<rowStatus, retry>>
<1>1. CASE \/ UNCHANGED vars
           \/ Decide /\ UNCHANGED b2cVars
           \/ CashDisbursement /\ UNCHANGED b2cVars
           \/ \E c \in Callers : CoreStep(c)
           \/ \E c \in Callers : FailDisbursement(c) /\ UNCHANGED b2cVars
           \/ \E c \in Tellers : Return(c) /\ UNCHANGED b2cVars
  BY <1>1 DEF vars, b2cVars, CoreStep
<1>2. ASSUME NEW r \in Rows, NEW l \in Loans, InitiateB2C(r, l) PROVE Written
  <2>1. rowStatus[r] = "absent" /\ Write(r, "initiated")
    BY <1>2 DEF InitiateB2C, B2CTypeOK
  <2> QED
    BY <2>1
<1>3. ASSUME NEW r \in Rows, HandlerStep(r) PROVE Same \/ Written
  <2>1. CASE \/ CallProvider(r) \/ CircuitOpen(r) \/ ProviderAnswers(r)
             \/ CallThrows(r) \/ RecheckPending(r) \/ Confirm(r)
             \/ StartCore(r) \/ CoreReturns(r)
    BY <2>1 DEF CallProvider, CircuitOpen, ProviderAnswers, CallThrows,
                RecheckPending, Confirm, StartCore, CoreReturns
  <2>2. CASE RecordAcceptance(r)
    BY <2>2 DEF RecordAcceptance
  <2>3. CASE MarkPending(r)
    BY <2>3 DEF MarkPending
  <2>4. CASE MarkFailed(r)
    BY <2>4 DEF MarkFailed, FailableStatus, CallbackFailableStatus
  <2>5. CASE Reconcile(r)
    BY <2>5 DEF Reconcile
  <2>6. CASE MarkCoreFailed(r)
    BY <2>6 DEF MarkCoreFailed
  <2> QED
    BY <1>3, <2>1, <2>2, <2>3, <2>4, <2>5, <2>6 DEF HandlerStep
<1>4. ASSUME NEW r \in Rows, ProviderStep(r) PROVE Same
  BY <1>4 DEF ProviderStep, ProviderAccepts, ProviderRefuses, ProviderPays,
              ProviderGivesUp, QueueTimesOut
<1>5. ASSUME NEW r \in Rows, NEW n \in {"completed", "failed"}, Callback(r, n)
      PROVE  Written
  BY <1>5 DEF Callback, ResultOf
<1>6. ASSUME NEW r \in Rows, RetryReversal(r) PROVE Written
  BY <1>6 DEF RetryReversal
<1>7. CASE B2CCrash
  BY <1>7 DEF B2CCrash
<1> QED
  BY <1>1, <1>2, <1>3, <1>4, <1>5, <1>6, <1>7 DEF B2CNext

(* Every step keeps scans honest. *)
LEMMA FreshNext ==
    ASSUME B2CTypeOK, FreshInv, [B2CNext]_vars
    PROVE  FreshInv'
<1>1. RetryTypeOK /\ RowTypeOK
  BY B2CTypeParts
<1>2. CASE UNCHANGED <<rowStatus, retry>>
  BY <1>2 DEF FreshInv
<1>3. CASE UNCHANGED rowStatus /\ retry' = [w \in Retriers |-> NoRetry]
  BY <1>3 DEF FreshInv, NoRetry
<1>4. ASSUME NEW r \in Rows, NEW st \in RowStatus, Write(r, st)
      PROVE  FreshInv'
  BY <1>1, <1>4, WriteMakesStale DEF Write, FreshInv, RowTypeOK
<1>5. ASSUME NEW w \in Retriers, NEW r \in Rows, Scan(w, r) \/ AdminRetry(w, r)
      PROVE  FreshInv'
  BY <1>1, <1>5 DEF Scan, AdminRetry, rowVars, FreshInv, RetryTypeOK
<1>6. ASSUME NEW w \in Retriers, RetryStep(w) PROVE FreshInv'
  <2> DEFINE r == retry[w].row
  <2>1. r \in Rows
    BY <1>1, <1>6 DEF RetryStep, Claim, RetryRead, RetryFinish, RetryTypeOK
  <2>2. retry'[w].at # "claiming"
    BY <1>1, <1>6, <2>1, WriteKeepsRetries
    DEF RetryStep, Claim, RetryRead, RetryFinish, NoRetry, RetryTypeOK, Retry
  <2>3. ASSUME NEW v \in Retriers, v # w
        PROVE  \/ retry'[v] = retry[v] /\ UNCHANGED rowStatus
               \/ /\ retry'[v] = RetryAfterWriteOf(r)[v]
                  /\ \A q \in Rows : q # r => rowStatus'[q] = rowStatus[q]
    BY <1>1, <1>6, <2>1, <2>3, WriteKeepsRetries
    DEF RetryStep, Claim, RetryRead, RetryFinish, rowVars, RetryTypeOK, RowTypeOK
  <2>4. ASSUME NEW v \in Retriers, v # w,
               retry'[v].at = "claiming", retry'[v].fresh
        PROVE  rowStatus'[retry'[v].row] \in RetryableStatus
    <3>1. CASE retry'[v] = retry[v] /\ UNCHANGED rowStatus
      BY <2>4, <3>1 DEF FreshInv
    <3>2. CASE /\ retry'[v] = RetryAfterWriteOf(r)[v]
               /\ \A q \in Rows : q # r => rowStatus'[q] = rowStatus[q]
      BY <1>1, <2>1, <2>4, <3>2, WriteMakesStale DEF FreshInv, RetryTypeOK
    <3> QED
      BY <2>3, <2>4, <3>1, <3>2
  <2> QED
    BY <2>2, <2>4 DEF FreshInv
<1> QED
  BY <1>2, <1>3, <1>4, <1>5, <1>6, RowEffect

(* Every step moves a row along the table or leaves it. *)
LEMMA RowMoves ==
    ASSUME B2CTypeOK, FreshInv, [B2CNext]_vars, NEW r \in Rows
    PROVE  RowMove(r)
<1>1. RetryTypeOK /\ RowTypeOK
  BY B2CTypeParts
<1> USE DEF RowMove, RowTypeOK
<1>2. CASE UNCHANGED rowStatus
  BY <1>2
<1>3. ASSUME NEW q \in Rows, NEW st \in RowStatus, Write(q, st),
             st = rowStatus[q] \/ rowStatus[q] \in Before(st)
      PROVE  RowMove(r)
  <2>1. rowStatus' = [rowStatus EXCEPT ![q] = st]
    BY <1>3 DEF Write
  <2> QED
    BY <1>1, <1>3, <2>1
<1>4. ASSUME NEW w \in Retriers, RetryStep(w) PROVE RowMove(r)
  <2> DEFINE q == retry[w].row
  <2>1. CASE UNCHANGED rowStatus
    BY <1>2, <2>1
  <2>2. CASE Claim(w) /\ retry[w].fresh
    <3>1. rowStatus' = [rowStatus EXCEPT ![q] = "core_pending"]
      BY <2>2 DEF Claim
    <3>2. rowStatus[q] \in Before("core_pending")
      BY <2>2 DEF Claim, FreshInv, Before
    <3> QED
      BY <1>1, <3>1, <3>2
  <2>3. CASE RetryFinish(w)
    <3>1. rowStatus' = [rowStatus EXCEPT ![q] = RetryOutcome(w)]
      BY <2>3 DEF RetryFinish
    <3>2. q \in Rows /\ rowStatus[q] \in RowStatus \ {"absent"}
      BY <1>1, <2>3 DEF RetryFinish, RetryTypeOK
    <3>3. rowStatus[q] \in Before(RetryOutcome(w))
      BY <3>2 DEF RetryOutcome, Before
    <3> QED
      BY <1>1, <3>1, <3>3
  <2> QED
    BY <1>4, <2>1, <2>2, <2>3 DEF RetryStep, Claim, RetryRead, rowVars
<1> QED
  BY <1>2, <1>3, <1>4, RowEffect DEF Scan, AdminRetry, rowVars

(* Whoever writes a row, and in whatever order: it moves along the table of
   Before.  A row is created once and accepted once, and no step takes a failed
   or booked row back to core_pending or marks a failed one completed. *)
THEOREM RowsMoveByTheTable == B2CSpec => [][\A r \in Rows : RowMove(r)]_rowStatus
<1>1. B2CInit => FreshInv
  BY DEF B2CInit, FreshInv, NoRetry
<1>2. B2CTypeOK /\ FreshInv /\ [B2CNext]_vars => FreshInv'
  BY FreshNext
<1>3. B2CTypeOK /\ FreshInv /\ [B2CNext]_vars
        => [\A r \in Rows : RowMove(r)]_rowStatus
  BY RowMoves
<1> QED
  BY <1>1, <1>2, <1>3, B2CTypeCorrect, PTL DEF B2CSpec

(* No late notice, late answer or retry takes a completed row to failed. *)
THEOREM CompletedRowsNeverFail == B2CSpec => CompletedNeverFails
<1>1. (\A r \in Rows : RowMove(r))
        => \A r \in Rows : rowStatus[r] = "completed" => rowStatus'[r] # "failed"
  BY DEF RowMove, Before, CallbackFailableStatus
<1> QED
  BY <1>1, RowsMoveByTheTable, PTL DEF CompletedNeverFails

=============================================================================
