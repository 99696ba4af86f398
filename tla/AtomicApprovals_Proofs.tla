----------------------- MODULE AtomicApprovals_Proofs -----------------------
(***************************************************************************)
(* The reviews of ApprovalWorkflow, with their locks, their transactions   *)
(* and what may go wrong in them, implement the single steps of            *)
(* AtomicApprovals: for any loans, users, requests, jobs and faults.       *)
(***************************************************************************)
EXTENDS ApprovalWorkflow_Proofs

AtomicStep == [Atomic!AtomicNext]_(Atomic!atomicVars)

(* The parts of the atomic state that a step of the workflow may leave alone. *)
Served == <<loan, receivable, synced, charging>>

(* What neither writes a loan nor a request is not seen from outside, whatever
   happens to the locks. *)
LEMMA LocksAreNotSeen ==
    ASSUME UNCHANGED Served, UNCHANGED request
    PROVE  AtomicStep
  BY DEF AtomicStep, Served, Atomic!atomicVars, Atomic!servicingVars

(* The writers of LoanServicing wait for locks that are not there any more. *)
LEMMA ServingIsAtomic ==
    ASSUME ServicingTypeOK, ServicingNext, UNCHANGED request
    PROVE  AtomicStep
<1> USE DEF Atomic!Unlocked, Atomic!ServicingNext
<1>1. ASSUME NEW l \in Loans, NEW applied \in 1 .. MaxTotal,
             receivable[l] - applied >= -MaxTotal, RecordRepayment(l, applied)
      PROVE  Atomic!ServicingNext
  <2>1. Atomic!RecordRepayment(l, applied)
    BY <1>1 DEF RecordRepayment, Atomic!RecordRepayment, MayRepay, Atomic!MayRepay,
                Collectible, Atomic!Collectible, Repaid, Atomic!Repaid,
                StatusAfterRepayment, Atomic!StatusAfterRepayment
  <2> QED
    BY <1>1, <2>1
<1>2. ASSUME NEW p \in PenaltyJobs, NEW l \in Loans, ReadInstallment(p, l)
      PROVE  Atomic!ServicingNext
  <2>1. Atomic!ReadInstallment(p, l)
    BY <1>2 DEF ReadInstallment, Atomic!ReadInstallment, Collectible, Atomic!Collectible
  <2> QED
    BY <2>1
<1>3. ASSUME NEW p \in PenaltyJobs, NEW amount \in Charges, ApplyPenalty(p, amount)
      PROVE  Atomic!ServicingNext
  <2>1. charging[p] \in Loans
    BY <1>3 DEF ApplyPenalty, ServicingTypeOK
  <2>2. Atomic!ApplyPenalty(p, amount)
    BY <1>3, <2>1 DEF ApplyPenalty, Atomic!ApplyPenalty, Charged, Atomic!Charged,
                Collectible, Atomic!Collectible
  <2> QED
    BY <2>2
<1>4. ASSUME NEW p \in PenaltyJobs, SkipPenalty(p) PROVE Atomic!ServicingNext
  <2>1. Atomic!SkipPenalty(p)
    BY <1>4 DEF SkipPenalty, Atomic!SkipPenalty
  <2> QED
    BY <2>1
<1>5. ASSUME NEW j \in SyncJobs, NEW l \in Loans, LoadForSync(j, l)
      PROVE  Atomic!ServicingNext
  <2>1. Atomic!LoadForSync(j, l)
    BY <1>5 DEF LoadForSync, Atomic!LoadForSync, NotLoaded, Atomic!NotLoaded,
                NoRow, Atomic!NoRow
  <2> QED
    BY <2>1
<1>6. ASSUME NEW j \in SyncJobs, SaveOverdue(j) PROVE Atomic!ServicingNext
  <2>1. synced[j].loan \in Loans
    BY <1>6 DEF SaveOverdue, ServicingTypeOK
  <2>2. Atomic!SaveOverdue(j)
    BY <1>6, <2>1 DEF SaveOverdue, Atomic!SaveOverdue, NotLoaded, Atomic!NotLoaded,
                NoRow, Atomic!NoRow, Overdue, Atomic!Overdue
  <2> QED
    BY <2>2
<1>7. Atomic!ServicingNext
  BY <1>1, <1>2, <1>3, <1>4, <1>5, <1>6 DEF ServicingNext
<1> QED
  BY <1>7 DEF AtomicStep, Atomic!AtomicNext
-----------------------------------------------------------------------------
(* Requests *)

(* The update that expires requests takes the ones past their time along. *)
LEMMA DueAreGone ==
    /\ Expired = Atomic!Without({r \in Requests : Due(r)})
    /\ {r \in Requests : Due(r)} \in SUBSET Atomic!Open
  BY DEF Expired, Due, Pending, Atomic!Without, Atomic!Open

(* A step that only expires requests. *)
LEMMA ExpiringIsAtomic ==
    ASSUME request' = Expired, UNCHANGED Served
    PROVE  AtomicStep
<1> DEFINE gone == {r \in Requests : Due(r)}
<1>1. gone \in SUBSET Atomic!Open /\ request' = Atomic!Without(gone)
  BY DueAreGone
<1>2. UNCHANGED Atomic!servicingVars
  BY DEF Served, Atomic!servicingVars
<1> HIDE DEF gone
<1>3. Atomic!Expire(gone)
  BY <1>1, <1>2 DEF Atomic!Expire
<1> QED
  BY <1>1, <1>3 DEF AtomicStep, Atomic!AtomicNext

(* The new request is the only open one of its type for its loan. *)
LEMMA CreateIsAtomic ==
    ASSUME ApprovalTypeOK, NEW u \in Makers, NEW r \in Requests, CreateRequest(u, r)
    PROVE  AtomicStep
<1> DEFINE gone == {q \in Requests : Due(q)}
           a == asking[u]
<1>1. ServicingTypeOK /\ RequestsOK /\ u \in Users
  BY TypeParts, ApprovalAssumption
<1>2. gone \in SUBSET Atomic!Open /\ Expired = Atomic!Without(gone)
  BY DueAreGone
<1>3. a \in [type : Types, loan : Loans, seen : Rows]
  BY <1>1 DEF CreateRequest, RequestsOK, AskingRows
<1>4. request' = [Expired EXCEPT ![r] = NewRequest(u, a)]
  BY DEF CreateRequest
<1>5. request'[r] = NewRequest(u, a)
  BY <1>4 DEF Expired
<1>6. NewRequest(u, a) \in Atomic!New
  BY <1>3 DEF NewRequest, Atomic!New, NoRow, Atomic!NoRow, Rows, Atomic!Rows,
              RowStatus, Atomic!RowStatus, Collectible, Atomic!Collectible
<1>7. NewRequest(u, a).type = a.type /\ NewRequest(u, a).loan = a.loan
  BY DEF NewRequest
<1>8. ASSUME NEW q \in Atomic!Open \ gone, request[q].type = a.type
      PROVE  request[q].loan # a.loan
  <2>1. ~AlreadyPending(a) /\ q \in Requests /\ Pending(q) /\ ~Due(q)
    BY DEF CreateRequest, MayInsert, Atomic!Open, Pending
  <2> QED
    BY <1>8, <2>1 DEF AlreadyPending
<1>9. request[r] = Atomic!Nothing /\ UNCHANGED Atomic!servicingVars
  BY DEF CreateRequest, servicingVars, Atomic!servicingVars, NoRequest, Atomic!Nothing,
         NoRow, Atomic!NoRow
<1> HIDE DEF gone, a
<1>10. Atomic!Make(r, gone)
  BY <1>2, <1>4, <1>5, <1>6, <1>7, <1>8, <1>9 DEF Atomic!Make
<1> QED
  BY <1>2, <1>10 DEF AtomicStep, Atomic!AtomicNext

(* A reviewer is entitled to decide, and a pending request is open. *)
LEMMA ReviewerMayDecide ==
    ASSUME EyesInv, NEW u \in Users, review[u].at # "idle",
           review[u].request \in Requests, Pending(review[u].request)
    PROVE  u \in Checkers /\ Atomic!MayDecide(u, review[u].request)
  BY DEF EyesInv, Atomic!MayDecide, Atomic!Open, Pending

(* The second look of a rejection is where it happens. *)
LEMMA RejectIsAtomic ==
    ASSUME ApprovalTypeOK, EyesInv, NEW u \in Users, Reject(u)
    PROVE  AtomicStep
<1> DEFINE gone == {q \in Requests : Due(q)}
           r == review[u].request
<1>1. ServicingTypeOK /\ RequestsOK /\ ReviewsOK
  BY TypeParts
<1>2. gone \in SUBSET Atomic!Open /\ Expired = Atomic!Without(gone)
  BY DueAreGone
<1>3. review[u].at = "rejecting" /\ Pending(r) /\ ~Due(r) /\ r \in Requests
  BY <1>1, ReviewTyped DEF Reject
<1>4. u \in Checkers /\ Atomic!MayDecide(u, r) /\ r \notin gone
  BY <1>3, ReviewerMayDecide
<1>5. WithDecision(Expired[r], "rejected", u, NoRow) = Atomic!Decided(r, u, "rejected", NoRow)
  BY <1>3 DEF WithDecision, Expired, Atomic!Decided
<1>6. request' = [Expired EXCEPT ![r] = WithDecision(Expired[r], "rejected", u, NoRow)]
  BY <1>3 DEF Reject, Expired
<1>7. UNCHANGED Atomic!servicingVars /\ NoRow = Atomic!NoRow
  BY DEF Reject, servicingVars, Atomic!servicingVars, NoRow, Atomic!NoRow
<1> HIDE DEF gone, r
<1>8. Atomic!Reject(u, r, gone)
  BY <1>2, <1>4, <1>5, <1>6, <1>7 DEF Atomic!Reject
<1> QED
  BY <1>2, <1>3, <1>4, <1>8 DEF AtomicStep, Atomic!AtomicNext

-----------------------------------------------------------------------------
(* Executions *)

(* When a transaction commits, the loan is as it was read and compared, and its
   write-off is the first: the operation may happen now. *)
LEMMA CommitMayHappen ==
    ASSUME ApprovalTypeOK, EyesInv, LockInv, HeldInv, NEW u \in Users, CommitReview(u)
    PROVE  /\ u \in Checkers /\ review[u].request \in Requests
           /\ Atomic!MayDecide(u, review[u].request)
           /\ Atomic!MayHappen(review[u].request)
           /\ loan[LoanOf(u)].balance = review[u].seen.balance
<1> DEFINE r == review[u].request
<1>1. ServicingTypeOK /\ RequestsOK /\ ReviewsOK /\ LocksOK
  BY TypeParts
<1>2. review[u].at \in {"updated", "announced"}
  BY DEF CommitReview
<1>3. r \in Requests /\ Pending(r)
  BY <1>1, <1>2, ReviewTyped DEF LockInv, InTransaction
<1>4. u \in Checkers /\ Atomic!MayDecide(u, r)
  BY <1>2, <1>3, ReviewerMayDecide
<1>5. /\ loan[LoanOf(u)].status = review[u].seen.status
      /\ loan[LoanOf(u)].balance = review[u].seen.balance
      /\ review[u].seen.status \in Collectible
      /\ TypeOf(u) \in Rechecks => ToTheCent(review[u].seen, request[r].snapshot)
      /\ TypeOf(u) = "write_off" => ~WrittenOffBefore(LoanOf(u))
  BY <1>2 DEF HeldInv, Snapshot
<1>6. Atomic!MayHappen(r)
  BY <1>5 DEF Atomic!MayHappen, ToTheCent, TypeOf, LoanOf, Rechecks, Collectible, Atomic!Collectible,
              WrittenOffBefore, Atomic!Gone
<1> QED
  BY <1>3, <1>4, <1>5, <1>6

(* What a commit does to loan and ledger is what the operation does at once. *)
LEMMA CommitIsAtomic ==
    ASSUME ApprovalTypeOK, EyesInv, LockInv, HeldInv, NEW u \in Users, CommitReview(u)
    PROVE  AtomicStep
<1> DEFINE r == review[u].request
           l == LoanOf(u)
           seen == review[u].seen
<1>1. ServicingTypeOK /\ RequestsOK /\ ReviewsOK /\ LocksOK
  BY TypeParts
<1>2. /\ r \in Requests /\ l \in Loans /\ TypeOf(u) \in Types
      /\ seen \in Rows \union {NoRow} /\ seen.balance <= seen.expected
  BY <1>1, ReviewTyped DEF CommitReview, ReviewsOK
<1>3. /\ u \in Checkers /\ Atomic!MayDecide(u, r) /\ Atomic!MayHappen(r)
      /\ loan[l].balance = seen.balance
  BY CommitMayHappen
<1>4. PICK next \in Outcomes(TypeOf(u), loan[l], seen) :
         /\ loan' = [loan EXCEPT ![l] = next]
         /\ receivable' = [receivable EXCEPT ![l] = @ + Posted(TypeOf(u), seen, next)]
  BY DEF CommitReview
<1>5. /\ next \in Rows /\ next.balance \in Int
      /\ loan[l] \in Rows /\ loan[l].balance <= loan[l].expected
  <2>1. loan[l] \in Rows /\ loan[l].balance <= loan[l].expected
    BY <1>1, <1>2 DEF ServicingTypeOK
  <2>2. next \in Rows
    BY <1>2, <1>4, <2>1, OutcomesTyped
  <2> QED
    BY <2>1, <2>2 DEF Rows
<1>6. /\ loan'[l] = next /\ receivable[l] \in Int /\ loan[l].balance \in Int
      /\ next \in Atomic!Rows
  BY <1>1, <1>2, <1>4, <1>5 DEF ServicingTypeOK, Rows, Atomic!Rows, RowStatus,
     Atomic!RowStatus, Collectible, Atomic!Collectible
<1>7. /\ request' = [request EXCEPT ![r] = Atomic!Decided(r, u, "approved", loan[l])]
      /\ request[r].loan = l /\ request[r].type = TypeOf(u)
      /\ UNCHANGED <<synced, charging>>
  BY <1>1, <1>2 DEF CommitReview, WithDecision, Atomic!Decided, RequestsOK, LoanOf, TypeOf
<1> HIDE DEF r, l, seen
<1>8. ASSUME TypeOf(u) = "write_off" PROVE Atomic!Execute(u, r)
  <2>1. next = [loan[l] EXCEPT !.status = "written_off"]
    BY <1>4, <1>8 DEF Outcomes
  <2>2. loan' = [loan EXCEPT ![l].status = "written_off"]
    BY <1>4, <2>1
  <2>3. Posted(TypeOf(u), seen, next) = -loan[l].balance
    BY <1>3, <1>8 DEF Posted
  <2>4. receivable[l] + Posted(TypeOf(u), seen, next) = receivable[l] - loan[l].balance
    BY <1>6, <2>3
  <2>5. receivable' = [receivable EXCEPT ![l] = @ - loan[l].balance]
    BY <1>4, <2>4
  <2> QED
    BY <1>3, <1>7, <1>8, <2>2, <2>5 DEF Atomic!Execute, Atomic!WriteOff
<1>9. ASSUME TypeOf(u) = "restructure" PROVE Atomic!Execute(u, r)
  <2>1. next.status = "restructured" /\ Posted(TypeOf(u), seen, next) = 0
    BY <1>4, <1>9 DEF Outcomes, Posted
  <2>2. receivable' = receivable
    BY <1>1, <1>4, <1>6, <2>1 DEF ServicingTypeOK
  <2>3. loan' = [loan EXCEPT ![l] = loan'[l]]
    BY <1>4, <1>6
  <2>4. Atomic!Restructure(l)
    BY <1>6, <2>1, <2>2, <2>3 DEF Atomic!Restructure
  <2> QED
    BY <1>3, <1>7, <1>9, <2>4 DEF Atomic!Execute
<1>10. ASSUME TypeOf(u) \notin {"write_off", "restructure"} PROVE Atomic!Execute(u, r)
  <2>1. next.status \in {"active", "restructured"}
    BY <1>4, <1>10 DEF Outcomes
  <2>2. Posted(TypeOf(u), seen, next) = next.balance - loan[l].balance
    BY <1>3, <1>10 DEF Posted
  <2>3. receivable[l] + Posted(TypeOf(u), seen, next)
          = receivable[l] + loan'[l].balance - loan[l].balance
    BY <1>5, <1>6, <2>2
  <2>4. receivable' = [receivable EXCEPT ![l] = @ + loan'[l].balance - loan[l].balance]
    BY <1>4, <2>3
  <2>5. loan' = [loan EXCEPT ![l] = loan'[l]]
    BY <1>4, <1>6
  <2>6. Atomic!ChangeTerms(l)
    BY <1>6, <2>1, <2>4, <2>5 DEF Atomic!ChangeTerms
  <2> QED
    BY <1>3, <1>7, <1>10, <2>6 DEF Atomic!Execute
<1>11. Atomic!Execute(u, r)
  BY <1>8, <1>9, <1>10
<1> QED
  BY <1>2, <1>3, <1>11 DEF AtomicStep, Atomic!AtomicNext

-----------------------------------------------------------------------------
(* Every step *)

(* What is known of reviews, beside the types. *)
ReviewInv == ApprovalTypeOK /\ EyesInv /\ LockInv /\ HeldInv

(* Every step of a review, and everything else, is a single step or none. *)
LEMMA StepIsAtomic ==
    ASSUME ReviewInv, [ApprovalNext]_approvalVars
    PROVE  AtomicStep
<1> USE DEF ReviewInv
<1>1. CASE ServicingNext /\ UNCHANGED <<request, lapsed, asking, review, events, faults>>
  BY <1>1, TypeParts, ServingIsAtomic
<1>2. ASSUME \/ ListPendingRequests
             \/ \E u \in Users : RejectTooLate(u)
             \/ \E u \in Users, r \in Requests, d \in {"rejecting", "approving"} :
                   StartReview(u, r, d)
      PROVE  AtomicStep
  <2>1. request' = Expired /\ UNCHANGED Served
    BY <1>2 DEF ListPendingRequests, RejectTooLate, StartReview, Served, servicingVars
  <2> QED
    BY <2>1, ExpiringIsAtomic
<1>3. ASSUME NEW u \in Makers, NEW r \in Requests, CreateRequest(u, r) PROVE AtomicStep
  BY <1>3, CreateIsAtomic
<1>4. ASSUME NEW u \in Users, Reject(u) PROVE AtomicStep
  BY <1>4, RejectIsAtomic
<1>5. ASSUME NEW u \in Users, CommitReview(u) PROVE AtomicStep
  BY <1>5, CommitIsAtomic
<1>6. CASE Crash
  <2>1. Atomic!ForgetJobs
    BY <1>6 DEF Crash, Atomic!ForgetJobs, NotLoaded, Atomic!NotLoaded, NoRow, Atomic!NoRow
  <2> QED
    BY <2>1 DEF AtomicStep, Atomic!AtomicNext
<1>7. ASSUME NEW u \in Users,
             \/ FinalizeRequest(u) \/ FindDecided(u) \/ PreCheck(u) \/ ReadLoan(u)
             \/ UpdateLoan(u) \/ Announce(u) \/ RefuseExecution(u) \/ RollBack(u)
      PROVE  UNCHANGED Served /\ UNCHANGED request
  BY <1>7 DEF FinalizeRequest, FindDecided, PreCheck, ReadLoan, UpdateLoan, Announce,
              RefuseExecution, RollBack, servicingVars, requestVars, Served
<1>8. ASSUME \/ \E r \in Requests : Lapse(r)
             \/ \E u \in Makers, l \in Loans, type \in Types : ReadForRequest(u, l, type)
             \/ \E u \in Makers : RefuseDuplicate(u)
             \/ UNCHANGED approvalVars
      PROVE  UNCHANGED Served /\ UNCHANGED request
  BY <1>8 DEF Lapse, ReadForRequest, RefuseDuplicate, approvalVars, servicingVars, Served
<1> QED
  BY <1>1, <1>2, <1>3, <1>4, <1>5, <1>6, <1>7, <1>8, LocksAreNotSeen
  DEF ApprovalNext, ReviewStep

(* What is known of reviews is known in every reachable state. *)
LEMMA ReviewsKnown == ApprovalSpec => []ReviewInv
<1>1. ApprovalInit => EyesInv /\ OtherEyes
  BY DEF ApprovalInit, EyesInv, OtherEyes, NoReview, NoRequest
<1>2. ApprovalTypeOK /\ EyesInv /\ OtherEyes /\ [ApprovalNext]_approvalVars
        => EyesInv' /\ OtherEyes'
  BY EyesStep
<1>3. ApprovalTypeOK /\ EyesInv /\ LockInv /\ HeldInv => ReviewInv
  BY DEF ReviewInv
<1> QED
  BY <1>1, <1>2, <1>3, RowsAsRead, LocksHeld, ApprovalTypeCorrect, PTL DEF ApprovalSpec

(* For any number of checkers, requests of all five types, repayments, jobs,
   failures and crashes, the workflow implements one step for each review: the
   row locks and the comparisons with what was read make a transaction of many
   statements, at READ COMMITTED, look like one. *)
THEOREM TransactionsLookAtomic == ApprovalSpec => ReviewsAreAtomic
<1>1. ApprovalInit => Atomic!AtomicInit
  BY DEF ApprovalInit, Atomic!AtomicInit, ServicingInit, Atomic!ServicingInit, NoRequest,
         Atomic!Nothing, NotLoaded, Atomic!NotLoaded, NoRow, Atomic!NoRow
<1>2. ReviewInv /\ [ApprovalNext]_approvalVars
        => [Atomic!AtomicNext]_(Atomic!atomicVars)
  BY StepIsAtomic DEF AtomicStep
<1> QED
  BY <1>1, <1>2, ReviewsKnown, PTL DEF ApprovalSpec, ReviewsAreAtomic, Atomic!AtomicSpec

=============================================================================
