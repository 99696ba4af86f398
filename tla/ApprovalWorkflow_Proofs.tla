----------------------- MODULE ApprovalWorkflow_Proofs -----------------------
(***************************************************************************)
(* Proofs about ApprovalWorkflow, for any loans, users, requests, jobs and *)
(* faults: types and locks, what a step can do to a request and to a       *)
(* review, and on those the invariants of reviewers, decisions, pending    *)
(* requests, executions and the ledger.                                    *)
(***************************************************************************)
EXTENDS ApprovalWorkflow, TLAPS

-----------------------------------------------------------------------------
(* Types, in parts *)

ReviewRows ==
    [at : Stages, request : Requests, seen : Rows \union {NoRow}] \union {NoReview}

AskingRows == [type : Types, loan : Loans, seen : Rows] \union {NotAsking}

RequestsOK ==
    /\ request \in [Requests -> RequestRows \union {NoRequest}]
    /\ lapsed \subseteq Requests
    /\ asking \in [Users -> AskingRows]
    /\ events \subseteq Requests
    /\ faults \in 0 .. MaxFaults

ReviewsOK ==
    /\ review \in [Users -> ReviewRows]
    /\ \A u \in Users : review[u].seen.balance <= review[u].seen.expected
    /\ \A u \in Users : review[u] # NoReview => request[review[u].request] # NoRequest

Holds(u, l) == review[u].at \in {"updated", "announced"} /\ LoanOf(u) = l

LocksOK == \A u \in Users, l \in Loans : holder[l] = u <=> Holds(u, l)

(* The type invariant is the conjunction of its parts. *)
LEMMA TypeParts ==
    ApprovalTypeOK <=> ServicingTypeOK /\ RequestsOK /\ ReviewsOK /\ LocksOK
  BY DEF ApprovalTypeOK, RequestsOK, ReviewsOK, LocksOK, Holds, ReviewRows, AskingRows

(* What is in a row of one of the tables. *)
LEMMA RowsTyped ==
    /\ \A row \in Rows : row \in [status : RowStatus, balance : Nat, expected : Nat]
    /\ NoRow \notin Rows
    /\ NoRequest \notin RequestRows
    /\ NoReview \notin [at : Stages, request : Requests, seen : Rows \union {NoRow}]
    /\ NotAsking \notin [type : Types, loan : Loans, seen : Rows]
    /\ NotLoaded \notin [loan : Loans, row : Rows]
  BY ServicingAssumption, ApprovalAssumption
  DEF Rows, RowStatus, Collectible, NoRow, RequestRows, NoRequest, NoReview, Stages,
      NotAsking, NotLoaded, InTransaction, Decided, HighRiskTypes

(* A review that has begun is of a request that was made, on a loan. *)
LEMMA ReviewTyped ==
    ASSUME RequestsOK, ReviewsOK, NEW u \in Users, review[u].at # "idle"
    PROVE  /\ review[u] \in [at : Stages, request : Requests, seen : Rows \union {NoRow}]
           /\ review[u].request \in Requests
           /\ request[review[u].request] \in RequestRows
           /\ LoanOf(u) \in Loans
           /\ TypeOf(u) \in Types
<1>1. review[u] # NoReview
  BY DEF NoReview
<1>2. review[u] \in [at : Stages, request : Requests, seen : Rows \union {NoRow}]
  BY <1>1 DEF ReviewsOK, ReviewRows
<1>3. request[review[u].request] \in RequestRows
  BY <1>1, <1>2 DEF ReviewsOK, RequestsOK
<1> QED
  BY <1>2, <1>3 DEF LoanOf, TypeOf, RequestRows

(* What the statements of LoanServicing make of a row. *)
LEMMA RepaidTyped ==
    ASSUME NEW row \in Rows, NEW applied \in Nat, row.balance >= applied,
           row.balance <= row.expected
    PROVE  /\ Repaid(row, applied) \in Rows
           /\ Repaid(row, applied).balance <= Repaid(row, applied).expected
<1>1. StatusAfterRepayment(row, applied) \in RowStatus
  BY DEF StatusAfterRepayment, RowStatus, Collectible
<1> QED
  BY <1>1 DEF Repaid, Rows

(* The same of a penalty. *)
LEMMA ChargedTyped ==
    ASSUME NEW row \in Rows, NEW amount \in Nat, row.balance <= row.expected
    PROVE  /\ Charged(row, amount) \in Rows
           /\ Charged(row, amount).balance <= Charged(row, amount).expected
  BY DEF Charged, Rows

(* The same of the overdue job's mark. *)
LEMMA OverdueTyped ==
    ASSUME NEW row \in Rows, row.balance <= row.expected
    PROVE  Overdue(row) \in Rows /\ Overdue(row).balance <= Overdue(row).expected
  BY DEF Overdue, Rows, RowStatus, Collectible

(* The writers of LoanServicing keep its types. *)
LEMMA ServicingTyped ==
    ASSUME ServicingTypeOK, ServicingNext
    PROVE  ServicingTypeOK' /\ holder' = holder
<1> USE ServicingAssumption
<1>1. ASSUME NEW l \in Loans, NEW applied \in 1 .. MaxTotal, RecordRepayment(l, applied)
      PROVE  ServicingTypeOK' /\ holder' = holder
  <2>1. loan[l] \in Rows /\ applied \in Nat /\ loan[l].balance >= applied
    BY <1>1 DEF ServicingTypeOK, RecordRepayment, MayRepay
  <2>2. /\ Repaid(loan[l], applied) \in Rows
        /\ Repaid(loan[l], applied).balance <= Repaid(loan[l], applied).expected
    BY <2>1, RepaidTyped DEF ServicingTypeOK
  <2> QED
    BY <1>1, <2>1, <2>2 DEF RecordRepayment, ServicingTypeOK
<1>2. ASSUME NEW p \in PenaltyJobs, NEW l \in Loans, ReadInstallment(p, l)
      PROVE  ServicingTypeOK' /\ holder' = holder
  BY <1>2 DEF ReadInstallment, ServicingTypeOK
<1>3. ASSUME NEW p \in PenaltyJobs, NEW amount \in Charges, ApplyPenalty(p, amount)
      PROVE  ServicingTypeOK' /\ holder' = holder
  <2> DEFINE l == charging[p]
  <2>1. l \in Loans /\ loan[l] \in Rows /\ amount \in Nat
    BY <1>3 DEF ApplyPenalty, ServicingTypeOK
  <2>2. /\ Charged(loan[l], amount) \in Rows
        /\ Charged(loan[l], amount).balance <= Charged(loan[l], amount).expected
    BY <2>1, ChargedTyped DEF ServicingTypeOK
  <2> QED
    BY <1>3, <2>1, <2>2 DEF ApplyPenalty, ServicingTypeOK
<1>4. ASSUME NEW p \in PenaltyJobs, SkipPenalty(p)
      PROVE  ServicingTypeOK' /\ holder' = holder
  BY <1>4 DEF SkipPenalty, ServicingTypeOK
<1>5. ASSUME NEW j \in SyncJobs, NEW l \in Loans, LoadForSync(j, l)
      PROVE  ServicingTypeOK' /\ holder' = holder
  BY <1>5 DEF LoadForSync, ServicingTypeOK
<1>6. ASSUME NEW j \in SyncJobs, SaveOverdue(j)
      PROVE  ServicingTypeOK' /\ holder' = holder
  <2>1. synced[j] \in [loan : Loans, row : Rows]
    BY <1>6 DEF SaveOverdue, ServicingTypeOK
  <2>2. /\ Overdue(synced[j].row) \in Rows
        /\ Overdue(synced[j].row).balance <= Overdue(synced[j].row).expected
    BY <2>1, OverdueTyped DEF ServicingTypeOK
  <2>3. /\ synced' \in [SyncJobs -> [loan : Loans, row : Rows] \union {NotLoaded}]
        /\ \A k \in SyncJobs : synced'[k].row.balance <= synced'[k].row.expected
    BY <1>6 DEF SaveOverdue, ServicingTypeOK, NotLoaded, NoRow
  <2> QED
    BY <1>6, <2>1, <2>2, <2>3 DEF SaveOverdue, ServicingTypeOK
<1> QED
  BY <1>1, <1>2, <1>3, <1>4, <1>5, <1>6 DEF ServicingNext

-----------------------------------------------------------------------------
(* A decision changes a request's status, checker and execution, and nothing
   it was made for. *)
LEMMA DecisionTyped ==
    ASSUME NEW row \in RequestRows, NEW d \in Decided, NEW u \in Users,
           NEW ran \in Rows \union {NoRow}
    PROVE  /\ WithDecision(row, d, u, ran) \in RequestRows
           /\ WithDecision(row, d, u, ran).type = row.type
           /\ WithDecision(row, d, u, ran).loan = row.loan
           /\ WithDecision(row, d, u, ran).by = row.by
           /\ WithDecision(row, d, u, ran).snapshot = row.snapshot
           /\ WithDecision(row, d, u, ran).status = d
           /\ WithDecision(row, d, u, ran).checker = u
           /\ WithDecision(row, d, u, ran).ranOn = ran
  BY DEF WithDecision, RequestRows

(* The update that expires requests leaves alone what a transaction holds. *)
LEMMA ExpiredTyped ==
    ASSUME RequestsOK, NothingToWaitFor
    PROVE  /\ Expired \in [Requests -> RequestRows \union {NoRequest}]
           /\ \A r \in Requests :
                 \/ Expired[r] = request[r] /\ ~Due(r)
                 \/ /\ Due(r) /\ ~Locked(r)
                    /\ request[r] \in RequestRows /\ Expired[r] \in RequestRows
                    /\ Expired[r] = [request[r] EXCEPT !.status = "expired"]
                    /\ Expired[r].status = "expired"
<1>1. ASSUME NEW r \in Requests, Due(r)
      PROVE  /\ ~Locked(r) /\ request[r] \in RequestRows
             /\ [request[r] EXCEPT !.status = "expired"] \in RequestRows
  <2>1. request[r] # NoRequest
    BY <1>1 DEF Due, Pending, NoRequest
  <2>2. request[r] \in RequestRows
    BY <2>1 DEF RequestsOK
  <2>3. ~Locked(r)
    BY <1>1 DEF NothingToWaitFor
  <2> QED
    BY <2>2, <2>3 DEF RequestRows, Decided
<1>2. \A r \in Requests : Expired[r] = IF Due(r) THEN [request[r] EXCEPT !.status = "expired"]
                                                ELSE request[r]
  BY DEF Expired
<1>3. ASSUME NEW r \in Requests
      PROVE  /\ Expired[r] \in RequestRows \union {NoRequest}
             /\ \/ Expired[r] = request[r] /\ ~Due(r)
                \/ /\ Due(r) /\ ~Locked(r)
                   /\ request[r] \in RequestRows /\ Expired[r] \in RequestRows
                   /\ Expired[r] = [request[r] EXCEPT !.status = "expired"]
                   /\ Expired[r].status = "expired"
  <2>1. CASE Due(r)
    BY <1>1, <1>2, <2>1 DEF RequestRows
  <2>2. CASE ~Due(r)
    BY <1>2, <2>2 DEF RequestsOK
  <2> QED
    BY <2>1, <2>2
<1>4. Expired \in [Requests -> RequestRows \union {NoRequest}]
  BY <1>3 DEF Expired
<1> QED
  BY <1>3, <1>4

(* What a step can do to one request. *)
SameRequest(r) ==
    /\ request'[r].type = request[r].type
    /\ request'[r].loan = request[r].loan
    /\ request'[r].by = request[r].by
    /\ request'[r].snapshot = request[r].snapshot

Expires(r) ==
    /\ Due(r) /\ ~Locked(r) /\ SameRequest(r)
    /\ request[r] \in RequestRows /\ request'[r] \in RequestRows
    /\ request'[r].status = "expired"

IsDecided(r, d, u) ==
    /\ review[u].request = r /\ SameRequest(r)
    /\ request[r] \in RequestRows /\ request'[r] \in RequestRows
    /\ request'[r].status = d /\ request'[r].checker = u

RequestEffect(r) ==
    \/ request'[r] = request[r]
    \/ Expires(r)
    \/ \E u \in Makers : CreateRequest(u, r) /\ request'[r] = NewRequest(u, asking[u])
    \/ \E u \in Users : Reject(u) /\ IsDecided(r, "rejected", u)
    \/ \E u \in Users : /\ CommitReview(u) /\ IsDecided(r, "approved", u)
                       /\ request'[r].ranOn = loan[LoanOf(u)]

(* A step that only expires requests leaves each as it is or expires it. *)
LEMMA ExpiringStep ==
    ASSUME RequestsOK, NothingToWaitFor, request' = Expired
    PROVE  /\ request' \in [Requests -> RequestRows \union {NoRequest}]
           /\ \A r \in Requests : request'[r] = request[r] \/ Expires(r)
<1>1. ASSUME NEW r \in Requests PROVE request'[r] = request[r] \/ Expires(r)
  <2>1. CASE Due(r)
    <3>1. /\ ~Locked(r) /\ request[r] \in RequestRows /\ request'[r] \in RequestRows
          /\ request'[r] = [request[r] EXCEPT !.status = "expired"]
          /\ request'[r].status = "expired"
      BY <2>1, ExpiredTyped
    <3>2. SameRequest(r)
      BY <3>1 DEF SameRequest, RequestRows
    <3> QED
      BY <2>1, <3>1, <3>2 DEF Expires
  <2>2. CASE ~Due(r)
    BY <2>2, ExpiredTyped
  <2> QED
    BY <2>1, <2>2
<1> QED
  BY <1>1, ExpiredTyped

(* The same, when the step also sets one request. *)
LEMMA ExpiringElsewhere ==
    ASSUME RequestsOK, NothingToWaitFor, NEW q \in Requests, NEW new \in RequestRows,
           request' = [Expired EXCEPT ![q] = new]
    PROVE  /\ request' \in [Requests -> RequestRows \union {NoRequest}]
           /\ request'[q] = new
           /\ \A r \in Requests \ {q} : request'[r] = request[r] \/ Expires(r)
<1>1. /\ request' \in [Requests -> RequestRows \union {NoRequest}]
      /\ request'[q] = new
      /\ \A r \in Requests \ {q} : request'[r] = Expired[r]
  BY ExpiredTyped
<1>2. ASSUME NEW r \in Requests \ {q} PROVE request'[r] = request[r] \/ Expires(r)
  <2>1. CASE Due(r)
    <3>1. /\ ~Locked(r) /\ request[r] \in RequestRows /\ request'[r] \in RequestRows
          /\ request'[r] = [request[r] EXCEPT !.status = "expired"]
          /\ request'[r].status = "expired"
      BY <1>1, <2>1, ExpiredTyped
    <3>2. SameRequest(r)
      BY <3>1 DEF SameRequest, RequestRows
    <3> QED
      BY <2>1, <3>1, <3>2 DEF Expires
  <2>2. CASE ~Due(r)
    BY <1>1, <2>2, ExpiredTyped
  <2> QED
    BY <2>1, <2>2
<1> QED
  BY <1>1, <1>2

(* Every step has one of these effects on each request, and keeps the tables
   around requests typed. *)
LEMMA RequestStep ==
    ASSUME ServicingTypeOK, RequestsOK, ReviewsOK, [ApprovalNext]_approvalVars
    PROVE  RequestsOK' /\ \A r \in Requests : RequestEffect(r)
<1> USE ApprovalAssumption DEF requestVars
<1>1. CASE ServicingNext /\ UNCHANGED <<request, lapsed, asking, review, events, faults>>
  BY <1>1 DEF RequestsOK, RequestEffect
<1>2. ASSUME NEW q \in Requests, Lapse(q)
      PROVE  RequestsOK' /\ \A r \in Requests : RequestEffect(r)
  BY <1>2 DEF Lapse, RequestsOK, RequestEffect
<1>3. CASE ListPendingRequests
  BY <1>3, ExpiringStep DEF ListPendingRequests, RequestsOK, RequestEffect
<1>4. ASSUME NEW u \in Makers, NEW l \in Loans, NEW type \in Types, ReadForRequest(u, l, type)
      PROVE  RequestsOK' /\ \A r \in Requests : RequestEffect(r)
  BY <1>4 DEF ReadForRequest, RequestsOK, RequestEffect, AskingRows, ServicingTypeOK
<1>5. ASSUME NEW u \in Makers, NEW q \in Requests, CreateRequest(u, q)
      PROVE  RequestsOK' /\ \A r \in Requests : RequestEffect(r)
  <2>1. asking[u] \in [type : Types, loan : Loans, seen : Rows]
    BY <1>5 DEF CreateRequest, RequestsOK, AskingRows
  <2>2. NewRequest(u, asking[u]) \in RequestRows
    BY <2>1 DEF NewRequest, RequestRows
  <2>3. /\ request' \in [Requests -> RequestRows \union {NoRequest}]
        /\ request'[q] = NewRequest(u, asking[u])
        /\ \A r \in Requests \ {q} : request'[r] = request[r] \/ Expires(r)
    BY <1>5, <2>2, ExpiringElsewhere DEF CreateRequest, MayInsert
  <2>4. asking' \in [Users -> AskingRows]
    BY <1>5 DEF CreateRequest, RequestsOK, AskingRows
  <2>5. RequestsOK'
    BY <1>5, <2>3, <2>4 DEF CreateRequest, RequestsOK
  <2> QED
    BY <1>5, <2>3, <2>5 DEF RequestEffect
<1>6. ASSUME NEW u \in Makers, RefuseDuplicate(u)
      PROVE  RequestsOK' /\ \A r \in Requests : RequestEffect(r)
  BY <1>6 DEF RefuseDuplicate, RequestsOK, RequestEffect, AskingRows
<1>7. ASSUME NEW u \in Users, NEW q \in Requests, NEW d \in {"rejecting", "approving"},
             StartReview(u, q, d)
      PROVE  RequestsOK' /\ \A r \in Requests : RequestEffect(r)
  BY <1>7, ExpiringStep DEF StartReview, RequestsOK, RequestEffect
<1>8. ASSUME NEW u \in Users, Reject(u)
      PROVE  RequestsOK' /\ \A r \in Requests : RequestEffect(r)
  <2> DEFINE q == review[u].request
             new == WithDecision(Expired[q], "rejected", u, NoRow)
  <2>1. q \in Requests /\ request[q] \in RequestRows
    BY <1>8, ReviewTyped DEF Reject
  <2>2. NothingToWaitFor /\ Expired[q] = request[q]
    BY <1>8, <2>1 DEF Reject, Expired
  <2>3. /\ new \in RequestRows
        /\ new.type = request[q].type /\ new.loan = request[q].loan
        /\ new.by = request[q].by /\ new.snapshot = request[q].snapshot
        /\ new.status = "rejected" /\ new.checker = u
    BY <2>1, <2>2, DecisionTyped DEF Decided
  <2>4. request' = [Expired EXCEPT ![q] = new]
    BY <1>8 DEF Reject
  <2> HIDE DEF new
  <2>5. /\ request' \in [Requests -> RequestRows \union {NoRequest}]
        /\ request'[q] = new
        /\ \A r \in Requests \ {q} : request'[r] = request[r] \/ Expires(r)
    BY <2>1, <2>2, <2>3, <2>4, ExpiringElsewhere
  <2>6. IsDecided(q, "rejected", u)
    BY <2>1, <2>3, <2>5 DEF IsDecided, SameRequest
  <2>7. RequestsOK'
    BY <1>8, <2>5 DEF Reject, RequestsOK
  <2> QED
    BY <1>8, <2>5, <2>6, <2>7 DEF RequestEffect
<1>9. ASSUME NEW u \in Users, RejectTooLate(u)
      PROVE  RequestsOK' /\ \A r \in Requests : RequestEffect(r)
  BY <1>9, ExpiringStep DEF RejectTooLate, RequestsOK, RequestEffect
<1>10. ASSUME NEW u \in Users,
              FinalizeRequest(u) \/ FindDecided(u) \/ PreCheck(u) \/ ReadLoan(u)
                \/ UpdateLoan(u) \/ Announce(u) \/ RefuseExecution(u) \/ RollBack(u)
       PROVE  RequestsOK' /\ \A r \in Requests : RequestEffect(r)
  <2>1. UNCHANGED requestVars
    BY <1>10 DEF FinalizeRequest, FindDecided, PreCheck, ReadLoan, UpdateLoan, Announce,
                 RefuseExecution, RollBack
  <2>2. faults' \in 0 .. MaxFaults
    BY <1>10 DEF FinalizeRequest, FindDecided, PreCheck, ReadLoan, UpdateLoan, Announce,
                 RefuseExecution, RollBack, RequestsOK
  <2>3. events' \subseteq Requests
    <3>1. CASE Announce(u)
      <4>1. review[u].request \in Requests
        BY <3>1, ReviewTyped DEF Announce
      <4> QED
        BY <3>1, <4>1 DEF Announce, RequestsOK
    <3>2. CASE ~Announce(u)
      BY <1>10, <3>2 DEF FinalizeRequest, FindDecided, PreCheck, ReadLoan, UpdateLoan,
                         RefuseExecution, RollBack, RequestsOK
    <3> QED
      BY <3>1, <3>2
  <2> QED
    BY <2>1, <2>2, <2>3 DEF RequestsOK, RequestEffect
<1>11. ASSUME NEW u \in Users, CommitReview(u)
       PROVE  RequestsOK' /\ \A r \in Requests : RequestEffect(r)
  <2> DEFINE q == review[u].request
             new == WithDecision(request[q], "approved", u, loan[LoanOf(u)])
  <2>1. q \in Requests /\ request[q] \in RequestRows /\ LoanOf(u) \in Loans
    BY <1>11, ReviewTyped DEF CommitReview
  <2>2. loan[LoanOf(u)] \in Rows
    BY <2>1 DEF ServicingTypeOK
  <2>3. /\ new \in RequestRows
        /\ new.type = request[q].type /\ new.loan = request[q].loan
        /\ new.by = request[q].by /\ new.snapshot = request[q].snapshot
        /\ new.status = "approved" /\ new.checker = u /\ new.ranOn = loan[LoanOf(u)]
    BY <2>1, <2>2, DecisionTyped DEF Decided
  <2>4. request' = [request EXCEPT ![q] = new]
    BY <1>11 DEF CommitReview
  <2> HIDE DEF new
  <2>5. /\ request' \in [Requests -> RequestRows \union {NoRequest}]
        /\ request'[q] = new
        /\ \A r \in Requests \ {q} : request'[r] = request[r]
    BY <2>1, <2>3, <2>4 DEF RequestsOK
  <2>6. IsDecided(q, "approved", u) /\ request'[q].ranOn = loan[LoanOf(u)]
    BY <2>1, <2>3, <2>5 DEF IsDecided, SameRequest
  <2>7. RequestsOK'
    BY <1>11, <2>5 DEF CommitReview, RequestsOK
  <2> QED
    BY <1>11, <2>5, <2>6, <2>7 DEF RequestEffect
<1>12. CASE Crash
  BY <1>12 DEF Crash, RequestsOK, RequestEffect, AskingRows
<1>13. CASE UNCHANGED approvalVars
  BY <1>13 DEF approvalVars, RequestsOK, RequestEffect
<1> QED
  BY <1>1, <1>2, <1>3, <1>4, <1>5, <1>6, <1>7, <1>8, <1>9, <1>10, <1>11, <1>12, <1>13
  DEF ApprovalNext, ReviewStep

(* What a request was made for never changes. *)
LEMMA RequestsStay ==
    ASSUME RequestsOK, NEW r \in Requests, request[r] # NoRequest, RequestEffect(r)
    PROVE  request'[r] \in RequestRows /\ SameRequest(r)
<1>1. request[r] \in RequestRows
  BY DEF RequestsOK
<1>2. CASE request'[r] = request[r]
  BY <1>1, <1>2 DEF SameRequest
<1>3. CASE Expires(r)
  BY <1>3 DEF Expires
<1>4. ASSUME NEW u \in Makers, CreateRequest(u, r) PROVE FALSE
  BY <1>4 DEF CreateRequest
<1>5. ASSUME NEW u \in Users, NEW d, IsDecided(r, d, u)
      PROVE  request'[r] \in RequestRows /\ SameRequest(r)
  BY <1>5 DEF IsDecided
<1> QED
  BY <1>2, <1>3, <1>4, <1>5 DEF RequestEffect

(* A review that stays with its request stays with its loan, type and snapshot. *)
LEMMA ReviewsStay ==
    ASSUME RequestsOK, ReviewsOK, \A r \in Requests : RequestEffect(r),
           NEW u \in Users, review[u].at # "idle", review'[u].request = review[u].request
    PROVE  /\ LoanOf(u)' = LoanOf(u) /\ TypeOf(u)' = TypeOf(u)
           /\ request'[review[u].request] \in RequestRows
           /\ request'[review[u].request].snapshot = request[review[u].request].snapshot
           /\ request'[review[u].request].by = request[review[u].request].by
<1>1. review[u].request \in Requests /\ request[review[u].request] \in RequestRows
  BY ReviewTyped
<1>2. request[review[u].request] # NoRequest
  BY <1>1, RowsTyped
<1>3. request'[review[u].request] \in RequestRows /\ SameRequest(review[u].request)
  BY <1>1, <1>2, RequestsStay
<1> QED
  BY <1>3 DEF LoanOf, TypeOf, SameRequest

(* A review that goes on stays with its request and what it read. *)
LEMMA GotoTyped ==
    ASSUME RequestsOK, ReviewsOK, \A r \in Requests : RequestEffect(r),
           NEW u \in Users, review[u].at # "idle", NEW to \in Stages, Goto(u, to)
    PROVE  /\ ReviewsOK'
           /\ review'[u].at = to
           /\ review'[u].request = review[u].request
           /\ review'[u].seen = review[u].seen
           /\ \A v \in Users \ {u} : review'[v] = review[v]
<1>1. review[u] \in [at : Stages, request : Requests, seen : Rows \union {NoRow}]
  BY ReviewTyped
<1>2. /\ review'[u] = [review[u] EXCEPT !.at = to]
      /\ \A v \in Users \ {u} : review'[v] = review[v]
  BY DEF Goto, ReviewsOK
<1>3. /\ review'[u] \in [at : Stages, request : Requests, seen : Rows \union {NoRow}]
      /\ review'[u].at = to
      /\ review'[u].request = review[u].request
      /\ review'[u].seen = review[u].seen
  BY <1>1, <1>2
<1>4. review' \in [Users -> ReviewRows]
  BY <1>2, <1>3 DEF Goto, ReviewsOK, ReviewRows
<1>5. \A v \in Users : review'[v].seen.balance <= review'[v].seen.expected
  BY <1>2, <1>3 DEF ReviewsOK
<1>6. ASSUME NEW v \in Users, review'[v] # NoReview
      PROVE  request'[review'[v].request] # NoRequest
  <2>1. review[v] # NoReview /\ review'[v].request = review[v].request
    BY <1>1, <1>2, <1>3, <1>6, RowsTyped
  <2>2. review[v].request \in Requests /\ request[review[v].request] # NoRequest
    BY <2>1 DEF ReviewsOK, ReviewRows
  <2> QED
    BY <2>1, <2>2, RequestsStay, RowsTyped
<1> QED
  BY <1>2, <1>3, <1>4, <1>5, <1>6 DEF ReviewsOK

(* A review that ends leaves the others alone. *)
LEMMA StopTyped ==
    ASSUME RequestsOK, ReviewsOK, \A r \in Requests : RequestEffect(r),
           NEW u \in Users, Stop(u)
    PROVE  /\ ReviewsOK'
           /\ review'[u] = NoReview
           /\ \A v \in Users \ {u} : review'[v] = review[v]
<1>1. /\ review'[u] = NoReview
      /\ \A v \in Users \ {u} : review'[v] = review[v]
      /\ review' \in [Users -> ReviewRows]
  BY DEF Stop, ReviewsOK, ReviewRows
<1>2. \A v \in Users : review'[v].seen.balance <= review'[v].seen.expected
  BY <1>1 DEF ReviewsOK, NoReview, NoRow
<1>3. ASSUME NEW v \in Users, review'[v] # NoReview
      PROVE  request'[review'[v].request] # NoRequest
  <2>1. review[v] # NoReview /\ review'[v] = review[v]
    BY <1>1, <1>3
  <2>2. review[v].request \in Requests /\ request[review[v].request] # NoRequest
    BY <2>1 DEF ReviewsOK, ReviewRows
  <2> QED
    BY <2>1, <2>2, RequestsStay, RowsTyped
<1> QED
  BY <1>1, <1>2, <1>3 DEF ReviewsOK

(* Reviews that stay are of requests that stay. *)
LEMMA UnchangedReviewsTyped ==
    ASSUME RequestsOK, ReviewsOK, \A r \in Requests : RequestEffect(r), review' = review
    PROVE  ReviewsOK'
<1>1. ASSUME NEW v \in Users, review[v] # NoReview
      PROVE  request'[review[v].request] # NoRequest
  <2>1. review[v].request \in Requests /\ request[review[v].request] # NoRequest
    BY <1>1 DEF ReviewsOK, ReviewRows
  <2> QED
    BY <2>1, RequestsStay, RowsTyped
<1> QED
  BY <1>1 DEF ReviewsOK

(* The same for a review that is set as a whole. *)
LEMMA SetReviewTyped ==
    ASSUME RequestsOK, ReviewsOK, \A r \in Requests : RequestEffect(r),
           NEW u \in Users,
           NEW new \in [at : Stages, request : Requests, seen : Rows \union {NoRow}],
           new.seen.balance <= new.seen.expected,
           request[new.request] # NoRequest,
           review' = [review EXCEPT ![u] = new]
    PROVE  /\ ReviewsOK'
           /\ review'[u] = new
           /\ \A v \in Users \ {u} : review'[v] = review[v]
<1>1. /\ review'[u] = new
      /\ \A v \in Users \ {u} : review'[v] = review[v]
      /\ review' \in [Users -> ReviewRows]
  BY DEF ReviewsOK, ReviewRows
<1>2. \A v \in Users : review'[v].seen.balance <= review'[v].seen.expected
  BY <1>1 DEF ReviewsOK
<1>3. ASSUME NEW v \in Users, review'[v] # NoReview
      PROVE  request'[review'[v].request] # NoRequest
  <2>1. review'[v].request \in Requests /\ request[review'[v].request] # NoRequest
    BY <1>1, <1>3 DEF ReviewsOK, ReviewRows
  <2> QED
    BY <2>1, RequestsStay, RowsTyped
<1> QED
  BY <1>1, <1>2, <1>3 DEF ReviewsOK

(* Locks stay with the transactions that hold them. *)
LEMMA LocksStay ==
    ASSUME RequestsOK, ReviewsOK, LocksOK, \A r \in Requests : RequestEffect(r),
           holder' = holder,
           \A v \in Users :
              \/ review'[v] = review[v]
              \/ /\ review[v].at \notin {"updated", "announced"}
                 /\ review'[v].at \notin {"updated", "announced"}
              \/ /\ review[v].at \in {"updated", "announced"}
                 /\ review'[v].at \in {"updated", "announced"}
                 /\ review'[v].request = review[v].request
    PROVE  LocksOK'
<1>1. ASSUME NEW v \in Users, NEW l \in Loans PROVE Holds(v, l)' <=> Holds(v, l)
  <2>1. CASE review[v].at \in {"updated", "announced"}
    <3>1. review'[v].at \in {"updated", "announced"} /\ review'[v].request = review[v].request
      BY <2>1
    <3>2. LoanOf(v)' = LoanOf(v)
      BY <2>1, <3>1, ReviewsStay
    <3> QED
      BY <2>1, <3>1, <3>2 DEF Holds
  <2>2. CASE review[v].at \notin {"updated", "announced"}
    BY <2>2 DEF Holds
  <2> QED
    BY <2>1, <2>2
<1> QED
  BY <1>1 DEF LocksOK

(* The end of a transaction releases its locks and no other's. *)
LEMMA EndReleases ==
    ASSUME ServicingTypeOK, RequestsOK, ReviewsOK, LocksOK,
           \A r \in Requests : RequestEffect(r), NEW u \in Users, End(u)
    PROVE  /\ LocksOK'
           /\ holder' \in [Loans -> Users \union {None}]
<1>1. review'[u] = NoReview /\ \A v \in Users \ {u} : review'[v] = review[v]
  BY StopTyped DEF End
<1>2. holder' = [l \in Loans |-> IF holder[l] = u THEN None ELSE holder[l]]
  BY DEF End, Release
<1>3. ASSUME NEW v \in Users, NEW l \in Loans PROVE holder'[l] = v <=> Holds(v, l)'
  <2>1. CASE v = u
    BY <1>1, <1>2, <2>1, ServicingAssumption DEF Holds, NoReview
  <2>2. CASE v # u
    <3>1. holder'[l] = v <=> holder[l] = v
      BY <1>2, <2>2, ServicingAssumption
    <3>2. Holds(v, l)' <=> Holds(v, l)
      <4>1. CASE review[v].at \in {"updated", "announced"}
        BY <1>1, <2>2, <4>1, ReviewsStay DEF Holds
      <4>2. CASE review[v].at \notin {"updated", "announced"}
        BY <1>1, <2>2, <4>2 DEF Holds
      <4> QED
        BY <4>1, <4>2
    <3> QED
      BY <3>1, <3>2 DEF LocksOK
  <2> QED
    BY <2>1, <2>2
<1> QED
  BY <1>2, <1>3 DEF LocksOK, ServicingTypeOK

(* The update of a loan takes the lock of its row, which nobody had. *)
LEMMA UpdateTakesLock ==
    ASSUME ServicingTypeOK, RequestsOK, ReviewsOK, LocksOK,
           \A r \in Requests : RequestEffect(r), NEW u \in Users, UpdateLoan(u)
    PROVE  /\ LocksOK'
           /\ holder' \in [Loans -> Users \union {None}]
<1> DEFINE k == LoanOf(u)
<1>1. k \in Loans /\ review[u].at = "read" /\ holder[k] = None
  BY ReviewTyped DEF UpdateLoan, Unlocked
<1>2. /\ review'[u].at = "updated" /\ review'[u].request = review[u].request
      /\ \A v \in Users \ {u} : review'[v] = review[v]
  BY GotoTyped DEF UpdateLoan, Stages, InTransaction
<1>3. LoanOf(u)' = k
  BY <1>1, <1>2, ReviewsStay
<1>4. holder' = [holder EXCEPT ![k] = u]
  BY DEF UpdateLoan
<1> HIDE DEF k
<1>5. ASSUME NEW v \in Users, NEW l \in Loans PROVE holder'[l] = v <=> Holds(v, l)'
  <2>1. CASE v = u
    <3>1. Holds(u, l)' <=> l = k
      BY <1>2, <1>3 DEF Holds
    <3>2. holder[l] # u
      BY <1>1 DEF LocksOK, Holds
    <3> QED
      BY <1>1, <1>4, <2>1, <3>1, <3>2 DEF ServicingTypeOK
  <2>2. CASE v # u
    <3>1. Holds(v, l)' <=> Holds(v, l)
      <4>1. CASE review[v].at \in {"updated", "announced"}
        BY <1>2, <2>2, <4>1, ReviewsStay DEF Holds
      <4>2. CASE review[v].at \notin {"updated", "announced"}
        BY <1>2, <2>2, <4>2 DEF Holds
      <4> QED
        BY <4>1, <4>2
    <3>2. holder'[l] = v <=> holder[l] = v
      BY <1>1, <1>4, <2>2, ServicingAssumption DEF ServicingTypeOK
    <3> QED
      BY <3>1, <3>2 DEF LocksOK
  <2> QED
    BY <2>1, <2>2
<1> QED
  BY <1>1, <1>4, <1>5 DEF LocksOK, ServicingTypeOK

(* Whatever an operation makes of a loan is a row of the table again. *)
LEMMA OutcomesTyped ==
    ASSUME NEW type \in Types, NEW now \in Rows, NEW seen \in Rows \union {NoRow},
           now.balance <= now.expected, seen.balance <= seen.expected,
           NEW next \in Outcomes(type, now, seen)
    PROVE  /\ next \in Rows /\ next.balance <= next.expected
           /\ Posted(type, seen, next) \in Int
<1>1. seen.balance \in Nat /\ seen.expected \in Nat
  BY DEF Rows, NoRow
<1>2. next \in Rows /\ next.balance <= next.expected
  <2>1. CASE type = "write_off"
    <3>1. next = [now EXCEPT !.status = "written_off"]
      BY <2>1 DEF Outcomes
    <3> QED
      BY <3>1 DEF Rows, RowStatus
  <2>2. CASE type = "top_up"
    <3>1. PICK t \in Totals :
             next = [status |-> IF seen.status = "restructured" THEN "restructured" ELSE "active",
                     balance |-> seen.balance + t, expected |-> seen.expected + t]
      BY <2>2 DEF Outcomes
    <3>2. t \in Nat
      BY ServicingAssumption
    <3> QED
      BY <1>1, <3>1, <3>2 DEF Rows, RowStatus, Collectible
  <2>3. CASE type \notin {"write_off", "top_up"}
    <3>1. PICK t \in Totals : next = [status |-> "restructured", balance |-> t, expected |-> t]
      BY <2>3 DEF Outcomes
    <3>2. t \in Nat
      BY ServicingAssumption
    <3> QED
      BY <3>1, <3>2 DEF Rows, RowStatus, Collectible
  <2> QED
    BY <2>1, <2>2, <2>3
<1>3. next.balance \in Nat
  BY <1>2 DEF Rows
<1> QED
  BY <1>1, <1>2, <1>3 DEF Posted

(* A commit writes a row of the table and an integer to the ledger. *)
LEMMA CommitTyped ==
    ASSUME ServicingTypeOK, RequestsOK, ReviewsOK, NEW u \in Users, CommitReview(u)
    PROVE  /\ loan' \in [Loans -> Rows]
           /\ \A l \in Loans : loan'[l].balance <= loan'[l].expected
           /\ receivable' \in [Loans -> Int]
<1> DEFINE k == LoanOf(u)
           seen == review[u].seen
<1>1. /\ k \in Loans /\ TypeOf(u) \in Types /\ seen \in Rows \union {NoRow}
      /\ seen.balance <= seen.expected
  BY ReviewTyped DEF CommitReview, ReviewsOK
<1>2. PICK next \in Outcomes(TypeOf(u), loan[k], seen) :
         /\ loan' = [loan EXCEPT ![k] = next]
         /\ receivable' = [receivable EXCEPT ![k] = @ + Posted(TypeOf(u), seen, next)]
  BY DEF CommitReview
<1>3. loan[k] \in Rows /\ loan[k].balance <= loan[k].expected
  BY <1>1 DEF ServicingTypeOK
<1> HIDE DEF k, seen
<1>4. /\ next \in Rows /\ next.balance <= next.expected
      /\ Posted(TypeOf(u), seen, next) \in Int
  BY <1>1, <1>2, <1>3, OutcomesTyped
<1> QED
  BY <1>1, <1>2, <1>4 DEF ServicingTypeOK

(* One step of the specification keeps every type. *)
LEMMA TypeStep ==
    ASSUME ApprovalTypeOK, [ApprovalNext]_approvalVars
    PROVE  ApprovalTypeOK' /\ \A r \in Requests : RequestEffect(r)
<1>1. ServicingTypeOK /\ RequestsOK /\ ReviewsOK /\ LocksOK
  BY TypeParts
<1>2. RequestsOK' /\ \A r \in Requests : RequestEffect(r)
  BY <1>1, RequestStep
<1> DEFINE Typed == ServicingTypeOK' /\ ReviewsOK' /\ LocksOK'
<1>3. ASSUME UNCHANGED <<servicingVars, review>> PROVE Typed
  BY <1>1, <1>2, <1>3, UnchangedReviewsTyped, LocksStay DEF servicingVars, ServicingTypeOK
<1>4. ASSUME ServicingNext, UNCHANGED <<request, lapsed, asking, review, events, faults>>
      PROVE  Typed
  BY <1>1, <1>2, <1>4, ServicingTyped, UnchangedReviewsTyped, LocksStay
<1>5. ASSUME NEW u \in Users, NEW q \in Requests, NEW d \in {"rejecting", "approving"},
             StartReview(u, q, d)
      PROVE  Typed
  <2> DEFINE new == [at |-> d, request |-> q, seen |-> NoRow]
  <2>1. /\ new \in [at : Stages, request : Requests, seen : Rows \union {NoRow}]
        /\ new.seen.balance <= new.seen.expected
        /\ request[new.request] # NoRequest
        /\ new.at \notin {"updated", "announced"}
    BY <1>5 DEF Stages, NoRow, StartReview, Pending, NoRequest
  <2>2. review' = [review EXCEPT ![u] = new] /\ review[u].at = "idle"
    BY <1>5 DEF StartReview, NoReview
  <2> HIDE DEF new
  <2>3. ReviewsOK' /\ review'[u] = new /\ \A v \in Users \ {u} : review'[v] = review[v]
    BY <1>1, <1>2, <2>1, <2>2, SetReviewTyped
  <2>4. holder' = holder /\ ServicingTypeOK'
    BY <1>1, <1>5 DEF StartReview, servicingVars, ServicingTypeOK
  <2>5. LocksOK'
    BY <1>1, <1>2, <2>1, <2>2, <2>3, <2>4, LocksStay
  <2> QED
    BY <2>3, <2>4, <2>5
<1>6. ASSUME NEW u \in Users, Reject(u) \/ RejectTooLate(u) \/ FindDecided(u)
      PROVE  Typed
  <2>1. /\ Stop(u) /\ holder' = holder /\ ServicingTypeOK'
        /\ review[u].at \notin {"updated", "announced"}
    BY <1>1, <1>6 DEF Reject, RejectTooLate, FindDecided, servicingVars, ServicingTypeOK
  <2>2. ReviewsOK' /\ review'[u] = NoReview /\ \A v \in Users \ {u} : review'[v] = review[v]
    BY <1>1, <1>2, <2>1, StopTyped
  <2>3. LocksOK'
    BY <1>1, <1>2, <2>1, <2>2, LocksStay DEF NoReview
  <2> QED
    BY <2>1, <2>2, <2>3
<1>7. ASSUME NEW u \in Users, FinalizeRequest(u) \/ PreCheck(u) \/ Announce(u)
      PROVE  Typed
  <2>1. PICK to \in Stages :
           /\ Goto(u, to) /\ review[u].at # "idle"
           /\ review[u].at \in {"updated", "announced"} <=> to \in {"updated", "announced"}
    BY <1>7 DEF FinalizeRequest, PreCheck, Announce, Stages, InTransaction
  <2>2. holder' = holder /\ ServicingTypeOK'
    BY <1>1, <1>7
    DEF FinalizeRequest, PreCheck, Announce, servicingVars, ServicingTypeOK
  <2>3. /\ ReviewsOK' /\ review'[u].at = to /\ review'[u].request = review[u].request
        /\ \A v \in Users \ {u} : review'[v] = review[v]
    BY <1>1, <1>2, <2>1, GotoTyped
  <2>4. LocksOK'
    BY <1>1, <1>2, <2>1, <2>2, <2>3, LocksStay
  <2> QED
    BY <2>2, <2>3, <2>4
<1>8. ASSUME NEW u \in Users, ReadLoan(u)
      PROVE  Typed
  <2> DEFINE new == [at |-> "read", request |-> review[u].request, seen |-> loan[LoanOf(u)]]
  <2>1. /\ review[u].request \in Requests /\ LoanOf(u) \in Loans
        /\ request[review[u].request] \in RequestRows
    BY <1>1, <1>8, ReviewTyped DEF ReadLoan
  <2>2. loan[LoanOf(u)] \in Rows /\ loan[LoanOf(u)].balance <= loan[LoanOf(u)].expected
    BY <1>1, <2>1 DEF ServicingTypeOK
  <2>3. /\ new \in [at : Stages, request : Requests, seen : Rows \union {NoRow}]
        /\ new.seen.balance <= new.seen.expected
        /\ request[new.request] # NoRequest
        /\ new.at \notin {"updated", "announced"}
    BY <2>1, <2>2, RowsTyped DEF Stages, InTransaction
  <2>4. /\ review' = [review EXCEPT ![u] = new] /\ review[u].at = "prechecked"
        /\ holder' = holder /\ ServicingTypeOK'
    BY <1>1, <1>8 DEF ReadLoan, servicingVars, ServicingTypeOK, ReviewsOK
  <2> HIDE DEF new
  <2>5. ReviewsOK' /\ review'[u] = new /\ \A v \in Users \ {u} : review'[v] = review[v]
    BY <1>1, <1>2, <2>3, <2>4, SetReviewTyped
  <2>6. LocksOK'
    BY <1>1, <1>2, <2>3, <2>4, <2>5, LocksStay
  <2> QED
    BY <2>4, <2>5, <2>6
<1>9. ASSUME NEW u \in Users, UpdateLoan(u)
      PROVE  Typed
  <2>1. LocksOK' /\ holder' \in [Loans -> Users \union {None}]
    BY <1>1, <1>2, <1>9, UpdateTakesLock
  <2>2. ReviewsOK'
    BY <1>1, <1>2, <1>9, GotoTyped DEF UpdateLoan, Stages, InTransaction
  <2> QED
    BY <1>1, <1>9, <2>1, <2>2 DEF UpdateLoan, ServicingTypeOK
<1>10. ASSUME NEW u \in Users, CommitReview(u) \/ RefuseExecution(u) \/ RollBack(u)
       PROVE  Typed
  <2>1. End(u)
    BY <1>10 DEF CommitReview, RefuseExecution, RollBack
  <2>2. LocksOK' /\ holder' \in [Loans -> Users \union {None}]
    BY <1>1, <1>2, <2>1, EndReleases
  <2>3. ReviewsOK'
    BY <1>1, <1>2, <2>1, StopTyped DEF End
  <2>4. /\ loan' \in [Loans -> Rows]
        /\ \A l \in Loans : loan'[l].balance <= loan'[l].expected
        /\ receivable' \in [Loans -> Int]
    <3>1. CASE CommitReview(u)
      BY <1>1, <3>1, CommitTyped
    <3>2. CASE ~CommitReview(u)
      BY <1>1, <1>10, <3>2 DEF RefuseExecution, RollBack, ServicingTypeOK
    <3> QED
      BY <3>1, <3>2
  <2>5. synced' = synced /\ charging' = charging
    BY <1>10 DEF CommitReview, RefuseExecution, RollBack
  <2> QED
    BY <1>1, <2>2, <2>3, <2>4, <2>5 DEF ServicingTypeOK
<1>11. ASSUME Crash PROVE Typed
  <2>1. ServicingTypeOK'
    BY <1>1, <1>11 DEF Crash, ServicingTypeOK, NotLoaded, NoRow
  <2>2. ReviewsOK'
    BY <1>11 DEF Crash, ReviewsOK, ReviewRows, NoReview, NoRow
  <2>3. LocksOK'
    BY <1>11, ServicingAssumption DEF Crash, LocksOK, Holds, NoReview
  <2> QED
    BY <2>1, <2>2, <2>3
<1>12. Typed
  <2>1. ASSUME \/ \E r \in Requests : Lapse(r)
               \/ ListPendingRequests
               \/ \E u \in Makers, l \in Loans, type \in Types : ReadForRequest(u, l, type)
               \/ \E u \in Makers, r \in Requests : CreateRequest(u, r)
               \/ \E u \in Makers : RefuseDuplicate(u)
               \/ UNCHANGED approvalVars
        PROVE  UNCHANGED <<servicingVars, review>>
    BY <2>1 DEF Lapse, ListPendingRequests, ReadForRequest, CreateRequest, RefuseDuplicate,
                approvalVars
  <2> HIDE DEF Typed
  <2> QED
    BY <1>3, <1>4, <1>5, <1>6, <1>7, <1>8, <1>9, <1>10, <1>11, <2>1
    DEF ApprovalNext, ReviewStep
<1>13. ApprovalTypeOK'
  BY <1>2, <1>12
  DEF ApprovalTypeOK, RequestsOK, ReviewsOK, LocksOK, Holds, ReviewRows, AskingRows
<1> QED
  BY <1>2, <1>13

(* The initial states are typed. *)
LEMMA TypeInit == ApprovalInit => ApprovalTypeOK
<1> SUFFICES ASSUME ApprovalInit PROVE ApprovalTypeOK
  OBVIOUS
<1> USE ServicingAssumption, ApprovalAssumption
<1>1. ServicingTypeOK
  <2>1. ASSUME NEW l \in Loans PROVE loan[l] \in Rows /\ loan[l].balance = loan[l].expected
    <3>1. PICK t \in Totals : loan[l] = [status |-> "active", balance |-> t, expected |-> t]
      BY DEF ApprovalInit, ServicingInit
    <3>2. t \in Nat
      OBVIOUS
    <3> QED
      BY <3>1, <3>2 DEF Rows, RowStatus, Collectible
  <2>2. loan \in [Loans -> Rows]
    BY <2>1 DEF ApprovalInit, ServicingInit
  <2>3. receivable \in [Loans -> Int] /\ \A l \in Loans : loan[l].balance <= loan[l].expected
    BY <2>1 DEF ApprovalInit, ServicingInit, Rows
  <2> QED
    BY <2>2, <2>3 DEF ApprovalInit, ServicingInit, ServicingTypeOK, NotLoaded, NoRow
<1>2. RequestsOK
  BY DEF ApprovalInit, RequestsOK, AskingRows
<1>3. ReviewsOK /\ LocksOK
  BY DEF ApprovalInit, ServicingInit, ReviewsOK, LocksOK, Holds, ReviewRows, NoReview, NoRow
<1> QED
  BY <1>1, <1>2, <1>3, TypeParts

(* Requests, reviews, rows and locks stay what they should be, however reviews,
   repayments and jobs interleave: a loan's row is locked by a user exactly while
   that user's transaction has updated it. *)
THEOREM ApprovalTypeCorrect == ApprovalSpec => []ApprovalTypeOK
<1>1. ApprovalTypeOK /\ [ApprovalNext]_approvalVars => ApprovalTypeOK'
  BY TypeStep
<1> QED
  BY <1>1, TypeInit, PTL DEF ApprovalSpec

-----------------------------------------------------------------------------
(* Checkers *)

(* What a step can do to one user's review. *)
ReviewEffect(u) ==
    \/ review'[u] = review[u]
    \/ review'[u] = NoReview
    \/ \E r \in Requests, d \in {"rejecting", "approving"} :
          StartReview(u, r, d) /\ review'[u] = [at |-> d, request |-> r, seen |-> NoRow]
    \/ /\ review[u].at # "idle" /\ review'[u].request = review[u].request
       /\ \A v \in Users \ {u} : review'[v] = review[v]
       /\ \/ FinalizeRequest(u) /\ review'[u].at = "finalized"
          \/ PreCheck(u) /\ review'[u].at = "prechecked"
          \/ ReadLoan(u) /\ review'[u].at = "read" /\ review'[u].seen = loan[LoanOf(u)]
          \/ UpdateLoan(u) /\ review'[u].at = "updated" /\ review'[u].seen = review[u].seen
          \/ Announce(u) /\ review'[u].at = "announced" /\ review'[u].seen = review[u].seen

(* Every step has one of these effects on each review. *)
LEMMA ReviewEffects ==
    ASSUME RequestsOK, ReviewsOK, \A r \in Requests : RequestEffect(r),
           [ApprovalNext]_approvalVars
    PROVE  \A u \in Users : ReviewEffect(u)
<1> DEFINE All == \A u \in Users : ReviewEffect(u)
<1>1. ASSUME review' = review PROVE All
  BY <1>1 DEF ReviewEffect
<1>2. ASSUME NEW u \in Users, NEW r \in Requests, NEW d \in {"rejecting", "approving"},
             StartReview(u, r, d)
      PROVE  All
  <2>1. /\ review'[u] = [at |-> d, request |-> r, seen |-> NoRow]
        /\ \A v \in Users \ {u} : review'[v] = review[v]
    BY <1>2 DEF StartReview, ReviewsOK
  <2> QED
    BY <1>2, <2>1 DEF ReviewEffect
<1>3. ASSUME NEW u \in Users, Stop(u) PROVE All
  BY <1>3, StopTyped DEF ReviewEffect
<1>4. ASSUME NEW u \in Users, FinalizeRequest(u) PROVE All
  <2>1. /\ review[u].at = "approving" /\ review'[u].at = "finalized"
        /\ review'[u].request = review[u].request
        /\ \A v \in Users \ {u} : review'[v] = review[v]
    BY <1>4, GotoTyped DEF FinalizeRequest, Stages, InTransaction
  <2> QED
    BY <1>4, <2>1 DEF ReviewEffect
<1>5. ASSUME NEW u \in Users, PreCheck(u) PROVE All
  <2>1. /\ review[u].at = "finalized" /\ review'[u].at = "prechecked"
        /\ review'[u].request = review[u].request
        /\ \A v \in Users \ {u} : review'[v] = review[v]
    BY <1>5, GotoTyped DEF PreCheck, Stages, InTransaction
  <2> QED
    BY <1>5, <2>1 DEF ReviewEffect
<1>6. ASSUME NEW u \in Users, ReadLoan(u) PROVE All
  <2>1. /\ review[u].at = "prechecked" /\ review'[u].at = "read"
        /\ review'[u].request = review[u].request /\ review'[u].seen = loan[LoanOf(u)]
        /\ \A v \in Users \ {u} : review'[v] = review[v]
    BY <1>6 DEF ReadLoan, ReviewsOK
  <2> QED
    BY <1>6, <2>1 DEF ReviewEffect
<1>7. ASSUME NEW u \in Users, UpdateLoan(u) PROVE All
  <2>1. /\ review[u].at = "read" /\ review'[u].at = "updated"
        /\ review'[u].request = review[u].request /\ review'[u].seen = review[u].seen
        /\ \A v \in Users \ {u} : review'[v] = review[v]
    BY <1>7, GotoTyped DEF UpdateLoan, Stages, InTransaction
  <2> QED
    BY <1>7, <2>1 DEF ReviewEffect
<1>8. ASSUME NEW u \in Users, Announce(u) PROVE All
  <2>1. /\ review[u].at = "updated" /\ review'[u].at = "announced"
        /\ review'[u].request = review[u].request /\ review'[u].seen = review[u].seen
        /\ \A v \in Users \ {u} : review'[v] = review[v]
    BY <1>8, GotoTyped DEF Announce, Stages, InTransaction
  <2> QED
    BY <1>8, <2>1 DEF ReviewEffect
<1>9. ASSUME Crash PROVE All
  BY <1>9 DEF Crash, ReviewEffect
<1>10. ASSUME NEW u \in Users,
              Reject(u) \/ RejectTooLate(u) \/ FindDecided(u) \/ CommitReview(u)
                \/ RefuseExecution(u) \/ RollBack(u)
       PROVE  Stop(u)
  BY <1>10 DEF Reject, RejectTooLate, FindDecided, CommitReview, RefuseExecution, RollBack, End
<1>11. ASSUME \/ ServicingNext /\ UNCHANGED <<request, lapsed, asking, review, events, faults>>
              \/ \E r \in Requests : Lapse(r)
              \/ ListPendingRequests
              \/ \E u \in Makers, l \in Loans, type \in Types : ReadForRequest(u, l, type)
              \/ \E u \in Makers, r \in Requests : CreateRequest(u, r)
              \/ \E u \in Makers : RefuseDuplicate(u)
              \/ UNCHANGED approvalVars
       PROVE  review' = review
  BY <1>11 DEF Lapse, ListPendingRequests, ReadForRequest, CreateRequest, RefuseDuplicate,
               approvalVars
<1> HIDE DEF All
<1> SUFFICES All
  BY DEF All
<1> QED
  BY <1>1, <1>2, <1>3, <1>4, <1>5, <1>6, <1>7, <1>8, <1>9, <1>10, <1>11
  DEF ApprovalNext, ReviewStep

(* Who reviews a request is a checker and not its maker. *)
EyesInv ==
    \A u \in Users :
        review[u].at # "idle" => u \in Checkers /\ u # request[review[u].request].by

(* A review begins with a checker who is not the maker, and decides as that user. *)
LEMMA EyesStep ==
    ASSUME ApprovalTypeOK, EyesInv, OtherEyes, [ApprovalNext]_approvalVars
    PROVE  EyesInv' /\ OtherEyes'
<1>1. RequestsOK /\ ReviewsOK /\ \A r \in Requests : RequestEffect(r)
  BY TypeParts, TypeStep
<1>2. \A u \in Users : ReviewEffect(u)
  BY <1>1, ReviewEffects
<1>3. ASSUME NEW u \in Users, review'[u].at # "idle"
      PROVE  u \in Checkers /\ u # request'[review'[u].request].by
  <2>1. CASE review[u].at # "idle" /\ review'[u].request = review[u].request
    BY <1>1, <2>1, ReviewsStay DEF EyesInv
  <2>2. ASSUME NEW r \in Requests, NEW d \in {"rejecting", "approving"},
               StartReview(u, r, d), review'[u] = [at |-> d, request |-> r, seen |-> NoRow]
        PROVE  u \in Checkers /\ u # request'[review'[u].request].by
    <3>1. request[r] # NoRequest /\ u \in Checkers /\ u # request[r].by
      BY <2>2 DEF StartReview, MayReview, Pending, NoRequest
    <3> QED
      BY <1>1, <2>2, <3>1, RequestsStay DEF SameRequest
  <2>3. review'[u] # NoReview
    BY <1>3 DEF NoReview
  <2> QED
    BY <1>2, <1>3, <2>1, <2>2, <2>3 DEF ReviewEffect
<1>4. ASSUME NEW r \in Requests, request'[r].status \in {"approved", "rejected"}
      PROVE  request'[r].checker \in Checkers /\ request'[r].checker # request'[r].by
  <2>1. CASE request'[r] = request[r]
    BY <1>4, <2>1 DEF OtherEyes
  <2>2. ~Expires(r)
    BY <1>4 DEF Expires
  <2>3. ASSUME NEW u \in Makers, request'[r] = NewRequest(u, asking[u]) PROVE FALSE
    BY <1>4, <2>3 DEF NewRequest
  <2>4. ASSUME NEW u \in Users, NEW d, Reject(u) \/ CommitReview(u), IsDecided(r, d, u)
        PROVE  request'[r].checker \in Checkers /\ request'[r].checker # request'[r].by
    BY <2>4 DEF Reject, CommitReview, IsDecided, SameRequest, EyesInv
  <2> QED
    BY <1>1, <2>1, <2>2, <2>3, <2>4 DEF RequestEffect
<1> QED
  BY <1>3, <1>4 DEF EyesInv, OtherEyes

(* No user decides a request they made, admins included, and who decides has a
   checker role: rejectPendingRequest's own test is weaker, the look at the maker
   before it carries the property. *)
THEOREM MakerChecker == ApprovalSpec => []OtherEyes
<1>1. ApprovalInit => EyesInv /\ OtherEyes
  BY DEF ApprovalInit, EyesInv, OtherEyes, NoReview, NoRequest
<1>2. ApprovalTypeOK /\ EyesInv /\ OtherEyes /\ [ApprovalNext]_approvalVars
        => EyesInv' /\ OtherEyes'
  BY EyesStep
<1> QED
  BY <1>1, <1>2, ApprovalTypeCorrect, PTL DEF ApprovalSpec

-----------------------------------------------------------------------------
(* Decisions *)

(* The row lock of a request: its holder's request is pending, and there is one
   holder. *)
LockInv ==
    /\ \A u \in Users : review[u].at \in InTransaction => Pending(review[u].request)
    /\ \A u, v \in Users :
          /\ review[u].at \in InTransaction /\ review[v].at \in InTransaction
          /\ review[u].request = review[v].request
          => u = v

(* The row lock serialises those who decide a request: who has it finds it
   pending, and who comes later finds it decided. *)
LEMMA LockStep ==
    ASSUME ApprovalTypeOK, LockInv, [ApprovalNext]_approvalVars
    PROVE  /\ LockInv'
           /\ \A r \in Requests : request[r].status \in Decided => request'[r] = request[r]
<1>1. RequestsOK /\ ReviewsOK /\ \A r \in Requests : RequestEffect(r)
  BY TypeParts, TypeStep
<1>2. \A u \in Users : ReviewEffect(u)
  BY <1>1, ReviewEffects
<1>3. ASSUME NEW r \in Requests, request[r].status \in Decided
      PROVE  request'[r] = request[r]
  <2>1. ~Pending(r) /\ request[r] # NoRequest
    BY <1>3 DEF Decided, Pending, NoRequest
  <2>2. ~Expires(r)
    BY <2>1 DEF Expires, Due
  <2>3. ASSUME NEW u \in Makers, CreateRequest(u, r) PROVE FALSE
    BY <2>1, <2>3 DEF CreateRequest
  <2>4. ASSUME NEW u \in Users, NEW d, Reject(u) \/ CommitReview(u), IsDecided(r, d, u)
        PROVE  FALSE
    BY <2>1, <2>4 DEF Reject, CommitReview, IsDecided, LockInv, InTransaction
  <2> QED
    BY <1>1, <2>1, <2>2, <2>3, <2>4 DEF RequestEffect
(* A review that has a lock and keeps it. *)
<1>4. ASSUME NEW u \in Users, review[u].at \in InTransaction,
             review'[u].at \in InTransaction, review'[u].request = review[u].request
      PROVE  request'[review[u].request].status = "pending"
  <2> DEFINE q == review[u].request
  <2>1. q \in Requests /\ Pending(q) /\ Locked(q) /\ request[q] # NoRequest
    BY <1>1, <1>4, ReviewTyped, RowsTyped DEF LockInv, Locked, InTransaction
  <2>2. CASE request'[q] = request[q]
    BY <2>1, <2>2 DEF Pending
  <2>3. ~Expires(q)
    BY <2>1 DEF Expires
  <2>4. ASSUME NEW v \in Makers, CreateRequest(v, q) PROVE FALSE
    BY <2>1, <2>4 DEF CreateRequest
  <2>5. ASSUME NEW v \in Users, NEW d, Reject(v), IsDecided(q, d, v) PROVE FALSE
    BY <2>1, <2>5 DEF Reject, IsDecided
  <2>6. ASSUME NEW v \in Users, NEW d, CommitReview(v), IsDecided(q, d, v) PROVE FALSE
    <3>1. review[v].at \in InTransaction /\ review[v].request = q /\ Stop(v)
      BY <2>6 DEF CommitReview, IsDecided, InTransaction, End
    <3>2. u = v
      BY <1>4, <3>1 DEF LockInv
    <3>3. review'[u] = NoReview
      BY <1>1, <3>1, <3>2, StopTyped
    <3> QED
      BY <1>4, <3>3 DEF NoReview, InTransaction
  <2> HIDE DEF q
  <2> QED
    BY <1>1, <2>1, <2>2, <2>3, <2>4, <2>5, <2>6 DEF RequestEffect, q
<1>5. ASSUME NEW u \in Users, review'[u].at \in InTransaction
      PROVE  /\ review'[u].request = review[u].request
             /\ \/ review[u].at \in InTransaction
                \/ FinalizeRequest(u) /\ \A v \in Users \ {u} : review'[v] = review[v]
  <2>1. review'[u] # NoReview
    BY <1>5 DEF NoReview, InTransaction
  <2>2. ASSUME NEW r \in Requests, NEW d \in {"rejecting", "approving"},
               review'[u] = [at |-> d, request |-> r, seen |-> NoRow]
        PROVE  FALSE
    BY <1>5, <2>2 DEF InTransaction
  <2>3. ASSUME PreCheck(u) \/ ReadLoan(u) \/ UpdateLoan(u) \/ Announce(u)
        PROVE  review[u].at \in InTransaction
    BY <2>3 DEF PreCheck, ReadLoan, UpdateLoan, Announce, InTransaction
  <2> QED
    BY <1>2, <1>5, <2>1, <2>2, <2>3 DEF ReviewEffect
<1>6. ASSUME NEW u \in Users, review'[u].at \in InTransaction
      PROVE  request'[review'[u].request].status = "pending"
  <2>1. CASE review[u].at \in InTransaction
    BY <1>4, <1>5, <1>6, <2>1
  <2>2. CASE FinalizeRequest(u)
    <3>1. request' = request /\ request[review[u].request].status = "pending"
      BY <2>2 DEF FinalizeRequest, MayFinalize, Pending, requestVars
    <3> QED
      BY <1>5, <1>6, <3>1
  <2> QED
    BY <1>5, <1>6, <2>1, <2>2
<1>7. ASSUME NEW u \in Users, NEW v \in Users,
             review'[u].at \in InTransaction, review'[v].at \in InTransaction,
             review'[u].request = review'[v].request, u # v
      PROVE  FALSE
  <2>1. review[u].request = review[v].request
    BY <1>5, <1>7
  <2>2. CASE review[u].at \in InTransaction /\ review[v].at \in InTransaction
    BY <1>7, <2>1, <2>2 DEF LockInv
  <2>3. CASE FinalizeRequest(u) /\ review'[v] = review[v]
    BY <1>7, <2>1, <2>3 DEF FinalizeRequest, Locked
  <2>4. CASE FinalizeRequest(v) /\ review'[u] = review[u]
    BY <1>7, <2>1, <2>4 DEF FinalizeRequest, Locked
  <2> QED
    BY <1>5, <1>7, <2>2, <2>3, <2>4
<1>8. LockInv'
  BY <1>6, <1>7 DEF LockInv, Pending
<1> QED
  BY <1>3, <1>8

(* No transaction holds a lock at first. *)
LEMMA LockInit == ApprovalInit => LockInv
  BY DEF ApprovalInit, LockInv, NoReview, InTransaction

(* The row lock of a request has one holder, whose request is pending. *)
THEOREM LocksHeld == ApprovalSpec => []LockInv
<1>1. ApprovalTypeOK /\ LockInv /\ [ApprovalNext]_approvalVars => LockInv'
  BY LockStep
<1> QED
  BY <1>1, LockInit, ApprovalTypeCorrect, PTL DEF ApprovalSpec

(* An approved, rejected or expired request stays as it is: approval, rejection
   and expiry race for one pending row, and the row lock of the first keeps the
   others out until they see that it is decided. *)
THEOREM DecidedOnce == ApprovalSpec => DecisionIsFinal
<1>1. ApprovalTypeOK /\ LockInv /\ [ApprovalNext]_approvalVars
        => [\A r \in Requests :
               request[r].status \in Decided => request'[r] = request[r]]_request
  BY LockStep
<1> QED
  BY <1>1, LocksHeld, ApprovalTypeCorrect, PTL DEF ApprovalSpec, DecisionIsFinal

-----------------------------------------------------------------------------
(* Pending requests *)

(* A new request finds no other of its type pending on its loan. *)
LEMMA OnePendingStep ==
    ASSUME ApprovalTypeOK, OnePending, [ApprovalNext]_approvalVars
    PROVE  OnePending'
<1>1. RequestsOK /\ ReviewsOK /\ \A r \in Requests : RequestEffect(r)
  BY TypeParts, TypeStep
<1>2. ASSUME NEW r \in Requests, Pending(r)'
      PROVE  \/ request'[r] = request[r]
             \/ \E u \in Makers : CreateRequest(u, r) /\ request'[r] = NewRequest(u, asking[u])
  BY <1>1, <1>2 DEF RequestEffect, Expires, IsDecided, Pending
<1>3. ASSUME NEW q \in Requests, NEW r \in Requests, q # r,
             NEW u \in Makers, CreateRequest(u, q), request'[q] = NewRequest(u, asking[u]),
             Pending(r)', request'[r].type = request'[q].type,
             request'[r].loan = request'[q].loan
      PROVE  FALSE
  <2>1. request'[r] = Expired[r]
    BY <1>3, <1>1, ExpiredTyped DEF CreateRequest, MayInsert
  <2>2. NothingToWaitFor /\ ~AlreadyPending(asking[u])
    BY <1>3 DEF CreateRequest, MayInsert
  <2>3. request'[r] = request[r] /\ Pending(r) /\ ~Due(r)
    BY <1>1, <1>3, <2>1, <2>2, ExpiredTyped DEF Pending
  <2>4. request[r].type = asking[u].type /\ request[r].loan = asking[u].loan
    BY <1>3, <2>3 DEF NewRequest
  <2> QED
    BY <2>2, <2>3, <2>4 DEF AlreadyPending
<1>4. ASSUME NEW q \in Requests, NEW r \in Requests, q # r, Pending(q)', Pending(r)',
             request'[q].type = request'[r].type, request'[q].loan = request'[r].loan
      PROVE  FALSE
  <2>1. CASE request'[q] = request[q] /\ request'[r] = request[r]
    BY <1>4, <2>1 DEF OnePending, Pending
  <2> QED
    BY <1>2, <1>3, <1>4, <2>1
<1> QED
  BY <1>4 DEF OnePending

(* Two requests of one type on one loan are never both pending, whoever made them
   and however late the update that expires requests comes. *)
THEOREM PendingOnce == ApprovalSpec => []OnePending
<1>1. ApprovalInit => OnePending
  BY DEF ApprovalInit, OnePending, Pending, NoRequest
<1>2. ApprovalTypeOK /\ OnePending /\ [ApprovalNext]_approvalVars => OnePending'
  BY OnePendingStep
<1> QED
  BY <1>1, <1>2, ApprovalTypeCorrect, PTL DEF ApprovalSpec

-----------------------------------------------------------------------------
(* Execution *)

(* A row that a transaction holds is written by nobody else. *)
LEMMA RowsHeld ==
    ASSUME ApprovalTypeOK, [ApprovalNext]_approvalVars,
           NEW l \in Loans, loan'[l] # loan[l] \/ receivable'[l] # receivable[l]
    PROVE  \/ holder[l] = None /\ ServicingNext
           \/ \E u \in Users : CommitReview(u) /\ holder[l] = u /\ LoanOf(u) = l
<1>1. ServicingTypeOK /\ RequestsOK /\ ReviewsOK /\ LocksOK
  BY TypeParts
<1>2. CASE ServicingNext
  <2>1. ASSUME NEW k \in Loans, NEW applied, RecordRepayment(k, applied)
        PROVE  holder[l] = None
    BY <1>1, <2>1 DEF RecordRepayment, Unlocked, ServicingTypeOK
  <2>2. ASSUME NEW p \in PenaltyJobs, NEW amount \in Charges, ApplyPenalty(p, amount)
        PROVE  holder[l] = None
    BY <1>1, <2>2 DEF ApplyPenalty, Unlocked, ServicingTypeOK
  <2>3. ASSUME NEW j \in SyncJobs, SaveOverdue(j)
        PROVE  holder[l] = None
    BY <1>1, <2>3 DEF SaveOverdue, Unlocked, ServicingTypeOK
  <2>4. ASSUME \/ \E p \in PenaltyJobs, k \in Loans : ReadInstallment(p, k)
               \/ \E p \in PenaltyJobs : SkipPenalty(p)
               \/ \E j \in SyncJobs, k \in Loans : LoadForSync(j, k)
        PROVE  FALSE
    BY <2>4 DEF ReadInstallment, SkipPenalty, LoadForSync
  <2> QED
    BY <1>2, <2>1, <2>2, <2>3, <2>4 DEF ServicingNext
<1>3. ASSUME NEW u \in Users, CommitReview(u)
      PROVE  CommitReview(u) /\ holder[l] = u /\ LoanOf(u) = l
  <2>1. LoanOf(u) \in Loans
    BY <1>1, <1>3, ReviewTyped DEF CommitReview
  <2>2. LoanOf(u) = l
    BY <1>1, <1>3, <2>1 DEF CommitReview, ServicingTypeOK
  <2> QED
    BY <1>1, <1>3, <2>2 DEF CommitReview, LocksOK, Holds
<1>4. ASSUME NEW u \in Users,
             \/ Reject(u) \/ RejectTooLate(u) \/ FinalizeRequest(u) \/ FindDecided(u)
             \/ PreCheck(u) \/ ReadLoan(u) \/ UpdateLoan(u) \/ Announce(u)
             \/ RefuseExecution(u) \/ RollBack(u)
      PROVE  UNCHANGED <<loan, receivable>>
  BY <1>4 DEF Reject, RejectTooLate, FinalizeRequest, FindDecided, PreCheck, ReadLoan,
              UpdateLoan, Announce, RefuseExecution, RollBack, servicingVars
<1>5. ASSUME \/ \E r \in Requests : Lapse(r)
             \/ ListPendingRequests
             \/ \E u \in Makers, k \in Loans, type \in Types : ReadForRequest(u, k, type)
             \/ \E u \in Makers, r \in Requests : CreateRequest(u, r)
             \/ \E u \in Makers : RefuseDuplicate(u)
             \/ \E u \in Users, r \in Requests, d \in {"rejecting", "approving"} :
                   StartReview(u, r, d)
             \/ Crash
             \/ UNCHANGED approvalVars
      PROVE  UNCHANGED <<loan, receivable>>
  BY <1>5 DEF Lapse, ListPendingRequests, ReadForRequest, CreateRequest, RefuseDuplicate,
              StartReview, Crash, approvalVars, servicingVars
<1>6. ~UNCHANGED <<loan, receivable>>
  OBVIOUS
<1> QED
  BY <1>2, <1>3, <1>4, <1>5, <1>6 DEF ApprovalNext, ReviewStep

ToTheCent(row, snapshot) ==
    /\ row.status = snapshot.status
    /\ row.balance > 0
    /\ row.balance - snapshot.balance \in -1 .. 1

(* Between the read a transaction executes on and its end: a write-off or
   restructure has read the row its maker saw, to a cent; once the row is updated
   nobody else changes it; and no write-off of the loan was booked before. *)
HeldInv ==
    \A u \in Users :
        /\ review[u].at \in {"read", "updated", "announced"} =>
              /\ review[u].seen.status \in Collectible
              /\ TypeOf(u) \in Rechecks => ToTheCent(review[u].seen, Snapshot(u))
        /\ review[u].at \in {"updated", "announced"} =>
              /\ loan[LoanOf(u)].status = review[u].seen.status
              /\ loan[LoanOf(u)].balance = review[u].seen.balance
              /\ TypeOf(u) = "write_off" => ~WrittenOffBefore(LoanOf(u))

(* What was approved stays so, and only a commit approves. *)
LEMMA ApprovedBy ==
    ASSUME ApprovalTypeOK, LockInv, [ApprovalNext]_approvalVars,
           NEW r \in Requests, request'[r].status = "approved"
    PROVE  \/ request'[r] = request[r]
           \/ \E u \in Users : /\ CommitReview(u) /\ review[u].request = r /\ SameRequest(r)
                              /\ request'[r].ranOn = loan[LoanOf(u)]
<1>1. ~Expires(r)
  BY DEF Expires
<1>2. ASSUME NEW u \in Makers, request'[r] = NewRequest(u, asking[u]) PROVE FALSE
  BY <1>2 DEF NewRequest
<1>3. ASSUME NEW u \in Users, IsDecided(r, "rejected", u) PROVE FALSE
  BY <1>3 DEF IsDecided
<1> QED
  BY TypeStep, <1>1, <1>2, <1>3 DEF RequestEffect, IsDecided

(* What a transaction read and compared stays so until it ends. *)
LEMMA HeldStep ==
    ASSUME ApprovalTypeOK, LockInv, HeldInv, [ApprovalNext]_approvalVars
    PROVE  HeldInv'
<1>1. /\ ServicingTypeOK /\ RequestsOK /\ ReviewsOK /\ LocksOK
      /\ \A r \in Requests : RequestEffect(r)
  BY TypeParts, TypeStep
<1>2. \A u \in Users : ReviewEffect(u)
  BY <1>1, ReviewEffects
<1>3. ASSUME NEW u \in Users, review'[u].at \in {"read", "updated", "announced"}
      PROVE  /\ review'[u].seen.status \in Collectible
             /\ TypeOf(u)' \in Rechecks =>
                   ToTheCent(review'[u].seen, Snapshot(u)')
             /\ review[u].at # "idle" /\ review'[u].request = review[u].request
             /\ LoanOf(u)' = LoanOf(u) /\ TypeOf(u)' = TypeOf(u)
  <2>1. review'[u] # NoReview
    BY <1>3 DEF NoReview
  <2>2. ASSUME NEW r \in Requests, NEW d \in {"rejecting", "approving"},
               review'[u] = [at |-> d, request |-> r, seen |-> NoRow]
        PROVE  FALSE
    BY <1>3, <2>2
  <2>3. /\ review[u].at # "idle" /\ review'[u].request = review[u].request
        /\ \/ review'[u] = review[u]
           \/ ReadLoan(u) /\ review'[u].seen = loan[LoanOf(u)]
           \/ UpdateLoan(u) /\ review'[u].seen = review[u].seen
           \/ Announce(u) /\ review'[u].seen = review[u].seen
    BY <1>2, <1>3, <2>1, <2>2 DEF ReviewEffect
  <2>4. /\ LoanOf(u)' = LoanOf(u) /\ TypeOf(u)' = TypeOf(u)
        /\ Snapshot(u)' = Snapshot(u)
    BY <1>1, <2>3, ReviewsStay DEF Snapshot
  <2>5. CASE ReadLoan(u) /\ review'[u].seen = loan[LoanOf(u)]
    BY <2>3, <2>4, <2>5 DEF ReadLoan, MayExecute, MayMatch, Differences, ToTheCent
  <2>6. CASE review[u].at \in {"read", "updated", "announced"} /\ review'[u].seen = review[u].seen
    BY <2>3, <2>4, <2>6 DEF HeldInv
  <2>7. ASSUME UpdateLoan(u) \/ Announce(u) PROVE review[u].at \in {"read", "updated", "announced"}
    BY <2>7 DEF UpdateLoan, Announce
  <2> QED
    BY <1>3, <2>3, <2>4, <2>5, <2>6, <2>7
<1>4. ASSUME NEW u \in Users, review'[u].at \in {"updated", "announced"}
      PROVE  /\ loan'[LoanOf(u)].status = review'[u].seen.status
             /\ loan'[LoanOf(u)].balance = review'[u].seen.balance
             /\ review'[u].seen = review[u].seen
             /\ \/ review[u].at \in {"updated", "announced"} \/ UpdateLoan(u)
  <2>1. review'[u] # NoReview
    BY <1>4 DEF NoReview
  <2>2. ASSUME NEW r \in Requests, NEW d \in {"rejecting", "approving"},
               review'[u] = [at |-> d, request |-> r, seen |-> NoRow]
        PROVE  FALSE
    BY <1>4, <2>2
  <2>3. \/ UpdateLoan(u) /\ review'[u].seen = review[u].seen
        \/ review[u].at \in {"updated", "announced"} /\ review'[u].seen = review[u].seen
    BY <1>2, <1>4, <2>1, <2>2 DEF ReviewEffect, Announce
  <2>4. CASE UpdateLoan(u) /\ review'[u].seen = review[u].seen
    BY <2>4 DEF UpdateLoan, StillAsRead
  <2>5. CASE review[u].at \in {"updated", "announced"} /\ review'[u].seen = review[u].seen
    <3> DEFINE k == LoanOf(u)
    <3>1. k \in Loans /\ holder[k] = u
      BY <1>1, <2>5, ReviewTyped DEF LocksOK, Holds
    <3>2. ~CommitReview(u)
      BY <1>1, <2>1, StopTyped DEF CommitReview, End
    <3>3. loan'[k] = loan[k]
      BY <3>1, <3>2, RowsHeld, ServicingAssumption
    <3> QED
      BY <2>5, <3>3 DEF HeldInv
  <2> QED
    BY <2>3, <2>4, <2>5
<1>5. ASSUME NEW u \in Users, review'[u].at \in {"updated", "announced"},
             TypeOf(u) = "write_off",
             NEW r \in Requests, request'[r].loan = LoanOf(u),
             request'[r].type = "write_off", request'[r].status = "approved"
      PROVE  FALSE
  <2>1. ~WrittenOffBefore(LoanOf(u))
    BY <1>4, <1>5 DEF HeldInv, UpdateLoan, MayPost
  <2>2. request'[r] # request[r]
    BY <1>5, <2>1 DEF WrittenOffBefore
  <2>3. PICK v \in Users : CommitReview(v) /\ review[v].request = r /\ SameRequest(r)
    BY <1>5, <2>2, ApprovedBy
  <2>4. LoanOf(v) = LoanOf(u) /\ LoanOf(v) \in Loans
    BY <1>1, <1>5, <2>3, ReviewTyped DEF LoanOf, SameRequest, CommitReview
  <2>5. holder[LoanOf(v)] = v /\ review'[v] = NoReview
    BY <1>1, <2>3, <2>4, StopTyped DEF CommitReview, End, LocksOK, Holds
  <2>6. review[u].at \in {"updated", "announced"}
    BY <1>4, <1>5, <2>4, <2>5, ServicingAssumption DEF UpdateLoan, Unlocked
  <2>7. u = v
    BY <1>1, <2>4, <2>5, <2>6 DEF LocksOK, Holds
  <2> QED
    BY <1>5, <2>5, <2>7 DEF NoReview
<1>6. ASSUME NEW u \in Users, review'[u].at \in {"updated", "announced"},
             TypeOf(u)' = "write_off"
      PROVE  ~WrittenOffBefore(LoanOf(u))'
  BY <1>3, <1>5, <1>6 DEF WrittenOffBefore
<1> QED
  BY <1>3, <1>4, <1>6 DEF HeldInv

(* No transaction has read anything at first. *)
LEMMA HeldInit == ApprovalInit => HeldInv
  BY DEF ApprovalInit, HeldInv, NoReview

(* A transaction that has updated a loan commits on the row it compared. *)
THEOREM RowsAsRead == ApprovalSpec => []HeldInv
<1>1. ApprovalTypeOK /\ LockInv /\ HeldInv /\ [ApprovalNext]_approvalVars => HeldInv'
  BY HeldStep
<1> QED
  BY <1>1, HeldInit, LocksHeld, ApprovalTypeCorrect, PTL DEF ApprovalSpec

(* A commit executes on the row compared with the snapshot, and a second
   write-off of a loan does not reach it. *)
LEMMA ExecutedStep ==
    ASSUME ApprovalTypeOK, LockInv, HeldInv, ExecutedAsRequested, WrittenOffOnce,
           [ApprovalNext]_approvalVars
    PROVE  ExecutedAsRequested' /\ WrittenOffOnce'
<1>1. /\ ServicingTypeOK /\ RequestsOK /\ ReviewsOK /\ LocksOK
      /\ \A r \in Requests : RequestEffect(r)
  BY TypeParts, TypeStep
<1>2. ASSUME NEW u \in Users, CommitReview(u), NEW r \in Requests, review[u].request = r,
             SameRequest(r)
      PROVE  /\ review[u].at \in {"updated", "announced"}
             /\ TypeOf(u) = request'[r].type /\ LoanOf(u) = request'[r].loan
  BY <1>2 DEF CommitReview, TypeOf, LoanOf, SameRequest
<1>3. ASSUME NEW r \in Requests, request'[r].status = "approved",
             request'[r].type \in {"write_off", "restructure"}
      PROVE  /\ request'[r].ranOn.status = request'[r].snapshot.status
             /\ request'[r].ranOn.balance > 0
             /\ request'[r].ranOn.balance - request'[r].snapshot.balance \in -1 .. 1
  <2>1. CASE request'[r] = request[r]
    BY <1>3, <2>1 DEF ExecutedAsRequested
  <2>2. ASSUME NEW u \in Users, CommitReview(u), review[u].request = r, SameRequest(r),
               request'[r].ranOn = loan[LoanOf(u)]
        PROVE  /\ request'[r].ranOn.status = request'[r].snapshot.status
               /\ request'[r].ranOn.balance > 0
               /\ request'[r].ranOn.balance - request'[r].snapshot.balance \in -1 .. 1
    <3>1. review[u].at \in {"updated", "announced"} /\ TypeOf(u) \in Rechecks
      BY <1>2, <1>3, <2>2 DEF Rechecks
    <3>2. /\ ToTheCent(review[u].seen, request[r].snapshot)
          /\ loan[LoanOf(u)].status = review[u].seen.status
          /\ loan[LoanOf(u)].balance = review[u].seen.balance
      BY <2>2, <3>1 DEF HeldInv, Snapshot
    <3> QED
      BY <2>2, <3>2 DEF SameRequest, ToTheCent
  <2> QED
    BY <1>3, <2>1, <2>2, ApprovedBy
<1>4. ASSUME NEW q \in Requests, NEW r \in Requests, q # r,
             request'[q].type = "write_off", request'[r].type = "write_off",
             request'[q].loan = request'[r].loan,
             request'[q].status = "approved", request'[r].status = "approved",
             NEW u \in Users, CommitReview(u), review[u].request = q, SameRequest(q)
      PROVE  FALSE
  <2>1. ~WrittenOffBefore(request'[q].loan)
    BY <1>2, <1>4 DEF HeldInv
  <2>2. ASSUME NEW v \in Users, CommitReview(v), review[v].request = r PROVE FALSE
    <3>1. Stop(u) /\ Stop(v) /\ u # v /\ review[v].at # "idle"
      BY <1>4, <2>2 DEF CommitReview, End
    <3>2. review'[v] = NoReview /\ review'[v] = review[v]
      BY <1>1, <3>1, StopTyped
    <3> QED
      BY <3>1, <3>2 DEF NoReview
  <2>3. request'[r] = request[r]
    BY <1>4, <2>2, ApprovedBy
  <2> QED
    BY <1>4, <2>1, <2>3 DEF WrittenOffBefore
<1>5. WrittenOffOnce'
  <2> SUFFICES ASSUME NEW q \in Requests, NEW r \in Requests, q # r,
                      request'[q].type = "write_off", request'[r].type = "write_off",
                      request'[q].loan = request'[r].loan,
                      request'[q].status = "approved", request'[r].status = "approved"
               PROVE  FALSE
    BY DEF WrittenOffOnce
  <2>1. ~(request'[q] = request[q] /\ request'[r] = request[r])
    BY DEF WrittenOffOnce
  <2>2. \A x \in {q, r} :
           \/ request'[x] = request[x]
           \/ \E u \in Users : CommitReview(u) /\ review[u].request = x /\ SameRequest(x)
    BY ApprovedBy
  <2> QED
    BY <1>4, <2>1, <2>2
<1> QED
  BY <1>3, <1>5 DEF ExecutedAsRequested

(* An executed write-off or restructure ran on the status its maker saw and on the
   balance to a cent, and something was owed, whatever repayments, penalties, the
   overdue job and other reviews did: the row lock keeps the row as it was compared
   until the transaction ends, so that cents do not add up. *)
THEOREM RanAsRequested == ApprovalSpec => []ExecutedAsRequested
<1>1. ApprovalInit => ExecutedAsRequested /\ WrittenOffOnce
  BY DEF ApprovalInit, ExecutedAsRequested, WrittenOffOnce, NoRequest
<1>2. /\ ApprovalTypeOK /\ LockInv /\ HeldInv /\ ExecutedAsRequested /\ WrittenOffOnce
      /\ [ApprovalNext]_approvalVars
      => ExecutedAsRequested' /\ WrittenOffOnce'
  BY ExecutedStep
<1> QED
  BY <1>1, <1>2, RowsAsRead, LocksHeld, ApprovalTypeCorrect, PTL DEF ApprovalSpec

(* The loss of a loan is booked once in its life, for any number of requests and
   even when the overdue job brings the loan back after its write-off. *)
THEOREM BookedOnce == ApprovalSpec => []WrittenOffOnce
<1>1. ApprovalInit => ExecutedAsRequested /\ WrittenOffOnce
  BY DEF ApprovalInit, ExecutedAsRequested, WrittenOffOnce, NoRequest
<1>2. /\ ApprovalTypeOK /\ LockInv /\ HeldInv /\ ExecutedAsRequested /\ WrittenOffOnce
      /\ [ApprovalNext]_approvalVars
      => ExecutedAsRequested' /\ WrittenOffOnce'
  BY ExecutedStep
<1> QED
  BY <1>1, <1>2, RowsAsRead, LocksHeld, ApprovalTypeCorrect, PTL DEF ApprovalSpec

-----------------------------------------------------------------------------
(* The ledger *)

(* A restructure stays approved. *)
LEMMA RestructuredStays ==
    ASSUME ApprovalTypeOK, LockInv, [ApprovalNext]_approvalVars, NEW l \in Loans,
           RestructuredBefore(l)
    PROVE  RestructuredBefore(l)'
  BY LockStep DEF RestructuredBefore, Decided

(* Repayments and commits change ledger and balance by the same amount. *)
LEMMA LedgerStep ==
    ASSUME SyncJobs = {}, PenaltyJobs = {}, ApprovalTypeOK, LockInv, HeldInv,
           ReceivableMatchesBalance, [ApprovalNext]_approvalVars
    PROVE  ReceivableMatchesBalance'
<1>1. /\ ServicingTypeOK /\ RequestsOK /\ ReviewsOK /\ LocksOK
      /\ \A r \in Requests : RequestEffect(r)
  BY TypeParts, TypeStep
<1> SUFFICES ASSUME NEW l \in Loans, ~RestructuredBefore(l)'
             PROVE  receivable'[l] = IF loan'[l].status = "written_off" THEN 0
                                                                        ELSE loan'[l].balance
  BY DEF ReceivableMatchesBalance
<1>2. /\ receivable[l] = IF loan[l].status = "written_off" THEN 0 ELSE loan[l].balance
      /\ loan[l] \in Rows /\ loan[l].balance \in Nat
  BY <1>1, RestructuredStays DEF ReceivableMatchesBalance, ServicingTypeOK, Rows
<1>3. CASE loan'[l] = loan[l] /\ receivable'[l] = receivable[l]
  BY <1>2, <1>3
<1>4. ASSUME NEW applied \in 1 .. MaxTotal, NEW k \in Loans, RecordRepayment(k, applied)
      PROVE  receivable'[l] = IF loan'[l].status = "written_off" THEN 0 ELSE loan'[l].balance
  <2>1. CASE k # l
    <3>1. loan'[l] = loan[l] /\ receivable'[l] = receivable[l]
      BY <1>1, <1>4, <2>1 DEF RecordRepayment, ServicingTypeOK
    <3> QED
      BY <1>2, <3>1
  <2>2. CASE k = l
    <3>1. /\ loan'[l] = Repaid(loan[l], applied)
          /\ receivable'[l] = receivable[l] - applied
          /\ loan[l].status \in Collectible
      BY <1>1, <1>4, <2>2 DEF RecordRepayment, MayRepay, ServicingTypeOK
    <3>2. loan'[l].balance = loan[l].balance - applied /\ loan'[l].status # "written_off"
      BY <3>1 DEF Repaid, StatusAfterRepayment
    <3> QED
      BY <1>2, <3>1, <3>2 DEF Collectible
  <2> QED
    BY <2>1, <2>2
<1>5. ASSUME NEW u \in Users, CommitReview(u), LoanOf(u) = l
      PROVE  receivable'[l] = IF loan'[l].status = "written_off" THEN 0 ELSE loan'[l].balance
  <2> DEFINE seen == review[u].seen
             q == review[u].request
  <2>1. /\ q \in Requests /\ request[q] \in RequestRows /\ TypeOf(u) \in Types
        /\ review[u].at \in {"updated", "announced"}
    BY <1>1, <1>5, ReviewTyped DEF CommitReview
  <2>2. /\ seen.status \in Collectible /\ loan[l].status = seen.status
        /\ loan[l].balance = seen.balance /\ seen.balance \in Nat
    BY <1>2, <1>5, <2>1 DEF HeldInv
  <2>3. PICK next \in Outcomes(TypeOf(u), loan[l], seen) :
           /\ loan'[l] = next
           /\ receivable'[l] = receivable[l] + Posted(TypeOf(u), seen, next)
    BY <1>1, <1>5 DEF CommitReview, ServicingTypeOK
  <2>4. receivable[l] = seen.balance /\ receivable[l] \in Nat
    BY <1>2, <2>2 DEF Collectible
  <2>5. TypeOf(u) # "restructure"
    <3>1. /\ request'[q].loan = l /\ request'[q].type = TypeOf(u)
          /\ request'[q].status = "approved"
      BY <1>1, <1>5, <2>1 DEF CommitReview, WithDecision, RequestsOK, LoanOf, TypeOf, RequestRows
    <3> QED
      BY <2>1, <3>1 DEF RestructuredBefore
  <2> HIDE DEF seen, q
  <2>6. CASE TypeOf(u) = "write_off"
    <3>1. next.status = "written_off" /\ Posted(TypeOf(u), seen, next) = -seen.balance
      BY <1>2, <2>3, <2>6 DEF Outcomes, Posted, Rows
    <3> QED
      BY <2>2, <2>3, <2>4, <3>1
  <2>7. CASE TypeOf(u) # "write_off"
    <3>1. Posted(TypeOf(u), seen, next) = next.balance - seen.balance
      BY <2>5, <2>7 DEF Posted
    <3>2. next.status # "written_off" /\ next.balance \in Int
      <4>1. CASE TypeOf(u) = "top_up"
        <5>1. PICK t \in Totals :
                 next = [status |-> IF seen.status = "restructured" THEN "restructured"
                                                                    ELSE "active",
                         balance |-> seen.balance + t, expected |-> seen.expected + t]
          BY <2>3, <4>1 DEF Outcomes
        <5>2. t \in Nat
          BY ServicingAssumption
        <5> QED
          BY <2>2, <5>1, <5>2
      <4>2. CASE TypeOf(u) # "top_up"
        <5>1. PICK t \in Totals :
                 next = [status |-> "restructured", balance |-> t, expected |-> t]
          BY <2>3, <2>7, <4>2 DEF Outcomes
        <5>2. t \in Nat
          BY ServicingAssumption
        <5> QED
          BY <5>1, <5>2
      <4> QED
        BY <4>1, <4>2
    <3> QED
      BY <2>2, <2>3, <2>4, <3>1, <3>2
  <2> QED
    BY <2>6, <2>7
<1>6. ASSUME ServicingNext, loan'[l] # loan[l] \/ receivable'[l] # receivable[l]
      PROVE  \E applied \in 1 .. MaxTotal, k \in Loans : RecordRepayment(k, applied)
  <2>1. ASSUME \/ \E p \in PenaltyJobs, k \in Loans : ReadInstallment(p, k)
               \/ \E p \in PenaltyJobs, amount \in Charges : ApplyPenalty(p, amount)
               \/ \E p \in PenaltyJobs : SkipPenalty(p)
               \/ \E j \in SyncJobs, k \in Loans : LoadForSync(j, k)
               \/ \E j \in SyncJobs : SaveOverdue(j)
        PROVE  FALSE
    BY <2>1
  <2> QED
    BY <1>6, <2>1 DEF ServicingNext
<1> QED
  BY <1>3, <1>4, <1>5, <1>6, RowsHeld

(* Without the overdue job and the penalty engine, whose writes are known to break
   it, the receivable in the ledger is the balance of every loan that was not
   restructured, nothing once it is written off: for any number of checkers, of
   requests of all five types, and of repayments in between. *)
THEOREM LedgerMatches ==
    ASSUME SyncJobs = {}, PenaltyJobs = {}
    PROVE  ApprovalSpec => []ReceivableMatchesBalance
<1>1. ApprovalInit => ReceivableMatchesBalance
  <2> SUFFICES ASSUME ApprovalInit PROVE ReceivableMatchesBalance
    OBVIOUS
  <2>1. ASSUME NEW l \in Loans
        PROVE  receivable[l] = loan[l].balance /\ loan[l].status = "active"
    BY DEF ApprovalInit, ServicingInit
  <2> QED
    BY <2>1 DEF ReceivableMatchesBalance
<1>2. /\ ApprovalTypeOK /\ LockInv /\ HeldInv /\ ReceivableMatchesBalance
      /\ [ApprovalNext]_approvalVars
      => ReceivableMatchesBalance'
  BY LedgerStep
<1> QED
  BY <1>1, <1>2, RowsAsRead, LocksHeld, ApprovalTypeCorrect, PTL DEF ApprovalSpec

=============================================================================
