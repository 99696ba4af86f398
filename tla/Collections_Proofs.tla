------------------------- MODULE Collections_Proofs -------------------------
(***************************************************************************)
(* Proofs about Collections, for any number of loans, receipts, keys,      *)
(* tellers, webhooks and operators, and any amounts.  The invariant says   *)
(* what a transaction knows by the lock it holds: nobody else books under  *)
(* its key, its receipt or on its loan before it commits.                  *)
(***************************************************************************)
EXTENDS Collections, SequenceTheorems, TLAPS

(* The statements of a call's transaction, once its loan is known. *)
InTransaction == {"reading", "keying", "updating", "inserting", "marking"}

(* What the program counter says of a call and its repayment. *)
CallTyped(p) ==
    /\ pc[p] \in InTransaction => job[p].loan \in Loans
    /\ p \in Tellers /\ pc[p] # "idle" => job[p] \in Submissions
    /\ p \notin Tellers /\ pc[p] # "idle" =>
          /\ job[p].receipt \in Receipts /\ job[p].key = None
          /\ job[p].amount = AmountOf[job[p].receipt]
    /\ pc[p] = "locking" => p \in Webhooks
    /\ pc[p] = "keying" => p \in Tellers
    /\ pc[p] \in {"inserting", "marking"} => seen[p] > 0

(* The types that are inductive. *)
Typed == CollectionsTypeOK /\ \A p \in Callers : CallTyped(p)

(* A call moves and the books stay as they are. *)
Moves(p) ==
    /\ UNCHANGED bookVars
    /\ pc' \in [Callers -> {"idle", "locking", "reading", "keying", "updating",
                            "inserting", "marking"}]
    /\ job' \in [Callers -> Jobs \union {None}]
    /\ seen' \in [Callers -> Nat]
    /\ \A q \in Callers \ {p} :
          pc'[q] = pc[q] /\ job'[q] = job[q] /\ seen'[q] = seen[q]

-----------------------------------------------------------------------------
(* Data *)

(* Submissions and receipts give well-formed repayments. *)
LEMMA JobsAreTyped ==
    /\ \A s \in Submissions : /\ s \in Jobs /\ s.loan \in Loans
                              /\ s.receipt # None \/ s.key # None
    /\ \A r \in Receipts, l \in Loans \union {None} :
          /\ Incoming(r, l) \in Jobs
          /\ Incoming(r, l).loan = l /\ Incoming(r, l).receipt = r
          /\ Incoming(r, l).key = None /\ Incoming(r, l).amount = AmountOf[r]
    /\ \A r \in Receipts : r # None
<1>1. ASSUME NEW s \in Submissions
      PROVE  s \in Jobs /\ s.loan \in Loans /\ (s.receipt # None \/ s.key # None)
  <2>1. s \in Jobs
    BY CollectionsAssumption DEF Submissions
  <2>2. s.loan # None /\ (s.receipt # None \/ s.key # None)
    BY CollectionsAssumption
  <2> QED
    BY <2>1, <2>2 DEF Jobs
<1>2. ASSUME NEW r \in Receipts, NEW l \in Loans \union {None}
      PROVE  /\ Incoming(r, l) \in Jobs
             /\ Incoming(r, l).loan = l /\ Incoming(r, l).receipt = r
             /\ Incoming(r, l).key = None /\ Incoming(r, l).amount = AmountOf[r]
  BY CollectionsAssumption DEF Incoming, Jobs
<1>3. \A r \in Receipts : r # None
  BY CollectionsAssumption
<1> QED
  BY <1>1, <1>2, <1>3

(* A row appended keeps the rows before it at their places. *)
LEMMA Appended ==
    ASSUME repayments \in Seq(Rows), NEW row \in Rows,
           repayments' = Append(repayments, row)
    PROVE  /\ repayments' \in Seq(Rows)
           /\ Len(repayments) \in Nat
           /\ DOMAIN repayments = 1..Len(repayments)
           /\ DOMAIN repayments' = 1..(Len(repayments) + 1)
           /\ \A i \in DOMAIN repayments : repayments'[i] = repayments[i]
           /\ repayments'[Len(repayments) + 1] = row
<1> HIDE DEF Rows
<1> QED
  BY AppendProperties

-----------------------------------------------------------------------------
(* Types *)

(* The initial state is typed. *)
LEMMA TypedInit == CollectionsInit => Typed
<1> SUFFICES ASSUME CollectionsInit PROVE Typed
  OBVIOUS
<1>1. CollectionsTypeOK
  <2>1. repayments \in Seq(Rows)
    BY DEF CollectionsInit
  <2>2. event \in [Receipts -> Events]
    BY DEF CollectionsInit, Events, NoEvent
  <2>3. balance \in [Loans -> Nat] /\ expected \in [Loans -> Nat]
    BY CollectionsAssumption DEF CollectionsInit
  <2> QED
    BY <2>1, <2>2, <2>3 DEF CollectionsInit, CollectionsTypeOK
<1>2. \A p \in Callers : CallTyped(p)
  BY DEF CollectionsInit, CallTyped, InTransaction
<1> QED
  BY <1>1, <1>2 DEF Typed

(* A call that moves, and is typed where it arrives, keeps the types. *)
LEMMA TypedMove ==
    ASSUME Typed, NEW p \in Callers, Moves(p), CallTyped(p)',
           IF pc'[p] = "idle" THEN job'[p] = None ELSE job'[p] \in Jobs,
           confirmed' \subseteq Submissions
    PROVE  Typed'
<1>1. CollectionsTypeOK'
  BY DEF Typed, Moves, CollectionsTypeOK, bookVars
<1>2. ASSUME NEW q \in Callers PROVE CallTyped(q)'
  BY DEF Typed, Moves, CallTyped, InTransaction
<1> QED
  BY <1>1, <1>2 DEF Typed

(* Leaving is a move that is typed. *)
LEMMA TypedLeave ==
    ASSUME Typed, NEW p \in Callers, Leave(p), UNCHANGED bookVars,
           confirmed' \subseteq Submissions
    PROVE  Moves(p) /\ Typed'
<1>1. Moves(p)
  BY DEF Typed, CollectionsTypeOK, Leave, Moves
<1>2. CallTyped(p)' /\ pc'[p] = "idle" /\ job'[p] = None
  BY DEF Typed, CollectionsTypeOK, Leave, CallTyped, InTransaction
<1> QED
  BY <1>1, <1>2, TypedMove

(* Confirming adds a submission. *)
LEMMA ConfirmType ==
    ASSUME Typed, NEW p, Confirm(p) \/ UNCHANGED confirmed
    PROVE  confirmed' \subseteq Submissions
  BY DEF Typed, CollectionsTypeOK, Confirm

(* The moves that leave the books alone, one by one. *)
LEMMA TypedSubmit ==
    ASSUME Typed, NEW t \in Tellers, NEW s \in SubmissionsOf[t], Submit(t, s)
    PROVE  Moves(t) /\ Typed'
<1>0. s \in Submissions /\ t \in Callers
  BY DEF Submissions, Callers
<1>1. s \in Jobs /\ s.loan \in Loans
  BY <1>0, JobsAreTyped
<1>2. pc'[t] = "reading" /\ job'[t] = s /\ UNCHANGED <<bookVars, seen, confirmed>>
  BY <1>0 DEF Submit, Begin, Goto, Typed, CollectionsTypeOK
<1>3. Moves(t)
  BY <1>0, <1>1 DEF Submit, Begin, Goto, Typed, CollectionsTypeOK, Moves
<1>4. CallTyped(t)'
  BY <1>0, <1>1, <1>2 DEF CallTyped, InTransaction
<1> QED
  BY <1>0, <1>1, <1>2, <1>3, <1>4, TypedMove DEF Typed, CollectionsTypeOK

(* The webhook learns the loan from the reference. *)
LEMMA TypedLockEvent ==
    ASSUME Typed, NEW w \in Callers, LockEvent(w)
    PROVE  Moves(w) /\ Typed'
<1>0. pc[w] = "locking" /\ w \in Webhooks /\ job[w].receipt \in Receipts /\ w \notin Tellers
  BY CollectionsAssumption DEF Typed, CallTyped, LockEvent
<1>1. PICK l \in LoansOf[job[w].receipt] \ {None} :
         Begin(w, "reading", Incoming(job[w].receipt, l))
  BY DEF LockEvent
<1> DEFINE j == Incoming(job[w].receipt, l)
<1>2. l \in Loans
  BY <1>0, CollectionsAssumption
<1>3. /\ j \in Jobs /\ j.loan = l /\ j.receipt = job[w].receipt
      /\ j.key = None /\ j.amount = AmountOf[job[w].receipt]
  BY <1>0, <1>2, JobsAreTyped
<1> HIDE DEF j
<1>4. pc'[w] = "reading" /\ job'[w] = j /\ UNCHANGED <<bookVars, seen, confirmed>>
  BY <1>1 DEF LockEvent, Begin, Goto, Typed, CollectionsTypeOK, j
<1>5. Moves(w)
  BY <1>1, <1>3, <1>4 DEF Begin, Goto, Typed, CollectionsTypeOK, Moves, j
<1>6. CallTyped(w)'
  BY <1>0, <1>2, <1>3, <1>4 DEF CallTyped, InTransaction
<1> QED
  BY <1>3, <1>4, <1>5, <1>6, TypedMove DEF Typed, CollectionsTypeOK

(* The desk names the loan itself. *)
LEMMA TypedStartReconciliation ==
    ASSUME Typed, NEW o \in Operators, NEW r \in Receipts, NEW l \in Loans,
           StartReconciliation(o, r, l)
    PROVE  Moves(o) /\ Typed'
<1>0. o \in Callers /\ o \notin Tellers
  BY CollectionsAssumption DEF Callers
<1> DEFINE j == Incoming(r, l)
<1>3. /\ j \in Jobs /\ j.loan = l /\ j.receipt = r
      /\ j.key = None /\ j.amount = AmountOf[r]
  BY JobsAreTyped
<1> HIDE DEF j
<1>4. pc'[o] = "reading" /\ job'[o] = j /\ UNCHANGED <<bookVars, seen, confirmed>>
  BY <1>0 DEF StartReconciliation, Begin, Goto, Typed, CollectionsTypeOK, j
<1>5. Moves(o)
  BY <1>0, <1>3, <1>4
  DEF StartReconciliation, Begin, Goto, Typed, CollectionsTypeOK, Moves, j
<1>6. CallTyped(o)'
  BY <1>0, <1>3, <1>4 DEF CallTyped, InTransaction
<1> QED
  BY <1>0, <1>3, <1>4, <1>5, <1>6, TypedMove DEF Typed, CollectionsTypeOK

(* The statements of a repayment before its commit. *)
LEMMA TypedStatements ==
    ASSUME Typed, NEW p \in Callers,
           Read(p) \/ TakeKey(p) \/ UpdateLoan(p) \/ InsertRepayment(p)
    PROVE  /\ Moves(p) /\ Typed' /\ UNCHANGED job
           /\ Read(p) \/ UNCHANGED seen
<1>0. pc[p] \in InTransaction /\ job[p].loan \in Loans /\ job[p] \in Jobs
  BY DEF Read, TakeKey, UpdateLoan, InsertRepayment, InTransaction, Typed,
         CollectionsTypeOK, CallTyped
<1>1. UNCHANGED <<bookVars, job, confirmed>>
  BY DEF Read, TakeKey, UpdateLoan, InsertRepayment
<1>2. seen' \in [Callers -> Nat] /\ \A q \in Callers \ {p} : seen'[q] = seen[q]
  BY <1>0 DEF Read, TakeKey, UpdateLoan, InsertRepayment, Typed, CollectionsTypeOK
<1>3. Moves(p) /\ pc'[p] \in InTransaction
  BY <1>1, <1>2
  DEF Read, TakeKey, UpdateLoan, InsertRepayment, Typed, CollectionsTypeOK,
      Moves, Goto, InTransaction
<1>4. pc'[p] \in {"inserting", "marking"} => seen'[p] > 0
  <2>1. CASE Read(p)
    BY <2>1 DEF Read, Goto, Typed, CollectionsTypeOK
  <2>2. CASE TakeKey(p)
    BY <2>2 DEF TakeKey, Goto, Typed, CollectionsTypeOK
  <2>3. CASE UpdateLoan(p)
    BY <2>3 DEF UpdateLoan, Goto, Typed, CollectionsTypeOK, Collectible
  <2>4. CASE InsertRepayment(p)
    BY <2>4 DEF InsertRepayment, Goto, Typed, CollectionsTypeOK, CallTyped
  <2> QED
    BY <2>1, <2>2, <2>3, <2>4
<1>7. pc'[p] = "keying" => p \in Tellers
  BY <1>0 DEF Read, TakeKey, UpdateLoan, InsertRepayment, Goto, Typed,
              CollectionsTypeOK, CallTyped, InTransaction
<1>5. CallTyped(p)' /\ pc'[p] # "idle" /\ job'[p] \in Jobs
  BY <1>0, <1>1, <1>3, <1>4, <1>7 DEF Typed, CallTyped, InTransaction
<1>6. Typed'
  BY <1>1, <1>3, <1>5, TypedMove DEF Typed, CollectionsTypeOK
<1> QED
  BY <1>1, <1>3, <1>6 DEF Read, TakeKey, UpdateLoan, InsertRepayment

(* The steps with which a call ends and leaves the books alone. *)
LEMMA TypedEnd ==
    ASSUME Typed, NEW p \in Callers,
           FindDone(p) \/ Replay(p) \/ RollBack(p)
    PROVE  Moves(p) /\ Typed' /\ Leave(p)
<1>1. Leave(p) /\ UNCHANGED bookVars /\ (Confirm(p) \/ UNCHANGED confirmed)
  BY DEF FindDone, Replay, RollBack
<1> QED
  BY <1>1, TypedLeave, ConfirmType

(* The desk and the webhook write an event. *)
LEMMA EventTypes ==
    /\ \A i \in Nat : Reconciled(i) \in Events
    /\ \A e \in Events, s \in {"received", "rejected"} :
          [e EXCEPT !.status = s] \in Events
  BY DEF Reconciled, Events

(* The row taken for a booked receipt is one of its rows. *)
LEMMA RowForBooked ==
    ASSUME NEW r, Booked(r) # {}
    PROVE  RowFor(r) \in Booked(r)
  BY DEF RowFor

(* Places of rows are numbers. *)
LEMMA BookedType ==
    ASSUME repayments \in Seq(Rows), NEW r
    PROVE  Booked(r) \subseteq Nat /\ Booked(r) \subseteq DOMAIN repayments
<1>1. DOMAIN repayments = 1..Len(repayments) /\ Len(repayments) \in Nat
  OBVIOUS
<1> QED
  BY <1>1 DEF Booked

(* What a call does to an event, when it does not touch the books. *)
EventMoves(r) ==
    /\ UNCHANGED <<balance, repaid, expected, repayments>>
    /\ event' \in [Receipts -> Events]
    /\ \A x \in Receipts \ {r} : event'[x] = event[x]

(* A webhook arrives, for a new event or a known one. *)
LEMMA TypedReceive ==
    ASSUME Typed, NEW w \in Webhooks, NEW r \in Receipts, Receive(w, r)
    PROVE  /\ Typed' /\ EventMoves(r)
           /\ event'[r] = event[r] \/ event[r] = NoEvent
           /\ event'[r] # NoEvent /\ event'[r].repayment = event[r].repayment
           /\ event'[r].status = "reconciled" <=> event[r].status = "reconciled"
           /\ pc[w] = "idle" /\ pc'[w] = "locking"
           /\ job'[w] = Incoming(r, None)
           /\ UNCHANGED seen
           /\ \A q \in Callers \ {w} : pc'[q] = pc[q] /\ job'[q] = job[q]
<1> DEFINE j == Incoming(r, None)
<1>0. w \in Callers /\ w \notin Tellers
  BY CollectionsAssumption DEF Callers
<1>1. /\ j \in Jobs /\ j.receipt = r
      /\ j.key = None /\ j.amount = AmountOf[r]
  BY JobsAreTyped
<1> HIDE DEF j
<1>2. event' \in [Receipts -> Events] /\ event'[r] # NoEvent
  <2>1. [event[r] EXCEPT !.status = "received"] \in Events
    BY EventTypes DEF Typed, CollectionsTypeOK
  <2>2. [event[r] EXCEPT !.status = "received"].status = "received"
    BY DEF Typed, CollectionsTypeOK, Events
  <2> QED
    BY <2>1, <2>2 DEF Receive, Typed, CollectionsTypeOK, NoEvent
<1>3. /\ event'[r] = event[r] \/ event[r] = NoEvent
      /\ event'[r].repayment = event[r].repayment
      /\ event'[r].status = "reconciled" <=> event[r].status = "reconciled"
  BY DEF Receive, Typed, CollectionsTypeOK, NoEvent, Events
<1>4. EventMoves(r)
  BY <1>2 DEF Receive, Typed, CollectionsTypeOK, EventMoves
<1>5. pc' = [pc EXCEPT ![w] = "locking"] /\ job' = [job EXCEPT ![w] = j]
  BY DEF Receive, Begin, Goto, j
<1>6. /\ pc[w] = "idle" /\ pc'[w] = "locking" /\ job'[w] = j
      /\ \A q \in Callers \ {w} : pc'[q] = pc[q] /\ job'[q] = job[q]
      /\ UNCHANGED <<seen, confirmed>>
  BY <1>0, <1>5 DEF Receive, Typed, CollectionsTypeOK
<1>7. CollectionsTypeOK'
  BY <1>0, <1>1, <1>2, <1>5, <1>6
  DEF Typed, CollectionsTypeOK, Receive
<1>8. ASSUME NEW q \in Callers PROVE CallTyped(q)'
  BY <1>0, <1>1, <1>6 DEF Typed, CallTyped, InTransaction
<1> QED
  BY <1>3, <1>2, <1>4, <1>6, <1>7, <1>8 DEF Typed, j

(* The webhook reconciles or rejects an event without a repayment of its own. *)
LEMMA TypedResolve ==
    ASSUME Typed, NEW w \in Callers, LinkExisting(w) \/ RejectUnmatched(w)
    PROVE  /\ Typed' /\ EventMoves(job[w].receipt) /\ Leave(w)
           /\ job[w].receipt \in Receipts
<1>0. pc[w] = "locking" /\ job[w].receipt \in Receipts /\ Leave(w)
  BY CollectionsAssumption
  DEF Typed, CallTyped, LinkExisting, RejectUnmatched
<1> DEFINE r == job[w].receipt
<1>1. event' \in [Receipts -> Events] /\ \A x \in Receipts \ {r} : event'[x] = event[x]
  <2>1. CASE LinkExisting(w)
    <3>1. RowFor(r) \in Nat
      BY <2>1, RowForBooked, BookedType DEF LinkExisting, Typed, CollectionsTypeOK
    <3>2. Reconciled(RowFor(r)) \in Events
      BY <3>1, EventTypes
    <3> QED
      BY <2>1, <3>2 DEF LinkExisting, Typed, CollectionsTypeOK
  <2>2. CASE RejectUnmatched(w)
    <3>1. [event[r] EXCEPT !.status = "rejected"] \in Events
      BY <1>0, EventTypes DEF Typed, CollectionsTypeOK
    <3> QED
      BY <2>2, <3>1 DEF RejectUnmatched, Typed, CollectionsTypeOK
  <2> QED
    BY <2>1, <2>2
<1>2. UNCHANGED <<balance, repaid, expected, repayments, confirmed>>
  BY DEF LinkExisting, RejectUnmatched
<1>3. CollectionsTypeOK'
  BY <1>0, <1>1, <1>2 DEF Typed, CollectionsTypeOK, Leave
<1>4. ASSUME NEW q \in Callers PROVE CallTyped(q)'
  BY <1>0 DEF Typed, CollectionsTypeOK, CallTyped, InTransaction, Leave
<1> QED
  BY <1>0, <1>1, <1>2, <1>3, <1>4 DEF Typed, EventMoves

(* The desk links an event to a repayment that is there. *)
LEMMA TypedLinkManually ==
    ASSUME Typed, NEW o \in Operators, NEW r \in Receipts, LinkManually(o, r)
    PROVE  Typed' /\ EventMoves(r) /\ UNCHANGED callVars
<1>1. RowFor(r) \in Nat
  BY RowForBooked, BookedType DEF LinkManually, Typed, CollectionsTypeOK
<1>2. Reconciled(RowFor(r)) \in Events
  BY <1>1, EventTypes
<1>3. event' \in [Receipts -> Events] /\ \A x \in Receipts \ {r} : event'[x] = event[x]
  BY <1>2 DEF LinkManually, Typed, CollectionsTypeOK
<1>4. CollectionsTypeOK' /\ UNCHANGED callVars
  BY <1>3 DEF LinkManually, Typed, CollectionsTypeOK, callVars
<1>5. ASSUME NEW q \in Callers PROVE CallTyped(q)'
  BY <1>4 DEF Typed, CallTyped, callVars
<1> QED
  BY <1>3, <1>4, <1>5 DEF Typed, EventMoves, LinkManually

(* What a call is about to commit. *)
LEMMA RowType ==
    ASSUME Typed, NEW p \in Callers, pc[p] \in {"inserting", "marking"}
    PROVE  /\ Row(p) \in Rows
           /\ Row(p).loan = job[p].loan /\ Row(p).amount = job[p].amount
           /\ Row(p).applied = Applied(p) /\ Row(p).receipt = job[p].receipt
           /\ Row(p).key = job[p].key
           /\ job[p] \in Jobs /\ job[p].loan \in Loans
           /\ job[p].amount \in Nat \ {0} /\ seen[p] \in Nat \ {0}
           /\ Applied(p) \in Nat \ {0}
           /\ Applied(p) <= job[p].amount /\ Applied(p) <= seen[p]
           /\ Applied(p) = job[p].amount \/ Applied(p) = seen[p]
<1>1. job[p] \in Jobs /\ job[p].loan \in Loans /\ seen[p] \in Nat \ {0}
  BY DEF Typed, CollectionsTypeOK, CallTyped, InTransaction
<1>2. /\ job[p].amount \in Nat \ {0} /\ job[p].receipt \in Receipts \union {None}
      /\ job[p].key \in Keys \union {None}
  BY <1>1 DEF Jobs
<1>3. /\ Applied(p) \in Nat \ {0}
      /\ Applied(p) <= job[p].amount /\ Applied(p) <= seen[p]
      /\ Applied(p) = job[p].amount \/ Applied(p) = seen[p]
  BY <1>1, <1>2 DEF Applied
<1> QED
  BY <1>1, <1>2, <1>3 DEF Row, Rows

(* A commit appends a typed row and lowers a balance by no more than it is. *)
LEMMA TypedCommit ==
    ASSUME Typed, NEW p \in Callers, Commit(p)
    PROVE  /\ Typed' /\ Leave(p) /\ pc[p] = "marking"
           /\ repayments' = Append(repayments, Row(p))
           /\ Row(p) \in Rows
<1>0. pc[p] = "marking" /\ Leave(p) /\ repayments' = Append(repayments, Row(p))
  BY DEF Commit
<1>1. /\ Row(p) \in Rows /\ job[p].loan \in Loans /\ Applied(p) \in Nat \ {0}
  BY <1>0, RowType
<1>2. repayments' \in Seq(Rows) /\ Len(repayments) + 1 \in Nat
  BY <1>0, <1>1, Appended DEF Typed, CollectionsTypeOK
<1>3. event' \in [Receipts -> Events]
  <2>1. Reconciled(Len(repayments) + 1) \in Events
    BY <1>2, EventTypes
  <2> QED
    BY <2>1 DEF Commit, Typed, CollectionsTypeOK
<1>4. balance' \in [Loans -> Nat] /\ repaid' \in [Loans -> Nat]
  BY <1>1 DEF Commit, Typed, CollectionsTypeOK
<1>5. confirmed' \subseteq Submissions
  BY ConfirmType DEF Commit
<1>6. CollectionsTypeOK'
  BY <1>0, <1>2, <1>3, <1>4, <1>5 DEF Typed, CollectionsTypeOK, Leave, Commit
<1>7. ASSUME NEW q \in Callers PROVE CallTyped(q)'
  BY <1>0 DEF Typed, CollectionsTypeOK, CallTyped, InTransaction, Leave
<1> QED
  BY <1>0, <1>1, <1>6, <1>7 DEF Typed

(* A penalty is charged. *)
LEMMA TypedCharge ==
    ASSUME Typed, NEW l \in Loans, ChargePenalty(l)
    PROVE  Typed' /\ UNCHANGED <<repaid, repayments, event, callVars, confirmed>>
<1>1. UNCHANGED <<repaid, repayments, event, callVars, confirmed>>
  BY DEF ChargePenalty
<1>2. CollectionsTypeOK'
  BY <1>1 DEF ChargePenalty, Typed, CollectionsTypeOK, callVars
<1>3. ASSUME NEW q \in Callers PROVE CallTyped(q)'
  BY <1>1 DEF Typed, CallTyped, callVars
<1> QED
  BY <1>1, <1>2, <1>3 DEF Typed

(* The kinds of steps there are. *)
Ends(p) == FindDone(p) \/ Replay(p) \/ RollBack(p)
Proceeds(p) == Read(p) \/ TakeKey(p) \/ UpdateLoan(p) \/ InsertRepayment(p)
Resolves(p) == LinkExisting(p) \/ RejectUnmatched(p)

(* Every step is of one of these kinds. *)
LEMMA StepKinds ==
    ASSUME CollectionsNext
    PROVE  \/ \E t \in Tellers : \E s \in SubmissionsOf[t] : Submit(t, s)
           \/ \E w \in Webhooks, r \in Receipts : Receive(w, r)
           \/ \E o \in Operators, r \in Receipts : LinkManually(o, r)
           \/ \E o \in Operators, r \in Receipts, l \in Loans :
                 StartReconciliation(o, r, l)
           \/ \E p \in Callers : LockEvent(p)
           \/ \E p \in Callers : Ends(p)
           \/ \E p \in Callers : Proceeds(p)
           \/ \E p \in Callers : Resolves(p)
           \/ \E p \in Callers : Commit(p)
           \/ \E l \in Loans : ChargePenalty(l)
<1>1. ASSUME NEW p \in Callers, Step(p) \/ Interrupt(p)
      PROVE  Ends(p) \/ Proceeds(p) \/ Resolves(p) \/ LockEvent(p) \/ Commit(p)
  BY <1>1 DEF Step, Interrupt, Refuse, BreakDeadlock, Ends, Proceeds, Resolves
<1> QED
  BY <1>1 DEF CollectionsNext

(* Who makes a call. *)
LEMMA CallersAre ==
    ASSUME NEW t
    PROVE  /\ t \in Tellers => t \in Callers /\ t \notin Webhooks /\ t \notin Operators
           /\ t \in Webhooks => t \in Callers /\ t \notin Tellers /\ t \notin Operators
           /\ t \in Operators => t \in Callers /\ t \notin Tellers /\ t \notin Webhooks
  BY CollectionsAssumption DEF Callers

(* Every step keeps the types. *)
LEMMA TypedStep == Typed /\ [CollectionsNext]_vars => Typed'
<1> SUFFICES ASSUME Typed, [CollectionsNext]_vars PROVE Typed'
  OBVIOUS
<1>1. CASE UNCHANGED vars
  <2>1. CollectionsTypeOK'
    BY <1>1 DEF vars, bookVars, callVars, Typed, CollectionsTypeOK
  <2>2. ASSUME NEW q \in Callers PROVE CallTyped(q)'
    BY <1>1 DEF vars, callVars, Typed, CallTyped
  <2> QED
    BY <2>1, <2>2 DEF Typed
<1>2. CASE CollectionsNext
  BY <1>2, StepKinds, CallersAre, TypedSubmit, TypedReceive, TypedLinkManually,
     TypedStartReconciliation, TypedLockEvent, TypedEnd, TypedStatements,
     TypedResolve, TypedCommit, TypedCharge
  DEF Ends, Proceeds, Resolves
<1> QED
  BY <1>1, <1>2

(* Types hold for any callers and any amounts: balances are not
   negative, every repayment booked reduced one. *)
THEOREM CollectionsTypeCorrect == CollectionsSpec => []CollectionsTypeOK
<1>1. Typed => CollectionsTypeOK
  BY DEF Typed
<1> QED
  BY <1>1, TypedInit, TypedStep, PTL DEF CollectionsSpec

-----------------------------------------------------------------------------
(* What holding a lock tells *)

(* What a call knows of the books from the statement on that took the lock. *)
CallBooks(p) ==
    /\ p \in Webhooks /\ pc[p] \in InTransaction =>
          event[job[p].receipt].status = "received"
    /\ pc[p] \in {"updating", "inserting", "marking"} => Keyed(job[p]) = {}
    /\ pc[p] \in {"inserting", "marking"} =>
          Applied(p) <= balance[job[p].loan]
    /\ pc[p] = "marking" => Booked(job[p].receipt) = {}
    /\ pc[p] \in InTransaction \ {"reading"} =>
          (expected[job[p].loan] = Principal[job[p].loan]
              => balance[job[p].loan] <= seen[p])

(* No two calls hold the same lock. *)
Exclusive(p, q) ==
    p # q =>
    /\ ~(HasEvent(p) /\ HasEvent(q) /\ job[p].receipt = job[q].receipt)
    /\ ~(HasKey(p) /\ HasKey(q) /\ job[p].loan = job[q].loan
                                /\ job[p].key = job[q].key)
    /\ ~(HasLoan(p) /\ HasLoan(q) /\ job[p].loan = job[q].loan)
    /\ ~(HasReceipt(p) /\ HasReceipt(q) /\ job[p].receipt = job[q].receipt)

(* What the locks tell all calls. *)
CallInv ==
    /\ \A p \in Callers : CallBooks(p)
    /\ \A p, q \in Callers : Exclusive(p, q)

(* Initially there are no calls. *)
LEMMA CallInit == CollectionsInit => CallInv
  BY DEF CollectionsInit, CallInv, CallBooks, Exclusive, HasEvent, HasKey,
         HasLoan, HasReceipt, InTransaction

(* A move of one call is of no concern to the others. *)
LEMMA CallMove ==
    ASSUME Typed, CallInv, NEW p \in Callers, Moves(p), CallBooks(p)',
           \A q \in Callers : Exclusive(p, q)'
    PROVE  CallInv'
<1>1. ASSUME NEW q \in Callers, q # p PROVE CallBooks(q)'
  <2>1. CallBooks(q)
    BY DEF CallInv
  <2>2. /\ pc'[q] = pc[q] /\ job'[q] = job[q] /\ seen'[q] = seen[q]
        /\ UNCHANGED <<balance, repaid, expected, repayments, event>>
    BY <1>1 DEF Moves, bookVars
  <2> QED
    BY <2>1, <2>2 DEF CallBooks, Keyed, Booked, Applied
<1>2. ASSUME NEW q \in Callers, NEW r \in Callers, q # p, r # p
      PROVE  Exclusive(q, r)'
  <2>1. Exclusive(q, r)
    BY DEF CallInv
  <2>2. /\ pc'[q] = pc[q] /\ job'[q] = job[q] /\ pc'[r] = pc[r] /\ job'[r] = job[r]
    BY <1>2 DEF Moves
  <2> QED
    BY <2>1, <2>2 DEF Exclusive, HasEvent, HasKey, HasLoan, HasReceipt
<1>3. ASSUME NEW q \in Callers PROVE Exclusive(q, p)'
  <2>1. Exclusive(p, q)'
    OBVIOUS
  <2> QED
    BY <2>1 DEF Exclusive
<1> QED
  BY <1>1, <1>2, <1>3 DEF CallInv

(* A call that leaves holds nothing. *)
LEMMA CallEnd ==
    ASSUME Typed, CallInv, NEW p \in Callers, Ends(p)
    PROVE  CallInv'
<1>1. Moves(p) /\ Leave(p)
  BY TypedEnd DEF Ends
<1>2. pc'[p] = "idle"
  BY <1>1 DEF Leave, Typed, CollectionsTypeOK
<1>3. CallBooks(p)'
  BY <1>2 DEF CallBooks, InTransaction
<1>4. \A q \in Callers : Exclusive(p, q)'
  BY <1>2 DEF Exclusive, HasEvent, HasKey, HasLoan, HasReceipt
<1> QED
  BY <1>1, <1>3, <1>4, CallMove

(* A repayment that begins holds at most the lock of its event. *)
LEMMA CallBegin ==
    ASSUME Typed, CallInv, NEW p \in Callers, Moves(p), pc'[p] = "reading",
           p \in Webhooks =>
              /\ event[job'[p].receipt].status = "received"
              /\ \A q \in Callers \ {p} :
                    ~(HasEvent(q) /\ job[q].receipt = job'[p].receipt)
    PROVE  CallInv'
<1>1. UNCHANGED event
  BY DEF Moves, bookVars
<1>2. CallBooks(p)'
  BY <1>1 DEF CallBooks, InTransaction
<1>3. ASSUME NEW q \in Callers PROVE Exclusive(p, q)'
  BY DEF Exclusive, HasEvent, HasKey, HasLoan, HasReceipt, Moves
<1> QED
  BY <1>2, <1>3, CallMove

(* Without a wait nobody holds what the statement takes. *)
LEMMA NobodyHolds ==
    ASSUME Typed, NEW p \in Callers, ~Waits(p), NEW q \in Callers, q # p
    PROVE  /\ pc[p] = "locking" =>
                 ~(HasEvent(q) /\ job[q].receipt = job[p].receipt)
           /\ p \in Operators /\ pc[p] = "marking" =>
                 ~(HasEvent(q) /\ job[q].receipt = job[p].receipt)
           /\ pc[p] = "keying" =>
                 ~(HasKey(q) /\ job[q].loan = job[p].loan
                             /\ job[q].key = job[p].key)
           /\ pc[p] = "updating" =>
                 ~(HasLoan(q) /\ job[q].loan = job[p].loan)
           /\ pc[p] = "inserting" =>
                 ~(HasReceipt(q) /\ job[q].receipt = job[p].receipt)
<1>1. ~WaitsFor(p, q)
  BY DEF Waits
<1>2. HasEvent(q) \/ HasKey(q) \/ HasLoan(q) \/ HasReceipt(q) => pc[q] # "idle"
  BY DEF HasEvent, HasKey, HasLoan, HasReceipt
<1> QED
  BY <1>1, <1>2 DEF WaitsFor

(* The webhook goes on with the event's lock and an event still received. *)
LEMMA CallLockEvent ==
    ASSUME Typed, CallInv, NEW w \in Callers, LockEvent(w)
    PROVE  CallInv'
<1>1. Moves(w)
  BY TypedLockEvent
<1>2. /\ pc[w] = "locking" /\ ~Waits(w)
      /\ event[job[w].receipt].status = "received"
      /\ job[w].receipt \in Receipts
  BY CollectionsAssumption DEF LockEvent, Typed, CallTyped
<1>3. PICK l \in LoansOf[job[w].receipt] \ {None} :
         Begin(w, "reading", Incoming(job[w].receipt, l))
  BY DEF LockEvent
<1>4. pc'[w] = "reading" /\ job'[w] = Incoming(job[w].receipt, l)
  BY <1>3 DEF Begin, Goto, Typed, CollectionsTypeOK
<1>5. job'[w].receipt = job[w].receipt
  BY <1>4 DEF Incoming
<1>6. \A q \in Callers \ {w} :
         ~(HasEvent(q) /\ job[q].receipt = job'[w].receipt)
  BY <1>2, <1>5, NobodyHolds
<1> QED
  BY <1>1, <1>2, <1>4, <1>5, <1>6, CallBegin

(* A statement takes a lock nobody holds and finds what it looks for. *)
LEMMA CallProceeds ==
    ASSUME Typed, CallInv, NEW p \in Callers, Proceeds(p)
    PROVE  CallInv'
<1>1. /\ Moves(p) /\ UNCHANGED <<job, balance, expected, repayments, event>>
      /\ Read(p) \/ UNCHANGED seen
  BY TypedStatements DEF Proceeds, Moves, bookVars
<1>2. CallBooks(p) /\ CallTyped(p) /\ \A q \in Callers : Exclusive(p, q)
  BY DEF CallInv, Typed
<1>3. CASE Read(p)
  <2>1. /\ pc[p] = "reading" /\ Keyed(job[p]) = {}
        /\ seen'[p] = balance[job[p].loan]
        /\ pc'[p] = IF job[p].key = None THEN "updating" ELSE "keying"
    BY <1>3 DEF Read, Goto, Typed, CollectionsTypeOK
  <2>2. balance[job[p].loan] \in Nat
    BY <2>1, <1>2 DEF Typed, CollectionsTypeOK, CallTyped, InTransaction
  <2>3. CallBooks(p)'
    BY <1>1, <1>2, <2>1, <2>2 DEF CallBooks, InTransaction, Keyed
  <2>4. ASSUME NEW q \in Callers PROVE Exclusive(p, q)'
    <3>1. q # p => pc'[q] = pc[q]
      BY <1>1 DEF Moves
    <3>2. Exclusive(p, q) /\ (pc[p] = "keying" => p \in Tellers)
      BY <1>2 DEF CallTyped
    <3> QED
      BY <1>1, <2>1, <3>1, <3>2
      DEF Exclusive, HasEvent, HasKey, HasLoan, HasReceipt
  <2> QED
    BY <1>1, <2>3, <2>4, CallMove
<1>4. CASE TakeKey(p)
  <2>1. /\ pc[p] = "keying" /\ ~Waits(p) /\ Keyed(job[p]) = {}
        /\ pc'[p] = "updating" /\ UNCHANGED seen
    BY <1>4 DEF TakeKey, Goto, Typed, CollectionsTypeOK
  <2>2. p \in Tellers /\ p \notin Webhooks
    BY <1>2, <2>1, CallersAre DEF CallTyped
  <2>3. CallBooks(p)'
    BY <1>1, <1>2, <2>1, <2>2 DEF CallBooks, InTransaction, Keyed
  <2>4. ASSUME NEW q \in Callers PROVE Exclusive(p, q)'
    <3>1. q # p => pc'[q] = pc[q]
      BY <1>1 DEF Moves
    <3>2. q # p => ~(HasKey(q) /\ job[q].loan = job[p].loan
                               /\ job[q].key = job[p].key)
      BY <2>1, NobodyHolds
    <3> QED
      BY <1>1, <2>1, <2>2, <3>1, <3>2
      DEF Exclusive, HasEvent, HasKey, HasLoan, HasReceipt
  <2> QED
    BY <1>1, <2>3, <2>4, CallMove
<1>5. CASE UpdateLoan(p)
  <2>1. /\ pc[p] = "updating" /\ ~Waits(p) /\ Covered(p)
        /\ pc'[p] = "inserting" /\ UNCHANGED seen
    BY <1>5 DEF UpdateLoan, Goto, Typed, CollectionsTypeOK
  <2>2. Applied(p)' <= balance'[job'[p].loan]
    <3>1. balance[job[p].loan] \in Nat /\ Applied(p) \in Nat
      BY <1>2, <2>1 DEF Typed, CollectionsTypeOK, CallTyped, InTransaction, Applied, Jobs
    <3> QED
      BY <1>1, <2>1, <3>1 DEF Covered, Applied
  <2>3. CallBooks(p)'
    BY <1>1, <1>2, <2>1, <2>2 DEF CallBooks, InTransaction, Keyed
  <2>4. ASSUME NEW q \in Callers PROVE Exclusive(p, q)'
    <3>1. q # p => pc'[q] = pc[q]
      BY <1>1 DEF Moves
    <3>2. Exclusive(p, q)
          /\ (q # p => ~(HasLoan(q) /\ job[q].loan = job[p].loan))
      BY <1>2, <2>1, NobodyHolds
    <3> QED
      BY <1>1, <2>1, <3>1, <3>2
      DEF Exclusive, HasEvent, HasKey, HasLoan, HasReceipt
  <2> QED
    BY <1>1, <2>3, <2>4, CallMove
<1>6. CASE InsertRepayment(p)
  <2>1. /\ pc[p] = "inserting" /\ ~Waits(p) /\ Booked(job[p].receipt) = {}
        /\ pc'[p] = "marking" /\ UNCHANGED seen
    BY <1>6 DEF InsertRepayment, Goto, Typed, CollectionsTypeOK
  <2>3. CallBooks(p)'
    BY <1>1, <1>2, <2>1 DEF CallBooks, InTransaction, Keyed, Booked, Applied
  <2>4. ASSUME NEW q \in Callers PROVE Exclusive(p, q)'
    <3>1. q # p => pc'[q] = pc[q]
      BY <1>1 DEF Moves
    <3>2. Exclusive(p, q)
          /\ (q # p => ~(HasReceipt(q) /\ job[q].receipt = job[p].receipt))
      BY <1>2, <2>1, NobodyHolds
    <3> QED
      BY <1>1, <2>1, <3>1, <3>2
      DEF Exclusive, HasEvent, HasKey, HasLoan, HasReceipt
  <2> QED
    BY <1>1, <2>3, <2>4, CallMove
<1> QED
  BY <1>3, <1>4, <1>5, <1>6 DEF Proceeds

(* An event changes that no transaction of a webhook holds. *)
LEMMA CallEventMove ==
    ASSUME Typed, CallInv, NEW r \in Receipts, EventMoves(r),
           \A q \in Callers : HasEvent(q) /\ job[q].receipt = r =>
                                 event'[r].status = "received",
           \A q \in Callers : \/ pc'[q] = pc[q] /\ job'[q] = job[q] /\ seen'[q] = seen[q]
                              \/ pc'[q] \in {"idle", "locking"}
    PROVE  CallInv'
<1>1. ASSUME NEW q \in Callers PROVE CallBooks(q)'
  <2>1. CASE pc'[q] \in {"idle", "locking"}
    BY <2>1 DEF CallBooks, InTransaction
  <2>2. CASE pc'[q] = pc[q] /\ job'[q] = job[q] /\ seen'[q] = seen[q]
    <3>1. CallBooks(q) /\ CallTyped(q)
      BY DEF CallInv, Typed
    <3>2. q \in Webhooks /\ pc[q] \in InTransaction =>
             HasEvent(q) /\ job[q].receipt \in Receipts
      BY <3>1, CallersAre DEF CallTyped, InTransaction, HasEvent
    <3>3. q \in Webhooks /\ pc[q] \in InTransaction =>
             event'[job[q].receipt].status = "received"
      BY <3>1, <3>2 DEF EventMoves, CallBooks
    <3> QED
      BY <2>2, <3>1, <3>3 DEF CallBooks, EventMoves, Keyed, Booked, Applied
  <2> QED
    BY <2>1, <2>2
<1>2. ASSUME NEW p \in Callers, NEW q \in Callers PROVE Exclusive(p, q)'
  <2>1. Exclusive(p, q)
    BY DEF CallInv
  <2> QED
    BY <2>1 DEF Exclusive, HasEvent, HasKey, HasLoan, HasReceipt
<1> QED
  BY <1>1, <1>2 DEF CallInv

(* A webhook arrives. *)
LEMMA CallReceive ==
    ASSUME Typed, CallInv, NEW w \in Webhooks, NEW r \in Receipts, Receive(w, r)
    PROVE  CallInv'
<1>1. /\ EventMoves(r) /\ (event'[r] = event[r] \/ event[r] = NoEvent)
      /\ pc'[w] = "locking" /\ UNCHANGED seen
      /\ \A q \in Callers \ {w} : pc'[q] = pc[q] /\ job'[q] = job[q]
  BY TypedReceive
<1>2. ASSUME NEW q \in Callers, HasEvent(q), job[q].receipt = r
      PROVE  event'[r].status = "received"
  <2>1. event[r].status = "received"
    BY <1>2 DEF CallInv, CallBooks, HasEvent, InTransaction
  <2> QED
    BY <1>1, <2>1 DEF NoEvent
<1> QED
  BY <1>1, <1>2, CallEventMove

(* A webhook resolves the event it has locked. *)
LEMMA CallResolve ==
    ASSUME Typed, CallInv, NEW w \in Callers, Resolves(w)
    PROVE  CallInv'
<1>1. EventMoves(job[w].receipt) /\ Leave(w) /\ job[w].receipt \in Receipts
  BY TypedResolve DEF Resolves
<1>2. pc[w] = "locking" /\ ~Waits(w)
  BY DEF Resolves, LinkExisting, RejectUnmatched
<1>3. \A q \in Callers : ~(HasEvent(q) /\ job[q].receipt = job[w].receipt)
  <2>1. ~HasEvent(w)
    BY <1>2 DEF HasEvent
  <2> QED
    BY <1>2, <2>1, NobodyHolds
<1>4. \A q \in Callers : \/ pc'[q] = pc[q] /\ job'[q] = job[q] /\ seen'[q] = seen[q]
                         \/ pc'[q] \in {"idle", "locking"}
  BY <1>1 DEF Leave, Typed, CollectionsTypeOK
<1> QED
  BY <1>1, <1>3, <1>4, CallEventMove

(* The desk links an event no webhook has locked. *)
LEMMA CallLinkManually ==
    ASSUME Typed, CallInv, NEW o \in Operators, NEW r \in Receipts,
           LinkManually(o, r)
    PROVE  CallInv'
<1>1. EventMoves(r) /\ UNCHANGED callVars
  BY TypedLinkManually
<1>2. \A q \in Callers : ~(HasEvent(q) /\ job[q].receipt = r)
  BY DEF LinkManually, HasEvent
<1> QED
  BY <1>1, <1>2, CallEventMove DEF callVars

(* What a commit leaves to another call: it had other locks. *)
LEMMA CallCommit ==
    ASSUME Typed, CallInv, NEW p \in Callers, Commit(p)
    PROVE  CallInv'
<1>1. /\ Leave(p) /\ pc[p] = "marking" /\ Row(p) \in Rows /\ ~Waits(p)
      /\ repayments' = Append(repayments, Row(p))
      /\ UNCHANGED expected
  BY TypedCommit DEF Commit
<1>2. /\ Row(p).loan = job[p].loan /\ Row(p).receipt = job[p].receipt
      /\ Row(p).key = job[p].key
      /\ job[p].loan \in Loans /\ Applied(p) \in Nat \ {0}
  BY <1>1, RowType
<1>3. /\ DOMAIN repayments' = (DOMAIN repayments) \union {Len(repayments) + 1}
      /\ \A i \in DOMAIN repayments : repayments'[i] = repayments[i]
      /\ repayments'[Len(repayments) + 1] = Row(p)
  BY <1>1, Appended DEF Typed, CollectionsTypeOK
<1>4. pc'[p] = "idle" /\ \A q \in Callers \ {p} :
         pc'[q] = pc[q] /\ job'[q] = job[q] /\ seen'[q] = seen[q]
  BY <1>1 DEF Leave, Typed, CollectionsTypeOK
<1>5. /\ \A l \in Loans \ {job[p].loan} : balance'[l] = balance[l]
      /\ balance'[job[p].loan] \in Nat
      /\ balance'[job[p].loan] <= balance[job[p].loan]
      /\ \A l \in Loans : balance[l] \in Nat /\ balance'[l] \in Nat
  BY <1>2 DEF Commit, Typed, CollectionsTypeOK
<1> HIDE DEF Rows
<1>6. ASSUME NEW q \in Callers, q # p PROVE CallBooks(q)'
  <2>1. CallBooks(q) /\ CallTyped(q) /\ Exclusive(p, q) /\ seen[q] \in Nat
    BY DEF CallInv, Typed, CollectionsTypeOK
  <2>2. ASSUME q \in Webhooks, pc[q] \in InTransaction
        PROVE  event'[job[q].receipt].status = "received"
    <3>1. HasEvent(q) /\ job[q].receipt \in Receipts
      BY <2>1, <2>2, CallersAre DEF CallTyped, InTransaction, HasEvent
    <3>2. p \notin Tellers => job[q].receipt # job[p].receipt
      <4>1. CASE p \in Webhooks
        BY <1>1, <1>6, <2>1, <3>1, <4>1 DEF Exclusive, HasEvent
      <4>2. CASE p \in Operators
        BY <1>1, <1>6, <3>1, <4>2, NobodyHolds
      <4> QED
        BY <4>1, <4>2 DEF Callers
    <3>3. event'[job[q].receipt] = event[job[q].receipt]
      BY <3>1, <3>2 DEF Commit, Typed, CollectionsTypeOK
    <3> QED
      BY <2>1, <2>2, <3>3 DEF CallBooks
  <2>3. ASSUME pc[q] \in {"updating", "inserting", "marking"}
        PROVE  Keyed(job[q])' = {}
    <3>1. Keyed(job[q]) = {}
      BY <2>1, <2>3 DEF CallBooks
    <3>2. ~(job[q].key # None /\ job[p].key = job[q].key /\ job[p].loan = job[q].loan)
      BY <1>1, <1>6, <2>1, <2>3 DEF Exclusive, HasKey
    <3> QED
      BY <1>2, <1>3, <1>4, <1>6, <3>1, <3>2 DEF Keyed
  <2>4. ASSUME pc[q] \in {"inserting", "marking"}
        PROVE  Applied(q)' <= balance'[job[q].loan]
    <3>1. job[q].loan # job[p].loan /\ job[q].loan \in Loans
      BY <1>1, <1>6, <2>1, <2>4 DEF Exclusive, HasLoan, CallTyped, InTransaction
    <3>2. Applied(q)' = Applied(q)
      BY <1>4, <1>6 DEF Applied
    <3> QED
      BY <1>5, <2>1, <2>4, <3>1, <3>2 DEF CallBooks
  <2>5. ASSUME pc[q] = "marking"
        PROVE  Booked(job[q].receipt)' = {}
    <3>1. Booked(job[q].receipt) = {}
      BY <2>1, <2>5 DEF CallBooks
    <3>2. ~(job[q].receipt # None /\ job[p].receipt = job[q].receipt)
      BY <1>1, <1>6, <2>1, <2>5 DEF Exclusive, HasReceipt
    <3> QED
      BY <1>2, <1>3, <1>4, <1>6, <3>1, <3>2 DEF Booked
  <2>6. ASSUME pc[q] \in InTransaction \ {"reading"},
               expected[job[q].loan] = Principal[job[q].loan]
        PROVE  balance'[job[q].loan] <= seen[q]
    <3>1. balance[job[q].loan] <= seen[q] /\ job[q].loan \in Loans
      BY <2>1, <2>6 DEF CallBooks, CallTyped
    <3>2. balance'[job[q].loan] <= balance[job[q].loan]
      BY <1>5, <3>1
    <3> QED
      BY <1>5, <2>1, <3>1, <3>2
  <2> QED
    BY <1>1, <1>4, <1>6, <2>2, <2>3, <2>4, <2>5, <2>6 DEF CallBooks
<1>7. CallBooks(p)'
  BY <1>4 DEF CallBooks, InTransaction
<1>8. ASSUME NEW q \in Callers, NEW r \in Callers PROVE Exclusive(q, r)'
  <2>1. Exclusive(q, r)
    BY DEF CallInv
  <2> QED
    BY <1>4, <2>1 DEF Exclusive, HasEvent, HasKey, HasLoan, HasReceipt
<1> QED
  BY <1>6, <1>7, <1>8 DEF CallInv

(* A loan that is charged was charged for good. *)
ChargesAdd == \A l \in Loans : expected[l] >= Principal[l]

(* A penalty raises the balance of a loan nobody has locked. *)
LEMMA CallCharge ==
    ASSUME Typed, CallInv, ChargesAdd, NEW l \in Loans, ChargePenalty(l)
    PROVE  CallInv'
<1>1. UNCHANGED <<repayments, event, callVars>>
  BY TypedCharge
<1>2. /\ balance' = [balance EXCEPT ![l] = @ + 1]
      /\ expected' = [expected EXCEPT ![l] = @ + 1]
      /\ \A p \in Callers : HasLoan(p) => job[p].loan # l
  BY DEF ChargePenalty
<1>3. expected'[l] # Principal[l]
  BY <1>2, CollectionsAssumption DEF ChargesAdd, Typed, CollectionsTypeOK
<1>4. ASSUME NEW q \in Callers PROVE CallBooks(q)'
  <2>1. CallBooks(q) /\ CallTyped(q)
    BY DEF CallInv, Typed
  <2>2. ASSUME pc[q] \in {"inserting", "marking"}
        PROVE  Applied(q)' <= balance'[job[q].loan]
    <3>1. job[q].loan # l /\ job[q].loan \in Loans
      BY <1>2, <2>1, <2>2 DEF HasLoan, CallTyped, InTransaction
    <3> QED
      BY <1>1, <1>2, <2>1, <2>2, <3>1
      DEF CallBooks, Applied, callVars, Typed, CollectionsTypeOK
  <2>3. ASSUME pc[q] \in InTransaction \ {"reading"},
               expected'[job[q].loan] = Principal[job[q].loan]
        PROVE  balance'[job[q].loan] <= seen[q]
    <3>1. job[q].loan \in Loans /\ job[q].loan # l
      BY <1>3, <2>1, <2>3 DEF CallTyped
    <3> QED
      BY <1>2, <2>1, <2>3, <3>1 DEF CallBooks, Typed, CollectionsTypeOK
  <2> QED
    BY <1>1, <2>1, <2>2, <2>3 DEF CallBooks, callVars, Keyed, Booked
<1>5. ASSUME NEW p \in Callers, NEW q \in Callers PROVE Exclusive(p, q)'
  <2>1. Exclusive(p, q)
    BY DEF CallInv
  <2> QED
    BY <1>1, <2>1 DEF Exclusive, HasEvent, HasKey, HasLoan, HasReceipt, callVars
<1> QED
  BY <1>4, <1>5 DEF CallInv

(* Charges are never taken back. *)
LEMMA ChargesStep ==
    ASSUME Typed, ChargesAdd, [CollectionsNext]_vars
    PROVE  ChargesAdd'
<1>1. UNCHANGED expected \/ \E l \in Loans : ChargePenalty(l)
  <2>1. CASE UNCHANGED vars
    BY <2>1 DEF vars, bookVars
  <2>2. CASE CollectionsNext
    BY <2>2, StepKinds
    DEF Submit, Receive, LinkManually, StartReconciliation, LockEvent, Ends,
        Proceeds, Resolves, Commit, FindDone, Replay, RollBack, Read, TakeKey,
        UpdateLoan, InsertRepayment, LinkExisting, RejectUnmatched, bookVars
  <2> QED
    BY <2>1, <2>2
<1>2. CASE UNCHANGED expected
  BY <1>2 DEF ChargesAdd
<1>3. ASSUME NEW l \in Loans, ChargePenalty(l) PROVE ChargesAdd'
  <2> SUFFICES ASSUME NEW x \in Loans PROVE expected'[x] >= Principal[x]
    BY DEF ChargesAdd
  <2>1. expected[x] \in Nat /\ Principal[x] \in Nat /\ expected[x] >= Principal[x]
    BY CollectionsAssumption DEF ChargesAdd, Typed, CollectionsTypeOK
  <2>2. expected'[x] = expected[x] \/ expected'[x] = expected[x] + 1
    BY <1>3 DEF ChargePenalty, Typed, CollectionsTypeOK
  <2> QED
    BY <2>1, <2>2
<1> QED
  BY <1>1, <1>2, <1>3

(* Every step keeps what the locks tell. *)
LEMMA CallStep ==
    ASSUME Typed, CallInv, ChargesAdd, [CollectionsNext]_vars
    PROVE  CallInv'
<1>1. CASE UNCHANGED vars
  <2>1. UNCHANGED <<balance, expected, repayments, event, pc, job, seen>>
    BY <1>1 DEF vars, bookVars, callVars
  <2>2. ASSUME NEW q \in Callers PROVE CallBooks(q)'
    BY <2>1 DEF CallInv, CallBooks, Keyed, Booked, Applied
  <2>3. ASSUME NEW p \in Callers, NEW q \in Callers PROVE Exclusive(p, q)'
    <3>1. Exclusive(p, q)
      BY DEF CallInv
    <3> QED
      BY <2>1, <3>1 DEF Exclusive, HasEvent, HasKey, HasLoan, HasReceipt
  <2> QED
    BY <2>2, <2>3 DEF CallInv
<1>2. ASSUME NEW t \in Tellers, NEW s \in SubmissionsOf[t], Submit(t, s)
      PROVE  CallInv'
  <2>1. Moves(t) /\ t \in Callers /\ t \notin Webhooks
    BY <1>2, TypedSubmit, CallersAre
  <2>2. pc'[t] = "reading"
    BY <1>2, <2>1 DEF Submit, Begin, Goto, Typed, CollectionsTypeOK
  <2> QED
    BY <2>1, <2>2, CallBegin
<1>3. ASSUME NEW o \in Operators, NEW r \in Receipts, NEW l \in Loans,
             StartReconciliation(o, r, l)
      PROVE  CallInv'
  <2>1. Moves(o) /\ o \in Callers /\ o \notin Webhooks
    BY <1>3, TypedStartReconciliation, CallersAre
  <2>2. pc'[o] = "reading"
    BY <1>3, <2>1 DEF StartReconciliation, Begin, Goto, Typed, CollectionsTypeOK
  <2> QED
    BY <2>1, <2>2, CallBegin
<1> QED
  BY <1>1, <1>2, <1>3, StepKinds, CallReceive, CallLinkManually, CallLockEvent,
     CallEnd, CallProceeds, CallResolve, CallCommit, CallCharge

-----------------------------------------------------------------------------
(* What is booked *)

(* The rows of a key on a loan. *)
KeyedBy(l, k) == {i \in DOMAIN repayments :
                     k # None /\ repayments[i].key = k /\ repayments[i].loan = l}

(* A commit adds one row, whose receipt and key are new. *)
LEMMA Adds ==
    ASSUME Typed, CallInv, NEW p \in Callers, Commit(p)
    PROVE  /\ \A r : Booked(r)' = Booked(r) \union
                        (IF r # None /\ job[p].receipt = r
                         THEN {Len(repayments) + 1} ELSE {})
           /\ \A l, k : KeyedBy(l, k)' = KeyedBy(l, k) \union
                        (IF k # None /\ job[p].loan = l /\ job[p].key = k
                         THEN {Len(repayments) + 1} ELSE {})
           /\ DOMAIN repayments' = (DOMAIN repayments) \union {Len(repayments) + 1}
           /\ \A i \in DOMAIN repayments : repayments'[i] = repayments[i]
           /\ repayments'[Len(repayments) + 1] = Row(p)
<1>1. Row(p) \in Rows /\ pc[p] = "marking" /\ repayments' = Append(repayments, Row(p))
  BY TypedCommit
<1>2. /\ Row(p).loan = job[p].loan /\ Row(p).receipt = job[p].receipt
      /\ Row(p).key = job[p].key
  BY <1>1, RowType
<1>3. /\ DOMAIN repayments' = (DOMAIN repayments) \union {Len(repayments) + 1}
      /\ \A i \in DOMAIN repayments : repayments'[i] = repayments[i]
      /\ repayments'[Len(repayments) + 1] = Row(p)
  BY <1>1, Appended DEF Typed, CollectionsTypeOK
<1>4. ASSUME NEW r
      PROVE  Booked(r)' = Booked(r) \union (IF r # None /\ job[p].receipt = r
                                            THEN {Len(repayments) + 1} ELSE {})
  BY <1>2, <1>3 DEF Booked
<1>5. ASSUME NEW l, NEW k
      PROVE  KeyedBy(l, k)' = KeyedBy(l, k) \union
                (IF k # None /\ job[p].loan = l /\ job[p].key = k
                 THEN {Len(repayments) + 1} ELSE {})
  BY <1>2, <1>3 DEF KeyedBy
<1> QED
  BY <1>3, <1>4, <1>5

(* Initially no event is reconciled. *)
LEMMA ReconciledInit == CollectionsInit => ReconciledIsBooked
  BY DEF CollectionsInit, ReconciledIsBooked, NoEvent

(* Every step keeps reconciled events booked. *)
LEMMA ReconciledStep ==
    ASSUME Typed, CallInv, ReconciledIsBooked, [CollectionsNext]_vars
    PROVE  ReconciledIsBooked'
<1>1. CASE UNCHANGED <<repayments, event>>
  BY <1>1 DEF ReconciledIsBooked, Booked
<1>2. ASSUME NEW w \in Webhooks, NEW r \in Receipts, Receive(w, r)
      PROVE  ReconciledIsBooked'
  <2>1. /\ EventMoves(r) /\ event'[r].repayment = event[r].repayment
        /\ event'[r].status = "reconciled" <=> event[r].status = "reconciled"
    BY <1>2, TypedReceive
  <2> QED
    BY <2>1 DEF ReconciledIsBooked, EventMoves, Booked
<1>3. ASSUME NEW r \in Receipts, EventMoves(r), Booked(r) # {},
             event'[r] = Reconciled(RowFor(r))
      PROVE  ReconciledIsBooked'
  <2>1. RowFor(r) \in Booked(r)
    BY <1>3, RowForBooked
  <2>2. event'[r].status = "reconciled" /\ event'[r].repayment \in Booked(r)
    BY <1>3, <2>1 DEF Reconciled
  <2> QED
    BY <1>3, <2>2 DEF ReconciledIsBooked, EventMoves, Booked
<1>4. ASSUME NEW w \in Callers, Resolves(w) PROVE ReconciledIsBooked'
  <2>1. /\ EventMoves(job[w].receipt) /\ job[w].receipt \in Receipts
        /\ event \in [Receipts -> Events]
    BY <1>4, TypedResolve DEF Resolves, Typed, CollectionsTypeOK
  <2>2. CASE LinkExisting(w)
    BY <2>1, <2>2, <1>3 DEF LinkExisting
  <2>3. CASE RejectUnmatched(w)
    <3>1. event[job[w].receipt].status = "received"
      BY <2>3 DEF RejectUnmatched
    <3>2. event' = [event EXCEPT ![job[w].receipt].status = "rejected"]
      BY <2>3 DEF RejectUnmatched
    <3>3. /\ event'[job[w].receipt].status = "rejected"
          /\ event'[job[w].receipt].repayment = event[job[w].receipt].repayment
      BY <2>1, <3>2 DEF Events
    <3> QED
      BY <2>1, <3>1, <3>3 DEF ReconciledIsBooked, EventMoves, Booked
  <2> QED
    BY <1>4, <2>2, <2>3 DEF Resolves
<1>5. ASSUME NEW o \in Operators, NEW r \in Receipts, LinkManually(o, r)
      PROVE  ReconciledIsBooked'
  <2>1. EventMoves(r) /\ event \in [Receipts -> Events]
    BY <1>5, TypedLinkManually DEF Typed, CollectionsTypeOK
  <2> QED
    BY <1>5, <2>1, <1>3 DEF LinkManually
<1>6. ASSUME NEW p \in Callers, Commit(p) PROVE ReconciledIsBooked'
  <2>1. \A r \in Receipts : /\ Booked(r) \subseteq Booked(r)'
                            /\ job[p].receipt = r => Len(repayments) + 1 \in Booked(r)'
    BY <1>6, Adds, JobsAreTyped
  <2>2. CASE p \in Tellers
    BY <1>6, <2>1, <2>2 DEF Commit, ReconciledIsBooked
  <2>3. CASE p \notin Tellers
    <3>1. job[p].receipt \in Receipts
      BY <1>6, <2>3 DEF Commit, Typed, CallTyped
    <3>2. event' = [event EXCEPT ![job[p].receipt] = Reconciled(Len(repayments) + 1)]
      BY <1>6, <2>3 DEF Commit
    <3>3. /\ event'[job[p].receipt].status = "reconciled"
          /\ event'[job[p].receipt].repayment = Len(repayments) + 1
          /\ \A r \in Receipts \ {job[p].receipt} : event'[r] = event[r]
      BY <3>1, <3>2 DEF Typed, CollectionsTypeOK, Reconciled
    <3> QED
      BY <2>1, <3>1, <3>3 DEF ReconciledIsBooked
  <2> QED
    BY <2>2, <2>3
<1>7. ASSUME NEW p \in Callers, Ends(p) \/ Proceeds(p) \/ LockEvent(p)
      PROVE  UNCHANGED <<repayments, event>>
  BY <1>7, TypedEnd, TypedStatements, TypedLockEvent
  DEF Ends, Proceeds, Moves, bookVars
<1>8. CASE CollectionsNext
  BY <1>1, <1>2, <1>4, <1>5, <1>6, <1>7, <1>8, StepKinds
  DEF Submit, StartReconciliation, ChargePenalty, bookVars
<1> QED
  BY <1>1, <1>8 DEF vars, bookVars

(* Initially nothing is confirmed. *)
LEMMA ConfirmedInit == CollectionsInit => ConfirmedIsBooked
  BY DEF CollectionsInit, ConfirmedIsBooked

(* Rows that stay keep the promise for what was confirmed before. *)
LEMMA ConfirmedStep ==
    ASSUME Typed, CallInv, ConfirmedIsBooked, [CollectionsNext]_vars
    PROVE  ConfirmedIsBooked'
<1>1. CASE UNCHANGED <<repayments, confirmed>>
  BY <1>1 DEF ConfirmedIsBooked, Keyed, Booked
<1>2. ASSUME NEW p \in Callers, Commit(p) PROVE ConfirmedIsBooked'
  <2> DEFINE n == Len(repayments) + 1
  <2>1. /\ DOMAIN repayments' = (DOMAIN repayments) \union {n}
        /\ \A i \in DOMAIN repayments : repayments'[i] = repayments[i]
        /\ repayments'[n] = Row(p)
    BY <1>2, Adds
  <2>2. /\ Row(p).loan = job[p].loan /\ Row(p).amount = job[p].amount
        /\ Row(p).receipt = job[p].receipt /\ Row(p).key = job[p].key
    BY <1>2, RowType DEF Commit
  <2>3. confirmed' \subseteq confirmed \union ({job[p]} \intersect Submissions)
    BY <1>2 DEF Commit, Confirm
  <2> HIDE DEF n
  <2>4. ASSUME NEW s \in confirmed
        PROVE  \E i \in IF s.key # None THEN Keyed(s)' ELSE Booked(s.receipt)' :
                  repayments'[i].loan = s.loan /\ repayments'[i].amount = s.amount
    BY <2>1, <2>4 DEF ConfirmedIsBooked, Keyed, Booked
  <2>5. ASSUME job[p] \in Submissions
        PROVE  LET s == job[p] IN
               \E i \in IF s.key # None
                        THEN {x \in DOMAIN repayments' : s.key # None /\
                                 repayments'[x].key = s.key /\ repayments'[x].loan = s.loan}
                        ELSE {x \in DOMAIN repayments' : s.receipt # None /\
                                 repayments'[x].receipt = s.receipt} :
                  repayments'[i].loan = s.loan /\ repayments'[i].amount = s.amount
    BY <2>1, <2>2, <2>5, JobsAreTyped
  <2> QED
    BY <2>3, <2>4, <2>5 DEF ConfirmedIsBooked, Keyed, Booked
<1>3. ASSUME NEW p \in Callers, Replay(p) PROVE ConfirmedIsBooked'
  <2>1. UNCHANGED repayments
    BY <1>3 DEF Replay, bookVars
  <2>2. confirmed' \subseteq confirmed \union {job[p]}
    BY <1>3 DEF Replay, Confirm
  <2>3. job[p].key # None /\ \E i \in Keyed(job[p]) :
           repayments[i].loan = job[p].loan /\ repayments[i].amount = job[p].amount
    BY <1>3 DEF Replay, SameAmount, Keyed
  <2> QED
    BY <2>1, <2>2, <2>3 DEF ConfirmedIsBooked, Keyed, Booked
<1>4. ASSUME NEW p \in Callers, Ends(p) \/ Proceeds(p) \/ LockEvent(p) \/ Resolves(p)
      PROVE  UNCHANGED <<repayments, confirmed>> \/ Replay(p)
  BY <1>4
  DEF Ends, Proceeds, LockEvent, Resolves, FindDone, RollBack, Read, TakeKey,
      UpdateLoan, InsertRepayment, LinkExisting, RejectUnmatched, bookVars
<1>5. CASE CollectionsNext
  BY <1>1, <1>2, <1>3, <1>4, <1>5, StepKinds
  DEF Submit, Receive, LinkManually, StartReconciliation, ChargePenalty, bookVars
<1> QED
  BY <1>1, <1>5 DEF vars, bookVars

(* Initially nothing is booked. *)
LEMMA CreditInit == CollectionsInit => CreditAtPayoff
  BY DEF CollectionsInit, CreditAtPayoff

(* Every step keeps credits to loans that are paid off. *)
LEMMA CreditStep ==
    ASSUME Typed, CallInv, ChargesAdd, CreditAtPayoff, [CollectionsNext]_vars
    PROVE  CreditAtPayoff'
<1>1. CASE UNCHANGED <<balance, expected, repayments>>
  BY <1>1 DEF CreditAtPayoff
<1>2. ASSUME NEW p \in Callers, Commit(p) PROVE CreditAtPayoff'
  <2> DEFINE n == Len(repayments) + 1
  <2>1. /\ DOMAIN repayments' = (DOMAIN repayments) \union {n}
        /\ \A i \in DOMAIN repayments : repayments'[i] = repayments[i]
        /\ repayments'[n] = Row(p)
    BY <1>2, Adds
  <2> HIDE DEF n
  <2>2. /\ Row(p).loan = job[p].loan /\ Row(p).amount = job[p].amount
        /\ Row(p).applied = Applied(p) /\ job[p].loan \in Loans
        /\ job[p].amount \in Nat \ {0} /\ seen[p] \in Nat \ {0}
        /\ Applied(p) \in Nat \ {0} /\ Applied(p) <= job[p].amount
        /\ Applied(p) = job[p].amount \/ Applied(p) = seen[p]
        /\ pc[p] = "marking"
    BY <1>2, RowType DEF Commit
  <2>3. /\ balance' = [balance EXCEPT ![job[p].loan] =
                          IF @ <= Applied(p) THEN 0 ELSE @ - Applied(p)]
        /\ UNCHANGED expected
    BY <1>2 DEF Commit
  <2>4. balance[job[p].loan] \in Nat /\ Applied(p) <= balance[job[p].loan]
    BY <2>2 DEF Typed, CollectionsTypeOK, CallInv, CallBooks
  <2>5. ASSUME NEW i \in DOMAIN repayments,
               repayments[i].amount > repayments[i].applied,
               expected[repayments[i].loan] = Principal[repayments[i].loan]
        PROVE  balance'[repayments[i].loan] = 0
    <3>1. balance[repayments[i].loan] = 0
      BY <2>5 DEF CreditAtPayoff
    <3>2. repayments[i].loan # job[p].loan
      BY <2>2, <2>4, <3>1
    <3> QED
      BY <2>3, <3>1, <3>2 DEF Typed, CollectionsTypeOK
  <2>6. ASSUME Row(p).amount > Row(p).applied,
               expected[job[p].loan] = Principal[job[p].loan]
        PROVE  balance'[job[p].loan] = 0
    <3>1. Applied(p) = seen[p]
      BY <2>2, <2>6
    <3>2. balance[job[p].loan] <= seen[p]
      BY <2>2, <2>6 DEF CallInv, CallBooks, InTransaction
    <3>3. balance[job[p].loan] <= Applied(p)
      BY <3>1, <3>2
    <3> QED
      BY <2>2, <2>3, <3>3 DEF Typed, CollectionsTypeOK
  <2> QED
    BY <2>1, <2>2, <2>3, <2>5, <2>6 DEF CreditAtPayoff
<1>3. ASSUME NEW l \in Loans, ChargePenalty(l) PROVE CreditAtPayoff'
  <2>1. /\ UNCHANGED repayments
        /\ balance' = [balance EXCEPT ![l] = @ + 1]
        /\ expected' = [expected EXCEPT ![l] = @ + 1]
    BY <1>3 DEF ChargePenalty
  <2>2. expected'[l] # Principal[l]
    BY <2>1, CollectionsAssumption DEF ChargesAdd, Typed, CollectionsTypeOK
  <2>3. ASSUME NEW i \in DOMAIN repayments PROVE repayments[i].loan \in Loans
    <3>1. repayments[i] \in Rows
      BY <2>3, ElementOfSeq DEF Typed, CollectionsTypeOK
    <3> QED
      BY <3>1 DEF Rows
  <2> QED
    BY <2>1, <2>2, <2>3 DEF CreditAtPayoff, Typed, CollectionsTypeOK
<1>4. ASSUME NEW p \in Callers, Ends(p) \/ Proceeds(p) \/ LockEvent(p) \/ Resolves(p)
      PROVE  UNCHANGED <<balance, expected, repayments>>
  BY <1>4
  DEF Ends, Proceeds, LockEvent, Resolves, FindDone, Replay, RollBack, Read, TakeKey,
      UpdateLoan, InsertRepayment, LinkExisting, RejectUnmatched, bookVars
<1>5. CASE CollectionsNext
  BY <1>1, <1>2, <1>3, <1>4, <1>5, StepKinds
  DEF Submit, Receive, LinkManually, StartReconciliation, bookVars
<1> QED
  BY <1>1, <1>5 DEF vars, bookVars

-----------------------------------------------------------------------------
(* The theorems *)

(* The invariant all theorems rest on. *)
Inv == /\ Typed /\ CallInv /\ ChargesAdd
       /\ ReconciledIsBooked /\ ConfirmedIsBooked /\ CreditAtPayoff

(* It holds initially. *)
LEMMA InvInit == CollectionsInit => Inv
<1>1. CollectionsInit => ChargesAdd
  <2> SUFFICES ASSUME CollectionsInit, NEW l \in Loans
               PROVE  expected[l] >= Principal[l]
    BY DEF ChargesAdd
  <2>1. expected[l] = Principal[l] /\ Principal[l] \in Nat
    BY CollectionsAssumption DEF CollectionsInit
  <2> QED
    BY <2>1
<1> QED
  BY <1>1, TypedInit, CallInit, ReconciledInit, ConfirmedInit, CreditInit DEF Inv

(* Every step keeps it. *)
LEMMA InvStep == Inv /\ [CollectionsNext]_vars => Inv'
  BY TypedStep, CallStep, ChargesStep, ReconciledStep, ConfirmedStep, CreditStep
  DEF Inv

(* It holds always. *)
LEMMA InvAlways == CollectionsSpec => []Inv
  BY InvInit, InvStep, PTL DEF CollectionsSpec

(* Whoever reconciles an event, webhook or desk, by a repayment of its
   own or one that was there, the event names a repayment of its receipt. *)
THEOREM ReconciledEventsAreBooked == CollectionsSpec => []ReconciledIsBooked
<1>1. Inv => ReconciledIsBooked
  BY DEF Inv
<1> QED
  BY <1>1, InvAlways, PTL

(* A submission that was answered with success, the first time or when
   it was repeated, is booked with its amount on its loan. *)
THEOREM ConfirmedSubmissionsAreBooked == CollectionsSpec => []ConfirmedIsBooked
<1>1. Inv => ConfirmedIsBooked
  BY DEF Inv
<1> QED
  BY <1>1, InvAlways, PTL

(* However many repayments of a loan overlap, one leaves a credit only
   when it pays the loan off, as long as no penalty was charged. *)
THEOREM CreditsPayOff == CollectionsSpec => []CreditAtPayoff
<1>1. Inv => CreditAtPayoff
  BY DEF Inv
<1> QED
  BY <1>1, InvAlways, PTL

-----------------------------------------------------------------------------
(* The ledger's promise *)

(* The ledger's variables, as the callers' books give them. *)
BookedReceipts == {r \in Receipts : Booked(r) # {}}
BookedKeys == {x \in Loans \X Keys : Keyed([loan |-> x[1], key |-> x[2]]) # {}}
Settled == {r \in Receipts : event[r].status = "reconciled"}

(* Nothing changes in the ledger. *)
Same == UNCHANGED <<balance, repaid, BookedReceipts, BookedKeys, Settled>>

(* Books that stay the same are the same ledger. *)
LEMMA SameBooks ==
    ASSUME UNCHANGED <<repayments>>
    PROVE  UNCHANGED <<BookedReceipts, BookedKeys>>
  BY DEF BookedReceipts, BookedKeys, Booked, Keyed

(* A key is booked exactly when a row has it. *)
LEMMA KeysAreKeyed ==
    BookedKeys = {x \in Loans \X Keys : KeyedBy(x[1], x[2]) # {}}
  BY DEF BookedKeys, Keyed, KeyedBy

(* A commit is the ledger's Book. *)
LEMMA MapCommit ==
    ASSUME Inv, NEW p \in Callers, Commit(p)
    PROVE  Ledger!Next
<1> DEFINE l == job[p].loan
           a == job[p].amount
           r == job[p].receipt
           k == job[p].key
           rs == IF r = None THEN {} ELSE {r}
           ks == IF k = None THEN {} ELSE {<<l, k>>}
<1>0. Typed /\ CallInv /\ CallBooks(p) /\ CallTyped(p) /\ pc[p] = "marking"
  BY DEF Inv, CallInv, Typed, Commit
<1>1. /\ job[p] \in Jobs /\ l \in Loans /\ a \in Nat \ {0}
      /\ Applied(p) \in Nat \ {0} /\ Applied(p) <= a
  BY <1>0, RowType
<1>2. r \in Receipts \union {None} /\ k \in Keys \union {None}
  BY <1>1 DEF Jobs
<1>3. /\ p \in Tellers => job[p] \in Submissions
      /\ p \notin Tellers => r \in Receipts /\ k = None /\ a = AmountOf[r]
  BY <1>0 DEF CallTyped
<1>4. rs # {} \/ ks # {}
  BY <1>3, JobsAreTyped
<1>5. a \in {s.amount : s \in Submissions} \union {AmountOf[x] : x \in Receipts}
  BY <1>3
<1>6. rs \in Ledger!AtMostOne(Receipts) /\ ks \in Ledger!AtMostOne(Loans \X Keys)
  BY <1>1, <1>2 DEF Ledger!AtMostOne
<1>7. Booked(r) = {} /\ Keyed(job[p]) = {}
  BY <1>0 DEF CallBooks
<1>8. rs \intersect BookedReceipts = {}
  BY <1>7 DEF BookedReceipts
<1>9. ks \intersect BookedKeys = {}
  BY <1>7, KeysAreKeyed DEF Keyed, KeyedBy
<1>10. BookedReceipts' = BookedReceipts \union rs
  <2>1. \A x : Booked(x)' = Booked(x) \union
                   (IF x # None /\ r = x THEN {Len(repayments) + 1} ELSE {})
    BY <1>0, Adds
  <2> QED
    BY <1>2, <2>1 DEF BookedReceipts
<1>11. BookedKeys' = BookedKeys \union ks
  <2>1. \A x, y : KeyedBy(x, y)' = KeyedBy(x, y) \union
                   (IF y # None /\ l = x /\ k = y THEN {Len(repayments) + 1} ELSE {})
    BY <1>0, Adds
  <2>2. BookedKeys' = {x \in Loans \X Keys : KeyedBy(x[1], x[2])' # {}}
    BY KeysAreKeyed DEF BookedKeys, Keyed, KeyedBy
  <2>3. \A x \in Loans \X Keys : x[2] # None
    BY CollectionsAssumption
  <2>4. BookedKeys = {x \in Loans \X Keys : KeyedBy(x[1], x[2]) # {}}
    BY KeysAreKeyed
  <2>5. \A x \in Loans \X Keys :
           KeyedBy(x[1], x[2])' # {} <=>
              KeyedBy(x[1], x[2]) # {} \/ (l = x[1] /\ k = x[2])
    <3> TAKE x \in Loans \X Keys
    <3>1. KeyedBy(x[1], x[2])' = KeyedBy(x[1], x[2]) \union
              (IF x[2] # None /\ l = x[1] /\ k = x[2]
               THEN {Len(repayments) + 1} ELSE {})
      BY <2>1
    <3>2. x[2] # None
      BY <2>3
    <3> HIDE DEF l, k
    <3>3. CASE l = x[1] /\ k = x[2]
      BY <3>1, <3>2, <3>3
    <3>4. CASE ~(l = x[1] /\ k = x[2])
      BY <3>1, <3>4
    <3> QED
      BY <3>3, <3>4
  <2>6. \A x \in Loans \X Keys : (l = x[1] /\ k = x[2]) <=> x \in ks
    <3> TAKE x \in Loans \X Keys
    <3>1. x = <<x[1], x[2]>> /\ x[2] # None
      BY <2>3
    <3>2. ks = IF k = None THEN {} ELSE {<<l, k>>}
      OBVIOUS
    <3> HIDE DEF l, k, ks
    <3> QED
      BY <3>1, <3>2
  <2>7. ks \subseteq Loans \X Keys
    BY <1>6 DEF Ledger!AtMostOne
  <2> HIDE DEF l, k, ks
  <2> QED
    BY <2>2, <2>4, <2>5, <2>6, <2>7
<1>12. Settled' = Settled \/ Settled' = Settled \union rs
  <2>1. CASE p \in Tellers
    BY <2>1 DEF Commit, Settled
  <2>2. CASE p \notin Tellers
    <3>1. event' = [event EXCEPT ![r] = Reconciled(Len(repayments) + 1)]
      BY <2>2 DEF Commit
    <3>2. r \in Receipts /\ r # None
      BY <1>3, <2>2, CollectionsAssumption
    <3>3. \A x \in Receipts : event'[x].status = IF x = r THEN "reconciled"
                                                 ELSE event[x].status
      BY <1>0, <3>1, <3>2 DEF Typed, CollectionsTypeOK, Reconciled
    <3>4. Settled' = Settled \union {r}
      BY <3>2, <3>3 DEF Settled
    <3> QED
      BY <3>2, <3>4
  <2> QED
    BY <2>1, <2>2
<1>13. \E applied \in 1..a :
          /\ applied <= balance[l]
          /\ balance' = [balance EXCEPT ![l] = @ - applied]
          /\ repaid' = [repaid EXCEPT ![l] = @ + applied]
  <2>1. Applied(p) \in 1..a
    BY <1>1
  <2>2. balance[l] \in Nat /\ Applied(p) <= balance[l]
    BY <1>0, <1>1 DEF CallBooks, Typed, CollectionsTypeOK
  <2>3. /\ balance' = [balance EXCEPT ![l] =
                          IF @ <= Applied(p) THEN 0 ELSE @ - Applied(p)]
        /\ repaid' = [repaid EXCEPT ![l] = @ + Applied(p)]
    BY DEF Commit
  <2>4. balance' = [balance EXCEPT ![l] = @ - Applied(p)]
    <3>1. (IF balance[l] <= Applied(p) THEN 0 ELSE balance[l] - Applied(p))
             = balance[l] - Applied(p)
      BY <1>1, <2>2
    <3> QED
      BY <2>3, <3>1
  <2> QED
    BY <2>1, <2>2, <2>3, <2>4
<1> HIDE DEF l, a, r, k, rs, ks
<1>14. Ledger!Book(l, a, rs, ks)
  BY <1>4, <1>8, <1>9, <1>10, <1>11, <1>12, <1>13
  DEF Ledger!Book, BookedReceipts, BookedKeys, Settled
<1>15. \E l_ \in Loans,
          a_ \in {s.amount : s \in Submissions} \union
                  {AmountOf[x] : x \in Receipts},
          rs_ \in Ledger!AtMostOne(Receipts),
          ks_ \in Ledger!AtMostOne(Loans \X Keys) : Ledger!Book(l_, a_, rs_, ks_)
  BY <1>1, <1>5, <1>6, <1>14 DEF Ledger!Book
<1> QED
  BY <1>15 DEF Ledger!Next

(* A reconciliation without a new repayment settles a booked receipt. *)
LEMMA MapSettle ==
    ASSUME NEW r \in Receipts, EventMoves(r), event \in [Receipts -> Events],
           Booked(r) # {}, event'[r] = Reconciled(RowFor(r))
    PROVE  Ledger!Next
<1>1. Settled' = Settled \union {r}
  BY DEF EventMoves, Settled, Reconciled
<1>2. UNCHANGED <<balance, repaid, BookedReceipts, BookedKeys>>
  BY SameBooks DEF EventMoves
<1>3. r \in BookedReceipts
  BY DEF BookedReceipts
<1>4. Ledger!Settle(r)
  BY <1>1, <1>2, <1>3 DEF Ledger!Settle, BookedReceipts, BookedKeys, Settled
<1> QED
  BY <1>4 DEF Ledger!Next

(* A penalty is the ledger's Charge. *)
LEMMA MapCharge ==
    ASSUME NEW l \in Loans, ChargePenalty(l)
    PROVE  Ledger!Next
<1>1. /\ UNCHANGED <<repaid, repayments, event>> /\ balance[l] > 0
      /\ balance' = [balance EXCEPT ![l] = @ + 1]
  BY DEF ChargePenalty, Collectible
<1>2. UNCHANGED <<BookedReceipts, BookedKeys, Settled>>
  BY <1>1, SameBooks DEF Settled
<1>3. Ledger!Charge(l)
  BY <1>1, <1>2 DEF Ledger!Charge, BookedReceipts, BookedKeys, Settled
<1> QED
  BY <1>3 DEF Ledger!Next

(* What changes nothing in the ledger is a stutter of it. *)
LEMMA MapSame == ASSUME Same PROVE UNCHANGED Ledger!vars
  BY DEF Same, Ledger!vars, BookedReceipts, BookedKeys, Settled

(* Every step is a step of the ledger or a stutter. *)
LEMMA MapStep ==
    ASSUME Inv, [CollectionsNext]_vars
    PROVE  [Ledger!Next]_(Ledger!vars)
<1>0. Typed
  BY DEF Inv
<1>1. ASSUME UNCHANGED bookVars PROVE UNCHANGED Ledger!vars
  <2>1. UNCHANGED <<balance, repaid, repayments, event>>
    BY <1>1 DEF bookVars
  <2>2. Same
    BY <2>1, SameBooks DEF Same, Settled
  <2> QED
    BY <2>2, MapSame
<1>2. ASSUME NEW w \in Webhooks, NEW r \in Receipts, Receive(w, r)
      PROVE  UNCHANGED Ledger!vars
  <2>1. /\ EventMoves(r)
        /\ event'[r].status = "reconciled" <=> event[r].status = "reconciled"
    BY <1>0, <1>2, TypedReceive
  <2>2. UNCHANGED Settled
    BY <2>1 DEF Settled, EventMoves
  <2>3. Same
    BY <2>1, <2>2, SameBooks DEF Same, EventMoves
  <2> QED
    BY <2>3, MapSame
<1>3. ASSUME NEW w \in Callers, Resolves(w)
      PROVE  Ledger!Next \/ UNCHANGED Ledger!vars
  <2>1. /\ EventMoves(job[w].receipt) /\ job[w].receipt \in Receipts
        /\ event \in [Receipts -> Events]
    BY <1>0, <1>3, TypedResolve DEF Resolves, Typed, CollectionsTypeOK
  <2>2. CASE LinkExisting(w)
    BY <2>1, <2>2, MapSettle DEF LinkExisting
  <2>3. CASE RejectUnmatched(w)
    <3>1. event' = [event EXCEPT ![job[w].receipt].status = "rejected"]
          /\ event[job[w].receipt].status = "received"
      BY <2>3 DEF RejectUnmatched
    <3>2. event'[job[w].receipt].status = "rejected"
      BY <2>1, <3>1 DEF Events
    <3>3. UNCHANGED Settled
      BY <2>1, <3>1, <3>2 DEF Settled, EventMoves
    <3>4. Same
      BY <2>1, <3>3, SameBooks DEF Same, EventMoves
    <3> QED
      BY <3>4, MapSame
  <2> QED
    BY <1>3, <2>2, <2>3 DEF Resolves
<1>4. ASSUME NEW o \in Operators, NEW r \in Receipts, LinkManually(o, r)
      PROVE  Ledger!Next
  <2>1. EventMoves(r) /\ event \in [Receipts -> Events]
    BY <1>0, <1>4, TypedLinkManually DEF Typed, CollectionsTypeOK
  <2> QED
    BY <1>4, <2>1, MapSettle DEF LinkManually
<1>5. ASSUME NEW p \in Callers, Ends(p) \/ Proceeds(p) \/ LockEvent(p)
      PROVE  UNCHANGED bookVars
  BY <1>0, <1>5, TypedEnd, TypedStatements, TypedLockEvent
  DEF Ends, Proceeds, Moves
<1>6. CASE UNCHANGED vars
  BY <1>1, <1>6 DEF vars
<1>7. CASE CollectionsNext
  BY <1>1, <1>2, <1>3, <1>4, <1>5, <1>7, StepKinds, MapCommit, MapCharge
  DEF Submit, StartReconciliation
<1> QED
  BY <1>6, <1>7

(* The callers implement the ledger: a receipt or a key is booked at
   most once, reduces its loan by what is applied and no more than it owes,
   and what is settled is booked and stays settled. *)
THEOREM CollectionsBookOnce == CollectionsSpec => BooksOnce
<1>1. CollectionsInit => Ledger!Init
  BY DEF CollectionsInit, Ledger!Init, Booked, Keyed, NoEvent
<1> QED
  BY <1>1, MapStep, InvAlways, PTL DEF BooksOnce, Ledger!LedgerSpec, CollectionsSpec

-----------------------------------------------------------------------------
(* Circles of waits *)

(* Who waits for whom, by the statements they are at: upwards, but for a desk
   at its last statement. *)
LEMMA WaitsGoUp ==
    ASSUME NEW p \in Callers, NEW q \in Callers, WaitsFor(p, q),
           ~(p \in Operators /\ q \in Webhooks)
    PROVE  \/ pc[p] = "locking" /\ pc[q] \in {"reading", "updating", "inserting", "marking"}
           \/ pc[p] = "keying" /\ pc[q] \in {"updating", "inserting", "marking"}
           \/ pc[p] = "updating" /\ pc[q] \in {"inserting", "marking"}
           \/ pc[p] = "inserting" /\ pc[q] = "marking"
  BY DEF WaitsFor, HasEvent, HasKey, HasLoan, HasReceipt

(* Whoever waits is at a statement that takes a lock. *)
LEMMA WhereToWait ==
    ASSUME NEW p, NEW q, WaitsFor(p, q)
    PROVE  pc[p] \in {"locking", "keying", "updating", "inserting", "marking"}
  BY DEF WaitsFor

(* A circle of waits, of any length and among any number of callers, has a desk
   in it that waits for a webhook; this is so in every state, by the order in
   which the statements of a call take its locks. *)
LEMMA CirclesNeedADesk == OnlyDesksDeadlock
<1> SUFFICES ASSUME NEW circle \in SUBSET {p \in Callers : Waits(p)},
                    circle # {},
                    \A p \in circle : \E q \in circle : WaitsFor(p, q),
                    \A o \in circle \intersect Operators,
                       w \in circle \intersect Webhooks : ~WaitsFor(o, w)
             PROVE  FALSE
  BY DEF OnlyDesksDeadlock
<1>1. \A p \in circle :
         /\ p \in Callers
         /\ pc[p] \in {"locking", "keying", "updating", "inserting", "marking"}
         /\ \E q \in circle :
               \/ pc[p] = "locking"
                     /\ pc[q] \in {"reading", "updating", "inserting", "marking"}
               \/ pc[p] = "keying" /\ pc[q] \in {"updating", "inserting", "marking"}
               \/ pc[p] = "updating" /\ pc[q] \in {"inserting", "marking"}
               \/ pc[p] = "inserting" /\ pc[q] = "marking"
  BY WaitsGoUp, WhereToWait
<1>2. \A p \in circle : pc[p] # "marking"
  BY <1>1
<1>3. \A p \in circle : pc[p] # "inserting"
  BY <1>1, <1>2
<1>4. \A p \in circle : pc[p] # "updating"
  BY <1>1, <1>2, <1>3
<1>5. \A p \in circle : pc[p] # "keying"
  BY <1>1, <1>2, <1>3, <1>4
<1> QED
  BY <1>1, <1>2, <1>3, <1>4, <1>5

(* In every deadlock a desk waits for a webhook: tellers and webhooks by
   themselves never wait for each other in a circle. *)
THEOREM OnlyDesksMeetInDeadlock == CollectionsSpec => []OnlyDesksDeadlock
  BY CirclesNeedADesk, PTL

=============================================================================
