------------------------ MODULE LoanLifecycle_Proofs ------------------------
(***************************************************************************)
(* Proofs about LoanLifecycle, for every set of loans, callers and staff.  *)
(* The inductive invariant ties what a call in flight has read to what the *)
(* database holds: tranches only accumulate, so a sum read earlier is a    *)
(* lower bound of the sum at the commit.                                   *)
(***************************************************************************)
EXTENDS LoanLifecycle, FiniteSetTheorems, TLAPS

(* What a resolved request can look like. *)
LEMMA ResolutionBounds ==
    ASSUME NEW remaining \in Int, remaining > 0,
           NEW ask \in Nat,
           NEW r \in Resolutions(remaining, ask)
    PROVE  /\ r = [amount |-> r.amount, final |-> r.final]
           /\ r.amount \in Nat
           /\ r.amount > 0
           /\ r.amount <= remaining + 1
           /\ r.final \in BOOLEAN
           /\ r.final => r.amount >= remaining - 1
           /\ ask = Remaining => r.final
  BY DEF Resolutions, Remaining

(* Sizing a request sets what was read and resolved, and nothing else. *)
LEMMA SizedCall ==
    ASSUME NEW request \in Call, NEW sum \in Nat,
           NEW r, r.amount \in Nat, r.final \in BOOLEAN
    PROVE  /\ Sized(request, sum, r) \in Call
           /\ Sized(request, sum, r).loan = request.loan
           /\ Sized(request, sum, r).ask = request.ask
           /\ Sized(request, sum, r).seen = sum
           /\ Sized(request, sum, r).amount = r.amount
           /\ Sized(request, sum, r).final = r.final
  BY DEF Sized, Call

-----------------------------------------------------------------------------
(* Types *)

(* The initial states are typed. *)
LEMMA TypeInit == Init => TypeOK
  BY ConstantsAssumption
  DEF Init, TypeOK, LoanStatus, PC, Call, CallTyped, NoCall, Request, Idle, Remaining

(* Applications and decisions keep the types. *)
LEMMA TypeDecide == TypeOK /\ Decide => TypeOK'
<1> SUFFICES ASSUME TypeOK, Decide PROVE TypeOK'
  OBVIOUS
<1> USE ConstantsAssumption
    DEF TypeOK, CallTyped, LoanStatus, Request, moneyVars, callVars, loanVars
<1>1. ASSUME NEW l \in Loans, CreateLoan(l) PROVE TypeOK'
  BY <1>1 DEF CreateLoan
<1>2. ASSUME NEW u \in Staff, NEW l \in Loans, NEW op \in {"approve", "reject"},
             ReadForDecision(u, l, op)
      PROVE  TypeOK'
  BY <1>2 DEF ReadForDecision
<1>3. ASSUME NEW u \in Staff, ApproveLoan(u) PROVE TypeOK'
  <2>1. deciding[u].loan \in Loans
    BY <1>3 DEF ApproveLoan, Idle
  <2> QED
    BY <1>3, <2>1 DEF ApproveLoan
<1>4. ASSUME NEW u \in Staff, RejectLoan(u) PROVE TypeOK'
  <2>1. deciding[u].loan \in Loans
    BY <1>4 DEF RejectLoan, Idle
  <2> QED
    BY <1>4, <2>1 DEF RejectLoan
<1> QED
  BY <1>1, <1>2, <1>3, <1>4 DEF Decide

(* Numbering a tranche sets the number, and nothing else. *)
LEMMA NumberedCall ==
    ASSUME NEW r \in Call, NEW n \in Nat
    PROVE  [r EXCEPT !.number = n] \in Call
  BY DEF Call

(* A disbursement's steps keep the types. *)
LEMMA TypeDisburseStep ==
    ASSUME TypeOK, NEW c \in Callers, DisburseStep(c)
    PROVE  TypeOK'
<1> USE ConstantsAssumption
    DEF TypeOK, CallTyped, PC, Call, moneyVars, callVars, loanVars, LoanStatus
<1> DEFINE l == call[c].loan
<1>1. CASE SizeDisbursement(c)
  <2>1. /\ l \in Loans
        /\ RemainingOf(l) \in Int
        /\ RemainingOf(l) > 0
        /\ call[c].ask \in Nat
    BY <1>1 DEF SizeDisbursement, RemainingOf, SomethingRemains, Remaining
  <2>2. PICK r \in Resolutions(RemainingOf(l), call[c].ask) :
          call' = [call EXCEPT ![c] = Sized(@, disbursed[l], r)]
    BY <1>1 DEF SizeDisbursement
  <2>3. r.amount \in Nat /\ r.amount > 0 /\ r.final \in BOOLEAN
    BY <2>1, ResolutionBounds
  <2> DEFINE new == Sized(call[c], disbursed[l], r)
  <2>4. new \in Call /\ new.loan = l /\ new.amount = r.amount
    <3>1. call[c] \in Call /\ disbursed[l] \in Nat
      BY <2>1
    <3> HIDE DEF Call, TypeOK
    <3> QED
      BY <2>3, <3>1, SizedCall
  <2>5. /\ pc' = [pc EXCEPT ![c] = "sized"]
        /\ UNCHANGED <<loanVars, deciding, moneyVars, faults>>
    BY <1>1 DEF SizeDisbursement
  <2>6. \A d \in Callers : CallTyped(d)'
    BY <2>1, <2>2, <2>3, <2>4, <2>5
  <2> QED
    BY <2>2, <2>4, <2>5, <2>6
<1>2. CASE RefuseDisbursement(c)
  BY <1>2 DEF RefuseDisbursement, Goto
<1>3. CASE NumberTranche(c)
  <2>1. l \in Loans /\ tranches[l] + 1 \in Nat /\ tranches[l] + 1 > 0
    BY <1>3 DEF NumberTranche
  <2>2. call' \in [Callers -> Call]
    <3>1. call \in [Callers -> Call]
      OBVIOUS
    <3>2. call' = [call EXCEPT ![c] = [@ EXCEPT !.number = tranches[l] + 1]]
      BY <1>3 DEF NumberTranche
    <3> HIDE DEF TypeOK, CallTyped, Call, PC, LoanStatus
    <3> QED
      BY <2>1, <3>1, <3>2, NumberedCall
  <2> QED
    BY <1>3, <2>1, <2>2 DEF NumberTranche
<1>4. CASE CommitTranche(c)
  BY <1>4 DEF CommitTranche, AppendTranche, Goto
<1>5. CASE CommitFinal(c)
  BY <1>5 DEF CommitFinal, AppendTranche, Goto
<1>6. CASE LoseToOther(c)
  BY <1>6 DEF LoseToOther, Goto
<1>7. CASE Answer(c)
  BY <1>7 DEF Answer, Goto
<1>8. CASE Recheck(c)
  BY <1>8 DEF Recheck, Goto
<1> QED
  BY <1>1, <1>2, <1>3, <1>4, <1>5, <1>6, <1>7, <1>8 DEF DisburseStep

(* So does its first look, *)
LEMMA TypeStartDisburse ==
    ASSUME TypeOK, NEW c \in Callers, NEW l \in Loans,
           NEW ask \in Amounts \union {Remaining}, NEW inScope \in BOOLEAN,
           StartDisburse(c, l, ask, inScope)
    PROVE  TypeOK'
<1>1. FirstLook(l, inScope) \in {"failed", "ok", "checked"}
  BY DEF FirstLook
<1>2. [NoCall EXCEPT !.loan = l, !.ask = ask] \in Call
  BY DEF NoCall, Call
<1> QED
  BY <1>1, <1>2
  DEF StartDisburse, TypeOK, CallTyped, PC, NoCall, moneyVars, loanVars

(* its failure and its end, *)
LEMMA TypeFailAndReturn ==
    ASSUME TypeOK, NEW c \in Callers, FailDisbursement(c) \/ Return(c)
    PROVE  TypeOK'
<1> USE ConstantsAssumption
    DEF TypeOK, CallTyped, PC, Call, NoCall, Remaining, moneyVars, loanVars
<1>1. CASE FailDisbursement(c)
  BY <1>1 DEF FailDisbursement, Goto
<1>2. CASE Return(c)
  BY <1>2 DEF Return, Reset
<1> QED
  BY <1>1, <1>2

(* and a crash. *)
LEMMA TypeForgetRequests ==
    ASSUME TypeOK, ForgetRequests, UNCHANGED <<loanVars, moneyVars>>
    PROVE  TypeOK'
  BY ConstantsAssumption
  DEF ForgetRequests, TypeOK, CallTyped, PC, Call, NoCall, Idle, Remaining,
      moneyVars, loanVars

(* Every way a step may touch the loans and the calls, in scope or not.  The
   steps of Next are among them, and so are those of a module built on top. *)
LifecycleStep ==
    \/ Decide
    \/ \E c \in Callers, l \in Loans, ask \in Amounts \union {Remaining},
          inScope \in BOOLEAN : StartDisburse(c, l, ask, inScope)
    \/ \E c \in Callers : DisburseStep(c)
    \/ \E c \in Callers : FailDisbursement(c) \/ Return(c)
    \/ ForgetRequests /\ UNCHANGED <<loanVars, moneyVars>>

(* The specification's own steps are among them. *)
LEMMA NextIsLifecycleStep == Next => LifecycleStep
  BY DEF Next, LifecycleStep, Crash

(* Every step keeps the types. *)
LEMMA TypeNext == TypeOK /\ [LifecycleStep]_lifecycleVars => TypeOK'
<1> SUFFICES ASSUME TypeOK, [LifecycleStep]_lifecycleVars PROVE TypeOK'
  OBVIOUS
<1>1. CASE UNCHANGED lifecycleVars
  BY <1>1 DEF lifecycleVars, TypeOK, CallTyped
<1>2. CASE LifecycleStep
  BY <1>2, TypeDecide, TypeStartDisburse, TypeDisburseStep, TypeFailAndReturn,
     TypeForgetRequests DEF LifecycleStep
<1> QED
  BY <1>1, <1>2

(* Every reachable state is typed. *)
THEOREM TypeCorrect == Spec => []TypeOK
<1>1. TypeOK /\ [Next]_lifecycleVars => TypeOK'
  BY TypeNext, NextIsLifecycleStep
<1> QED
  BY TypeInit, <1>1, PTL DEF Spec

-----------------------------------------------------------------------------
(* The principal behind an active loan *)

(* What a call in flight read still bounds what the database holds. *)
SnapshotHolds(c) ==
    pc[c] \in {"sized", "numbered"} =>
        /\ call[c].seen <= disbursed[call[c].loan]
        /\ call[c].final =>
              call[c].seen + call[c].amount >= Principal[call[c].loan] - 1
        /\ call[c].ask = Remaining => call[c].final

FundedInv == ActiveImpliesFunded /\ \A c \in Callers : SnapshotHolds(c)

(* A disbursement adds to what is out, and activates only on a sum that
   covers the principal. *)
LEMMA FundedDisburseStep ==
    ASSUME TypeOK, TypeOK', FundedInv, NEW c \in Callers, DisburseStep(c)
    PROVE  FundedInv'
<1> USE ConstantsAssumption
    DEF TypeOK, CallTyped, FundedInv, SnapshotHolds, ActiveImpliesFunded,
        moneyVars, loanVars
<1> DEFINE l == call[c].loan
<1>1. CASE SizeDisbursement(c)
  <2>1. /\ l \in Loans
        /\ RemainingOf(l) \in Int
        /\ RemainingOf(l) > 0
        /\ call[c].ask \in Nat
    BY <1>1 DEF SizeDisbursement, RemainingOf, SomethingRemains, Remaining, Call
  <2>2. PICK r \in Resolutions(RemainingOf(l), call[c].ask) :
          call' = [call EXCEPT ![c] = Sized(@, disbursed[l], r)]
    BY <1>1 DEF SizeDisbursement
  <2>3. /\ r.amount \in Nat
        /\ r.final \in BOOLEAN
        /\ r.final => r.amount >= RemainingOf(l) - 1
        /\ call[c].ask = Remaining => r.final
    BY <2>1, ResolutionBounds
  <2>4. /\ call'[c].loan = l
        /\ call'[c].ask = call[c].ask
        /\ call'[c].seen = disbursed[l]
        /\ call'[c].amount = r.amount
        /\ call'[c].final = r.final
    <3>1. call[c] \in Call /\ disbursed[l] \in Nat
      BY <2>1
    <3>2. call'[c] = Sized(call[c], disbursed[l], r)
      BY <2>2
    <3> HIDE DEF TypeOK
    <3>3. Sized(call[c], disbursed[l], r).loan = l
      BY <2>3, <3>1, SizedCall
    <3>4. Sized(call[c], disbursed[l], r).ask = call[c].ask
      BY <2>3, <3>1, SizedCall
    <3>5. Sized(call[c], disbursed[l], r).seen = disbursed[l]
      BY <2>3, <3>1, SizedCall
    <3>6. Sized(call[c], disbursed[l], r).amount = r.amount
      BY <2>3, <3>1, SizedCall
    <3>7. Sized(call[c], disbursed[l], r).final = r.final
      BY <2>3, <3>1, SizedCall
    <3> QED
      BY <3>2, <3>3, <3>4, <3>5, <3>6, <3>7
  <2>5. UNCHANGED <<status, disbursed>>
    BY <1>1 DEF SizeDisbursement
  <2>6. SnapshotHolds(c)'
    BY <2>1, <2>3, <2>4, <2>5 DEF RemainingOf
  <2>7. ASSUME NEW d \in Callers, d # c PROVE SnapshotHolds(d)'
    BY <1>1, <2>2, <2>5, <2>7 DEF SizeDisbursement
  <2> QED
    BY <2>5, <2>6, <2>7
<1>2. CASE RefuseDisbursement(c)
  BY <1>2 DEF RefuseDisbursement, Goto
<1>3. CASE NumberTranche(c)
  BY <1>3 DEF NumberTranche, Call
<1>4. CASE CommitTranche(c) \/ CommitFinal(c)
  <2>1. /\ l \in Loans
        /\ call[c].amount \in Nat
        /\ disbursed' = [disbursed EXCEPT ![l] = @ + call[c].amount]
        /\ pc' = [pc EXCEPT ![c] = "committed"]
        /\ call' = call
    BY <1>4 DEF CommitTranche, CommitFinal, AppendTranche, Goto, Call
  <2>2. \A d \in Callers : SnapshotHolds(d)'
    BY <2>1 DEF Call
  <2>3. ActiveImpliesFunded'
    <3>1. CASE CommitTranche(c)
      BY <2>1, <3>1 DEF CommitTranche
    <3>2. CASE CommitFinal(c)
      BY <2>1, <3>2 DEF CommitFinal, Call
    <3> QED
      BY <1>4, <3>1, <3>2
  <2> QED
    BY <2>2, <2>3
<1>5. CASE LoseToOther(c)
  BY <1>5 DEF LoseToOther, Goto
<1>6. CASE Answer(c)
  BY <1>6 DEF Answer, Goto
<1>7. CASE Recheck(c)
  BY <1>7 DEF Recheck, Goto
<1> QED
  BY <1>1, <1>2, <1>3, <1>4, <1>5, <1>6, <1>7 DEF DisburseStep

(* Every step keeps FundedInv. *)
LEMMA FundedNext ==
    ASSUME TypeOK, TypeOK', FundedInv, [LifecycleStep]_lifecycleVars
    PROVE  FundedInv'
<1> USE DEF FundedInv, SnapshotHolds, ActiveImpliesFunded, TypeOK, CallTyped,
            moneyVars, loanVars
<1>1. CASE Decide
  BY <1>1 DEF Decide, CreateLoan, ReadForDecision, ApproveLoan, RejectLoan, callVars
<1>2. ASSUME NEW c \in Callers, NEW l \in Loans,
             NEW ask \in Amounts \union {Remaining}, NEW inScope \in BOOLEAN,
             StartDisburse(c, l, ask, inScope)
      PROVE  FundedInv'
  BY <1>2 DEF StartDisburse, FirstLook
<1>3. ASSUME NEW c \in Callers, DisburseStep(c) PROVE FundedInv'
  BY <1>3, FundedDisburseStep
<1>4. ASSUME NEW c \in Callers, FailDisbursement(c) \/ Return(c) PROVE FundedInv'
  BY <1>4 DEF FailDisbursement, Return, Goto, Reset
<1>5. CASE ForgetRequests /\ UNCHANGED <<loanVars, moneyVars>>
  BY <1>5 DEF ForgetRequests
<1>6. CASE UNCHANGED lifecycleVars
  BY <1>6 DEF lifecycleVars
<1> QED
  BY <1>1, <1>2, <1>3, <1>4, <1>5, <1>6 DEF LifecycleStep

(* An active loan has its whole principal out, to the cent, for any number of
   concurrent disbursements. *)
THEOREM ActiveLoansAreFunded == Spec => []ActiveImpliesFunded
<1>1. Init => FundedInv
  BY DEF Init, FundedInv, ActiveImpliesFunded, SnapshotHolds
<1>2. TypeOK /\ TypeOK' /\ FundedInv /\ [Next]_lifecycleVars => FundedInv'
  BY FundedNext, NextIsLifecycleStep
<1>3. FundedInv => ActiveImpliesFunded
  BY DEF FundedInv
<1> QED
  BY <1>1, <1>2, <1>3, TypeCorrect, PTL DEF Spec

-----------------------------------------------------------------------------
(* A success is booked, and a charged loan is finalised once *)

BookedInv ==
    /\ \A l \in Loans : status[l] = "active" => finals[l] > 0
    /\ \A c \in Callers :
          pc[c] \in {"committed", "ok"} /\ call[c].ask = Remaining =>
              finals[call[c].loan] > 0
    /\ \A l \in Charged : finals[l] = IF l \in finalized THEN 1 ELSE 0

(* Every step keeps BookedInv. *)
LEMMA BookedNext ==
    ASSUME TypeOK, TypeOK', FundedInv, BookedInv, [LifecycleStep]_lifecycleVars
    PROVE  BookedInv'
<1> USE ConstantsAssumption
    DEF BookedInv, TypeOK, CallTyped, moneyVars, loanVars
<1>1. CASE Decide
  BY <1>1 DEF Decide, CreateLoan, ReadForDecision, ApproveLoan, RejectLoan, callVars
<1>2. ASSUME NEW c \in Callers, NEW l \in Loans,
             NEW ask \in Amounts \union {Remaining}, NEW inScope \in BOOLEAN,
             StartDisburse(c, l, ask, inScope)
      PROVE  BookedInv'
  <2>1. pc'[c] = "ok" => status[l] = "active"
    BY <1>2 DEF StartDisburse, FirstLook
  <2>2. pc'[c] # "committed"
    BY <1>2 DEF StartDisburse, FirstLook
  <2>3. call'[c].loan = l
    BY <1>2 DEF StartDisburse, NoCall
  <2> QED
    BY <1>2, <2>1, <2>2, <2>3 DEF StartDisburse
<1>3. ASSUME NEW c \in Callers, DisburseStep(c) PROVE BookedInv'
  <2>1. CASE SizeDisbursement(c)
    BY <2>1 DEF SizeDisbursement
  <2>2. CASE RefuseDisbursement(c)
    BY <2>2 DEF RefuseDisbursement, Goto
  <2>3. CASE NumberTranche(c)
    BY <2>3 DEF NumberTranche
  <2>4. CASE CommitTranche(c)
    <3>1. call[c].ask # Remaining
      BY <2>4 DEF CommitTranche, FundedInv, SnapshotHolds
    <3> QED
      BY <2>4, <3>1 DEF CommitTranche, AppendTranche, Goto
  <2>5. CASE CommitFinal(c)
    BY <2>5 DEF CommitFinal, AppendTranche, MayFinalize, Goto
  <2>6. CASE LoseToOther(c)
    BY <2>6 DEF LoseToOther, Goto
  <2>7. CASE Answer(c)
    BY <2>7 DEF Answer, Goto
  <2>8. CASE Recheck(c)
    BY <2>8 DEF Recheck, Goto
  <2> QED
    BY <1>3, <2>1, <2>2, <2>3, <2>4, <2>5, <2>6, <2>7, <2>8 DEF DisburseStep
<1>4. ASSUME NEW c \in Callers, FailDisbursement(c) \/ Return(c) PROVE BookedInv'
  BY <1>4 DEF FailDisbursement, Return, Goto, Reset
<1>5. CASE ForgetRequests /\ UNCHANGED <<loanVars, moneyVars>>
  BY <1>5 DEF ForgetRequests
<1>6. CASE UNCHANGED lifecycleVars
  BY <1>6 DEF lifecycleVars
<1> HIDE ConstantsAssumption DEF BookedInv, TypeOK
<1>7. LifecycleStep => BookedInv'
  BY <1>1, <1>2, <1>3, <1>4, <1>5 DEF LifecycleStep
<1> QED
  BY <1>6, <1>7

(* Final tranches, active loans and finalisation journals stay in step. *)
LEMMA BookedAlways == Spec => []BookedInv
<1>1. Init => FundedInv /\ BookedInv
  BY ConstantsAssumption
  DEF Init, FundedInv, ActiveImpliesFunded, SnapshotHolds, BookedInv
<1>2. TypeOK /\ TypeOK' /\ FundedInv /\ [Next]_lifecycleVars => FundedInv'
  BY FundedNext, NextIsLifecycleStep
<1>3. TypeOK /\ TypeOK' /\ FundedInv /\ BookedInv /\ [Next]_lifecycleVars
        => BookedInv'
  BY BookedNext, NextIsLifecycleStep
<1> QED
  BY <1>1, <1>2, <1>3, TypeCorrect, PTL DEF Spec

(* A loan with interest or fees has one final tranche at most. *)
THEOREM ChargedLoansFinalizeOnce == Spec => []ChargedOnce
<1>1. BookedInv => ChargedOnce
  <2> SUFFICES ASSUME BookedInv, NEW l \in Charged PROVE finals[l] <= 1
    BY DEF ChargedOnce
  <2>1. finals[l] = 1 \/ finals[l] = 0
    BY DEF BookedInv
  <2> QED
    BY <2>1
<1> QED
  BY <1>1, BookedAlways, PTL

(* A success on the remainder is backed by a final tranche. *)
THEOREM SuccessIsBooked == Spec => []OkMeansBooked
<1>1. BookedInv => OkMeansBooked
  BY DEF BookedInv, OkMeansBooked
<1> QED
  BY <1>1, BookedAlways, PTL

-----------------------------------------------------------------------------
(* The approval behind the money *)

ApprovedBySomeone(l) == approvedBy[l] # None /\ MayDecide(approvedBy[l], l)

ApprovalInv ==
    /\ \A u \in Staff :
          deciding[u].op = "approve" => MayDecide(u, deciding[u].loan)
    /\ \A l \in Loans :
          status[l] \in {"approved", "active"} \/ tranches[l] > 0
              => ApprovedBySomeone(l)
    /\ \A c \in Callers :
          pc[c] \in {"checked", "rechecked", "sized", "numbered"}
              => ApprovedBySomeone(call[c].loan)

(* Every step keeps ApprovalInv. *)
LEMMA ApprovalNext ==
    ASSUME TypeOK, TypeOK', ApprovalInv, [LifecycleStep]_lifecycleVars
    PROVE  ApprovalInv'
<1> USE ConstantsAssumption
    DEF ApprovalInv, ApprovedBySomeone, MayDecide, TypeOK, CallTyped, moneyVars,
        loanVars, callVars
<1>1. ASSUME NEW l \in Loans, CreateLoan(l) PROVE ApprovalInv'
  BY <1>1 DEF CreateLoan
<1>2. ASSUME NEW u \in Staff, NEW l \in Loans, NEW op \in {"approve", "reject"},
             ReadForDecision(u, l, op)
      PROVE  ApprovalInv'
  BY <1>2 DEF ReadForDecision
<1>3. ASSUME NEW u \in Staff, ApproveLoan(u) PROVE ApprovalInv'
  BY <1>3 DEF ApproveLoan, Idle
<1>4. ASSUME NEW u \in Staff, RejectLoan(u) PROVE ApprovalInv'
  BY <1>4 DEF RejectLoan, Idle
<1>5. ASSUME NEW c \in Callers, NEW l \in Loans,
             NEW ask \in Amounts \union {Remaining}, NEW inScope \in BOOLEAN,
             StartDisburse(c, l, ask, inScope)
      PROVE  ApprovalInv'
  <2>1. pc'[c] = "checked" => status[l] = "approved"
    BY <1>5 DEF StartDisburse, FirstLook
  <2>2. pc'[c] \notin {"rechecked", "sized", "numbered"}
    BY <1>5 DEF StartDisburse, FirstLook
  <2>3. call'[c].loan = l
    BY <1>5 DEF StartDisburse, NoCall
  <2> QED
    BY <1>5, <2>1, <2>2, <2>3 DEF StartDisburse
<1>6. ASSUME NEW c \in Callers, DisburseStep(c) PROVE ApprovalInv'
  <2>1. CASE SizeDisbursement(c)
    <3>1. PICK r : call' = [call EXCEPT ![c] = Sized(@, disbursed[call[c].loan], r)]
      BY <2>1 DEF SizeDisbursement
    <3>2. call'[c].loan = call[c].loan
      BY <3>1 DEF Sized, Call
    <3> QED
      BY <2>1, <3>1, <3>2 DEF SizeDisbursement
  <2>2. CASE RefuseDisbursement(c)
    BY <2>2 DEF RefuseDisbursement, Goto
  <2>3. CASE NumberTranche(c)
    BY <2>3 DEF NumberTranche, Call
  <2>4. CASE CommitTranche(c)
    BY <2>4 DEF CommitTranche, AppendTranche, Goto
  <2>5. CASE CommitFinal(c)
    BY <2>5 DEF CommitFinal, AppendTranche, Goto
  <2>6. CASE LoseToOther(c)
    BY <2>6 DEF LoseToOther, Goto
  <2>7. CASE Answer(c)
    BY <2>7 DEF Answer, Goto
  <2>8. CASE Recheck(c)
    BY <2>8 DEF Recheck, Goto
  <2> QED
    BY <1>6, <2>1, <2>2, <2>3, <2>4, <2>5, <2>6, <2>7, <2>8 DEF DisburseStep
<1>7. ASSUME NEW c \in Callers, FailDisbursement(c) \/ Return(c) PROVE ApprovalInv'
  BY <1>7 DEF FailDisbursement, Return, Goto, Reset
<1>8. CASE ForgetRequests /\ UNCHANGED <<loanVars, moneyVars>>
  BY <1>8 DEF ForgetRequests, Idle
<1>9. CASE UNCHANGED lifecycleVars
  BY <1>9 DEF lifecycleVars
<1> HIDE ConstantsAssumption DEF ApprovalInv, TypeOK
<1>10. Decide => ApprovalInv'
  BY <1>1, <1>2, <1>3, <1>4 DEF Decide
<1>11. LifecycleStep => ApprovalInv'
  BY <1>5, <1>6, <1>7, <1>8, <1>10 DEF LifecycleStep
<1> QED
  BY <1>9, <1>11

(* Money leaves only behind the approval of somebody entitled to give it. *)
THEOREM MoneyIsApproved == Spec => []MoneyBehindApproval
<1>1. Init => ApprovalInv
  BY DEF Init, ApprovalInv, Idle
<1>2. TypeOK /\ TypeOK' /\ ApprovalInv /\ [Next]_lifecycleVars => ApprovalInv'
  BY ApprovalNext, NextIsLifecycleStep
<1>3. ApprovalInv => MoneyBehindApproval
  BY DEF ApprovalInv, ApprovedBySomeone, MayDecide, MoneyBehindApproval
<1> QED
  BY <1>1, <1>2, <1>3, TypeCorrect, PTL DEF Spec

-----------------------------------------------------------------------------
(* How far the principal can be overdrawn *)

(* The calls that have sized an amount for a loan and not committed it. *)
Flying(l) ==
    {c \in Callers : pc[c] \in {"sized", "numbered"} /\ call[c].loan = l}

(* What is out on a loan once c has committed. *)
OutWith(c, l) == disbursed[l] + IF c \in Flying(l) THEN call[c].amount ELSE 0

(* Some caller, the last one to size its amount, saw what was out then; each
   other call in flight adds at most the principal and a cent. *)
RoomLeft(l) ==
    \E c \in Callers :
        OutWith(c, l) <= (Cardinality(Callers) - Cardinality(Flying(l) \ {c}))
                            * (Principal[l] + 1)

RoomInv ==
    /\ \A l \in Loans : \A c \in Flying(l) : call[c].amount <= Principal[l] + 1
    /\ \A l \in Loans : disbursed[l] = 0 \/ RoomLeft(l)

(* More room is enough. *)
LEMMA Scaled ==
    ASSUME NEW k \in Int, NEW m \in Int, NEW p \in Nat
    PROVE  /\ k <= m => k * p <= m * p
           /\ (k + 1) * p = k * p + p
  OBVIOUS

(* The calls in flight beside a given one. *)
LEMMA FlyingCounted ==
    ASSUME NEW l, NEW c \in Callers, NEW S, S \subseteq Flying(l) \ {c}
    PROVE  /\ Cardinality(Callers) \in Nat
           /\ Cardinality(S) \in Nat
           /\ Cardinality(Flying(l) \ {c}) \in Nat
           /\ Cardinality(S) <= Cardinality(Flying(l) \ {c})
           /\ Cardinality(Flying(l) \ {c}) <= Cardinality(Callers) - 1
<1>1. IsFiniteSet(Callers) /\ IsFiniteSet(Callers \ {c})
  BY CallersAssumption, FS_RemoveElement
<1>2. Cardinality(Callers \ {c}) = Cardinality(Callers) - 1
  BY <1>1, FS_RemoveElement
<1>3. /\ IsFiniteSet(Flying(l) \ {c})
      /\ Cardinality(Flying(l) \ {c}) <= Cardinality(Callers \ {c})
  BY <1>1, FS_Subset DEF Flying
<1>4. IsFiniteSet(S) /\ Cardinality(S) <= Cardinality(Flying(l) \ {c})
  BY <1>3, FS_Subset
<1> QED
  BY <1>1, <1>2, <1>3, <1>4, FS_CardinalityType

(* What any step does to the amounts in flight: at most it ends some calls, and
   one call takes off or lands. *)
Lands(c, l) ==
    /\ c \in Flying(l)
    /\ disbursed' = [disbursed EXCEPT ![l] = @ + call[c].amount]
    /\ \A k \in Loans : Flying(k)' = Flying(k) \ {c}
    /\ UNCHANGED call

TakesOff(c, l) ==
    /\ UNCHANGED disbursed
    /\ disbursed[l] < Principal[l]
    /\ call'[c].amount <= Principal[l] - disbursed[l] + 1
    /\ \A k \in Loans : Flying(k)' = Flying(k) \union (IF k = l THEN {c} ELSE {})
    /\ \A d \in Callers : d # c => call'[d] = call[d]

OnlyEnds ==
    /\ UNCHANGED disbursed
    /\ \A l \in Loans : Flying(l)' \subseteq Flying(l)
    /\ \A l \in Loans : \A d \in Flying(l)' : call'[d].amount = call[d].amount

LEMMA FlightEffect ==
    ASSUME TypeOK, [LifecycleStep]_lifecycleVars
    PROVE  \/ OnlyEnds
           \/ \E c \in Callers, l \in Loans : Lands(c, l) \/ TakesOff(c, l)
<1> USE DEF TypeOK, CallTyped, moneyVars, Flying
<1>1. CASE Decide \/ UNCHANGED lifecycleVars
  BY <1>1 DEF Decide, CreateLoan, ReadForDecision, ApproveLoan, RejectLoan, callVars,
              lifecycleVars, OnlyEnds
<1>2. ASSUME NEW c \in Callers, NEW l \in Loans,
             NEW ask \in Amounts \union {Remaining}, NEW inScope \in BOOLEAN,
             StartDisburse(c, l, ask, inScope)
      PROVE  OnlyEnds
  BY <1>2 DEF StartDisburse, FirstLook, OnlyEnds
<1>3. ASSUME NEW c \in Callers, DisburseStep(c)
      PROVE  OnlyEnds \/ Lands(c, call[c].loan) \/ TakesOff(c, call[c].loan)
  <2> DEFINE l == call[c].loan
  <2>1. CASE SizeDisbursement(c)
    <3>1. /\ l \in Loans
          /\ RemainingOf(l) \in Int
          /\ RemainingOf(l) > 0
          /\ call[c].ask \in Nat
          /\ call[c] \in Call
          /\ disbursed[l] \in Nat
      BY <2>1, ConstantsAssumption
      DEF SizeDisbursement, RemainingOf, SomethingRemains, Remaining, Call
    <3>2. PICK r \in Resolutions(RemainingOf(l), call[c].ask) :
            call' = [call EXCEPT ![c] = Sized(@, disbursed[l], r)]
      BY <2>1 DEF SizeDisbursement
    <3>3. /\ r.amount \in Nat
          /\ r.final \in BOOLEAN
          /\ r.amount <= RemainingOf(l) + 1
      BY <3>1, ResolutionBounds
    <3>4. call'[c] = Sized(call[c], disbursed[l], r)
      BY <3>2
    <3>5. call'[c].loan = l /\ call'[c].amount = r.amount
      <4> HIDE DEF TypeOK, CallTyped, Flying, moneyVars, l
      <4>1. call[c] \in Call /\ disbursed[l] \in Nat
        BY <3>1
      <4>2. r.amount \in Nat /\ r.final \in BOOLEAN
        BY <3>3
      <4>3. /\ Sized(call[c], disbursed[l], r).loan = call[c].loan
            /\ Sized(call[c], disbursed[l], r).amount = r.amount
        BY <4>1, <4>2, SizedCall
      <4> QED
        BY <3>4, <4>3 DEF l
    <3>6. /\ UNCHANGED disbursed
          /\ \A d \in Callers : d # c => call'[d] = call[d] /\ pc'[d] = pc[d]
          /\ pc'[c] = "sized"
      BY <2>1, <3>2 DEF SizeDisbursement
    <3>7. \A k \in Loans :
             Flying(k)' = Flying(k) \union (IF k = l THEN {c} ELSE {})
      BY <2>1, <3>5, <3>6 DEF SizeDisbursement
    <3> HIDE DEF Flying
    <3> QED
      BY <3>1, <3>3, <3>5, <3>6, <3>7, ConstantsAssumption DEF RemainingOf, TakesOff
  <2>2. CASE NumberTranche(c)
    BY <2>2 DEF NumberTranche, Call, OnlyEnds
  <2>3. CASE CommitTranche(c) \/ CommitFinal(c)
    BY <2>3 DEF CommitTranche, CommitFinal, AppendTranche, Goto, Lands
  <2>4. CASE Recheck(c) \/ RefuseDisbursement(c) \/ LoseToOther(c) \/ Answer(c)
    BY <2>4 DEF Recheck, RefuseDisbursement, LoseToOther, Answer, Goto, OnlyEnds
  <2> QED
    BY <1>3, <2>1, <2>2, <2>3, <2>4 DEF DisburseStep
<1>4. ASSUME NEW c \in Callers, FailDisbursement(c) \/ Return(c) PROVE OnlyEnds
  BY <1>4 DEF FailDisbursement, Return, Goto, Reset, OnlyEnds
<1>5. CASE ForgetRequests /\ UNCHANGED <<loanVars, moneyVars>>
  BY <1>5 DEF ForgetRequests, OnlyEnds
<1>6. ASSUME NEW c \in Callers, DisburseStep(c) PROVE call[c].loan \in Loans
  BY <1>6 DEF DisburseStep, Recheck, SizeDisbursement, RefuseDisbursement, NumberTranche,
              CommitTranche, CommitFinal, LoseToOther, Answer
<1> HIDE DEF TypeOK, CallTyped, moneyVars, Flying
<1> QED
  BY <1>1, <1>2, <1>3, <1>4, <1>5, <1>6 DEF LifecycleStep

(* Calls that end leave more room, *)
LEMMA RoomEnds ==
    ASSUME TypeOK, RoomInv, OnlyEnds
    PROVE  RoomInv'
<1>1. ASSUME NEW l \in Loans, NEW c \in Flying(l)'
      PROVE  call'[c].amount <= Principal[l] + 1
  BY <1>1 DEF OnlyEnds, RoomInv
<1>2. ASSUME NEW l \in Loans, disbursed[l] # 0 PROVE RoomLeft(l)'
  <2> DEFINE p == Principal[l] + 1
             n == Cardinality(Callers)
  <2>1. PICK c \in Callers :
          OutWith(c, l) <= (n - Cardinality(Flying(l) \ {c})) * p
    BY <1>2 DEF RoomInv, RoomLeft
  <2>2. OutWith(c, l)' <= OutWith(c, l) /\ OutWith(c, l) \in Int /\ OutWith(c, l)' \in Int
    BY DEF OnlyEnds, OutWith, TypeOK, Call, Flying
  <2>3. Flying(l)' \ {c} \subseteq Flying(l) \ {c}
    BY DEF OnlyEnds
  <2> DEFINE x == Cardinality(Flying(l) \ {c})
             y == Cardinality(Flying(l)' \ {c})
  <2>4. n \in Nat /\ x \in Nat /\ y \in Nat /\ y <= x /\ p \in Nat
    <3>1. n \in Nat /\ x \in Nat /\ y \in Nat /\ y <= x
      BY <2>3, FlyingCounted
    <3> QED
      BY <3>1, ConstantsAssumption
  <2> HIDE DEF n, p, x, y
  <2>5. n - x \in Int /\ n - y \in Int /\ n - x <= n - y
    BY <2>4
  <2>6. (n - x) * p <= (n - y) * p
    BY <2>4, <2>5, Scaled
  <2>7. OutWith(c, l) <= (n - x) * p
    BY <2>1 DEF n, p, x
  <2>8. OutWith(c, l)' <= (n - y) * p
    BY <2>2, <2>4, <2>5, <2>6, <2>7
  <2> QED
    BY <2>8 DEF RoomLeft, n, p, y
<1> QED
  BY <1>1, <1>2 DEF RoomInv, OnlyEnds

(* one that takes off saw what is out, *)
LEMMA RoomTakesOff ==
    ASSUME TypeOK, RoomInv, NEW c \in Callers, NEW l \in Loans, TakesOff(c, l),
           TypeOK'
    PROVE  RoomInv'
<1> DEFINE p == Principal[l] + 1
           n == Cardinality(Callers)
           y == Cardinality(Flying(l)' \ {c})
<1>1. OutWith(c, l)' <= p /\ OutWith(c, l)' \in Int
  BY ConstantsAssumption DEF TakesOff, OutWith, TypeOK, Call
<1>2. n \in Nat /\ y \in Nat /\ y <= n - 1 /\ p \in Nat
  <2>1. Flying(l)' \ {c} \subseteq Flying(l) \ {c}
    BY DEF TakesOff
  <2>2. n \in Nat /\ y \in Nat
    BY <2>1, FlyingCounted
  <2>3. y <= Cardinality(Flying(l) \ {c})
    BY <2>1, FlyingCounted
  <2>4. Cardinality(Flying(l) \ {c}) \in Nat /\ Cardinality(Flying(l) \ {c}) <= n - 1
    BY FlyingCounted
  <2>5. p \in Nat
    BY ConstantsAssumption
  <2> QED
    BY <2>2, <2>3, <2>4, <2>5
<1>3. RoomLeft(l)'
  <2> HIDE DEF n, p, y
  <2>1. n - y \in Int /\ 1 <= n - y
    BY <1>2
  <2>2. 1 * p <= (n - y) * p
    BY <1>2, <2>1, Scaled
  <2>3. OutWith(c, l)' <= (n - y) * p
    BY <1>1, <1>2, <2>1, <2>2
  <2> QED
    BY <2>3 DEF RoomLeft, n, p, y
<1>4. ASSUME NEW k \in Loans, k # l, disbursed[k] # 0 PROVE RoomLeft(k)'
  <2>1. PICK d \in Callers :
          OutWith(d, k) <= (n - Cardinality(Flying(k) \ {d})) * (Principal[k] + 1)
    BY <1>4 DEF RoomInv, RoomLeft
  <2>2. Flying(k)' = Flying(k)
    BY <1>4 DEF TakesOff
  <2>3. d = c => d \notin Flying(k)
    BY <1>4, <2>2 DEF TakesOff, Flying, TypeOK
  <2>4. OutWith(d, k)' = OutWith(d, k)
    BY <2>2, <2>3 DEF TakesOff, OutWith
  <2> QED
    BY <2>1, <2>2, <2>4 DEF RoomLeft
<1>5. ASSUME NEW k \in Loans, NEW d \in Flying(k)'
      PROVE  call'[d].amount <= Principal[k] + 1
  <2>1. CASE d = c
    <3>1. k = l
      BY <1>5, <2>1 DEF TakesOff, Flying
    <3> QED
      BY <2>1, <3>1, ConstantsAssumption DEF TakesOff, TypeOK, Call
  <2>2. CASE d # c
    BY <1>5, <2>2 DEF TakesOff, RoomInv, Flying
  <2> QED
    BY <2>1, <2>2
<1> QED
  BY <1>3, <1>4, <1>5 DEF RoomInv, TakesOff

(* and one that lands takes up its own room. *)
LEMMA RoomLands ==
    ASSUME TypeOK, RoomInv, NEW c \in Callers, NEW l \in Loans, Lands(c, l), TypeOK'
    PROVE  RoomInv'
<1> DEFINE p == Principal[l] + 1
           n == Cardinality(Callers)
           a == call[c].amount
<1>1. /\ a \in Nat /\ a <= p /\ p \in Nat /\ c \in Flying(l)
      /\ disbursed[l] \in Nat
  BY ConstantsAssumption DEF Lands, Flying, TypeOK, CallTyped, Call, RoomInv
<1>2. PICK d \in Callers :
        OutWith(d, l) <= (n - Cardinality(Flying(l) \ {d})) * p
  <2>1. CASE disbursed[l] = 0
    <3> DEFINE x == Cardinality(Flying(l) \ {c})
    <3>1. n \in Nat /\ x \in Nat /\ x <= n - 1
      BY FlyingCounted
    <3>2. OutWith(c, l) = a
      BY <1>1, <2>1 DEF OutWith
    <3>3. a <= (n - x) * p
      <4> HIDE DEF n, p, x, a
      <4>1. n - x \in Int /\ 1 <= n - x
        BY <3>1
      <4>2. 1 * p <= (n - x) * p
        BY <1>1, <4>1, Scaled
      <4> QED
        BY <1>1, <4>1, <4>2
    <3> QED
      BY <3>2, <3>3
  <2>2. CASE disbursed[l] # 0
    BY <1>1, <2>2 DEF RoomInv, RoomLeft
  <2> QED
    BY <2>1, <2>2
<1>3. Flying(l)' = Flying(l) \ {c} /\ disbursed'[l] = disbursed[l] + a
  BY <1>1 DEF Lands, TypeOK
<1>4. RoomLeft(l)'
  <2>1. CASE d = c
    <3>1. OutWith(c, l)' = OutWith(c, l)
      BY <1>1, <1>3 DEF OutWith
    <3>2. Flying(l)' \ {c} = Flying(l) \ {c}
      BY <1>3
    <3> QED
      BY <1>2, <2>1, <3>1, <3>2 DEF RoomLeft
  <2>2. CASE d # c
    <3> DEFINE x == Cardinality(Flying(l) \ {d})
               y == Cardinality(Flying(l)' \ {d})
    <3>1. OutWith(d, l)' = OutWith(d, l) + a /\ OutWith(d, l) \in Int
      BY <1>1, <1>3, <2>2 DEF OutWith, Lands, TypeOK, Call
    <3>2. n \in Nat /\ x \in Nat
      BY FlyingCounted
    <3>3. x = y + 1 /\ y \in Nat
      <4>1. Flying(l)' \ {d} = (Flying(l) \ {d}) \ {c}
        BY <1>3
      <4>2. IsFiniteSet(Flying(l) \ {d})
        BY CallersAssumption, FS_Subset DEF Flying
      <4>3. c \in Flying(l) \ {d}
        BY <1>1, <2>2
      <4>4. /\ IsFiniteSet((Flying(l) \ {d}) \ {c})
            /\ Cardinality((Flying(l) \ {d}) \ {c}) = x - 1
        BY <4>2, <4>3, FS_RemoveElement
      <4>5. y \in Nat
        BY <4>1, <4>4, FS_CardinalityType
      <4> QED
        BY <3>2, <4>1, <4>4, <4>5
    <3>4. OutWith(d, l)' <= (n - y) * p
      <4>1. OutWith(d, l) <= (n - x) * p
        BY <1>2
      <4> HIDE DEF n, p, x, y, a
      <4>2. n - y = (n - x) + 1 /\ n - x \in Int
        BY <3>2, <3>3
      <4>3. (n - y) * p = (n - x) * p + p
        BY <1>1, <4>2, Scaled
      <4>4. (n - x) * p \in Int
        BY <1>1, <4>2
      <4> QED
        BY <1>1, <3>1, <4>1, <4>3, <4>4
    <3> QED
      BY <3>4 DEF RoomLeft
  <2> QED
    BY <2>1, <2>2
<1>5. ASSUME NEW k \in Loans, k # l
      PROVE  disbursed'[k] = disbursed[k] /\ (RoomLeft(k) => RoomLeft(k)')
  <2>1. disbursed'[k] = disbursed[k]
    BY <1>5 DEF Lands, TypeOK
  <2>2. Flying(k)' = Flying(k)
    BY <1>5 DEF Lands, Flying
  <2> QED
    BY <2>1, <2>2 DEF RoomLeft, OutWith, Lands
<1>6. \A k \in Loans : \A e \in Flying(k)' : call'[e].amount <= Principal[k] + 1
  BY DEF RoomInv, Lands
<1> QED
  BY <1>4, <1>5, <1>6 DEF RoomInv

(* Every step keeps RoomInv. *)
LEMMA RoomNext ==
    ASSUME TypeOK, TypeOK', RoomInv, [LifecycleStep]_lifecycleVars
    PROVE  RoomInv'
  BY FlightEffect, RoomEnds, RoomTakesOff, RoomLands

(* With the room as it is, the bound holds. *)
LEMMA RoomBounds == TypeOK /\ RoomInv => OverdrawBounded
<1> USE ConstantsAssumption, CallersAssumption
<1> SUFFICES ASSUME TypeOK, RoomInv, NEW l \in Loans
             PROVE  disbursed[l] <= Cardinality(Callers) * (Principal[l] + 1)
  BY DEF OverdrawBounded
<1> DEFINE p == Principal[l] + 1
           n == Cardinality(Callers)
<1>1. p \in Nat /\ n \in Nat /\ disbursed[l] \in Nat
  <2>1. n \in Nat
    BY FS_CardinalityType
  <2> QED
    BY <2>1 DEF TypeOK
<1>2. CASE disbursed[l] = 0
  <2> HIDE DEF n, p
  <2>1. 0 * p <= n * p
    BY <1>1, Scaled
  <2>2. 0 <= n * p
    BY <1>1, <2>1
  <2> QED
    BY <1>2, <2>2 DEF n, p
<1>3. CASE RoomLeft(l)
  <2>1. PICK c \in Callers :
          OutWith(c, l) <= (n - Cardinality(Flying(l) \ {c})) * p
    BY <1>3 DEF RoomLeft
  <2> DEFINE x == Cardinality(Flying(l) \ {c})
  <2>2. x \in Nat
    BY FlyingCounted
  <2>3. disbursed[l] <= OutWith(c, l) /\ OutWith(c, l) \in Int
    BY <1>1 DEF OutWith, Flying, TypeOK, Call
  <2>4. disbursed[l] <= n * p
    <3> HIDE DEF n, p, x
    <3>1. n - x \in Int /\ n - x <= n
      BY <1>1, <2>2
    <3>2. (n - x) * p <= n * p
      BY <1>1, <3>1, Scaled
    <3>3. (n - x) * p \in Int /\ n * p \in Int
      BY <1>1, <3>1
    <3>4. OutWith(c, l) <= (n - x) * p
      BY <2>1 DEF x
    <3> QED
      BY <1>1, <2>3, <3>2, <3>3, <3>4
  <2> QED
    BY <2>4
<1> QED
  BY <1>2, <1>3 DEF RoomInv

(* Nothing is out and nobody in flight at first. *)
LEMMA RoomInit == Init => RoomInv
  BY DEF Init, RoomInv, Flying

(* However many loans and requests: what is out on a loan stays within the
   principal plus a cent, times the requests that may be in flight at once. *)
THEOREM OverdraftIsBounded == Spec => []OverdrawBounded
<1>1. TypeOK /\ TypeOK' /\ RoomInv /\ [Next]_lifecycleVars => RoomInv'
  BY RoomNext, NextIsLifecycleStep
<1> QED
  BY <1>1, RoomInit, RoomBounds, TypeCorrect, PTL DEF Spec

(* Disbursements of which no two overlap never overdraw the principal: the
   overdraft the concurrent runs find needs two requests in flight. *)
THEOREM SequentialNeverOverdraws ==
    ASSUME Cardinality(Callers) <= 1
    PROVE  Spec => []PrincipalNeverOverdrawn
<1>1. TypeOK /\ OverdrawBounded => PrincipalNeverOverdrawn
  <2> SUFFICES ASSUME TypeOK, OverdrawBounded, NEW l \in Loans
               PROVE  disbursed[l] <= Principal[l] + 1
    BY DEF PrincipalNeverOverdrawn
  <2> DEFINE p == Principal[l] + 1
             n == Cardinality(Callers)
  <2>1. n = 0 \/ n = 1
    BY CallersAssumption, FS_CardinalityType
  <2>2. disbursed[l] <= n * p /\ p \in Nat /\ disbursed[l] \in Nat
    BY ConstantsAssumption DEF OverdrawBounded, TypeOK
  <2> HIDE DEF n, p
  <2>3. disbursed[l] <= p
    BY <2>1, <2>2
  <2> QED
    BY <2>3 DEF p
<1> QED
  BY <1>1, OverdraftIsBounded, TypeCorrect, PTL

-----------------------------------------------------------------------------
(* The book of a loan *)

(* Nobody decides on a loan nobody applied for, and no loan becomes one. *)
AppliedInv ==
    \A u \in Staff : deciding[u] # Idle => status[deciding[u].loan] # "none"

(* Every step keeps AppliedInv. *)
LEMMA AppliedNext ==
    ASSUME TypeOK, AppliedInv, [LifecycleStep]_lifecycleVars
    PROVE  AppliedInv'
<1> USE DEF TypeOK, AppliedInv, moneyVars, callVars, loanVars
<1>1. CASE Decide
  <2>1. ASSUME NEW l \in Loans, CreateLoan(l) PROVE AppliedInv'
    BY <2>1 DEF CreateLoan
  <2>2. ASSUME NEW u \in Staff, NEW l \in Loans, NEW op \in {"approve", "reject"},
               ReadForDecision(u, l, op)
        PROVE  AppliedInv'
    BY <2>2 DEF ReadForDecision
  <2>3. ASSUME NEW u \in Staff, ApproveLoan(u) \/ RejectLoan(u) PROVE AppliedInv'
    <3>1. /\ deciding' = [deciding EXCEPT ![u] = Idle]
          /\ \A k \in Loans : status[k] # "none" => status'[k] # "none"
      BY <2>3 DEF ApproveLoan, RejectLoan
    <3>2. \A v \in Staff : deciding[v] # Idle => deciding[v].loan \in Loans
      BY DEF Request
    <3> QED
      BY <3>1, <3>2
  <2> QED
    BY <1>1, <2>1, <2>2, <2>3 DEF Decide
<1>2. ASSUME NEW c \in Callers, DisburseStep(c) PROVE AppliedInv'
  <2>1. CASE CommitFinal(c)
    <3>1. /\ deciding' = deciding
          /\ \A k \in Loans : status[k] # "none" => status'[k] # "none"
      BY <2>1 DEF CommitFinal
    <3>2. \A v \in Staff : deciding[v] # Idle => deciding[v].loan \in Loans
      BY DEF Request
    <3> QED
      BY <3>1, <3>2
  <2>2. CASE ~CommitFinal(c)
    BY <1>2, <2>2 DEF DisburseStep, Recheck, SizeDisbursement, RefuseDisbursement,
                      NumberTranche, CommitTranche, LoseToOther, Answer
  <2> QED
    BY <2>1, <2>2
<1>3. ASSUME NEW c \in Callers, FailDisbursement(c) \/ Return(c) PROVE AppliedInv'
  BY <1>3 DEF FailDisbursement, Return
<1>4. ASSUME NEW c \in Callers, NEW l \in Loans,
             NEW ask \in Amounts \union {Remaining}, NEW inScope \in BOOLEAN,
             StartDisburse(c, l, ask, inScope)
      PROVE  AppliedInv'
  BY <1>4 DEF StartDisburse
<1>5. CASE ForgetRequests /\ UNCHANGED <<loanVars, moneyVars>>
  BY <1>5 DEF ForgetRequests
<1>6. CASE UNCHANGED lifecycleVars
  BY <1>6 DEF lifecycleVars
<1> HIDE DEF TypeOK, AppliedInv
<1> QED
  BY <1>1, <1>2, <1>3, <1>4, <1>5, <1>6 DEF LifecycleStep

(* All that is known of loans and calls. *)
LifecycleInv ==
    /\ TypeOK
    /\ FundedInv
    /\ BookedInv
    /\ ApprovalInv
    /\ RoomInv
    /\ AppliedInv

(* It holds at first, *)
LEMMA LifecycleInit == Init => LifecycleInv
  BY TypeInit, RoomInit, ConstantsAssumption
  DEF Init, LifecycleInv, FundedInv, ActiveImpliesFunded, SnapshotHolds, BookedInv,
      ApprovalInv, AppliedInv, Idle

(* and every step keeps it. *)
LEMMA LifecycleNext ==
    ASSUME LifecycleInv, [LifecycleStep]_lifecycleVars
    PROVE  LifecycleInv'
<1> USE DEF LifecycleInv
<1>1. TypeOK'
  BY TypeNext
<1>2. FundedInv' /\ BookedInv' /\ ApprovalInv'
  BY <1>1, FundedNext, BookedNext, ApprovalNext
<1>3. RoomInv' /\ AppliedInv'
  BY <1>1, RoomNext, AppliedNext
<1> QED
  BY <1>1, <1>2, <1>3

Entitled(l) == {u \in Staff : MayDecide(u, l)}

Room(l) == Cardinality(Callers) * (Principal[l] + 1)

(* An application and a decision are steps of the book. *)
LEMMA DecideIsInBook ==
    ASSUME LifecycleInv, Decide
    PROVE  [Book!Next]_(Book!bookVars)
<1> USE DEF LifecycleInv, Book!bookVars, moneyVars, loanVars, Book!Next
<1>1. ASSUME NEW l \in Loans, CreateLoan(l) PROVE Book!Apply(l)
  BY <1>1 DEF CreateLoan, HasLoanInFlight, Book!Apply
<1>2. ASSUME NEW u \in Staff, NEW l \in Loans, NEW op \in {"approve", "reject"},
             ReadForDecision(u, l, op)
      PROVE  UNCHANGED Book!bookVars
  BY <1>2 DEF ReadForDecision
<1>3. ASSUME NEW u \in Staff, deciding[u].op \in {"approve", "reject"}
      PROVE  deciding[u].loan \in Loans /\ status[deciding[u].loan] # "none"
  BY <1>3 DEF TypeOK, Request, Idle, AppliedInv
<1>4. ASSUME NEW u \in Staff, ApproveLoan(u)
      PROVE  /\ Book!Approve(deciding[u].loan, u)
             /\ u \in Entitled(deciding[u].loan)
  <2>1. MayDecide(u, deciding[u].loan)
    BY <1>4 DEF ApproveLoan, ApprovalInv
  <2> QED
    BY <1>3, <1>4, <2>1 DEF ApproveLoan, Book!Approve, Entitled
<1>5. ASSUME NEW u \in Staff, RejectLoan(u) PROVE Book!Reject(deciding[u].loan)
  BY <1>3, <1>5 DEF RejectLoan, Book!Reject
<1>6. ASSUME NEW u \in Staff, ApproveLoan(u) \/ RejectLoan(u)
      PROVE  deciding[u].loan \in Loans
  BY <1>3, <1>6 DEF ApproveLoan, RejectLoan
<1> QED
  BY <1>1, <1>2, <1>4, <1>5, <1>6 DEF Decide, Entitled

(* So is a commit. *)
LEMMA CommitIsInBook ==
    ASSUME LifecycleInv, LifecycleInv', NEW c \in Callers,
           CommitTranche(c) \/ CommitFinal(c)
    PROVE  Book!Next
<1> DEFINE l == call[c].loan
           a == call[c].amount
<1> USE DEF LifecycleInv
<1>1. /\ l \in Loans /\ a \in 1 .. Principal[l] + 1
      /\ disbursed[l] \in Nat
      /\ disbursed' = [disbursed EXCEPT ![l] = @ + a]
      /\ tranches' = [tranches EXCEPT ![l] = @ + 1]
      /\ pc[c] = "numbered"
  <2>1. pc[c] = "numbered" /\ AppendTranche(c)
    BY DEF CommitTranche, CommitFinal
  <2>2. l \in Loans /\ a \in Nat /\ a > 0
    BY <2>1 DEF TypeOK, CallTyped, Call
  <2>3. c \in Flying(l)
    BY <2>1 DEF Flying
  <2>4. a <= Principal[l] + 1
    BY <2>2, <2>3 DEF RoomInv
  <2> QED
    BY <2>1, <2>2, <2>4, ConstantsAssumption DEF AppendTranche, TypeOK
<1>2. approvedBy[l] \in Entitled(l)
  BY <1>1 DEF ApprovalInv, ApprovedBySomeone, Entitled, TypeOK
<1>3. disbursed[l] + a <= Room(l)
  <2>1. OverdrawBounded'
    <3>1. (TypeOK /\ RoomInv => OverdrawBounded)'
      BY RoomBounds, PTL
    <3> QED
      BY <3>1
  <2>2. disbursed'[l] = disbursed[l] + a
    BY <1>1 DEF TypeOK
  <2> QED
    BY <1>1, <2>1, <2>2 DEF OverdrawBounded, Room
<1>4. Book!PayOut(l, a)
  BY <1>1, <1>2, <1>3 DEF Book!PayOut, Entitled, Room
<1>5. CASE CommitTranche(c)
  <2>1. Book!PayPart(l, a)
    BY <1>4, <1>5 DEF CommitTranche, loanVars, Book!PayPart
  <2> QED
    BY <1>1, <2>1 DEF Book!Next
<1>6. CASE CommitFinal(c)
  <2>1. status[l] = "approved" /\ l \notin finalized /\ call[c].final
    BY <1>6 DEF CommitFinal, MayFinalize
  <2>2. l \in Charged => finals[l] = 0
    BY <2>1 DEF BookedInv
  <2>3. disbursed[l] + a >= Principal[l] - 1
    <3>1. call[c].seen \in Nat /\ call[c].amount \in Nat /\ Principal[l] \in Nat
      BY <1>1, ConstantsAssumption DEF TypeOK, Call
    <3> QED
      BY <1>1, <2>1, <3>1 DEF FundedInv, SnapshotHolds
  <2>4. Book!Complete(l, a)
    BY <1>4, <1>6, <2>1, <2>2, <2>3 DEF CommitFinal, Book!Complete
  <2> QED
    BY <1>1, <2>4 DEF Book!Next
<1> QED
  BY <1>5, <1>6

(* Nothing else touches the book. *)
LEMMA StepIsInBook ==
    ASSUME LifecycleInv, LifecycleInv', [LifecycleStep]_lifecycleVars
    PROVE  [Book!Next]_(Book!bookVars)
<1> USE DEF Book!bookVars, moneyVars, loanVars
<1>1. CASE Decide
  BY <1>1, DecideIsInBook
<1>2. ASSUME NEW c \in Callers, DisburseStep(c) PROVE [Book!Next]_(Book!bookVars)
  <2>1. CASE CommitTranche(c) \/ CommitFinal(c)
    BY <2>1, CommitIsInBook
  <2>2. CASE ~CommitTranche(c) /\ ~CommitFinal(c)
    BY <1>2, <2>2 DEF DisburseStep, Recheck, SizeDisbursement, RefuseDisbursement,
                      NumberTranche, LoseToOther, Answer
  <2> QED
    BY <2>1, <2>2
<1>3. ASSUME NEW c \in Callers, FailDisbursement(c) \/ Return(c)
      PROVE  UNCHANGED Book!bookVars
  BY <1>3 DEF FailDisbursement, Return
<1>4. ASSUME NEW c \in Callers, NEW l \in Loans,
             NEW ask \in Amounts \union {Remaining}, NEW inScope \in BOOLEAN,
             StartDisburse(c, l, ask, inScope)
      PROVE  UNCHANGED Book!bookVars
  BY <1>4 DEF StartDisburse
<1>5. CASE UNCHANGED lifecycleVars \/ UNCHANGED <<loanVars, moneyVars>>
  BY <1>5 DEF lifecycleVars
<1> QED
  BY <1>1, <1>2, <1>3, <1>4, <1>5 DEF LifecycleStep

(* What is known of loans and calls is known in every reachable state. *)
LEMMA LifecycleAlways == Spec => []LifecycleInv
<1>1. LifecycleInv /\ [Next]_lifecycleVars => LifecycleInv'
  BY LifecycleNext, NextIsLifecycleStep
<1> QED
  BY <1>1, LifecycleInit, PTL DEF Spec

(* For any loans, staff and number of concurrent requests, with failures and
   crashes: approveLoan, rejectLoan and disburseLoan implement the book. *)
THEOREM LifecycleKeepsTheBook == Spec => KeepsTheBook
<1>1. Init => Book!Init
  BY DEF Init, Book!Init
<1>2. LifecycleInv /\ LifecycleInv' /\ [Next]_lifecycleVars
        => [Book!Next]_(Book!bookVars)
  BY StepIsInBook, NextIsLifecycleStep
<1> QED
  BY <1>1, <1>2, LifecycleAlways, PTL DEF Spec, KeepsTheBook, Book!Spec

=============================================================================
