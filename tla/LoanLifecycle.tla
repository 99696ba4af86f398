--------------------------- MODULE LoanLifecycle ---------------------------
(***************************************************************************)
(* A loan from its application to its final disbursement: createLoan,      *)
(* approveLoan, rejectLoan and disburseLoan, as concurrent requests of one *)
(* or more server processes on one Postgres database.  A step is one       *)
(* statement, or a group of statements no other request can tell from one. *)
(* Transactions run at READ COMMITTED: a statement sees what is committed  *)
(* when it runs, so two requests may both read before either commits.      *)
(*                                                                         *)
(* Amounts are cents; the 0.01 tolerance of the code is one cent.          *)
(***************************************************************************)
EXTENDS Integers, FiniteSets

CONSTANTS
    Loans,          \* loan applications
    ClientOf,       \* loans.client_id
    Principal,      \* loans.principal, in cents
    Charged,        \* loans with contractual interest or upfront fees
    Staff,          \* users who may reach the approve and reject routes
    Admins,         \* those of them with the admin role
    CreatedBy,      \* loans.created_by_user_id
    OfficerOf,      \* loans.officer_id
    Callers,        \* requests that may be inside disburseLoan at once
    Amounts,        \* amounts a caller may ask for, in cents
    AllowConcurrentLoans,   \* ALLOW_CONCURRENT_LOANS, off by default
    MaxFaults,      \* bound: failed statements, lost replies and crashes
    None            \* SQL NULL

ASSUME ConstantsAssumption ==
    /\ ClientOf \in [Loans -> UNION {{ClientOf[l]} : l \in Loans}]
    /\ Principal \in [Loans -> Nat \ {0}]
    /\ Charged \subseteq Loans
    /\ Admins \subseteq Staff
    /\ CreatedBy \in [Loans -> Staff]
    /\ OfficerOf \in [Loans -> Staff \union {None}]
    /\ Amounts \subseteq Nat \ {0}
    /\ AllowConcurrentLoans \in BOOLEAN
    /\ MaxFaults \in Nat
    /\ None \notin Staff
    /\ None \notin Loans

ASSUME CallersAssumption == IsFiniteSet(Callers)

VARIABLES
    status,         \* loans.status
    approvedBy,     \* loans.approved_by_user_id
    deciding,       \* staff -> the approve or reject request in flight
    disbursed,      \* loan -> sum of its tranches' amounts
    tranches,       \* loan -> number of tranches; they are numbered 1, 2, ...
    finals,         \* loan -> number of its tranches that are final
    finalized,      \* loans with a loan_disbursement_finalize journal
    pc,             \* caller -> where its disburseLoan call stands
    call,           \* caller -> arguments and values read by that call
    faults          \* faults so far

loanVars == <<status, approvedBy>>
moneyVars == <<disbursed, tranches, finals, finalized>>
callVars == <<pc, call>>
lifecycleVars ==
    <<status, approvedBy, deciding, disbursed, tranches, finals, finalized,
      pc, call, faults>>

LoanStatus == {"none", "pending_approval", "approved", "rejected", "active"}

Idle == [loan |-> None, op |-> "none"]

NoCall == [loan |-> None, ask |-> 0, seen |-> 0, amount |-> 0,
           final |-> FALSE, number |-> 0]

(* No amount in the request: disburse what remains. *)
Remaining == 0

Init ==
    /\ status = [l \in Loans |-> "none"]
    /\ approvedBy = [l \in Loans |-> None]
    /\ deciding = [u \in Staff |-> Idle]
    /\ disbursed = [l \in Loans |-> 0]
    /\ tranches = [l \in Loans |-> 0]
    /\ finals = [l \in Loans |-> 0]
    /\ finalized = {}
    /\ pc = [c \in Callers |-> "idle"]
    /\ call = [c \in Callers |-> NoCall]
    /\ faults = 0

-----------------------------------------------------------------------------
(* Origination *)

(* The client row is locked first, so the check and the insert are one step.
   Only a disbursed loan of the client stands in the way, unless the option
   lets it; pending and approved ones do not. *)
HasLoanInFlight(client) ==
    \E l \in Loans : ClientOf[l] = client /\ status[l] = "active"

CreateLoan(l) ==
    /\ status[l] = "none"
    /\ AllowConcurrentLoans \/ ~HasLoanInFlight(ClientOf[l])
    /\ status' = [status EXCEPT ![l] = "pending_approval"]
    /\ UNCHANGED <<approvedBy, deciding, moneyVars, callVars, faults>>

-----------------------------------------------------------------------------
(* Approval and rejection: the request reads the loan and checks it, and later
   updates the row by id alone.  Nothing ties the update to the status read. *)

(* Mutant of MayDecide: the loan's officer is forgotten. *)
MayDecideUnlessCreator(u, l) == u \in Admins \/ u # CreatedBy[l]

MayDecide(u, l) == u \in Admins \/ u \notin {CreatedBy[l], OfficerOf[l]}

(* The approval also needs an application without blockers and, if configured,
   a verified client; a request without them ends here and changes nothing. *)
ReadForDecision(u, l, op) ==
    /\ deciding[u] = Idle
    /\ status[l] = "pending_approval"
    /\ MayDecide(u, l)
    /\ deciding' = [deciding EXCEPT ![u] = [loan |-> l, op |-> op]]
    /\ UNCHANGED <<loanVars, moneyVars, callVars, faults>>

ApproveLoan(u) ==
    LET l == deciding[u].loan IN
    /\ deciding[u].op = "approve"
    /\ status' = [status EXCEPT ![l] = "approved"]
    /\ approvedBy' = [approvedBy EXCEPT ![l] = u]
    /\ deciding' = [deciding EXCEPT ![u] = Idle]
    /\ UNCHANGED <<moneyVars, callVars, faults>>

RejectLoan(u) ==
    LET l == deciding[u].loan IN
    /\ deciding[u].op = "reject"
    /\ status' = [status EXCEPT ![l] = "rejected"]
    /\ deciding' = [deciding EXCEPT ![u] = Idle]
    /\ UNCHANGED <<approvedBy, moneyVars, callVars, faults>>

-----------------------------------------------------------------------------
(* Disbursement.  A caller c goes idle, checked, rechecked, sized, numbered,
   committed and ends in ok or failed; every failure before the commit rolls
   back. *)

Goto(c, where) ==
    /\ pc' = [pc EXCEPT ![c] = where]
    /\ UNCHANGED call

(* Mutant of FirstLook: a loan past approval counts as disbursed. *)
FirstLookAtApprovalOnly(l, inScope) ==
    CASE ~inScope -> "failed"
      [] inScope /\ status[l] = "approved" -> "checked"
      [] inScope /\ status[l] \in {"active", "rejected"} -> "ok"
      [] OTHER -> "failed"

(* The request is authorised and looks at the loan outside the transaction.
   An active loan is a success, whoever made it active. *)
FirstLook(l, inScope) ==
    CASE ~inScope -> "failed"
      [] inScope /\ status[l] = "active" -> "ok"
      [] inScope /\ status[l] = "approved" -> "checked"
      [] OTHER -> "failed"

StartDisburse(c, l, ask, inScope) ==
    /\ pc[c] = "idle"
    /\ pc' = [pc EXCEPT ![c] = FirstLook(l, inScope)]
    /\ call' = [call EXCEPT ![c] = [NoCall EXCEPT !.loan = l, !.ask = ask]]
    /\ UNCHANGED <<loanVars, deciding, moneyVars, faults>>

RemainingOf(l) == Principal[l] - disbursed[l]

(* Mutant of SomethingRemains: off by one. *)
NothingOwed(l) == RemainingOf(l) >= 0

SomethingRemains(l) == RemainingOf(l) > 0

(* Mutant of Resolutions: every accepted amount is final. *)
ResolutionsAllFinal(remaining, ask) ==
    LET amount == IF ask = Remaining THEN remaining ELSE ask
    IN {[amount |-> a, final |-> TRUE] : a \in {amount} \intersect (1 .. remaining)}

(* Mutant of Resolutions: an amount above the remainder is not refused. *)
ResolutionsUnlimited(remaining, ask) ==
    IF ask = Remaining THEN {[amount |-> remaining, final |-> TRUE]}
                       ELSE {[amount |-> ask, final |-> ask >= remaining]}

(* resolveDisbursementRequest: an amount within one cent of what remains is
   final.  At exactly one cent of difference binary floating point decides
   whether it is within; over the remainder the same comparison decides between
   a final disbursement and a refusal.  An explicit finalDisbursement flag only
   turns non-final requests away. *)
Resolutions(remaining, ask) ==
    LET amount == IF ask = Remaining THEN remaining ELSE ask IN
    {r \in [amount : {amount}, final : BOOLEAN] :
        IF r.final THEN amount \in (remaining - 1) .. (remaining + 1)
                   ELSE amount <= remaining - 1}

Sized(request, sum, r) ==
    [request EXCEPT !.seen = sum, !.amount = r.amount, !.final = r.final]

(* Inside the transaction the status is read again. *)
Recheck(c) ==
    /\ pc[c] = "checked"
    /\ status[call[c].loan] = "approved"
    /\ Goto(c, "rechecked")
    /\ UNCHANGED <<loanVars, deciding, moneyVars, faults>>

(* A statement later the tranches are summed, and the amount resolved. *)
SizeDisbursement(c) ==
    LET l == call[c].loan IN
    /\ pc[c] = "rechecked"
    /\ SomethingRemains(l)
    /\ \E r \in Resolutions(RemainingOf(l), call[c].ask) :
          call' = [call EXCEPT ![c] = Sized(@, disbursed[l], r)]
    /\ pc' = [pc EXCEPT ![c] = "sized"]
    /\ UNCHANGED <<loanVars, deciding, moneyVars, faults>>

RefuseDisbursement(c) ==
    LET l == call[c].loan IN
    /\ \/ pc[c] = "checked" /\ status[l] # "approved"
       \/ /\ pc[c] = "rechecked"
          /\ ~SomethingRemains(l) \/ call[c].ask > RemainingOf(l)
    /\ Goto(c, "failed")
    /\ UNCHANGED <<loanVars, deciding, moneyVars, faults>>

(* appendDisbursementTrancheTx reads the highest number.  The insert comes
   next, and a second insert of the same number waits for the first one's
   transaction: whichever commits keeps the number. *)
NumberTranche(c) ==
    /\ pc[c] = "sized"
    /\ pc' = [pc EXCEPT ![c] = "numbered"]
    /\ call' = [call EXCEPT ![c].number = tranches[call[c].loan] + 1]
    /\ UNCHANGED <<loanVars, deciding, moneyVars, faults>>

NumberIsFree(c) == tranches[call[c].loan] < call[c].number

(* Mutant of MayFinalize: the journal's unique reference is not checked. *)
MayActivate(l) == status[l] = "approved"

(* Mutant of MayFinalize: the loan is updated by id alone. *)
MayFinalizeAny(l) == l \notin finalized

(* The final path updates the loan only if it is still approved, and posts the
   finalisation journal under the loan's id, once. *)
MayFinalize(l) == status[l] = "approved" /\ l \notin finalized

(* One tranche row stands for all its transaction writes with it: the cash
   transaction, the principal journal, the contract version, the event. *)
AppendTranche(c) ==
    LET l == call[c].loan IN
    /\ disbursed' = [disbursed EXCEPT ![l] = @ + call[c].amount]
    /\ tranches' = [tranches EXCEPT ![l] = @ + 1]

(* A tranche that is not final: the loan row is neither locked nor checked. *)
CommitTranche(c) ==
    /\ pc[c] = "numbered"
    /\ ~call[c].final
    /\ NumberIsFree(c)
    /\ AppendTranche(c)
    /\ Goto(c, "committed")
    /\ UNCHANGED <<loanVars, deciding, finals, finalized, faults>>

CommitFinal(c) ==
    LET l == call[c].loan IN
    /\ pc[c] = "numbered"
    /\ call[c].final
    /\ NumberIsFree(c)
    /\ MayFinalize(l)
    /\ AppendTranche(c)
    /\ finals' = [finals EXCEPT ![l] = @ + 1]
    /\ finalized' = finalized \union ({l} \intersect Charged)
    /\ status' = [status EXCEPT ![l] = "active"]
    /\ Goto(c, "committed")
    /\ UNCHANGED <<approvedBy, deciding, faults>>

LoseToOther(c) ==
    /\ pc[c] = "numbered"
    /\ \/ ~NumberIsFree(c)
       \/ call[c].final /\ ~MayFinalize(call[c].loan)
    /\ Goto(c, "failed")
    /\ UNCHANGED <<loanVars, deciding, moneyVars, faults>>

(* After the commit only the audit record, a read and a cache are left. *)
Answer(c) ==
    /\ pc[c] = "committed"
    /\ Goto(c, "ok")
    /\ UNCHANGED <<loanVars, deciding, moneyVars, faults>>

(* A statement fails, the transaction times out, or what follows the commit
   throws: the caller sees a failure either way. *)
FailDisbursement(c) ==
    /\ pc[c] \in {"checked", "rechecked", "sized", "numbered", "committed"}
    /\ faults < MaxFaults
    /\ faults' = faults + 1
    /\ Goto(c, "failed")
    /\ UNCHANGED <<loanVars, deciding, moneyVars>>

Reset(c) ==
    /\ pc' = [pc EXCEPT ![c] = "idle"]
    /\ call' = [call EXCEPT ![c] = NoCall]

Return(c) ==
    /\ pc[c] \in {"ok", "failed"}
    /\ Reset(c)
    /\ UNCHANGED <<loanVars, deciding, moneyVars, faults>>

DisburseStep(c) ==
    \/ Recheck(c)
    \/ SizeDisbursement(c)
    \/ RefuseDisbursement(c)
    \/ NumberTranche(c)
    \/ CommitTranche(c)
    \/ CommitFinal(c)
    \/ LoseToOther(c)
    \/ Answer(c)

-----------------------------------------------------------------------------

(* The server process dies: requests in flight are gone, their uncommitted
   transactions roll back, and the database is what it was. *)
ForgetRequests ==
    /\ faults < MaxFaults
    /\ faults' = faults + 1
    /\ deciding' = [u \in Staff |-> Idle]
    /\ pc' = [c \in Callers |-> "idle"]
    /\ call' = [c \in Callers |-> NoCall]

Crash == ForgetRequests /\ UNCHANGED <<loanVars, moneyVars>>

Decide ==
    \/ \E l \in Loans : CreateLoan(l)
    \/ \E u \in Staff, l \in Loans, op \in {"approve", "reject"} :
          ReadForDecision(u, l, op)
    \/ \E u \in Staff : ApproveLoan(u)
    \/ \E u \in Staff : RejectLoan(u)

Next ==
    \/ Decide
    \/ \E c \in Callers, l \in Loans, ask \in Amounts \union {Remaining} :
          status[l] # "none" /\ StartDisburse(c, l, ask, TRUE)
    \/ \E c \in Callers : DisburseStep(c)
    \/ \E c \in Callers : FailDisbursement(c)
    \/ \E c \in Callers : Return(c)
    \/ Crash

Spec == Init /\ [][Next]_lifecycleVars

-----------------------------------------------------------------------------
(* Properties *)

Request == [loan : Loans, op : {"approve", "reject"}]

PC == {"idle", "checked", "rechecked", "sized", "numbered", "committed", "ok", "failed"}

Call == [loan : Loans \union {None}, ask : Amounts \union {Remaining},
         seen : Nat, amount : Nat, final : BOOLEAN, number : Nat]

(* Past the check of the remainder, an amount and a tranche are positive. *)
CallTyped(c) ==
    /\ pc[c] # "idle" => call[c].loan \in Loans
    /\ pc[c] \in {"sized", "numbered"} => call[c].amount > 0
    /\ pc[c] = "numbered" => call[c].number > 0

TypeOK ==
    /\ status \in [Loans -> LoanStatus]
    /\ approvedBy \in [Loans -> Staff \union {None}]
    /\ deciding \in [Staff -> Request \union {Idle}]
    /\ disbursed \in [Loans -> Nat]
    /\ tranches \in [Loans -> Nat]
    /\ finals \in [Loans -> Nat]
    /\ finalized \subseteq Charged
    /\ pc \in [Callers -> PC]
    /\ call \in [Callers -> Call]
    /\ faults \in 0 .. MaxFaults
    /\ \A c \in Callers : CallTyped(c)

(* An active loan has its whole principal out, to the cent of tolerance, even
   when tranches of other requests land while the final one is in flight:
   disburseLoan sums the tranches long before it makes the loan active. *)
ActiveImpliesFunded ==
    \A l \in Loans : status[l] = "active" => disbursed[l] >= Principal[l] - 1

(* A loan with interest or fees is finalised once in its life, although a late
   approval can put it back to approved and its tolerance leave a cent to
   disburse: the unique reference of the finalisation journal stops a second
   charge of the fees. *)
ChargedOnce == \A l \in Charged : finals[l] <= 1

(* Money leaves only for a loan somebody entitled to decide on it approved,
   whatever later decisions did to its status: the approver is neither its
   creator nor its officer, unless an admin. *)
MoneyBehindApproval ==
    \A l \in Loans :
        tranches[l] > 0 =>
            /\ approvedBy[l] # None
            /\ approvedBy[l] \in {CreatedBy[l], OfficerOf[l]} => approvedBy[l] \in Admins

(* disburseLoan answers a request for the remainder with success only if the
   loan's final tranche is booked, by this request or by another one it met. *)
OkMeansBooked ==
    \A c \in Callers :
        pc[c] = "ok" /\ call[c].ask = Remaining => finals[call[c].loan] > 0

(* The tranches of a loan never exceed its principal by more than the cent of
   tolerance ("Disbursement amount exceeds approved remaining principal"). *)
PrincipalNeverOverdrawn ==
    \A l \in Loans : disbursed[l] <= Principal[l] + 1

(* What does hold of the principal: the tranches of a loan exceed it only by what
   requests in flight together may each take for the remainder.  So they stay
   within the principal plus a cent, times the number of requests that may be in
   flight, however many come one after the other and whatever late approvals
   reopen. *)
OverdrawBounded ==
    \A l \in Loans : disbursed[l] <= Cardinality(Callers) * (Principal[l] + 1)

(* Requests on any number of servers, with what they read long before they write,
   keep the book of a loan: decisions are of entitled users, every payment stands
   behind one and within the limit, completion finds the loan approved. *)
Book ==
    INSTANCE LoanBook
    WITH Deciders <- [l \in Loans |-> {u \in Staff : MayDecide(u, l)}],
         Limit <- [l \in Loans |-> Cardinality(Callers) * (Principal[l] + 1)]

KeepsTheBook == Book!Spec

(* LoanStatus lists rejected among the "statuses from which no further mutations
   are allowed". *)
RejectedIsTerminal ==
    [][\A l \in Loans :
          status[l] = "rejected" =>
              /\ status'[l] = "rejected"
              /\ disbursed'[l] = disbursed[l]]_<<status, disbursed>>

=============================================================================
