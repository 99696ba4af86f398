--------------------------- MODULE LoanServicing ---------------------------
(***************************************************************************)
(* A disbursed loan beside those who write its row: borrowers' repayments, *)
(* the penalty engine and the overdue job.  ApprovalWorkflow adds the      *)
(* high-risk operations.                                                   *)
(*                                                                         *)
(* A step is one statement at READ COMMITTED, or a transaction whose other *)
(* statements touch nothing anybody else writes.  A transaction that has   *)
(* updated a loan keeps the row's lock until it ends: "holder" names it,   *)
(* and every other update of the row waits.                                *)
(***************************************************************************)
EXTENDS Integers

CONSTANTS
    Loans,          \* disbursed loans
    Totals,         \* amounts a contract may come to, in cents
    MaxTotal,       \* bound: the most a loan may come to owe, or the
                    \* receivable to stray from it
    Charges,        \* amounts of one penalty, in cents
    SyncJobs,       \* processes that run the overdue job
    PenaltyJobs,    \* processes that run the penalty engine
    Users,          \* back-office users: their transactions hold row locks
    None            \* no user, no loan

ASSUME ServicingAssumption ==
    /\ MaxTotal \in Nat
    /\ Totals \subseteq 1 .. MaxTotal
    /\ Charges \subseteq Nat \ {0}
    /\ None \notin Loans
    /\ None \notin Users

VARIABLES
    loan,           \* loans: status, balance, expected_total
    receivable,     \* balance of LOAN_RECEIVABLE over the loan's journals
    holder,         \* loan -> the user whose open transaction updated its row
    synced,         \* overdue job -> the loan it has loaded, and its row then
    charging        \* penalty job -> the loan whose instalment it has read

servicingVars == <<loan, receivable, holder, synced, charging>>

Collectible == {"active", "restructured", "overdue"}

RowStatus == Collectible \union {"closed", "written_off"}

(* repaid_total is expected - balance in every statement below. *)
Rows == [status : RowStatus, balance : Nat, expected : Nat]

NoRow == [status |-> "none", balance |-> 0, expected |-> 0]

NotLoaded == [loan |-> None, row |-> NoRow]

(* disburseLoan has debited the receivable with principal and interest. *)
ServicingInit ==
    /\ loan \in [Loans -> {[status |-> "active", balance |-> t, expected |-> t] : t \in Totals}]
    /\ receivable = [l \in Loans |-> loan[l].balance]
    /\ holder = [l \in Loans |-> None]
    /\ synced = [j \in SyncJobs |-> NotLoaded]
    /\ charging = [p \in PenaltyJobs |-> None]

Unlocked(l) == holder[l] = None

-----------------------------------------------------------------------------
(* Repayment: one UPDATE that tests status and balance, the allocation and the
   journal follow in its transaction.  What exceeds the balance becomes a
   credit of the borrower and touches neither the row nor the receivable. *)

(* Mutant of MayRepay: the status is not tested again. *)
MayRepayAnyStatus(l, applied) == loan[l].balance >= applied

MayRepay(l, applied) ==
    loan[l].status \in Collectible /\ loan[l].balance >= applied

StatusAfterRepayment(row, applied) ==
    CASE row.balance = applied -> "closed"
      [] row.balance # applied /\ row.status = "restructured" -> "restructured"
      [] OTHER -> "active"

Repaid(row, applied) ==
    [status |-> StatusAfterRepayment(row, applied),
     balance |-> row.balance - applied, expected |-> row.expected]

RecordRepayment(l, applied) ==
    /\ Unlocked(l)
    /\ MayRepay(l, applied)
    /\ loan' = [loan EXCEPT ![l] = Repaid(@, applied)]
    /\ receivable' = [receivable EXCEPT ![l] = @ - applied]
    /\ UNCHANGED <<holder, synced, charging>>

-----------------------------------------------------------------------------
(* Penalty engine: one transaction per overdue instalment. *)

ReadInstallment(p, l) ==
    /\ charging[p] = None
    /\ loan[l].status \in Collectible
    /\ charging' = [charging EXCEPT ![p] = l]
    /\ UNCHANGED <<loan, receivable, holder, synced>>

Charged(row, amount) ==
    IF row.status \in Collectible
    THEN [status |-> row.status, balance |-> row.balance + amount,
          expected |-> row.expected + amount]
    ELSE row

(* A closed loan's instalments are paid, so the update of the instalment finds
   no overdue one.  Nothing in a write-off touches the instalments: the row is
   left alone then and the journal is posted all the same. *)
ApplyPenalty(p, amount) ==
    LET l == charging[p] IN
    /\ l # None
    /\ Unlocked(l)
    /\ loan[l].status # "closed"
    /\ loan[l].expected + amount <= MaxTotal
    /\ receivable[l] + amount <= MaxTotal
    /\ loan' = [loan EXCEPT ![l] = Charged(@, amount)]
    /\ receivable' = [receivable EXCEPT ![l] = @ + amount]
    /\ charging' = [charging EXCEPT ![p] = None]
    /\ UNCHANGED <<holder, synced>>

(* Within grace, at its cap, no longer overdue, or the transaction failed. *)
SkipPenalty(p) ==
    /\ charging[p] # None
    /\ charging' = [charging EXCEPT ![p] = None]
    /\ UNCHANGED <<loan, receivable, holder, synced>>

-----------------------------------------------------------------------------
(* Overdue job: a loan with an overdue instalment is loaded as an aggregate,
   marked, and saved with every column as loaded. *)

LoadForSync(j, l) ==
    /\ synced[j] = NotLoaded
    /\ loan[l].status \in {"active", "restructured"}
    /\ synced' = [synced EXCEPT ![j] = [loan |-> l, row |-> loan[l]]]
    /\ UNCHANGED <<loan, receivable, holder, charging>>

Overdue(row) == [row EXCEPT !.status = "overdue"]

SaveOverdue(j) ==
    LET l == synced[j].loan IN
    /\ synced[j] # NotLoaded
    /\ Unlocked(l)
    /\ loan' = [loan EXCEPT ![l] = Overdue(synced[j].row)]
    /\ synced' = [synced EXCEPT ![j] = NotLoaded]
    /\ UNCHANGED <<receivable, holder, charging>>

-----------------------------------------------------------------------------

ServicingNext ==
    \/ \E l \in Loans, applied \in 1 .. MaxTotal :
          receivable[l] - applied >= -MaxTotal /\ RecordRepayment(l, applied)
    \/ \E p \in PenaltyJobs, l \in Loans : ReadInstallment(p, l)
    \/ \E p \in PenaltyJobs, amount \in Charges : ApplyPenalty(p, amount)
    \/ \E p \in PenaltyJobs : SkipPenalty(p)
    \/ \E j \in SyncJobs, l \in Loans : LoadForSync(j, l)
    \/ \E j \in SyncJobs : SaveOverdue(j)

-----------------------------------------------------------------------------
(* Properties *)

(* Amounts owed are never negative and locks belong to users, whoever wrote the
   rows and in which order. *)
ServicingTypeOK ==
    /\ loan \in [Loans -> Rows]
    /\ \A l \in Loans : loan[l].balance <= loan[l].expected
    /\ receivable \in [Loans -> Int]
    /\ holder \in [Loans -> Users \union {None}]
    /\ synced \in [SyncJobs -> [loan : Loans, row : Rows] \union {NotLoaded}]
    /\ \A j \in SyncJobs : synced[j].row.balance <= synced[j].row.expected
    /\ charging \in [PenaltyJobs -> Loans \union {None}]

=============================================================================
