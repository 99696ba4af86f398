---------------------------- MODULE Collections ----------------------------
(***************************************************************************)
(* Money coming in: recordRepayment, called by tellers with a key of the   *)
(* client or a receipt, and for receipts of the mobile money provider by   *)
(* the C2B webhook and by the reconciliation desk.  Every call is one      *)
(* transaction at READ COMMITTED: its writes appear with its commit, and   *)
(* on its way it holds row and unique-index locks that others wait for.    *)
(* The webhook locks the event before the loan, the desk the loan before   *)
(* the event; PostgreSQL ends one transaction of a cycle of waits.         *)
(*                                                                         *)
(* A loan is collectible until its balance is zero.  Write-offs and other  *)
(* changes of status are in LoanServicing and ApprovalWorkflow.            *)
(***************************************************************************)
EXTENDS Integers, Sequences

CONSTANTS
    Loans,
    Receipts,       \* receipts of the provider
    Keys,           \* idempotency keys of the clients
    None,
    Principal,      \* loan -> what is owed at first
    AmountOf,       \* receipt -> what was paid
    LoansOf,        \* receipt -> what its account reference may resolve to
    SubmissionsOf,  \* teller -> repayments it submits, and submits again
    Tellers,        \* requests in progress, by who may make them
    Webhooks,
    Operators,
    MaxTotal        \* bound: a loan is charged up to this total

Callers == Tellers \union Webhooks \union Operators

Jobs == [loan : Loans \union {None}, amount : Nat \ {0},
         receipt : Receipts \union {None}, key : Keys \union {None}]

Submissions == UNION {SubmissionsOf[t] : t \in Tellers}

ASSUME CollectionsAssumption ==
    /\ None \notin Loans \union Receipts \union Keys
    /\ Principal \in [Loans -> Nat \ {0}]
    /\ AmountOf \in [Receipts -> Nat \ {0}]
    /\ LoansOf \in [Receipts -> SUBSET (Loans \union {None})]
    /\ SubmissionsOf \in [Tellers -> SUBSET Jobs]
    /\ \A s \in Submissions : s.loan # None /\
                               (s.receipt # None \/ s.key # None)
    /\ Tellers \intersect (Webhooks \union Operators) = {}
    /\ Webhooks \intersect Operators = {}
    /\ MaxTotal \in Nat

VARIABLES
    balance,        \* loan -> loans.balance
    repaid,         \* loan -> loans.repaid_total
    expected,       \* loan -> loans.expected_total
    repayments,     \* committed rows, the id of a row is its place
    event,          \* receipt -> its row of mobile_money_c2b_events
    pc,             \* caller -> the statement it is at
    job,            \* caller -> the repayment it records
    seen,           \* caller -> the balance it read
    confirmed       \* submissions answered with success

bookVars == <<balance, repaid, expected, repayments, event>>
callVars == <<pc, job, seen>>
vars == <<bookVars, callVars, confirmed>>

NoEvent == [status |-> "none", repayment |-> 0]

CollectionsInit ==
    /\ balance = Principal
    /\ repaid = [l \in Loans |-> 0]
    /\ expected = Principal
    /\ repayments = <<>>
    /\ event = [r \in Receipts |-> NoEvent]
    /\ pc = [p \in Callers |-> "idle"]
    /\ job = [p \in Callers |-> None]
    /\ seen = [p \in Callers |-> 0]
    /\ confirmed = {}

-----------------------------------------------------------------------------
(* What is committed *)

(* A key's row and the repayment it names are written by one transaction, so
   the key is kept with the repayment. *)
Keyed(j) == {i \in DOMAIN repayments :
                j.key # None /\ repayments[i].key = j.key /\
                repayments[i].loan = j.loan}

Booked(r) == {i \in DOMAIN repayments :
                r # None /\ repayments[i].receipt = r}

(* Mutant of Collectible: the status is not looked at. *)
CollectibleAlways(b) == b >= 0
Collectible(b) == b > 0

-----------------------------------------------------------------------------
(* Locks a transaction holds, and whom it waits for *)

HasEvent(p) ==
    p \in Webhooks /\ pc[p] \in {"reading", "updating", "inserting", "marking"}
HasKey(p) ==
    job[p].key # None /\ pc[p] \in {"updating", "inserting", "marking"}

(* Mutant of HasLoan: the loan is locked when it is read, before the key. *)
HasLoanEarly(p) == pc[p] \in {"keying", "updating", "inserting", "marking"}
HasLoan(p) == pc[p] \in {"inserting", "marking"}

HasReceipt(p) == job[p].receipt # None /\ pc[p] = "marking"

WaitsFor(p, q) ==
    /\ p # q
    /\ pc[p] # "idle" /\ pc[q] # "idle"
    /\ \/ /\ pc[p] = "locking" \/ (p \in Operators /\ pc[p] = "marking")
          /\ HasEvent(q) /\ job[q].receipt = job[p].receipt
       \/ /\ pc[p] = "keying"
          /\ HasKey(q) /\ job[q].loan = job[p].loan /\ job[q].key = job[p].key
       \/ /\ pc[p] = "updating"
          /\ HasLoan(q) /\ job[q].loan = job[p].loan
       \/ /\ pc[p] = "inserting"
          /\ HasReceipt(q) /\ job[q].receipt = job[p].receipt

Waits(p) == \E q \in Callers : WaitsFor(p, q)

(* Everybody in such a set waits for another of it and is waited for. *)
Deadlocked(p) ==
    /\ Waits(p)
    /\ \E cycle \in SUBSET Callers :
          /\ p \in cycle
          /\ \A q \in cycle : /\ \E r \in cycle : WaitsFor(q, r)
                              /\ \E r \in cycle : WaitsFor(r, q)

Goto(p, label) == pc' = [pc EXCEPT ![p] = label]
Begin(p, label, j) == Goto(p, label) /\ job' = [job EXCEPT ![p] = j]
Leave(p) ==
    /\ pc' = [pc EXCEPT ![p] = "idle"]
    /\ job' = [job EXCEPT ![p] = None]
    /\ seen' = [seen EXCEPT ![p] = 0]

-----------------------------------------------------------------------------
(* The callers *)

Submit(t, s) ==
    /\ pc[t] = "idle"
    /\ Begin(t, "reading", s)
    /\ UNCHANGED <<bookVars, seen, confirmed>>

Incoming(r, l) ==
    [loan |-> l, amount |-> AmountOf[r], receipt |-> r, key |-> None]

(* handleC2BWebhook: the event is inserted, or found, by a statement of its
   own; the loan is not known yet. *)
Receive(w, r) ==
    /\ pc[w] = "idle"
    /\ event' = [event EXCEPT ![r] = IF @ = NoEvent
                                     THEN [@ EXCEPT !.status = "received"]
                                     ELSE @]
    /\ Begin(w, "locking", Incoming(r, None))
    /\ UNCHANGED <<balance, repaid, expected, repayments, seen, confirmed>>

(* Mutant of RowFor: the last repayment is taken for the receipt's. *)
RowForLast(r) == Len(repayments)
RowFor(r) == CHOOSE i \in Booked(r) : TRUE

Reconciled(i) == [status |-> "reconciled", repayment |-> i]

(* processC2BEvent, once it has the event's lock: nothing to do for an event
   that is reconciled or was rejected. *)
FindDone(w) ==
    /\ pc[w] = "locking" /\ ~Waits(w)
    /\ event[job[w].receipt].status # "received"
    /\ Leave(w)
    /\ UNCHANGED <<bookVars, confirmed>>

LinkExisting(w) ==
    LET r == job[w].receipt IN
    /\ pc[w] = "locking" /\ ~Waits(w)
    /\ event[r].status = "received"
    /\ Booked(r) # {}
    /\ event' = [event EXCEPT ![r] = Reconciled(RowFor(r))]
    /\ Leave(w)
    /\ UNCHANGED <<balance, repaid, expected, repayments, confirmed>>

RejectUnmatched(w) ==
    LET r == job[w].receipt IN
    /\ pc[w] = "locking" /\ ~Waits(w)
    /\ event[r].status = "received"
    /\ Booked(r) = {}
    /\ None \in LoansOf[r]
    /\ event' = [event EXCEPT ![r].status = "rejected"]
    /\ Leave(w)
    /\ UNCHANGED <<balance, repaid, expected, repayments, confirmed>>

LockEvent(w) ==
    LET r == job[w].receipt IN
    /\ pc[w] = "locking" /\ ~Waits(w)
    /\ event[r].status = "received"
    /\ Booked(r) = {}
    /\ \E l \in LoansOf[r] \ {None} : Begin(w, "reading", Incoming(r, l))
    /\ UNCHANGED <<bookVars, seen, confirmed>>

Reconcilable(r) == event[r].status \in {"received", "rejected"}

(* reconcileC2BEventManually: status and repayments are looked at before the
   transaction.  A repayment found is linked by a statement of its own, which
   finds the same one if it comes later. *)
StartReconciliation(o, r, l) ==
    /\ pc[o] = "idle"
    /\ Reconcilable(r)
    /\ Booked(r) = {}
    /\ Begin(o, "reading", Incoming(r, l))
    /\ UNCHANGED <<bookVars, seen, confirmed>>

LinkManually(o, r) ==
    /\ pc[o] = "idle"
    /\ Reconcilable(r)
    /\ Booked(r) # {}
    /\ \A w \in Webhooks : HasEvent(w) => job[w].receipt # r
    /\ event' = [event EXCEPT ![r] = Reconciled(RowFor(r))]
    /\ UNCHANGED <<balance, repaid, expected, repayments, callVars, confirmed>>

-----------------------------------------------------------------------------
(* recordRepayment *)

(* Mutant of SameAmount: any amount is a repetition. *)
SameAmountOrNot(p, i) == TRUE
SameAmount(p, i) == repayments[i].amount = job[p].amount

Confirm(p) == confirmed' = confirmed \union ({job[p]} \intersect Submissions)

(* The loan is read and then the key; what a commit between the two changes
   is noticed by the update. *)
Replay(p) ==
    /\ pc[p] = "reading"
    /\ \E i \in Keyed(job[p]) : SameAmount(p, i)
    /\ Confirm(p)
    /\ Leave(p)
    /\ UNCHANGED bookVars

Read(p) ==
    /\ pc[p] = "reading"
    /\ Keyed(job[p]) = {}
    /\ seen' = [seen EXCEPT ![p] = balance[job[p].loan]]
    /\ Goto(p, IF job[p].key = None THEN "updating" ELSE "keying")
    /\ UNCHANGED <<bookVars, job, confirmed>>

TakeKey(p) ==
    /\ pc[p] = "keying" /\ ~Waits(p)
    /\ Keyed(job[p]) = {}
    /\ Goto(p, "updating")
    /\ UNCHANGED <<bookVars, job, seen, confirmed>>

(* Mutant of Applied: one instalment takes what it is due, not the loan. *)
AppliedToInstallment(p) == IF seen[p] = 0 THEN 0 ELSE 1
Applied(p) == IF job[p].amount < seen[p] THEN job[p].amount ELSE seen[p]

(* Mutant of Covered: the update goes by the loan's id and status. *)
CoveredOrNot(p) == TRUE
Covered(p) == balance[job[p].loan] >= Applied(p)

(* The status of the row read, then status and balance of the row now. *)
UpdateLoan(p) ==
    /\ pc[p] = "updating" /\ ~Waits(p)
    /\ Collectible(seen[p])
    /\ Collectible(balance[job[p].loan])
    /\ Covered(p)
    /\ Goto(p, "inserting")
    /\ UNCHANGED <<bookVars, job, seen, confirmed>>

InsertRepayment(p) ==
    /\ pc[p] = "inserting" /\ ~Waits(p)
    /\ Booked(job[p].receipt) = {}
    /\ Goto(p, "marking")
    /\ UNCHANGED <<bookVars, job, seen, confirmed>>

Row(p) == [loan |-> job[p].loan, amount |-> job[p].amount,
           applied |-> Applied(p), receipt |-> job[p].receipt,
           key |-> job[p].key]

(* Key, journal and event follow; a teller's answer may get lost. *)
Commit(p) ==
    LET l == job[p].loan  r == job[p].receipt IN
    /\ pc[p] = "marking" /\ ~Waits(p)
    /\ balance' = [balance EXCEPT ![l] =
                    IF @ <= Applied(p) THEN 0 ELSE @ - Applied(p)]
    /\ repaid' = [repaid EXCEPT ![l] = @ + Applied(p)]
    /\ repayments' = Append(repayments, Row(p))
    /\ IF p \in Tellers THEN UNCHANGED event
       ELSE /\ Reconcilable(r)
            /\ event' = [event EXCEPT ![r] = Reconciled(Len(repayments) + 1)]
    /\ Confirm(p) \/ UNCHANGED confirmed
    /\ Leave(p)
    /\ UNCHANGED expected

(* Mutant of KeyLost: who loses the race for the key looks for it again. *)
KeyNeverLost(p) == FALSE
KeyLost(p) == pc[p] = "keying" /\ Keyed(job[p]) # {}

OtherAmount(p) ==
    pc[p] = "reading" /\ \E i \in Keyed(job[p]) : ~SameAmount(p, i)
NotPayable(p) ==
    /\ pc[p] = "updating"
    /\ ~(Collectible(seen[p]) /\ Collectible(balance[job[p].loan]) /\ Covered(p))
ReceiptLost(p) == pc[p] = "inserting" /\ Booked(job[p].receipt) # {}

(* The transaction rolls back.  The webhook writes "rejected" to the event and
   throws in the same transaction: the event is as it was. *)
RollBack(p) == Leave(p) /\ UNCHANGED <<bookVars, confirmed>>

Refuse(p) ==
    /\ OtherAmount(p) \/ KeyLost(p) \/ NotPayable(p) \/ ReceiptLost(p)
    /\ ~Waits(p)
    /\ RollBack(p)

BreakDeadlock(p) == Deadlocked(p) /\ RollBack(p)

(* A statement fails, a transaction times out, or the process dies. *)
Interrupt(p) == pc[p] # "idle" /\ RollBack(p)

(* The penalty engine's update of a loan. *)
ChargePenalty(l) ==
    /\ Collectible(balance[l])
    /\ \A p \in Callers : HasLoan(p) => job[p].loan # l
    /\ expected[l] < MaxTotal
    /\ balance' = [balance EXCEPT ![l] = @ + 1]
    /\ expected' = [expected EXCEPT ![l] = @ + 1]
    /\ UNCHANGED <<repaid, repayments, event, callVars, confirmed>>

-----------------------------------------------------------------------------

Step(p) ==
    \/ FindDone(p) \/ LinkExisting(p) \/ RejectUnmatched(p) \/ LockEvent(p)
    \/ Replay(p) \/ Read(p) \/ TakeKey(p) \/ UpdateLoan(p)
    \/ InsertRepayment(p) \/ Commit(p)
    \/ Refuse(p) \/ BreakDeadlock(p)

CollectionsNext ==
    \/ \E t \in Tellers : \E s \in SubmissionsOf[t] : Submit(t, s)
    \/ \E w \in Webhooks, r \in Receipts : Receive(w, r)
    \/ \E o \in Operators, r \in Receipts :
          LinkManually(o, r) \/ \E l \in Loans : StartReconciliation(o, r, l)
    \/ \E p \in Callers : Step(p) \/ Interrupt(p)
    \/ \E l \in Loans : ChargePenalty(l)

CollectionsSpec == CollectionsInit /\ [][CollectionsNext]_vars

(* Statements follow each other by themselves, and waits for a lock are
   queued: a transaction that can go on again and again goes on. *)
FairCollectionsSpec ==
    /\ CollectionsSpec
    /\ \A p \in Callers : SF_vars(Step(p))

-----------------------------------------------------------------------------
(* What the callers guarantee *)

Rows == [loan : Loans, amount : Nat \ {0}, applied : Nat \ {0},
         receipt : Receipts \union {None}, key : Keys \union {None}]
Events == [status : {"none", "received", "rejected", "reconciled"},
           repayment : Nat]

(* Types: every repayment reduced a balance, balances are not negative. *)
CollectionsTypeOK ==
    /\ balance \in [Loans -> Nat]
    /\ repaid \in [Loans -> Nat]
    /\ expected \in [Loans -> Nat]
    /\ repayments \in Seq(Rows)
    /\ event \in [Receipts -> Events]
    /\ pc \in [Callers -> {"idle", "locking", "reading", "keying", "updating",
                           "inserting", "marking"}]
    /\ job \in [Callers -> Jobs \union {None}]
    /\ \A p \in Callers :
          IF pc[p] = "idle" THEN job[p] = None ELSE job[p] \in Jobs
    /\ seen \in [Callers -> Nat]
    /\ confirmed \subseteq Submissions

(* A reconciled event names the repayment of its receipt, and an event names
   no repayment before, whoever reconciled it and by which path. *)
ReconciledIsBooked ==
    \A r \in Receipts :
        IF event[r].status = "reconciled"
        THEN event[r].repayment \in Booked(r)
        ELSE event[r].repayment = 0

(* A submission answered with success is booked as submitted: by its key, with
   its amount and on its loan, or by its receipt when it has no key. *)
ConfirmedIsBooked ==
    \A s \in confirmed :
        \E i \in IF s.key # None THEN Keyed(s) ELSE Booked(s.receipt) :
            /\ repayments[i].loan = s.loan
            /\ repayments[i].amount = s.amount

(* A borrower has a credit only when the loan is paid off, unless a penalty
   was charged: an overpayment measured against an old balance is refused. *)
CreditAtPayoff ==
    \A i \in DOMAIN repayments :
        LET row == repayments[i] IN
        row.amount > row.applied /\ expected[row.loan] = Principal[row.loan]
            => balance[row.loan] = 0

(* Event, key, loan and receipt are taken in one order by everybody but the desk,
   which comes to the event last: callers that wait for each other in a circle
   have a desk among them that waits for a webhook.  Tellers and webhooks by
   themselves never end in a deadlock. *)
OnlyDesksDeadlock ==
    \A circle \in SUBSET {p \in Callers : Waits(p)} :
        circle # {} /\ (\A p \in circle : \E q \in circle : WaitsFor(p, q)) =>
            \E o \in circle \intersect Operators, w \in circle \intersect Webhooks :
                WaitsFor(o, w)

(* Every call ends: the two orders of locking event and loan meet in cycles of
   waits, and no answer waits for ever. *)
CallsEnd == \A p \in Callers : pc[p] # "idle" ~> pc[p] = "idle"

Ledger == INSTANCE PaymentLedger WITH
    balance  <- balance,
    repaid   <- repaid,
    Amounts  <- {s.amount : s \in Submissions} \union
                {AmountOf[r] : r \in Receipts},
    receipts <- {r \in Receipts : Booked(r) # {}},
    keys     <- {x \in Loans \X Keys :
                    Keyed([loan |-> x[1], key |-> x[2]]) # {}},
    settled  <- {r \in Receipts : event[r].status = "reconciled"}

(* The callers keep the ledger's promise: a receipt or a key is booked once,
   against the balance there is, and what is settled is booked and final. *)
BooksOnce == Ledger!LedgerSpec

=============================================================================
