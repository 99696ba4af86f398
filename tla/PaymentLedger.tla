--------------------------- MODULE PaymentLedger ---------------------------
(***************************************************************************)
(* What the tellers, the webhook and the reconciliation desk promise of    *)
(* payments: one that is known by a receipt of the provider or by a key of *)
(* the client is booked once, against the balance of one loan, and a       *)
(* receipt that is settled is booked and stays settled.                    *)
(***************************************************************************)
EXTENDS Integers

CONSTANTS Loans, Principal, Amounts, Receipts, Keys

VARIABLES
    balance,        \* loan -> what is owed
    repaid,         \* loan -> what was paid on it
    receipts,       \* receipts booked
    keys,           \* <<loan, key>> booked
    settled         \* receipts reported as reconciled

vars == <<balance, repaid, receipts, keys, settled>>

Init ==
    /\ balance = Principal
    /\ repaid = [l \in Loans |-> 0]
    /\ receipts = {}
    /\ keys = {}
    /\ settled = {}

(* A payment of amount a; what is not applied is the borrower's credit. *)
Book(l, a, rs, ks) ==
    /\ rs \intersect receipts = {}
    /\ ks \intersect keys = {}
    /\ rs # {} \/ ks # {}
    /\ \E applied \in 1..a :
          /\ applied <= balance[l]
          /\ balance' = [balance EXCEPT ![l] = @ - applied]
          /\ repaid' = [repaid EXCEPT ![l] = @ + applied]
    /\ receipts' = receipts \union rs
    /\ keys' = keys \union ks
    /\ settled' = settled \/ settled' = settled \union rs

Settle(r) ==
    /\ r \in receipts
    /\ settled' = settled \union {r}
    /\ UNCHANGED <<balance, repaid, receipts, keys>>

(* A penalty is added to a loan that is not paid off. *)
Charge(l) ==
    /\ balance[l] > 0
    /\ balance' = [balance EXCEPT ![l] = @ + 1]
    /\ UNCHANGED <<repaid, receipts, keys, settled>>

AtMostOne(S) == {{}} \union {{x} : x \in S}

Next ==
    \/ \E l \in Loans, a \in Amounts, rs \in AtMostOne(Receipts),
          ks \in AtMostOne(Loans \X Keys) : Book(l, a, rs, ks)
    \/ \E r \in Receipts : Settle(r)
    \/ \E l \in Loans : Charge(l)

LedgerSpec == Init /\ [][Next]_vars

=============================================================================
