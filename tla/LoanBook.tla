------------------------------ MODULE LoanBook ------------------------------
(***************************************************************************)
(* What the record of a loan promises to whoever reads it, whichever       *)
(* requests, jobs and processes write it: who approves, what is paid out   *)
(* and behind what, and when a loan is complete.                           *)
(***************************************************************************)
EXTENDS Integers

CONSTANTS
    Loans,          \* loan applications
    ClientOf,       \* the client of each
    Principal,      \* the amount of each, in cents
    Charged,        \* loans with interest or fees
    Deciders,       \* loan -> the users entitled to decide on it
    Limit,          \* loan -> the most that may ever be out on it
    AllowConcurrentLoans,   \* whether a client may apply beside an active loan
    None            \* SQL NULL

VARIABLES
    status,         \* where each loan stands
    approvedBy,     \* who approved it last
    disbursed,      \* what was paid out on it
    tranches,       \* in how many parts
    finals          \* how many of them completed it

bookVars == <<status, approvedBy, disbursed, tranches, finals>>

Init ==
    /\ status = [l \in Loans |-> "none"]
    /\ approvedBy = [l \in Loans |-> None]
    /\ disbursed = [l \in Loans |-> 0]
    /\ tranches = [l \in Loans |-> 0]
    /\ finals = [l \in Loans |-> 0]

Apply(l) ==
    /\ status[l] = "none"
    /\ \/ AllowConcurrentLoans
       \/ \A k \in Loans : ClientOf[k] = ClientOf[l] => status[k] # "active"
    /\ status' = [status EXCEPT ![l] = "pending_approval"]
    /\ UNCHANGED <<approvedBy, disbursed, tranches, finals>>

(* A decision falls on a loan in any state: it was read some time before. *)
Approve(l, u) ==
    /\ status[l] # "none"
    /\ u \in Deciders[l]
    /\ status' = [status EXCEPT ![l] = "approved"]
    /\ approvedBy' = [approvedBy EXCEPT ![l] = u]
    /\ UNCHANGED <<disbursed, tranches, finals>>

Reject(l) ==
    /\ status[l] # "none"
    /\ status' = [status EXCEPT ![l] = "rejected"]
    /\ UNCHANGED <<approvedBy, disbursed, tranches, finals>>

PayOut(l, amount) ==
    /\ approvedBy[l] \in Deciders[l]
    /\ disbursed[l] + amount <= Limit[l]
    /\ disbursed' = [disbursed EXCEPT ![l] = @ + amount]
    /\ tranches' = [tranches EXCEPT ![l] = @ + 1]

PayPart(l, amount) ==
    /\ PayOut(l, amount)
    /\ UNCHANGED <<status, approvedBy, finals>>

(* The payment that completes a loan finds it approved and brings out what
   remains, to the cent; it is not repeated for a loan whose completion charges
   interest or fees. *)
Complete(l, amount) ==
    /\ status[l] = "approved"
    /\ l \in Charged => finals[l] = 0
    /\ disbursed[l] + amount >= Principal[l] - 1
    /\ PayOut(l, amount)
    /\ finals' = [finals EXCEPT ![l] = @ + 1]
    /\ status' = [status EXCEPT ![l] = "active"]
    /\ UNCHANGED approvedBy

Next ==
    \E l \in Loans :
        \/ Apply(l)
        \/ \E u \in Deciders[l] : Approve(l, u)
        \/ Reject(l)
        \/ \E amount \in 1 .. Principal[l] + 1 : PayPart(l, amount) \/ Complete(l, amount)

Spec == Init /\ [][Next]_bookVars

=============================================================================
