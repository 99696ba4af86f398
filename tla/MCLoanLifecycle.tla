-------------------------- MODULE MCLoanLifecycle --------------------------
(***************************************************************************)
(* One loan of ten cents under two concurrent disbursements, decided on by *)
(* a colleague and an admin; partial amounts on both sides of the cent of  *)
(* tolerance.                                                              *)
(***************************************************************************)
EXTENDS LoanLifecycle

CONSTANTS loan, clerk, officer, checker, admin

MCClientOf == [l \in Loans |-> "client"]
MCPrincipal == [l \in Loans |-> 10]
MCCreatedBy == [l \in Loans |-> clerk]
MCOfficerOf == [l \in Loans |-> officer]

=============================================================================
