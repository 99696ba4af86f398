------------------------- MODULE MCB2CDisbursement -------------------------
(***************************************************************************)
(* One loan approved by a colleague of the clerk who entered it, and the   *)
(* wallet requests, retries and callbacks around its disbursement.         *)
(***************************************************************************)
EXTENDS B2CDisbursement

CONSTANTS loan, clerk, checker

MCClientOf == [l \in Loans |-> "client"]
MCPrincipal == [l \in Loans |-> 10]
MCCreatedBy == [l \in Loans |-> clerk]
MCOfficerOf == [l \in Loans |-> None]

=============================================================================
