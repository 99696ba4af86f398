------------------------- MODULE MCApprovalWorkflow -------------------------
(***************************************************************************)
(* One loan and two requests; an officer may only make requests, the       *)
(* others check, an admin among them.  The ids of requests are             *)
(* interchangeable.                                                        *)
(***************************************************************************)
EXTENDS ApprovalWorkflow, TLC

CONSTANTS loan1, officer, manager, admin

RequestSymmetry == Permutations(Requests)

=============================================================================
