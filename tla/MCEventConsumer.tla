-------------------------- MODULE MCEventConsumer --------------------------
(***************************************************************************)
(* Two events, the job of one server, a request of the other that          *)
(* dispatches inline, and the consumer beside that request.                *)
(***************************************************************************)
EXTENDS EventConsumer

CONSTANTS s1, s2, j1, r1

MCHostOf == [d \in Dispatchers |-> IF d = j1 THEN s2 ELSE s1]

=============================================================================
