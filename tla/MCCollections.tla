--------------------------- MODULE MCCollections ---------------------------
(* Two loans; two tellers, of whom one submits a changed amount under the same
   key or the receipt the provider reports as well; a webhook delivered twice
   and a desk that may pick another loan than the reference names. *)
EXTENDS Collections, TLC

CONSTANTS l1, l2, m1, k1, t1, t2, w1, o1

MCPrincipal == l1 :> 2 @@ l2 :> 1
MCAmountOf == m1 :> 1
MCLoansOf == m1 :> {l1, None}
Cash(amount) == [loan |-> l1, amount |-> amount, receipt |-> None, key |-> k1]
Mobile == [loan |-> l2, amount |-> 1, receipt |-> m1, key |-> None]

MCSubmissionsOf == t1 :> {Cash(1), Mobile} @@ t2 :> {Cash(3)}
=============================================================================
