--------------------------- MODULE EventDelivery ---------------------------
(***************************************************************************)
(* What the outbox promises a reader of its events: an event is sent only  *)
(* once its row is committed, it is marked published only once it was      *)
(* sent, and a handler sees it only once it was sent.  Nothing bounds how  *)
(* often any of this happens, and a mark may be taken back.                *)
(***************************************************************************)
CONSTANT Events

VARIABLES
    recorded,       \* events with a committed row
    sent,           \* events handed to the broker at least once
    confirmed,      \* events whose row says published
    handled         \* events a handler was called with

deliveryVars == <<recorded, sent, confirmed, handled>>

DeliveryInit ==
    /\ recorded = {}
    /\ sent = {}
    /\ confirmed = {}
    /\ handled = {}

Record(e) ==
    /\ recorded' = recorded \union {e}
    /\ UNCHANGED <<sent, confirmed, handled>>

Send(e) ==
    /\ e \in recorded
    /\ sent' = sent \union {e}
    /\ UNCHANGED <<recorded, confirmed, handled>>

Confirm(e) ==
    /\ e \in sent
    /\ confirmed' = confirmed \union {e}
    /\ UNCHANGED <<recorded, sent, handled>>

(* Another dispatcher's failure overwrites the mark. *)
Retract(e) ==
    /\ confirmed' = confirmed \ {e}
    /\ UNCHANGED <<recorded, sent, handled>>

Handle(e) ==
    /\ e \in sent
    /\ handled' = handled \union {e}
    /\ UNCHANGED <<recorded, sent, confirmed>>

DeliveryNext ==
    \E e \in Events :
        Record(e) \/ Send(e) \/ Confirm(e) \/ Retract(e) \/ Handle(e)

DeliverySpec == DeliveryInit /\ [][DeliveryNext]_deliveryVars

=============================================================================
