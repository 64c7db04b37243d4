--------------------------- MODULE EventDelivery ---------------------------
(***************************************************************************)
(* What the outbox promises its users: an event that was committed is      *)
(* turned into one notification, some time later, and never into a second. *)
(***************************************************************************)
EXTENDS Naturals

CONSTANT Events

VARIABLES raised,    \* the committed events
          delivered  \* notifications created for each event

DeliveryInit == raised = {} /\ delivered = [e \in Events |-> 0]

Occur(e) ==
    /\ raised' = raised \cup {e}
    /\ UNCHANGED delivered

Deliver(e) ==
    /\ e \in raised
    /\ delivered[e] = 0
    /\ delivered' = [delivered EXCEPT ![e] = 1]
    /\ UNCHANGED raised

DeliveryNext == \E e \in Events : Occur(e) \/ Deliver(e)

DeliverySpec ==
    /\ DeliveryInit
    /\ [][DeliveryNext]_<<raised, delivered>>
    /\ \A e \in Events : WF_<<raised, delivered>>(Deliver(e))
=============================================================================
