--------------------------- MODULE OrderedDelivery ---------------------------
(***************************************************************************)
(* What the outbox promises: messages are numbered as they are accepted    *)
(* and delivered in that order, none left out.                             *)
(***************************************************************************)
EXTENDS Naturals

VARIABLES accepted,     \* how many messages have been accepted
          delivered     \* those that have been delivered

deliveryVars == <<accepted, delivered>>

DeliveryInit == accepted = 0 /\ delivered = {}

AcceptMessage == accepted' = accepted + 1 /\ UNCHANGED delivered

DeliverNext ==
    \E m \in 1..accepted :
        /\ m \notin delivered /\ \A k \in 1..(m - 1) : k \in delivered
        /\ delivered' = delivered \cup {m}
        /\ UNCHANGED accepted

DeliverySpec == DeliveryInit /\ [][AcceptMessage \/ DeliverNext]_deliveryVars
=============================================================================
