------------------------ MODULE MCOutboundDelivery ------------------------
(* Instances of OutboundDelivery for TLC. *)
EXTENDS OutboundDelivery

CONSTANTS reply, notice

\* The reply has two parts, the notice one.
SomeParts == [d \in Deliveries |-> IF d = reply THEN 2 ELSE 1]
=============================================================================
