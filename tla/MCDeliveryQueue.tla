--------------------------- MODULE MCDeliveryQueue ---------------------------
(* The outbound delivery queue for TLC. *)
EXTENDS DeliveryQueue
=============================================================================
