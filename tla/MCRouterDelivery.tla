------------------------- MODULE MCRouterDelivery -------------------------
(* A small instance of RouterDelivery for TLC. *)
EXTENDS RouterDelivery
=============================================================================
