--------------------------- MODULE MCEventDelivery ---------------------------
(* Small instances of EventDelivery for TLC: one client that may have a     *)
(* master event handler and one that has none.                              *)
EXTENDS EventDelivery

=============================================================================
