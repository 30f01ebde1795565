------------------------- MODULE MCBrokerConnection -------------------------
(* Small instances of BrokerConnection for TLC. *)
EXTENDS BrokerConnection

=============================================================================
