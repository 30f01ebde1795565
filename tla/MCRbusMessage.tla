--------------------------- MODULE MCRbusMessage ---------------------------
(* A small instance of RbusMessage for TLC. *)
EXTENDS RbusMessage

(* Integers within, in front of and behind every buffer of the instance. *)
MCStray == -1 .. 21

MCItem == {[type |-> "str", size |-> 4], [type |-> "int", size |-> 5]}

=============================================================================
