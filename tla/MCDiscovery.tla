---------------------------- MODULE MCDiscovery ----------------------------
(* A small instance of Discovery for TLC. *)
EXTENDS Discovery

=============================================================================
