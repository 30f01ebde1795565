-------------------------- MODULE MCSessionManager --------------------------
(* A small instance of SessionManager for TLC. *)
EXTENDS SessionManager, TLC

Symmetry == Permutations(Client)

=============================================================================
