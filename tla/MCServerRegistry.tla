-------------------------- MODULE MCServerRegistry --------------------------
(* Small instances of ServerRegistry for TLC. *)
EXTENDS ServerRegistry, TLC

Symmetry == Permutations(Thread) \cup Permutations(Addr) \cup Permutations(Object)

=============================================================================
