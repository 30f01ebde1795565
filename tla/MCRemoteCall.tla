---------------------------- MODULE MCRemoteCall ----------------------------
(* A small instance of RemoteCall for TLC: two processes that call one      *)
(* another, also from their handlers, and an object of other code.          *)
EXTENDS RemoteCall

CONSTANTS p1, p2, f

MCCalls ==
    {[from |-> p2, to |-> p1, thread |-> "app", kind |-> "push"],
     [from |-> p1, to |-> p2, thread |-> "dispatch", kind |-> "invoke"],
     [from |-> p2, to |-> p1, thread |-> "dispatch", kind |-> "pull"],
     [from |-> p2, to |-> f, thread |-> "app", kind |-> "pull"]}

=============================================================================
