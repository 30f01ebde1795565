-------------------- MODULE EventSubscriptionRefinement --------------------
(***************************************************************************)
(* The subscription protocol implements SubscriptionService, for clients   *)
(* that make their calls from one thread each.                             *)
(***************************************************************************)
EXTENDS EventSubscription

(* What thread t asks the provider for.  A call that has failed and still   *)
(* has to take back its entry (undo) asks for nothing any more.             *)
Asked(t) ==
    IF pc[t] \in {"send", "wait"}
    THEN [change |-> <<call[t].op, call[t].key.event>>, answer |-> reply[t]]
    ELSE [change |-> <<>>, answer |-> "none"]

(* The number of requests of client c that nobody waits for: the thread of  *)
(* the process waits for the last one or for none.                          *)
LateCount(c) ==
    LET n == Len(net[c])
    IN  IF n > 0 /\ net[c][n].live THEN n - 1 ELSE n

(* What they ask for, in order. *)
Late(c) == [i \in 1 .. LateCount(c) |-> <<net[c][i].op, net[c][i].event>>]

AskedNow == [t \in Thread |-> Asked(t)]

LateNow == [c \in Client |-> Late(c)]

Service == INSTANCE SubscriptionService WITH
    offered <- events,
    own     <- override,
    served  <- listeners,
    asked   <- AskedNow,
    late    <- LateNow

(* Every answered call took effect exactly once, while it was under way;    *)
(* those given up on take effect at most once each, in order, before any    *)
(* later call of the process: timeouts, retries, late answers and crashes   *)
(* of the provider included (send_subscription_request,                     *)
(* subscription_handler).                                                   *)
ImplementsService == Service!Spec

=============================================================================
