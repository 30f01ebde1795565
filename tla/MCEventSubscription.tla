------------------------- MODULE MCEventSubscription -------------------------
(* Small instances of EventSubscription for TLC: one client process, with   *)
(* one thread or with two.                                                  *)
EXTENDS EventSubscriptionRefinement

CONSTANTS c1, t1, t2

OneThread  == [t \in {t1} |-> c1]
TwoThreads == [t \in {t1, t2} |-> c1]

=============================================================================
