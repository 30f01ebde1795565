------------------------ MODULE SubscriptionService ------------------------
(***************************************************************************)
(* What the subscription protocol promises, without tables, requests and   *)
(* messages: a set of listeners that calls of the clients change.          *)
(*                                                                         *)
(* A call that returns with an answer took effect exactly once, between    *)
(* its start and its end, and the answer says what happened.  A call that  *)
(* was given up on takes effect at most once, if at all after the calls    *)
(* that were given up on before it, and before the next call of its        *)
(* process.  Beyond that listeners only disappear, when the provider       *)
(* withdraws an event or dies.                                             *)
(***************************************************************************)
EXTENDS Naturals, Sequences

CONSTANTS Client, Thread, ProcessOf, Event

VARIABLES
    offered, \* the events the provider has
    own,     \* the provider keeps listeners of its own (may ignore calls)
    served,  \* the listeners, as pairs of a client and an event
    asked,   \* thread: the change it has asked for, and the answer to it
    late     \* client: changes asked for in vain that may still happen, in order

vars == <<offered, own, served, asked, late>>

Op     == {"subscribe", "unsubscribe"}
Change == Op \X Event
Nothing == [change |-> <<>>, answer |-> "none"]

Init ==
    /\ offered = {} /\ own = FALSE
    /\ served = {}
    /\ asked = [t \in Thread |-> Nothing]
    /\ late = [c \in Client |-> <<>>]

-----------------------------------------------------------------------------
(* The listeners after change x of client c. *)
Changed(c, x) ==
    IF x[1] = "subscribe" THEN served \cup {<<c, x[2]>>} ELSE served \ {<<c, x[2]>>}

(* Change x of client c happens, with answer a: it succeeds exactly for an  *)
(* event there is, unless the provider decides otherwise.                   *)
Happens(c, x, a) ==
    \/ /\ a = "success" /\ x[2] \in offered
       /\ served' = Changed(c, x)
    \/ /\ a = "error" /\ x[2] \notin offered
       /\ UNCHANGED served
    \/ /\ own
       /\ UNCHANGED served

Ask(t, x) ==
    /\ asked[t] = Nothing
    /\ asked' = [asked EXCEPT ![t] = [change |-> x, answer |-> "none"]]
    /\ UNCHANGED <<offered, own, served, late>>

(* What thread t asked for happens, after all that is late. *)
TakeEffect(t, a) ==
    LET c == ProcessOf[t]
    IN  /\ asked[t] # Nothing /\ asked[t].answer = "none"
        /\ asked' = [asked EXCEPT ![t].answer = a]
        /\ late[c] = <<>>
        /\ Happens(c, asked[t].change, a)
        /\ UNCHANGED <<offered, own, late>>

(* The call is over. *)
Finish(t) ==
    /\ asked[t].answer # "none"
    /\ asked' = [asked EXCEPT ![t] = Nothing]
    /\ UNCHANGED <<offered, own, served, late>>

(* The call is over without an answer; its change is lost or late. *)
GiveUp(t) ==
    LET c == ProcessOf[t]
    IN  /\ asked[t] # Nothing /\ asked[t].answer = "none"
        /\ asked' = [asked EXCEPT ![t] = Nothing]
        /\ UNCHANGED <<offered, own, served>>
        /\ \/ UNCHANGED late
           \/ late' = [late EXCEPT ![c] = Append(@, asked[t].change)]

(* The first late change of client c happens. *)
TakeLateEffect(c, a) ==
    /\ late[c] # <<>>
    /\ UNCHANGED <<offered, own, asked>>
    /\ late' = [late EXCEPT ![c] = Tail(@)]
    /\ Happens(c, Head(late[c]), a)

-----------------------------------------------------------------------------
Offer(e) ==
    /\ offered' = offered \cup {e}
    /\ UNCHANGED <<own, served, asked, late>>

Withdraw(e) ==
    /\ offered' = offered \ {e}
    /\ served' = {p \in served : p[2] # e}
    /\ UNCHANGED <<own, asked, late>>

Override ==
    /\ own' = TRUE
    /\ UNCHANGED <<offered, served, asked, late>>

Die ==
    /\ offered' = {} /\ own' = FALSE /\ served' = {}
    /\ late' = [c \in Client |-> <<>>]
    /\ UNCHANGED asked

Answer == {"success", "error"}

Next ==
    \/ \E t \in Thread, x \in Change : Ask(t, x)
    \/ \E t \in Thread, a \in Answer : TakeEffect(t, a)
    \/ \E t \in Thread : Finish(t) \/ GiveUp(t)
    \/ \E c \in Client, a \in Answer : TakeLateEffect(c, a)
    \/ \E e \in Event : Offer(e) \/ Withdraw(e)
    \/ Override
    \/ Die

Spec == Init /\ [][Next]_vars

=============================================================================
