------------------------- MODULE EventSubscription -------------------------
(***************************************************************************)
(* The event subscription protocol of rbuscore.                            *)
(*                                                                         *)
(* A client process keeps a table of the events it subscribed to           *)
(* (g_event_subscriptions_for_client); the provider of an event keeps the  *)
(* list of its listeners (server_event.listeners).  The two are brought    *)
(* together by a request per change: rbus_subscribeToEvent changes the     *)
(* local table inside g_mutex, leaves the mutex, and only then calls the   *)
(* provider's _subscribe method and waits, with a timeout, for the answer; *)
(* rbus_unsubscribeFromEvent does the same with _unsubscribe.  A section   *)
(* between lock() and unlock() is one action here, the call between two    *)
(* such sections is not.                                                   *)
(*                                                                         *)
(* One provider object with a set of events is modelled.  The router       *)
(* (rtrouted) is not part of the repository: it is a FIFO channel from     *)
(* each client process to the provider.                                    *)
(***************************************************************************)
EXTENDS Naturals, Sequences, FiniteSets

CONSTANTS
    Client,      \* processes that subscribe (each has one return address)
    Thread,      \* the application threads of those processes
    ProcessOf,   \* the process of each thread
    Event,       \* the events the provider object may register
    Element,     \* the events it may add to the router as elements
    Dest,        \* how a client may name the provider: by its object name,
                 \* or, with object_name = NULL, by the alias of the event
    MaxPending   \* bound: requests of one client on their way to the provider

ASSUME ProcessAssumption ==
    /\ ProcessOf \in [Thread -> Client]
    /\ \A c \in Client : \E t \in Thread : ProcessOf[t] = c

ASSUME DestAssumption == Dest \subseteq {"object", "alias"} /\ Dest # {}

ASSUME EventAssumption == Event # {}

ASSUME PendingAssumption == MaxPending \in Nat

VARIABLES
    subs,         \* client: g_event_subscriptions_for_client
    dispatching,  \* client: g_run_event_client_dispatch
    master,       \* client: g_master_event_callback: never set, set, or NULL
                  \* again
    pc,           \* thread: where it is in a (un)subscribe call
    call,         \* thread: the call it is in
    reply,        \* thread: the answer that waits to be picked up
    net,          \* requests on their way, per client, in order
    up,           \* provider: the object is registered with the router
    aliases,      \* provider: events added as elements of the object
    handlers,     \* provider: _subscribe and _unsubscribe are methods
    override,     \* provider: subscribe_handler_override # NULL
    events,       \* provider: obj->subscriptions
    listeners,    \* provider: the listeners of the events, as pairs
    dropped,      \* history: listeners the provider lost or dropped itself
    abandoned     \* history: <<client, event>> of a call given up on

clientVars   == <<subs, dispatching, master>>
threadVars   == <<pc, call, reply>>
providerVars == <<up, aliases, handlers, override, events, listeners>>
historyVars  == <<dropped, abandoned>>
vars == <<clientVars, threadVars, net, providerVars, historyVars>>

-----------------------------------------------------------------------------
(* Types.  A client knows a subscription by the object name it wrote and   *)
(* the event name; the provider knows a listener by its return address.    *)

Key     == [dest : Dest, event : Event]
Op      == {"subscribe", "unsubscribe"}
Call    == [op : Op \cup {"none"}, key : Key]
Request == [by : Thread, op : Op, event : Event, live : BOOLEAN]
Pair    == Client \X Event

NoCall == [op |-> "none", key |-> CHOOSE k \in Key : TRUE]

TypeOK ==
    /\ subs \in [Client -> SUBSET Key]
    /\ dispatching \in [Client -> BOOLEAN]
    /\ master \in [Client -> {"never", "set", "cleared"}]
    /\ pc \in [Thread -> {"idle", "send", "wait", "undo"}]
    /\ call \in [Thread -> Call]
    /\ reply \in [Thread -> {"none", "success", "error"}]
    /\ net \in [Client -> Seq(Request)]
    /\ up \in BOOLEAN /\ handlers \in BOOLEAN /\ override \in BOOLEAN
    /\ aliases \subseteq Event
    /\ events \subseteq Event
    /\ listeners \subseteq Pair
    /\ dropped \subseteq Pair
    /\ abandoned \subseteq Pair

(* The listener that a call of thread t is about. *)
PairOf(t) == <<ProcessOf[t], call[t].key.event>>

(* History S without pair p, which is settled.  The listeners of a process  *)
(* that has had a master event handler stay in the histories for good:      *)
(* nothing is claimed about them (BuiltIn below).                           *)
Settled(S, p) == IF master[p[1]] = "never" THEN S \ {p} ELSE S

(* Thread t leaves its call. *)
Return(t) ==
    /\ pc' = [pc EXCEPT ![t] = "idle"]
    /\ call' = [call EXCEPT ![t] = NoCall]
    /\ reply' = [reply EXCEPT ![t] = "none"]

Init ==
    /\ subs = [c \in Client |-> {}]
    /\ dispatching = [c \in Client |-> FALSE]
    /\ master = [c \in Client |-> "never"]
    /\ pc = [t \in Thread |-> "idle"]
    /\ call = [t \in Thread |-> NoCall]
    /\ reply = [t \in Thread |-> "none"]
    /\ net = [c \in Client |-> <<>>]
    /\ up = FALSE /\ handlers = FALSE /\ override = FALSE
    /\ aliases = {} /\ events = {} /\ listeners = {}
    /\ dropped = {} /\ abandoned = {}

-----------------------------------------------------------------------------
(* Client side.                                                            *)

(* g_master_event_callback # NULL. *)
HasMaster(c) == master[c] = "set"

(* Any callback is stored, NULL included. *)
RegisterMasterEventHandler(c) ==
    /\ \/ master' = [master EXCEPT ![c] = "set"]
       \/ HasMaster(c) /\ master' = [master EXCEPT ![c] = "cleared"]
    /\ dropped' = dropped \cup ({c} \X Event)
    /\ abandoned' = abandoned \cup ({c} \X Event)
    /\ UNCHANGED <<subs, dispatching, threadVars, net, providerVars>>

(* The first critical section of rbus_subscribeToEventInternal: the default *)
(* listener is installed once, and a subscription that is already in the    *)
(* table ends the call with success; nothing is sent.  With a master event  *)
(* handler there is no table.                                               *)
SubscribeBegin(t, k) ==
    LET c == ProcessOf[t]
    IN  /\ pc[t] = "idle"
        /\ dispatching' = [dispatching EXCEPT ![c] = TRUE]
        /\ IF ~HasMaster(c) /\ k \in subs[c]
           THEN UNCHANGED <<subs, threadVars>>
           ELSE /\ subs' = IF HasMaster(c) THEN subs
                           ELSE [subs EXCEPT ![c] = @ \cup {k}]
                /\ pc' = [pc EXCEPT ![t] = "send"]
                /\ call' = [call EXCEPT ![t] = [op |-> "subscribe", key |-> k]]
                /\ UNCHANGED reply
        /\ UNCHANGED <<master, net, providerVars, historyVars>>

(* Mutant of UnsubscribeBegin: the entry stays. *)
UnsubscribeBegin_KeepsEntry(t, k) ==
    /\ pc[t] = "idle"
    /\ pc' = [pc EXCEPT ![t] = "send"]
    /\ call' = [call EXCEPT ![t] = [op |-> "unsubscribe", key |-> k]]
    /\ UNCHANGED <<reply, clientVars, net, providerVars, historyVars>>

(* rbus_unsubscribeFromEvent up to the request: the entry is removed, and   *)
(* whether there was one makes no difference to what follows.               *)
UnsubscribeBegin(t, k) ==
    LET c == ProcessOf[t]
    IN  /\ pc[t] = "idle"
        /\ subs' = IF HasMaster(c) THEN subs ELSE [subs EXCEPT ![c] = @ \ {k}]
        /\ pc' = [pc EXCEPT ![t] = "send"]
        /\ call' = [call EXCEPT ![t] = [op |-> "unsubscribe", key |-> k]]
        /\ UNCHANGED <<reply, dispatching, master, net, providerVars, historyVars>>

(* Mutant of AfterFailure: the entry of a failed subscribe stays. *)
AfterFailure_NoUndo(t) == Return(t)

(* How a call goes on once its request has failed: a subscribe takes its    *)
(* entry back, unless the process has a master event handler by now.        *)
AfterFailure(t) ==
    IF call[t].op = "subscribe" /\ ~HasMaster(ProcessOf[t])
    THEN /\ pc' = [pc EXCEPT ![t] = "undo"]
         /\ reply' = [reply EXCEPT ![t] = "none"]
         /\ UNCHANGED call
    ELSE Return(t)

(* The router knows the name the request is addressed to. *)
Reachable(k) == up /\ (k.dest = "alias" => k.event \in aliases)

(* rtConnection_SendBinaryRequest puts the request on the wire. *)
SendRequest(t) ==
    LET c == ProcessOf[t]
    IN  /\ pc[t] = "send"
        /\ Reachable(call[t].key)
        /\ Len(net[c]) < MaxPending
        /\ net' = [net EXCEPT ![c] = Append(@,
                     [by |-> t, op |-> call[t].op,
                      event |-> call[t].key.event, live |-> TRUE])]
        /\ pc' = [pc EXCEPT ![t] = "wait"]
        /\ UNCHANGED <<clientVars, call, reply, providerVars, historyVars>>

(* RT_OBJECT_NO_LONGER_AVAILABLE: the router has no such object. *)
Unreachable(t) ==
    /\ pc[t] = "send"
    /\ ~Reachable(call[t].key)
    /\ AfterFailure(t)
    /\ UNCHANGED <<clientVars, net, providerVars, historyVars>>

(* Any other error of the send: the call fails and nothing was sent. *)
SendFails(t) ==
    /\ pc[t] = "send"
    /\ AfterFailure(t)
    /\ abandoned' = abandoned \cup {PairOf(t)}
    /\ UNCHANGED <<clientVars, net, providerVars, dropped>>

(* Mutant of Timeout: the thread waits for ever. *)
Timeout_Never(t) == pc[t] = "wait" /\ FALSE /\ UNCHANGED vars

(* Mutant of Timeout: the late answer is still taken for the thread. *)
Timeout_StaysLive(t) ==
    /\ pc[t] = "wait"
    /\ AfterFailure(t)
    /\ abandoned' = abandoned \cup {PairOf(t)}
    /\ UNCHANGED <<clientVars, net, providerVars, dropped>>

(* RT_ERROR_TIMEOUT: the thread gives up.  The request stays on its way, or *)
(* was handled and its answer is late: nobody waits for that answer any     *)
(* more.                                                                    *)
Timeout(t) ==
    LET c == ProcessOf[t]
    IN  /\ pc[t] = "wait"
        /\ AfterFailure(t)
        /\ net' = [net EXCEPT ![c] =
                     [i \in 1 .. Len(@) |->
                        IF @[i].by = t THEN [@[i] EXCEPT !.live = FALSE] ELSE @[i]]]
        /\ abandoned' = abandoned \cup {PairOf(t)}
        /\ UNCHANGED <<clientVars, providerVars, dropped>>

(* The answer arrives in time. *)
ReceiveReply(t) ==
    /\ pc[t] = "wait"
    /\ reply[t] # "none"
    /\ IF reply[t] = "success" THEN Return(t) ELSE AfterFailure(t)
    /\ abandoned' = Settled(abandoned, PairOf(t))
    /\ UNCHANGED <<clientVars, net, providerVars, dropped>>

(* Mutant of Undo: all entries of the object go. *)
Undo_WholeObject(t) ==
    LET c == ProcessOf[t]
    IN  /\ pc[t] = "undo"
        /\ subs' = [subs EXCEPT ![c] = {k \in @ : k.dest # call[t].key.dest}]
        /\ Return(t)
        /\ UNCHANGED <<dispatching, master, net, providerVars, historyVars>>

(* remove_subscription_callback, after a failed subscribe. *)
Undo(t) ==
    LET c == ProcessOf[t]
    IN  /\ pc[t] = "undo"
        /\ subs' = [subs EXCEPT ![c] = @ \ {call[t].key}]
        /\ Return(t)
        /\ UNCHANGED <<dispatching, master, net, providerVars, historyVars>>

-----------------------------------------------------------------------------
(* Provider side.                                                          *)

StartProvider ==
    /\ ~up
    /\ up' = TRUE
    /\ UNCHANGED <<clientVars, threadVars, net, historyVars,
                   aliases, handlers, override, events, listeners>>

RegisterEvent(e) ==
    /\ up
    /\ events' = events \cup {e}
    /\ handlers' = TRUE
    /\ UNCHANGED <<clientVars, threadVars, net, historyVars,
                   up, aliases, override, listeners>>

(* The event and its list of listeners are destroyed; nobody is told. *)
UnregisterEvent(e) ==
    LET gone == {p \in listeners : p[2] = e}
    IN  /\ e \in events
        /\ events' = events \ {e}
        /\ listeners' = listeners \ gone
        /\ dropped' = dropped \cup gone
        /\ UNCHANGED <<clientVars, threadVars, net, abandoned,
                       up, aliases, handlers, override>>

AddElement(e) ==
    /\ up /\ e \in Element
    /\ aliases' = aliases \cup {e}
    /\ UNCHANGED <<clientVars, threadVars, net, historyVars,
                   up, handlers, override, events, listeners>>

RemoveElement(e) ==
    /\ up /\ e \in aliases
    /\ aliases' = aliases \ {e}
    /\ UNCHANGED <<clientVars, threadVars, net, historyVars,
                   up, handlers, override, events, listeners>>

RegisterSubscribeHandler ==
    /\ up
    /\ override' = TRUE
    /\ handlers' = TRUE
    /\ UNCHANGED <<clientVars, threadVars, net, historyVars,
                   up, aliases, events, listeners>>

(* The listener list and the answer after the built-in handling of request  *)
(* r of client c: server_event_addListener and server_event_removeListener  *)
(* accept a listener that is already, or not, in the list.                  *)
BuiltInOutcome(r, c) ==
    IF r.event \notin events
    THEN [answer |-> "error", listeners |-> listeners]
    ELSE [answer |-> "success",
          listeners |-> IF r.op = "subscribe"
                        THEN listeners \cup {<<c, r.event>>}
                        ELSE listeners \ {<<c, r.event>>}]

(* subscription_handler.  Without the two methods the request goes to the   *)
(* object's own callback, which declines it.  An override keeps a list of   *)
(* its own: it accepts or refuses the request, or leaves it to the built-in *)
(* handling (RTMESSAGE_BUS_SUBSCRIBE_NOT_HANDLED).                          *)
Outcomes(r, c) ==
    IF ~handlers
    THEN {[answer |-> "error", listeners |-> listeners]}
    ELSE {BuiltInOutcome(r, c)} \cup
         (IF override
          THEN {[answer |-> a, listeners |-> listeners] : a \in {"success", "error"}}
          ELSE {})

(* The provider dispatches the next request of client c and answers it. *)
HandleRequest(c) ==
    LET r == Head(net[c])
    IN  /\ up
        /\ net[c] # <<>>
        /\ net' = [net EXCEPT ![c] = Tail(@)]
        /\ \E o \in Outcomes(r, c) :
             /\ listeners' = o.listeners
             /\ reply' = IF r.live THEN [reply EXCEPT ![r.by] = o.answer] ELSE reply
        /\ dropped' = Settled(dropped, <<c, r.event>>)
        /\ UNCHANGED <<clientVars, pc, call, abandoned,
                       up, aliases, handlers, override, events>>

(* The provider process dies: its tables and every request it had not yet   *)
(* handled are gone.  The clients are not told.                             *)
ProviderCrash ==
    /\ up
    /\ up' = FALSE /\ handlers' = FALSE /\ override' = FALSE
    /\ aliases' = {} /\ events' = {} /\ listeners' = {}
    /\ net' = [c \in Client |-> <<>>]
    /\ dropped' = Pair
    /\ UNCHANGED <<clientVars, threadVars, abandoned>>

-----------------------------------------------------------------------------
ThreadStep(t) ==
    \/ SendRequest(t)
    \/ Unreachable(t)
    \/ SendFails(t)
    \/ Timeout(t)
    \/ ReceiveReply(t)
    \/ Undo(t)

ApplicationCall(t) ==
    \E k \in Key : SubscribeBegin(t, k) \/ UnsubscribeBegin(t, k)

ProviderStep ==
    \/ StartProvider
    \/ \E e \in Event : RegisterEvent(e)
    \/ \E e \in Event : UnregisterEvent(e)
    \/ \E e \in Event : AddElement(e)
    \/ \E e \in Event : RemoveElement(e)
    \/ RegisterSubscribeHandler
    \/ ProviderCrash

Next ==
    \/ \E t \in Thread : ApplicationCall(t) \/ ThreadStep(t)
    \/ \E c \in Client : RegisterMasterEventHandler(c) \/ HandleRequest(c)
    \/ ProviderStep

(* A thread that waits has a timeout, and threads are scheduled. *)
Fairness == \A t \in Thread : WF_vars(ThreadStep(t))

Spec == Init /\ [][Next]_vars

FairSpec == Spec /\ Fairness

-----------------------------------------------------------------------------
(* Properties.                                                             *)

(* No thread of process c is inside a call. *)
Quiet(c) == \A t \in Thread : ProcessOf[t] = c => pc[t] = "idle"

(* The process has always used the table (calls made with a master event    *)
(* handler change the listeners and not the table), and the provider uses   *)
(* its own listener lists.                                                  *)
BuiltIn(c) == master[c] = "never" /\ ~override

(* An event a client is subscribed to is one its provider sends to it: with *)
(* no call of the process under way, every entry of the client's table has  *)
(* its listener, unless the provider itself dropped the listener since.     *)
(* (rbus_subscribeToEventInternal against server_object_subscription_handler*)
(* over timeouts, retries and requests still under way.)                    *)
SubscriberIsListener ==
    \A c \in Client : Quiet(c) /\ BuiltIn(c) =>
        \A k \in subs[c] : <<c, k.event>> \in listeners \cup dropped

(* A provider does not send to a client that has no use for the event: a    *)
(* listener without an entry is left over from a call that the client gave  *)
(* up on without an answer (timeout, or a failed send).                     *)
ListenerIsSubscriber ==
    \A c \in Client : Quiet(c) /\ BuiltIn(c) =>
        \A e \in Event : <<c, e>> \in listeners \ abandoned =>
            \E k \in subs[c] : k.event = e

(* The two conditions under which the tables agree: an application that     *)
(* makes its calls from one thread, and names the provider in one way.      *)
SingleThreaded == \A t, u \in Thread : ProcessOf[t] = ProcessOf[u] => t = u
ByObjectName   == Dest = {"object"}

(* The inductive invariant behind the two properties above (for             *)
(* SingleThreaded, ByObjectName clients), in five parts.                    *)

(* Thread t is in a call about event e. *)
Busy(t, e) == pc[t] # "idle" /\ call[t].key.event = e

(* What the provider has in its tables while it is down, and never has.     *)
ProviderInv ==
    /\ ~up => /\ events = {} /\ ~override
              /\ \A c \in Client : net[c] = <<>>
    /\ \A p \in listeners : p[2] \in events
    /\ events # {} => handlers

(* A request somebody waits for is the last one of its client; any other    *)
(* one still under way is about an event with an abandoned call.            *)
NetInv(t) ==
    LET c == ProcessOf[t]
    IN  \A i \in 1 .. Len(net[c]) :
            /\ net[c][i].by = t
            /\ net[c][i].live =>
                 /\ i = Len(net[c])
                 /\ pc[t] = "wait" /\ reply[t] = "none"
                 /\ net[c][i].op = call[t].op
                 /\ net[c][i].event = call[t].key.event
            /\ ~net[c][i].live => <<c, net[c][i].event>> \in abandoned

(* While a call is under way its entry is as the call left it, and once the *)
(* answer is there, nothing is under way and the provider agrees with it.   *)
CallInv(t) ==
    LET c == ProcessOf[t]
    IN  /\ pc[t] # "idle" => call[t].op # "none"
        /\ pc[t] = "undo" => call[t].op = "subscribe"
        /\ pc[t] # "idle" /\ master[c] = "never" =>
             (call[t].op = "subscribe" <=> call[t].key \in subs[c])
        /\ reply[t] # "none" => pc[t] = "wait" /\ net[c] = <<>>
        /\ reply[t] = "success" /\ ~override =>
             IF call[t].op = "subscribe" THEN PairOf(t) \in listeners \cup dropped
                                         ELSE PairOf(t) \notin listeners
        /\ reply[t] = "error" /\ ~override => PairOf(t) \notin listeners

(* An entry no call is about has its listener, and no request about its     *)
(* event is under way.                                                      *)
EntryInv(t) ==
    LET c == ProcessOf[t]
    IN  BuiltIn(c) =>
          \A k \in subs[c] : ~Busy(t, k.event) =>
              /\ <<c, k.event>> \in listeners \cup dropped
              /\ \A i \in 1 .. Len(net[c]) : net[c][i].event # k.event

(* A listener of an event without abandoned call has its entry, except      *)
(* while a call about the event waits for its answer.                       *)
ListenerInv(t) ==
    LET c == ProcessOf[t]
    IN  BuiltIn(c) =>
          \A e \in Event :
              /\ <<c, e>> \in listeners \ abandoned
              /\ Busy(t, e) => pc[t] = "undo"
              => /\ ~Busy(t, e)
                 /\ \E k \in subs[c] : k.event = e

ThreadInv(t) == NetInv(t) /\ CallInv(t) /\ EntryInv(t) /\ ListenerInv(t)

(* The inductive invariant: what the client, the requests on their way and  *)
(* the provider have in common at every point of a call.                    *)
TablesInv == TypeOK /\ ProviderInv /\ \A t \in Thread : ThreadInv(t)

(* Every call of an application thread returns: a lost answer, a crashed    *)
(* provider or a late one cannot hold it beyond its timeout.                *)
CallReturns == \A t \in Thread : pc[t] # "idle" ~> pc[t] = "idle"

=============================================================================
