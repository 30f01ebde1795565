--------------------------- MODULE EventDelivery ---------------------------
(***************************************************************************)
(* Publishing an event, and its way to the applications that subscribed.   *)
(*                                                                         *)
(* rbus_publishEvent walks over the listeners of the event inside the      *)
(* provider's g_mutex and sends each of them the message.  The list itself *)
(* is changed by subscription_handler, on the provider's dispatch thread,  *)
(* after dispatch_method_call has left the mutex: a publish may begin      *)
(* between the two.  At the client, master_event_callback finds the entry  *)
(* of the event inside the client's g_mutex, leaves it, and only then      *)
(* calls the application.                                                  *)
(*                                                                         *)
(* One event of one provider is modelled, and one application thread per   *)
(* client.  What a lost or late answer does to a subscription is the       *)
(* subject of EventSubscription; here every request is answered.  The      *)
(* router delivers the messages of a provider to a client in order.        *)
(***************************************************************************)
EXTENDS Naturals, Sequences, FiniteSets

CONSTANTS
    Client,       \* client processes
    MasterClient, \* those that may register a master event handler
    Publisher,    \* threads of the provider that publish
    MaxPublish,   \* bound: events published
    NoOne         \* nobody holds the mutex, no request is being handled

ASSUME DeliveryAssumption ==
    /\ MaxPublish \in Nat /\ NoOne \notin Client \cup Publisher
    /\ IsFiniteSet(Client) /\ MasterClient \subseteq Client

VARIABLES
    published,  \* provider: the number of events published so far
    mutex,      \* provider: the thread inside g_mutex
    listeners,  \* provider: evt->listeners
    loop,       \* provider: where a thread is in rbus_publishEvent
    handling,   \* provider: the client whose request has its handler
    request,    \* client: the (un)subscribe call that waits for its answer
    entry,      \* client: the event is in g_event_subscriptions_for_client
    master,     \* client: g_master_event_callback # NULL
    inbox,      \* client: messages of the provider, in order
    evt,        \* client: messages whose entry was found, callback to come
    log,        \* history: the events handed to the application, in order
    owed        \* history: the listeners the current publish has to serve

clientVars   == <<request, entry, master>>
deliveryVars == <<evt, log>>
vars == <<published, mutex, listeners, loop, handling, inbox, owed,
          clientVars, deliveryVars>>

-----------------------------------------------------------------------------
(* Events are known by their place in the order of publishing.  The flag    *)
(* in the message tells rbus_publishSubscriberEvent (rbus 2.0) from         *)
(* rbus_publishEvent.                                                       *)
Id      == Nat \ {0}
Message == [id : Id, rbus : BOOLEAN]

NotPublishing == [at |-> 0, size |-> 0, id |-> 0]

TypeOK ==
    /\ published \in 0 .. MaxPublish
    /\ mutex \in Publisher \cup {NoOne}
    /\ listeners \in Seq(Client)
    /\ Len(listeners) <= Cardinality(Client)
    /\ loop \in [Publisher -> [at : Nat, size : Nat, id : Nat]]
    /\ handling \in Client \cup {NoOne}
    /\ request \in [Client -> {"none", "subscribe", "unsubscribe"}]
    /\ entry \in [Client -> BOOLEAN]
    /\ master \in [Client -> BOOLEAN]
    /\ inbox \in [Client -> Seq(Message)]
    /\ evt \in [Client -> Seq(Message)]
    /\ log \in [Client -> Seq(Id)]
    /\ owed \subseteq Client

Init ==
    /\ published = 0
    /\ mutex = NoOne
    /\ listeners = <<>>
    /\ loop = [p \in Publisher |-> NotPublishing]
    /\ handling = NoOne
    /\ request = [c \in Client |-> "none"]
    /\ entry = [c \in Client |-> FALSE]
    /\ master = [c \in Client |-> FALSE]
    /\ inbox = [c \in Client |-> <<>>]
    /\ evt = [c \in Client |-> <<>>]
    /\ log = [c \in Client |-> <<>>]
    /\ owed = {}

Elems(s) == {s[i] : i \in DOMAIN s}

-----------------------------------------------------------------------------
(* The provider publishes.                                                  *)

Publishing(p) == loop[p] # NotPublishing

(* Mutant of PublishBegin: the loop runs without the mutex. *)
PublishBegin_NoLock(p) ==
    /\ ~Publishing(p)
    /\ published < MaxPublish
    /\ published' = published + 1
    /\ loop' = [loop EXCEPT ![p] = [at |-> 1, size |-> Len(listeners), id |-> published']]
    /\ owed' = Elems(listeners)
    /\ UNCHANGED <<mutex, listeners, handling, inbox, clientVars, deliveryVars>>

(* lock(), the event is found, and the size of its list is read once. *)
PublishBegin(p) ==
    /\ ~Publishing(p)
    /\ mutex = NoOne
    /\ published < MaxPublish
    /\ published' = published + 1
    /\ mutex' = p
    /\ loop' = [loop EXCEPT ![p] = [at |-> 1, size |-> Len(listeners), id |-> published']]
    /\ owed' = Elems(listeners)
    /\ UNCHANGED <<listeners, handling, inbox, clientVars, deliveryVars>>

Advance(p) == loop' = [loop EXCEPT ![p].at = @ + 1]

(* One turn of the loop: the listener at the index, as the list is now. *)
PublishSend(p) ==
    LET i == loop[p].at
    IN  /\ Publishing(p)
        /\ i <= loop[p].size
        /\ i <= Len(listeners)
        /\ inbox' = [inbox EXCEPT ![listeners[i]] =
                       Append(@, [id |-> loop[p].id, rbus |-> FALSE])]
        /\ owed' = owed \ {listeners[i]}
        /\ Advance(p)
        /\ UNCHANGED <<published, mutex, listeners, handling, clientVars, deliveryVars>>

(* The send fails, which is logged, or the list has become shorter. *)
PublishSendFails(p) ==
    LET i == loop[p].at
    IN  /\ Publishing(p)
        /\ i <= loop[p].size
        /\ owed' = IF i <= Len(listeners) THEN owed \ {listeners[i]} ELSE owed
        /\ Advance(p)
        /\ UNCHANGED <<published, mutex, listeners, handling, inbox, clientVars, deliveryVars>>

PublishEnd(p) ==
    /\ Publishing(p)
    /\ loop[p].at > loop[p].size
    /\ mutex' = NoOne
    /\ loop' = [loop EXCEPT ![p] = NotPublishing]
    /\ owed' = {}
    /\ UNCHANGED <<published, listeners, handling, inbox, clientVars, deliveryVars>>

(* rbus_publishSubscriberEvent: one message, to the client the application  *)
(* names, in one critical section.                                          *)
PublishSubscriberEvent(p, c) ==
    /\ ~Publishing(p)
    /\ mutex = NoOne
    /\ published < MaxPublish
    /\ published' = published + 1
    /\ inbox' = [inbox EXCEPT ![c] = Append(@, [id |-> published', rbus |-> TRUE])]
    /\ UNCHANGED <<mutex, listeners, loop, handling, owed, clientVars, deliveryVars>>

-----------------------------------------------------------------------------
(* The provider's dispatch thread.                                          *)

(* Mutant of DispatchLookup: the handler is looked up without the mutex. *)
DispatchLookup_NoLock(c) ==
    /\ handling = NoOne
    /\ request[c] \in {"subscribe", "unsubscribe"}
    /\ handling' = c
    /\ UNCHANGED <<published, mutex, listeners, loop, inbox, owed, clientVars, deliveryVars>>

(* dispatch_method_call finds the handler of c's request inside the mutex. *)
DispatchLookup(c) ==
    /\ handling = NoOne
    /\ request[c] \in {"subscribe", "unsubscribe"}
    /\ mutex = NoOne
    /\ handling' = c
    /\ UNCHANGED <<published, mutex, listeners, loop, inbox, owed, clientVars, deliveryVars>>

(* Mutant of addListener: a listener is added again. *)
addListener_Twice(s, c) == Append(s, c)

addListener(s, c) == IF c \in Elems(s) THEN s ELSE Append(s, c)

(* rtVector_RemoveItemByCompare: the first item that equals c is taken out. *)
RemoveItemByCompare(s, c) ==
    LET i == CHOOSE j \in DOMAIN s : s[j] = c /\ \A k \in 1 .. j - 1 : s[k] # c
    IN  SubSeq(s, 1, i - 1) \o SubSeq(s, i + 1, Len(s))

removeListener(s, c) == IF c \in Elems(s) THEN RemoveItemByCompare(s, c) ELSE s

(* subscription_handler changes the list without the mutex, and answers:   *)
(* the client's call returns.                                               *)
SubscriptionHandler(c) ==
    /\ handling = c
    /\ handling' = NoOne
    /\ listeners' = IF request[c] = "unsubscribe" THEN removeListener(listeners, c)
                    ELSE addListener(listeners, c)
    /\ owed' = IF request[c] = "unsubscribe" THEN owed \ {c} ELSE owed
    /\ request' = [request EXCEPT ![c] = "none"]
    /\ UNCHANGED <<published, mutex, loop, inbox, entry, master, deliveryVars>>

-----------------------------------------------------------------------------
(* The client's application thread.                                         *)

(* The entry is made, unless the process has a master event handler, and    *)
(* the request is sent.  With the entry already there nothing happens.      *)
Subscribe(c) ==
    /\ request[c] = "none"
    /\ master[c] \/ ~entry[c]
    /\ entry' = [entry EXCEPT ![c] = @ \/ ~master[c]]
    /\ request' = [request EXCEPT ![c] = "subscribe"]
    /\ UNCHANGED <<published, mutex, listeners, loop, handling, inbox, owed,
                   master, deliveryVars>>

Unsubscribe(c) ==
    /\ request[c] = "none"
    /\ entry' = [entry EXCEPT ![c] = @ /\ master[c]]
    /\ request' = [request EXCEPT ![c] = "unsubscribe"]
    /\ UNCHANGED <<published, mutex, listeners, loop, handling, inbox, owed,
                   master, deliveryVars>>

(* Any callback is stored, NULL included. *)
RegisterMasterEventHandler(c) ==
    /\ c \in MasterClient
    /\ \E b \in BOOLEAN : master' = [master EXCEPT ![c] = b]
    /\ UNCHANGED <<published, mutex, listeners, loop, handling, inbox, owed,
                   request, entry, deliveryVars>>

-----------------------------------------------------------------------------
(* The client's dispatch thread: master_event_callback.                     *)

TakeMessage(c) ==
    /\ inbox[c] # <<>>
    /\ evt[c] = <<>>
    /\ inbox' = [inbox EXCEPT ![c] = Tail(@)]

(* The master event handler takes an rbus 2.0 message. *)
MasterHandles(c) ==
    LET m == Head(inbox[c])
    IN  /\ TakeMessage(c)
        /\ m.rbus /\ master[c]
        /\ log' = [log EXCEPT ![c] = Append(@, m.id)]
        /\ UNCHANGED <<published, mutex, listeners, loop, handling, owed,
                       clientVars, evt>>

(* Mutant of FindEntry: an rbus 2.0 message goes to a master event handler  *)
(* or nowhere.                                                              *)
FindEntry_MasterOnly(c) ==
    LET m == Head(inbox[c])
    IN  /\ TakeMessage(c)
        /\ evt' = [evt EXCEPT ![c] = IF entry[c] /\ ~m.rbus THEN <<m>> ELSE @]
        /\ UNCHANGED <<published, mutex, listeners, loop, handling, owed,
                       clientVars, log>>

(* Any other message, and one the master event handler declines, goes to    *)
(* the entry of its event, found inside the client's mutex; without one it  *)
(* is dropped.                                                              *)
FindEntry(c) ==
    /\ TakeMessage(c)
    /\ evt' = [evt EXCEPT ![c] = IF entry[c] THEN <<Head(inbox[c])>> ELSE @]
    /\ UNCHANGED <<published, mutex, listeners, loop, handling, owed,
                   clientVars, log>>

(* evt->callback, outside the mutex. *)
InvokeCallback(c) ==
    /\ evt[c] # <<>>
    /\ log' = [log EXCEPT ![c] = Append(@, Head(evt[c]).id)]
    /\ evt' = [evt EXCEPT ![c] = <<>>]
    /\ UNCHANGED <<published, mutex, listeners, loop, handling, inbox, owed,
                   clientVars>>

-----------------------------------------------------------------------------
PublishStep(p) == PublishSend(p) \/ PublishSendFails(p) \/ PublishEnd(p)

ProviderDispatch == \E c \in Client : DispatchLookup(c) \/ SubscriptionHandler(c)

ClientDispatch(c) == MasterHandles(c) \/ FindEntry(c) \/ InvokeCallback(c)

Application ==
    \/ \E p \in Publisher : PublishBegin(p) \/ \E c \in Client : PublishSubscriberEvent(p, c)
    \/ \E c \in Client : Subscribe(c) \/ Unsubscribe(c) \/ RegisterMasterEventHandler(c)

Next ==
    \/ Application
    \/ \E p \in Publisher : PublishStep(p)
    \/ ProviderDispatch
    \/ \E c \in Client : ClientDispatch(c)

(* The dispatch thread of a client goes on while there are messages for it. *)
Fairness == \A c \in Client : WF_vars(ClientDispatch(c))

Spec == Init /\ [][Next]_vars

FairSpec == Spec /\ Fairness

-----------------------------------------------------------------------------
(* Properties.                                                             *)

(* Every application sees the events of a provider in the order in which    *)
(* they were published and none of them twice, whichever threads publish    *)
(* and whoever (un)subscribes meanwhile: rbus_publishEvent sends inside the *)
(* mutex, and a handler that changes the list needs it for its lookup.      *)
DeliveredInOrder ==
    \A c \in Client : \A i, j \in DOMAIN log[c] : i < j => log[c][i] < log[c][j]

(* A publish misses at most one subscriber, and none unless a listener was  *)
(* removed while the loop ran (the list is then shorter than it was).       *)
MissesAtMostOne ==
    \A p \in Publisher : Publishing(p) /\ loop[p].at > loop[p].size =>
        /\ Cardinality(owed) <= 1
        /\ loop[p].size <= Len(listeners) => owed = {}

(* A publish serves all of the subscribers that it found and that are still *)
(* subscribed when it ends (rbus_publishEvent).                             *)
ServesAllSubscribers ==
    \A p \in Publisher : Publishing(p) /\ loop[p].at > loop[p].size => owed = {}

(* An event sent to a client that has an entry for it reaches the           *)
(* application as long as the entry is there: whatever master event handler *)
(* is registered, replaced or removed meanwhile, and also when that handler *)
(* declines the event (master_event_callback).  A client without an entry   *)
(* is excused, and there are two kinds of them: the one that has cancelled  *)
(* the subscription, and the one that subscribed while a master event       *)
(* handler was registered.  The second never cancelled anything, and still  *)
(* an event that does not go to the handler, such as every one of           *)
(* rbus_publishEvent, is dropped.                                           *)
EventReachesApplication ==
    \A c \in Client : \A n \in 1 .. MaxPublish :
        (\E i \in DOMAIN inbox[c] : inbox[c][i].id = n) ~>
            (n \in Elems(log[c]) \/ ~entry[c])

=============================================================================
