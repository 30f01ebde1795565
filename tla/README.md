# rbuscore in TLA+

rbuscore is the messaging library under RDK's rbus: remote procedure calls and
events between processes, over the rtMessage connection and its router
(rtrouted), plus a small session manager daemon. These modules model the parts
in which processes, threads and messages meet, check them with TLC on small
instances, and prove with TLAPS, for all instances, every safety property that
the runs check and the refinement of the abstract service.

Line numbers below are of `rbus-core/lib/rbus_core.c` unless another file is
named.

## The system

| Component | State | Operations | Hard parts |
|---|---|---|---|
| Event subscription (client) | `g_event_subscriptions_for_client`, `g_run_event_client_dispatch`, `g_master_event_callback` | `rbus_subscribeToEvent[Timeout]`, `rbus_unsubscribeFromEvent`, `rbus_registerMasterEventHandler` | table change and request are separate steps; timeouts; two threads; alias and object name |
| Event subscription (provider) | `obj->subscriptions`, `evt->listeners`, override | `subscription_handler`, `rbus_registerEvent`, `rbus_unregisterEvent`, `rbus_registerSubscribeHandler`, elements | late requests; restart loses the lists |
| Publishing and delivery | the same lists, the clients' inboxes | `rbus_publishEvent`, `rbus_publishSubscriberEvent`, `master_event_callback` | the list changes without the mutex during the loop; entry used after unlock |
| Server registry, dispatch | `g_server_objects`, methods, the connection's listeners | `rbus_registerObj`, `rbus_unregisterObj`, `rbus_(un)registerMethod`, `install_subscription_handlers`, `onMessage`, `dispatch_method_call` | check-then-act over several critical sections, nested use of the error checking mutex, handler called after unlock, method limit |
| Remote calls | `stack_counter` and `g_queued_requests` of `onMessage` | `rbus_invokeRemoteMethod`, `rbus_pushObj`, `rbus_pullObj`, `rbus_sendResponse` | timeouts against late answers, nested requests, asynchronous responses, who releases a message |
| Broker connection | `g_connection`, `g_mutex`, `g_mutex_init` | open, close, `perform_init`, `perform_cleanup` | close against the dispatch thread, flags that survive a close, error returns with the mutex held |
| Disconnect advisories | `g_advisory_listener_installed`, callback | register, unregister | survive a close |
| Discovery | none | five request/decode functions | decoding of several answers in one message, failing halfway |
| rbusMessage | buffer, read and meta offsets | set, get, meta section | reading position around the meta section |
| Session manager | `g_counter`, `g_current_session_id` | `request_session_id`, `get_session_id`, `end_session` | lost grants, restart |
| rtrouted, rtConnection, rtVector | external | routing, FIFO delivery, timeouts, vectors | modelled from how this code uses them |

How they interact: a client's `rbus_subscribeToEvent` is a remote call of the
method `_subscribe`, which `rbus_registerEvent` installed in the provider's
registry; the provider's dispatch thread changes the listener list that its
application threads walk over when they publish; a published message reaches
the client's dispatch thread, which looks in the table that the client's
application threads change. All tables of a process are guarded by one error
checking mutex, `g_mutex`, where they are guarded. Session clients are ordinary
remote callers.

What makes each component correct:

- subscription: what the client believes (its table) and what the provider does
  (its listeners) agree whenever no call is under way; every call returns;
- delivery: events arrive in order, none twice, at all subscribers;
- registry: an object is registered exactly when it is reachable, and neither
  the registry nor a listener names a destroyed object;
- session manager: one session at a time, with one owner;
- remote calls: a request is answered once, the result of a call is what its
  provider said, and a call gets its answer;
- connection: nobody keeps `g_mutex` or waits for it for ever, and the tables
  exist while there is a connection;
- messages: the hidden meta section is found, and does not disturb the payload;
- discovery: the caller gets all names or an error, the array is not overrun,
  and memory is accounted for.

## Modules

| Module | Models | Extends |
|---|---|---|
| `EventSubscription` | the subscription protocol: clients with threads, requests under way, one provider object with its events | |
| `EventSubscriptionProof` | its theorems, the refinement included | `EventSubscriptionRefinement` |
| `SubscriptionService` | what a subscription service promises, without tables and messages | |
| `EventSubscriptionRefinement` | the refinement mapping from `EventSubscription` to it | `EventSubscription` |
| `EventDelivery` | publishing one event against (un)subscriptions, and delivery to the application | |
| `EventDeliveryProof` | its theorems | `EventDelivery` |
| `ServerRegistry` | registry, methods and events of one process, with its threads | |
| `ServerRegistryProof` | its theorems | `ServerRegistry` |
| `RemoteCall` | remote calls between processes that are callers and providers at once | |
| `RemoteCallProof` | its theorems | `RemoteCall` |
| `BrokerConnection` | opening and closing the connection, against the other threads of the process | |
| `BrokerConnectionProof` | its theorems | `BrokerConnection` |
| `RbusMessage` | a message with its meta section, from sender to receiver | |
| `RbusMessageProof` | its theorems | `RbusMessage` |
| `Discovery` | the five discovery functions | |
| `DiscoveryProof` | its theorems | `Discovery` |
| `SessionManager` | the daemon and its clients | |
| `SessionManagerProof` | its theorems | `SessionManager` |
| `MC...` | the instances TLC checks: model values, thread assignments, symmetry | the module of that name, or its refinement |

### EventSubscription

`subs`, `dispatching` and `master` are the three client globals; `pc`, `call`
and `reply` are where a thread is in a call; `net` is the FIFO of requests per
client; `up`, `aliases`, `handlers`, `override`, `events` and `listeners` are
the provider. `master` has three values: a master event handler was never
registered, there is one, or it was replaced by NULL (1648 stores any
callback), which brings the table back into use. `dropped` and `abandoned` are
history variables for the properties, which say nothing about a client that has
ever had a master event handler: its calls changed the listeners and not the
table. The parts of a call between `lock()` and `unlock()` are one action:
`SubscribeBegin` is 1432-1503, `AfterFailure` and `Undo` are 1505-1513 with
`remove_subscription_callback`; `UnsubscribeBegin` is 1528-1550. The remote
call is `SendRequest` followed by `ReceiveReply` or `Timeout`, or it is
`Unreachable` or `SendFails`. `HandleRequest` is the whole of
`subscription_handler` with the answer, over the outcomes of
`server_object_subscription_handler`. An override may answer itself or leave
the request to the built-in list.

A request that has timed out stays in `net` with `live = FALSE`: the provider
still handles it. `ProviderCrash` empties the provider and the requests that it
had not handled, and no client is told.

Abstracted: names, payloads and error codes beyond success and failure;
installation of the two methods is one step here (its partial failure is in
`ServerRegistry`).

### SubscriptionService and the refinement

The service has the events the provider offers, the listeners it serves, what
each thread has asked for, and the changes asked for in vain that may still
happen, in the order they were asked for. An answered call took effect exactly
once, between its start and its return, and after everything late of its
process; the calls given up on take effect at most once each, in their order.
`EventSubscriptionRefinement` maps `events`, `override` and `listeners` to the
service, a call in `send` or `wait` to what is asked, and the requests nobody
waits for, which are all but possibly the last, to what is late. The client's table has no
counterpart: the service is what the provider side promises, and
`SubscriberIsListener` connects the two.

### EventDelivery

`PublishBegin`, `PublishSend`, `PublishSendFails` and `PublishEnd` are the loop
of `rbus_publishEvent`, with the index and the size that was read once.
`DispatchLookup` and `SubscriptionHandler` are the two halves of
`dispatch_method_call`: the lookup needs the mutex, the handler runs without
it, so that a publish can begin in between. `MasterHandles`, `FindEntry` and
`InvokeCallback` are `master_event_callback`. Requests are always answered and
there is one application thread per client, whose call returns with the
answer: timeouts are the subject of `EventSubscription`. A client of
`MasterClient` may register a master event handler and clear it again, any
number of times; a subscription made while there is one has no entry.
`EventReachesApplication` is about clients with an entry: it excuses those that
cancelled and those that subscribed with a master handler, whose
`rbus_publishEvent` events are dropped (1355). An index beyond the end of the
list sends nothing. The operations of rtVector are atomic; the data race inside
the vector itself is not modelled.

### ServerRegistry

Objects live at addresses that are allocated and freed; a freed address keeps
its contents until it is reused, so that a step through a stale pointer is
visible. `RegisterObj`, `RegisterObjAddListener[Fails]` and `RegisterObjPush`
are the three steps of `rbus_registerObj`; `UnregisterObj` and
`UnregisterObjRemove` the two of `rbus_unregisterObj`. `InstallFirst`,
`InstallSecond` and `InstallFlag` are `install_subscription_handlers` as it
really runs: `rbus_registerMethod` called inside the critical section of
`rbus_registerEvent` cannot take the error checking mutex again, but does
release it, so the rest runs without it. A method table is a sequence of
`RegisterMethod` steps; the reserved methods are not unregistered by name.
`granted`, `short` and `clash` are history variables: objects whose
`rbus_registerEvent` succeeded, objects that got one of two handlers, and
whether two threads were in calls that create, destroy or need an object of one
name at the same time. The module ends with the listeners: that a listener's
closure is alive (`ListenerIsAlive`) is what `onMessage` starts from, and says
nothing about the object after `dispatch_method_call` has released the mutex.

### RemoteCall

A call is an id with its caller, its provider, the thread that makes it
(application, or a handler on the dispatch thread) and the function.
`Send`, `SendFails`, `NotConnected` and `NameTooLong` are the ways into
`rbus_invokeRemoteMethod`; the last two are the returns in front of everything
(1002-1012), which leave the application's request unreleased (`Given`;
`rbus_pullObj` hands none over); `ReceiveReply` and `Timeout` the ways out, with the
decoding of `rbus_pushObj` and `rbus_pullObj` (`Decode`, `IntResult`) and the
messages left with the caller (`Kept`). `OnMessage` and `OnMessageNested` are
`onMessage` with `stack_counter` 1 and above; a nested request goes to
`g_queued_requests`, which nobody creates, and is lost (rtVector, external,
stores nothing in a vector that is not there). `HandlerReturns`,
`ObjectCallbackAsync` and `MethodCallbackAsync` are `dispatch_method_call` with
the three kinds of handlers, `AnswerLater` a response sent by the application.
An answer nobody waits for is dropped by rtConnection (external).

### BrokerConnection

`mutex` is `g_mutex` itself: its kind (zeroed, error checking, destroyed) and
its owner. `Section` is a `lock()` up to the first `unlock()`, whose results
nobody looks at. Opening is `OpenBegin`, `OpenInitMutex` and one of
`OpenAgain`, `OpenCreate` and `OpenCreateFails`; closing is `CloseBegin`, then
`CloseRefused` or `CloseCleanup`, `CloseCancel` per subscription, `CloseFinish`
(together `perform_cleanup`), `CloseDestroy` or `CloseDestroyFails`, and
`CloseEnd`. The calls of other threads are reduced to the check of
`g_connection`, a section, and what the section does to the flags and listeners
that concern the connection. A freed table is a state of its own. What an entry
of a table is, and the use of an entry that a concurrent call removed, are left
out.

### RbusMessage

A buffer is a sequence of items with their places; an item is its type and its
size. `Pack`, `Set`, `BeginMetaSectionWrite`, `EndMetaSectionWrite`,
`BeginMetaSectionRead` and `EndMetaSectionRead` are operators on messages, used
by the actions of one sender and one receiver. `IntSize` is what msgpack takes
for an integer, from which it follows that the offset, with its sign bit set,
takes 5 bytes. Where a read starts between items, anything may come out. A
message may be sealed several times (published again), or never. In one that
was never sealed, `rbusMessage_BeginMetaSectionRead` takes any integer it finds
5 bytes before the end for the offset and does not look at it (272-273): these
are the members of `Stray`, in the run from -1 to beyond every buffer, and
while the section is read the read position may be any integer. What `TypeOK`
says of it is that it is inside the buffer whenever no section is being read.

### Discovery

One call of one of the five functions: `ReceiveAnswer` chooses any answer up to
the bound, a count and items that need not agree; `Allocate` and `CopyItem` may
fail at any time. `Outcome` says which functions keep the error. `Loose` are the
three that allocate `size` entries and clear and fill `length` of them
(1757-1770, 1842-1853, 2094-2105); `touched` is how far an array was written and
`room` how far it was allocated, so that an overrun is a state. `told` is what
the caller finds in `*count`. `ReallocToNothing` is a `realloc` to size 0 that
frees the array and returns NULL, after which 2063 frees it again
(`mem = "twice"`). `NoName` is an empty item, which only
`rbus_discoverElementsObjects` leaves out. The properties name the exceptions
the code has, each no wider than needed: overruns take more items than the
count in one of the three functions (`WithinArray`), unusable successes a
failure or a mismatch in them (`CountIsTheNames`), a double free a reallocation
to nothing (`ErrorFreesAll`).

### SessionManager

`counter` and `current` are the daemon's two globals; `net`, `call` and `reply`
are the calls of its clients, `known` and `owned` what a client has learned.
`Restart` resets the globals, which are nowhere stored; answers that are on
their way still arrive.

## Runs

| Run | Instance | Shows |
|---|---|---|
| `subscription` | 1 client, 1 thread, 2 events, 2 requests under way | `SubscriberIsListener`, `ListenerIsSubscriber`, the inductive invariant `TablesInv` (which includes `TypeOK`), the refinement `ImplementsService`; `CallReturns` under `FairSpec` |
| `subscription_threads` | 1 client, 2 threads, 1 event | violation of `SubscriberIsListener` |
| `delivery` | 2 clients, one of which may have a master handler, 2 publishing threads, 2 events published | `DeliveredInOrder`, `MissesAtMostOne`, `TypeOK`; `EventReachesApplication` under `FairSpec` |
| `delivery_skip` | 2 clients, 1 publish | violation of `ServesAllSubscribers` |
| `registry` | 2 threads, 2 objects, 2 addresses, 1 method of its own, 2 at most | `RegistryIsAlive`, `RegisteredIsReachable`, `ListenerIsAlive`, `AcceptsBoth`, `GrantedServesBoth`, `TypeOK` (with the method limit) |
| `connection` | 1 opening thread, 1 other, the dispatch thread, 2 events, 3 calls each | `MutexIsReturned`, `TablesExist`, `TypeOK`; `CallReturns` under `FairSpec` |
| `connection_reopen` | the same with 1 event | violation of `SubscriberListens` |
| `rpc` | 2 processes that call one another and an object of other code, 3 calls | `AnsweredOnce`, `ResultIsTheProviders`, `MessagesReleased`, `TypeOK`; `AnsweredUnlessBusy` under `FairSpec` |
| `message` | items of 4 and 5 bytes, 4 of them, 2 meta sections of 2, read twice | `MetaIsFound`, `PayloadInOrder`, `TypeOK` |
| `discovery` | up to 4 items of 2 names, counts up to 4, 3 elements | `WithinArray`, `CountIsTheNames`, `ErrorFreesAll`, `NamesInOrder`, `TypeOK` |
| `discovery_elements` | 3 items, 3 elements | violation of `FailedLookupIsEmptyString` |
| `session` | 2 clients, 2 sessions per run of the daemon, 2 requests, 1 restart | `OneOwner`, `OwnerInv` |

The violations are what the code does against a sentence of its header or a
message of its own; `PROJECT.json` quotes each of them under `findings`.

Bounds. `MaxPending` limits the requests of one client under way: two are
needed for a late request in front of the one a call waits for. Two events of
one object show that a call about one leaves the other alone. `MaxPublish` 2
with two threads gives publishes that would overlap without the mutex; two
clients give a listener behind the one that leaves. `MaxMethods` stands for
`MAX_SUPPORTED_METHODS` and is small so that the limit is reached by the
reserved methods. Two addresses allow an object to be registered again while a
pointer to the old one is in use. `MaxSession` 2 gives a session after one that
was ended by somebody else, `MaxRestarts` 1 answers and claims of an earlier
run. Three calls of each thread in `connection` are open, close and open again,
and subscriptions on either connection; two events give a cancellation with
another to follow. Three calls in `rpc` are a call, one from its handler, and
one that meets the busy process. Two sizes of items in `message` put the
offset 5 bytes before the end and items of exactly that size there; two seals a
section behind a section; stray offsets from -1 to 21 are in front of, inside
and behind every unsealed message. Three elements in `discovery` are one before, at and
after a reallocation. That the invariants hold beyond these bounds is proved,
see below; the bounds themselves stay parameters of the theorems.

Deadlock is checked except where a behaviour ends: one discovery, a bounded
number of calls (`connection`, `rpc`) and a message that was read. There the
liveness properties say that nobody is stuck in a call. Symmetry is used for
threads, objects, addresses and the clients of the session manager, in runs with
invariants only.

Fairness. `CallReturns` of `EventSubscription` needs only that a thread inside
a call takes a step it can take: every wait has a timeout
(`rtConnection_SendBinaryRequest` with a positive timeout, 625-627). The same
holds for `CallReturns` of `BrokerConnection`, where a thread may also wait for
the mutex (weak fairness: the mutex is contended by a bounded number of calls)
or for the dispatch thread to end. `EventReachesApplication` needs that a
client's dispatch thread runs. For `AnsweredUnlessBusy` requests and answers
arrive, handlers return and promised answers are sent; timeouts are not fair,
so that the property is about the answer and not about giving up. Nothing is
assumed of applications otherwise, or of the sessions daemon.

Known from the models, without a run of their own:

- two threads that register and unregister the same name at the same time can
  leave a registered object without a listener, or a listener with a destroyed
  object; `RegistryIsAlive` holds all the same;
- when the limit of methods stops the second of the two handlers, the first
  `rbus_registerEvent` fails and the next reports success (1205), although
  `_unsubscribe` is missing; `GrantedServesBoth` excuses such objects;
- the handler of a request is called after the mutex is released (408, 415):
  the object may have been destroyed by then, and no property denies it;
- a call without a connection, or with a name that is too long, does not release
  the request (1005, 1011), although the header (97) says that rbus does;
- a callback can be invoked after `rbus_unsubscribeFromEvent` has returned,
  through an entry that was freed (`InvokeCallback` after `Unsubscribe`);
- with a master event handler a subscription makes no entry (1477), and an
  event of `rbus_publishEvent` is not given to the handler (1355): nobody is
  called;
- a request that comes in the middle of another is lost (437);
- a method callback that returns `RTMESSAGE_BUS_SUCCESS_ASYNC` is answered twice
  (`twice`), an object callback is not;
- `rbus_closeBrokerConnection` without a connection keeps `g_mutex` (`refused`),
  and one whose `rtConnection_Destroy` fails leaves freed tables behind a
  connection that looks open (`halfClosed`);
- three of the discovery functions report success after a failed allocation
  (1792, 1874, 2126), with a freed array, and write behind the end of the array
  when the answer has more items than its count (1769, 1853, 2105);
- `rbus_discoverElementsObjects` frees its array twice after a `realloc` to size
  0 that returns NULL (2006, 2063);
- a client that subscribes by object name and by alias and cancels one of the
  two, or whose provider was restarted, is a subscriber without a listener;
- after a restart of the sessions daemon a client may end a session of another
  that has the same id.

## Proofs

Each proof module states one inductive invariant (two for `EventSubscription`
and `RbusMessage`), shows with one lemma per action, or per group of actions
that do the same to the invariant, that every step keeps it, and derives from
it the properties the runs check. All assumptions on constants are the named
`ASSUME`s of the modules, which TLC evaluates in every run: the bounds are
natural numbers, the model's "none" values are not members of the sets, and
those named below.

| Module | Theorems about checked properties | Holds for |
|---|---|---|
| `EventSubscriptionProof` | `TypeCorrect`, `TablesInvariant`, `SubscribersAreListeners`, `ListenersAreSubscribers`, `SubscriptionRefinement` | any clients, threads, events, names and `MaxPending`; all but the first for `SingleThreaded` clients, the middle three for clients that name the provider in one way |
| `EventDeliveryProof` | `DeliveryTypeCorrect`, `DeliveryInOrder`, `DeliveryMissesAtMostOne` | any finite set of clients, any publishing threads, any number of events |
| `ServerRegistryProof` | `RegistryTypeCorrect`, `RegistryAlive`, `RegistryListeners`, `RegistryReachable`, `RegistryAcceptsBoth`, `RegistryServesBoth` | any threads, names, methods, addresses and limit of methods |
| `RemoteCallProof` | `CallTypeCorrect`, `CallAnsweredOnce`, `CallResult`, `CallMessagesReleased` | any processes, any set of calls between them, any number of calls |
| `BrokerConnectionProof` | `BrokerTypeCorrect`, `BrokerMutexReturned`, `BrokerTablesExist` | any threads that use the connection, one that opens and closes it (`ManagerAssumption`), any events and number of calls |
| `RbusMessageProof` | `MessageTypeCorrect`, `MessagePayload`, `MessageMeta` | items of any positive sizes, any stray offsets, any number of items, seals and reads; `MessageMeta` for messages below 2^31 - 2^15 bytes |
| `DiscoveryProof` | `DiscoveryTypeCorrect`, `DiscoveryWithinArray`, `DiscoveryCount`, `DiscoveryFailure`, `DiscoveryNamesInOrder` | any names, answers (count and items agreeing or not) and numbers of elements |
| `SessionManagerProof` | `OwnersInvariant`, `SessionHasOneOwner` | any number of clients, sessions, requests under way and restarts |

### EventSubscription

`TablesInvariant` is `Spec => []TablesInv`, for `SingleThreaded` clients that
name the provider in one way (`ByObjectName`). Neither condition can be
dropped: `subscription_threads` is the counterexample for the first; for the
second, a client that subscribes by object and by alias has two entries and
one listener, and cancelling one subscription ends the other.

`SubscriberIsListener` is not inductive: it says nothing about the middle of a
call, and its induction step fails when an answer arrives. `TablesInv` adds
what holds there: a request somebody waits for is the last of its client and
every other one is about an event with an abandoned call (`NetInv`); once the
answer is there nothing else is under way and the provider agrees with the
answer (`CallInv`); no request under way is about an entry that no call is
about (`EntryInv`), which is why a late unsubscribe cannot remove the listener
of a later, successful subscribe: requests are FIFO, so the answer to the later
one comes after it; and a listener without an entry belongs to an abandoned
call (`ListenerInv`).

`SubscriptionRefinement` is `Spec => ImplementsService`: the initial states map
to initial states of `SubscriptionService`, and every step maps to a step of it
or to none. Its invariant `WireInv` is smaller than `TablesInv` and does not
need one name for the provider: of the requests of a process under way only the
last may be waited for, it is the call of the thread that made it, and an
answer means that none is left (`Awaited`), so that the late ones are the first
of those under way (`LateIs`). From it follows that a step of
`HandleRequest` is either the effect of the call asked for, after everything
late, or the first of the late changes (`TailLate`); a timeout makes an asked
change the last of the late ones; a crash drops them.

### EventDelivery

`DeliveredInOrder` needs the events on their way too: those handed to the
application, found by `master_event_callback` and still in the inbox are
increasing in this order, and none is later than the last published
(`ClientInv`). That a publish sends its event to nobody who has it follows from
the listeners it has yet to reach (`Ahead`) having got only earlier ones.
`MissesAtMostOne` is proved from `LoopInv`: the loop holds the mutex, so only
the one handler whose lookup came before the lock can change the list under it,
and once; one removal shifts at most one listener below the index, and only
makes the list shorter than the size that was read. `Client` is assumed to be
finite because the property counts.

### ServerRegistry

`RegistryInv` has a part for any threads (`CallInv`, `AliveInv`: the registry
has each object once and alive, an object being created is alive, in no
registry and no other thread's) and a part for threads that do not clash
(`OrderlyInv`): the calls on one name exclude each other but for the
installation of handlers, every name has one object and one listener, listeners
and objects belong together except for the call under way that says why not,
and a call finds the name as it needs it. The conditions of `RegisteredIsReachable`,
`ListenerIsAlive`, `AcceptsBoth` and `GrantedServesBoth` are those of the
properties; `RegistryIsAlive` has none.

### RemoteCall

`CallInv` says for each call that its request is in one place and is answered
when it leaves it (`Answered`), that an answer on its way is what the provider
said of this call and its last word (`OnItsWay`), and what a call that has
returned left behind (`Returned`), the request after one of the two early
returns included. The exception of `AnsweredOnce` is the promise of a method
callback, which an answer precedes (`twice`).

### BrokerConnection

`BrokerInv` says that only a refused close keeps the mutex (`OwnerInv`), what a
close has done by where it is (`StageInv`), that the tables are alive when the
connection is there and nobody closes (`InStep`), and that a call which no close
overlaps still has the connection it found. One thread opens and closes: two of
them race on `g_mutex_init` (527) before there is a mutex to exclude them, which
is listed as a hazard without a property.

### RbusMessage

A message is a sequence of items with their places, so the invariant first says
that the items lie one behind the other and fill the buffer (`Placed`), and
`Follows` says what a reader has got when it is at a byte. `PayloadInv` is that
the payload is the beginning of both messages and the application has read the
beginning of that, the kept read position standing in while the meta section is
read. `SectionInv` is that the section being written begins at `meta_offset`
and the one that was sent is followed by its offset in the last 5 bytes. The
last needs `SmallMessage`: the offset with its sign bit set takes 5 bytes only
below 2^31 - 2^15, and the code reads exactly 5 bytes back. `MessageMeta`
therefore has the hypothesis `[]SmallMessage`; the other two theorems have none.
The runs' messages are all small.

### Discovery

`DiscoveryInv` says how far the call is (`UnderWay`), that the array has room
for the items of this element still to come unless there are more items than
the count (`RoomLeft`, the strengthening of `WithinArray`), what `*count` holds
(`Counted`), and that the array is exactly the items gone through
(`CopiedSoFar`), for answers without empty items where those are left out.
`CountIsTheNames` and `ErrorFreesAll` speak of the end of a call only and are
parts of the invariant themselves.

### SessionManager

`OwnerInv` says that the sessions clients may come to own, those in answers not
yet received included (`Claims`), are disjoint, and of an earlier run of the
daemon or not above its counter. The history variable `owned` tells the runs of
the daemon apart; the ids do not: after a restart the daemon grants 1 again,
and a client that still holds the old session 1 may end the new one.

### Only model-checked

- the liveness properties `CallReturns` (of `EventSubscription` and of
  `BrokerConnection`), `EventReachesApplication` and `AnsweredUnlessBusy`:
  fairness and `ENABLED` are out of the prover's reach;
- that the violations of the four runs that expect one happen;
- no recursion over data is needed in the modules proved about: where a loop of
  the code searches or filters, the model says what it finds, and the loops of
  publishing, closing and decoding are actions.

The inductive invariants that are not properties of a run of their own
(`DeliveryInv`, `RegistryInv`, `CallInv` of remote calls, `BrokerInv`,
`DiscoveryInv`, `MetaInv`, `WireInv`) were checked with TLC on the instances of
the runs before they were proved; `WireInv` also with clients that use both
names of the provider.

## Plan

All components listed above are modelled, except for what follows, and every
invariant of a run is proved. What is left:

1. properties of the disconnect advisories beyond the flags that survive a
   close, and of the unlocked use of a client's entry (1385), for which the
   entries would have to have addresses, as the objects of `ServerRegistry` do;
2. two threads that open and close at the same time, which needs the mutex to
   be made more than once in `BrokerConnection`;
3. sharper statements for clients with several threads: what of `TablesInv` is
   left when two threads of a client use different events.

## Not modelled

- `rbus_types.h`, `rbus_logger.h`: codes and macros, no state;
- `rbuscore_checkBusStatus` (tests for a file) and the parsing of the device
  properties in `configure_router_address`: input only;
- `rbusMessage_ToDebugString`: formatting, with the read position restored;
- reference counts: rtRetainable's, outside this repository;
- the callback of disconnect advisories: `rtrouted_advisory_callback` reads a
  message and calls it, and keeps no state;
- functions the header declares and no file defines
  (`rbus_invokeRemoteMethodAsync`, timed update events);
- data races inside rtVector and between unlocked reads of globals;
- the sample programs and tests.
