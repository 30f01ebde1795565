--------------------------- MODULE ServerRegistry ---------------------------
(***************************************************************************)
(* The server side tables of one process: its registered objects, their    *)
(* methods and events, and the listeners its connection has for them.      *)
(*                                                                         *)
(* Application threads register and unregister; what the dispatch thread   *)
(* does with a request is the subject of RemoteCall.  Every section        *)
(* between lock() and unlock() is one action; the sections of one call are *)
(* separate actions, because another thread may run between them:          *)
(*   - rbus_registerObj looks for the name, adds the listener and enters   *)
(*     the object in the registry in three steps, rbus_unregisterObj undoes*)
(*     the two in two steps, in the order in which they were done;         *)
(*   - rbus_registerEvent and rbus_registerSubscribeHandler call           *)
(*     rbus_registerMethod inside their own critical section.  g_mutex is  *)
(*     an error checking mutex: the inner lock() fails, the inner unlock() *)
(*     succeeds, and the rest of the outer section runs without the mutex. *)
(*                                                                         *)
(* Objects live at addresses.  A freed address keeps its contents until it *)
(* is allocated again, so a step through a stale pointer acts on whatever  *)
(* object is at the address by then.                                       *)
(***************************************************************************)
EXTENDS Naturals, Sequences, FiniteSets

CONSTANTS
    Thread,      \* application threads
    Object,      \* object names
    Method,      \* method names of the application
    Event,       \* event names
    Addr,        \* addresses for objects (bounds the objects alive at a time)
    MaxMethods,  \* MAX_SUPPORTED_METHODS
    NoThing      \* the null pointer, and the name of no method

Reserved == {"_subscribe", "_unsubscribe"}

ASSUME RegistryAssumption ==
    /\ MaxMethods \in Nat
    /\ NoThing \notin Addr \cup Object \cup Method \cup Reserved
    /\ Method \cap Reserved = {}

VARIABLES
    registry,   \* g_server_objects: addresses, in the order of registration
    routes,     \* the connection's listeners: name and closure, in order
    alive,      \* allocated addresses
    heap,       \* the object at each address
    pc,         \* thread: the step of a call that comes next
    name,       \* thread: object_name of the call
    ptr,        \* thread: the object the call has a pointer to
    granted,    \* history: names of objects that were told, by a successful
                \* call, that others can subscribe to their events
    short,      \* history: objects that got only the first of the handlers
    clash       \* history: two threads were in calls that create, destroy or
                \* need an object of the same name

historyVars == <<granted, short, clash>>
vars == <<registry, routes, alive, heap, pc, name, ptr, historyVars>>

-----------------------------------------------------------------------------
(* A server_object.  Of a method, what matters is its name and, for the     *)
(* reserved ones, the object it was registered for (user_data).             *)
ObjectRecord == [name    : Object \cup {NoThing},
                 methods : SUBSET ((Method \cup Reserved) \X (Addr \cup {NoThing})),
                 events  : SUBSET Event,
                 accepts : BOOLEAN,          \* process_event_subscriptions
                 override : BOOLEAN]         \* subscribe_handler_override # NULL

NewObject(n) == [name |-> n, methods |-> {}, events |-> {},
                 accepts |-> FALSE, override |-> FALSE]

TypeOK ==
    /\ registry \in Seq(Addr)
    /\ routes \in Seq([name : Object, obj : Addr])
    /\ alive \subseteq Addr
    /\ heap \in [Addr -> ObjectRecord]
    /\ pc \in [Thread -> {"idle", "add", "push", "remove", "second", "flag"}]
    /\ name \in [Thread -> Object \cup {NoThing}]
    /\ ptr \in [Thread -> Addr \cup {NoThing}]
    /\ granted \subseteq Object /\ short \subseteq Addr
    /\ clash \in BOOLEAN
    /\ \A a \in Addr : Cardinality(heap[a].methods) <= MaxMethods

Init ==
    /\ registry = <<>>
    /\ routes = <<>>
    /\ alive = {}
    /\ heap = [a \in Addr |-> NewObject(NoThing)]
    /\ pc = [t \in Thread |-> "idle"]
    /\ name = [t \in Thread |-> NoThing]
    /\ ptr = [t \in Thread |-> NoThing]
    /\ granted = {} /\ short = {}
    /\ clash = FALSE

Elems(s) == {s[i] : i \in DOMAIN s}

(* The sequence s without its first element that is in T. *)
RemoveFirst(s, T) ==
    LET i == CHOOSE j \in DOMAIN s : s[j] \in T /\ \A k \in 1 .. j - 1 : s[k] \notin T
    IN  SubSeq(s, 1, i - 1) \o SubSeq(s, i + 1, Len(s))

(* get_object: the first entry of the registry with that name, or NULL. *)
get_object(n) ==
    IF \E i \in DOMAIN registry : heap[registry[i]].name = n
    THEN registry[CHOOSE i \in DOMAIN registry :
                     /\ heap[registry[i]].name = n
                     /\ \A j \in 1 .. i - 1 : heap[registry[j]].name # n]
    ELSE NoThing

HasMethod(a, m) == \E e \in heap[a].methods : e[1] = m

(* Thread t returns from its call. *)
Return(t) ==
    /\ pc' = [pc EXCEPT ![t] = "idle"]
    /\ name' = [name EXCEPT ![t] = NoThing]
    /\ ptr' = [ptr EXCEPT ![t] = NoThing]

(* Thread t goes on with its call at step s, with object name n and pointer *)
(* p.                                                                       *)
Continue(t, s, n, p) ==
    /\ pc' = [pc EXCEPT ![t] = s]
    /\ name' = [name EXCEPT ![t] = n]
    /\ ptr' = [ptr EXCEPT ![t] = p]

(* Thread t begins a call about object n while another one is at a step of  *)
(* S in a call about it.                                                    *)
ObjectStep  == {"add", "push", "remove"}
InstallStep == {"second", "flag"}

NoteClash(t, n, S) ==
    clash' = (clash \/ \E u \in Thread \ {t} : name[u] = n /\ pc[u] \in S)

-----------------------------------------------------------------------------
(* rbus_registerObj.                                                        *)

(* The name is looked up under the mutex; the object is created after it is *)
(* released.  A duplicate ends the call.                                    *)
RegisterObj(t, n) ==
    /\ pc[t] = "idle"
    /\ IF get_object(n) # NoThing
       THEN UNCHANGED vars
       ELSE \E a \in Addr \ alive :
              /\ alive' = alive \cup {a}
              /\ heap' = [heap EXCEPT ![a] = NewObject(n)]
              /\ granted' = granted \ {n} /\ short' = short \ {a}
              /\ NoteClash(t, n, ObjectStep \cup InstallStep)
              /\ Continue(t, "add", n, a)
              /\ UNCHANGED <<registry, routes>>

(* rtConnection_AddListener, with the object as closure.  It may fail. *)
RegisterObjAddListener(t) ==
    /\ pc[t] = "add"
    /\ routes' = Append(routes, [name |-> name[t], obj |-> ptr[t]])
    /\ Continue(t, "push", name[t], ptr[t])
    /\ UNCHANGED <<registry, alive, heap, historyVars>>

(* Mutant of RegisterObjAddListenerFails: the error is not looked at. *)
RegisterObjAddListenerFails_Ignored(t) ==
    /\ pc[t] = "add"
    /\ Continue(t, "push", name[t], ptr[t])
    /\ UNCHANGED <<registry, routes, alive, heap, historyVars>>

RegisterObjAddListenerFails(t) ==
    /\ pc[t] = "add"
    /\ alive' = alive \ {ptr[t]}
    /\ Return(t)
    /\ UNCHANGED <<registry, routes, heap, historyVars>>

RegisterObjPush(t) ==
    /\ pc[t] = "push"
    /\ registry' = Append(registry, ptr[t])
    /\ Return(t)
    /\ UNCHANGED <<routes, alive, heap, historyVars>>

-----------------------------------------------------------------------------
(* rbus_unregisterObj.                                                      *)

(* Mutant of UnregisterObj: the listener stays. *)
UnregisterObj_KeepsListener(t, n) ==
    /\ pc[t] = "idle"
    /\ Continue(t, "remove", n, NoThing)
    /\ NoteClash(t, n, ObjectStep \cup InstallStep)
    /\ UNCHANGED <<registry, routes, alive, heap, granted, short>>

ListenersOf(n) == {r \in Elems(routes) : r.name = n}

(* rtConnection_RemoveListener: the first listener of that name goes.       *)
(* Without one the call fails.                                              *)
UnregisterObj(t, n) ==
    /\ pc[t] = "idle"
    /\ IF ListenersOf(n) = {}
       THEN UNCHANGED vars
       ELSE /\ routes' = RemoveFirst(routes, ListenersOf(n))
            /\ Continue(t, "remove", n, NoThing)
            /\ NoteClash(t, n, ObjectStep \cup InstallStep)
            /\ UNCHANGED <<registry, alive, heap, granted, short>>

(* Mutant of UnregisterObjRemove: the object is destroyed, its entry stays. *)
UnregisterObjRemove_KeepsEntry(t) ==
    /\ pc[t] = "remove"
    /\ alive' = alive \ {get_object(name[t])}
    /\ Return(t)
    /\ UNCHANGED <<registry, routes, heap, historyVars>>

(* The object is looked up, taken out and destroyed under the mutex. *)
UnregisterObjRemove(t) ==
    LET a == get_object(name[t])
    IN  /\ pc[t] = "remove"
        /\ IF a = NoThing
           THEN UNCHANGED <<registry, alive>>
           ELSE /\ registry' = RemoveFirst(registry, {a})
                /\ alive' = alive \ {a}
        /\ Return(t)
        /\ UNCHANGED <<routes, heap, historyVars>>

-----------------------------------------------------------------------------
(* Methods.                                                                 *)

(* Mutant of CanRegister: the limit is off by one. *)
CanRegister_OffByOne(n, m) ==
    LET a == get_object(n)
    IN  /\ a # NoThing
        /\ Cardinality(heap[a].methods) <= MaxMethods
        /\ ~HasMethod(a, m)

(* The body of rbus_registerMethod, under the mutex: whether it succeeds,   *)
(* and the heap after it did.                                               *)
CanRegister(n, m) ==
    LET a == get_object(n)
    IN  /\ a # NoThing
        /\ Cardinality(heap[a].methods) < MaxMethods
        /\ ~HasMethod(a, m)

WithMethod(n, m, data) ==
    [heap EXCEPT ![get_object(n)].methods = @ \cup {<<m, data>>}]

RegisterMethod(t, n, m) ==
    /\ pc[t] = "idle"
    /\ heap' = IF CanRegister(n, m) THEN WithMethod(n, m, NoThing) ELSE heap
    /\ UNCHANGED <<registry, routes, alive, pc, name, ptr, historyVars>>

UnregisterMethod(t, n, m) ==
    LET a == get_object(n)
    IN  /\ pc[t] = "idle"
        /\ heap' = IF a = NoThing THEN heap
                   ELSE [heap EXCEPT ![a].methods = {e \in @ : e[1] # m}]
        /\ UNCHANGED <<registry, routes, alive, pc, name, ptr, historyVars>>

-----------------------------------------------------------------------------
(* Events.                                                                  *)

(* install_subscription_handlers for the object at a, up to and including   *)
(* the first rbus_registerMethod, whose unlock() ends the critical section  *)
(* of the caller.  h is the heap as the caller left it.  An object that     *)
(* accepts requests, or has the method, needs nothing: success.             *)
InstallFirst(t, a, h) ==
    \/ /\ heap[a].accepts \/ HasMethod(a, "_subscribe")
       /\ heap' = h
       /\ granted' = granted \cup {heap[a].name}
       /\ Return(t)
    \/ /\ ~heap[a].accepts /\ ~HasMethod(a, "_subscribe")
       /\ ~CanRegister(heap[a].name, "_subscribe")
       /\ heap' = h
       /\ Return(t)
       /\ UNCHANGED granted
    \/ /\ ~heap[a].accepts
       /\ CanRegister(heap[a].name, "_subscribe")
       /\ heap' = [h EXCEPT ![a].methods = @ \cup {<<"_subscribe", a>>}]
       /\ Continue(t, "second", heap[a].name, a)
       /\ UNCHANGED granted

RegisterEvent(t, n, e) ==
    LET a == get_object(n)
    IN  /\ pc[t] = "idle"
        /\ IF a = NoThing THEN UNCHANGED <<heap, pc, name, ptr, granted>>
           ELSE InstallFirst(t, a, [heap EXCEPT ![a].events = @ \cup {e}])
        /\ NoteClash(t, n, ObjectStep)
        /\ UNCHANGED <<registry, routes, alive, short>>

RegisterSubscribeHandler(t, n) ==
    LET a == get_object(n)
    IN  /\ pc[t] = "idle"
        /\ IF a = NoThing THEN UNCHANGED <<heap, pc, name, ptr, granted>>
           ELSE InstallFirst(t, a, [heap EXCEPT ![a].override = TRUE])
        /\ NoteClash(t, n, ObjectStep)
        /\ UNCHANGED <<registry, routes, alive, short>>

(* Mutant of InstallSecond: the error is not looked at. *)
InstallSecond_Ignored(t) ==
    LET n == heap[ptr[t]].name
    IN  /\ pc[t] = "second"
        /\ heap' = IF CanRegister(n, "_unsubscribe")
                   THEN WithMethod(n, "_unsubscribe", ptr[t]) ELSE heap
        /\ Continue(t, "flag", name[t], ptr[t])
        /\ UNCHANGED <<registry, routes, alive, historyVars>>

(* The second rbus_registerMethod, for the name it reads through its        *)
(* pointer.                                                                 *)
InstallSecond(t) ==
    LET n == heap[ptr[t]].name
    IN  /\ pc[t] = "second"
        /\ IF CanRegister(n, "_unsubscribe")
           THEN /\ heap' = WithMethod(n, "_unsubscribe", ptr[t])
                /\ Continue(t, "flag", name[t], ptr[t])
                /\ UNCHANGED short
           ELSE /\ UNCHANGED heap
                /\ short' = short \cup {ptr[t]}
                /\ Return(t)
        /\ UNCHANGED <<registry, routes, alive, granted, clash>>

(* process_event_subscriptions = true, without the mutex. *)
InstallFlag(t) ==
    /\ pc[t] = "flag"
    /\ heap' = [heap EXCEPT ![ptr[t]].accepts = TRUE]
    /\ granted' = granted \cup {name[t]}
    /\ Return(t)
    /\ UNCHANGED <<registry, routes, alive, short, clash>>

UnregisterEvent(t, n, e) ==
    LET a == get_object(n)
    IN  /\ pc[t] = "idle"
        /\ heap' = IF a = NoThing THEN heap
                   ELSE [heap EXCEPT ![a].events = @ \ {e}]
        /\ UNCHANGED <<registry, routes, alive, pc, name, ptr, historyVars>>

-----------------------------------------------------------------------------
CallStep(t) ==
    \/ RegisterObjAddListener(t)
    \/ RegisterObjAddListenerFails(t)
    \/ RegisterObjPush(t)
    \/ UnregisterObjRemove(t)
    \/ InstallSecond(t)
    \/ InstallFlag(t)

ApplicationCall(t) ==
    \E n \in Object :
        \/ RegisterObj(t, n)
        \/ UnregisterObj(t, n)
        \/ \E m \in Method : RegisterMethod(t, n, m)
        \/ \E m \in Method : UnregisterMethod(t, n, m)
        \/ \E e \in Event : RegisterEvent(t, n, e)
        \/ \E e \in Event : UnregisterEvent(t, n, e)
        \/ RegisterSubscribeHandler(t, n)

Next == \E t \in Thread : ApplicationCall(t) \/ CallStep(t)

Spec == Init /\ [][Next]_vars

-----------------------------------------------------------------------------
(* Properties.                                                             *)

AllIdle == \A t \in Thread : pc[t] = "idle"

(* The registry holds no freed object, and no object twice: an object is    *)
(* destroyed only together with its entry, whatever other calls are under   *)
(* way (rbus_registerObj, rbus_unregisterObj).                              *)
RegistryIsAlive ==
    /\ Elems(registry) \subseteq alive
    /\ Cardinality(Elems(registry)) = Len(registry)

(* The other properties hold for threads that keep out of each other's way: *)
(* no two are in calls that create, destroy or need an object of one name.  *)

(* An object that is registered can be reached: rbus_registerObj and        *)
(* rbus_unregisterObj keep the registry and the connection's listeners in   *)
(* step, so that between calls every registered object has its listener.    *)
RegisteredIsReachable ==
    ~clash /\ AllIdle => Elems(registry) \subseteq {r.obj : r \in Elems(routes)}

(* rbus_unregisterObj takes the listener away before it destroys the        *)
(* object, and rbus_registerObj adds it only for an object it keeps: while  *)
(* no two threads create or destroy an object of one name at the same time, *)
(* the closure of every listener is an object that was not destroyed.  This *)
(* is what onMessage starts from; what happens to the object after the      *)
(* unlock() of dispatch_method_call is not part of this module.             *)
ListenerIsAlive == ~clash => \A r \in Elems(routes) : r.obj \in alive

(* An object that says it processes subscriptions can add and remove them,  *)
(* with both handlers bound to that object (install_subscription_handlers). *)
AcceptsBoth ==
    ~clash => \A a \in Elems(registry) : heap[a].accepts =>
        \A m \in Reserved : <<m, a>> \in heap[a].methods

(* An object for whose events rbus_registerEvent reported success serves    *)
(* both kinds of subscription requests, between calls, whichever call of    *)
(* which thread installed the handlers.  The exception is an object that    *)
(* got one handler before its table of methods was full: the next call      *)
(* takes the one for both (install_subscription_handlers).                  *)
GrantedServesBoth ==
    ~clash /\ AllIdle =>
        \A a \in Elems(registry) : heap[a].name \in granted /\ a \notin short =>
            \A m \in Reserved : HasMethod(a, m)

=============================================================================
