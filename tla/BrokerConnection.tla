-------------------------- MODULE BrokerConnection --------------------------
(***************************************************************************)
(* Opening and closing the connection of a process to the broker, against  *)
(* the other threads of the process.                                       *)
(*                                                                         *)
(* g_connection, the two tables and the flags are globals guarded by       *)
(* g_mutex, an error checking mutex that the first open creates and a      *)
(* successful close destroys.  lock() and unlock() ignore the result of    *)
(* the mutex operation: a lock() of the thread that has the mutex already, *)
(* or of a destroyed mutex, goes on without it, and an unlock() by any     *)
(* other thread than the owner does nothing.  perform_cleanup uses lock()  *)
(* and unlock() inside the critical section of its caller, so that its     *)
(* first unlock() ends that section.                                       *)
(*                                                                         *)
(* A section between lock() and unlock() is one action.  Threads wait in   *)
(* front of lock(), in rtConnection_Destroy and for answers to requests,   *)
(* never inside a section.                                                 *)
(***************************************************************************)
EXTENDS Naturals, FiniteSets

CONSTANTS
    Manager,    \* application threads that open and close the connection
    User,       \* application threads that use it
    Dispatcher, \* the dispatch thread of the connection
    Event,      \* events to subscribe to
    MaxCalls,   \* bound: calls of each thread
    NoThread    \* the owner of a free mutex

Thread == Manager \cup User \cup {Dispatcher}

ASSUME ThreadAssumption ==
    /\ Dispatcher \notin Manager \cup User
    /\ NoThread \notin Manager \cup User \cup {Dispatcher}

(* One thread opens and closes.  g_mutex_init, and what is handed to        *)
(* rtConnection_Destroy, are read outside the mutex: two such threads would *)
(* make the mutex, or destroy the connection, twice.                        *)
ASSUME ManagerAssumption == \A s, t \in Manager : s = t

ASSUME CallsAssumption == MaxCalls \in Nat

VARIABLES
    mutex,       \* g_mutex: its kind and its owner
    mutexInit,   \* g_mutex_init
    conn,        \* g_connection: null, open, or destroyed but still set
    objects,     \* g_server_objects: not created, alive, or freed
    entries,     \* g_event_subscriptions_for_client: the same
    subs,        \* its contents
    dispatching, \* g_run_event_client_dispatch
    advisory,    \* g_advisory_listener_installed
    listening,   \* the listeners of the connection
    pc,          \* thread: where it is in a call
    op,          \* thread: which section its call has to enter
    left,        \* closing thread: subscriptions still to be cancelled
    calls,       \* thread: calls it has made (bounded)
    refused,     \* history: threads whose close was refused, until they open
    overlapped,  \* history: threads in a call that a close overlaps
    raced,       \* history: some call overlapped a close
    halfClosed   \* history: rtConnection_Destroy failed in a close

connVars    == <<conn, objects, entries, subs, dispatching, advisory, listening>>
historyVars == <<refused, overlapped, raced, halfClosed>>
vars == <<mutex, mutexInit, connVars, pc, op, left, calls, historyVars>>

-----------------------------------------------------------------------------
TableState == {"none", "alive", "freed"}
CheckedOp  == {"objects", "subscribe", "dispatch"}
UserOp     == CheckedOp \cup {"unsubscribe", "advise", "unadvise"}

TypeOK ==
    /\ mutex \in [kind : {"static", "errorcheck", "destroyed"}, owner : Thread \cup {NoThread}]
    /\ mutexInit \in BOOLEAN
    /\ conn \in {"null", "open", "dead"}
    /\ objects \in TableState /\ entries \in TableState
    /\ subs \subseteq Event
    /\ dispatching \in BOOLEAN /\ advisory \in BOOLEAN
    /\ listening \subseteq {"default", "advisory"}
    /\ pc \in [Thread -> {"idle", "init", "open", "close", "cancel", "finish",
                          "destroy", "end", "section"}]
    /\ op \in [Thread -> UserOp \cup {"none"}]
    /\ left \in [Thread -> Nat]
    /\ calls \in [Thread -> 0 .. MaxCalls]
    /\ refused \subseteq Thread /\ overlapped \subseteq Thread
    /\ raced \in BOOLEAN /\ halfClosed \in BOOLEAN
    /\ entries # "alive" => subs = {}
    /\ conn # "open" => listening = {}

(* g_mutex is a static variable: zeroed memory is a default mutex. *)
Init ==
    /\ mutex = [kind |-> "static", owner |-> NoThread]
    /\ mutexInit = FALSE
    /\ conn = "null"
    /\ objects = "none" /\ entries = "none"
    /\ subs = {}
    /\ dispatching = FALSE /\ advisory = FALSE
    /\ listening = {}
    /\ pc = [t \in Thread |-> "idle"]
    /\ op = [t \in Thread |-> "none"]
    /\ left = [t \in Thread |-> 0]
    /\ calls = [t \in Thread |-> 0]
    /\ refused = {} /\ overlapped = {}
    /\ raced = FALSE /\ halfClosed = FALSE

-----------------------------------------------------------------------------
(* The mutex.                                                               *)

(* lock() of thread t does not block.  A thread blocks on a mutex somebody  *)
(* else has, and on a default mutex also if it has it itself.               *)
LockReturns(t) ==
    \/ mutex.kind = "destroyed"
    \/ mutex.owner = NoThread
    \/ mutex.kind = "errorcheck" /\ mutex.owner = t

(* The mutex after a lock() of thread t that returned. *)
Locked(t) == IF mutex.kind = "destroyed" THEN mutex ELSE [mutex EXCEPT !.owner = t]

(* Mutexes m after an unlock() of thread t: only an error checking mutex    *)
(* knows who its owner is.                                                  *)
Unlocked(m, t) ==
    IF m.kind = "static" \/ (m.kind = "errorcheck" /\ m.owner = t)
    THEN [m EXCEPT !.owner = NoThread] ELSE m

(* A critical section of thread t, from lock() to the first unlock().       *)
Section(t) == LockReturns(t) /\ mutex' = Unlocked(Locked(t), t)

-----------------------------------------------------------------------------
(* Thread t enters a call, goes on in it, or returns from it.               *)

Begin(t, next) ==
    /\ pc[t] = "idle"
    /\ calls[t] < MaxCalls
    /\ calls' = [calls EXCEPT ![t] = @ + 1]
    /\ pc' = [pc EXCEPT ![t] = next]

Goto(t, from, next) ==
    /\ pc[t] = from
    /\ pc' = [pc EXCEPT ![t] = next]

Closing == \E t \in Thread : pc[t] \in {"cancel", "finish", "destroy", "end"}

-----------------------------------------------------------------------------
(* rbus_openBrokerConnection.                                               *)

(* g_mutex_init is read and, later, set without any lock. *)
OpenBegin(t) ==
    /\ Begin(t, IF mutexInit THEN "open" ELSE "init")
    /\ UNCHANGED <<mutex, mutexInit, connVars, op, left, historyVars>>

OpenInitMutex(t) ==
    /\ Goto(t, "init", "open")
    /\ mutex' = [kind |-> "errorcheck", owner |-> NoThread]
    /\ mutexInit' = TRUE
    /\ refused' = {}
    /\ UNCHANGED <<connVars, op, left, calls, overlapped, raced, halfClosed>>

(* The section of the open, which also gives back a mutex kept before. *)
OpenSection(t) ==
    /\ Goto(t, "open", "idle")
    /\ Section(t)
    /\ refused' = refused \ {t}
    /\ UNCHANGED <<mutexInit, subs, dispatching, advisory, listening, op, left,
                   calls, overlapped, raced, halfClosed>>

(* An open connection is used again. *)
OpenAgain(t) ==
    /\ OpenSection(t)
    /\ conn # "null"
    /\ UNCHANGED <<conn, objects, entries>>

(* perform_init and rtConnection_Create. *)
OpenCreate(t) ==
    /\ OpenSection(t)
    /\ conn = "null"
    /\ conn' = "open"
    /\ objects' = "alive" /\ entries' = "alive"

(* Mutant of OpenCreateFails: g_connection is not reset. *)
OpenCreateFails_KeepsConnection(t) ==
    /\ OpenSection(t)
    /\ conn = "null"
    /\ conn' = "open"
    /\ objects' = "freed" /\ entries' = "freed"

(* The connection cannot be created: perform_cleanup, inside the section,   *)
(* frees the new tables.                                                    *)
OpenCreateFails(t) ==
    /\ OpenSection(t)
    /\ conn = "null"
    /\ objects' = "freed" /\ entries' = "freed"
    /\ UNCHANGED conn

-----------------------------------------------------------------------------
(* rbus_closeBrokerConnection.                                              *)

CloseBegin(t) ==
    /\ Begin(t, "close")
    /\ UNCHANGED <<mutex, mutexInit, connVars, op, left, historyVars>>

(* Without a connection the call ends, and keeps the mutex. *)
CloseRefused(t) ==
    /\ Goto(t, "close", "idle")
    /\ conn = "null"
    /\ LockReturns(t)
    /\ mutex' = Locked(t)
    /\ refused' = refused \cup {t}
    /\ UNCHANGED <<mutexInit, connVars, op, left, calls, overlapped, raced, halfClosed>>

(* perform_cleanup destroys the objects.  With subscriptions to cancel, it  *)
(* releases the mutex; without, it also destroys the other table.  Either   *)
(* way its unlock() ends the section of the caller.                         *)
CloseCleanup(t) ==
    /\ Goto(t, "close", IF subs # {} THEN "cancel" ELSE "destroy")
    /\ conn # "null"
    /\ Section(t)
    /\ objects' = "freed"
    /\ entries' = IF subs # {} THEN entries ELSE "freed"
    /\ left' = [left EXCEPT ![t] = Cardinality(subs)]
    /\ overlapped' = {u \in Thread \ {t} : pc[u] # "idle"}
    /\ raced' = (raced \/ overlapped' # {})
    /\ UNCHANGED <<mutexInit, conn, subs, dispatching, advisory, listening, op,
                   calls, refused, halfClosed>>

(* One cancelling request, answered or timed out, without the mutex. *)
CloseCancel(t) ==
    /\ Goto(t, "cancel", IF left[t] = 1 THEN "finish" ELSE "cancel")
    /\ left' = [left EXCEPT ![t] = @ - 1]
    /\ UNCHANGED <<mutex, mutexInit, connVars, op, calls, historyVars>>

(* Mutant of CloseFinish: the section of the caller is not ended. *)
CloseFinish_KeepsMutex(t) ==
    /\ Goto(t, "finish", "destroy")
    /\ LockReturns(t)
    /\ mutex' = Locked(t)
    /\ entries' = "freed"
    /\ subs' = {}
    /\ UNCHANGED <<mutexInit, conn, objects, dispatching, advisory, listening,
                   op, left, calls, historyVars>>

(* perform_cleanup takes the mutex again to destroy the second table. *)
CloseFinish(t) ==
    /\ Goto(t, "finish", "destroy")
    /\ Section(t)
    /\ entries' = "freed"
    /\ subs' = {}
    /\ UNCHANGED <<mutexInit, conn, objects, dispatching, advisory, listening,
                   op, left, calls, historyVars>>

(* Mutant of CloseDestroy: the listeners of the connection survive it. *)
CloseDestroy_KeepsListeners(t) ==
    /\ Goto(t, "destroy", "end")
    /\ pc[Dispatcher] = "idle"
    /\ conn' = "dead"
    /\ UNCHANGED <<mutex, mutexInit, objects, entries, subs, dispatching,
                   advisory, listening, op, left, calls, historyVars>>

(* rtConnection_Destroy ends the dispatch thread, waiting for the request   *)
(* it is in; the listeners go with the connection.                          *)
CloseDestroy(t) ==
    /\ Goto(t, "destroy", "end")
    /\ pc[Dispatcher] = "idle"
    /\ conn' = "dead"
    /\ listening' = {}
    /\ UNCHANGED <<mutex, mutexInit, objects, entries, subs, dispatching,
                   advisory, op, left, calls, historyVars>>

(* It fails: g_connection stays, the tables are gone. *)
CloseDestroyFails(t) ==
    /\ Goto(t, "destroy", "idle")
    /\ halfClosed' = TRUE
    /\ UNCHANGED <<mutex, mutexInit, connVars, op, left, calls, refused, overlapped, raced>>

(* g_connection is reset and the mutex destroyed, which fails if somebody   *)
(* has it; g_mutex_init is reset in any case, and so the next open makes a  *)
(* new mutex.                                                               *)
CloseEnd(t) ==
    /\ Goto(t, "end", "idle")
    /\ conn' = "null"
    /\ LET m == Unlocked(mutex, t)
       IN  mutex' = IF m.owner = NoThread THEN [m EXCEPT !.kind = "destroyed"] ELSE m
    /\ mutexInit' = FALSE
    /\ UNCHANGED <<objects, entries, subs, dispatching, advisory, listening, op,
                   left, calls, historyVars>>

-----------------------------------------------------------------------------
(* Calls of the other threads.  Those that register, publish or subscribe   *)
(* look at g_connection before they take the mutex, the others do not.      *)

UseBegin(t, o) ==
    /\ o \in CheckedOp => conn # "null"
    /\ o = "dispatch" <=> t = Dispatcher
    /\ Begin(t, "section")
    /\ op' = [op EXCEPT ![t] = o]
    /\ overlapped' = IF Closing THEN overlapped \cup {t} ELSE overlapped \ {t}
    /\ raced' = (raced \/ Closing)
    /\ UNCHANGED <<mutex, mutexInit, connVars, left, refused, halfClosed>>

Use(t, o) ==
    /\ Goto(t, "section", "idle")
    /\ op[t] = o
    /\ Section(t)
    /\ op' = [op EXCEPT ![t] = "none"]
    /\ UNCHANGED <<mutexInit, conn, objects, entries, left, calls, historyVars>>

(* A look at, or a change of, the registered objects (rbus_registerEvent,   *)
(* rbus_publishEvent, and dispatch_method_call on the dispatch thread).     *)
UseObjects(t) ==
    /\ Use(t, "objects") \/ Use(t, "dispatch")
    /\ UNCHANGED <<subs, dispatching, advisory, listening>>

(* The default listener is added with the first subscription. *)
UseSubscribe(t, e) ==
    /\ Use(t, "subscribe")
    /\ subs' = IF entries = "alive" THEN subs \cup {e} ELSE subs
    /\ listening' = IF ~dispatching /\ conn = "open"
                    THEN listening \cup {"default"} ELSE listening
    /\ dispatching' = TRUE
    /\ UNCHANGED advisory

UseUnsubscribe(t, e) ==
    /\ Use(t, "unsubscribe")
    /\ subs' = subs \ {e}
    /\ UNCHANGED <<dispatching, advisory, listening>>

(* rbus_registerClientDisconnectHandler. *)
UseAdvise(t) ==
    /\ Use(t, "advise")
    /\ IF ~advisory /\ conn = "open"
       THEN advisory' = TRUE /\ listening' = listening \cup {"advisory"}
       ELSE UNCHANGED <<advisory, listening>>
    /\ UNCHANGED <<subs, dispatching>>

(* rbus_unregisterClientDisconnectHandler. *)
UseUnadvise(t) ==
    /\ Use(t, "unadvise")
    /\ advisory' = FALSE
    /\ listening' = IF advisory THEN listening \ {"advisory"} ELSE listening
    /\ UNCHANGED <<subs, dispatching>>

-----------------------------------------------------------------------------
ManagerStep(t) ==
    \/ OpenInitMutex(t) \/ OpenAgain(t) \/ OpenCreate(t) \/ OpenCreateFails(t)
    \/ CloseRefused(t) \/ CloseCleanup(t) \/ CloseCancel(t) \/ CloseFinish(t)
    \/ CloseDestroy(t) \/ CloseDestroyFails(t) \/ CloseEnd(t)

UserStep(t) ==
    \/ UseObjects(t) \/ UseAdvise(t) \/ UseUnadvise(t)
    \/ \E e \in Event : UseSubscribe(t, e) \/ UseUnsubscribe(t, e)

Next ==
    \/ \E t \in Manager : OpenBegin(t) \/ CloseBegin(t) \/ ManagerStep(t)
    \/ \E t \in User \cup {Dispatcher} : (\E o \in UserOp : UseBegin(t, o)) \/ UserStep(t)

(* A thread in a call takes its next step when it can. *)
Fairness ==
    /\ \A t \in Manager : WF_vars(ManagerStep(t))
    /\ \A t \in User \cup {Dispatcher} : WF_vars(UserStep(t))

Spec == Init /\ [][Next]_vars

FairSpec == Spec /\ Fairness

-----------------------------------------------------------------------------
(* Properties.                                                             *)

(* A thread between calls does not have the mutex, unless it closed without *)
(* a connection and has not opened since.  rbus_closeBrokerConnection       *)
(* returns without unlock() when rtConnection_Destroy fails: that is in     *)
(* order only because perform_cleanup has ended the section before.         *)
MutexIsReturned ==
    \A t \in Thread : pc[t] = "idle" /\ mutex.owner = t => t \in refused

(* A call that found a connection, and that no close overlaps, works on     *)
(* tables that exist: opening, failing to open and closing keep them and    *)
(* g_connection in step, unless rtConnection_Destroy failed.                *)
TablesExist ==
    \A t \in Thread :
        pc[t] = "section" /\ op[t] \in CheckedOp /\ t \notin overlapped /\ ~halfClosed
            => objects = "alive" /\ entries = "alive"

(* Every call returns, for as long as no close was refused: nobody waits    *)
(* for g_mutex while its owner waits for somebody else.  In particular      *)
(* rbus_closeBrokerConnection does not have it while rtConnection_Destroy   *)
(* waits for a dispatch thread that may wait for it.                        *)
CallReturns ==
    \A t \in Thread : pc[t] # "idle" ~> (pc[t] = "idle" \/ refused # {})

(* Who is subscribed hears of the events: with entries in its table the     *)
(* process has the default listener on its connection, which calls the      *)
(* callbacks (rbus_subscribeToEvent, master_event_callback).  Calls that    *)
(* overlap a close are left aside.                                          *)
SubscriberListens ==
    conn = "open" /\ ~Closing /\ ~raced /\ subs # {} => "default" \in listening

=============================================================================
