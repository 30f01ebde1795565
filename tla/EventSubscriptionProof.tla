----------------------- MODULE EventSubscriptionProof -----------------------
(* Proofs about EventSubscription, for any number of clients, events and    *)
(* requests under way.                                                      *)
EXTENDS EventSubscriptionRefinement, SequenceTheorems, TLAPS

(***************************************************************************)
(* Types.                                                                  *)
(***************************************************************************)

(* TypeOK, strengthened so that it is inductive: a thread that is inside a  *)
(* call knows which one.                                                    *)
TypeInv == TypeOK /\ \A t \in Thread : pc[t] # "idle" => call[t].op # "none"

(* The call of an idle thread is a value of its type. *)
LEMMA NoCallType == NoCall \in Call /\ NoCall.op = "none"
  <1>1. Key # {}
    <2>1. PICK d \in Dest : TRUE
      BY DestAssumption
    <2>2. PICK e \in Event : TRUE
      BY EventAssumption
    <2>3. [dest |-> d, event |-> e] \in Key
      BY <2>1, <2>2 DEF Key
    <2> QED BY <2>3
  <1>2. (CHOOSE k \in Key : TRUE) \in Key
    BY <1>1
  <1> QED BY <1>2 DEF NoCall, Call

(* The initial state of both sides is well typed. *)
LEMMA InitType == Init => TypeInv
  <1> SUFFICES ASSUME Init PROVE TypeInv
    OBVIOUS
  <1>1. /\ subs \in [Client -> SUBSET Key]
        /\ dispatching \in [Client -> BOOLEAN] 
        /\ master \in [Client -> {"never", "set", "cleared"}]
    BY DEF Init
  <1>2. /\ pc \in [Thread -> {"idle", "send", "wait", "undo"}]
        /\ call \in [Thread -> Call]
        /\ reply \in [Thread -> {"none", "success", "error"}]
        /\ \A t \in Thread : pc[t] = "idle"
    BY NoCallType DEF Init
  <1>3. net \in [Client -> Seq(Request)]
    BY DEF Init
  <1>4. /\ up \in BOOLEAN /\ handlers \in BOOLEAN /\ override \in BOOLEAN
        /\ aliases \subseteq Event /\ events \subseteq Event
        /\ listeners \subseteq Pair /\ dropped \subseteq Pair /\ abandoned \subseteq Pair
    BY DEF Init
  <1> QED BY <1>1, <1>2, <1>3, <1>4 DEF TypeInv, TypeOK

(* Leaving a call, with or without the undo, keeps the thread's types.      *)
LEMMA LeaveType ==
  ASSUME TypeInv, NEW t \in Thread, Return(t) \/ AfterFailure(t)
  PROVE  /\ pc' \in [Thread -> {"idle", "send", "wait", "undo"}]
         /\ call' \in [Thread -> Call]
         /\ reply' \in [Thread -> {"none", "success", "error"}]
         /\ \A u \in Thread : pc'[u] # "idle" => call'[u].op # "none"
  BY NoCallType DEF TypeInv, TypeOK, Return, AfterFailure

(* The listener a call is about is a pair of the types. *)
LEMMA PairType ==
  ASSUME TypeInv, NEW t \in Thread
  PROVE  PairOf(t) \in Pair
  BY ProcessAssumption DEF TypeInv, TypeOK, PairOf, Pair, Call, Key

(* A request nobody waits for any more is still a request. *)
LEMMA UnwaitedType ==
  ASSUME NEW r \in Request
  PROVE  [r EXCEPT !.live = FALSE] \in Request
  BY DEF Request

(* One step of anybody keeps the types. *)
LEMMA TypeStep ==
  ASSUME TypeInv, [Next]_vars
  PROVE  TypeInv'
  <1> USE ProcessAssumption
  <1>1. ASSUME NEW t \in Thread, NEW k \in Key, SubscribeBegin(t, k)
        PROVE  TypeInv'
    <2>1. [op |-> "subscribe", key |-> k] \in Call
      BY DEF Call, Op
    <2>2. subs' \in [Client -> SUBSET Key]
      <3>1. subs' = subs \/ subs' = [subs EXCEPT ![ProcessOf[t]] = @ \cup {k}]
        BY <1>1 DEF SubscribeBegin
      <3>2. subs[ProcessOf[t]] \cup {k} \in SUBSET Key
        BY DEF TypeInv, TypeOK
      <3> QED BY <3>1, <3>2 DEF TypeInv, TypeOK
    <2>3. \/ UNCHANGED <<pc, call, reply>>
          \/ /\ pc' = [pc EXCEPT ![t] = "send"]
             /\ call' = [call EXCEPT ![t] = [op |-> "subscribe", key |-> k]]
             /\ UNCHANGED reply
      BY <1>1 DEF SubscribeBegin, threadVars
    <2>4. /\ dispatching' = [dispatching EXCEPT ![ProcessOf[t]] = TRUE]
          /\ UNCHANGED <<master, net, providerVars, historyVars>>
      BY <1>1 DEF SubscribeBegin
    <2>5. /\ pc' \in [Thread -> {"idle", "send", "wait", "undo"}]
          /\ call' \in [Thread -> Call]
          /\ reply' \in [Thread -> {"none", "success", "error"}]
          /\ \A u \in Thread : pc'[u] # "idle" => call'[u].op # "none"
      <3>1. CASE UNCHANGED <<pc, call, reply>>
        BY <3>1 DEF TypeInv, TypeOK
      <3>2. CASE /\ pc' = [pc EXCEPT ![t] = "send"]
                 /\ call' = [call EXCEPT ![t] = [op |-> "subscribe", key |-> k]]
                 /\ UNCHANGED reply
        BY <2>1, <3>2 DEF TypeInv, TypeOK
      <3> QED BY <2>3, <3>1, <3>2
    <2> QED BY <2>2, <2>4, <2>5 DEF TypeInv, TypeOK, providerVars, historyVars
  <1>2. ASSUME NEW t \in Thread, NEW k \in Key, UnsubscribeBegin(t, k)
        PROVE  TypeInv'
    <2>1. [op |-> "unsubscribe", key |-> k] \in Call
      BY DEF Call, Op
    <2>2. subs' \in [Client -> SUBSET Key]
      BY <1>2 DEF UnsubscribeBegin, TypeInv, TypeOK
    <2> QED BY <1>2, <2>1, <2>2 DEF UnsubscribeBegin, TypeInv, TypeOK, providerVars, historyVars
  <1>3. ASSUME NEW t \in Thread, SendRequest(t)
        PROVE  TypeInv'
    <2>1. [by |-> t, op |-> call[t].op, event |-> call[t].key.event, live |-> TRUE]
             \in Request
      BY <1>3 DEF SendRequest, TypeInv, TypeOK, Call, Key, Request, Op
    <2>2. net' \in [Client -> Seq(Request)]
      BY <1>3, <2>1 DEF SendRequest, TypeInv, TypeOK
    <2> QED BY <1>3, <2>2 DEF SendRequest, TypeInv, TypeOK, clientVars, providerVars, historyVars
  <1>4. ASSUME NEW t \in Thread, Unreachable(t)
        PROVE  TypeInv'
    BY <1>4, LeaveType DEF Unreachable, TypeInv, TypeOK, clientVars, providerVars, historyVars
  <1>5. ASSUME NEW t \in Thread, SendFails(t)
        PROVE  TypeInv'
    BY <1>5, LeaveType, PairType DEF SendFails, TypeInv, TypeOK, clientVars, providerVars
  <1>6. ASSUME NEW t \in Thread, Timeout(t)
        PROVE  TypeInv'
    <2>1. net' \in [Client -> Seq(Request)]
      <3> DEFINE c == ProcessOf[t]
                 old == net[c]
                 new == [i \in 1 .. Len(old) |->
                           IF old[i].by = t THEN [old[i] EXCEPT !.live = FALSE] ELSE old[i]]
      <3>1. old \in Seq(Request) /\ Len(old) \in Nat
        BY DEF TypeInv, TypeOK
      <3>2. \A i \in 1 .. Len(old) : new[i] \in Request
        BY <3>1, UnwaitedType
      <3>3. new \in Seq(Request)
        <4>1. new \in [1 .. Len(old) -> Request]
          BY <3>2
        <4> HIDE DEF new
        <4> QED BY <3>1, <4>1, SeqDef
      <3>4. net' = [net EXCEPT ![c] = new]
        BY <1>6 DEF Timeout, TypeInv, TypeOK
      <3> QED BY <3>3, <3>4 DEF TypeInv, TypeOK
    <2> QED BY <1>6, <2>1, LeaveType, PairType DEF Timeout, TypeInv, TypeOK, clientVars, providerVars
  <1>7. ASSUME NEW t \in Thread, ReceiveReply(t)
        PROVE  TypeInv'
    BY <1>7, LeaveType DEF ReceiveReply, Settled, TypeInv, TypeOK, clientVars, providerVars
  <1>8. ASSUME NEW t \in Thread, Undo(t)
        PROVE  TypeInv'
    BY <1>8, LeaveType DEF Undo, TypeInv, TypeOK, providerVars, historyVars
  <1>9. ASSUME NEW c \in Client, RegisterMasterEventHandler(c)
        PROVE  TypeInv'
    <2>1. {c} \X Event \subseteq Pair
      BY DEF Pair
    <2>2. master' \in [Client -> {"never", "set", "cleared"}]
      BY <1>9 DEF RegisterMasterEventHandler, TypeInv, TypeOK
    <2>3. dropped' \subseteq Pair /\ abandoned' \subseteq Pair
      BY <1>9, <2>1 DEF RegisterMasterEventHandler, TypeInv, TypeOK
    <2> QED BY <1>9, <2>2, <2>3
            DEF RegisterMasterEventHandler, TypeInv, TypeOK, threadVars, providerVars
  <1>10. ASSUME NEW c \in Client, HandleRequest(c)
        PROVE  TypeInv'
    <2> DEFINE r == Head(net[c])
    <2>1. r \in Request /\ Tail(net[c]) \in Seq(Request)
      BY <1>10 DEF HandleRequest, TypeInv, TypeOK
    <2>2. PICK o \in Outcomes(r, c) :
             /\ listeners' = o.listeners
             /\ reply' = IF r.live THEN [reply EXCEPT ![r.by] = o.answer] ELSE reply
      BY <1>10 DEF HandleRequest
    <2>3. o.answer \in {"success", "error"} /\ o.listeners \subseteq Pair
      BY <2>1, <2>2 DEF Outcomes, BuiltInOutcome, TypeInv, TypeOK, Pair, Request
    <2>4. reply' \in [Thread -> {"none", "success", "error"}]
      BY <2>1, <2>2, <2>3 DEF TypeInv, TypeOK
    <2>5. net' \in [Client -> Seq(Request)]
      BY <1>10, <2>1 DEF HandleRequest, TypeInv, TypeOK
    <2>6. dropped' \subseteq Pair
      BY <1>10 DEF HandleRequest, Settled, TypeInv, TypeOK
    <2> QED BY <1>10, <2>2, <2>3, <2>4, <2>5, <2>6 DEF HandleRequest, TypeInv, TypeOK, clientVars
  <1>11. ASSUME ProviderStep
        PROVE  TypeInv'
    <2>1. ASSUME ProviderCrash PROVE TypeInv'
      <3>1. net' \in [Client -> Seq(Request)]
        BY <2>1 DEF ProviderCrash
      <3> QED BY <2>1, <3>1 DEF ProviderCrash, TypeInv, TypeOK, clientVars, threadVars
    <2>2. ASSUME StartProvider \/ RegisterSubscribeHandler PROVE TypeInv'
      BY <2>2 DEF StartProvider, RegisterSubscribeHandler, TypeInv, TypeOK, clientVars, threadVars, historyVars
    <2>3. ASSUME NEW e \in Event, RegisterEvent(e) \/ AddElement(e) \/ RemoveElement(e)
          PROVE  TypeInv'
      BY <2>3 DEF RegisterEvent, AddElement, RemoveElement, TypeInv, TypeOK, clientVars, threadVars, historyVars
    <2>4. ASSUME NEW e \in Event, UnregisterEvent(e)
          PROVE  TypeInv'
      BY <2>4 DEF UnregisterEvent, TypeInv, TypeOK, clientVars, threadVars
    <2> QED BY <1>11, <2>1, <2>2, <2>3, <2>4 DEF ProviderStep
  <1>12. CASE UNCHANGED vars
    BY <1>12 DEF vars, clientVars, threadVars, providerVars, historyVars, TypeInv, TypeOK
  <1> QED BY <1>1, <1>2, <1>3, <1>4, <1>5, <1>6, <1>7, <1>8, <1>9, <1>10, <1>11, <1>12
          DEF Next, ApplicationCall, ThreadStep

(* Every reachable state of the protocol is well typed: the tables, the     *)
(* requests under way and the answers are what the code declares them to be.*)
THEOREM TypeCorrect == Spec => []TypeOK
  <1>1. TypeInv => TypeOK
    BY DEF TypeInv
  <1> QED BY <1>1, InitType, TypeStep, PTL DEF Spec

(***************************************************************************)
(* The tables of client and provider.                                      *)
(***************************************************************************)

(* Nothing is under way and no table has an entry in the initial state. *)
LEMMA InitTables == Init => TablesInv
  <1> SUFFICES ASSUME Init PROVE TablesInv
    OBVIOUS
  <1> USE ProcessAssumption
  <1>1. TypeOK
    BY InitType DEF TypeInv
  <1>2. ProviderInv
    BY DEF Init, ProviderInv
  <1>3. ASSUME NEW t \in Thread PROVE ThreadInv(t)
    BY DEF Init, ThreadInv, NetInv, CallInv, EntryInv, ListenerInv
  <1> QED BY <1>1, <1>2, <1>3 DEF TablesInv

(* What the types say of one thread, its process and its requests. *)
LEMMA ThreadTypes ==
  ASSUME TypeOK, NEW t \in Thread
  PROVE  /\ ProcessOf[t] \in Client
         /\ call[t] \in Call /\ call[t].key \in Key /\ call[t].key.event \in Event
         /\ subs[ProcessOf[t]] \subseteq Key
         /\ \A k \in subs[ProcessOf[t]] : k.event \in Event
         /\ net[ProcessOf[t]] \in Seq(Request)
         /\ Len(net[ProcessOf[t]]) \in Nat
         /\ \A i \in 1 .. Len(net[ProcessOf[t]]) :
              net[ProcessOf[t]][i] \in Request /\ net[ProcessOf[t]][i].event \in Event
  <1> USE ProcessAssumption
  <1>1. ProcessOf[t] \in Client
    OBVIOUS
  <1>2. call[t] \in Call /\ call[t].key \in Key /\ call[t].key.event \in Event
    BY DEF TypeOK, Call, Key
  <1>3. subs[ProcessOf[t]] \subseteq Key
    BY <1>1 DEF TypeOK
  <1>4. \A k \in subs[ProcessOf[t]] : k.event \in Event
    BY <1>3 DEF Key
  <1>5. net[ProcessOf[t]] \in Seq(Request) /\ Len(net[ProcessOf[t]]) \in Nat
    BY <1>1 DEF TypeOK
  <1>6. \A i \in 1 .. Len(net[ProcessOf[t]]) : net[ProcessOf[t]][i] \in Request
    BY <1>5
  <1>7. \A i \in 1 .. Len(net[ProcessOf[t]]) : net[ProcessOf[t]][i].event \in Event
    BY <1>6 DEF Request
  <1> QED BY <1>1, <1>2, <1>3, <1>4, <1>5, <1>6, <1>7

(* A step that changes nothing of a thread, its process or the process's    *)
(* listeners keeps what the invariant says of that thread.                  *)
LEMMA Frame ==
  ASSUME TablesInv, NEW t \in Thread,
         pc'[t] = pc[t], call'[t] = call[t], reply'[t] = reply[t],
         net'[ProcessOf[t]] = net[ProcessOf[t]],
         subs'[ProcessOf[t]] = subs[ProcessOf[t]],
         master'[ProcessOf[t]] = master[ProcessOf[t]],
         override' = override,
         \A e \in Event :
            /\ <<ProcessOf[t], e>> \in listeners' <=> <<ProcessOf[t], e>> \in listeners
            /\ <<ProcessOf[t], e>> \in dropped' <=> <<ProcessOf[t], e>> \in dropped
            /\ <<ProcessOf[t], e>> \in abandoned' <=> <<ProcessOf[t], e>> \in abandoned
  PROVE  ThreadInv(t)'
  <1> DEFINE c == ProcessOf[t]
  <1> USE ProcessAssumption
  <1>1. /\ ThreadInv(t) /\ call[t].key.event \in Event
        /\ \A k \in subs[c] : k.event \in Event
        /\ \A i \in 1 .. Len(net[c]) : net[c][i].event \in Event
    BY ThreadTypes DEF TablesInv
  <1>2. NetInv(t)'
    BY <1>1 DEF ThreadInv, NetInv
  <1>3. CallInv(t)'
    BY <1>1 DEF ThreadInv, CallInv, PairOf
  <1>4. EntryInv(t)'
    BY <1>1 DEF ThreadInv, EntryInv, BuiltIn, Busy
  <1>5. ListenerInv(t)'
    BY <1>1 DEF ThreadInv, ListenerInv, BuiltIn, Busy
  <1> QED BY <1>2, <1>3, <1>4, <1>5 DEF ThreadInv

(* Two threads are of different processes, with different listeners. *)
LEMMA Apart ==
  ASSUME SingleThreaded, NEW t \in Thread, NEW u \in Thread, t # u
  PROVE  /\ ProcessOf[t] # ProcessOf[u]
         /\ \A e, f : <<ProcessOf[t], e>> # <<ProcessOf[u], f>>
  BY DEF SingleThreaded

(* With one name for the provider, a subscription is known by its event. *)
LEMMA KeyByEvent ==
  ASSUME ByObjectName, NEW k \in Key, NEW l \in Key, k.event = l.event
  PROVE  k = l
  BY DEF ByObjectName, Key

(* A subscribe call changes the table, and starts its request. *)
LEMMA SubscribeBeginStep ==
  ASSUME TablesInv, TypeOK', SingleThreaded, ByObjectName,
         NEW t \in Thread, NEW k \in Key, SubscribeBegin(t, k)
  PROVE  TablesInv'
  <1> DEFINE c == ProcessOf[t]
  <1>1. c \in Client /\ ThreadInv(t) /\ TypeOK
    BY ThreadTypes DEF TablesInv
  <1>2. UNCHANGED <<up, handlers, override, events, listeners, net, dropped, abandoned, master>>
    BY DEF SubscribeBegin, providerVars, historyVars
  <1>3. ProviderInv'
    BY <1>2 DEF TablesInv, ProviderInv
  <1>4. ASSUME NEW u \in Thread, u # t PROVE ThreadInv(u)'
    <2>1. ProcessOf[u] # c
      BY <1>4, Apart
    <2>2. /\ pc'[u] = pc[u] /\ call'[u] = call[u] /\ reply'[u] = reply[u]
          /\ subs'[ProcessOf[u]] = subs[ProcessOf[u]]
      <3>1. CASE ~HasMaster(c) /\ k \in subs[c]
        BY <3>1 DEF SubscribeBegin, threadVars
      <3>2. CASE ~(~HasMaster(c) /\ k \in subs[c])
        <4>1. /\ subs' = subs \/ subs' = [subs EXCEPT ![c] = @ \cup {k}]
              /\ pc' = [pc EXCEPT ![t] = "send"]
              /\ call' = [call EXCEPT ![t] = [op |-> "subscribe", key |-> k]]
              /\ UNCHANGED reply
          BY <3>2 DEF SubscribeBegin
        <4>2. ProcessOf[u] \in Client
          BY <1>1, ThreadTypes
        <4> QED BY <1>1, <1>4, <2>1, <4>1, <4>2 DEF TypeOK
      <3> QED BY <3>1, <3>2
    <2> QED BY <1>2, <2>2, Frame
  <1>5. ThreadInv(t)'
    <2>1. CASE ~HasMaster(c) /\ k \in subs[c]
      <3>1. UNCHANGED <<subs, pc, call, reply>>
        BY <2>1 DEF SubscribeBegin, threadVars
      <3> QED BY <1>2, <3>1, Frame
    <2>2. CASE HasMaster(c) \/ k \notin subs[c]
      <3>1. /\ pc[t] = "idle" /\ pc'[t] = "send" /\ reply'[t] = reply[t]
            /\ call'[t] = [op |-> "subscribe", key |-> k]
            /\ ~HasMaster(c) => subs'[c] = subs[c] \cup {k}
        BY <1>1, <2>2 DEF SubscribeBegin, TypeOK
      <3>2. NetInv(t)'
        BY <1>1, <1>2, <3>1 DEF ThreadInv, NetInv
      <3>3. CallInv(t)'
        BY <1>1, <1>2, <3>1 DEF ThreadInv, CallInv, HasMaster
      <3>4. EntryInv(t)'
        BY <1>1, <1>2, <3>1 DEF ThreadInv, EntryInv, BuiltIn, Busy, HasMaster
      <3>5. ListenerInv(t)'
        BY <1>1, <1>2, <3>1 DEF ThreadInv, ListenerInv, BuiltIn, Busy, HasMaster
      <3> QED BY <3>2, <3>3, <3>4, <3>5 DEF ThreadInv
    <2> QED BY <2>1, <2>2
  <1> QED BY <1>3, <1>4, <1>5 DEF TablesInv

(* An unsubscribe call removes the entry, and starts its request. *)
LEMMA UnsubscribeBeginStep ==
  ASSUME TablesInv, TypeOK', SingleThreaded, ByObjectName,
         NEW t \in Thread, NEW k \in Key, UnsubscribeBegin(t, k)
  PROVE  TablesInv'
  <1> DEFINE c == ProcessOf[t]
  <1>1. c \in Client /\ ThreadInv(t) /\ TypeOK
    BY ThreadTypes DEF TablesInv
  <1>2. UNCHANGED <<up, handlers, override, events, listeners, net, dropped, abandoned, master>>
    BY DEF UnsubscribeBegin, providerVars, historyVars
  <1>3. ProviderInv'
    BY <1>2 DEF TablesInv, ProviderInv
  <1>4. ASSUME NEW u \in Thread, u # t PROVE ThreadInv(u)'
    <2>1. ProcessOf[u] # c
      BY <1>4, Apart
    <2>2. /\ pc'[u] = pc[u] /\ call'[u] = call[u] /\ reply'[u] = reply[u]
          /\ subs'[ProcessOf[u]] = subs[ProcessOf[u]]
      BY <1>1, <1>4, <2>1 DEF UnsubscribeBegin, TypeOK
    <2> QED BY <1>2, <2>2, Frame
  <1>5. ThreadInv(t)'
    <2>1. /\ pc[t] = "idle" /\ pc'[t] = "send" /\ reply'[t] = reply[t]
          /\ call'[t] = [op |-> "unsubscribe", key |-> k]
          /\ ~HasMaster(c) => subs'[c] = subs[c] \ {k}
      BY <1>1 DEF UnsubscribeBegin, TypeOK
    <2>2. NetInv(t)'
      BY <1>1, <1>2, <2>1 DEF ThreadInv, NetInv
    <2>3. CallInv(t)'
      BY <1>1, <1>2, <2>1 DEF ThreadInv, CallInv, HasMaster
    <2>4. EntryInv(t)'
      BY <1>1, <1>2, <2>1 DEF ThreadInv, EntryInv, BuiltIn, Busy, HasMaster
    <2>5. ListenerInv(t)'
      BY <1>1, <1>2, <2>1 DEF ThreadInv, ListenerInv, BuiltIn, Busy, HasMaster
    <2> QED BY <2>2, <2>3, <2>4, <2>5 DEF ThreadInv
  <1> QED BY <1>3, <1>4, <1>5 DEF TablesInv

(* A request goes out behind all the others of its client. *)
LEMMA SendRequestStep ==
  ASSUME TablesInv, TypeOK', SingleThreaded, NEW t \in Thread, SendRequest(t)
  PROVE  TablesInv'
  <1> DEFINE c == ProcessOf[t]
             r == [by |-> t, op |-> call[t].op,
                   event |-> call[t].key.event, live |-> TRUE]
  <1>1. c \in Client /\ ThreadInv(t) /\ TypeOK
    BY ThreadTypes DEF TablesInv
  <1>2. UNCHANGED <<up, handlers, override, events, listeners, dropped, abandoned,
                    master, subs, call, reply>>
    BY DEF SendRequest, providerVars, historyVars, clientVars
  <1>3. /\ up /\ pc[t] = "send" /\ pc'[t] = "wait"
        /\ net' = [net EXCEPT ![c] = Append(@, r)]
    BY <1>1 DEF SendRequest, Reachable, TypeOK
  <1>4. ProviderInv'
    BY <1>2, <1>3 DEF TablesInv, ProviderInv
  <1>5. ASSUME NEW u \in Thread, u # t PROVE ThreadInv(u)'
    <2>1. ProcessOf[u] # c /\ ProcessOf[u] \in Client
      BY <1>1, <1>5, Apart, ThreadTypes
    <2>2. pc'[u] = pc[u] /\ net'[ProcessOf[u]] = net[ProcessOf[u]]
      BY <1>1, <1>3, <1>5, <2>1 DEF SendRequest, TypeOK
    <2> QED BY <1>2, <2>2, Frame
  <1>6. ThreadInv(t)'
    <2>1. /\ net[c] \in Seq(Request) /\ Len(net[c]) \in Nat
          /\ net'[c] = Append(net[c], r)
      BY <1>1, <1>3, ThreadTypes DEF TypeOK
    <2>2. r \in Request
      BY <1>1, <1>3, ThreadTypes DEF ThreadInv, CallInv, Request, Call, Op
    <2>3. /\ Len(net'[c]) = Len(net[c]) + 1
          /\ \A i \in 1 .. Len(net[c]) : net'[c][i] = net[c][i]
          /\ net'[c][Len(net[c]) + 1] = r
      BY <2>1, <2>2
    <2>4. \A i \in 1 .. Len(net'[c]) : i \in 1 .. Len(net[c]) \/ i = Len(net[c]) + 1
      BY <2>1, <2>3
    <2>5. reply[t] = "none" /\ \A i \in 1 .. Len(net[c]) : ~net[c][i].live
      BY <1>1, <1>3 DEF ThreadInv, CallInv, NetInv
    <2>6. NetInv(t)'
      BY <1>1, <1>2, <1>3, <2>1, <2>3, <2>4, <2>5 DEF ThreadInv, NetInv
    <2>7. CallInv(t)'
      BY <1>1, <1>2, <1>3, <2>5 DEF ThreadInv, CallInv
    <2>8. EntryInv(t)'
      BY <1>1, <1>2, <1>3, <2>3, <2>4 DEF ThreadInv, EntryInv, BuiltIn, Busy
    <2>9. ListenerInv(t)'
      BY <1>1, <1>2, <1>3 DEF ThreadInv, ListenerInv, BuiltIn, Busy
    <2> QED BY <2>6, <2>7, <2>8, <2>9 DEF ThreadInv
  <1> QED BY <1>4, <1>5, <1>6 DEF TablesInv

(* What leaving a call after a failure does to the thread. *)
LEMMA FailureCases ==
  ASSUME TypeOK, NEW t \in Thread, AfterFailure(t)
  PROVE  /\ reply'[t] = "none"
         /\ \/ /\ call[t].op = "subscribe" /\ ~HasMaster(ProcessOf[t])
               /\ pc'[t] = "undo" /\ call'[t] = call[t]
            \/ /\ call[t].op # "subscribe" \/ HasMaster(ProcessOf[t])
               /\ pc'[t] = "idle" /\ call'[t] = NoCall
         /\ \A u \in Thread : u # t =>
              pc'[u] = pc[u] /\ call'[u] = call[u] /\ reply'[u] = reply[u]
  BY DEF TypeOK, AfterFailure, Return

(* A call that fails without an answer: whatever the provider has for the   *)
(* event from now on is left over from this call.                           *)
LEMMA GiveUp ==
  ASSUME TablesInv, TypeOK', ByObjectName, NEW t \in Thread,
         pc[t] \in {"send", "wait"}, AfterFailure(t),
         UNCHANGED <<subs, master, override, listeners, dropped>>,
         \/ abandoned' = abandoned \cup {PairOf(t)}
         \/ abandoned' = abandoned /\ PairOf(t) \notin listeners,
         Len(net'[ProcessOf[t]]) = Len(net[ProcessOf[t]]),
         \A i \in 1 .. Len(net[ProcessOf[t]]) :
            /\ net'[ProcessOf[t]][i].by = net[ProcessOf[t]][i].by
            /\ net'[ProcessOf[t]][i].op = net[ProcessOf[t]][i].op
            /\ net'[ProcessOf[t]][i].event = net[ProcessOf[t]][i].event
            /\ ~net'[ProcessOf[t]][i].live
            /\ net[ProcessOf[t]][i].live => PairOf(t) \in abandoned'
  PROVE  ThreadInv(t)'
  <1> DEFINE c == ProcessOf[t]
  <1>1. c \in Client /\ ThreadInv(t) /\ TypeOK
    BY ThreadTypes DEF TablesInv
  <1>2. \A e : <<c, e>> \in abandoned => <<c, e>> \in abandoned'
    OBVIOUS
  <1>3. NetInv(t)'
    BY <1>1, <1>2 DEF ThreadInv, NetInv, PairOf
  <1>4. CallInv(t)'
    BY <1>1, FailureCases DEF ThreadInv, CallInv
  <1>5. EntryInv(t)'
    <2> SUFFICES ASSUME BuiltIn(c)', NEW k \in subs[c], ~Busy(t, k.event)'
                 PROVE  /\ <<c, k.event>> \in listeners \cup dropped
                        /\ \A i \in 1 .. Len(net[c]) : net[c][i].event # k.event
      BY DEF EntryInv
    <2>1. ~Busy(t, k.event)
      BY <1>1, FailureCases, KeyByEvent, ThreadTypes DEF ThreadInv, CallInv, BuiltIn, Busy, HasMaster
    <2> QED BY <1>1, <2>1 DEF ThreadInv, EntryInv, BuiltIn
  <1>6. ListenerInv(t)'
    BY <1>1, <1>2, FailureCases DEF ThreadInv, ListenerInv, CallInv, BuiltIn, Busy, PairOf
  <1> QED BY <1>3, <1>4, <1>5, <1>6 DEF ThreadInv

(* The four ways a call fails before or without an answer, or is undone. *)
LEMMA UnreachableStep ==
  ASSUME TablesInv, TypeOK', SingleThreaded, ByObjectName,
         NEW t \in Thread, Unreachable(t)
  PROVE  TablesInv'
  <1> DEFINE c == ProcessOf[t]
  <1>1. c \in Client /\ ThreadInv(t) /\ TypeOK /\ ProviderInv
    BY ThreadTypes DEF TablesInv
  <1>2. UNCHANGED <<up, handlers, override, events, listeners, dropped, abandoned,
                    master, subs, net>>
    BY DEF Unreachable, providerVars, historyVars, clientVars
  <1>3. pc[t] = "send" /\ AfterFailure(t)
    BY DEF Unreachable
  <1>4. ~up /\ listeners = {} /\ net[c] = <<>>
    <2>1. ~up
      BY <1>1, ThreadTypes DEF Unreachable, Reachable, ByObjectName, Key
    <2> QED BY <1>1, <2>1 DEF ProviderInv
  <1>5. ProviderInv'
    BY <1>1, <1>2 DEF ProviderInv
  <1>6. ASSUME NEW u \in Thread, u # t PROVE ThreadInv(u)'
    BY <1>1, <1>2, <1>3, <1>6, FailureCases, Frame
  <1>7. ThreadInv(t)'
    BY <1>1, <1>2, <1>3, <1>4, GiveUp
  <1> QED BY <1>5, <1>6, <1>7 DEF TablesInv

LEMMA SendFailsStep ==
  ASSUME TablesInv, TypeOK', SingleThreaded, ByObjectName,
         NEW t \in Thread, SendFails(t)
  PROVE  TablesInv'
  <1> DEFINE c == ProcessOf[t]
  <1>1. c \in Client /\ ThreadInv(t) /\ TypeOK /\ ProviderInv
    BY ThreadTypes DEF TablesInv
  <1>2. UNCHANGED <<up, handlers, override, events, listeners, dropped, master, subs, net>>
    BY DEF SendFails, providerVars, clientVars
  <1>3. /\ pc[t] = "send" /\ AfterFailure(t)
        /\ abandoned' = abandoned \cup {PairOf(t)}
    BY DEF SendFails
  <1>4. ProviderInv'
    BY <1>1, <1>2 DEF ProviderInv
  <1>5. ASSUME NEW u \in Thread, u # t PROVE ThreadInv(u)'
    BY <1>1, <1>2, <1>3, <1>5, FailureCases, Frame, Apart DEF PairOf
  <1>6. ThreadInv(t)'
    <2>1. \A i \in 1 .. Len(net[c]) : ~net[c][i].live
      BY <1>1, <1>3 DEF ThreadInv, NetInv
    <2> QED BY <1>1, <1>2, <1>3, <2>1, GiveUp
  <1> QED BY <1>4, <1>5, <1>6 DEF TablesInv

LEMMA TimeoutStep ==
  ASSUME TablesInv, TypeOK', SingleThreaded, ByObjectName,
         NEW t \in Thread, Timeout(t)
  PROVE  TablesInv'
  <1> DEFINE c == ProcessOf[t]
             new == [i \in 1 .. Len(net[c]) |->
                       IF net[c][i].by = t THEN [net[c][i] EXCEPT !.live = FALSE]
                                           ELSE net[c][i]]
  <1>1. /\ c \in Client /\ ThreadInv(t) /\ TypeOK /\ ProviderInv
        /\ net[c] \in Seq(Request) /\ Len(net[c]) \in Nat
        /\ \A i \in 1 .. Len(net[c]) : net[c][i] \in Request
    BY ThreadTypes DEF TablesInv
  <1>2. UNCHANGED <<up, handlers, override, events, listeners, dropped, master, subs>>
    BY DEF Timeout, providerVars, clientVars
  <1>3. /\ pc[t] = "wait" /\ AfterFailure(t)
        /\ abandoned' = abandoned \cup {PairOf(t)}
        /\ net' = [net EXCEPT ![c] = new]
    BY <1>1 DEF Timeout, TypeOK
  <1>4. \A i \in 1 .. Len(net[c]) :
           /\ new[i].by = net[c][i].by /\ new[i].op = net[c][i].op
           /\ new[i].event = net[c][i].event /\ ~new[i].live
    BY <1>1 DEF ThreadInv, NetInv, Request
  <1>5. Len(new) = Len(net[c])
    BY <1>1
  <1>6. net'[c] = new /\ \A d \in Client : d # c => net'[d] = net[d]
    BY <1>1, <1>3 DEF TypeOK
  <1> HIDE DEF new
  <1>7. ProviderInv'
    <2>1. net[c] = <<>> => new = <<>>
      BY <1>1 DEF new
    <2> QED BY <1>1, <1>2, <1>6, <2>1 DEF ProviderInv
  <1>8. ASSUME NEW u \in Thread, u # t PROVE ThreadInv(u)'
    <2>1. ProcessOf[u] # c /\ ProcessOf[u] \in Client
      BY <1>1, <1>8, Apart, ThreadTypes
    <2> QED BY <1>1, <1>2, <1>3, <1>6, <1>8, <2>1, FailureCases, Frame DEF PairOf
  <1>9. ThreadInv(t)'
    BY <1>1, <1>2, <1>3, <1>4, <1>5, <1>6, GiveUp
  <1> QED BY <1>7, <1>8, <1>9 DEF TablesInv

LEMMA UndoStep ==
  ASSUME TablesInv, TypeOK', SingleThreaded, ByObjectName,
         NEW t \in Thread, Undo(t)
  PROVE  TablesInv'
  <1> DEFINE c == ProcessOf[t]
  <1>1. /\ c \in Client /\ ThreadInv(t) /\ TypeOK /\ ProviderInv
        /\ subs[c] \subseteq Key /\ call[t].key \in Key
    BY ThreadTypes DEF TablesInv
  <1>2. UNCHANGED <<up, handlers, override, events, listeners, dropped, abandoned, master, net>>
    BY DEF Undo, providerVars, historyVars
  <1>3. /\ pc[t] = "undo" /\ pc'[t] = "idle" /\ reply'[t] = "none"
        /\ subs'[c] = subs[c] \ {call[t].key}
    BY <1>1 DEF Undo, Return, TypeOK
  <1>4. ProviderInv'
    BY <1>1, <1>2 DEF ProviderInv
  <1>5. ASSUME NEW u \in Thread, u # t PROVE ThreadInv(u)'
    <2>1. ProcessOf[u] # c /\ ProcessOf[u] \in Client
      BY <1>1, <1>5, Apart, ThreadTypes
    <2>2. /\ pc'[u] = pc[u] /\ call'[u] = call[u] /\ reply'[u] = reply[u]
          /\ subs'[ProcessOf[u]] = subs[ProcessOf[u]]
      BY <1>1, <1>5, <2>1 DEF Undo, Return, TypeOK
    <2> QED BY <1>2, <2>2, Frame
  <1>6. ThreadInv(t)'
    <2>1. NetInv(t)'
      BY <1>1, <1>2, <1>3 DEF ThreadInv, NetInv
    <2>2. CallInv(t)'
      BY <1>1, <1>2, <1>3 DEF ThreadInv, CallInv
    <2>3. EntryInv(t)'
      BY <1>1, <1>2, <1>3, KeyByEvent DEF ThreadInv, EntryInv, BuiltIn, Busy
    <2>4. ListenerInv(t)'
      BY <1>1, <1>2, <1>3 DEF ThreadInv, ListenerInv, BuiltIn, Busy
    <2> QED BY <2>1, <2>2, <2>3, <2>4 DEF ThreadInv
  <1> QED BY <1>4, <1>5, <1>6 DEF TablesInv

(* An answer ends the call in agreement with the provider, or has it undone.*)
LEMMA ReceiveReplyStep ==
  ASSUME TablesInv, TypeOK', SingleThreaded, ByObjectName,
         NEW t \in Thread, ReceiveReply(t)
  PROVE  TablesInv'
  <1> DEFINE c == ProcessOf[t]
  <1>1. /\ c \in Client /\ ThreadInv(t) /\ TypeOK /\ ProviderInv
        /\ subs[c] \subseteq Key /\ call[t].key \in Key
        /\ \A k \in subs[c] : k.event \in Event
    BY ThreadTypes DEF TablesInv
  <1>2. UNCHANGED <<up, handlers, override, events, listeners, dropped, master, subs, net>>
    BY DEF ReceiveReply, providerVars, clientVars
  <1>3. /\ pc[t] = "wait" /\ reply[t] # "none" /\ net[c] = <<>> /\ net'[c] = <<>>
        /\ abandoned' = abandoned \ {PairOf(t)} \/ abandoned' = abandoned
    BY <1>1, <1>2 DEF ReceiveReply, Settled, ThreadInv, CallInv
  <1>4. /\ reply'[t] = "none"
        /\ \/ /\ pc'[t] = "undo" /\ call'[t] = call[t] /\ reply[t] = "error"
              /\ call[t].op = "subscribe" /\ ~HasMaster(c)
           \/ /\ pc'[t] = "idle"
              /\ reply[t] = "success" \/ call[t].op # "subscribe" \/ HasMaster(c)
        /\ \A u \in Thread : u # t =>
             pc'[u] = pc[u] /\ call'[u] = call[u] /\ reply'[u] = reply[u]
    <2>1. CASE reply[t] = "success"
      BY <1>1, <2>1 DEF ReceiveReply, Return, TypeOK
    <2>2. CASE reply[t] = "error"
      BY <1>1, <2>2, FailureCases DEF ReceiveReply
    <2> QED BY <1>1, <1>3, <2>1, <2>2 DEF TypeOK
  <1>5. ProviderInv'
    BY <1>1, <1>2 DEF ProviderInv
  <1>6. ASSUME NEW u \in Thread, u # t PROVE ThreadInv(u)'
    BY <1>1, <1>2, <1>3, <1>4, <1>6, Frame, Apart DEF PairOf
  <1>7. ThreadInv(t)'
    <2>1. NetInv(t)'
      BY <1>3 DEF NetInv
    <2>2. CallInv(t)'
      BY <1>1, <1>2, <1>4 DEF ThreadInv, CallInv
    <2>3. EntryInv(t)'
      <3> SUFFICES ASSUME BuiltIn(c)', NEW k \in subs[c], ~Busy(t, k.event)'
                   PROVE  <<c, k.event>> \in listeners \cup dropped
        BY <1>2, <1>3 DEF EntryInv
      <3>1. CASE k.event = call[t].key.event
        <4>1. k = call[t].key
          BY <1>1, <3>1, KeyByEvent
        <4>2. reply[t] = "success" /\ call[t].op = "subscribe"
          BY <1>1, <1>2, <1>3, <1>4, <3>1, <4>1 DEF ThreadInv, CallInv, BuiltIn, Busy, HasMaster
        <4> QED BY <1>1, <1>2, <3>1, <4>2 DEF ThreadInv, CallInv, BuiltIn, PairOf
      <3>2. CASE k.event # call[t].key.event
        BY <1>1, <1>2, <3>2 DEF ThreadInv, EntryInv, BuiltIn, Busy
      <3> QED BY <3>1, <3>2
    <2>4. ListenerInv(t)'
      <3> SUFFICES ASSUME BuiltIn(c)', NEW e \in Event,
                          <<c, e>> \in listeners, <<c, e>> \notin abandoned',
                          Busy(t, e)' => pc'[t] = "undo"
                   PROVE  ~Busy(t, e)' /\ \E k \in subs[c] : k.event = e
        BY <1>2 DEF ListenerInv
      <3>1. CASE e = call[t].key.event
        <4>1. reply[t] = "success" /\ call[t].op = "subscribe"
          BY <1>1, <1>2, <1>3, <3>1 DEF ThreadInv, CallInv, BuiltIn, PairOf, TypeOK
        <4> QED BY <1>1, <1>2, <1>3, <1>4, <3>1, <4>1 DEF ThreadInv, CallInv, BuiltIn, Busy
      <3>2. CASE e # call[t].key.event
        BY <1>1, <1>2, <1>3, <1>4, <3>2 DEF ThreadInv, ListenerInv, BuiltIn, Busy, PairOf
      <3> QED BY <3>1, <3>2
    <2> QED BY <2>1, <2>2, <2>3, <2>4 DEF ThreadInv
  <1> QED BY <1>5, <1>6, <1>7 DEF TablesInv

(* Requests of a client are handled in the order they were sent: the one    *)
(* somebody waits for comes last, and its answer leaves nothing under way.  *)
LEMMA HandleRequestStep ==
  ASSUME TablesInv, TypeOK', SingleThreaded, ByObjectName,
         NEW c \in Client, HandleRequest(c)
  PROVE  TablesInv'
  <1> DEFINE r == Head(net[c])
  <1>1. PICK t \in Thread : ProcessOf[t] = c
    BY ProcessAssumption
  <1>2. /\ TypeOK /\ ProviderInv /\ ThreadInv(t)
        /\ net[c] \in Seq(Request) /\ net[c] # <<>> /\ Len(net[c]) \in Nat
        /\ subs[c] \subseteq Key /\ call[t].key \in Key
        /\ \A k \in subs[c] : k.event \in Event
    BY <1>1, ThreadTypes DEF TablesInv, HandleRequest
  <1>3. UNCHANGED <<up, handlers, override, events, abandoned, master, subs, pc, call>>
    BY DEF HandleRequest, clientVars
  <1>4. PICK o \in Outcomes(r, c) :
           /\ listeners' = o.listeners
           /\ reply' = IF r.live THEN [reply EXCEPT ![r.by] = o.answer] ELSE reply
    BY DEF HandleRequest
  <1>5. /\ up
        /\ dropped' = dropped \ {<<c, r.event>>} \/ dropped' = dropped
        /\ net' = [net EXCEPT ![c] = Tail(@)]
    BY DEF HandleRequest, Settled
  <1>6. /\ net'[c] = Tail(net[c]) /\ r = net[c][1] /\ 1 \in 1 .. Len(net[c])
        /\ Len(net'[c]) = Len(net[c]) - 1
        /\ \A i \in 1 .. Len(net'[c]) : i + 1 \in 1 .. Len(net[c])
        /\ \A i \in 1 .. Len(net'[c]) : net'[c][i] = net[c][i + 1]
        /\ r \in Request
    BY <1>2, <1>5 DEF TypeOK
  <1>7. r.by = t
    BY <1>1, <1>2, <1>6 DEF ThreadInv, NetInv
  <1>8. /\ listeners' \subseteq listeners \cup {<<c, r.event>>}
        /\ listeners \subseteq listeners' \cup {<<c, r.event>>}
        /\ listeners' # listeners => r.event \in events
    BY <1>4 DEF Outcomes, BuiltInOutcome
  <1>9. ProviderInv'
    BY <1>2, <1>3, <1>5, <1>8 DEF ProviderInv
  <1>10. ASSUME NEW u \in Thread, u # t PROVE ThreadInv(u)'
    <2>1. ProcessOf[u] # c /\ ProcessOf[u] \in Client
      BY <1>1, <1>2, <1>10, Apart, ThreadTypes
    <2>2. reply'[u] = reply[u] /\ net'[ProcessOf[u]] = net[ProcessOf[u]]
      BY <1>2, <1>4, <1>5, <1>7, <1>10, <2>1 DEF TypeOK
    <2>3. \A e \in Event :
            /\ <<ProcessOf[u], e>> \in listeners' <=> <<ProcessOf[u], e>> \in listeners
            /\ <<ProcessOf[u], e>> \in dropped' <=> <<ProcessOf[u], e>> \in dropped
      BY <1>5, <1>8, <2>1
    <2> QED BY <1>3, <2>2, <2>3, Frame
  <1>11. ThreadInv(t)'
    <2>1. r.live => /\ Len(net[c]) = 1 /\ net'[c] = <<>>
                    /\ pc[t] = "wait" /\ reply'[t] = o.answer
                    /\ r.op = call[t].op /\ r.event = call[t].key.event
      <3> SUFFICES ASSUME r.live
                   PROVE  /\ Len(net[c]) = 1 /\ net'[c] = <<>>
                          /\ pc[t] = "wait" /\ reply'[t] = o.answer
                          /\ r.op = call[t].op /\ r.event = call[t].key.event
        OBVIOUS
      <3>1. /\ Len(net[c]) = 1 /\ pc[t] = "wait"
            /\ r.op = call[t].op /\ r.event = call[t].key.event
        BY <1>1, <1>2, <1>6 DEF ThreadInv, NetInv
      <3>2. net'[c] = <<>>
        BY <1>2, <1>6, <3>1
      <3>3. reply'[t] = o.answer
        BY <1>2, <1>4, <1>7 DEF TypeOK
      <3> QED BY <3>1, <3>2, <3>3
    <2>2. ~r.live => reply' = reply /\ reply[t] = "none" /\ <<c, r.event>> \in abandoned
      BY <1>1, <1>2, <1>4, <1>6, <1>7 DEF ThreadInv, NetInv, CallInv
    <2>3. ~override => \/ o.answer = "success" /\ r.event \in events
                       \/ /\ o.answer = "error" /\ listeners' = listeners
                          /\ r.event \notin events
      <3>1. r.event \in events => handlers
        BY <1>2 DEF ProviderInv
      <3>2. ~override => o \in {BuiltInOutcome(r, c), [answer |-> "error", listeners |-> listeners]}
        BY <1>4 DEF Outcomes
      <3>3. ~override /\ r.event \in events => o = BuiltInOutcome(r, c)
        BY <1>4, <3>1 DEF Outcomes
      <3> QED BY <1>4, <3>2, <3>3 DEF BuiltInOutcome
    <2>4. ~override /\ o.answer = "success" =>
             IF r.op = "subscribe" THEN <<c, r.event>> \in listeners'
                                   ELSE <<c, r.event>> \notin listeners'
      BY <1>2, <1>4, <2>3 DEF Outcomes, BuiltInOutcome
    <2>5. NetInv(t)'
      BY <1>1, <1>2, <1>3, <1>6, <2>1, <2>2 DEF ThreadInv, NetInv
    <2>6. CallInv(t)'
      <3>1. CASE r.live
        <4>1. reply'[t] = "error" /\ ~override => <<c, r.event>> \notin listeners'
          BY <1>2, <2>1, <2>3, <3>1 DEF ProviderInv
        <4> QED BY <1>1, <1>2, <1>3, <2>1, <2>3, <2>4, <3>1, <4>1 DEF ThreadInv, CallInv, PairOf
      <3>2. CASE ~r.live
        BY <1>1, <1>2, <1>3, <2>2, <3>2 DEF ThreadInv, CallInv
      <3> QED BY <3>1, <3>2
    <2>7. EntryInv(t)'
      <3> SUFFICES ASSUME BuiltIn(c), NEW k \in subs[c], ~Busy(t, k.event)
                   PROVE  /\ <<c, k.event>> \in listeners' \cup dropped'
                          /\ \A i \in 1 .. Len(net'[c]) : net'[c][i].event # k.event
        BY <1>1, <1>3 DEF EntryInv, BuiltIn, Busy
      <3>1. /\ <<c, k.event>> \in listeners \cup dropped
            /\ \A i \in 1 .. Len(net[c]) : net[c][i].event # k.event
        BY <1>1, <1>2 DEF ThreadInv, EntryInv
      <3>2. <<c, k.event>> \in listeners' \cup dropped'
        BY <1>5, <1>6, <1>8, <3>1
      <3> QED BY <1>6, <3>1, <3>2
    <2>8. ListenerInv(t)'
      BY <1>1, <1>2, <1>3, <1>8, <2>1, <2>2 DEF ThreadInv, ListenerInv, BuiltIn, Busy
    <2> QED BY <2>5, <2>6, <2>7, <2>8 DEF ThreadInv
  <1>12. \A u \in Thread : ThreadInv(u)'
    BY <1>10, <1>11
  <1> QED BY <1>9, <1>12 DEF TablesInv

(* Events and elements come and go; a listener that goes is accounted for.  *)
LEMMA ProviderTables ==
  ASSUME TablesInv, TypeOK', ByObjectName, ProviderStep
  PROVE  TablesInv'
  <1>1. TypeOK /\ ProviderInv
    BY DEF TablesInv
  <1>2. ASSUME StartProvider \/ \E e \in Event : RegisterEvent(e) \/ AddElement(e) \/ RemoveElement(e)
        PROVE  TablesInv'
    <2>1. UNCHANGED <<subs, master, pc, call, reply, net, override, listeners,
                      dropped, abandoned>>
      BY <1>2 DEF StartProvider, RegisterEvent, AddElement, RemoveElement,
                  clientVars, threadVars, historyVars
    <2>2. ProviderInv'
      BY <1>1, <1>2, <2>1 DEF ProviderInv, StartProvider, RegisterEvent, AddElement,
                               RemoveElement
    <2>3. ASSUME NEW t \in Thread PROVE ThreadInv(t)'
      BY <2>1, Frame
    <2> QED BY <2>2, <2>3 DEF TablesInv
  <1>4. ASSUME RegisterSubscribeHandler
        PROVE  TablesInv'
    <2>1. /\ up /\ override' = TRUE /\ handlers' = TRUE
          /\ UNCHANGED <<subs, master, pc, call, reply, net, listeners, events, up,
                         dropped, abandoned>>
      BY <1>4 DEF RegisterSubscribeHandler, clientVars, threadVars, historyVars
    <2>2. ProviderInv'
      BY <1>1, <2>1 DEF ProviderInv
    <2>3. ASSUME NEW t \in Thread PROVE ThreadInv(t)'
      BY <2>1 DEF TablesInv, ThreadInv, NetInv, CallInv, EntryInv, ListenerInv, BuiltIn
    <2> QED BY <2>2, <2>3 DEF TablesInv
  <1>5. ASSUME NEW e \in Event, UnregisterEvent(e)
        PROVE  TablesInv'
    <2>1. /\ UNCHANGED <<subs, master, pc, call, reply, net, up, handlers, override, abandoned>>
          /\ events' = events \ {e}
          /\ listeners' = listeners \ {p \in listeners : p[2] = e}
          /\ dropped' = dropped \cup {p \in listeners : p[2] = e}
      BY <1>5 DEF UnregisterEvent, clientVars, threadVars
    <2>2. ProviderInv'
      BY <1>1, <2>1 DEF ProviderInv
    <2>3. listeners' \subseteq listeners /\ listeners \cup dropped = listeners' \cup dropped'
      BY <2>1
    <2>4. ASSUME NEW t \in Thread PROVE ThreadInv(t)'
      <3>1. ThreadInv(t)
        BY DEF TablesInv
      <3>2. NetInv(t)'
        BY <2>1, <3>1 DEF ThreadInv, NetInv
      <3>3. CallInv(t)'
        BY <2>1, <2>3, <3>1 DEF ThreadInv, CallInv, PairOf
      <3>4. EntryInv(t)'
        BY <2>1, <2>3, <3>1 DEF ThreadInv, EntryInv, BuiltIn, Busy
      <3>5. ListenerInv(t)'
        BY <2>1, <2>3, <3>1 DEF ThreadInv, ListenerInv, BuiltIn, Busy
      <3> QED BY <3>2, <3>3, <3>4, <3>5 DEF ThreadInv
    <2> QED BY <2>2, <2>4 DEF TablesInv
  <1>6. ASSUME ProviderCrash
        PROVE  TablesInv'
    <2>1. /\ UNCHANGED <<subs, master, pc, call, reply, abandoned>>
          /\ up' = FALSE /\ override' = FALSE /\ events' = {} /\ listeners' = {}
          /\ net' = [c \in Client |-> <<>>] /\ dropped' = Pair
      BY <1>6 DEF ProviderCrash, clientVars, threadVars
    <2>2. ProviderInv'
      BY <2>1 DEF ProviderInv
    <2>3. ASSUME NEW t \in Thread PROVE ThreadInv(t)'
      <3>1. /\ ThreadInv(t) /\ ProcessOf[t] \in Client /\ net'[ProcessOf[t]] = <<>>
            /\ call[t].key.event \in Event
            /\ \A k \in subs[ProcessOf[t]] : k.event \in Event
        BY <1>1, <2>1, ThreadTypes DEF TablesInv
      <3>2. NetInv(t)'
        BY <3>1 DEF NetInv
      <3>3. CallInv(t)'
        BY <2>1, <3>1 DEF ThreadInv, CallInv, PairOf, Pair
      <3>4. EntryInv(t)'
        BY <2>1, <3>1 DEF EntryInv, Pair
      <3>5. ListenerInv(t)'
        BY <2>1, <3>1 DEF ListenerInv
      <3> QED BY <3>2, <3>3, <3>4, <3>5 DEF ThreadInv
    <2> QED BY <2>2, <2>3 DEF TablesInv
  <1> QED BY <1>2, <1>4, <1>5, <1>6 DEF ProviderStep

(* From the moment it has a master event handler, a process has no table    *)
(* to agree with.                                                           *)
LEMMA RegisterMasterStep ==
  ASSUME TablesInv, TypeOK', NEW c \in Client, RegisterMasterEventHandler(c)
  PROVE  TablesInv'
  <1>1. /\ UNCHANGED <<subs, pc, call, reply, net, up, handlers, override, events, listeners>>
        /\ dropped \subseteq dropped' /\ abandoned \subseteq abandoned'
        /\ \A d \in Client : master'[d] = "never" => master[d] = "never"
    BY DEF RegisterMasterEventHandler, threadVars, providerVars, TablesInv, TypeOK
  <1>2. ProviderInv'
    BY <1>1 DEF TablesInv, ProviderInv
  <1>3. ASSUME NEW t \in Thread PROVE ThreadInv(t)'
    <2>1. ThreadInv(t) /\ ProcessOf[t] \in Client
      BY ThreadTypes DEF TablesInv
    <2>2. NetInv(t)' /\ CallInv(t)'
      BY <1>1, <2>1 DEF ThreadInv, NetInv, CallInv, PairOf
    <2>3. EntryInv(t)' /\ ListenerInv(t)'
      BY <1>1, <2>1 DEF ThreadInv, EntryInv, ListenerInv, BuiltIn, Busy
    <2> QED BY <2>2, <2>3 DEF ThreadInv
  <1> QED BY <1>2, <1>3 DEF TablesInv

(* One step of anybody keeps the invariant. *)
LEMMA TablesStep ==
  ASSUME TablesInv, [Next]_vars, SingleThreaded, ByObjectName
  PROVE  TablesInv'
  <1>1. TypeOK'
    <2>1. TypeInv
      BY DEF TablesInv, TypeInv, ThreadInv, CallInv
    <2> QED BY <2>1, TypeStep DEF TypeInv
  <1>2. ASSUME NEW t \in Thread, ApplicationCall(t)
        PROVE  TablesInv'
    BY <1>1, <1>2, SubscribeBeginStep, UnsubscribeBeginStep DEF ApplicationCall
  <1>3. ASSUME NEW t \in Thread, ThreadStep(t)
        PROVE  TablesInv'
    BY <1>1, <1>3, SendRequestStep, UnreachableStep, SendFailsStep, TimeoutStep,
       ReceiveReplyStep, UndoStep DEF ThreadStep
  <1>4. ASSUME NEW c \in Client, RegisterMasterEventHandler(c) \/ HandleRequest(c)
        PROVE  TablesInv'
    BY <1>1, <1>4, RegisterMasterStep, HandleRequestStep
  <1>5. ASSUME ProviderStep
        PROVE  TablesInv'
    BY <1>1, <1>5, ProviderTables
  <1>6. CASE UNCHANGED vars
    <2>1. UNCHANGED <<subs, master, pc, call, reply, net, up, handlers, override, events,
                      listeners, dropped, abandoned>>
      BY <1>6 DEF vars, clientVars, threadVars, providerVars, historyVars
    <2>2. ProviderInv'
      BY <2>1 DEF TablesInv, ProviderInv
    <2>3. ASSUME NEW t \in Thread PROVE ThreadInv(t)'
      BY <2>1, Frame
    <2> QED BY <1>1, <2>2, <2>3 DEF TablesInv
  <1> QED BY <1>2, <1>3, <1>4, <1>5, <1>6 DEF Next

(* The tables' invariant for applications that call from one thread and     *)
(* name the provider by its object name.                                    *)
THEOREM TablesInvariant ==
  ASSUME SingleThreaded, ByObjectName
  PROVE  Spec => []TablesInv
  <1>1. TablesInv /\ [Next]_vars => TablesInv'
    BY TablesStep
  <1> QED BY <1>1, InitTables, PTL DEF Spec

(* For such applications, and any number of them, a subscription in the     *)
(* client's table is one the provider sends events for, whatever was lost,  *)
(* late or repeated before (rbus_subscribeToEventInternal,                  *)
(* rbus_unsubscribeFromEvent, server_object_subscription_handler).          *)
THEOREM SubscribersAreListeners ==
  ASSUME SingleThreaded, ByObjectName
  PROVE  Spec => []SubscriberIsListener
  <1>1. TablesInv => SubscriberIsListener
    <2> SUFFICES ASSUME TablesInv, NEW c \in Client, Quiet(c), BuiltIn(c), NEW k \in subs[c]
                 PROVE  <<c, k.event>> \in listeners \cup dropped
      BY DEF SubscriberIsListener
    <2>1. PICK t \in Thread : ProcessOf[t] = c
      BY ProcessAssumption
    <2> QED BY <2>1 DEF TablesInv, ThreadInv, EntryInv, Quiet, Busy
  <1> QED BY <1>1, TablesInvariant, PTL

(* And the other way round: the provider sends to nobody who did not        *)
(* subscribe, but for calls the client gave up on.                          *)
THEOREM ListenersAreSubscribers ==
  ASSUME SingleThreaded, ByObjectName
  PROVE  Spec => []ListenerIsSubscriber
  <1>1. TablesInv => ListenerIsSubscriber
    <2> SUFFICES ASSUME TablesInv, NEW c \in Client, Quiet(c), BuiltIn(c), NEW e \in Event,
                        <<c, e>> \in listeners \ abandoned
                 PROVE  \E k \in subs[c] : k.event = e
      BY DEF ListenerIsSubscriber
    <2>1. PICK t \in Thread : ProcessOf[t] = c
      BY ProcessAssumption
    <2> QED BY <2>1 DEF TablesInv, ThreadInv, ListenerInv, Quiet, Busy
  <1> QED BY <1>1, TablesInvariant, PTL

(***************************************************************************)
(* The protocol implements the service.                                    *)
(***************************************************************************)

(* The requests of thread t under way are its process's, only the last of   *)
(* them is waited for, and it is the thread's call; an answer means that    *)
(* nothing is under way.                                                    *)
Awaited(t) ==
    LET c == ProcessOf[t]
    IN  /\ \A i \in 1 .. Len(net[c]) :
             /\ net[c][i].by = t
             /\ net[c][i].live =>
                  /\ i = Len(net[c])
                  /\ pc[t] = "wait" /\ reply[t] = "none"
                  /\ net[c][i].op = call[t].op
                  /\ net[c][i].event = call[t].key.event
        /\ reply[t] # "none" => pc[t] = "wait" /\ net[c] = <<>>

(* The inductive invariant of the refinement: unlike TablesInv it holds     *)
(* however the clients name the provider.                                   *)
WireInv ==
    /\ TypeInv
    /\ ~up => \A c \in Client : net[c] = <<>>
    /\ events # {} => handlers
    /\ \A t \in Thread : Awaited(t)

LEMMA InitWire == Init => WireInv
  <1> SUFFICES ASSUME Init PROVE WireInv
    OBVIOUS
  <1>1. ASSUME NEW t \in Thread PROVE Awaited(t)
    BY ProcessAssumption DEF Init, Awaited
  <1> QED BY <1>1, InitType DEF Init, WireInv

(* What the invariant says of one thread and of the requests of its process.*)
LEMMA WireTypes ==
  ASSUME WireInv, NEW t \in Thread
  PROVE  /\ TypeOK /\ Awaited(t)
         /\ ProcessOf[t] \in Client
         /\ net[ProcessOf[t]] \in Seq(Request) /\ Len(net[ProcessOf[t]]) \in Nat
         /\ \A i \in 1 .. Len(net[ProcessOf[t]]) : net[ProcessOf[t]][i] \in Request
         /\ pc[t] \in {"idle", "send", "wait", "undo"}
         /\ reply[t] \in {"none", "success", "error"}
         /\ call[t] \in Call
         /\ pc[t] # "idle" => <<call[t].op, call[t].key.event>> \in Op \X Event
  <1>1. TypeOK /\ TypeInv /\ Awaited(t)
    BY DEF WireInv, TypeInv
  <1>2. pc[t] # "idle" => call[t].op \in Op
    BY <1>1 DEF TypeInv, TypeOK, Call
  <1>3. /\ pc[t] \in {"idle", "send", "wait", "undo"}
        /\ reply[t] \in {"none", "success", "error"}
    BY <1>1 DEF TypeOK
  <1> QED BY <1>1, <1>2, <1>3, ThreadTypes

LEMMA WireFrame ==
  ASSUME WireInv, NEW t \in Thread,
         pc'[t] = pc[t], call'[t] = call[t], reply'[t] = reply[t],
         net'[ProcessOf[t]] = net[ProcessOf[t]]
  PROVE  Awaited(t)'
  BY DEF WireInv, Awaited

(* A step of thread t, of which the other threads and the provider notice   *)
(* nothing but the requests under way.                                      *)
LEMMA WireThread ==
  ASSUME WireInv, TypeInv', SingleThreaded, NEW t \in Thread,
         Awaited(t)',
         \A u \in Thread \ {t} : pc'[u] = pc[u] /\ call'[u] = call[u] /\ reply'[u] = reply[u],
         \A d \in Client \ {ProcessOf[t]} : net'[d] = net[d],
         ~up => net'[ProcessOf[t]] = <<>>,
         UNCHANGED <<up, events, handlers>>
  PROVE  WireInv'
  <1>1. ASSUME NEW u \in Thread, u # t PROVE Awaited(u)'
    <2>1. ProcessOf[u] # ProcessOf[t] /\ ProcessOf[u] \in Client
      BY <1>1, Apart, ProcessAssumption
    <2>2. net'[ProcessOf[u]] = net[ProcessOf[u]]
      BY <2>1
    <2> QED BY <1>1, <2>2, WireFrame
  <1>2. ~up => \A d \in Client : net'[d] = <<>>
    BY DEF WireInv
  <1>3. \A u \in Thread : Awaited(u)'
    BY <1>1
  <1> QED BY <1>2, <1>3 DEF WireInv

(* Leaving a call. *)
LEMMA Leaves ==
  ASSUME WireInv, NEW t \in Thread, Return(t) \/ AfterFailure(t)
  PROVE  /\ pc'[t] \in {"idle", "undo"} /\ reply'[t] = "none"
         /\ \A u \in Thread \ {t} : pc'[u] = pc[u] /\ call'[u] = call[u] /\ reply'[u] = reply[u]
  BY DEF WireInv, TypeInv, TypeOK, Return, AfterFailure

(* The requests of a client after its thread gave up: the same, and nobody  *)
(* waits for one of them.                                                   *)
LEMMA TimeoutNet ==
  ASSUME WireInv, NEW t \in Thread, Timeout(t)
  PROVE  /\ Len(net'[ProcessOf[t]]) = Len(net[ProcessOf[t]])
         /\ \A i \in 1 .. Len(net[ProcessOf[t]]) :
              /\ net'[ProcessOf[t]][i].by = t
              /\ net'[ProcessOf[t]][i].op = net[ProcessOf[t]][i].op
              /\ net'[ProcessOf[t]][i].event = net[ProcessOf[t]][i].event
              /\ ~net'[ProcessOf[t]][i].live
         /\ net[ProcessOf[t]] = <<>> => net'[ProcessOf[t]] = <<>>
         /\ \A d \in Client \ {ProcessOf[t]} : net'[d] = net[d]
  <1> DEFINE c == ProcessOf[t]
             new == [i \in 1 .. Len(net[c]) |->
                       IF net[c][i].by = t THEN [net[c][i] EXCEPT !.live = FALSE]
                                           ELSE net[c][i]]
  <1>1. /\ c \in Client /\ TypeOK /\ Awaited(t)
        /\ net[c] \in Seq(Request) /\ Len(net[c]) \in Nat
        /\ \A i \in 1 .. Len(net[c]) : net[c][i] \in Request
    BY WireTypes
  <1>2. net' = [net EXCEPT ![c] = new]
    BY <1>1 DEF Timeout, TypeOK
  <1>3. \A i \in 1 .. Len(net[c]) :
           /\ new[i].by = net[c][i].by /\ new[i].op = net[c][i].op
           /\ new[i].event = net[c][i].event /\ ~new[i].live
    BY <1>1 DEF Awaited, Request
  <1>4. Len(new) = Len(net[c]) /\ (net[c] = <<>> => new = <<>>)
    BY <1>1
  <1>5. net'[c] = new /\ \A d \in Client : d # c => net'[d] = net[d]
    BY <1>1, <1>2 DEF TypeOK
  <1> HIDE DEF new
  <1> QED BY <1>1, <1>3, <1>4, <1>5 DEF Awaited

(* The request that is handled is the first; if somebody waits for it, it   *)
(* is the only one.                                                         *)
LEMMA HandledNet ==
  ASSUME WireInv, NEW c \in Client, HandleRequest(c), NEW t \in Thread, ProcessOf[t] = c
  PROVE  /\ net[c] # <<>> /\ 1 \in 1 .. Len(net[c])
         /\ Head(net[c]) = net[c][1] /\ net[c][1] \in Request /\ net[c][1].by = t
         /\ Len(net'[c]) = Len(net[c]) - 1
         /\ \A i \in 1 .. Len(net'[c]) : i + 1 \in 1 .. Len(net[c])
         /\ \A i \in 1 .. Len(net'[c]) : net'[c][i] = net[c][i + 1]
         /\ \A d \in Client \ {c} : net'[d] = net[d]
         /\ net[c][1].live => /\ Len(net[c]) = 1 /\ net'[c] = <<>>
                              /\ pc[t] = "wait" /\ reply[t] = "none"
                              /\ net[c][1].op = call[t].op
                              /\ net[c][1].event = call[t].key.event
  <1>1. /\ TypeOK /\ Awaited(t) /\ net[c] \in Seq(Request) /\ Len(net[c]) \in Nat
    BY WireTypes
  <1>2. net[c] # <<>> /\ net' = [net EXCEPT ![c] = Tail(@)]
    BY DEF HandleRequest
  <1>3. /\ net'[c] = Tail(net[c]) /\ Head(net[c]) = net[c][1] /\ 1 \in 1 .. Len(net[c])
        /\ net[c][1] \in Request
        /\ Len(net'[c]) = Len(net[c]) - 1
        /\ \A i \in 1 .. Len(net'[c]) : i + 1 \in 1 .. Len(net[c])
        /\ \A i \in 1 .. Len(net'[c]) : net'[c][i] = net[c][i + 1]
        /\ \A d \in Client \ {c} : net'[d] = net[d]
    BY <1>1, <1>2 DEF TypeOK
  <1>4. net[c][1].by = t
    BY <1>1, <1>3 DEF Awaited
  <1>5. ASSUME net[c][1].live
        PROVE  /\ Len(net[c]) = 1 /\ net'[c] = <<>>
               /\ pc[t] = "wait" /\ reply[t] = "none"
               /\ net[c][1].op = call[t].op /\ net[c][1].event = call[t].key.event
    <2>1. /\ Len(net[c]) = 1 /\ pc[t] = "wait" /\ reply[t] = "none"
          /\ net[c][1].op = call[t].op /\ net[c][1].event = call[t].key.event
      BY <1>1, <1>3, <1>5 DEF Awaited
    <2>2. net'[c] = <<>>
      BY <1>1, <1>3, <2>1
    <2> QED BY <2>1, <2>2
  <1> QED BY <1>2, <1>3, <1>4, <1>5

LEMMA WireStep ==
  ASSUME WireInv, SingleThreaded, [Next]_vars
  PROVE  WireInv'
  <1>0. TypeInv' /\ TypeOK
    BY TypeStep DEF WireInv, TypeInv
  <1>1. ASSUME NEW t \in Thread, NEW k \in Key, SubscribeBegin(t, k) \/ UnsubscribeBegin(t, k)
        PROVE  WireInv'
    <2>1. /\ pc[t] = "idle" /\ UNCHANGED <<reply, net, up, events, handlers>>
          /\ \A u \in Thread \ {t} : pc'[u] = pc[u] /\ call'[u] = call[u]
      BY <1>0, <1>1 DEF SubscribeBegin, UnsubscribeBegin, threadVars, providerVars, TypeOK
    <2>2. Awaited(t)'
      BY <2>1 DEF WireInv, Awaited
    <2>3. ~up => net'[ProcessOf[t]] = <<>>
      BY <2>1, WireTypes DEF WireInv
    <2> QED BY <1>0, <2>1, <2>2, <2>3, WireThread
  <1>2. ASSUME NEW t \in Thread, SendRequest(t)
        PROVE  WireInv'
    <2> DEFINE c == ProcessOf[t]
               r == [by |-> t, op |-> call[t].op,
                     event |-> call[t].key.event, live |-> TRUE]
    <2>1. /\ up /\ pc[t] = "send" /\ pc'[t] = "wait"
          /\ UNCHANGED <<call, reply, up, events, handlers>>
          /\ \A u \in Thread \ {t} : pc'[u] = pc[u]
          /\ net' = [net EXCEPT ![c] = Append(@, r)]
      BY <1>0, <1>2 DEF SendRequest, Reachable, providerVars, TypeOK
    <2>2. /\ net[c] \in Seq(Request) /\ Len(net[c]) \in Nat /\ r \in Request /\ Awaited(t)
          /\ c \in Client
      BY <1>0, <2>1, WireTypes DEF Request, Call
    <2>3. net'[c] = Append(net[c], r) /\ \A d \in Client \ {c} : net'[d] = net[d]
      BY <1>0, <2>1, <2>2 DEF TypeOK
    <2>4. /\ Len(net'[c]) = Len(net[c]) + 1
          /\ \A i \in 1 .. Len(net[c]) : net'[c][i] = net[c][i]
          /\ net'[c][Len(net[c]) + 1] = r
      BY <2>2, <2>3
    <2>5. \A i \in 1 .. Len(net'[c]) : i \in 1 .. Len(net[c]) \/ i = Len(net[c]) + 1
      BY <2>2, <2>4
    <2>6. reply[t] = "none" /\ \A i \in 1 .. Len(net[c]) : ~net[c][i].live
      BY <2>1, <2>2 DEF Awaited
    <2>7. Awaited(t)'
      BY <2>1, <2>2, <2>4, <2>5, <2>6 DEF Awaited
    <2> QED BY <1>0, <2>1, <2>3, <2>7, WireThread
  <1>3. ASSUME NEW t \in Thread, Unreachable(t) \/ SendFails(t) \/ ReceiveReply(t) \/ Undo(t)
        PROVE  WireInv'
    <2>1. /\ Return(t) \/ AfterFailure(t)
          /\ UNCHANGED <<net, up, events, handlers>>
          /\ pc[t] # "wait" \/ reply[t] # "none"
      BY <1>3 DEF Unreachable, SendFails, ReceiveReply, Undo, providerVars
    <2>2. \A i \in 1 .. Len(net[ProcessOf[t]]) : ~net[ProcessOf[t]][i].live
      BY <2>1 DEF WireInv, Awaited
    <2>3. Awaited(t)'
      BY <2>1, <2>2, Leaves DEF WireInv, Awaited
    <2>4. ~up => net'[ProcessOf[t]] = <<>>
      BY <2>1, WireTypes DEF WireInv
    <2> QED BY <1>0, <2>1, <2>3, <2>4, Leaves, WireThread
  <1>4. ASSUME NEW t \in Thread, Timeout(t)
        PROVE  WireInv'
    <2>1. AfterFailure(t) /\ UNCHANGED <<up, events, handlers>>
      BY <1>4 DEF Timeout, providerVars
    <2>2. Awaited(t)'
      BY <1>4, <2>1, Leaves, TimeoutNet DEF Awaited
    <2>3. ~up => net'[ProcessOf[t]] = <<>>
      BY <1>4, TimeoutNet, WireTypes DEF WireInv
    <2> QED BY <1>0, <1>4, <2>1, <2>2, <2>3, Leaves, TimeoutNet, WireThread
  <1>5. ASSUME NEW c \in Client, HandleRequest(c)
        PROVE  WireInv'
    <2>1. PICK t \in Thread : ProcessOf[t] = c
      BY ProcessAssumption
    <2> DEFINE r == net[c][1]
    <2>2. /\ up /\ UNCHANGED <<pc, call, up, events, handlers>>
          /\ \E a : reply' = IF Head(net[c]).live THEN [reply EXCEPT ![Head(net[c]).by] = a]
                                                 ELSE reply
      BY <1>5 DEF HandleRequest
    <2>3. /\ r.by = t /\ \A u \in Thread \ {t} : reply'[u] = reply[u]
          /\ ~r.live => reply'[t] = reply[t]
      BY <1>0, <1>5, <2>1, <2>2, HandledNet DEF TypeOK
    <2>4. Awaited(t) /\ Len(net[c]) \in Nat
      BY <2>1, WireTypes
    <2>5. CASE r.live
      <3>1. net'[c] = <<>> /\ pc[t] = "wait"
        BY <1>5, <2>1, <2>5, HandledNet
      <3>2. Awaited(t)'
        BY <2>1, <2>2, <3>1 DEF Awaited
      <3> QED BY <1>0, <1>5, <2>1, <2>2, <2>3, <3>2, HandledNet, WireThread
    <2>6. CASE ~r.live
      <3>1. reply[t] = "none"
        BY <1>5, <2>1, <2>4, HandledNet DEF Awaited
      <3>2. Awaited(t)'
        BY <1>5, <2>1, <2>2, <2>3, <2>4, <2>6, <3>1, HandledNet DEF Awaited
      <3> QED BY <1>0, <1>5, <2>1, <2>2, <2>3, <3>2, HandledNet, WireThread
    <2> QED BY <2>5, <2>6
  <1>6. ASSUME \/ \E c \in Client : RegisterMasterEventHandler(c)
               \/ ProviderStep /\ ~ProviderCrash
               \/ UNCHANGED vars
        PROVE  WireInv'
    <2>1. /\ UNCHANGED <<pc, call, reply, net>>
          /\ up => up'
          /\ events' # {} => handlers'
      BY <1>6 DEF RegisterMasterEventHandler, ProviderStep, StartProvider, RegisterEvent,
             UnregisterEvent, AddElement, RemoveElement, RegisterSubscribeHandler,
             WireInv, vars, clientVars, threadVars, providerVars
    <2>2. ASSUME NEW t \in Thread PROVE Awaited(t)'
      BY <2>1, WireFrame
    <2> QED BY <1>0, <2>1, <2>2 DEF WireInv
  <1>7. ASSUME ProviderCrash
        PROVE  WireInv'
    <2>1. /\ UNCHANGED <<pc, call, reply>> /\ events' = {}
          /\ \A c \in Client : net'[c] = <<>>
      BY <1>7 DEF ProviderCrash, threadVars
    <2>2. ASSUME NEW t \in Thread PROVE Awaited(t)'
      <3>1. net'[ProcessOf[t]] = <<>> /\ Awaited(t)
        BY <2>1, WireTypes
      <3> QED BY <2>1, <3>1 DEF Awaited
    <2> QED BY <1>0, <2>1, <2>2 DEF WireInv
  <1> QED BY <1>1, <1>2, <1>3, <1>4, <1>5, <1>6, <1>7
          DEF Next, ApplicationCall, ThreadStep, ProviderStep

(* A change is something to ask for. *)
LEMMA SomeChange ==
  ASSUME NEW x \in Op \X Event, NEW a
  PROVE  [change |-> x, answer |-> a] # Service!Nothing
  <1>1. x # <<>>
    OBVIOUS
  <1> QED BY <1>1 DEF Service!Nothing

(* What a thread asks for, by where it is in its call. *)
LEMMA AskedIs ==
  ASSUME WireInv, NEW t \in Thread
  PROVE  /\ AskedNow[t] = Asked(t)
         /\ pc[t] \in {"idle", "undo"} => Asked(t) = Service!Nothing
         /\ pc[t] \in {"send", "wait"} =>
              /\ Asked(t).change = <<call[t].op, call[t].key.event>>
              /\ Asked(t).change \in Op \X Event
              /\ Asked(t).answer = reply[t]
              /\ Asked(t) # Service!Nothing
  <1>1. AskedNow[t] = Asked(t)
    BY DEF AskedNow
  <1>2. pc[t] \in {"idle", "undo"} => Asked(t) = Service!Nothing
    BY DEF Asked, Service!Nothing
  <1>3. ASSUME pc[t] \in {"send", "wait"}
        PROVE  /\ Asked(t).change = <<call[t].op, call[t].key.event>>
               /\ Asked(t).change \in Op \X Event
               /\ Asked(t).answer = reply[t]
               /\ Asked(t) # Service!Nothing
    <2>1. Asked(t) = [change |-> <<call[t].op, call[t].key.event>>, answer |-> reply[t]]
      BY <1>3 DEF Asked
    <2>2. <<call[t].op, call[t].key.event>> \in Op \X Event
      BY <1>3, WireTypes
    <2>3. Asked(t) # Service!Nothing
      BY <2>1, <2>2, SomeChange
    <2> QED BY <2>1, <2>2, <2>3
  <1> QED BY <1>1, <1>2, <1>3

(* Only thread t asks for something else than before. *)
LEMMA AskedChanges ==
  ASSUME NEW t \in Thread, NEW v, Asked(t)' = v,
         \A u \in Thread \ {t} : pc'[u] = pc[u] /\ call'[u] = call[u] /\ reply'[u] = reply[u]
  PROVE  AskedNow' = [AskedNow EXCEPT ![t] = v]
  <1>1. \A u \in Thread \ {t} : Asked(u)' = Asked(u)
    BY DEF Asked
  <1> QED BY <1>1 DEF AskedNow

(* Nobody asks for anything else than before. *)
LEMMA AskedStays ==
  ASSUME \A t \in Thread : Asked(t)' = Asked(t)
  PROVE  AskedNow' = AskedNow
  BY DEF AskedNow

(* Only client c has other requests nobody waits for than before. *)
LEMMA LateChanges ==
  ASSUME NEW c \in Client, NEW g, Late(c)' = g,
         \A d \in Client \ {c} : net'[d] = net[d]
  PROVE  LateNow' = [LateNow EXCEPT ![c] = g]
  <1>1. \A d \in Client \ {c} : Late(d)' = Late(d)
    BY DEF Late, LateCount
  <1> QED BY <1>1 DEF LateNow

LEMMA LateStays ==
  ASSUME \A c \in Client : Late(c)' = Late(c)
  PROVE  LateNow' = LateNow
  BY DEF LateNow

(* Without a change of the requests there is none of the late ones. *)
LEMMA LateFrame ==
  ASSUME NEW c, net'[c] = net[c]
  PROVE  Late(c)' = Late(c)
  BY DEF Late, LateCount

(* A function on 1 .. m is a sequence of length m. *)
LEMMA Sequence ==
  ASSUME NEW S, NEW m \in Nat, NEW f \in [1 .. m -> S]
  PROVE  f \in Seq(S) /\ Len(f) = m
  OBVIOUS

(* The late requests are a sequence of changes, the first of those under    *)
(* way, and none where nothing is under way.                                *)
LEMMA LateIs ==
  ASSUME WireInv, NEW c \in Client
  PROVE  /\ LateCount(c) \in Nat /\ Len(net[c]) \in Nat
         /\ LateCount(c) <= Len(net[c])
         /\ Late(c) \in Seq(Op \X Event) /\ Len(Late(c)) = LateCount(c)
         /\ LateNow[c] = Late(c)
  <1>1. net[c] \in Seq(Request) /\ Len(net[c]) \in Nat
    BY DEF WireInv, TypeInv, TypeOK
  <1>2. LateCount(c) \in Nat /\ LateCount(c) <= Len(net[c])
    BY <1>1 DEF LateCount
  <1>3. \A i \in 1 .. LateCount(c) : net[c][i] \in Request
    BY <1>1, <1>2
  <1>4. \A i \in 1 .. LateCount(c) : <<net[c][i].op, net[c][i].event>> \in Op \X Event
    BY <1>3 DEF Request
  <1>5. Late(c) \in [1 .. LateCount(c) -> Op \X Event]
    BY <1>4 DEF Late
  <1>6. Late(c) \in Seq(Op \X Event) /\ Len(Late(c)) = LateCount(c)
    BY <1>2, <1>5, Sequence
  <1> QED BY <1>1, <1>2, <1>6 DEF LateNow

-----------------------------------------------------------------------------
(* The steps, one by one.                                                   *)

(* A step nobody sees. *)
LEMMA Unseen ==
  ASSUME \A t \in Thread : Asked(t)' = Asked(t),
         \A c \in Client : Late(c)' = Late(c),
         UNCHANGED <<events, override, listeners>>
  PROVE  UNCHANGED Service!vars
  BY AskedStays, LateStays DEF Service!vars

LEMMA BeginAsks ==
  ASSUME WireInv, NEW t \in Thread, NEW k \in Key,
         SubscribeBegin(t, k) \/ UnsubscribeBegin(t, k)
  PROVE  \/ \E x \in Service!Change : Service!Ask(t, x)
         \/ UNCHANGED Service!vars
  <1>1. /\ UNCHANGED <<net, reply, events, override, listeners>> /\ pc[t] = "idle"
        /\ k.event \in Event /\ reply[t] = "none"
    BY WireTypes DEF SubscribeBegin, UnsubscribeBegin, threadVars, providerVars, Awaited, Key
  <1>2. \A c \in Client : Late(c)' = Late(c)
    BY <1>1, LateFrame
  <1>3. CASE UNCHANGED <<pc, call>>
    <2>1. \A u \in Thread : Asked(u)' = Asked(u)
      BY <1>1, <1>3 DEF Asked
    <2> QED BY <1>1, <1>2, <2>1, Unseen
  <1>4. ASSUME NEW op \in Op,
               pc' = [pc EXCEPT ![t] = "send"],
               call' = [call EXCEPT ![t] = [op |-> op, key |-> k]]
        PROVE  \E x \in Service!Change : Service!Ask(t, x)
    <2> DEFINE x == <<op, k.event>>
    <2>1. x \in Service!Change
      BY <1>1 DEF Service!Change, Service!Op, Op
    <2>2. pc'[t] = "send" /\ call'[t] = [op |-> op, key |-> k] /\ reply'[t] = "none"
      BY <1>1, <1>4 DEF WireInv, TypeInv, TypeOK
    <2>3. Asked(t)' = [change |-> x, answer |-> "none"]
      BY <2>2 DEF Asked
    <2>4. \A u \in Thread \ {t} : pc'[u] = pc[u] /\ call'[u] = call[u] /\ reply'[u] = reply[u]
      BY <1>1, <1>4 DEF WireInv, TypeInv, TypeOK
    <2>5. AskedNow' = [AskedNow EXCEPT ![t] = [change |-> x, answer |-> "none"]]
      BY <2>3, <2>4, AskedChanges
    <2>6. AskedNow[t] = Service!Nothing
      BY <1>1, AskedIs
    <2>7. Service!Ask(t, x)
      BY <1>1, <1>2, <2>5, <2>6, LateStays DEF Service!Ask
    <2> QED BY <2>1, <2>7
  <1>5. \/ UNCHANGED <<pc, call>>
        \/ \E op \in Op : /\ pc' = [pc EXCEPT ![t] = "send"]
                          /\ call' = [call EXCEPT ![t] = [op |-> op, key |-> k]]
    BY DEF SubscribeBegin, UnsubscribeBegin, threadVars, Op
  <1> QED BY <1>3, <1>4, <1>5

(* The request that is put on the wire is waited for: the service does not  *)
(* tell it from one not yet sent.                                           *)
LEMMA SendIsUnseen ==
  ASSUME WireInv, NEW t \in Thread, SendRequest(t)
  PROVE  UNCHANGED Service!vars
  <1> DEFINE c == ProcessOf[t]
             r == [by |-> t, op |-> call[t].op,
                   event |-> call[t].key.event, live |-> TRUE]
  <1>1. /\ pc[t] = "send" /\ pc' = [pc EXCEPT ![t] = "wait"]
        /\ UNCHANGED <<call, reply, events, override, listeners>>
        /\ net' = [net EXCEPT ![c] = Append(@, r)]
    BY DEF SendRequest, providerVars
  <1>2. \A u \in Thread : Asked(u)' = Asked(u)
    BY <1>1 DEF Asked, WireInv, TypeInv, TypeOK
  <1>3. /\ net[c] \in Seq(Request) /\ Len(net[c]) \in Nat /\ c \in Client
        /\ net'[c] = Append(net[c], r) /\ \A d \in Client \ {c} : net'[d] = net[d]
    BY <1>1, WireTypes DEF TypeOK
  <1>4. /\ Len(net'[c]) = Len(net[c]) + 1
        /\ \A i \in 1 .. Len(net[c]) : net'[c][i] = net[c][i]
        /\ net'[c][Len(net[c]) + 1] = r /\ r.live
    BY <1>3
  <1>5. \A i : i \in 1 .. Len(net'[c]) <=> i \in 1 .. Len(net[c]) \/ i = Len(net[c]) + 1
    BY <1>3, <1>4
  <1> HIDE DEF r
  <1>6. \A i \in 1 .. Len(net[c]) : ~net[c][i].live
    BY <1>1, WireTypes DEF Awaited
  <1>7. LateCount(c) = Len(net[c]) /\ LateCount(c)' = Len(net[c])
    BY <1>3, <1>4, <1>6 DEF LateCount
  <1>8. Late(c)' = Late(c)
    BY <1>4, <1>7 DEF Late
  <1>9. \A d \in Client : Late(d)' = Late(d)
    BY <1>3, <1>8, LateFrame
  <1> QED BY <1>1, <1>2, <1>9, Unseen

(* Thread t leaves its call, or goes to take its entry back. *)
LEMMA LeavesAsked ==
  ASSUME WireInv, NEW t \in Thread, Return(t) \/ AfterFailure(t)
  PROVE  AskedNow' = [AskedNow EXCEPT ![t] = Service!Nothing]
  <1>1. Asked(t)' = Service!Nothing
    BY Leaves DEF Asked, Service!Nothing
  <1> QED BY <1>1, Leaves, AskedChanges

LEMMA UndoIsUnseen ==
  ASSUME WireInv, NEW t \in Thread, Undo(t)
  PROVE  UNCHANGED Service!vars
  <1>1. /\ pc[t] = "undo" /\ Return(t) /\ UNCHANGED <<net, events, override, listeners>>
    BY DEF Undo, providerVars
  <1>2. AskedNow' = [AskedNow EXCEPT ![t] = Service!Nothing]
    BY <1>1, LeavesAsked
  <1>3. AskedNow[t] = Service!Nothing
    BY <1>1, AskedIs
  <1>4. AskedNow' = AskedNow
    BY <1>2, <1>3 DEF AskedNow
  <1>5. LateNow' = LateNow
    BY <1>1, LateStays, LateFrame
  <1> QED BY <1>1, <1>4, <1>5 DEF Service!vars

LEMMA FailureGivesUp ==
  ASSUME WireInv, NEW t \in Thread, Unreachable(t) \/ SendFails(t)
  PROVE  Service!GiveUp(t)
  <1>1. /\ pc[t] = "send" /\ AfterFailure(t) /\ UNCHANGED <<net, events, override, listeners>>
    BY DEF Unreachable, SendFails, providerVars
  <1>2. AskedNow[t] # Service!Nothing /\ AskedNow[t].answer = "none"
    BY <1>1, AskedIs, WireTypes DEF Awaited
  <1>3. AskedNow' = [AskedNow EXCEPT ![t] = Service!Nothing]
    BY <1>1, LeavesAsked
  <1>4. LateNow' = LateNow
    BY <1>1, LateStays, LateFrame
  <1> QED BY <1>1, <1>2, <1>3, <1>4 DEF Service!GiveUp

LEMMA ReplyFinishes ==
  ASSUME WireInv, NEW t \in Thread, ReceiveReply(t)
  PROVE  Service!Finish(t)
  <1>1. /\ pc[t] = "wait" /\ reply[t] # "none" /\ (Return(t) \/ AfterFailure(t))
        /\ UNCHANGED <<net, events, override, listeners>>
    BY DEF ReceiveReply, providerVars
  <1>2. AskedNow[t].answer # "none"
    BY <1>1, AskedIs
  <1>3. AskedNow' = [AskedNow EXCEPT ![t] = Service!Nothing]
    BY <1>1, LeavesAsked
  <1>4. LateNow' = LateNow
    BY <1>1, LateStays, LateFrame
  <1> QED BY <1>1, <1>2, <1>3, <1>4 DEF Service!Finish

(* A thread that gives up leaves its request behind as a late one, unless   *)
(* the request is gone: handled, or lost with a provider that died.         *)
LEMMA TimeoutGivesUp ==
  ASSUME WireInv, NEW t \in Thread, Timeout(t)
  PROVE  Service!GiveUp(t) \/ Service!Finish(t)
  <1> DEFINE c == ProcessOf[t]
             n == Len(net[c])
             y == <<call[t].op, call[t].key.event>>
  <1>1. /\ pc[t] = "wait" /\ AfterFailure(t) /\ UNCHANGED <<events, override, listeners>>
        /\ c \in Client /\ n \in Nat /\ y \in Op \X Event /\ Awaited(t)
    BY WireTypes DEF Timeout, providerVars
  <1>2. AskedNow' = [AskedNow EXCEPT ![t] = Service!Nothing]
    BY <1>1, LeavesAsked
  <1>3. /\ AskedNow[t] # Service!Nothing /\ AskedNow[t].answer = reply[t]
        /\ AskedNow[t].change = y
    BY <1>1, AskedIs
  <1>4. /\ Len(net'[c]) = n /\ \A d \in Client \ {c} : net'[d] = net[d]
        /\ \A i \in 1 .. n : /\ net'[c][i].op = net[c][i].op
                             /\ net'[c][i].event = net[c][i].event
                             /\ ~net'[c][i].live
    BY TimeoutNet
  <1>5. CASE \A i \in 1 .. n : ~net[c][i].live
    <2>1. ASSUME NEW d \in Client PROVE Late(d)' = Late(d)
      <3>1. CASE d # c
        BY <1>4, <3>1, LateFrame
      <3>2. LateCount(c) = n /\ LateCount(c)' = n
        BY <1>1, <1>4, <1>5 DEF LateCount
      <3>3. Late(c)' = Late(c)
        BY <1>4, <3>2 DEF Late
      <3> QED BY <3>1, <3>3
    <2>2. LateNow' = LateNow
      BY <2>1, LateStays
    <2>3. CASE reply[t] = "none"
      BY <1>1, <1>2, <1>3, <2>2, <2>3 DEF Service!GiveUp
    <2>4. CASE reply[t] # "none"
      BY <1>1, <1>2, <1>3, <2>2, <2>4 DEF Service!Finish
    <2> QED BY <2>3, <2>4
  <1>6. CASE \E i \in 1 .. n : net[c][i].live
    <2>1. /\ reply[t] = "none" /\ n \in 1 .. n
          /\ net[c][n].live /\ net[c][n].op = y[1] /\ net[c][n].event = y[2]
          /\ \A i \in 1 .. n : net[c][i].live => i = n
      BY <1>1, <1>6 DEF Awaited
    <2>2. LateCount(c) = n - 1 /\ LateCount(c)' = n /\ n - 1 \in Nat
      BY <1>1, <1>4, <2>1 DEF LateCount
    <2>3. /\ Late(c) \in Seq(Op \X Event) /\ Len(Late(c)) = n - 1
          /\ LateNow[c] = Late(c)
      BY <1>1, <2>2, LateIs
    <2>4. \A i \in 1 .. n - 1 : Late(c)[i] = <<net[c][i].op, net[c][i].event>>
      BY <2>2 DEF Late
    <2>5. Late(c)' = [i \in 1 .. n |-> <<net[c][i].op, net[c][i].event>>]
      BY <1>4, <2>2 DEF Late
    <2>6. <<net[c][n].op, net[c][n].event>> = y
      BY <2>1
    <2>7. Late(c)' = Append(Late(c), y)
      <3> DEFINE L == Late(c)
                 A == Append(L, y)
      <3>1. A = [i \in 1 .. n |-> IF i <= n - 1 THEN L[i] ELSE y]
        BY <1>1, <2>2, <2>3
      <3>2. \A i \in 1 .. n : i <= n - 1 \/ i = n
        BY <1>1
      <3>3. ASSUME NEW i \in 1 .. n
            PROVE  <<net[c][i].op, net[c][i].event>> = IF i <= n - 1 THEN L[i] ELSE y
        <4>1. CASE i = n
          BY <1>1, <2>6, <4>1
        <4>2. CASE i # n
          BY <1>1, <2>4, <3>2, <4>2
        <4> QED BY <4>1, <4>2
      <3> DEFINE F == [i \in 1 .. n |-> <<net[c][i].op, net[c][i].event>>]
      <3>4. F = A
        BY <3>1, <3>3, Zenon
      <3> QED BY <2>5, <3>4, Zenon
    <2>8. LateNow' = [LateNow EXCEPT ![c] = Append(LateNow[c], y)]
      BY <1>1, <1>4, <2>3, <2>7, LateChanges
    <2> QED BY <1>1, <1>2, <1>3, <2>1, <2>8 DEF Service!GiveUp
  <1> QED BY <1>5, <1>6

(* The outcome of a request is one the service allows. *)
LEMMA OutcomeHappens ==
  ASSUME WireInv, NEW c \in Client, NEW r \in Request, NEW o \in Outcomes(r, c),
         listeners' = o.listeners
  PROVE  o.answer \in Service!Answer /\ Service!Happens(c, <<r.op, r.event>>, o.answer)
  <1>1. r.op \in Op /\ (r.event \in events => handlers)
    BY DEF Request, WireInv
  <1>2. \/ ~handlers /\ o = [answer |-> "error", listeners |-> listeners]
        \/ handlers /\ o = BuiltInOutcome(r, c)
        \/ /\ override
           /\ \E a \in {"success", "error"} : o = [answer |-> a, listeners |-> listeners]
    BY DEF Outcomes
  <1>3. CASE ~handlers /\ o = [answer |-> "error", listeners |-> listeners]
    BY <1>1, <1>3 DEF Service!Happens, Service!Answer
  <1>4. CASE handlers /\ o = BuiltInOutcome(r, c)
    BY <1>1, <1>4 DEF Service!Happens, Service!Answer, Service!Changed, BuiltInOutcome, Op
  <1>5. CASE /\ override
             /\ \E a \in {"success", "error"} : o = [answer |-> a, listeners |-> listeners]
    BY <1>5 DEF Service!Happens, Service!Answer
  <1> QED BY <1>2, <1>3, <1>4, <1>5

(* Handling a late request removes the first of the late ones. *)
LEMMA TailLate ==
  ASSUME WireInv, NEW c \in Client, HandleRequest(c), ~net[c][1].live
  PROVE  /\ Late(c) # <<>> /\ Late(c)' = Tail(Late(c))
         /\ Head(Late(c)) = <<net[c][1].op, net[c][1].event>>
  <1> DEFINE n == Len(net[c])
             m == LateCount(c)
             X(i) == <<net[c][i].op, net[c][i].event>>
  <1>1. /\ n \in Nat /\ 1 \in 1 .. n
        /\ Len(net'[c]) = n - 1
        /\ \A i \in 1 .. n - 1 : i + 1 \in 1 .. n /\ net'[c][i] = net[c][i + 1]
    <2>1. PICK t \in Thread : ProcessOf[t] = c
      BY ProcessAssumption
    <2> QED BY <2>1, HandledNet, LateIs
  <1>2. /\ m \in Nat /\ m <= n /\ Late(c) \in Seq(Op \X Event) /\ Len(Late(c)) = m
    BY LateIs
  <1>3. m >= 1 /\ LateCount(c)' = m - 1
    <2>1. CASE n = 1
      BY <1>1, <2>1 DEF LateCount
    <2>2. CASE n > 1
      <3>1. net'[c][n - 1] = net[c][n] /\ n - 1 > 0
        BY <1>1, <2>2
      <3>2. LateCount(c)' = IF net[c][n].live THEN n - 2 ELSE n - 1
        BY <1>1, <3>1 DEF LateCount
      <3>3. m = IF net[c][n].live THEN n - 1 ELSE n
        BY <1>1, <2>2 DEF LateCount
      <3> QED BY <1>1, <2>2, <3>2, <3>3
    <2>3. n \in Nat /\ 1 \in 1 .. n
      BY <1>1
    <2>4. n = 1 \/ n > 1
      <3> HIDE DEF n
      <3> QED BY <2>3
    <2> QED BY <2>1, <2>2, <2>4, Zenon
  <1>4. Late(c) = [i \in 1 .. m |-> X(i)]
    BY DEF Late
  <1>5. Late(c)' = [i \in 1 .. m - 1 |-> X(i + 1)]
    <2>1. Late(c)' = [i \in 1 .. m - 1 |-> <<net'[c][i].op, net'[c][i].event>>]
      BY <1>3 DEF Late
    <2>2. \A i \in 1 .. m - 1 : net'[c][i] = net[c][i + 1]
      BY <1>1, <1>2, <1>3
    <2> QED BY <2>1, <2>2
  <1> HIDE DEF X
  <1>6. Tail(Late(c)) = [i \in 1 .. m - 1 |-> Late(c)[i + 1]]
    <2>1. PICK s \in Seq(Op \X Event) : s = Late(c)
      BY <1>2
    <2>2. s # <<>> /\ Len(s) = m
      BY <1>2, <1>3, <2>1
    <2> HIDE DEF m
    <2>3. PICK q : q = Tail(s)
      OBVIOUS
    <2>4. /\ q \in Seq(Op \X Event) /\ Len(q) = m - 1 /\ m - 1 \in Nat
          /\ \A i \in 1 .. m - 1 : q[i] = s[i + 1] /\ q[i] \in Op \X Event
      BY <1>2, <1>3, <2>1, <2>2, <2>3, HeadTailProperties
    <2>5. PICK p : p = [i \in 1 .. m - 1 |-> s[i + 1]]
      OBVIOUS
    <2>6. p \in Seq(Op \X Event) /\ Len(p) = m - 1 /\ \A i \in 1 .. m - 1 : p[i] = q[i]
      BY <2>4, <2>5
    <2>7. p = q
      BY <2>4, <2>6, SeqEqual
    <2> QED BY <2>1, <2>3, <2>5, <2>7, Zenon
  <1>7. \A i \in 1 .. m - 1 : Late(c)[i + 1] = X(i + 1)
    BY <1>2, <1>3, <1>4
  <1>8. Late(c)[1] = X(1) /\ Late(c) # <<>>
    BY <1>2, <1>3, <1>4
  <1> QED BY <1>5, <1>6, <1>7, <1>8 DEF X

(* A request that somebody waits for takes effect after all late ones of    *)
(* the client; any other one is one of those.                               *)
LEMMA HandleTakesEffect ==
  ASSUME WireInv, NEW c \in Client, HandleRequest(c)
  PROVE  \/ \E t \in Thread, a \in Service!Answer : Service!TakeEffect(t, a)
         \/ \E a \in Service!Answer : Service!TakeLateEffect(c, a)
  <1>1. PICK t \in Thread : ProcessOf[t] = c
    BY ProcessAssumption
  <1>2. PICK r : r = net[c][1]
    OBVIOUS
  <1>3. /\ r \in Request /\ r = Head(net[c]) /\ r.by = t /\ 1 \in 1 .. Len(net[c])
        /\ \A d \in Client \ {c} : net'[d] = net[d]
    BY <1>1, <1>2, HandledNet
  <1>4. PICK o \in Outcomes(r, c) :
           /\ listeners' = o.listeners
           /\ reply' = IF r.live THEN [reply EXCEPT ![t] = o.answer] ELSE reply
    BY <1>3 DEF HandleRequest
  <1>5. UNCHANGED <<pc, call, events, override>>
    BY DEF HandleRequest
  <1>6. PICK y : y = <<r.op, r.event>>
    OBVIOUS
  <1>7. y \in Op \X Event /\ y[1] = r.op /\ y[2] = r.event
    BY <1>3, <1>6 DEF Request
  <1>8. PICK a : a = o.answer
    OBVIOUS
  <1>9. a \in Service!Answer /\ Service!Happens(c, y, a)
    BY <1>3, <1>4, <1>6, <1>8, OutcomeHappens
  <1>10. CASE r.live
    <2>1. /\ net'[c] = <<>> /\ Len(net[c]) = 1 /\ pc[t] = "wait" /\ reply[t] = "none"
          /\ y = <<call[t].op, call[t].key.event>>
      BY <1>1, <1>2, <1>6, <1>10, HandledNet
    <2>2. LateCount(c) = 0 /\ LateCount(c)' = 0
      BY <1>2, <1>10, <2>1 DEF LateCount
    <2>3. Late(c) = <<>> /\ Late(c)' = <<>>
      BY <2>2 DEF Late
    <2>4. LateNow' = LateNow
      BY <1>3, <2>3, LateStays, LateFrame
    <2>5. LateNow[c] = <<>>
      BY <2>3, LateIs
    <2>6. AskedNow[t] # Service!Nothing /\ AskedNow[t] = [change |-> y, answer |-> "none"]
      BY <2>1, AskedIs DEF Asked
    <2>7. /\ \A u \in Thread \ {t} : pc'[u] = pc[u] /\ call'[u] = call[u] /\ reply'[u] = reply[u]
          /\ reply'[t] = a
      BY <1>4, <1>5, <1>8, <1>10 DEF WireInv, TypeInv, TypeOK
    <2>8. Asked(t)' = [change |-> y, answer |-> a]
      BY <1>5, <2>1, <2>7 DEF Asked
    <2>9. AskedNow' = [AskedNow EXCEPT ![t] = [change |-> y, answer |-> a]]
      BY <2>7, <2>8, AskedChanges
    <2>10. AskedNow' = [AskedNow EXCEPT ![t].answer = a]
      <3>1. [AskedNow[t] EXCEPT !.answer = a] = [change |-> y, answer |-> a]
        BY <2>6
      <3> QED BY <2>9, <3>1
    <2>11. Service!TakeEffect(t, a)
      BY <1>1, <1>5, <1>9, <2>4, <2>5, <2>6, <2>10 DEF Service!TakeEffect
    <2> QED BY <1>9, <2>11
  <1>11. CASE ~r.live
    <2>1. AskedNow' = AskedNow
      BY <1>4, <1>5, <1>11, AskedStays DEF Asked
    <2>2. Late(c) # <<>> /\ Late(c)' = Tail(Late(c)) /\ Head(Late(c)) = y
      BY <1>2, <1>6, <1>11, TailLate
    <2>3. LateNow[c] = Late(c)
      BY LateIs
    <2>4. LateNow' = [LateNow EXCEPT ![c] = Tail(LateNow[c])]
      BY <1>3, <2>2, <2>3, LateChanges
    <2>5. Service!TakeLateEffect(c, a)
      BY <1>5, <1>9, <2>1, <2>2, <2>3, <2>4 DEF Service!TakeLateEffect
    <2> QED BY <1>9, <2>5
  <1> QED BY <1>10, <1>11

(* What the provider does of itself. *)
LEMMA ProviderServes ==
  ASSUME WireInv, ProviderStep
  PROVE  [Service!Next]_Service!vars
  <1>1. ASSUME UNCHANGED <<pc, call, reply, net>>
        PROVE  /\ AskedNow' = AskedNow /\ LateNow' = LateNow
               /\ UNCHANGED <<events, override, listeners>> => UNCHANGED Service!vars
    <2>1. \A t \in Thread : Asked(t)' = Asked(t)
      BY <1>1 DEF Asked
    <2>2. \A c \in Client : Late(c)' = Late(c)
      BY <1>1, LateFrame
    <2> QED BY <2>1, <2>2, AskedStays, LateStays, Unseen
  <1>2. ASSUME StartProvider \/ \E e \in Event : AddElement(e) \/ RemoveElement(e)
        PROVE  UNCHANGED Service!vars
    BY <1>1, <1>2 DEF StartProvider, AddElement, RemoveElement, threadVars
  <1>3. ASSUME NEW e \in Event, RegisterEvent(e) PROVE Service!Offer(e)
    BY <1>1, <1>3 DEF RegisterEvent, threadVars, Service!Offer
  <1>4. ASSUME NEW e \in Event, UnregisterEvent(e) PROVE Service!Withdraw(e)
    <2>1. listeners' = {p \in listeners : p[2] # e}
      BY <1>4 DEF UnregisterEvent
    <2> QED BY <1>1, <1>4, <2>1 DEF UnregisterEvent, threadVars, Service!Withdraw
  <1>5. ASSUME RegisterSubscribeHandler PROVE Service!Override
    BY <1>1, <1>5 DEF RegisterSubscribeHandler, threadVars, Service!Override
  <1>6. ASSUME ProviderCrash PROVE Service!Die
    <2>1. /\ UNCHANGED <<pc, call, reply>> /\ net' = [c \in Client |-> <<>>]
          /\ events' = {} /\ override' = FALSE /\ listeners' = {}
      BY <1>6 DEF ProviderCrash, threadVars
    <2>2. AskedNow' = AskedNow
      BY <2>1, AskedStays DEF Asked
    <2>3. \A c \in Client : LateCount(c)' = 0
      BY <2>1 DEF LateCount
    <2>4. \A c \in Client : Late(c)' = <<>>
      BY <2>3 DEF Late
    <2>5. LateNow' = [c \in Client |-> <<>>]
      BY <2>4 DEF LateNow
    <2> QED BY <2>1, <2>2, <2>5 DEF Service!Die
  <1> QED BY <1>2, <1>3, <1>4, <1>5, <1>6 DEF ProviderStep, Service!Next

(* The service starts as the protocol does. *)
LEMMA InitServes == Init => Service!Init
  <1> SUFFICES ASSUME Init PROVE Service!Init
    OBVIOUS
  <1>1. \A t \in Thread : Asked(t) = Service!Nothing
    BY DEF Init, Asked, Service!Nothing
  <1>2. AskedNow = [t \in Thread |-> Service!Nothing]
    BY <1>1 DEF AskedNow
  <1>3. \A c \in Client : LateCount(c) = 0
    BY DEF Init, LateCount
  <1>4. LateNow = [c \in Client |-> <<>>]
    BY <1>3 DEF LateNow, Late
  <1> QED BY <1>2, <1>4 DEF Init, Service!Init

(* Every step of the protocol is a step of the service, or none of it. *)
LEMMA StepServes ==
  ASSUME WireInv, [Next]_vars
  PROVE  [Service!Next]_Service!vars
  <1>1. ASSUME NEW t \in Thread, ApplicationCall(t)
        PROVE  [Service!Next]_Service!vars
    BY <1>1, BeginAsks DEF ApplicationCall, Service!Next
  <1>2. ASSUME NEW t \in Thread, ThreadStep(t)
        PROVE  [Service!Next]_Service!vars
    BY <1>2, SendIsUnseen, FailureGivesUp, TimeoutGivesUp, ReplyFinishes, UndoIsUnseen
       DEF ThreadStep, Service!Next
  <1>3. ASSUME NEW c \in Client, HandleRequest(c)
        PROVE  [Service!Next]_Service!vars
    BY <1>3, HandleTakesEffect DEF Service!Next
  <1>4. ASSUME (\E c \in Client : RegisterMasterEventHandler(c)) \/ UNCHANGED vars
        PROVE  [Service!Next]_Service!vars
    <2>1. UNCHANGED <<pc, call, reply, net, events, override, listeners>>
      BY <1>4 DEF RegisterMasterEventHandler, vars, threadVars, providerVars
    <2> QED BY <2>1, Unseen, LateFrame DEF Asked
  <1> QED BY <1>1, <1>2, <1>3, <1>4, ProviderServes DEF Next

(* For clients that call from one thread each, the subscription protocol    *)
(* implements the service: over timeouts, late answers, lost requests and   *)
(* crashes, an answered call took effect exactly once while it was under    *)
(* way, and those given up on at most once each, in their order, before any *)
(* later call of the process (send_subscription_request,                    *)
(* subscription_handler).                                                   *)
THEOREM SubscriptionRefinement ==
  ASSUME SingleThreaded
  PROVE  Spec => ImplementsService
  <1>1. WireInv /\ [Next]_vars => WireInv'
    BY WireStep
  <1>2. WireInv /\ [Next]_vars => [Service!Next]_Service!vars
    BY StepServes
  <1> QED BY <1>1, <1>2, InitWire, InitServes, PTL DEF Spec, ImplementsService, Service!Spec

=============================================================================
