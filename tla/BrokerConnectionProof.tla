----------------------- MODULE BrokerConnectionProof -----------------------
(* Proofs about BrokerConnection, for any number of threads that use the    *)
(* connection, of events and of calls.                                      *)
EXTENDS BrokerConnection, FiniteSetTheorems, TLAPS

(***************************************************************************)
(* The inductive invariant.                                                *)
(***************************************************************************)

(* Only a refused close keeps the mutex, and no destroyed mutex has an      *)
(* owner.                                                                   *)
OwnerInv ==
    mutex.owner # NoThread => mutex.owner \in refused /\ mutex.kind # "destroyed"

(* What a close has done so far, by where it is. *)
StageInv ==
    \A t \in Thread :
        /\ pc[t] \in {"init", "open", "close", "cancel", "finish", "destroy", "end"} =>
             t \in Manager
        /\ pc[t] = "cancel" => left[t] >= 1
        /\ pc[t] \in {"destroy", "end"} => entries # "alive"
        /\ pc[t] = "end" => conn = "dead"

(* g_connection and the tables are in step between a close and the next. *)
InStep ==
    /\ conn = "null" => entries # "alive"
    /\ conn # "null" /\ ~Closing /\ ~halfClosed => objects = "alive" /\ entries = "alive"

(* A call that no close overlaps still has the connection it found. *)
CallInv ==
    \A t \in Thread :
        pc[t] = "section" /\ op[t] \in CheckedOp /\ t \notin overlapped =>
            conn # "null" /\ ~Closing

BrokerInv ==
    /\ TypeOK
    /\ IsFiniteSet(subs)
    /\ OwnerInv
    /\ StageInv
    /\ InStep
    /\ CallInv

(***************************************************************************)
(* Threads and the mutex.                                                  *)
(***************************************************************************)

Place   == {"idle", "init", "open", "close", "cancel", "finish", "destroy", "end", "section"}
ClosePc == {"cancel", "finish", "destroy", "end"}
OwnPc   == {"init", "open", "close"} \cup ClosePc

MutexType == [kind : {"static", "errorcheck", "destroyed"}, owner : Thread \cup {NoThread}]

LEMMA Moves ==
  ASSUME TypeOK, NEW t \in Thread, NEW next \in Place,
         (\E from \in Place : Goto(t, from, next)) \/ Begin(t, next)
  PROVE  /\ pc' \in [Thread -> Place] /\ pc'[t] = next
         /\ \A u \in Thread \ {t} : pc'[u] = pc[u]
  BY DEF TypeOK, Goto, Begin, Place

LEMMA Counts ==
  ASSUME TypeOK, NEW t \in Thread, NEW next, Begin(t, next)
  PROVE  calls' \in [Thread -> 0 .. MaxCalls]
  <1>1. calls[t] + 1 \in 0 .. MaxCalls
    BY CallsAssumption DEF TypeOK, Begin
  <1> QED BY <1>1 DEF TypeOK, Begin

(* The mutex is free after a section. *)
LEMMA SectionFrees ==
  ASSUME BrokerInv, NEW t \in Thread, Section(t)
  PROVE  mutex' \in MutexType /\ mutex'.owner = NoThread /\ OwnerInv'
  <1>1. mutex \in MutexType /\ t # NoThread
    BY ThreadAssumption DEF BrokerInv, TypeOK, MutexType, Thread
  <1>2. CASE mutex.kind = "destroyed"
    <2>1. mutex' = mutex /\ mutex.owner = NoThread
      BY <1>2 DEF BrokerInv, OwnerInv, Section, Locked, Unlocked
    <2> QED BY <1>1, <2>1 DEF OwnerInv
  <1>3. CASE mutex.kind # "destroyed"
    <2>1. Locked(t) = [mutex EXCEPT !.owner = t]
      BY <1>3 DEF Locked
    <2>2. Locked(t).kind = mutex.kind /\ Locked(t).owner = t
      BY <1>1, <2>1 DEF MutexType
    <2>3. mutex.kind \in {"static", "errorcheck"}
      BY <1>1, <1>3 DEF MutexType
    <2>4. mutex' = [Locked(t) EXCEPT !.owner = NoThread]
      BY <2>2, <2>3 DEF Section, Unlocked
    <2>5. mutex' = [mutex EXCEPT !.owner = NoThread]
      BY <1>1, <2>1, <2>4 DEF MutexType
    <2>6. mutex' \in MutexType /\ mutex'.owner = NoThread
      BY <1>1, <2>5 DEF MutexType
    <2> QED BY <2>6 DEF OwnerInv
  <1> QED BY <1>2, <1>3

(* Only the manager closes. *)
LEMMA OneCloser ==
  ASSUME BrokerInv, NEW t \in Manager
  PROVE  Closing <=> pc[t] \in ClosePc
  <1>1. \A u \in Thread : pc[u] \in ClosePc => u = t
    BY ManagerAssumption DEF BrokerInv, StageInv, ClosePc
  <1>2. t \in Thread
    BY DEF Thread
  <1> QED BY <1>1, <1>2 DEF Closing, ClosePc

(* A step of the manager: the others stay where they are. *)
LEMMA ManagerMoves ==
  ASSUME BrokerInv, NEW t \in Manager, NEW from \in OwnPc, NEW next \in OwnPc \cup {"idle"},
         Goto(t, from, next)
  PROVE  /\ t \in Thread /\ pc[t] = from /\ pc'[t] = next /\ pc' \in [Thread -> Place]
         /\ \A u \in Thread \ {t} : pc'[u] = pc[u] /\ pc[u] \notin OwnPc
         /\ Closing <=> from \in ClosePc
         /\ Closing' <=> next \in ClosePc
         /\ \A u \in Thread : pc'[u] \in OwnPc => u \in Manager
  <1>1. t \in Thread /\ TypeOK /\ from \in Place /\ next \in Place
    BY DEF Thread, BrokerInv, OwnPc, ClosePc, Place
  <1>2. /\ pc[t] = from /\ pc'[t] = next /\ pc' \in [Thread -> Place]
        /\ \A u \in Thread \ {t} : pc'[u] = pc[u]
    BY <1>1, Moves DEF Goto
  <1>3. \A u \in Thread : pc[u] \in OwnPc => u \in Manager
    BY DEF BrokerInv, StageInv, OwnPc, ClosePc
  <1>4. \A u \in Thread \ {t} : pc[u] \notin OwnPc
    BY <1>3, ManagerAssumption
  <1>5. Closing <=> from \in ClosePc
    BY <1>2, OneCloser
  <1>6. Closing' <=> next \in ClosePc
    <2>1. \A u \in Thread \ {t} : pc'[u] \notin ClosePc
      BY <1>2, <1>4 DEF OwnPc
    <2> QED BY <1>1, <1>2, <2>1 DEF Closing, ClosePc
  <1> QED BY <1>1, <1>2, <1>3, <1>4, <1>5, <1>6

(* Calls of other threads do not end before a step of the manager does. *)
LEMMA StageOf ==
  ASSUME BrokerInv, NEW t \in Manager, NEW from \in OwnPc, NEW next \in OwnPc \cup {"idle"},
         Goto(t, from, next),
         next = "cancel" => left'[t] >= 1,
         next \in {"destroy", "end"} => entries' # "alive",
         next = "end" => conn' = "dead"
  PROVE  StageInv'
  <1>1. /\ pc'[t] = next /\ \A u \in Thread \ {t} : pc'[u] \notin OwnPc
        /\ \A u \in Thread : pc'[u] \in OwnPc => u \in Manager
    BY ManagerMoves
  <1> SUFFICES ASSUME NEW u \in Thread
               PROVE  /\ pc'[u] \in OwnPc => u \in Manager
                      /\ pc'[u] = "cancel" => left'[u] >= 1
                      /\ pc'[u] \in {"destroy", "end"} => entries' # "alive"
                      /\ pc'[u] = "end" => conn' = "dead"
    BY DEF StageInv, OwnPc, ClosePc
  <1>2. CASE u = t
    BY <1>1, <1>2
  <1>3. CASE u # t
    BY <1>1, <1>3 DEF OwnPc, ClosePc
  <1> QED BY <1>2, <1>3

(* A step of the manager disturbs no call that keeps out of its way. *)
LEMMA CallsKept ==
  ASSUME BrokerInv, NEW t \in Manager, NEW from \in OwnPc, NEW next \in OwnPc \cup {"idle"},
         Goto(t, from, next), op' = op,
         \/ (Closing \/ conn = "null") /\ overlapped' = overlapped
         \/ conn' = conn /\ (Closing' <=> Closing) /\ overlapped' = overlapped
         \/ \A u \in Thread \ {t} : pc[u] # "idle" => u \in overlapped'
  PROVE  CallInv'
  <1>1. pc'[t] = next /\ \A u \in Thread \ {t} : pc'[u] = pc[u]
    BY ManagerMoves
  <1>2. next # "section"
    BY DEF OwnPc, ClosePc
  <1> SUFFICES ASSUME NEW u \in Thread, pc'[u] = "section", op'[u] \in CheckedOp,
                      u \notin overlapped'
               PROVE  conn' # "null" /\ ~Closing'
    BY DEF CallInv
  <1>3. u # t /\ pc[u] = "section" /\ op[u] \in CheckedOp
    BY <1>1, <1>2
  <1> QED BY <1>3 DEF BrokerInv, CallInv

(***************************************************************************)
(* The initial states.                                                     *)
(***************************************************************************)

LEMMA BrokerInit ==
  ASSUME Init
  PROVE  BrokerInv
  <1>1. IsFiniteSet(subs)
    BY FS_EmptySet DEF Init
  <1>2. mutex \in [kind : {"static", "errorcheck", "destroyed"}, owner : Thread \cup {NoThread}]
        /\ mutex.owner = NoThread
    BY DEF Init
  <1>3. calls \in [Thread -> 0 .. MaxCalls]
    BY CallsAssumption DEF Init
  <1>4. TypeOK
    BY <1>2, <1>3 DEF Init, TypeOK, TableState
  <1>5. ~Closing
    BY DEF Init, Closing
  <1>6. OwnerInv /\ StageInv /\ InStep /\ CallInv
    BY <1>2, <1>5 DEF Init, OwnerInv, StageInv, InStep, CallInv
  <1> QED BY <1>1, <1>4, <1>6 DEF BrokerInv

(***************************************************************************)
(* Opening.                                                                *)
(***************************************************************************)

(* Entering rbus_openBrokerConnection or rbus_closeBrokerConnection. *)
LEMMA ManagerBeginStep ==
  ASSUME BrokerInv, NEW t \in Manager, OpenBegin(t) \/ CloseBegin(t)
  PROVE  BrokerInv'
  <1>1. PICK next \in {"init", "open", "close"} : Begin(t, next)
    BY DEF OpenBegin, CloseBegin
  <1>2. /\ TypeOK /\ t \in Thread /\ pc[t] = "idle" /\ next \in Place
        /\ UNCHANGED <<mutex, mutexInit, conn, objects, entries, subs, dispatching, advisory,
                       listening, op, left, refused, overlapped, raced, halfClosed>>
    BY <1>1 DEF BrokerInv, OpenBegin, CloseBegin, Begin, connVars, historyVars, Thread, Place
  <1>3. /\ pc' \in [Thread -> Place] /\ pc'[t] = next
        /\ \A u \in Thread \ {t} : pc'[u] = pc[u]
    BY <1>1, <1>2, Moves
  <1>4. TypeOK'
    <2>1. calls' \in [Thread -> 0 .. MaxCalls]
      BY <1>1, <1>2, Counts
    <2> QED BY <1>2, <1>3, <2>1 DEF TypeOK, Place
  <1>5. Closing' <=> Closing
    BY <1>1, <1>2, <1>3 DEF Closing
  <1>6. IsFiniteSet(subs)' /\ OwnerInv' /\ InStep'
    BY <1>2, <1>5 DEF BrokerInv, OwnerInv, InStep
  <1>7. StageInv'
    <2> SUFFICES ASSUME NEW u \in Thread
                 PROVE  /\ pc'[u] \in OwnPc => u \in Manager
                        /\ pc'[u] = "cancel" => left'[u] >= 1
                        /\ pc'[u] \in {"destroy", "end"} => entries' # "alive"
                        /\ pc'[u] = "end" => conn' = "dead"
      BY DEF StageInv, OwnPc, ClosePc
    <2>1. CASE u = t
      BY <1>1, <1>3, <2>1
    <2>2. CASE u # t
      BY <1>2, <1>3, <2>2 DEF BrokerInv, StageInv, OwnPc, ClosePc
    <2> QED BY <2>1, <2>2
  <1>8. CallInv'
    BY <1>1, <1>2, <1>3, <1>5 DEF BrokerInv, CallInv
  <1> QED BY <1>4, <1>6, <1>7, <1>8 DEF BrokerInv

LEMMA OpenInitMutexStep ==
  ASSUME BrokerInv, NEW t \in Manager, OpenInitMutex(t)
  PROVE  BrokerInv'
  <1>1. /\ TypeOK /\ Goto(t, "init", "open") /\ mutex' = [kind |-> "errorcheck", owner |-> NoThread]
        /\ mutexInit' = TRUE /\ refused' = {}
        /\ UNCHANGED <<conn, objects, entries, subs, dispatching, advisory,
                       listening, op, left, calls, overlapped, raced, halfClosed>>
    BY DEF BrokerInv, OpenInitMutex, connVars
  <1>2. "init" \in OwnPc /\ "open" \in OwnPc /\ "init" \notin ClosePc /\ "open" \notin ClosePc
    BY DEF OwnPc, ClosePc
  <1>3. pc' \in [Thread -> Place] /\ ~Closing /\ ~Closing'
    BY <1>1, <1>2, ManagerMoves
  <1>4. mutex' \in MutexType /\ mutex'.owner = NoThread
    BY <1>1 DEF MutexType
  <1>5. TypeOK'
    BY <1>1, <1>3, <1>4 DEF TypeOK, Place, MutexType
  <1>6. StageInv'
    BY <1>1, <1>2, StageOf
  <1>7. CallInv'
    BY <1>1, <1>2, <1>3, CallsKept
  <1>8. IsFiniteSet(subs)' /\ OwnerInv' /\ InStep'
    BY <1>1, <1>3, <1>4 DEF BrokerInv, OwnerInv, InStep
  <1> QED BY <1>5, <1>6, <1>7, <1>8 DEF BrokerInv

(* The section of the open, whatever becomes of the connection. *)
LEMMA OpenStep ==
  ASSUME BrokerInv, NEW t \in Manager, OpenAgain(t) \/ OpenCreate(t) \/ OpenCreateFails(t)
  PROVE  BrokerInv'
  <1>1. /\ TypeOK /\ Goto(t, "open", "idle") /\ Section(t) /\ refused' = refused \ {t}
        /\ UNCHANGED <<mutexInit, subs, dispatching, advisory, listening, op, left,
                       calls, overlapped, raced, halfClosed>>
    BY DEF BrokerInv, OpenAgain, OpenCreate, OpenCreateFails, OpenSection
  <1>2. "open" \in OwnPc /\ "open" \notin ClosePc /\ "idle" \notin ClosePc
    BY DEF OwnPc, ClosePc
  <1>3. pc' \in [Thread -> Place] /\ ~Closing /\ ~Closing' /\ t \in Thread
    BY <1>1, <1>2, ManagerMoves
  <1>4. mutex' \in MutexType /\ OwnerInv'
    BY <1>1, <1>3, SectionFrees
  <1>5. \/ conn # "null" /\ UNCHANGED <<conn, objects, entries>>
        \/ conn = "null" /\ conn' = "open" /\ objects' = "alive" /\ entries' = "alive"
        \/ conn = "null" /\ conn' = conn /\ objects' = "freed" /\ entries' = "freed"
    BY DEF OpenAgain, OpenCreate, OpenCreateFails
  <1>6. TypeOK'
    <2>1. conn = "null" => subs = {} /\ listening = {}
      BY <1>1 DEF BrokerInv, InStep, TypeOK
    <2>2. /\ conn' \in {"null", "open", "dead"} /\ objects' \in TableState /\ entries' \in TableState
          /\ entries' # "alive" => subs' = {}
          /\ conn' # "open" => listening' = {}
      BY <1>1, <1>5, <2>1 DEF TypeOK, TableState
    <2>3. refused' \subseteq Thread
      BY <1>1 DEF TypeOK
    <2> QED BY <1>1, <1>3, <1>4, <2>2, <2>3 DEF TypeOK, Place, MutexType
  <1>7. StageInv'
    BY <1>1, <1>2, StageOf
  <1>8. CallInv'
    BY <1>1, <1>2, <1>3, <1>5, CallsKept
  <1>9. IsFiniteSet(subs)' /\ InStep'
    BY <1>1, <1>3, <1>5 DEF BrokerInv, InStep
  <1> QED BY <1>4, <1>6, <1>7, <1>8, <1>9 DEF BrokerInv

(***************************************************************************)
(* Closing.                                                                *)
(***************************************************************************)

LEMMA CloseRefusedStep ==
  ASSUME BrokerInv, NEW t \in Manager, CloseRefused(t)
  PROVE  BrokerInv'
  <1>1. /\ TypeOK /\ Goto(t, "close", "idle") /\ conn = "null" /\ mutex' = Locked(t)
        /\ refused' = refused \cup {t}
        /\ UNCHANGED <<mutexInit, conn, objects, entries, subs, dispatching, advisory,
                       listening, op, left, calls, overlapped, raced, halfClosed>>
    BY DEF BrokerInv, CloseRefused, connVars
  <1>2. "close" \in OwnPc /\ "close" \notin ClosePc /\ "idle" \notin ClosePc
    BY DEF OwnPc, ClosePc
  <1>3. pc' \in [Thread -> Place] /\ ~Closing /\ ~Closing' /\ t \in Thread
    BY <1>1, <1>2, ManagerMoves
  <1>4. mutex \in MutexType
    BY <1>1 DEF TypeOK, MutexType
  <1>5. mutex' \in MutexType /\ OwnerInv'
    <2>1. CASE mutex.kind = "destroyed"
      BY <1>1, <1>4, <2>1 DEF Locked, BrokerInv, OwnerInv
    <2>2. CASE mutex.kind # "destroyed"
      <3>1. mutex' = [mutex EXCEPT !.owner = t]
        BY <1>1, <2>2 DEF Locked
      <3>2. mutex' \in MutexType /\ mutex'.owner = t /\ mutex'.kind = mutex.kind
        BY <1>3, <1>4, <3>1 DEF MutexType
      <3> QED BY <1>1, <2>2, <3>2 DEF OwnerInv
    <2> QED BY <2>1, <2>2
  <1>6. TypeOK'
    <2>1. refused' \subseteq Thread
      BY <1>1, <1>3 DEF TypeOK
    <2> QED BY <1>1, <1>3, <1>5, <2>1 DEF TypeOK, Place, MutexType
  <1>7. StageInv'
    BY <1>1, <1>2, StageOf
  <1>8. CallInv'
    BY <1>1, <1>2, <1>3, CallsKept
  <1>9. IsFiniteSet(subs)' /\ InStep'
    BY <1>1, <1>3 DEF BrokerInv, InStep
  <1> QED BY <1>5, <1>6, <1>7, <1>8, <1>9 DEF BrokerInv

(* perform_cleanup up to its first unlock(). *)
LEMMA CloseCleanupStep ==
  ASSUME BrokerInv, NEW t \in Manager, CloseCleanup(t)
  PROVE  BrokerInv'
  <1> DEFINE next == IF subs # {} THEN "cancel" ELSE "destroy"
  <1>1. /\ TypeOK /\ Goto(t, "close", next) /\ conn # "null" /\ Section(t) /\ objects' = "freed"
        /\ entries' = (IF subs # {} THEN entries ELSE "freed")
        /\ left' = [left EXCEPT ![t] = Cardinality(subs)]
        /\ overlapped' = {u \in Thread \ {t} : pc[u] # "idle"}
        /\ raced' = (raced \/ overlapped' # {})
        /\ UNCHANGED <<mutexInit, conn, subs, dispatching, advisory, listening, op,
                       calls, refused, halfClosed>>
    BY DEF BrokerInv, CloseCleanup
  <1>2. "close" \in OwnPc /\ next \in OwnPc /\ next \in ClosePc
    BY DEF OwnPc, ClosePc
  <1>3. pc' \in [Thread -> Place] /\ Closing' /\ t \in Thread
    <2> HIDE DEF next
    <2> QED BY <1>1, <1>2, ManagerMoves
  <1>4. mutex' \in MutexType /\ OwnerInv'
    BY <1>1, <1>3, SectionFrees
  <1>5. Cardinality(subs) \in Nat /\ (subs # {} => Cardinality(subs) >= 1)
    <2>1. IsFiniteSet(subs)
      BY DEF BrokerInv
    <2>2. Cardinality(subs) \in Nat /\ (Cardinality(subs) = 0 <=> subs = {})
      BY <2>1, FS_CardinalityType, FS_EmptySet
    <2> QED BY <2>2
  <1>6. left' \in [Thread -> Nat] /\ left'[t] = Cardinality(subs)
    BY <1>1, <1>3, <1>5 DEF TypeOK
  <1>7. TypeOK'
    <2>1. entries' \in TableState /\ (entries' # "alive" => subs' = {})
      BY <1>1 DEF TypeOK, TableState
    <2>2. objects' \in TableState /\ overlapped' \subseteq Thread
      BY <1>1 DEF TableState
    <2>3. raced' \in BOOLEAN
      BY <1>1 DEF TypeOK
    <2> QED BY <1>1, <1>3, <1>4, <1>6, <2>1, <2>2, <2>3 DEF TypeOK, Place, MutexType
  <1>8. StageInv'
    <2>1. /\ next = "cancel" => left'[t] >= 1
          /\ next \in {"destroy", "end"} => entries' # "alive"
          /\ next # "end"
      BY <1>1, <1>5, <1>6
    <2> HIDE DEF next
    <2> QED BY <1>1, <1>2, <2>1, StageOf
  <1>9. CallInv'
    <2>1. \A u \in Thread \ {t} : pc[u] # "idle" => u \in overlapped'
      BY <1>1
    <2> HIDE DEF next
    <2> QED BY <1>1, <1>2, <2>1, CallsKept
  <1>10. IsFiniteSet(subs)' /\ InStep'
    BY <1>1, <1>3 DEF BrokerInv, InStep
  <1> QED BY <1>4, <1>7, <1>8, <1>9, <1>10 DEF BrokerInv

LEMMA CloseCancelStep ==
  ASSUME BrokerInv, NEW t \in Manager, CloseCancel(t)
  PROVE  BrokerInv'
  <1> DEFINE next == IF left[t] = 1 THEN "finish" ELSE "cancel"
  <1>1. /\ TypeOK /\ Goto(t, "cancel", next) /\ left' = [left EXCEPT ![t] = @ - 1]
        /\ UNCHANGED <<mutex, mutexInit, conn, objects, entries, subs, dispatching, advisory,
                       listening, op, calls, refused, overlapped, raced, halfClosed>>
    BY DEF BrokerInv, CloseCancel, connVars, historyVars
  <1>2. "cancel" \in OwnPc /\ "cancel" \in ClosePc /\ next \in OwnPc /\ next \in ClosePc
    BY DEF OwnPc, ClosePc
  <1>3. pc' \in [Thread -> Place] /\ pc[t] = "cancel" /\ Closing /\ Closing' /\ t \in Thread
    <2> HIDE DEF next
    <2> QED BY <1>1, <1>2, ManagerMoves
  <1>4. left[t] \in Nat /\ left[t] >= 1
    BY <1>1, <1>3 DEF BrokerInv, StageInv, TypeOK
  <1>5. left' \in [Thread -> Nat] /\ left'[t] = left[t] - 1
    BY <1>1, <1>3, <1>4 DEF TypeOK
  <1>6. TypeOK'
    BY <1>1, <1>3, <1>5 DEF TypeOK, Place
  <1>7. StageInv'
    <2>1. (next = "cancel" => left'[t] >= 1) /\ next \notin {"destroy", "end"}
      BY <1>4, <1>5
    <2> HIDE DEF next
    <2> QED BY <1>1, <1>2, <2>1, StageOf
  <1>8. CallInv'
    <2> HIDE DEF next
    <2> QED BY <1>1, <1>2, <1>3, CallsKept
  <1>9. IsFiniteSet(subs)' /\ InStep' /\ OwnerInv'
    BY <1>1, <1>3 DEF BrokerInv, InStep, OwnerInv
  <1> QED BY <1>6, <1>7, <1>8, <1>9 DEF BrokerInv

LEMMA CloseFinishStep ==
  ASSUME BrokerInv, NEW t \in Manager, CloseFinish(t)
  PROVE  BrokerInv'
  <1>1. /\ TypeOK /\ Goto(t, "finish", "destroy") /\ Section(t) /\ entries' = "freed" /\ subs' = {}
        /\ UNCHANGED <<mutexInit, conn, objects, dispatching, advisory, listening, op,
                       left, calls, refused, overlapped, raced, halfClosed>>
    BY DEF BrokerInv, CloseFinish, historyVars
  <1>2. "finish" \in OwnPc /\ "finish" \in ClosePc /\ "destroy" \in OwnPc /\ "destroy" \in ClosePc
    BY DEF OwnPc, ClosePc
  <1>3. pc' \in [Thread -> Place] /\ Closing /\ Closing' /\ t \in Thread
    BY <1>1, <1>2, ManagerMoves
  <1>4. mutex' \in MutexType /\ OwnerInv'
    BY <1>1, <1>3, SectionFrees
  <1>5. TypeOK'
    BY <1>1, <1>3, <1>4 DEF TypeOK, Place, MutexType, TableState
  <1>6. StageInv'
    BY <1>1, <1>2, StageOf
  <1>7. CallInv'
    BY <1>1, <1>2, <1>3, CallsKept
  <1>8. IsFiniteSet(subs)' /\ InStep'
    BY <1>1, <1>3, FS_EmptySet DEF BrokerInv, InStep
  <1> QED BY <1>4, <1>5, <1>6, <1>7, <1>8 DEF BrokerInv

LEMMA CloseDestroyStep ==
  ASSUME BrokerInv, NEW t \in Manager, CloseDestroy(t) \/ CloseDestroyFails(t)
  PROVE  BrokerInv'
  <1>1. /\ TypeOK /\ UNCHANGED <<mutex, mutexInit, objects, entries, subs, dispatching,
                       advisory, op, left, calls, refused, overlapped, raced>>
    BY DEF BrokerInv, CloseDestroy, CloseDestroyFails, connVars, historyVars
  <1>2. /\ "destroy" \in OwnPc /\ "destroy" \in ClosePc /\ "end" \in OwnPc /\ "end" \in ClosePc
        /\ "idle" \notin ClosePc
    BY DEF OwnPc, ClosePc
  <1>3. CASE CloseDestroy(t)
    <2>1. /\ Goto(t, "destroy", "end") /\ conn' = "dead" /\ listening' = {}
          /\ halfClosed' = halfClosed
      BY <1>3 DEF CloseDestroy, historyVars
    <2>2. pc' \in [Thread -> Place] /\ pc[t] = "destroy" /\ Closing /\ Closing' /\ t \in Thread
      BY <1>2, <2>1, ManagerMoves
    <2>3. entries # "alive"
      BY <2>2 DEF BrokerInv, StageInv
    <2>4. TypeOK'
      BY <1>1, <2>1, <2>2 DEF TypeOK, Place
    <2>5. StageInv'
      BY <1>1, <1>2, <2>1, <2>3, StageOf
    <2>6. CallInv'
      BY <1>1, <1>2, <2>1, <2>2, CallsKept
    <2>7. IsFiniteSet(subs)' /\ InStep' /\ OwnerInv'
      BY <1>1, <2>1, <2>2 DEF BrokerInv, InStep, OwnerInv
    <2> QED BY <2>4, <2>5, <2>6, <2>7 DEF BrokerInv
  <1>4. CASE CloseDestroyFails(t)
    <2>1. Goto(t, "destroy", "idle") /\ halfClosed' = TRUE /\ UNCHANGED <<conn, listening>>
      BY <1>4 DEF CloseDestroyFails, connVars
    <2>2. pc' \in [Thread -> Place] /\ Closing /\ ~Closing' /\ t \in Thread
      BY <1>2, <2>1, ManagerMoves
    <2>3. TypeOK'
      BY <1>1, <2>1, <2>2 DEF TypeOK, Place
    <2>4. StageInv'
      BY <1>1, <1>2, <2>1, StageOf
    <2>5. CallInv'
      BY <1>1, <1>2, <2>1, <2>2, CallsKept
    <2>6. IsFiniteSet(subs)' /\ InStep' /\ OwnerInv'
      BY <1>1, <2>1 DEF BrokerInv, InStep, OwnerInv
    <2> QED BY <2>3, <2>4, <2>5, <2>6 DEF BrokerInv
  <1> QED BY <1>3, <1>4

LEMMA CloseEndStep ==
  ASSUME BrokerInv, NEW t \in Manager, CloseEnd(t)
  PROVE  BrokerInv'
  <1>1. /\ TypeOK /\ Goto(t, "end", "idle") /\ conn' = "null" /\ mutexInit' = FALSE
        /\ UNCHANGED <<objects, entries, subs, dispatching, advisory, listening, op,
                       left, calls, refused, overlapped, raced, halfClosed>>
    BY DEF BrokerInv, CloseEnd, historyVars
  <1>2. "end" \in OwnPc /\ "end" \in ClosePc /\ "idle" \notin ClosePc
    BY DEF OwnPc, ClosePc
  <1>3. pc' \in [Thread -> Place] /\ pc[t] = "end" /\ Closing /\ ~Closing' /\ t \in Thread
    BY <1>1, <1>2, ManagerMoves
  <1>4. conn = "dead" /\ entries # "alive"
    BY <1>3 DEF BrokerInv, StageInv
  <1>5. mutex' \in MutexType /\ OwnerInv'
    <2>1. PICK m \in MutexType : m = Unlocked(mutex, t) /\ (m.owner = mutex.owner \/ m.owner = NoThread)
                                 /\ m.kind = mutex.kind
      <3>1. mutex \in MutexType
        BY <1>1 DEF TypeOK, MutexType
      <3>2. Unlocked(mutex, t) = mutex \/ Unlocked(mutex, t) = [mutex EXCEPT !.owner = NoThread]
        BY DEF Unlocked
      <3>3. /\ [mutex EXCEPT !.owner = NoThread] \in MutexType
            /\ [mutex EXCEPT !.owner = NoThread].owner = NoThread
            /\ [mutex EXCEPT !.owner = NoThread].kind = mutex.kind
        BY <3>1 DEF MutexType
      <3> QED BY <3>1, <3>2, <3>3
    <2>2. mutex' = IF m.owner = NoThread THEN [m EXCEPT !.kind = "destroyed"] ELSE m
      BY <2>1 DEF CloseEnd
    <2>3. CASE m.owner = NoThread
      <3>1. mutex' \in MutexType /\ mutex'.owner = NoThread
        BY <2>2, <2>3 DEF MutexType
      <3> QED BY <3>1 DEF OwnerInv
    <2>4. CASE m.owner # NoThread
      BY <1>1, <2>1, <2>2, <2>4 DEF BrokerInv, OwnerInv
    <2> QED BY <2>3, <2>4
  <1>6. TypeOK'
    BY <1>1, <1>3, <1>4, <1>5 DEF TypeOK, Place, MutexType
  <1>7. StageInv'
    BY <1>1, <1>2, StageOf
  <1>8. CallInv'
    BY <1>1, <1>2, <1>3, CallsKept
  <1>9. IsFiniteSet(subs)' /\ InStep'
    BY <1>1, <1>4 DEF BrokerInv, InStep
  <1> QED BY <1>5, <1>6, <1>7, <1>8, <1>9 DEF BrokerInv

(***************************************************************************)
(* The other threads.                                                      *)
(***************************************************************************)

(* They neither open nor close. *)
LEMMA UserMoves ==
  ASSUME BrokerInv, NEW t \in Thread, pc[t] \in {"idle", "section"},
         pc'[t] \in {"idle", "section"}, \A u \in Thread \ {t} : pc'[u] = pc[u],
         UNCHANGED <<conn, entries, left>>
  PROVE  (Closing' <=> Closing) /\ StageInv'
  <1>1. Closing' <=> Closing
    BY DEF Closing
  <1>2. StageInv'
    <2> SUFFICES ASSUME NEW u \in Thread
                 PROVE  /\ pc'[u] \in OwnPc => u \in Manager
                        /\ pc'[u] = "cancel" => left'[u] >= 1
                        /\ pc'[u] \in {"destroy", "end"} => entries' # "alive"
                        /\ pc'[u] = "end" => conn' = "dead"
      BY DEF StageInv, OwnPc, ClosePc
    <2>1. CASE u = t
      BY <2>1 DEF OwnPc, ClosePc
    <2>2. CASE u # t
      BY <2>2 DEF BrokerInv, StageInv, OwnPc, ClosePc
    <2> QED BY <2>1, <2>2
  <1> QED BY <1>1, <1>2

LEMMA UseBeginStep ==
  ASSUME BrokerInv, NEW t \in Thread, NEW o \in UserOp, UseBegin(t, o)
  PROVE  BrokerInv'
  <1>1. /\ TypeOK /\ (o \in CheckedOp => conn # "null") /\ Begin(t, "section") /\ pc[t] = "idle"
        /\ op' = [op EXCEPT ![t] = o]
        /\ overlapped' = (IF Closing THEN overlapped \cup {t} ELSE overlapped \ {t})
        /\ raced' = (raced \/ Closing)
        /\ UNCHANGED <<mutex, mutexInit, conn, objects, entries, subs, dispatching, advisory,
                       listening, left, refused, halfClosed>>
    BY DEF BrokerInv, UseBegin, Begin, connVars
  <1>2. /\ pc' \in [Thread -> Place] /\ pc'[t] = "section"
        /\ \A u \in Thread \ {t} : pc'[u] = pc[u]
    <2>1. "section" \in Place
      BY DEF Place
    <2> QED BY <1>1, <2>1, Moves
  <1>3. (Closing' <=> Closing) /\ StageInv'
    BY <1>1, <1>2, UserMoves
  <1>4. TypeOK'
    <2>1. calls' \in [Thread -> 0 .. MaxCalls]
      BY <1>1, Counts
    <2>2. op' \in [Thread -> UserOp \cup {"none"}] /\ overlapped' \subseteq Thread
      BY <1>1 DEF TypeOK
    <2>3. raced' \in BOOLEAN
      BY <1>1 DEF TypeOK, Closing
    <2> QED BY <1>1, <1>2, <2>1, <2>2, <2>3 DEF TypeOK, Place
  <1>5. CallInv'
    <2> SUFFICES ASSUME NEW u \in Thread, pc'[u] = "section", op'[u] \in CheckedOp,
                        u \notin overlapped'
                 PROVE  conn' # "null" /\ ~Closing'
      BY DEF CallInv
    <2>1. CASE u = t
      <3>1. op'[t] = o
        BY <1>1 DEF TypeOK
      <3> QED BY <1>1, <1>3, <2>1, <3>1
    <2>2. CASE u # t
      <3>1. pc[u] = "section" /\ op[u] \in CheckedOp /\ u \notin overlapped
        BY <1>1, <1>2, <2>2 DEF TypeOK
      <3> QED BY <1>1, <1>3, <3>1 DEF BrokerInv, CallInv
    <2> QED BY <2>1, <2>2
  <1>6. IsFiniteSet(subs)' /\ OwnerInv' /\ InStep'
    BY <1>1, <1>3 DEF BrokerInv, OwnerInv, InStep
  <1> QED BY <1>3, <1>4, <1>5, <1>6 DEF BrokerInv

LEMMA UseStep ==
  ASSUME BrokerInv, NEW t \in Thread, UserStep(t)
  PROVE  BrokerInv'
  <1>1. PICK o \in UserOp : Use(t, o)
    BY DEF UserStep, UseObjects, UseAdvise, UseUnadvise, UseSubscribe, UseUnsubscribe,
           UserOp, CheckedOp
  <1>2. /\ TypeOK /\ Goto(t, "section", "idle") /\ pc[t] = "section" /\ Section(t)
        /\ op' = [op EXCEPT ![t] = "none"]
        /\ UNCHANGED <<mutexInit, conn, objects, entries, left, calls,
                       refused, overlapped, raced, halfClosed>>
    BY <1>1 DEF BrokerInv, Use, Goto, historyVars
  <1>3. /\ pc' \in [Thread -> Place] /\ pc'[t] = "idle"
        /\ \A u \in Thread \ {t} : pc'[u] = pc[u]
    <2>1. "section" \in Place /\ "idle" \in Place
      BY DEF Place
    <2> QED BY <1>2, <2>1, Moves
  <1>4. (Closing' <=> Closing) /\ StageInv'
    BY <1>2, <1>3, UserMoves
  <1>5. mutex' \in MutexType /\ OwnerInv'
    BY <1>2, SectionFrees
  <1> DEFINE ContentsOK ==
                /\ subs' \subseteq Event /\ IsFiniteSet(subs') /\ (entries # "alive" => subs' = {})
                /\ dispatching' \in BOOLEAN /\ advisory' \in BOOLEAN
                /\ listening' \subseteq {"default", "advisory"}
                /\ (conn # "open" => listening' = {})
  <1>6. ContentsOK
    <2>1. subs \subseteq Event /\ IsFiniteSet(subs) /\ (entries # "alive" => subs = {})
          /\ dispatching \in BOOLEAN /\ advisory \in BOOLEAN
          /\ listening \subseteq {"default", "advisory"} /\ (conn # "open" => listening = {})
      BY DEF BrokerInv, TypeOK
    <2>2. CASE UseObjects(t)
      BY <2>1, <2>2 DEF UseObjects
    <2>3. CASE UseAdvise(t)
      BY <2>1, <2>3 DEF UseAdvise
    <2>4. CASE UseUnadvise(t)
      BY <2>1, <2>4 DEF UseUnadvise
    <2>5. ASSUME NEW e \in Event, UseSubscribe(t, e)
          PROVE  ContentsOK
      <3>1. IsFiniteSet(subs \cup {e})
        BY <2>1, FS_AddElement
      <3>2. subs' = subs \/ (subs' = subs \cup {e} /\ entries = "alive")
        BY <2>5 DEF UseSubscribe
      <3>3. /\ dispatching' = TRUE /\ advisory' = advisory
            /\ listening' = listening \/ (listening' = listening \cup {"default"} /\ conn = "open")
        BY <2>5 DEF UseSubscribe
      <3> QED BY <2>1, <3>1, <3>2, <3>3
    <2>6. ASSUME NEW e \in Event, UseUnsubscribe(t, e)
          PROVE  ContentsOK
      <3>1. IsFiniteSet(subs \ {e})
        BY <2>1, FS_RemoveElement
      <3> QED BY <2>1, <2>6, <3>1 DEF UseUnsubscribe
    <2> QED BY <2>2, <2>3, <2>4, <2>5, <2>6 DEF UserStep
  <1>7. TypeOK'
    <2>1. op' \in [Thread -> UserOp \cup {"none"}]
      BY <1>2 DEF TypeOK
    <2> QED BY <1>2, <1>3, <1>5, <1>6, <2>1 DEF TypeOK, Place, MutexType
  <1>8. CallInv'
    <2>1. \A u \in Thread : pc'[u] = "section" => u # t /\ pc[u] = "section" /\ op'[u] = op[u]
      BY <1>2, <1>3 DEF TypeOK
    <2> QED BY <1>2, <1>4, <2>1 DEF BrokerInv, CallInv
  <1>9. InStep'
    BY <1>2, <1>4 DEF BrokerInv, InStep
  <1> QED BY <1>4, <1>5, <1>6, <1>7, <1>8, <1>9 DEF BrokerInv

(***************************************************************************)
(* The theorems.                                                           *)
(***************************************************************************)

LEMMA BrokerStep ==
  ASSUME BrokerInv, [Next]_vars
  PROVE  BrokerInv'
  <1>1. CASE UNCHANGED vars
    <2>1. UNCHANGED <<mutex, mutexInit, conn, objects, entries, subs, dispatching, advisory,
                      listening, pc, op, left, calls, refused, overlapped, raced, halfClosed>>
      BY <1>1 DEF vars, connVars, historyVars
    <2>2. TypeOK' /\ IsFiniteSet(subs)' /\ OwnerInv'
      BY <2>1 DEF BrokerInv, TypeOK, OwnerInv
    <2>3. StageInv' /\ (Closing' <=> Closing)
      BY <2>1 DEF BrokerInv, StageInv, Closing
    <2>4. InStep' /\ CallInv'
      BY <2>1, <2>3 DEF BrokerInv, InStep, CallInv
    <2> QED BY <2>2, <2>3, <2>4 DEF BrokerInv
  <1>2. ASSUME NEW t \in Manager, OpenBegin(t) \/ CloseBegin(t) \/ ManagerStep(t)
        PROVE  BrokerInv'
    BY <1>2, ManagerBeginStep, OpenInitMutexStep, OpenStep, CloseRefusedStep, CloseCleanupStep,
       CloseCancelStep, CloseFinishStep, CloseDestroyStep, CloseEndStep DEF ManagerStep
  <1>3. ASSUME NEW t \in User \cup {Dispatcher},
               (\E o \in UserOp : UseBegin(t, o)) \/ UserStep(t)
        PROVE  BrokerInv'
    <2>1. t \in Thread
      BY DEF Thread
    <2> QED BY <1>3, <2>1, UseBeginStep, UseStep
  <1> QED BY <1>1, <1>2, <1>3 DEF Next

(* The inductive invariant: g_mutex, g_connection and the two tables fit to *)
(* where an open or a close is, whatever the other threads call meanwhile.  *)
THEOREM BrokerInvariant == Spec => []BrokerInv
  <1>1. Init => BrokerInv
    BY BrokerInit
  <1>2. BrokerInv /\ [Next]_vars => BrokerInv'
    BY BrokerStep
  <1> QED BY <1>1, <1>2, PTL DEF Spec

(* The state keeps its type: perform_cleanup cancels as many subscriptions  *)
(* as there were and no more, a freed table has no contents, and a          *)
(* connection that is gone has no listeners.                                *)
THEOREM BrokerTypeCorrect == Spec => []TypeOK
  <1>1. BrokerInv => TypeOK
    BY DEF BrokerInv
  <1> QED BY <1>1, BrokerInvariant, PTL

(* No call but a refused close returns with g_mutex, although               *)
(* perform_cleanup takes and releases it inside its caller's section.       *)
THEOREM BrokerMutexReturned == Spec => []MutexIsReturned
  <1>1. ASSUME BrokerInv PROVE MutexIsReturned
    <2>1. \A t \in Thread : t # NoThread
      BY ThreadAssumption DEF Thread
    <2> QED BY <1>1, <2>1 DEF BrokerInv, OwnerInv, MutexIsReturned
  <1> QED BY <1>1, BrokerInvariant, PTL

(* A call that found a connection, and that no close overlaps, works on     *)
(* tables that exist.                                                       *)
THEOREM BrokerTablesExist == Spec => []TablesExist
  <1>1. BrokerInv => TablesExist
    BY DEF BrokerInv, CallInv, InStep, TablesExist
  <1> QED BY <1>1, BrokerInvariant, PTL

=============================================================================
