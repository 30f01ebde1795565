--------------------------- MODULE DiscoveryProof ---------------------------
(* Proofs about Discovery, for any names and any size of an answer.         *)
EXTENDS Discovery, SequenceTheorems, TLAPS

(* The call that is under way has asked about elements it has not decoded,  *)
(* has not failed and has returned nothing; the array is there from the     *)
(* first allocation on.                                                     *)
UnderWay ==
    /\ pc # "done" => ret = "none" /\ ~fault
    /\ pc = "sent" => elem = 0 /\ answer = None /\ array = <<>> /\ mem = "none"
    /\ pc \in {"alloc", "fill"} => elem < n
    /\ pc = "alloc" => IF elem = 0 THEN array = <<>> /\ mem = "none" ELSE mem = "alive"
    /\ pc = "fill" => mem = "alive" /\ item <= Turns
    /\ fn # "elements" => n = 1
    /\ pc = "done" => ret # "none"

(* More items than the count they came with. *)
Overrun == Mismatch /\ Len(answer.items) > answer.count

(* What is written is within the array, and while it is filled there is     *)
(* room for the items of this element that are still to come.               *)
RoomLeft ==
    /\ fn = "elements" => touched = Len(array)
    /\ touched <= room \/ Overrun
    /\ pc = "fill" => Overrun \/ Len(array) + (Turns - item) <= room

(* What *count holds while the call is under way. *)
Counted ==
    /\ fn = "elements" /\ pc # "done" => told = 0
    /\ fn # "elements" /\ pc = "sent" => told = -1
    /\ fn # "elements" /\ pc = "fill" => told = answer.count /\ Len(array) = item

(* An answer none of whose items is left out. *)
Regular ==
    fn # "elements" \/ \A k \in 1 .. Len(answer.items) : answer.items[k] # NoName

(* How many items of a regular answer the call has gone through. *)
Seen == IF pc = "fill" THEN elem * answer.count + item ELSE elem * answer.count

(* The array is what was gone through of a regular answer, all of it when   *)
(* the call returns without a failure.                                      *)
CopiedSoFar ==
    Regular =>
        /\ pc # "done" => Len(array) = Seen
        /\ pc = "done" /\ ret = "success" /\ ~fault /\ ~Mismatch
               => Len(array) = n * answer.count
        /\ \A k \in 1 .. Len(array) : k <= Len(answer.items) /\ array[k] = answer.items[k]

(* The inductive invariant. *)
DiscoveryInv ==
    /\ TypeOK /\ UnderWay /\ RoomLeft /\ Counted /\ CopiedSoFar
    /\ CountIsTheNames /\ ErrorFreesAll

-----------------------------------------------------------------------------
(* What an answer can hold are the sequences of at most MaxItems names.     *)
LEMMA ItemsAreSequences ==
  \A s : s \in Items <=> s \in Seq(Name \cup {NoName}) /\ Len(s) <= MaxItems
  <1>1. ASSUME NEW s \in Items
        PROVE  s \in Seq(Name \cup {NoName}) /\ Len(s) <= MaxItems
    <2>1. PICK k \in 0 .. MaxItems : s \in [1 .. k -> Name \cup {NoName}]
      BY <1>1 DEF Items
    <2> QED BY <2>1, DiscoveryAssumption
  <1>2. ASSUME NEW s \in Seq(Name \cup {NoName}), Len(s) <= MaxItems
        PROVE  s \in Items
    <2>1. Len(s) \in 0 .. MaxItems /\ s \in [1 .. Len(s) -> Name \cup {NoName}]
      BY <1>2, DiscoveryAssumption
    <2> QED BY <2>1 DEF Items
  <1> QED BY <1>1, <1>2

(* The types the steps below compute with. *)
LEMMA DiscoveryTypes ==
  ASSUME TypeOK
  PROVE  /\ answer.items \in Seq(Name \cup {NoName}) /\ Len(answer.items) \in 0 .. MaxItems
         /\ answer.count \in 0 .. MaxItems /\ Turns \in 0 .. MaxItems
         /\ array \in Seq(Name \cup {NoName}) /\ Len(array) \in 0 .. MaxItems
         /\ MaxItems \in Nat /\ elem \in Nat /\ item \in Nat /\ n \in Nat /\ room \in Nat
         /\ touched \in Nat
  <1>1. /\ answer.items \in Seq(Name \cup {NoName}) /\ Len(answer.items) \in 0 .. MaxItems
        /\ answer.count \in 0 .. MaxItems
    BY ItemsAreSequences, DiscoveryAssumption DEF TypeOK, Answer
  <1>2. array \in Seq(Name \cup {NoName}) /\ Len(array) \in 0 .. MaxItems
    BY ItemsAreSequences, DiscoveryAssumption DEF TypeOK
  <1> QED BY <1>1, <1>2, DiscoveryAssumption DEF TypeOK, Turns

(* An empty answer is an answer. *)
LEMMA NoneType == None \in Answer /\ <<>> \in Items
  <1>1. <<>> \in Seq(Name \cup {NoName}) /\ Len(<<>>) = 0 /\ 0 <= MaxItems
    BY DiscoveryAssumption
  <1>2. <<>> \in Seq(Name \cup {NoName}) /\ Len(<<>>) <= MaxItems
    BY <1>1
  <1>3. <<>> \in Items
    BY <1>2, ItemsAreSequences, Zenon
  <1>4. 0 \in 0 .. MaxItems
    BY DiscoveryAssumption
  <1> QED BY <1>3, <1>4 DEF None, Answer

(* Multiples, which count the items of several elements. *)
LEMMA Multiples ==
  ASSUME NEW a \in Nat, NEW b \in Nat
  PROVE  a * b \in Nat /\ (a + 1) * b = a * b + b /\ 1 * b = b /\ 0 * b = 0
  OBVIOUS

(* Before the answer nothing is decoded. *)
LEMMA InitDiscovery == Init => DiscoveryInv
  <1> SUFFICES ASSUME Init PROVE DiscoveryInv
    OBVIOUS
  <1>1. TypeOK
    <2>1. n \in 0 .. MaxElements
      BY DiscoveryAssumption DEF Init
    <2>2. 0 \in 0 .. MaxElements /\ 0 \in 0 .. MaxItems /\ 0 \in 0 .. 2 * MaxItems
          /\ 0 \in -1 .. MaxItems /\ -1 \in -1 .. MaxItems
      BY DiscoveryAssumption
    <2> QED BY <2>1, <2>2, NoneType DEF Init, TypeOK
  <1>2. UnderWay /\ RoomLeft /\ Counted /\ CountIsTheNames /\ ErrorFreesAll
    BY DEF Init, UnderWay, RoomLeft, Counted, CountIsTheNames, ErrorFreesAll
  <1>3. CopiedSoFar
    BY DEF Init, CopiedSoFar, Seen, None
  <1> QED BY <1>1, <1>2, <1>3 DEF DiscoveryInv

(* A request that fails leaves nothing behind. *)
LEMMA RequestFailsStep ==
  ASSUME DiscoveryInv, RequestFails
  PROVE  DiscoveryInv'
  <1> USE DEF RequestFails, Return
  <1>1. TypeOK'
    BY DEF DiscoveryInv, TypeOK
  <1>2. UnderWay' /\ RoomLeft' /\ Counted'
    BY DEF DiscoveryInv, UnderWay, RoomLeft, Counted, Overrun, Mismatch
  <1>3. CountIsTheNames' /\ ErrorFreesAll'
    BY DEF DiscoveryInv, UnderWay, CountIsTheNames, ErrorFreesAll
  <1>4. CopiedSoFar'
    BY DEF DiscoveryInv, UnderWay, CopiedSoFar, Regular
  <1> QED BY <1>1, <1>2, <1>3, <1>4 DEF DiscoveryInv

(* An answer is decoded from its first item. *)
LEMMA ReceiveAnswerStep ==
  ASSUME DiscoveryInv, ReceiveAnswer
  PROVE  DiscoveryInv'
  <1> USE DEF ReceiveAnswer, Return
  <1>1. TypeOK /\ UnderWay /\ pc = "sent"
    BY DEF DiscoveryInv
  <1>2. TypeOK'
    BY <1>1 DEF TypeOK
  <1>3. /\ elem' = 0 /\ array' = <<>> /\ Len(array') = 0 /\ mem' = "none"
        /\ answer'.count \in Nat /\ n' \in Nat /\ ~fault'
        /\ answer'.items \in Seq(Name \cup {NoName})
    BY <1>1, <1>2, ItemsAreSequences DEF UnderWay, TypeOK, Answer
  <1>4. pc' = "done" =>
           \/ fn = "elements" /\ n = 0
           \/ fn = "wildcard" /\ answer'.count = 0
           \/ Mismatch'
    <2>1. answer'.items = <<>> => Len(answer'.items) = 0
      BY <1>3
    <2> QED BY <1>1, <1>3, <2>1 DEF Mismatch, Loose
  <1>5. UnderWay' /\ Counted'
    BY <1>1, <1>2, <1>4, DiscoveryTypes DEF DiscoveryInv, UnderWay, Counted
  <1>6. RoomLeft'
    <2>1. touched <= room /\ (fn = "elements" => touched = Len(array))
      BY <1>1 DEF DiscoveryInv, RoomLeft, Overrun, Mismatch, UnderWay, None
    <2> QED BY <2>1 DEF RoomLeft
  <1>7. CountIsTheNames' /\ ErrorFreesAll'
    <2>1. fn = "elements" => told' = 0
      BY <1>1 DEF DiscoveryInv, Counted
    <2>2. fn = "wildcard" => told' = -1
      BY <1>1 DEF DiscoveryInv, Counted
    <2>3. CountIsTheNames'
      BY <1>3, <1>4, <2>1, <2>2 DEF CountIsTheNames, Mismatch
    <2> QED BY <1>1, <1>3, <2>3 DEF UnderWay, ErrorFreesAll
  <1>8. CopiedSoFar'
    <2>1. 0 * answer'.count = 0 /\ n' * answer'.count \in Nat
      BY <1>3
    <2>2. Seen' = 0
      BY <1>3, <2>1 DEF Seen
    <2>3. pc' = "done" /\ ~Mismatch' => n' * answer'.count = 0
      BY <1>1, <1>3, <1>4 DEF UnderWay
    <2> QED BY <1>3, <2>2, <2>3 DEF CopiedSoFar
  <1> QED BY <1>2, <1>5, <1>6, <1>7, <1>8 DEF DiscoveryInv

(* The array grows by the items to come, and keeps its names. *)
LEMMA AllocateStep ==
  ASSUME DiscoveryInv, Allocate
  PROVE  DiscoveryInv'
  <1> USE DEF Allocate, Grow, CountTold
  <1>1. TypeOK /\ UnderWay /\ RoomLeft /\ Counted /\ Turns' = Turns
    BY DEF DiscoveryInv, Turns
  <1>2. fn # "elements" => Len(array) = 0
    <2>1. fn # "elements" => array = <<>>
      BY <1>1, DiscoveryTypes DEF UnderWay
    <2> QED BY <2>1
  <1>3. TypeOK'
    <2>1. room' \in 0 .. 2 * MaxItems /\ 0 \in 0 .. MaxItems
      BY <1>1, DiscoveryTypes
    <2>2. touched' \in 0 .. MaxItems /\ told' \in -1 .. MaxItems
      BY <1>1, DiscoveryTypes DEF TypeOK
    <2> QED BY <1>1, <2>1, <2>2 DEF TypeOK
  <1>4. UnderWay'
    BY <1>1, DiscoveryTypes DEF UnderWay
  <1>5. RoomLeft'
    <2>1. Turns <= answer.count \/ Overrun
      BY <1>1, DiscoveryTypes DEF Turns, Overrun, Mismatch
    <2>2. Overrun' = Overrun
      BY DEF Overrun, Mismatch
    <2>3. touched' <= room' \/ Overrun
      BY <1>1, <1>2, <2>1, DiscoveryTypes DEF RoomLeft
    <2>4. Overrun \/ Len(array') + (Turns' - item') <= room'
      BY <1>1, <1>2, <2>1, DiscoveryTypes
    <2> QED BY <1>1, <2>2, <2>3, <2>4 DEF RoomLeft
  <1>6. Counted' /\ CountIsTheNames' /\ ErrorFreesAll'
    BY <1>1, <1>2 DEF Counted, CountIsTheNames, ErrorFreesAll
  <1>7. CopiedSoFar'
    <2>1. elem * answer.count \in Nat
      BY <1>1, DiscoveryTypes, Multiples
    <2>2. Seen' = Seen
      BY <2>1 DEF Seen
    <2> QED BY <1>1, <2>2 DEF DiscoveryInv, CopiedSoFar, Regular
  <1> QED BY <1>3, <1>4, <1>5, <1>6, <1>7 DEF DiscoveryInv

(* A failure in the decoding frees the array. *)
LEMMA FailureStep ==
  ASSUME DiscoveryInv, AllocationFails \/ ReallocToNothing \/ CopyFails
  PROVE  DiscoveryInv'
  <1>1. TypeOK /\ UnderWay
    BY DEF DiscoveryInv
  <1>2. /\ pc' = "done" /\ ret' = Outcome(fn) /\ fault' = TRUE
        /\ mem' = Freed \/ (mem' = "twice" /\ pc = "alloc" /\ mem = "alive" /\ Grow = 0)
        /\ told' = told \/ told' = answer.count
        /\ fn = "elements" => told' = told
        /\ UNCHANGED <<fn, n, answer, elem, item, array, room, touched>>
        /\ pc \in {"alloc", "fill"}
    BY DEF AllocationFails, ReallocToNothing, CopyFails, CountTold, Return
  <1>3. TypeOK'
    <2>1. told' \in -1 .. MaxItems
      BY <1>1, <1>2, DiscoveryTypes DEF TypeOK
    <2> QED BY <1>1, <1>2, <2>1 DEF TypeOK, Outcome, Freed
  <1>4. UnderWay' /\ RoomLeft' /\ Counted'
    BY <1>1, <1>2 DEF DiscoveryInv, UnderWay, RoomLeft, Overrun, Mismatch, Counted, Outcome
  <1>5. CountIsTheNames'
    BY <1>2 DEF CountIsTheNames, Outcome
  <1>6. ErrorFreesAll'
    <2>1. mem \in {"none", "alive"}
      BY <1>1, <1>2 DEF UnderWay
    <2>2. mem' = "twice" => fn = "elements" /\ n > 1 /\ answer.count = 0
      BY <1>1, <1>2, <2>1, DiscoveryTypes DEF UnderWay, Freed, Grow
    <2>3. mem' # "alive"
      BY <1>2, <2>1 DEF Freed
    <2> QED BY <1>2, <2>2, <2>3 DEF ErrorFreesAll
  <1>7. CopiedSoFar'
    BY <1>2 DEF DiscoveryInv, CopiedSoFar, Regular
  <1> QED BY <1>3, <1>4, <1>5, <1>6, <1>7 DEF DiscoveryInv

(* One more item: there is room for it, and it is the next of the answer.   *)
LEMMA CopyItemStep ==
  ASSUME DiscoveryInv, CopyItem
  PROVE  DiscoveryInv'
  <1> DEFINE name == answer.items[NextItem]
  <1>1. TypeOK /\ UnderWay /\ RoomLeft /\ Counted
    BY DEF DiscoveryInv
  <1>2. /\ pc = "fill" /\ item < Turns /\ item' = item + 1
        /\ NextItem \in 1 .. Len(answer.items) /\ name \in Name \cup {NoName}
        /\ IF fn = "elements" /\ name = NoName
           THEN array' = array /\ touched' = touched
           ELSE /\ array' = Append(array, name)
                /\ touched' = IF Len(array) + 1 > touched THEN Len(array) + 1 ELSE touched
        /\ UNCHANGED <<fn, n, answer, pc, elem, room, told, mem, ret, fault>>
    BY <1>1, DiscoveryTypes DEF CopyItem, Store, NextItem
  <1>3. /\ array' \in Seq(Name \cup {NoName})
        /\ Len(array') \in Len(array) .. Len(array) + 1 /\ Len(array') <= MaxItems
        /\ fn # "elements" => Len(array') = Len(array) + 1
        /\ touched' = touched \/ touched' = Len(array')
        /\ fn = "elements" => touched' = Len(array')
    <2>1. array \in Seq(Name \cup {NoName}) /\ Len(array) \in 0 .. MaxItems
          /\ Len(array) + 1 <= MaxItems /\ MaxItems \in Nat /\ touched \in Nat
      BY <1>1, <1>2, DiscoveryTypes DEF NextItem
    <2>2. CASE fn = "elements" /\ name = NoName
      BY <1>1, <1>2, <2>1, <2>2 DEF RoomLeft
    <2>3. CASE ~(fn = "elements" /\ name = NoName)
      <3> HIDE DEF name
      <3>1. /\ array' = Append(array, name)
            /\ touched' = IF Len(array) + 1 > touched THEN Len(array) + 1 ELSE touched
        BY <1>2, <2>3 DEF name
      <3>2. array' \in Seq(Name \cup {NoName}) /\ Len(array') = Len(array) + 1
        BY <1>2, <2>1, <3>1
      <3>3. fn = "elements" => touched = Len(array)
        BY <1>1 DEF RoomLeft
      <3> QED BY <2>1, <3>1, <3>2, <3>3
    <2> QED BY <2>2, <2>3
  <1>4. TypeOK'
    <2>1. array' \in Items
      BY <1>3, ItemsAreSequences
    <2>2. item' \in 0 .. MaxItems
      BY <1>1, <1>2, DiscoveryTypes
    <2>3. touched' \in 0 .. MaxItems
      BY <1>1, <1>3, DiscoveryTypes DEF TypeOK
    <2> QED BY <1>1, <1>2, <2>1, <2>2, <2>3 DEF TypeOK
  <1>5. UnderWay' /\ RoomLeft'
    <2>1. Turns' = Turns /\ Overrun' = Overrun
      BY <1>2 DEF Turns, Overrun, Mismatch
    <2>2. Overrun \/ Len(array') + (Turns - item') <= room
      BY <1>1, <1>2, <1>3, DiscoveryTypes DEF RoomLeft
    <2>3. item' <= Turns
      BY <1>1, <1>2, DiscoveryTypes
    <2>4. touched' <= room \/ Overrun
      <3>1. touched <= room \/ Overrun
        BY <1>1 DEF RoomLeft
      <3>2. Len(array') \in Nat /\ item' \in Nat /\ Turns \in Nat /\ room \in Nat
        BY <1>1, <1>2, <1>3, DiscoveryTypes
      <3> QED BY <1>3, <2>2, <2>3, <3>1, <3>2
    <2> QED BY <1>1, <1>2, <1>3, <2>1, <2>2, <2>3, <2>4 DEF UnderWay, RoomLeft
  <1>6. Counted' /\ CountIsTheNames' /\ ErrorFreesAll'
    BY <1>1, <1>2, <1>3 DEF Counted, CountIsTheNames, ErrorFreesAll
  <1>7. CopiedSoFar'
    <2> SUFFICES ASSUME Regular PROVE CopiedSoFar'
      BY <1>2 DEF CopiedSoFar, Regular
    <2>1. array' = Append(array, name)
      BY <1>2 DEF Regular
    <2>2. /\ Len(array') = Len(array) + 1
          /\ \A k \in 1 .. Len(array) : array'[k] = array[k]
          /\ array'[Len(array) + 1] = name
      BY <1>1, <1>2, <2>1, DiscoveryTypes
    <2>3. elem * answer.count \in Nat
      BY <1>1, DiscoveryTypes, Multiples
    <2>4. Len(array') = Seen'
      <3> DEFINE before == elem * answer.count
      <3>1. Len(array) = before + item
        BY <1>2 DEF DiscoveryInv, CopiedSoFar, Seen
      <3>2. Seen' = before + (item + 1)
        BY <1>2 DEF Seen
      <3> HIDE DEF before
      <3>3. before \in Nat
        BY <2>3 DEF before
      <3> QED BY <1>1, <2>2, <3>1, <3>2, <3>3, DiscoveryTypes
    <2>5. ASSUME NEW k \in 1 .. Len(array')
          PROVE  k <= Len(answer.items) /\ array'[k] = answer.items[k]
      <3>1. k \in 1 .. Len(array) \/ k = Len(array) + 1
        BY <1>1, <2>2, <2>5, DiscoveryTypes
      <3> QED BY <1>1, <1>2, <2>2, <3>1 DEF DiscoveryInv, CopiedSoFar, NextItem
    <2> QED BY <1>2, <2>4, <2>5 DEF CopiedSoFar
  <1> QED BY <1>4, <1>5, <1>6, <1>7 DEF DiscoveryInv

(* After the last element the call returns what it collected. *)
LEMMA NextElementStep ==
  ASSUME DiscoveryInv, NextElement
  PROVE  DiscoveryInv'
  <1>1. TypeOK /\ UnderWay /\ RoomLeft /\ Counted
    BY DEF DiscoveryInv
  <1>2. /\ pc = "fill" /\ item = Turns /\ elem' = elem + 1
        /\ IF elem + 1 < n THEN pc' = "alloc" /\ ret' = ret
                          ELSE pc' = "done" /\ ret' = "success"
        /\ told' = IF fn = "elements" /\ elem + 1 = n THEN Len(array) ELSE told
        /\ UNCHANGED <<fn, n, answer, item, array, room, touched, mem, fault>>
    BY DEF NextElement, Return
  <1>3. /\ pc' = "done" => elem + 1 = n
        /\ pc' = "alloc" => fn = "elements" /\ elem + 1 # n
    BY <1>1, <1>2, DiscoveryTypes DEF UnderWay
  <1>4. ~Mismatch => Turns = answer.count
    BY DEF Mismatch, Turns
  <1>5. TypeOK'
    <2>1. elem + 1 \in 0 .. MaxElements
      <3>1. elem \in Nat /\ n \in 0 .. MaxElements /\ elem < n /\ MaxElements \in Nat
        BY <1>1, <1>2, DiscoveryTypes, DiscoveryAssumption DEF TypeOK, UnderWay
      <3> QED BY <3>1
    <2>2. told' \in -1 .. MaxItems
      BY <1>1, <1>2, DiscoveryTypes DEF TypeOK
    <2> QED BY <1>1, <1>2, <2>1, <2>2 DEF TypeOK
  <1>6. UnderWay' /\ RoomLeft' /\ Counted'
    <2>1. UnderWay' /\ Counted'
      BY <1>1, <1>2, <1>3, DiscoveryTypes DEF UnderWay, Counted
    <2> QED BY <1>1, <1>2, <2>1 DEF RoomLeft, Overrun, Mismatch
  <1>7. CountIsTheNames' /\ ErrorFreesAll'
    <2>1. Mismatch' = Mismatch /\ (Mismatch => fn \in Loose)
      BY <1>2 DEF Mismatch
    <2>2. pc' = "done" => Mismatch \/ told' = Len(array')
      BY <1>1, <1>2, <1>3, <1>4 DEF Counted
    <2>3. mem' = "alive" /\ ~fault' /\ ret' # "error"
      BY <1>1, <1>2 DEF UnderWay
    <2>4. CountIsTheNames'
      BY <1>2, <2>1, <2>2, <2>3 DEF CountIsTheNames
    <2> QED BY <2>3, <2>4 DEF ErrorFreesAll
  <1>8. CopiedSoFar'
    <2>1. /\ elem * answer.count \in Nat
          /\ (elem + 1) * answer.count = elem * answer.count + answer.count
      BY <1>1, DiscoveryTypes, Multiples
    <2>2. Regular /\ ~Mismatch => Len(array) = (elem + 1) * answer.count
      BY <1>2, <1>4, <2>1 DEF DiscoveryInv, CopiedSoFar, Seen
    <2>3. pc' = "alloc" => ~Mismatch
      BY <1>3 DEF Mismatch, Loose
    <2> QED BY <1>2, <1>3, <2>2, <2>3 DEF DiscoveryInv, CopiedSoFar, Regular, Mismatch, Seen
  <1> QED BY <1>5, <1>6, <1>7, <1>8 DEF DiscoveryInv

(* The invariant of every call. *)
THEOREM DiscoveryInvariant == Spec => []DiscoveryInv
  <1>1. DiscoveryInv /\ [Next]_vars => DiscoveryInv'
    <2> SUFFICES ASSUME DiscoveryInv, [Next]_vars PROVE DiscoveryInv'
      OBVIOUS
    <2>1. CASE Step
      BY <2>1, RequestFailsStep, ReceiveAnswerStep, AllocateStep, FailureStep,
         CopyItemStep, NextElementStep DEF Step
    <2>2. CASE UNCHANGED vars
      BY <2>2 DEF vars, DiscoveryInv, TypeOK, UnderWay, RoomLeft, Overrun, Mismatch,
                  Turns, Counted, CopiedSoFar, Regular, Seen, CountIsTheNames, ErrorFreesAll
    <2> QED BY <2>1, <2>2 DEF Next, DiscoverWildcardDestinations, DiscoverObjectElements,
               DiscoverElementObjects, DiscoverElementsObjects, DiscoverRegisteredComponents
  <1> QED BY <1>1, InitDiscovery, PTL DEF Spec

(* Each decoding loop keeps its counters and its array within the answer.   *)
THEOREM DiscoveryTypeCorrect == Spec => []TypeOK
  <1>1. DiscoveryInv => TypeOK
    BY DEF DiscoveryInv
  <1> QED BY <1>1, DiscoveryInvariant, PTL

(* No function writes behind the end of its array, for any answer of the    *)
(* router and however many elements rbus_discoverElementsObjects            *)
(* reallocates it for, unless it is one of the three that allocate the      *)
(* count, and the answer has more items than that.                          *)
THEOREM DiscoveryWithinArray == Spec => []WithinArray
  <1>1. DiscoveryInv => WithinArray
    <2>1. TypeOK => touched \in Nat /\ room \in Nat
      BY DiscoveryTypes
    <2> QED BY <2>1 DEF DiscoveryInv, RoomLeft, Overrun, WithinArray
  <1> QED BY <1>1, DiscoveryInvariant, PTL

(* After a success *count is the number of names the caller has to free,    *)
(* for any answer, outside the failures and the mismatches that three of    *)
(* the functions drop.                                                      *)
THEOREM DiscoveryCount == Spec => []CountIsTheNames
  <1>1. DiscoveryInv => CountIsTheNames
    BY DEF DiscoveryInv
  <1> QED BY <1>1, DiscoveryInvariant, PTL

(* After a failure of any of the five functions no array stays allocated,   *)
(* and it was freed once, unless realloc was asked for no entries.          *)
THEOREM DiscoveryFailure == Spec => []ErrorFreesAll
  <1>1. DiscoveryInv => ErrorFreesAll
    BY DEF DiscoveryInv
  <1> QED BY <1>1, DiscoveryInvariant, PTL

(* The caller gets the first items of the answer in their order, as many    *)
(* as were counted for each element.                                        *)
THEOREM DiscoveryNamesInOrder == Spec => []NamesInOrder
  <1>1. ASSUME DiscoveryInv PROVE NamesInOrder
    <2> SUFFICES ASSUME pc = "done", ret = "success", ~fault, ~Mismatch, Regular
                 PROVE  /\ n * answer.count <= Len(answer.items)
                        /\ array = SubSeq(answer.items, 1, n * answer.count)
      BY DEF NamesInOrder, Regular
    <2>1. /\ Len(array) = n * answer.count
          /\ \A k \in 1 .. Len(array) : k <= Len(answer.items) /\ array[k] = answer.items[k]
      BY <1>1 DEF DiscoveryInv, CopiedSoFar
    <2>2. /\ array \in Seq(Name \cup {NoName}) /\ Len(array) \in Nat
          /\ answer.items \in Seq(Name \cup {NoName}) /\ Len(answer.items) \in Nat
      BY <1>1, DiscoveryTypes DEF DiscoveryInv
    <2> DEFINE front == SubSeq(answer.items, 1, Len(array))
    <2>3. Len(array) <= Len(answer.items)
      BY <2>1, <2>2
    <2>4. /\ front \in Seq(Name \cup {NoName}) /\ Len(front) = Len(array)
          /\ \A k \in 1 .. Len(array) : front[k] = answer.items[k]
      BY <2>2, <2>3
    <2>5. array = front
      BY <2>1, <2>2, <2>4, SeqEqual
    <2> QED BY <2>1, <2>3, <2>5
  <1> QED BY <1>1, DiscoveryInvariant, PTL

=============================================================================
