------------------------ MODULE ServerRegistryProof ------------------------
(* Proofs about ServerRegistry, for any number of threads, names, methods   *)
(* and addresses.                                                           *)
EXTENDS ServerRegistry, SequenceTheorems, FunctionTheorems, FiniteSetTheorems,
        WellFoundedInduction, TLAPS

(***************************************************************************)
(* The inductive invariant.                                                *)
(***************************************************************************)

(* No entry of s is there twice. *)
Injective(s) == \A i, j \in DOMAIN s : s[i] = s[j] => i = j

(* An object that rbus_registerObj has created and not yet entered belongs  *)
(* to the call.                                                             *)
Creating(t) == pc[t] \in {"add", "push"}

(* Whatever the threads do.  The methods of an object are counted, so they  *)
(* have to be finitely many.                                                *)
CallInv ==
    /\ TypeOK
    /\ \A a \in Addr : IsFiniteSet(heap[a].methods)
    /\ \A t \in Thread : pc[t] # "idle" => name[t] \in Object
    /\ \A t \in Thread : pc[t] \in {"add", "push", "second", "flag"} => ptr[t] \in Addr

AliveInv ==
    /\ Injective(registry)
    /\ Elems(registry) \subseteq alive
    /\ \A t \in Thread : Creating(t) => ptr[t] \in alive \ Elems(registry)
    /\ \A t, u \in Thread : Creating(t) /\ Creating(u) /\ ptr[t] = ptr[u] => t = u

(* While the threads keep out of each other's way.  An object is being      *)
(* created or destroyed by one call, and no call needs it meanwhile.        *)
Apart ==
    \A t, u \in Thread :
        t # u /\ pc[t] # "idle" /\ pc[u] # "idle" /\ name[t] = name[u] =>
            pc[t] \in InstallStep

(* Every name has one object and one listener. *)
OneEach ==
    /\ Injective(routes)
    /\ \A a, b \in Elems(registry) : heap[a].name = heap[b].name => a = b
    /\ \A r, q \in Elems(routes) : r.name = q.name => r = q

(* A listener is for a registered object, or for one that is about to be    *)
(* entered; a registered object has its listener, or is about to go.        *)
ListenerFor(r) ==
    \/ r.obj \in Elems(registry) /\ heap[r.obj].name = r.name
    \/ \E t \in Thread : pc[t] = "push" /\ name[t] = r.name /\ ptr[t] = r.obj

HasListener(a) ==
    \/ [name |-> heap[a].name, obj |-> a] \in Elems(routes)
    \/ \E t \in Thread : pc[t] = "remove" /\ name[t] = heap[a].name

InStep ==
    /\ \A r \in Elems(routes) : ListenerFor(r)
    /\ \A a \in Elems(registry) : HasListener(a)

(* What a call that creates or destroys an object finds. *)
NoEntry(n)    == \A a \in Elems(registry) : heap[a].name # n
NoListener(n) == \A r \in Elems(routes) : r.name # n

CallFinds ==
    \A t \in Thread :
        /\ pc[t] \in {"add", "remove"} => NoListener(name[t])
        /\ Creating(t) => /\ NoEntry(name[t])
                          /\ heap[ptr[t]] = NewObject(name[t])
                          /\ ptr[t] \notin short /\ name[t] \notin granted
        /\ pc[t] = "push" => [name |-> name[t], obj |-> ptr[t]] \in Elems(routes)

(* What a call that installs the handlers has done so far. *)
CallInstalls ==
    \A t \in Thread :
        /\ pc[t] \in InstallStep =>
             /\ ptr[t] \in Elems(registry) /\ heap[ptr[t]].name = name[t]
             /\ <<"_subscribe", ptr[t]>> \in heap[ptr[t]].methods
        /\ pc[t] = "flag" => <<"_unsubscribe", ptr[t]>> \in heap[ptr[t]].methods

(* The handlers of a registered object. *)
Handlers ==
    \A a \in Elems(registry) :
        /\ heap[a].accepts => \A m \in Reserved : <<m, a>> \in heap[a].methods
        /\ heap[a].name \in granted => HasMethod(a, "_subscribe")
        /\ HasMethod(a, "_subscribe") /\ a \notin short =>
             HasMethod(a, "_unsubscribe")
                 \/ \E t \in Thread : pc[t] = "second" /\ ptr[t] = a

OrderlyInv == Apart /\ OneEach /\ InStep /\ CallFinds /\ CallInstalls /\ Handlers

RegistryInv == CallInv /\ AliveInv /\ (~clash => OrderlyInv)

(***************************************************************************)
(* Sequences and searches.                                                 *)
(***************************************************************************)

(* A non-empty set of naturals has a least element. *)
LEMMA LeastNatural ==
  ASSUME NEW T, T \subseteq Nat, T # {}
  PROVE  \E x \in T : \A y \in T : x <= y
  <1>1. PICK x \in T : \A y \in T : ~(<<y, x>> \in OpToRel(<, Nat))
    BY WFMin, NatLessThanWellFounded
  <1>2. \A y \in T : ~(y < x)
    BY <1>1 DEF OpToRel
  <1> QED BY <1>2

(* Appending an entry. *)
LEMMA AppendElems ==
  ASSUME NEW S, NEW s \in Seq(S), NEW x \in S
  PROVE  /\ Append(s, x) \in Seq(S)
         /\ Elems(Append(s, x)) = Elems(s) \cup {x}
         /\ Injective(s) /\ x \notin Elems(s) => Injective(Append(s, x))
  <1> DEFINE w == Append(s, x)
  <1>1. /\ w \in Seq(S) /\ Len(s) \in Nat /\ Len(w) = Len(s) + 1
        /\ \A i \in 1 .. Len(s) : w[i] = s[i]
        /\ w[Len(s) + 1] = x
        /\ DOMAIN s = 1 .. Len(s) /\ DOMAIN w = 1 .. Len(w)
    OBVIOUS
  <1> HIDE DEF w
  <1>2. \A i \in DOMAIN w : i \in DOMAIN s \/ i = Len(s) + 1
    BY <1>1
  <1>3. DOMAIN s \subseteq DOMAIN w /\ Len(s) + 1 \in DOMAIN w
    BY <1>1
  <1>4. Elems(w) = Elems(s) \cup {x}
    BY <1>1, <1>2, <1>3 DEF Elems
  <1>5. ASSUME Injective(s), x \notin Elems(s)
        PROVE  Injective(w)
    BY <1>1, <1>2, <1>5 DEF Injective, Elems
  <1> QED BY <1>1, <1>4, <1>5 DEF w

(* Taking out the entry at i. *)
Without(s, i) == SubSeq(s, 1, i - 1) \o SubSeq(s, i + 1, Len(s))

LEMMA RemoveAt ==
  ASSUME NEW S, NEW s \in Seq(S), NEW i \in DOMAIN s, Injective(s)
  PROVE  /\ Without(s, i) \in Seq(S) /\ Injective(Without(s, i))
         /\ Elems(Without(s, i)) = Elems(s) \ {s[i]}
  <1> DEFINE a == SubSeq(s, 1, i - 1)
             b == SubSeq(s, i + 1, Len(s))
             w == a \o b
             k == Len(s)
  <1>1. k \in Nat /\ i \in 1 .. k /\ DOMAIN s = 1 .. k
    OBVIOUS
  <1>2. a \in Seq(S) /\ Len(a) = i - 1 /\ \A j \in 1 .. i - 1 : a[j] = s[j]
    BY <1>1
  <1>3. b \in Seq(S) /\ Len(b) = k - i /\ \A j \in 1 .. k - i : b[j] = s[i + j]
    BY <1>1
  <1> HIDE DEF a, b, k
  <1>4. /\ w \in Seq(S) /\ DOMAIN w = 1 .. Len(w) /\ Len(w) = Len(a) + Len(b)
        /\ \A j \in 1 .. Len(a) + Len(b) :
               w[j] = IF j <= Len(a) THEN a[j] ELSE b[j - Len(a)]
    <2>1. /\ w \in Seq(S) /\ Len(w) = Len(a) + Len(b)
          /\ \A j \in 1 .. Len(a) + Len(b) :
               w[j] = IF j <= Len(a) THEN a[j] ELSE b[j - Len(a)]
      BY <1>2, <1>3, ConcatProperties, Zenon
    <2> HIDE DEF w
    <2> QED BY <2>1
  <1> HIDE DEF w
  <1>5. DOMAIN w = 1 .. k - 1
    BY <1>1, <1>2, <1>3, <1>4
  <1>6. \A j \in 1 .. k - 1 : j < i => w[j] = s[j]
    BY <1>1, <1>2, <1>3, <1>4
  <1>7. ASSUME NEW j \in 1 .. k - 1, ~(j < i)
        PROVE  w[j] = s[j + 1]
    <2>1. w[j] = b[j - (i - 1)]
      BY <1>1, <1>2, <1>3, <1>4, <1>7
    <2>2. j - (i - 1) \in 1 .. k - i /\ i + (j - (i - 1)) = j + 1
      BY <1>1, <1>7
    <2> QED BY <1>3, <2>1, <2>2
  <1>8. \A j \in 1 .. k - 1 : \E l \in 1 .. k : l # i /\ w[j] = s[l] /\ l = IF j < i THEN j ELSE j + 1
    BY <1>1, <1>6, <1>7
  <1>9. Injective(w)
    <2>1. ASSUME NEW j \in 1 .. k - 1, NEW l \in 1 .. k - 1, w[j] = w[l]
          PROVE  j = l
      <3>1. PICK x \in 1 .. k : w[j] = s[x] /\ x = IF j < i THEN j ELSE j + 1
        BY <1>8
      <3>2. PICK y \in 1 .. k : w[l] = s[y] /\ y = IF l < i THEN l ELSE l + 1
        BY <1>8
      <3>3. x = y
        BY <1>1, <2>1, <3>1, <3>2 DEF Injective
      <3> QED BY <1>1, <3>1, <3>2, <3>3
    <2> QED BY <1>5, <2>1 DEF Injective
  <1>10. Elems(w) = Elems(s) \ {s[i]}
    <2>1. ASSUME NEW e \in Elems(w)
          PROVE  e \in Elems(s) \ {s[i]}
      <3>1. PICK j \in 1 .. k - 1 : e = w[j]
        BY <1>5 DEF Elems
      <3>2. PICK l \in 1 .. k : l # i /\ e = s[l]
        BY <1>8, <3>1
      <3> QED BY <1>1, <3>2 DEF Injective, Elems
    <2>2. ASSUME NEW e \in Elems(s) \ {s[i]}
          PROVE  e \in Elems(w)
      <3>1. PICK l \in 1 .. k : e = s[l] /\ l # i
        BY <1>1 DEF Elems
      <3>2. CASE l < i
        <4>1. l \in 1 .. k - 1
          BY <1>1, <3>2
        <4> QED BY <1>5, <1>6, <3>1, <3>2, <4>1 DEF Elems
      <3>3. CASE l > i
        <4>1. l - 1 \in 1 .. k - 1 /\ ~(l - 1 < i) /\ (l - 1) + 1 = l
          BY <1>1, <3>3
        <4>2. w[l - 1] = e
          BY <1>7, <3>1, <4>1
        <4> QED BY <1>5, <4>1, <4>2 DEF Elems
      <3> QED BY <1>1, <3>1, <3>2, <3>3
    <2> QED BY <2>1, <2>2
  <1> QED BY <1>4, <1>9, <1>10 DEF Without, w, a, b, k

(* Taking out the first entry that is in T takes out one of them. *)
LEMMA RemoveFirstIs ==
  ASSUME NEW S, NEW s \in Seq(S), NEW T, Elems(s) \cap T # {}
  PROVE  \E i \in DOMAIN s : s[i] \in T /\ RemoveFirst(s, T) = Without(s, i)
  <1> DEFINE I == {j \in DOMAIN s : s[j] \in T}
             First(j) == s[j] \in T /\ \A k \in 1 .. j - 1 : s[k] \notin T
             i == CHOOSE j \in DOMAIN s : First(j)
  <1>1. DOMAIN s = 1 .. Len(s) /\ Len(s) \in Nat
    OBVIOUS
  <1>2. I \subseteq Nat /\ I # {}
    BY <1>1 DEF Elems
  <1>3. PICK x \in I : \A y \in I : x <= y
    <2> HIDE DEF I
    <2> QED BY <1>2, LeastNatural
  <1>4. First(x)
    <2>1. ASSUME NEW k \in 1 .. x - 1
          PROVE  s[k] \notin T
      <3>1. k \in DOMAIN s /\ ~(x <= k)
        BY <1>1, <1>3
      <3> QED BY <1>3, <3>1
    <2> QED BY <1>3, <2>1
  <1>5. i \in DOMAIN s /\ First(i)
    BY <1>3, <1>4
  <1>6. RemoveFirst(s, T) = Without(s, i)
    BY DEF RemoveFirst, Without
  <1> HIDE DEF i
  <1> QED BY <1>5, <1>6

LEMMA RemoveFirstType ==
  ASSUME NEW S, NEW s \in Seq(S), NEW T, Elems(s) \cap T # {}
  PROVE  RemoveFirst(s, T) \in Seq(S)
  <1>1. PICK i \in DOMAIN s : RemoveFirst(s, T) = Without(s, i)
    BY RemoveFirstIs
  <1>2. i \in 1 .. Len(s) /\ Len(s) \in Nat
    OBVIOUS
  <1>3. SubSeq(s, 1, i - 1) \in Seq(S) /\ SubSeq(s, i + 1, Len(s)) \in Seq(S)
    BY <1>2
  <1> QED BY <1>1, <1>3, ConcatProperties DEF Without

LEMMA RemoveFirstElems ==
  ASSUME NEW S, NEW s \in Seq(S), Injective(s), NEW e \in Elems(s),
         NEW T, Elems(s) \cap T = {e}
  PROVE  /\ RemoveFirst(s, T) \in Seq(S) /\ Injective(RemoveFirst(s, T))
         /\ Elems(RemoveFirst(s, T)) = Elems(s) \ {e}
  <1>1. PICK i \in DOMAIN s : s[i] \in T /\ RemoveFirst(s, T) = Without(s, i)
    BY RemoveFirstIs
  <1>2. s[i] = e
    BY <1>1 DEF Elems
  <1> QED BY <1>1, <1>2, RemoveAt

(* get_object finds an entry with the name if there is one, else NULL.      *)
LEMMA GetObject ==
  ASSUME registry \in Seq(Addr), NEW n
  PROVE  \/ get_object(n) = NoThing /\ NoEntry(n)
         \/ /\ get_object(n) \in Elems(registry) /\ get_object(n) \in Addr
            /\ get_object(n) # NoThing
            /\ heap[get_object(n)].name = n
  <1> DEFINE T == {i \in DOMAIN registry : heap[registry[i]].name = n}
             First(i) == /\ heap[registry[i]].name = n
                         /\ \A j \in 1 .. i - 1 : heap[registry[j]].name # n
             f == CHOOSE i \in DOMAIN registry : First(i)
  <1>1. DOMAIN registry = 1 .. Len(registry) /\ Len(registry) \in Nat
    OBVIOUS
  <1>2. CASE T = {}
    BY <1>2 DEF get_object, NoEntry, Elems
  <1>3. CASE T # {}
    <2>1. PICK i \in T : \A j \in T : i <= j
      <3>1. T \subseteq Nat
        BY <1>1
      <3> HIDE DEF T
      <3> QED BY <1>3, <3>1, LeastNatural
    <2>2. i \in DOMAIN registry /\ First(i)
      <3>1. ASSUME NEW j \in 1 .. i - 1
            PROVE  heap[registry[j]].name # n
        <4>1. j \in DOMAIN registry /\ ~(i <= j)
          BY <1>1, <2>1
        <4> QED BY <2>1, <4>1
      <3> QED BY <2>1, <3>1
    <2>3. f \in DOMAIN registry /\ heap[registry[f]].name = n
      BY <2>2
    <2>4. get_object(n) = registry[f]
      BY <2>2 DEF get_object
    <2> HIDE DEF f
    <2>5. registry[f] \in Addr /\ registry[f] \in Elems(registry)
      BY <2>3 DEF Elems
    <2> QED BY <2>3, <2>4, <2>5, RegistryAssumption
  <1> QED BY <1>2, <1>3

(***************************************************************************)
(* What the steps have in common.                                          *)
(***************************************************************************)

(* The values a thread's step, name and pointer can take together. *)
CallState(s, n, p) ==
    /\ s \in {"idle", "add", "push", "remove", "second", "flag"}
    /\ n \in Object \cup {NoThing} /\ p \in Addr \cup {NoThing}
    /\ s # "idle" => n \in Object
    /\ s \in {"add", "push", "second", "flag"} => p \in Addr

(* A thread that goes on or returns changes nothing of the others. *)
LEMMA Moves ==
  ASSUME CallInv, NEW t \in Thread, NEW s, NEW n, NEW p, CallState(s, n, p),
         Continue(t, s, n, p)
  PROVE  /\ pc' \in [Thread -> {"idle", "add", "push", "remove", "second", "flag"}]
         /\ name' \in [Thread -> Object \cup {NoThing}]
         /\ ptr' \in [Thread -> Addr \cup {NoThing}]
         /\ \A u \in Thread : pc'[u] # "idle" => name'[u] \in Object
         /\ \A u \in Thread : pc'[u] \in {"add", "push", "second", "flag"} => ptr'[u] \in Addr
         /\ pc'[t] = s /\ name'[t] = n /\ ptr'[t] = p
         /\ \A u \in Thread \ {t} : pc'[u] = pc[u] /\ name'[u] = name[u] /\ ptr'[u] = ptr[u]
  <1>1. /\ pc \in [Thread -> {"idle", "add", "push", "remove", "second", "flag"}]
        /\ name \in [Thread -> Object \cup {NoThing}]
        /\ ptr \in [Thread -> Addr \cup {NoThing}]
    BY DEF CallInv, TypeOK
  <1>2. /\ pc'[t] = s /\ name'[t] = n /\ ptr'[t] = p
        /\ \A u \in Thread \ {t} : pc'[u] = pc[u] /\ name'[u] = name[u] /\ ptr'[u] = ptr[u]
    BY <1>1 DEF Continue
  <1>3. /\ pc' \in [Thread -> {"idle", "add", "push", "remove", "second", "flag"}]
        /\ name' \in [Thread -> Object \cup {NoThing}]
        /\ ptr' \in [Thread -> Addr \cup {NoThing}]
    BY <1>1 DEF Continue, CallState
  <1> QED BY <1>2, <1>3 DEF CallInv, CallState

(* Returning is going on with nothing. *)
LEMMA Returns ==
  ASSUME NEW t \in Thread, Return(t)
  PROVE  Continue(t, "idle", NoThing, NoThing) /\ CallState("idle", NoThing, NoThing)
  BY DEF Return, Continue, CallState

(* One more method, where there is room for one, and fewer methods. *)
LEMMA OneMore ==
  ASSUME NEW S, IsFiniteSet(S), Cardinality(S) < MaxMethods, NEW x
  PROVE  IsFiniteSet(S \cup {x}) /\ Cardinality(S \cup {x}) <= MaxMethods
  <1>1. Cardinality(S) \in Nat
    BY FS_CardinalityType
  <1>2. /\ IsFiniteSet(S \cup {x})
        /\ Cardinality(S \cup {x}) = Cardinality(S) \/ Cardinality(S \cup {x}) = Cardinality(S) + 1
    BY FS_AddElement
  <1> QED BY <1>1, <1>2, RegistryAssumption

LEMMA NoMore ==
  ASSUME NEW S, IsFiniteSet(S), Cardinality(S) <= MaxMethods, NEW T \in SUBSET S
  PROVE  IsFiniteSet(T) /\ Cardinality(T) <= MaxMethods
  <1>1. IsFiniteSet(T) /\ Cardinality(T) <= Cardinality(S)
    BY FS_Subset
  <1>2. Cardinality(S) \in Nat /\ Cardinality(T) \in Nat
    BY <1>1, FS_CardinalityType
  <1> QED BY <1>1, <1>2, RegistryAssumption

(* An object record that the heap may hold. *)
GoodObject(o) ==
    o \in ObjectRecord /\ IsFiniteSet(o.methods) /\ Cardinality(o.methods) <= MaxMethods

LEMMA GoodHeap ==
  ASSUME CallInv
  PROVE  heap \in [Addr -> ObjectRecord] /\ \A a \in Addr : GoodObject(heap[a])
  BY DEF CallInv, TypeOK, GoodObject

LEMMA HeapUpdate ==
  ASSUME CallInv, NEW a \in Addr, NEW o, GoodObject(o), heap' = [heap EXCEPT ![a] = o]
  PROVE  /\ heap' \in [Addr -> ObjectRecord]
         /\ \A b \in Addr : GoodObject(heap'[b])
         /\ heap'[a] = o /\ \A b \in Addr \ {a} : heap'[b] = heap[b]
  BY DEF CallInv, TypeOK, GoodObject

LEMMA NewObjectGood ==
  ASSUME NEW n \in Object \cup {NoThing}
  PROVE  GoodObject(NewObject(n))
  BY FS_EmptySet, RegistryAssumption DEF GoodObject, ObjectRecord, NewObject

(* The parts of CallInv after a step. *)
LEMMA CallInvNext ==
  ASSUME registry' \in Seq(Addr), routes' \in Seq([name : Object, obj : Addr]),
         alive' \subseteq Addr, heap' \in [Addr -> ObjectRecord],
         \A b \in Addr : GoodObject(heap'[b]),
         pc' \in [Thread -> {"idle", "add", "push", "remove", "second", "flag"}],
         name' \in [Thread -> Object \cup {NoThing}],
         ptr' \in [Thread -> Addr \cup {NoThing}],
         \A u \in Thread : pc'[u] # "idle" => name'[u] \in Object,
         \A u \in Thread : pc'[u] \in {"add", "push", "second", "flag"} => ptr'[u] \in Addr,
         granted' \subseteq Object, short' \subseteq Addr, clash' \in BOOLEAN
  PROVE  CallInv'
  BY DEF CallInv, TypeOK, GoodObject

(* What is known of the listeners and of the entries. *)
LEMMA EntryTypes ==
  ASSUME CallInv
  PROVE  /\ registry \in Seq(Addr) /\ Elems(registry) \subseteq Addr
         /\ routes \in Seq([name : Object, obj : Addr])
         /\ Elems(routes) \subseteq [name : Object, obj : Addr]
         /\ alive \subseteq Addr
  <1>1. /\ registry \in Seq(Addr) /\ routes \in Seq([name : Object, obj : Addr])
        /\ alive \subseteq Addr
    BY DEF CallInv, TypeOK
  <1>2. \A i \in DOMAIN registry : registry[i] \in Addr
    BY <1>1
  <1>3. \A i \in DOMAIN routes : routes[i] \in [name : Object, obj : Addr]
    BY <1>1, ElementOfSeq, LenProperties
  <1> QED BY <1>1, <1>2, <1>3 DEF Elems

(* Initially nothing is registered. *)
LEMMA InitRegistry == Init => RegistryInv
  <1> SUFFICES ASSUME Init PROVE RegistryInv
    OBVIOUS
  <1>1. Elems(registry) = {} /\ Elems(routes) = {}
    BY DEF Init, Elems
  <1>2. CallInv
    <2>1. GoodObject(NewObject(NoThing))
      BY NewObjectGood
    <2>2. /\ heap \in [Addr -> ObjectRecord]
          /\ \A a \in Addr : GoodObject(heap[a])
      BY <2>1 DEF Init, GoodObject
    <2>3. /\ registry \in Seq(Addr) /\ routes \in Seq([name : Object, obj : Addr])
          /\ \A t \in Thread : pc[t] = "idle"
      BY DEF Init
    <2>4. /\ pc \in [Thread -> {"idle", "add", "push", "remove", "second", "flag"}]
          /\ name \in [Thread -> Object \cup {NoThing}]
          /\ ptr \in [Thread -> Addr \cup {NoThing}]
      BY DEF Init
    <2> QED BY <2>2, <2>3, <2>4 DEF Init, CallInv, TypeOK, GoodObject
  <1>3. AliveInv
    BY <1>1 DEF Init, AliveInv, Injective, Creating
  <1>4. OrderlyInv
    BY <1>1 DEF Init, OrderlyInv, Apart, OneEach, Injective, InStep, CallFinds, CallInstalls,
                Handlers, Creating, InstallStep
  <1> QED BY <1>2, <1>3, <1>4 DEF RegistryInv

(***************************************************************************)
(* rbus_registerObj.                                                       *)
(***************************************************************************)

(* A new object has an address that nobody uses, and a name that has        *)
(* neither entry nor listener.                                              *)
LEMMA RegisterObjStep ==
  ASSUME RegistryInv, NEW t \in Thread, NEW n \in Object, RegisterObj(t, n),
         get_object(n) = NoThing
  PROVE  RegistryInv'
  <1>1. CallInv /\ AliveInv
    BY DEF RegistryInv
  <1>2. PICK a \in Addr \ alive :
          /\ alive' = alive \cup {a}
          /\ heap' = [heap EXCEPT ![a] = NewObject(n)]
          /\ granted' = granted \ {n} /\ short' = short \ {a}
          /\ NoteClash(t, n, ObjectStep \cup InstallStep)
          /\ Continue(t, "add", n, a)
          /\ UNCHANGED <<registry, routes>>
    BY DEF RegisterObj
  <1>3. pc[t] = "idle" /\ NoEntry(n)
    BY <1>1, EntryTypes, GetObject DEF RegisterObj
  <1>4. /\ heap' \in [Addr -> ObjectRecord]
        /\ \A b \in Addr : GoodObject(heap'[b])
        /\ heap'[a] = NewObject(n) /\ \A b \in Addr \ {a} : heap'[b] = heap[b]
    BY <1>1, <1>2, NewObjectGood, HeapUpdate
  <1>5. CallState("add", n, a)
    BY DEF CallState
  <1>6. /\ pc'[t] = "add" /\ name'[t] = n /\ ptr'[t] = a
        /\ \A u \in Thread \ {t} : pc'[u] = pc[u] /\ name'[u] = name[u] /\ ptr'[u] = ptr[u]
    BY <1>1, <1>2, <1>5, Moves
  <1>7. CallInv'
    <2>1. clash' \in BOOLEAN /\ granted' \subseteq Object /\ short' \subseteq Addr
      BY <1>1, <1>2 DEF CallInv, TypeOK, NoteClash
    <2>2. alive' \subseteq Addr
      BY <1>1, <1>2, EntryTypes
    <2>3. /\ pc' \in [Thread -> {"idle", "add", "push", "remove", "second", "flag"}]
          /\ name' \in [Thread -> Object \cup {NoThing}]
          /\ ptr' \in [Thread -> Addr \cup {NoThing}]
          /\ \A u \in Thread : pc'[u] # "idle" => name'[u] \in Object
          /\ \A u \in Thread : pc'[u] \in {"add", "push", "second", "flag"} => ptr'[u] \in Addr
      BY <1>1, <1>2, <1>5, Moves
    <2> QED BY <1>1, <1>2, <1>4, <2>1, <2>2, <2>3, EntryTypes, CallInvNext
  <1>8. AliveInv'
    BY <1>1, <1>2, <1>6 DEF AliveInv, Creating, Injective
  <1>9. ASSUME ~clash' PROVE OrderlyInv'
    <2>1. /\ ~clash /\ OrderlyInv
          /\ \A u \in Thread \ {t} : name[u] = n => pc[u] = "idle"
      BY <1>1, <1>2, <1>9 DEF NoteClash, RegistryInv, CallInv, TypeOK, ObjectStep, InstallStep
    <2>2. /\ Elems(registry)' = Elems(registry) /\ Elems(routes)' = Elems(routes)
          /\ a \notin Elems(registry) /\ Elems(registry) \subseteq Addr
          /\ \A b \in Elems(registry) : heap'[b] = heap[b]
      BY <1>1, <1>2, <1>4, EntryTypes DEF AliveInv
    <2>3. NoListener(n)
      BY <1>3, <2>1 DEF OrderlyInv, InStep, ListenerFor, NoListener, NoEntry
    <2>4. Apart'
      BY <1>6, <2>1 DEF OrderlyInv, Apart
    <2>5. OneEach'
      BY <1>2, <2>1, <2>2 DEF OrderlyInv, OneEach
    <2>6. InStep'
      <3>1. ASSUME NEW r \in Elems(routes) PROVE ListenerFor(r)'
        BY <1>3, <1>6, <2>1, <2>2 DEF OrderlyInv, InStep, ListenerFor
      <3>2. ASSUME NEW b \in Elems(registry) PROVE HasListener(b)'
        BY <1>3, <1>6, <2>1, <2>2 DEF OrderlyInv, InStep, HasListener
      <3> QED BY <2>2, <3>1, <3>2 DEF InStep
    <2>7. CallFinds'
      <3>1. ASSUME NEW u \in Thread \ {t}, Creating(u)
            PROVE  ptr[u] # a /\ heap'[ptr[u]] = heap[ptr[u]]
        BY <1>1, <1>2, <1>4, <3>1 DEF AliveInv, CallInv, TypeOK
      <3> QED BY <1>2, <1>3, <1>4, <1>6, <2>1, <2>2, <2>3, <3>1
              DEF OrderlyInv, CallFinds, NoListener, NoEntry, Creating
    <2>8. CallInstalls'
      BY <1>6, <2>1, <2>2 DEF OrderlyInv, CallInstalls, InstallStep
    <2>9. Handlers'
      BY <1>2, <1>3, <1>6, <2>1, <2>2 DEF OrderlyInv, Handlers, HasMethod
    <2> QED BY <2>4, <2>5, <2>6, <2>7, <2>8, <2>9 DEF OrderlyInv
  <1> QED BY <1>7, <1>8, <1>9 DEF RegistryInv

(* The listener is for the object that the same call is about to enter. *)
LEMMA AddListenerStep ==
  ASSUME RegistryInv, NEW t \in Thread, RegisterObjAddListener(t)
  PROVE  RegistryInv'
  <1> PICK r : r = [name |-> name[t], obj |-> ptr[t]]
    OBVIOUS
  <1>1. CallInv /\ AliveInv
    BY DEF RegistryInv
  <1>2. /\ pc[t] = "add" /\ routes' = Append(routes, r)
        /\ Continue(t, "push", name[t], ptr[t])
        /\ UNCHANGED <<registry, alive, heap, historyVars>>
    BY DEF RegisterObjAddListener
  <1>3. /\ name[t] \in Object /\ ptr[t] \in Addr /\ r \in [name : Object, obj : Addr]
        /\ CallState("push", name[t], ptr[t])
    BY <1>1, <1>2 DEF CallInv, CallState
  <1>4. /\ routes' \in Seq([name : Object, obj : Addr])
        /\ Elems(routes)' = Elems(routes) \cup {r}
        /\ Injective(routes) /\ r \notin Elems(routes) => Injective(routes)'
    <2> DEFINE S == [name : Object, obj : Addr]
    <2>1. r \in S /\ routes \in Seq(S) /\ routes' = Append(routes, r)
      BY <1>1, <1>2, <1>3, EntryTypes
    <2> HIDE DEF S
    <2>2. /\ routes' \in Seq(S) /\ Elems(routes)' = Elems(routes) \cup {r}
          /\ Injective(routes) /\ r \notin Elems(routes) => Injective(routes)'
      BY <2>1, AppendElems
    <2> QED BY <2>2 DEF S
  <1>5. /\ pc'[t] = "push" /\ name'[t] = name[t] /\ ptr'[t] = ptr[t]
        /\ \A u \in Thread \ {t} : pc'[u] = pc[u] /\ name'[u] = name[u] /\ ptr'[u] = ptr[u]
    BY <1>1, <1>2, <1>3, Moves
  <1>6. CallInv'
    <2>1. /\ pc' \in [Thread -> {"idle", "add", "push", "remove", "second", "flag"}]
          /\ name' \in [Thread -> Object \cup {NoThing}]
          /\ ptr' \in [Thread -> Addr \cup {NoThing}]
          /\ \A u \in Thread : pc'[u] # "idle" => name'[u] \in Object
          /\ \A u \in Thread : pc'[u] \in {"add", "push", "second", "flag"} => ptr'[u] \in Addr
      BY <1>1, <1>2, <1>3, Moves
    <2> QED BY <1>1, <1>2, <1>4, <2>1 DEF CallInv, TypeOK, historyVars
  <1>7. AliveInv'
    BY <1>1, <1>2, <1>5 DEF AliveInv, Creating, Injective
  <1>8. ASSUME ~clash' PROVE OrderlyInv'
    <2>1. OrderlyInv /\ NoListener(name[t])
      BY <1>2, <1>8 DEF RegistryInv, OrderlyInv, CallFinds, historyVars
    <2>2. Elems(registry)' = Elems(registry)
      BY <1>2
    <2>3. r \notin Elems(routes)
      BY <2>1 DEF NoListener
    <2>4. \A u \in Thread \ {t} : pc[u] # "idle" => name[u] # name[t]
      BY <1>2, <2>1 DEF OrderlyInv, Apart, InstallStep
    <2>5. Apart'
      BY <1>2, <1>5, <2>1 DEF OrderlyInv, Apart, InstallStep
    <2>6. OneEach'
      BY <1>2, <1>4, <2>1, <2>2, <2>3 DEF OrderlyInv, OneEach, NoListener
    <2>7. InStep'
      <3>1. ASSUME NEW q \in Elems(routes) PROVE ListenerFor(q)'
        BY <1>2, <1>5, <2>1, <2>2 DEF OrderlyInv, InStep, ListenerFor
      <3>2. ListenerFor(r)'
        BY <1>5 DEF ListenerFor
      <3>3. ASSUME NEW b \in Elems(registry) PROVE HasListener(b)'
        BY <1>2, <1>4, <1>5, <2>1 DEF OrderlyInv, InStep, HasListener
      <3> QED BY <1>4, <2>2, <3>1, <3>2, <3>3 DEF InStep
    <2>8. CallFinds'
      BY <1>2, <1>4, <1>5, <2>1, <2>2, <2>4
         DEF OrderlyInv, CallFinds, NoListener, NoEntry, Creating, historyVars
    <2>9. CallInstalls'
      BY <1>2, <1>5, <2>1, <2>2 DEF OrderlyInv, CallInstalls, InstallStep
    <2>10. Handlers'
      BY <1>2, <1>5, <2>1, <2>2 DEF OrderlyInv, Handlers, HasMethod, historyVars
    <2> QED BY <2>5, <2>6, <2>7, <2>8, <2>9, <2>10 DEF OrderlyInv
  <1> QED BY <1>6, <1>7, <1>8 DEF RegistryInv

(* Without its listener the object goes again; nobody else knew it. *)
LEMMA AddListenerFailsStep ==
  ASSUME RegistryInv, NEW t \in Thread, RegisterObjAddListenerFails(t)
  PROVE  RegistryInv'
  <1>1. CallInv /\ AliveInv
    BY DEF RegistryInv
  <1>2. /\ pc[t] = "add" /\ alive' = alive \ {ptr[t]}
        /\ Continue(t, "idle", NoThing, NoThing) /\ CallState("idle", NoThing, NoThing)
        /\ UNCHANGED <<registry, routes, heap, historyVars>>
    BY Returns DEF RegisterObjAddListenerFails
  <1>3. /\ pc'[t] = "idle"
        /\ \A u \in Thread \ {t} : pc'[u] = pc[u] /\ name'[u] = name[u] /\ ptr'[u] = ptr[u]
    BY <1>1, <1>2, Moves
  <1>4. CallInv'
    <2>1. /\ pc' \in [Thread -> {"idle", "add", "push", "remove", "second", "flag"}]
          /\ name' \in [Thread -> Object \cup {NoThing}]
          /\ ptr' \in [Thread -> Addr \cup {NoThing}]
          /\ \A u \in Thread : pc'[u] # "idle" => name'[u] \in Object
          /\ \A u \in Thread : pc'[u] \in {"add", "push", "second", "flag"} => ptr'[u] \in Addr
      BY <1>1, <1>2, Moves
    <2> QED BY <1>1, <1>2, <2>1 DEF CallInv, TypeOK, historyVars
  <1>5. AliveInv'
    BY <1>1, <1>2, <1>3 DEF AliveInv, Creating, Injective
  <1>6. ASSUME ~clash' PROVE OrderlyInv'
    <2>1. OrderlyInv /\ Elems(registry)' = Elems(registry) /\ Elems(routes)' = Elems(routes)
      BY <1>2, <1>6 DEF RegistryInv, historyVars
    <2>2. Apart'
      BY <1>3, <2>1 DEF OrderlyInv, Apart
    <2>3. OneEach'
      BY <1>2, <2>1 DEF OrderlyInv, OneEach
    <2>4. InStep'
      <3>1. ASSUME NEW q \in Elems(routes) PROVE ListenerFor(q)'
        BY <1>2, <1>3, <2>1 DEF OrderlyInv, InStep, ListenerFor
      <3>2. ASSUME NEW b \in Elems(registry) PROVE HasListener(b)'
        BY <1>2, <1>3, <2>1 DEF OrderlyInv, InStep, HasListener
      <3> QED BY <2>1, <3>1, <3>2 DEF InStep
    <2>5. CallFinds'
      BY <1>2, <1>3, <2>1
         DEF OrderlyInv, CallFinds, NoListener, NoEntry, Creating, historyVars
    <2>6. CallInstalls'
      BY <1>2, <1>3, <2>1 DEF OrderlyInv, CallInstalls, InstallStep
    <2>7. Handlers'
      BY <1>2, <1>3, <2>1 DEF OrderlyInv, Handlers, HasMethod, historyVars
    <2> QED BY <2>2, <2>3, <2>4, <2>5, <2>6, <2>7 DEF OrderlyInv
  <1> QED BY <1>4, <1>5, <1>6 DEF RegistryInv

(* The object becomes an entry. *)
LEMMA PushStep ==
  ASSUME RegistryInv, NEW t \in Thread, RegisterObjPush(t)
  PROVE  RegistryInv'
  <1>1. CallInv /\ AliveInv
    BY DEF RegistryInv
  <1>2. /\ pc[t] = "push" /\ registry' = Append(registry, ptr[t])
        /\ Continue(t, "idle", NoThing, NoThing) /\ CallState("idle", NoThing, NoThing)
        /\ UNCHANGED <<routes, alive, heap, historyVars>>
    BY Returns DEF RegisterObjPush
  <1>3. ptr[t] \in Addr /\ ptr[t] \in alive \ Elems(registry) /\ Injective(registry)
    BY <1>1, <1>2 DEF CallInv, AliveInv, Creating
  <1>4. /\ registry' \in Seq(Addr) /\ Injective(registry)'
        /\ Elems(registry)' = Elems(registry) \cup {ptr[t]}
    BY <1>1, <1>2, <1>3, EntryTypes, AppendElems
  <1>5. /\ pc'[t] = "idle"
        /\ \A u \in Thread \ {t} : pc'[u] = pc[u] /\ name'[u] = name[u] /\ ptr'[u] = ptr[u]
    BY <1>1, <1>2, Moves
  <1>6. CallInv'
    <2>1. /\ pc' \in [Thread -> {"idle", "add", "push", "remove", "second", "flag"}]
          /\ name' \in [Thread -> Object \cup {NoThing}]
          /\ ptr' \in [Thread -> Addr \cup {NoThing}]
          /\ \A u \in Thread : pc'[u] # "idle" => name'[u] \in Object
          /\ \A u \in Thread : pc'[u] \in {"add", "push", "second", "flag"} => ptr'[u] \in Addr
      BY <1>1, <1>2, Moves
    <2> QED BY <1>1, <1>2, <1>4, <2>1 DEF CallInv, TypeOK, historyVars
  <1>7. AliveInv'
    BY <1>1, <1>2, <1>3, <1>4, <1>5 DEF AliveInv, Creating
  <1>8. ASSUME ~clash' PROVE OrderlyInv'
    <2>1. OrderlyInv /\ Elems(routes)' = Elems(routes)
      BY <1>2, <1>8 DEF RegistryInv, historyVars
    <2>2. /\ NoEntry(name[t]) /\ heap[ptr[t]] = NewObject(name[t])
          /\ ptr[t] \notin short /\ name[t] \notin granted
          /\ [name |-> name[t], obj |-> ptr[t]] \in Elems(routes)
      BY <1>2, <2>1 DEF OrderlyInv, CallFinds, Creating
    <2>3. heap[ptr[t]].name = name[t] /\ heap[ptr[t]].methods = {} /\ ~heap[ptr[t]].accepts
      BY <2>2 DEF NewObject
    <2>4. \A u \in Thread \ {t} : pc[u] # "idle" => name[u] # name[t]
      BY <1>2, <2>1 DEF OrderlyInv, Apart, InstallStep
    <2>5. Apart'
      BY <1>5, <2>1 DEF OrderlyInv, Apart
    <2>6. OneEach'
      BY <1>2, <1>4, <2>1, <2>2, <2>3 DEF OrderlyInv, OneEach, NoEntry
    <2>7. InStep'
      <3>1. ASSUME NEW q \in Elems(routes) PROVE ListenerFor(q)'
        BY <1>2, <1>4, <1>5, <2>1, <2>3 DEF OrderlyInv, InStep, ListenerFor
      <3>2. ASSUME NEW b \in Elems(registry) PROVE HasListener(b)'
        BY <1>2, <1>5, <2>1 DEF OrderlyInv, InStep, HasListener
      <3>3. ASSUME NEW b, b = ptr[t] PROVE HasListener(b)'
        BY <1>2, <2>1, <2>2, <2>3, <3>3 DEF HasListener
      <3> QED BY <1>4, <2>1, <3>1, <3>2, <3>3 DEF InStep
    <2>8. CallFinds'
      BY <1>2, <1>4, <1>5, <2>1, <2>3, <2>4
         DEF OrderlyInv, CallFinds, NoListener, NoEntry, Creating, historyVars
    <2>9. CallInstalls'
      BY <1>2, <1>4, <1>5, <2>1 DEF OrderlyInv, CallInstalls, InstallStep
    <2>10. Handlers'
      BY <1>2, <1>4, <1>5, <2>1, <2>2, <2>3 DEF OrderlyInv, Handlers, HasMethod, historyVars
    <2> QED BY <2>5, <2>6, <2>7, <2>8, <2>9, <2>10 DEF OrderlyInv
  <1> QED BY <1>6, <1>7, <1>8 DEF RegistryInv

(***************************************************************************)
(* rbus_unregisterObj.                                                     *)
(***************************************************************************)

(* The listener of the name goes: it has only one, so that the object is    *)
(* without one until it goes, too.                                          *)
LEMMA UnregisterObjStep ==
  ASSUME RegistryInv, NEW t \in Thread, NEW n \in Object, UnregisterObj(t, n),
         ListenersOf(n) # {}
  PROVE  RegistryInv'
  <1>1. CallInv /\ AliveInv
    BY DEF RegistryInv
  <1>2. /\ pc[t] = "idle" /\ routes' = RemoveFirst(routes, ListenersOf(n))
        /\ Continue(t, "remove", n, NoThing)
        /\ NoteClash(t, n, ObjectStep \cup InstallStep)
        /\ UNCHANGED <<registry, alive, heap, granted, short>>
    BY DEF UnregisterObj
  <1>3. CallState("remove", n, NoThing)
    BY DEF CallState
  <1>4. /\ pc'[t] = "remove" /\ name'[t] = n
        /\ \A u \in Thread \ {t} : pc'[u] = pc[u] /\ name'[u] = name[u] /\ ptr'[u] = ptr[u]
    BY <1>1, <1>2, <1>3, Moves
  <1>5. CallInv'
    <2>1. /\ pc' \in [Thread -> {"idle", "add", "push", "remove", "second", "flag"}]
          /\ name' \in [Thread -> Object \cup {NoThing}]
          /\ ptr' \in [Thread -> Addr \cup {NoThing}]
          /\ \A u \in Thread : pc'[u] # "idle" => name'[u] \in Object
          /\ \A u \in Thread : pc'[u] \in {"add", "push", "second", "flag"} => ptr'[u] \in Addr
      BY <1>1, <1>2, <1>3, Moves
    <2>2. routes' \in Seq([name : Object, obj : Addr])
      <3>1. Elems(routes) \cap ListenersOf(n) # {}
        BY DEF ListenersOf
      <3> QED BY <1>1, <1>2, <3>1, RemoveFirstType, EntryTypes
    <2>3. clash' \in BOOLEAN
      BY <1>1, <1>2 DEF NoteClash, CallInv, TypeOK
    <2> QED BY <1>1, <1>2, <2>1, <2>2, <2>3 DEF CallInv, TypeOK
  <1>6. AliveInv'
    BY <1>1, <1>2, <1>4 DEF AliveInv, Creating, Injective
  <1>7. ASSUME ~clash' PROVE OrderlyInv'
    <2>1. /\ ~clash /\ OrderlyInv /\ Elems(registry)' = Elems(registry)
          /\ \A u \in Thread \ {t} : name[u] = n => pc[u] = "idle"
      BY <1>1, <1>2, <1>7 DEF NoteClash, RegistryInv, CallInv, TypeOK, ObjectStep, InstallStep
    <2>2. PICK r \in Elems(routes) : r.name = n
      BY DEF ListenersOf
    <2>3. Injective(routes)' /\ Elems(routes)' = Elems(routes) \ {r}
      <3>1. Elems(routes) \cap ListenersOf(n) = {r} /\ Injective(routes)
        BY <2>1, <2>2 DEF OrderlyInv, OneEach, ListenersOf
      <3> QED BY <1>1, <1>2, <3>1, EntryTypes, RemoveFirstElems
    <2>4. \A q \in Elems(routes)' : q \in Elems(routes) /\ q.name # n
      BY <2>1, <2>2, <2>3 DEF OrderlyInv, OneEach
    <2>5. Apart'
      BY <1>4, <2>1 DEF OrderlyInv, Apart
    <2>6. OneEach'
      BY <1>2, <2>1, <2>3, <2>4 DEF OrderlyInv, OneEach
    <2>7. InStep'
      <3>1. ASSUME NEW q \in Elems(routes)' PROVE ListenerFor(q)'
        BY <1>2, <1>4, <2>1, <2>4 DEF OrderlyInv, InStep, ListenerFor
      <3>2. ASSUME NEW b \in Elems(registry) PROVE HasListener(b)'
        <4>1. CASE heap[b].name = n
          BY <1>2, <1>4, <4>1 DEF HasListener
        <4>2. CASE heap[b].name # n
          <5>1. [name |-> heap[b].name, obj |-> b] # r
            BY <2>2, <4>2
          <5> QED BY <1>2, <1>4, <2>1, <2>3, <5>1 DEF OrderlyInv, InStep, HasListener
        <4> QED BY <4>1, <4>2
      <3> QED BY <2>1, <3>1, <3>2 DEF InStep
    <2>8. CallFinds'
      <3>1. ASSUME NEW u \in Thread \ {t}, pc[u] = "push"
            PROVE  [name |-> name[u], obj |-> ptr[u]] # r
        BY <2>1, <2>2, <3>1
      <3> QED BY <1>2, <1>4, <2>1, <2>3, <2>4, <3>1
              DEF OrderlyInv, CallFinds, NoListener, NoEntry, Creating
    <2>9. CallInstalls'
      BY <1>2, <1>4, <2>1 DEF OrderlyInv, CallInstalls, InstallStep
    <2>10. Handlers'
      BY <1>2, <1>4, <2>1 DEF OrderlyInv, Handlers, HasMethod
    <2> QED BY <2>5, <2>6, <2>7, <2>8, <2>9, <2>10 DEF OrderlyInv
  <1> QED BY <1>5, <1>6, <1>7 DEF RegistryInv

(* The entry goes with its object. *)
LEMMA UnregisterObjRemoveStep ==
  ASSUME RegistryInv, NEW t \in Thread, UnregisterObjRemove(t)
  PROVE  RegistryInv'
  <1> DEFINE a == get_object(name[t])
             R == IF a = NoThing THEN {} ELSE {a}
  <1>1. CallInv /\ AliveInv
    BY DEF RegistryInv
  <1>2. /\ pc[t] = "remove"
        /\ Continue(t, "idle", NoThing, NoThing) /\ CallState("idle", NoThing, NoThing)
        /\ UNCHANGED <<routes, heap, historyVars>>
    BY Returns DEF UnregisterObjRemove
  <1>3. /\ a = NoThing => UNCHANGED <<registry, alive>> /\ NoEntry(name[t])
        /\ a # NoThing =>
             /\ registry' = RemoveFirst(registry, {a})
             /\ alive' = alive \ {a}
             /\ a \in Elems(registry) /\ heap[a].name = name[t]
    BY <1>1, EntryTypes, GetObject DEF UnregisterObjRemove
  <1>4. /\ registry' \in Seq(Addr) /\ Injective(registry)'
        /\ Elems(registry)' = Elems(registry) \ R
    <2>1. registry \in Seq(Addr) /\ Injective(registry)
      BY <1>1, EntryTypes DEF AliveInv
    <2>2. CASE a = NoThing
      <3>1. registry' = registry /\ R = {}
        BY <1>3, <2>2
      <3> QED BY <2>1, <3>1
    <2>3. CASE a # NoThing
      <3>1. a \in Elems(registry) /\ registry' = RemoveFirst(registry, {a}) /\ R = {a}
        BY <1>3, <2>3
      <3> HIDE DEF a, R
      <3>2. Elems(registry) \cap {a} = {a}
        BY <3>1
      <3> QED BY <2>1, <3>1, <3>2, RemoveFirstElems
    <2> QED BY <2>2, <2>3
  <1>5. alive' = alive \ R /\ \A b \in R : b \in Elems(registry) /\ heap[b].name = name[t]
    BY <1>3
  <1>6. \A b \in Elems(registry)' : heap[b].name # name[t] \/ ~OrderlyInv
    BY <1>3, <1>4 DEF NoEntry, OrderlyInv, OneEach
  <1> HIDE DEF R
  <1>7. /\ pc'[t] = "idle"
        /\ \A u \in Thread \ {t} : pc'[u] = pc[u] /\ name'[u] = name[u] /\ ptr'[u] = ptr[u]
    BY <1>1, <1>2, Moves
  <1>8. CallInv'
    <2>1. /\ pc' \in [Thread -> {"idle", "add", "push", "remove", "second", "flag"}]
          /\ name' \in [Thread -> Object \cup {NoThing}]
          /\ ptr' \in [Thread -> Addr \cup {NoThing}]
          /\ \A u \in Thread : pc'[u] # "idle" => name'[u] \in Object
          /\ \A u \in Thread : pc'[u] \in {"add", "push", "second", "flag"} => ptr'[u] \in Addr
      BY <1>1, <1>2, Moves
    <2> QED BY <1>1, <1>2, <1>4, <1>5, <2>1 DEF CallInv, TypeOK, historyVars
  <1>9. AliveInv'
    BY <1>1, <1>4, <1>5, <1>7 DEF AliveInv, Creating
  <1>10. ASSUME ~clash' PROVE OrderlyInv'
    <2>1. OrderlyInv /\ Elems(routes)' = Elems(routes) /\ Elems(registry)' \subseteq Elems(registry)
      BY <1>2, <1>4, <1>10 DEF RegistryInv, historyVars
    <2>2. /\ NoListener(name[t])
          /\ \A u \in Thread \ {t} : pc[u] # "idle" => name[u] # name[t]
      BY <1>2, <2>1 DEF OrderlyInv, Apart, CallFinds, InstallStep
    <2>3. Apart'
      BY <1>7, <2>1 DEF OrderlyInv, Apart
    <2>4. OneEach'
      BY <1>2, <2>1 DEF OrderlyInv, OneEach
    <2>5. InStep'
      <3>1. ASSUME NEW q \in Elems(routes) PROVE ListenerFor(q)'
        BY <1>2, <1>4, <1>5, <1>7, <2>1, <2>2
           DEF OrderlyInv, InStep, ListenerFor, NoListener
      <3>2. ASSUME NEW b \in Elems(registry)' PROVE HasListener(b)'
        BY <1>2, <1>6, <1>7, <2>1 DEF OrderlyInv, InStep, HasListener
      <3> QED BY <2>1, <3>1, <3>2 DEF InStep
    <2>6. CallFinds'
      BY <1>2, <1>7, <2>1
         DEF OrderlyInv, CallFinds, NoListener, NoEntry, Creating, historyVars
    <2>7. CallInstalls'
      BY <1>2, <1>4, <1>5, <1>7, <2>1, <2>2 DEF OrderlyInv, CallInstalls, InstallStep
    <2>8. Handlers'
      BY <1>2, <1>7, <2>1 DEF OrderlyInv, Handlers, HasMethod, historyVars
    <2> QED BY <2>3, <2>4, <2>5, <2>6, <2>7, <2>8 DEF OrderlyInv
  <1> QED BY <1>8, <1>9, <1>10 DEF RegistryInv

(***************************************************************************)
(* Methods and events.                                                     *)
(***************************************************************************)

(* An object that is created is not an entry; a change of an entry leaves   *)
(* it alone.                                                                *)
LEMMA CreatingApart ==
  ASSUME CallInv, AliveInv, NEW a \in Elems(registry), NEW u \in Thread, Creating(u),
         \A b \in Addr \ {a} : heap'[b] = heap[b]
  PROVE  ptr[u] # a /\ heap'[ptr[u]] = heap[ptr[u]]
  BY DEF CallInv, AliveInv, Creating

(* A call that changes an entry, but neither its name, nor whether it       *)
(* accepts subscriptions, nor its reserved methods.                         *)
LEMMA EntryChanges ==
  ASSUME RegistryInv, NEW a \in Elems(registry), NEW o, GoodObject(o),
         heap' = [heap EXCEPT ![a] = o],
         o.name = heap[a].name, o.accepts = heap[a].accepts,
         \A e : e[1] \in Reserved => (e \in o.methods <=> e \in heap[a].methods),
         UNCHANGED <<registry, routes, alive, pc, name, ptr, historyVars>>
  PROVE  RegistryInv'
  <1>1. CallInv /\ AliveInv /\ a \in Addr
    BY EntryTypes DEF RegistryInv
  <1>2. /\ heap' \in [Addr -> ObjectRecord] /\ \A b \in Addr : GoodObject(heap'[b])
        /\ heap'[a] = o /\ \A b \in Addr \ {a} : heap'[b] = heap[b]
    BY <1>1, HeapUpdate
  <1>3. CallInv'
    BY <1>1, <1>2 DEF CallInv, TypeOK, GoodObject, historyVars
  <1>4. AliveInv'
    BY <1>1 DEF AliveInv, Creating, Injective
  <1>5. ASSUME ~clash' PROVE OrderlyInv'
    <2>1. OrderlyInv /\ Elems(registry)' = Elems(registry) /\ Elems(routes)' = Elems(routes)
      BY <1>5 DEF RegistryInv, historyVars
    <2>2. \A b \in Elems(registry) : heap'[b].name = heap[b].name /\ heap'[b].accepts = heap[b].accepts
      BY <1>1, <1>2, EntryTypes
    <2>3. \A b \in Elems(registry) : \A e :
             e[1] \in Reserved => (e \in heap'[b].methods <=> e \in heap[b].methods)
      BY <1>1, <1>2, EntryTypes
    <2>4. \A b \in Elems(registry), m \in Reserved :
             /\ HasMethod(b, m)' <=> HasMethod(b, m)
             /\ \A c : <<m, c>> \in heap'[b].methods <=> <<m, c>> \in heap[b].methods
      BY <2>3 DEF HasMethod
    <2>5. Apart'
      BY <2>1 DEF OrderlyInv, Apart
    <2>6. OneEach'
      BY <2>1, <2>2 DEF OrderlyInv, OneEach, Injective
    <2>7. InStep'
      <3>1. ASSUME NEW q \in Elems(routes) PROVE ListenerFor(q)'
        BY <2>1, <2>2 DEF OrderlyInv, InStep, ListenerFor
      <3>2. ASSUME NEW b \in Elems(registry) PROVE HasListener(b)'
        BY <2>1, <2>2 DEF OrderlyInv, InStep, HasListener
      <3> QED BY <2>1, <3>1, <3>2 DEF InStep
    <2>8. CallFinds'
      <3>1. \A u \in Thread : Creating(u) => heap'[ptr[u]] = heap[ptr[u]]
        BY <1>1, <1>2, CreatingApart
      <3> QED BY <2>1, <2>2, <3>1
              DEF OrderlyInv, CallFinds, NoListener, NoEntry, Creating, historyVars
    <2>9. CallInstalls'
      BY <2>1, <2>2, <2>4 DEF OrderlyInv, CallInstalls, InstallStep, Reserved
    <2>10. Handlers'
      <3>1. ASSUME NEW b \in Elems(registry)
            PROVE  /\ heap'[b].accepts => \A m \in Reserved : <<m, b>> \in heap'[b].methods
                   /\ heap'[b].name \in granted' => HasMethod(b, "_subscribe")'
                   /\ HasMethod(b, "_subscribe")' /\ b \notin short' =>
                        HasMethod(b, "_unsubscribe")'
                          \/ \E u \in Thread : pc'[u] = "second" /\ ptr'[u] = b
        <4>1. /\ HasMethod(b, "_subscribe")' <=> HasMethod(b, "_subscribe")
              /\ HasMethod(b, "_unsubscribe")' <=> HasMethod(b, "_unsubscribe")
          BY <2>4 DEF Reserved
        <4> QED BY <2>1, <2>2, <2>4, <4>1 DEF OrderlyInv, Handlers, historyVars
      <3> QED BY <2>1, <3>1 DEF Handlers
    <2> QED BY <2>5, <2>6, <2>7, <2>8, <2>9, <2>10 DEF OrderlyInv
  <1> QED BY <1>3, <1>4, <1>5 DEF RegistryInv

(* An object with its methods replaced. *)
LEMMA WithMethods ==
  ASSUME NEW o \in ObjectRecord,
         NEW M \in SUBSET ((Method \cup Reserved) \X (Addr \cup {NoThing})),
         IsFiniteSet(M), Cardinality(M) <= MaxMethods
  PROVE  /\ GoodObject([o EXCEPT !.methods = M])
         /\ [o EXCEPT !.methods = M].name = o.name /\ [o EXCEPT !.methods = M].methods = M
         /\ [o EXCEPT !.methods = M].accepts = o.accepts
  BY DEF GoodObject, ObjectRecord

(* rbus_registerMethod: a method of the application, where there is room.   *)
LEMMA RegisterMethodStep ==
  ASSUME RegistryInv, NEW t \in Thread, NEW n \in Object, NEW m \in Method,
         RegisterMethod(t, n, m), CanRegister(n, m)
  PROVE  RegistryInv'
  <1> DEFINE a == get_object(n)
             M == heap[a].methods \cup {<<m, NoThing>>}
             o == [heap[a] EXCEPT !.methods = M]
  <1>1. CallInv /\ a \in Elems(registry) /\ a \in Addr
    BY EntryTypes, GetObject DEF RegistryInv, CanRegister
  <1>2. GoodObject(heap[a])
    BY <1>1, GoodHeap
  <1>3. IsFiniteSet(M) /\ Cardinality(M) <= MaxMethods
    BY <1>2, OneMore DEF CanRegister, GoodObject
  <1>4. M \in SUBSET ((Method \cup Reserved) \X (Addr \cup {NoThing}))
    BY <1>2 DEF GoodObject, ObjectRecord
  <1>5. heap' = [heap EXCEPT ![a] = o]
    BY <1>1 DEF RegisterMethod, WithMethod, CallInv, TypeOK
  <1>6. UNCHANGED <<registry, routes, alive, pc, name, ptr, historyVars>>
    BY DEF RegisterMethod
  <1>7. \A e : e[1] \in Reserved => (e \in M <=> e \in heap[a].methods)
    BY RegistryAssumption
  <1> HIDE DEF M
  <1>8. GoodObject(o) /\ o.name = heap[a].name /\ o.methods = M /\ o.accepts = heap[a].accepts
    BY <1>2, <1>3, <1>4, WithMethods DEF GoodObject
  <1> HIDE DEF a, o
  <1> QED BY <1>1, <1>5, <1>6, <1>7, <1>8, EntryChanges

(* rbus_unregisterMethod leaves the reserved methods. *)
LEMMA UnregisterMethodStep ==
  ASSUME RegistryInv, NEW t \in Thread, NEW n \in Object, NEW m \in Method,
         UnregisterMethod(t, n, m), get_object(n) # NoThing
  PROVE  RegistryInv'
  <1> DEFINE a == get_object(n)
             M == {e \in heap[a].methods : e[1] # m}
             o == [heap[a] EXCEPT !.methods = M]
  <1>1. CallInv /\ a \in Elems(registry) /\ a \in Addr
    BY EntryTypes, GetObject DEF RegistryInv
  <1>2. GoodObject(heap[a])
    BY <1>1, GoodHeap
  <1>3. IsFiniteSet(M) /\ Cardinality(M) <= MaxMethods
    BY <1>2, NoMore DEF GoodObject
  <1>4. M \in SUBSET ((Method \cup Reserved) \X (Addr \cup {NoThing}))
    BY <1>2 DEF GoodObject, ObjectRecord
  <1>5. heap' = [heap EXCEPT ![a] = o]
    BY <1>1 DEF UnregisterMethod, CallInv, TypeOK
  <1>6. UNCHANGED <<registry, routes, alive, pc, name, ptr, historyVars>>
    BY DEF UnregisterMethod
  <1>7. \A e : e[1] \in Reserved => (e \in M <=> e \in heap[a].methods)
    BY RegistryAssumption
  <1> HIDE DEF M
  <1>8. GoodObject(o) /\ o.name = heap[a].name /\ o.methods = M /\ o.accepts = heap[a].accepts
    BY <1>2, <1>3, <1>4, WithMethods DEF GoodObject
  <1> HIDE DEF a, o
  <1> QED BY <1>1, <1>5, <1>6, <1>7, <1>8, EntryChanges

(* rbus_unregisterEvent. *)
LEMMA UnregisterEventStep ==
  ASSUME RegistryInv, NEW t \in Thread, NEW n \in Object, NEW e \in Event,
         UnregisterEvent(t, n, e), get_object(n) # NoThing
  PROVE  RegistryInv'
  <1> DEFINE a == get_object(n)
             o == [heap[a] EXCEPT !.events = @ \ {e}]
  <1>1. CallInv /\ a \in Elems(registry) /\ a \in Addr
    BY EntryTypes, GetObject DEF RegistryInv
  <1>2. GoodObject(heap[a])
    BY <1>1, GoodHeap
  <1>3. heap' = [heap EXCEPT ![a] = o]
    BY <1>1 DEF UnregisterEvent, CallInv, TypeOK
  <1>4. UNCHANGED <<registry, routes, alive, pc, name, ptr, historyVars>>
    BY DEF UnregisterEvent
  <1>5. /\ GoodObject(o) /\ o.name = heap[a].name /\ o.methods = heap[a].methods
        /\ o.accepts = heap[a].accepts
    BY <1>2 DEF GoodObject, ObjectRecord
  <1> HIDE DEF a, o
  <1> QED BY <1>1, <1>3, <1>4, <1>5, EntryChanges

(***************************************************************************)
(* install_subscription_handlers.                                          *)
(***************************************************************************)

(* A step of thread t, which is not creating or destroying an object, that  *)
(* replaces the entry a by o and leaves its name.                           *)
LEMMA EntryReplaced ==
  ASSUME RegistryInv, NEW t \in Thread, pc[t] \notin ObjectStep,
         NEW a \in Elems(registry), NEW s, NEW n, NEW p, CallState(s, n, p),
         Continue(t, s, n, p), s \notin ObjectStep,
         \A b \in Addr \ {a} : heap'[b] = heap[b],
         heap'[a].name = heap[a].name,
         UNCHANGED <<registry, routes, alive>>, OrderlyInv,
         s # "idle" => \A u \in Thread \ {t} : pc[u] \in ObjectStep => name[u] # n,
         \A u \in Thread : Creating(u) => ptr[u] \notin short' /\ name[u] \notin granted'
  PROVE  Apart' /\ OneEach' /\ InStep' /\ CallFinds'
  <1>1. CallInv /\ AliveInv /\ Elems(registry) \subseteq Addr
    BY EntryTypes DEF RegistryInv
  <1>2. OrderlyInv /\ Elems(registry)' = Elems(registry) /\ Elems(routes)' = Elems(routes)
    OBVIOUS
  <1>3. /\ pc'[t] = s /\ name'[t] = n /\ ptr'[t] = p
        /\ \A u \in Thread \ {t} : pc'[u] = pc[u] /\ name'[u] = name[u] /\ ptr'[u] = ptr[u]
    BY <1>1, Moves
  <1>4. \A b \in Elems(registry) : heap'[b].name = heap[b].name
    BY <1>1
  <1>5. \A u \in Thread : Creating(u)' <=> Creating(u)
    BY <1>3 DEF Creating, ObjectStep
  <1>6. \A u \in Thread : Creating(u) => heap'[ptr[u]] = heap[ptr[u]] /\ u # t
    BY <1>1, CreatingApart DEF Creating, ObjectStep
  <1>7. s # "idle" => s \in InstallStep
    BY DEF CallState, InstallStep, ObjectStep
  <1>8. \A u \in Thread : pc'[u] # "idle" => pc'[u] \in ObjectStep \/ pc'[u] \in InstallStep
    BY <1>1, Moves DEF InstallStep, ObjectStep
  <1>9. Apart'
    BY <1>2, <1>3, <1>7, <1>8 DEF OrderlyInv, Apart, ObjectStep, InstallStep
  <1>10. OneEach'
    BY <1>2, <1>4 DEF OrderlyInv, OneEach, Injective
  <1>11. InStep'
    <2>1. ASSUME NEW q \in Elems(routes) PROVE ListenerFor(q)'
      BY <1>2, <1>3, <1>4 DEF OrderlyInv, InStep, ListenerFor, ObjectStep
    <2>2. ASSUME NEW b \in Elems(registry) PROVE HasListener(b)'
      BY <1>2, <1>3, <1>4 DEF OrderlyInv, InStep, HasListener, ObjectStep
    <2> QED BY <1>2, <2>1, <2>2 DEF InStep
  <1>12. CallFinds'
    <2>1. \A u \in Thread : pc'[u] \in ObjectStep => u # t
      BY <1>3
    <2> QED BY <1>2, <1>3, <1>4, <1>5, <1>6, <2>1
            DEF OrderlyInv, CallFinds, NoListener, NoEntry, Creating, ObjectStep
  <1> QED BY <1>9, <1>10, <1>11, <1>12

(* The first handler, or nothing to do, for the entry that the caller found *)
(* and in which it has changed o.                                           *)
LEMMA InstallFirstStep ==
  ASSUME RegistryInv, NEW t \in Thread, NEW n \in Object, pc[t] = "idle",
         NEW a, a = get_object(n), a # NoThing,
         NEW o, GoodObject(o), o.name = heap[a].name, o.methods = heap[a].methods,
         o.accepts = heap[a].accepts,
         InstallFirst(t, a, [heap EXCEPT ![a] = o]),
         NoteClash(t, n, ObjectStep), UNCHANGED <<registry, routes, alive, short>>
  PROVE  RegistryInv'
  <1> DEFINE M == o.methods \cup {<<"_subscribe", a>>}
  <1>1. /\ CallInv /\ AliveInv /\ a \in Elems(registry) /\ a \in Addr
        /\ heap[a].name = n /\ heap \in [Addr -> ObjectRecord] /\ o \in ObjectRecord
    BY EntryTypes, GetObject DEF RegistryInv, CallInv, TypeOK, GoodObject
  <1>2. PICK s, q, p, o1 :
          /\ Continue(t, s, q, p) /\ CallState(s, q, p)
          /\ heap' = [heap EXCEPT ![a] = o1] /\ GoodObject(o1)
          /\ o1.name = n /\ o1.accepts = heap[a].accepts
          /\ \/ /\ s = "idle" /\ o1.methods = heap[a].methods
                /\ granted' = granted \/ /\ granted' = granted \cup {n}
                                         /\ heap[a].accepts \/ HasMethod(a, "_subscribe")
             \/ /\ s = "second" /\ q = n /\ p = a /\ granted' = granted
                /\ o1.methods = heap[a].methods \cup {<<"_subscribe", a>>}
    <2>1. CASE Return(t)
      <3>1. heap' = [heap EXCEPT ![a] = o]
        BY <1>1, <2>1 DEF InstallFirst, Return, Continue, CallInv, TypeOK
      <3>2. granted' = granted \/ /\ granted' = granted \cup {n}
                                  /\ heap[a].accepts \/ HasMethod(a, "_subscribe")
        BY <1>1, <2>1 DEF InstallFirst, Return, Continue, CallInv, TypeOK
      <3> QED BY <1>1, <2>1, <3>1, <3>2, Returns
    <2>2. CASE Continue(t, "second", n, a) /\ ~Return(t)
      <3>1. /\ CanRegister(n, "_subscribe") /\ UNCHANGED granted
            /\ heap' = [[heap EXCEPT ![a] = o] EXCEPT ![a].methods = @ \cup {<<"_subscribe", a>>}]
        BY <1>1, <2>2 DEF InstallFirst
      <3>2. heap' = [heap EXCEPT ![a] = [o EXCEPT !.methods = M]]
        BY <1>1, <3>1
      <3>3. IsFiniteSet(M) /\ Cardinality(M) <= MaxMethods
        BY <3>1, OneMore DEF CanRegister, GoodObject
      <3>4. M \in SUBSET ((Method \cup Reserved) \X (Addr \cup {NoThing}))
        BY <1>1 DEF ObjectRecord, Reserved
      <3> HIDE DEF M
      <3> DEFINE o2 == [o EXCEPT !.methods = M]
      <3>5. GoodObject(o2) /\ o2.name = o.name /\ o2.methods = M /\ o2.accepts = o.accepts
        BY <1>1, <3>3, <3>4, WithMethods
      <3>6. CallState("second", n, a)
        BY <1>1 DEF CallState
      <3>7. heap' = [heap EXCEPT ![a] = o2]
        BY <3>2
      <3> HIDE DEF o2
      <3>8. o2.name = n /\ o2.methods = heap[a].methods \cup {<<"_subscribe", a>>}
        BY <1>1, <3>5 DEF M
      <3>9. o2.accepts = heap[a].accepts /\ granted' = granted /\ Continue(t, "second", n, a)
        BY <2>2, <3>1, <3>5
      <3> WITNESS "second", n, a, o2
      <3> QED BY <3>5, <3>6, <3>7, <3>8, <3>9
    <2> QED BY <1>1, <2>1, <2>2 DEF InstallFirst
  <1> HIDE DEF M
  <1>3. s = "second" => q = n
    BY <1>2
  <1>4. Continue(t, s, q, p) /\ CallState(s, q, p) /\ s \in {"idle", "second"}
    BY <1>2
  <1>5. /\ pc'[t] = s /\ name'[t] = q /\ ptr'[t] = p
        /\ \A u \in Thread \ {t} : pc'[u] = pc[u] /\ name'[u] = name[u] /\ ptr'[u] = ptr[u]
    BY <1>1, <1>4, Moves
  <1>6. /\ heap' \in [Addr -> ObjectRecord] /\ \A b \in Addr : GoodObject(heap'[b])
        /\ heap'[a] = o1 /\ \A b \in Addr \ {a} : heap'[b] = heap[b]
    BY <1>1, <1>2, HeapUpdate
  <1>7. CallInv'
    <2>1. /\ pc' \in [Thread -> {"idle", "add", "push", "remove", "second", "flag"}]
          /\ name' \in [Thread -> Object \cup {NoThing}]
          /\ ptr' \in [Thread -> Addr \cup {NoThing}]
          /\ \A u \in Thread : pc'[u] # "idle" => name'[u] \in Object
          /\ \A u \in Thread : pc'[u] \in {"add", "push", "second", "flag"} => ptr'[u] \in Addr
      BY <1>1, <1>4, Moves
    <2>2. granted' \subseteq Object /\ short' \subseteq Addr /\ clash' \in BOOLEAN
      BY <1>1, <1>2 DEF CallInv, TypeOK, NoteClash
    <2> QED BY <1>1, <1>6, <2>1, <2>2, EntryTypes, CallInvNext
  <1>8. AliveInv'
    BY <1>1, <1>4, <1>5 DEF AliveInv, Creating, Injective
  <1>9. ASSUME ~clash' PROVE OrderlyInv'
    <2>1. /\ OrderlyInv /\ Elems(registry)' = Elems(registry)
          /\ \A u \in Thread \ {t} : pc[u] \in ObjectStep => name[u] # n
      BY <1>1, <1>9 DEF NoteClash, RegistryInv, CallInv, TypeOK
    <2>2. \A u \in Thread : Creating(u) => ptr[u] \notin short' /\ name[u] \notin granted'
      BY <1>2, <2>1 DEF OrderlyInv, CallFinds, Creating, ObjectStep
    <2>3. Apart' /\ OneEach' /\ InStep' /\ CallFinds'
      <3>1. pc[t] \notin ObjectStep /\ s \notin ObjectStep
        BY <1>4 DEF ObjectStep
      <3>2. s # "idle" => \A u \in Thread \ {t} : pc[u] \in ObjectStep => name[u] # q
        BY <1>3, <1>4, <2>1
      <3> QED BY <1>1, <1>2, <1>4, <1>6, <2>1, <2>2, <3>1, <3>2, EntryReplaced
    <2>4. \A b \in Elems(registry) :
             /\ heap'[b].name = heap[b].name /\ heap'[b].accepts = heap[b].accepts
             /\ heap[b].methods \subseteq heap'[b].methods
      BY <1>1, <1>2, <1>6, EntryTypes
    <2>5. CallInstalls'
      <3>1. s = "second" => /\ ptr'[t] \in Elems(registry)' /\ heap'[ptr'[t]].name = name'[t]
                            /\ <<"_subscribe", ptr'[t]>> \in heap'[ptr'[t]].methods
        BY <1>1, <1>2, <1>3, <1>5, <1>6, <2>1
      <3>2. ASSUME NEW u \in Thread \ {t}, pc[u] \in InstallStep
            PROVE  /\ ptr[u] \in Elems(registry) /\ heap'[ptr[u]].name = name[u]
                   /\ <<"_subscribe", ptr[u]>> \in heap'[ptr[u]].methods
                   /\ pc[u] = "flag" => <<"_unsubscribe", ptr[u]>> \in heap'[ptr[u]].methods
        BY <2>1, <2>4, <3>2 DEF OrderlyInv, CallInstalls
      <3> QED BY <1>4, <1>5, <2>1, <3>1, <3>2 DEF CallInstalls, InstallStep
    <2>6. Handlers'
      <3>1. ASSUME NEW b \in Elems(registry), b # a
            PROVE  /\ heap'[b] = heap[b]
                   /\ heap[b].name # n
        BY <1>1, <1>6, <2>1, <3>1, EntryTypes DEF OrderlyInv, OneEach
      <3>2. ASSUME NEW b \in Elems(registry)
            PROVE  /\ heap'[b].accepts => \A m \in Reserved : <<m, b>> \in heap'[b].methods
                   /\ heap'[b].name \in granted' => HasMethod(b, "_subscribe")'
                   /\ HasMethod(b, "_subscribe")' /\ b \notin short' =>
                        HasMethod(b, "_unsubscribe")'
                          \/ \E u \in Thread : pc'[u] = "second" /\ ptr'[u] = b
        <4>1. CASE b # a
          <5>1. heap'[b] = heap[b] /\ (heap[b].name \in granted' => heap[b].name \in granted)
            BY <1>2, <3>1, <4>1
          <5>2. \A u \in Thread : pc[u] = "second" => pc'[u] = "second" /\ ptr'[u] = ptr[u]
            BY <1>5
          <5> QED BY <2>1, <5>1, <5>2 DEF OrderlyInv, Handlers, HasMethod
        <4>2. CASE b = a /\ s = "second"
          <5>1. <<"_subscribe", a>> \in heap'[a].methods
            BY <1>2, <1>6, <4>2
          <5>2. HasMethod(b, "_subscribe")'
            BY <4>2, <5>1 DEF HasMethod
          <5>3. \E u \in Thread : pc'[u] = "second" /\ ptr'[u] = b
            BY <1>2, <1>5, <4>2
          <5> QED BY <2>1, <2>4, <5>2, <5>3 DEF OrderlyInv, Handlers
        <4>3. CASE b = a /\ s = "idle"
          <5>1. heap'[b].methods = heap[b].methods
            BY <1>2, <1>6, <4>3
          <5>2. \A m : HasMethod(b, m)' <=> HasMethod(b, m)
            BY <5>1 DEF HasMethod
          <5>3. heap[b].accepts => HasMethod(b, "_subscribe")
            <6>1. heap[b].accepts => <<"_subscribe", b>> \in heap[b].methods
              BY <2>1 DEF OrderlyInv, Handlers, Reserved
            <6> QED BY <6>1 DEF HasMethod
          <5>4. \A u \in Thread : pc[u] = "second" => pc'[u] = "second" /\ ptr'[u] = ptr[u]
            BY <1>5
          <5>5. heap'[b].name \in granted' => HasMethod(b, "_subscribe")
            BY <1>2, <2>1, <2>4, <4>3, <5>3 DEF OrderlyInv, Handlers
          <5> QED BY <2>1, <2>4, <5>1, <5>2, <5>4, <5>5 DEF OrderlyInv, Handlers
        <4> QED BY <1>4, <4>1, <4>2, <4>3
      <3> QED BY <2>1, <3>2 DEF Handlers
    <2> QED BY <2>3, <2>5, <2>6 DEF OrderlyInv
  <1> QED BY <1>7, <1>8, <1>9 DEF RegistryInv

(* rbus_registerEvent and rbus_registerSubscribeHandler. *)
LEMMA RegisterEventStep ==
  ASSUME RegistryInv, NEW t \in Thread, NEW n \in Object,
         \/ \E e \in Event : RegisterEvent(t, n, e)
         \/ RegisterSubscribeHandler(t, n)
  PROVE  RegistryInv'
  <1>1. PICK a : a = get_object(n)
    OBVIOUS
  <1>2. /\ pc[t] = "idle" /\ NoteClash(t, n, ObjectStep)
        /\ UNCHANGED <<registry, routes, alive, short>>
        /\ a = NoThing => UNCHANGED <<heap, pc, name, ptr, granted>>
    BY <1>1 DEF RegisterEvent, RegisterSubscribeHandler
  <1>3. CASE a = NoThing
    <2>1. CallInv /\ AliveInv
      BY DEF RegistryInv
    <2>2. CallInv' /\ AliveInv'
      BY <1>2, <1>3, <2>1 DEF CallInv, TypeOK, AliveInv, Creating, Injective, NoteClash
    <2>3. ASSUME ~clash' PROVE OrderlyInv'
      <3>1. OrderlyInv /\ Elems(registry)' = Elems(registry) /\ Elems(routes)' = Elems(routes)
        BY <1>2, <2>1, <2>3 DEF NoteClash, RegistryInv, CallInv, TypeOK
      <3> QED BY <1>2, <1>3, <3>1
              DEF OrderlyInv, Apart, OneEach, Injective, InStep, ListenerFor, HasListener,
                  CallFinds, NoEntry, NoListener, Creating, CallInstalls, Handlers, HasMethod
    <2> QED BY <2>2, <2>3 DEF RegistryInv
  <1>4. CASE a # NoThing
    <2>1. a \in Addr /\ heap \in [Addr -> ObjectRecord] /\ GoodObject(heap[a])
      BY <1>1, <1>4, EntryTypes, GetObject, GoodHeap DEF RegistryInv
    <2>2. PICK o : /\ GoodObject(o) /\ o.name = heap[a].name /\ o.methods = heap[a].methods
                   /\ o.accepts = heap[a].accepts
                   /\ InstallFirst(t, a, [heap EXCEPT ![a] = o])
      <3>1. ASSUME NEW e \in Event, RegisterEvent(t, n, e)
            PROVE  \E o : /\ GoodObject(o) /\ o.name = heap[a].name
                          /\ o.methods = heap[a].methods /\ o.accepts = heap[a].accepts
                          /\ InstallFirst(t, a, [heap EXCEPT ![a] = o])
        <4> DEFINE o == [heap[a] EXCEPT !.events = @ \cup {e}]
        <4>1. /\ GoodObject(o) /\ o.name = heap[a].name /\ o.methods = heap[a].methods
              /\ o.accepts = heap[a].accepts
          BY <2>1 DEF GoodObject, ObjectRecord
        <4>2. [heap EXCEPT ![a].events = @ \cup {e}] = [heap EXCEPT ![a] = o]
          BY <2>1
        <4>3. InstallFirst(t, a, [heap EXCEPT ![a].events = @ \cup {e}])
          BY <1>1, <1>4, <3>1 DEF RegisterEvent
        <4> HIDE DEF o
        <4> QED BY <4>1, <4>2, <4>3
      <3>2. ASSUME RegisterSubscribeHandler(t, n)
            PROVE  \E o : /\ GoodObject(o) /\ o.name = heap[a].name
                          /\ o.methods = heap[a].methods /\ o.accepts = heap[a].accepts
                          /\ InstallFirst(t, a, [heap EXCEPT ![a] = o])
        <4> DEFINE o == [heap[a] EXCEPT !.override = TRUE]
        <4>1. /\ GoodObject(o) /\ o.name = heap[a].name /\ o.methods = heap[a].methods
              /\ o.accepts = heap[a].accepts
          BY <2>1 DEF GoodObject, ObjectRecord
        <4>2. [heap EXCEPT ![a].override = TRUE] = [heap EXCEPT ![a] = o]
          BY <2>1
        <4>3. InstallFirst(t, a, [heap EXCEPT ![a].override = TRUE])
          BY <1>1, <1>4, <3>2 DEF RegisterSubscribeHandler
        <4> HIDE DEF o
        <4> QED BY <4>1, <4>2, <4>3
      <3> QED BY <3>1, <3>2
    <2> QED BY <1>1, <1>2, <1>4, <2>2, InstallFirstStep
  <1> QED BY <1>3, <1>4

(* The second handler goes to the object that has the first one, or the     *)
(* object is known to lack it.                                              *)
LEMMA InstallSecondStep ==
  ASSUME RegistryInv, NEW t \in Thread, InstallSecond(t)
  PROVE  RegistryInv'
  <1>0. PICK p, n, g : p = ptr[t] /\ n = heap[p].name /\ g = get_object(n)
    OBVIOUS
  <1>1. /\ CallInv /\ AliveInv /\ pc[t] = "second" /\ p \in Addr /\ name[t] \in Object
        /\ heap \in [Addr -> ObjectRecord]
    BY <1>0 DEF RegistryInv, InstallSecond, CallInv, TypeOK
  <1>2. UNCHANGED <<registry, routes, alive, granted, clash>>
    BY DEF InstallSecond
  <1>3. CASE CanRegister(n, "_unsubscribe")
    <2> DEFINE M == heap[g].methods \cup {<<"_unsubscribe", p>>}
               o == [heap[g] EXCEPT !.methods = M]
    <2>1. g \in Elems(registry) /\ g \in Addr /\ heap[g].name = n /\ GoodObject(heap[g])
      BY <1>0, <1>1, <1>3, EntryTypes, GetObject, GoodHeap DEF CanRegister
    <2>2. /\ heap' = [heap EXCEPT ![g] = o]
          /\ Continue(t, "flag", name[t], p) /\ CallState("flag", name[t], p)
          /\ UNCHANGED short
      BY <1>0, <1>1, <1>3, <2>1 DEF InstallSecond, WithMethod, CallState
    <2>3. IsFiniteSet(M) /\ Cardinality(M) <= MaxMethods
      BY <1>0, <1>3, <2>1, OneMore DEF CanRegister, GoodObject
    <2>4. M \in SUBSET ((Method \cup Reserved) \X (Addr \cup {NoThing}))
      BY <1>1, <2>1 DEF GoodObject, ObjectRecord, Reserved
    <2>5. heap[g].methods \subseteq M /\ <<"_unsubscribe", p>> \in M
          /\ \A e \in M : e \in heap[g].methods \/ e[1] = "_unsubscribe"
      OBVIOUS
    <2> HIDE DEF M
    <2>6. GoodObject(o) /\ o.name = n /\ o.methods = M /\ o.accepts = heap[g].accepts
      BY <2>1, <2>3, <2>4, WithMethods DEF GoodObject
    <2> HIDE DEF o
    <2>7. /\ heap' \in [Addr -> ObjectRecord] /\ \A b \in Addr : GoodObject(heap'[b])
          /\ heap'[g] = o /\ \A b \in Addr \ {g} : heap'[b] = heap[b]
      BY <1>1, <2>1, <2>2, <2>6, HeapUpdate
    <2>8. /\ pc'[t] = "flag" /\ name'[t] = name[t] /\ ptr'[t] = p
          /\ \A u \in Thread \ {t} : pc'[u] = pc[u] /\ name'[u] = name[u] /\ ptr'[u] = ptr[u]
      BY <1>1, <2>2, Moves
    <2>9. CallInv'
      <3>1. /\ pc' \in [Thread -> {"idle", "add", "push", "remove", "second", "flag"}]
            /\ name' \in [Thread -> Object \cup {NoThing}]
            /\ ptr' \in [Thread -> Addr \cup {NoThing}]
            /\ \A u \in Thread : pc'[u] # "idle" => name'[u] \in Object
            /\ \A u \in Thread : pc'[u] \in {"add", "push", "second", "flag"} => ptr'[u] \in Addr
        BY <1>1, <2>2, Moves
      <3>2. granted' \subseteq Object /\ short' \subseteq Addr /\ clash' \in BOOLEAN
        BY <1>1, <1>2, <2>2 DEF CallInv, TypeOK
      <3> QED BY <1>1, <1>2, <2>7, <3>1, <3>2, EntryTypes, CallInvNext
    <2>10. AliveInv'
      BY <1>1, <1>2, <2>8 DEF AliveInv, Creating, Injective
    <2>11. ASSUME ~clash' PROVE OrderlyInv'
      <3>1. OrderlyInv /\ Elems(registry)' = Elems(registry)
        BY <1>2, <2>11 DEF RegistryInv
      <3>2. /\ p \in Elems(registry) /\ n = name[t] /\ g = p
            /\ <<"_subscribe", p>> \in heap[p].methods
        BY <1>0, <1>1, <2>1, <3>1 DEF OrderlyInv, CallInstalls, OneEach, InstallStep
      <3>3. \A u \in Thread \ {t} : pc[u] \in ObjectStep => name[u] # name[t]
        BY <1>1, <3>1 DEF OrderlyInv, Apart, ObjectStep, InstallStep
      <3>4. Apart' /\ OneEach' /\ InStep' /\ CallFinds'
        <4>1. pc[t] \notin ObjectStep /\ "flag" \notin ObjectStep
          BY <1>1 DEF ObjectStep
        <4>2. \A u \in Thread : Creating(u) => ptr[u] \notin short' /\ name[u] \notin granted'
          BY <1>2, <2>2, <3>1 DEF OrderlyInv, CallFinds
        <4>3. heap'[g].name = heap[g].name
          BY <2>1, <2>6, <2>7
        <4> QED BY <1>2, <2>1, <2>2, <2>7, <3>1, <3>3, <4>1, <4>2, <4>3, EntryReplaced
      <3>5. \A b \in Elems(registry) :
               /\ heap'[b].name = heap[b].name /\ heap'[b].accepts = heap[b].accepts
               /\ heap[b].methods \subseteq heap'[b].methods
               /\ \A e \in heap'[b].methods : e \in heap[b].methods \/ e[1] = "_unsubscribe"
        BY <1>1, <2>1, <2>5, <2>6, <2>7, EntryTypes
      <3>6. CallInstalls'
        <4>1. /\ ptr'[t] \in Elems(registry)' /\ heap'[ptr'[t]].name = name'[t]
              /\ <<"_subscribe", ptr'[t]>> \in heap'[ptr'[t]].methods
              /\ <<"_unsubscribe", ptr'[t]>> \in heap'[ptr'[t]].methods
          BY <1>0, <2>5, <2>6, <2>7, <2>8, <3>1, <3>2, <3>5
        <4>2. ASSUME NEW u \in Thread \ {t}, pc[u] \in InstallStep
              PROVE  /\ ptr[u] \in Elems(registry) /\ heap'[ptr[u]].name = name[u]
                     /\ <<"_subscribe", ptr[u]>> \in heap'[ptr[u]].methods
                     /\ pc[u] = "flag" => <<"_unsubscribe", ptr[u]>> \in heap'[ptr[u]].methods
          BY <3>1, <3>5, <4>2 DEF OrderlyInv, CallInstalls
        <4> QED BY <2>8, <3>1, <4>1, <4>2 DEF CallInstalls, InstallStep
      <3>7. Handlers'
        <4>1. ASSUME NEW b \in Elems(registry)
              PROVE  /\ heap'[b].accepts => \A m \in Reserved : <<m, b>> \in heap'[b].methods
                     /\ heap'[b].name \in granted' => HasMethod(b, "_subscribe")'
                     /\ HasMethod(b, "_subscribe")' /\ b \notin short' =>
                          HasMethod(b, "_unsubscribe")'
                            \/ \E u \in Thread : pc'[u] = "second" /\ ptr'[u] = b
          <5>1. /\ HasMethod(b, "_subscribe")' <=> HasMethod(b, "_subscribe")
                /\ HasMethod(b, "_unsubscribe") => HasMethod(b, "_unsubscribe")'
            BY <3>5 DEF HasMethod
          <5>2. CASE b = p
            <6>1. HasMethod(b, "_unsubscribe")'
              BY <2>5, <2>6, <2>7, <3>2, <5>2 DEF HasMethod
            <6> QED BY <1>2, <3>1, <3>5, <5>1, <6>1 DEF OrderlyInv, Handlers
          <5>3. CASE b # p
            <6>1. \A u \in Thread : pc[u] = "second" /\ ptr[u] = b =>
                     pc'[u] = "second" /\ ptr'[u] = b
              BY <1>0, <2>8, <5>3
            <6> QED BY <1>2, <2>2, <3>1, <3>5, <5>1, <6>1 DEF OrderlyInv, Handlers
          <5> QED BY <5>2, <5>3
        <4> QED BY <3>1, <4>1 DEF Handlers
      <3> QED BY <3>4, <3>6, <3>7 DEF OrderlyInv
    <2> QED BY <2>9, <2>10, <2>11 DEF RegistryInv
  <1>4. CASE ~CanRegister(n, "_unsubscribe")
    <2>1. /\ heap' = heap /\ short' = short \cup {p}
          /\ Continue(t, "idle", NoThing, NoThing) /\ CallState("idle", NoThing, NoThing)
      BY <1>0, <1>4, Returns DEF InstallSecond
    <2>2. /\ pc'[t] = "idle" /\ name'[t] = NoThing /\ ptr'[t] = NoThing
          /\ \A u \in Thread \ {t} : pc'[u] = pc[u] /\ name'[u] = name[u] /\ ptr'[u] = ptr[u]
      BY <1>1, <2>1, Moves
    <2>3. CallInv'
      <3>1. /\ pc' \in [Thread -> {"idle", "add", "push", "remove", "second", "flag"}]
            /\ name' \in [Thread -> Object \cup {NoThing}]
            /\ ptr' \in [Thread -> Addr \cup {NoThing}]
            /\ \A u \in Thread : pc'[u] # "idle" => name'[u] \in Object
            /\ \A u \in Thread : pc'[u] \in {"add", "push", "second", "flag"} => ptr'[u] \in Addr
        BY <1>1, <2>1, Moves
      <3>2. granted' \subseteq Object /\ short' \subseteq Addr /\ clash' \in BOOLEAN
        BY <1>1, <1>2, <2>1 DEF CallInv, TypeOK
      <3>3. heap' \in [Addr -> ObjectRecord] /\ \A b \in Addr : GoodObject(heap'[b])
        BY <1>1, <2>1, GoodHeap
      <3> QED BY <1>1, <1>2, <3>1, <3>2, <3>3, EntryTypes, CallInvNext
    <2>4. AliveInv'
      BY <1>1, <1>2, <2>2 DEF AliveInv, Creating, Injective
    <2>5. ASSUME ~clash' PROVE OrderlyInv'
      <3>1. OrderlyInv /\ Elems(registry)' = Elems(registry)
        BY <1>2, <2>5 DEF RegistryInv
      <3>2. p \in Elems(registry)
        BY <1>0, <1>1, <3>1 DEF OrderlyInv, CallInstalls, InstallStep
      <3>3. Apart' /\ OneEach' /\ InStep' /\ CallFinds'
        <4>1. pc[t] \notin ObjectStep /\ "idle" \notin ObjectStep
          BY <1>1 DEF ObjectStep
        <4>2. \A u \in Thread : Creating(u) => ptr[u] \notin short' /\ name[u] \notin granted'
          BY <1>1, <1>2, <2>1, <3>1, <3>2 DEF OrderlyInv, CallFinds, AliveInv
        <4> QED BY <1>2, <2>1, <3>1, <3>2, <4>1, <4>2, EntryReplaced
      <3>4. CallInstalls'
        BY <2>1, <2>2, <3>1 DEF OrderlyInv, CallInstalls, InstallStep
      <3>5. Handlers'
        <4>1. \A u \in Thread, b \in Elems(registry) :
                 pc[u] = "second" /\ ptr[u] = b /\ b # p => pc'[u] = "second" /\ ptr'[u] = b
          BY <1>0, <2>2
        <4> QED BY <1>2, <2>1, <3>1, <4>1 DEF OrderlyInv, Handlers, HasMethod
      <3> QED BY <3>3, <3>4, <3>5 DEF OrderlyInv
    <2> QED BY <2>3, <2>4, <2>5 DEF RegistryInv
  <1> QED BY <1>3, <1>4

(* process_event_subscriptions is set for an object with both handlers.     *)
LEMMA InstallFlagStep ==
  ASSUME RegistryInv, NEW t \in Thread, InstallFlag(t)
  PROVE  RegistryInv'
  <1>0. PICK p, n : p = ptr[t] /\ n = name[t]
    OBVIOUS
  <1> DEFINE o == [heap[p] EXCEPT !.accepts = TRUE]
  <1>1. /\ CallInv /\ AliveInv /\ pc[t] = "flag" /\ p \in Addr /\ n \in Object
        /\ heap \in [Addr -> ObjectRecord] /\ GoodObject(heap[p])
    BY <1>0, GoodHeap DEF RegistryInv, InstallFlag, CallInv, TypeOK
  <1>2. /\ Continue(t, "idle", NoThing, NoThing) /\ CallState("idle", NoThing, NoThing)
        /\ granted' = granted \cup {n} /\ UNCHANGED <<registry, routes, alive, short, clash>>
    BY <1>0, Returns DEF InstallFlag
  <1>3. heap' = [heap EXCEPT ![p] = o]
    BY <1>0, <1>1 DEF InstallFlag
  <1>4. /\ GoodObject(o) /\ o.name = heap[p].name /\ o.methods = heap[p].methods
        /\ o.accepts = TRUE
    BY <1>1 DEF GoodObject, ObjectRecord
  <1> HIDE DEF o
  <1>5. /\ heap' \in [Addr -> ObjectRecord] /\ \A b \in Addr : GoodObject(heap'[b])
        /\ heap'[p] = o /\ \A b \in Addr \ {p} : heap'[b] = heap[b]
    BY <1>1, <1>3, <1>4, HeapUpdate
  <1>6. /\ pc'[t] = "idle"
        /\ \A u \in Thread \ {t} : pc'[u] = pc[u] /\ name'[u] = name[u] /\ ptr'[u] = ptr[u]
    BY <1>1, <1>2, Moves
  <1>7. CallInv'
    <2>1. /\ pc' \in [Thread -> {"idle", "add", "push", "remove", "second", "flag"}]
          /\ name' \in [Thread -> Object \cup {NoThing}]
          /\ ptr' \in [Thread -> Addr \cup {NoThing}]
          /\ \A u \in Thread : pc'[u] # "idle" => name'[u] \in Object
          /\ \A u \in Thread : pc'[u] \in {"add", "push", "second", "flag"} => ptr'[u] \in Addr
      BY <1>1, <1>2, Moves
    <2>2. granted' \subseteq Object /\ short' \subseteq Addr /\ clash' \in BOOLEAN
      BY <1>1, <1>2 DEF CallInv, TypeOK
    <2> QED BY <1>1, <1>2, <1>5, <2>1, <2>2, EntryTypes, CallInvNext
  <1>8. AliveInv'
    BY <1>1, <1>2, <1>6 DEF AliveInv, Creating, Injective
  <1>9. ASSUME ~clash' PROVE OrderlyInv'
    <2>1. OrderlyInv /\ Elems(registry)' = Elems(registry)
      BY <1>2, <1>9 DEF RegistryInv
    <2>2. /\ p \in Elems(registry) /\ heap[p].name = n
          /\ \A m \in Reserved : <<m, p>> \in heap[p].methods
      BY <1>0, <1>1, <2>1 DEF OrderlyInv, CallInstalls, InstallStep, Reserved
    <2>3. \A u \in Thread \ {t} : pc[u] \in ObjectStep => name[u] # n
      BY <1>0, <1>1, <2>1 DEF OrderlyInv, Apart, ObjectStep, InstallStep
    <2>4. Apart' /\ OneEach' /\ InStep' /\ CallFinds'
      <3>1. pc[t] \notin ObjectStep /\ "idle" \notin ObjectStep
        BY <1>1 DEF ObjectStep
      <3>2. \A u \in Thread : Creating(u) => ptr[u] \notin short' /\ name[u] \notin granted'
        BY <1>1, <1>2, <2>1, <2>3 DEF OrderlyInv, CallFinds, Creating, ObjectStep
      <3>3. heap'[p].name = heap[p].name
        BY <1>4, <1>5
      <3> QED BY <1>2, <1>5, <2>1, <2>2, <3>1, <3>2, <3>3, EntryReplaced
    <2>5. \A b \in Elems(registry) :
             heap'[b].name = heap[b].name /\ heap'[b].methods = heap[b].methods
      BY <1>1, <1>4, <1>5, EntryTypes
    <2>6. CallInstalls'
      BY <1>6, <2>1, <2>5 DEF OrderlyInv, CallInstalls, InstallStep
    <2>7. Handlers'
      <3>1. ASSUME NEW b \in Elems(registry)
            PROVE  /\ heap'[b].accepts => \A m \in Reserved : <<m, b>> \in heap'[b].methods
                   /\ heap'[b].name \in granted' => HasMethod(b, "_subscribe")'
                   /\ HasMethod(b, "_subscribe")' /\ b \notin short' =>
                        HasMethod(b, "_unsubscribe")'
                          \/ \E u \in Thread : pc'[u] = "second" /\ ptr'[u] = b
        <4>1. \A m : HasMethod(b, m)' <=> HasMethod(b, m)
          BY <2>5 DEF HasMethod
        <4>2. \A u \in Thread : pc[u] = "second" => pc'[u] = "second" /\ ptr'[u] = ptr[u]
          BY <1>1, <1>6
        <4>3. CASE b = p
          <5>1. HasMethod(b, "_subscribe")
            BY <2>2, <4>3 DEF HasMethod, Reserved
          <5> QED BY <1>2, <2>1, <2>2, <2>5, <4>1, <4>2, <4>3, <5>1 DEF OrderlyInv, Handlers
        <4>4. CASE b # p
          <5>1. heap'[b] = heap[b] /\ heap[b].name # n
            BY <1>1, <1>5, <2>1, <2>2, <4>4, EntryTypes DEF OrderlyInv, OneEach
          <5> QED BY <1>2, <2>1, <4>1, <4>2, <5>1 DEF OrderlyInv, Handlers
        <4> QED BY <4>3, <4>4
      <3> QED BY <2>1, <3>1 DEF Handlers
    <2> QED BY <2>4, <2>6, <2>7 DEF OrderlyInv
  <1> QED BY <1>7, <1>8, <1>9 DEF RegistryInv

(***************************************************************************)
(* The theorems.                                                           *)
(***************************************************************************)

(* No step changes anything. *)
LEMMA RegistryStutter ==
  ASSUME RegistryInv, UNCHANGED vars
  PROVE  RegistryInv'
  <1>1. Elems(registry)' = Elems(registry) /\ Elems(routes)' = Elems(routes)
    BY DEF vars
  <1>2. CallInv' /\ AliveInv'
    BY DEF vars, historyVars, RegistryInv, CallInv, TypeOK, AliveInv, Creating, Injective
  <1>3. OrderlyInv => OrderlyInv'
    BY <1>1 DEF vars, historyVars, OrderlyInv, Apart, OneEach, Injective, InStep, ListenerFor,
                HasListener, CallFinds, NoEntry, NoListener, Creating, CallInstalls, Handlers,
                HasMethod
  <1> QED BY <1>2, <1>3 DEF RegistryInv, vars, historyVars

(* The invariant of the server's tables. *)
THEOREM RegistryInvariant == Spec => []RegistryInv
  <1>1. ASSUME RegistryInv, [Next]_vars PROVE RegistryInv'
    <2>1. ASSUME NEW t \in Thread, ApplicationCall(t) PROVE RegistryInv'
      <3>1. PICK n \in Object :
              \/ RegisterObj(t, n) \/ UnregisterObj(t, n)
              \/ \E m \in Method : RegisterMethod(t, n, m) \/ UnregisterMethod(t, n, m)
              \/ \E e \in Event : RegisterEvent(t, n, e) \/ UnregisterEvent(t, n, e)
              \/ RegisterSubscribeHandler(t, n)
        BY <2>1 DEF ApplicationCall
      <3>2. CASE RegisterObj(t, n)
        BY <1>1, <3>2, RegisterObjStep, RegistryStutter DEF RegisterObj
      <3>3. CASE UnregisterObj(t, n)
        BY <1>1, <3>3, UnregisterObjStep, RegistryStutter DEF UnregisterObj
      <3>4. ASSUME NEW m \in Method, RegisterMethod(t, n, m) PROVE RegistryInv'
        <4>1. CASE CanRegister(n, m)
          BY <1>1, <3>4, <4>1, RegisterMethodStep
        <4>2. CASE ~CanRegister(n, m)
          BY <1>1, <3>4, <4>2, RegistryStutter DEF RegisterMethod, vars
        <4> QED BY <4>1, <4>2
      <3>5. ASSUME NEW m \in Method, UnregisterMethod(t, n, m) PROVE RegistryInv'
        <4>1. CASE get_object(n) # NoThing
          BY <1>1, <3>5, <4>1, UnregisterMethodStep
        <4>2. CASE get_object(n) = NoThing
          BY <1>1, <3>5, <4>2, RegistryStutter DEF UnregisterMethod, vars
        <4> QED BY <4>1, <4>2
      <3>6. ASSUME NEW e \in Event, UnregisterEvent(t, n, e) PROVE RegistryInv'
        <4>1. CASE get_object(n) # NoThing
          BY <1>1, <3>6, <4>1, UnregisterEventStep
        <4>2. CASE get_object(n) = NoThing
          BY <1>1, <3>6, <4>2, RegistryStutter DEF UnregisterEvent, vars
        <4> QED BY <4>1, <4>2
      <3> QED BY <1>1, <3>1, <3>2, <3>3, <3>4, <3>5, <3>6, RegisterEventStep
    <2>2. ASSUME NEW t \in Thread, CallStep(t) PROVE RegistryInv'
      BY <1>1, <2>2, AddListenerStep, AddListenerFailsStep, PushStep, UnregisterObjRemoveStep,
         InstallSecondStep, InstallFlagStep DEF CallStep
    <2>3. CASE UNCHANGED vars
      BY <1>1, <2>3, RegistryStutter
    <2> QED BY <1>1, <2>1, <2>2, <2>3 DEF Next
  <1> QED BY <1>1, InitRegistry, PTL DEF Spec

(* The tables keep their types; in particular no object gets more methods   *)
(* than MAX_SUPPORTED_METHODS, whichever calls add them.                    *)
THEOREM RegistryTypeCorrect == Spec => []TypeOK
  <1>1. RegistryInv => TypeOK
    BY DEF RegistryInv, CallInv
  <1> QED BY <1>1, RegistryInvariant, PTL

(* A sequence without repetition has as many elements as entries. *)
LEMMA InjectiveCardinality ==
  ASSUME NEW S, NEW s \in Seq(S), Injective(s)
  PROVE  Cardinality(Elems(s)) = Len(s)
  <1>1. Len(s) \in Nat /\ DOMAIN s = 1 .. Len(s) /\ s \in [1 .. Len(s) -> Elems(s)]
    BY DEF Elems
  <1>2. s \in Bijection(1 .. Len(s), Elems(s))
    BY <1>1 DEF Injective, Elems, Bijection, Injection, Surjection, IsInjective
  <1>3. ExistsBijection(1 .. Len(s), Elems(s))
    BY <1>2 DEF ExistsBijection
  <1>4. IsFiniteSet(1 .. Len(s)) /\ Cardinality(1 .. Len(s)) = Len(s)
    BY <1>1, FS_Interval
  <1> QED BY <1>3, <1>4, FS_Bijection

(* Whatever the threads do, the registry holds live objects, each once.     *)
THEOREM RegistryAlive == Spec => []RegistryIsAlive
  <1>1. ASSUME RegistryInv PROVE RegistryIsAlive
    <2>1. registry \in Seq(Addr) /\ Injective(registry) /\ Elems(registry) \subseteq alive
      BY <1>1, EntryTypes DEF RegistryInv, AliveInv
    <2> QED BY <2>1, InjectiveCardinality DEF RegistryIsAlive
  <1> QED BY <1>1, RegistryInvariant, PTL

(* Threads that do not create or destroy objects of one name at the same    *)
(* time leave no listener for a destroyed object (rbus_registerObj,         *)
(* rbus_unregisterObj).                                                     *)
THEOREM RegistryListeners == Spec => []ListenerIsAlive
  <1>1. RegistryInv => ListenerIsAlive
    BY DEF RegistryInv, AliveInv, OrderlyInv, InStep, ListenerFor, Creating, ListenerIsAlive
  <1> QED BY <1>1, RegistryInvariant, PTL

(* Nor do they leave a registered object without its listener.              *)
THEOREM RegistryReachable == Spec => []RegisteredIsReachable
  <1>1. ASSUME RegistryInv PROVE RegisteredIsReachable
    <2>1. ASSUME ~clash, AllIdle, NEW a \in Elems(registry)
          PROVE  \E r \in Elems(routes) : a = r.obj
      <3>1. [name |-> heap[a].name, obj |-> a] \in Elems(routes)
        BY <1>1, <2>1 DEF RegistryInv, OrderlyInv, InStep, HasListener, AllIdle
      <3> QED BY <3>1
    <2> QED BY <2>1 DEF RegisteredIsReachable
  <1> QED BY <1>1, RegistryInvariant, PTL

(* An object that says it accepts subscriptions has both handlers, bound to *)
(* itself (install_subscription_handlers).                                  *)
THEOREM RegistryAcceptsBoth == Spec => []AcceptsBoth
  <1>1. RegistryInv => AcceptsBoth
    BY DEF RegistryInv, OrderlyInv, Handlers, AcceptsBoth
  <1> QED BY <1>1, RegistryInvariant, PTL

(* An object for which rbus_registerEvent reported success serves both      *)
(* kinds of requests, unless its table of methods was full between the two. *)
THEOREM RegistryServesBoth == Spec => []GrantedServesBoth
  <1>1. ASSUME RegistryInv PROVE GrantedServesBoth
    <2>1. ASSUME ~clash, AllIdle, NEW a \in Elems(registry),
                 heap[a].name \in granted, a \notin short
          PROVE  HasMethod(a, "_subscribe") /\ HasMethod(a, "_unsubscribe")
      BY <1>1, <2>1 DEF RegistryInv, OrderlyInv, Handlers, AllIdle
    <2> QED BY <2>1 DEF GrantedServesBoth, Reserved
  <1> QED BY <1>1, RegistryInvariant, PTL

=============================================================================
