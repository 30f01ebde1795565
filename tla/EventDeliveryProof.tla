------------------------- MODULE EventDeliveryProof -------------------------
(* Proofs about EventDelivery, for any number of publishing threads and     *)
(* clients, and of events.                                                  *)
EXTENDS EventDelivery, SequenceTheorems, FunctionTheorems, FiniteSetTheorems,
        TLAPS

(***************************************************************************)
(* The inductive invariant.                                                *)
(***************************************************************************)

(* No client is in the list twice. *)
Injective(s) == \A i, j \in DOMAIN s : s[i] = s[j] => i = j

(* The events on their way to an application: handed to it (l), found by    *)
(* master_event_callback (e), and still in the inbox (q).  They follow each *)
(* other in the order of publishing.                                        *)
Ordered(l, e, q) ==
    /\ \A i, j \in DOMAIN l : i < j => l[i] < l[j]
    /\ \A i, j \in DOMAIN q : i < j => q[i].id < q[j].id
    /\ \A i \in DOMAIN l, j \in DOMAIN e : l[i] < e[j].id
    /\ \A i \in DOMAIN l, j \in DOMAIN q : l[i] < q[j].id
    /\ \A i \in DOMAIN e, j \in DOMAIN q : e[i].id < q[j].id

(* None of them is later than n. *)
UpTo(l, e, q, n) ==
    /\ \A i \in DOMAIN l : l[i] <= n
    /\ \A i \in DOMAIN e : e[i].id <= n
    /\ \A i \in DOMAIN q : q[i].id <= n

Got(c, n) == UpTo(log[c], evt[c], inbox[c], n)

ClientInv(c) == Ordered(log[c], evt[c], inbox[c]) /\ Got(c, published)

(* One thread at a time walks over the list, and it holds the mutex. *)
OneLoop ==
    /\ \A p \in Publisher : Publishing(p) => mutex = p
    /\ mutex # NoOne => Publishing(mutex)

(* The listeners that the loop of p has yet to reach. *)
Ahead(p) == {listeners[j] : j \in {k \in DOMAIN listeners : loop[p].at <= k /\ k <= loop[p].size}}

(* The current loop publishes the last event.  It has not sent it to those  *)
(* ahead.  The list changes at most once under it, by the one handler whose *)
(* lookup came before the lock; a listener is lost only if that made the    *)
(* list shorter.                                                            *)
LoopInv(p) ==
    /\ loop[p].at >= 1 /\ loop[p].id = published /\ published >= 1
    /\ handling # NoOne => Len(listeners) = loop[p].size
    /\ \A c \in Ahead(p) : Got(c, published - 1)
    /\ Len(listeners) >= loop[p].size => owed \subseteq Ahead(p)
    /\ \E x \in Client \cup {NoOne} : owed \subseteq Ahead(p) \cup {x}

DeliveryInv ==
    /\ TypeOK
    /\ Injective(listeners)
    /\ \A c \in Client : ClientInv(c)
    /\ OneLoop
    /\ \A p \in Publisher : Publishing(p) => LoopInv(p)

(***************************************************************************)
(* Messages on their way.                                                  *)
(***************************************************************************)

LEMMA HeadTail ==
  ASSUME NEW S, NEW q \in Seq(S), q # <<>>
  PROVE  /\ Head(q) = q[1] /\ Head(q) \in S /\ 1 \in DOMAIN q
         /\ Tail(q) \in Seq(S)
         /\ \A i \in DOMAIN Tail(q) : i + 1 \in DOMAIN q /\ i \in Nat \ {0} /\ Tail(q)[i] = q[i + 1]
  <1>1. Len(q) \in Nat /\ Len(q) > 0 /\ DOMAIN q = 1 .. Len(q)
    OBVIOUS
  <1>2. Tail(q) \in Seq(S) /\ Len(Tail(q)) = Len(q) - 1 /\ DOMAIN Tail(q) = 1 .. Len(q) - 1
    BY <1>1
  <1>3. \A i \in 1 .. Len(q) - 1 : Tail(q)[i] = q[i + 1]
    BY <1>1
  <1> QED BY <1>1, <1>2, <1>3

LEMMA AppendIs ==
  ASSUME NEW S, NEW q \in Seq(S), NEW m \in S
  PROVE  /\ Append(q, m) \in Seq(S) /\ Len(q) \in Nat /\ Len(Append(q, m)) = Len(q) + 1
         /\ DOMAIN q = 1 .. Len(q) /\ DOMAIN Append(q, m) = 1 .. Len(q) + 1
         /\ \A i \in 1 .. Len(q) : Append(q, m)[i] = q[i]
         /\ Append(q, m)[Len(q) + 1] = m
         /\ \A i \in DOMAIN Append(q, m) :
                \/ i \in DOMAIN q /\ Append(q, m)[i] = q[i]
                \/ i = Len(q) + 1 /\ Append(q, m)[i] = m
  <1> DEFINE w == Append(q, m)
             k == Len(q)
  <1>1. /\ w \in Seq(S) /\ k \in Nat /\ Len(w) = k + 1
        /\ DOMAIN q = 1 .. k /\ DOMAIN w = 1 .. k + 1
        /\ \A i \in 1 .. k : w[i] = q[i]
        /\ w[k + 1] = m
    OBVIOUS
  <1> HIDE DEF w, k
  <1>2. \A i \in 1 .. k + 1 : i \in 1 .. k \/ i = k + 1
    BY <1>1
  <1>3. \A i \in DOMAIN w : (i \in DOMAIN q /\ w[i] = q[i]) \/ (i = k + 1 /\ w[i] = m)
    BY <1>1, <1>2, Zenon
  <1> QED BY <1>1, <1>3 DEF w, k

(* Events have numbers. *)
LEMMA Numbers ==
  ASSUME NEW q \in Seq(Message)
  PROVE  \A i \in DOMAIN q : q[i] \in Message /\ q[i].id \in Nat
  <1> DEFINE M == Message
  <1>1. \A i \in DOMAIN q : q[i] \in M
    <2> HIDE DEF M
    <2>1. q \in Seq(M)
      BY DEF M
    <2> QED BY <2>1
  <1> QED BY <1>1 DEF Message, Id

(* A message of a later event is sent. *)
LEMMA Sent ==
  ASSUME NEW l \in Seq(Id), NEW e \in Seq(Message), NEW q \in Seq(Message),
         NEW m \in Message, NEW n \in Nat, n < m.id,
         Ordered(l, e, q), UpTo(l, e, q, n)
  PROVE  Ordered(l, e, Append(q, m)) /\ UpTo(l, e, Append(q, m), m.id)
  <1> DEFINE w == Append(q, m)
             M == Message
  <1>1. /\ Len(q) \in Nat /\ DOMAIN q = 1 .. Len(q) /\ DOMAIN w = 1 .. Len(q) + 1
        /\ \A i \in 1 .. Len(q) : w[i] = q[i]
        /\ w[Len(q) + 1] = m
        /\ \A i \in DOMAIN w : (i \in DOMAIN q /\ w[i] = q[i]) \/ (i = Len(q) + 1 /\ w[i] = m)
    <2> HIDE DEF M
    <2>1. q \in Seq(M) /\ m \in M
      BY DEF M
    <2> QED BY <2>1, AppendIs
  <1>2. /\ m.id \in Nat
        /\ \A i \in DOMAIN l : l[i] \in Nat
        /\ \A i \in DOMAIN e : e[i].id \in Nat
        /\ \A i \in DOMAIN q : q[i].id \in Nat
    BY Numbers DEF Id, Message
  <1> HIDE DEF w
  <1>3. \A i \in DOMAIN w : (i \in DOMAIN q /\ w[i] = q[i]) \/ (i = Len(q) + 1 /\ w[i] = m)
    BY <1>1, Zenon
  <1>4. \A i \in DOMAIN w : w[i].id <= m.id
    BY <1>2, <1>3 DEF UpTo
  <1>5. \A i, j \in DOMAIN w : i < j => w[i].id < w[j].id
    BY <1>1, <1>2, <1>3 DEF UpTo, Ordered
  <1>6. Ordered(l, e, w)
    <2>1. \A i \in DOMAIN l, j \in DOMAIN w : l[i] < w[j].id
      BY <1>2, <1>3 DEF UpTo, Ordered
    <2>2. \A i \in DOMAIN e, j \in DOMAIN w : e[i].id < w[j].id
      BY <1>2, <1>3 DEF UpTo, Ordered
    <2> QED BY <1>5, <2>1, <2>2 DEF Ordered
  <1>7. UpTo(l, e, w, m.id)
    BY <1>2, <1>4 DEF UpTo
  <1> QED BY <1>6, <1>7 DEF w

(* The first message leaves the inbox. *)
LEMMA Taken ==
  ASSUME NEW l \in Seq(Id), NEW e \in Seq(Message), NEW q \in Seq(Message), q # <<>>,
         Ordered(l, e, q)
  PROVE  /\ Tail(q) \in Seq(Message) /\ Head(q) \in Message
         /\ Ordered(l, e, Tail(q))
         /\ \A n \in Nat : UpTo(l, e, q, n) => UpTo(l, e, Tail(q), n)
         /\ e = <<>> => Ordered(l, <<Head(q)>>, Tail(q))
         /\ e = <<>> => \A n \in Nat : UpTo(l, e, q, n) => UpTo(l, <<Head(q)>>, Tail(q), n)
  <1> DEFINE w == Tail(q)
             m == Head(q)
             M == Message
  <1>1. /\ m = q[1] /\ m \in Message /\ 1 \in DOMAIN q /\ w \in Seq(Message)
        /\ \A i \in DOMAIN w : i + 1 \in DOMAIN q /\ i \in Nat \ {0} /\ w[i] = q[i + 1]
    <2> HIDE DEF M
    <2> SUFFICES ASSUME q \in Seq(M) PROVE
        /\ m = q[1] /\ m \in M /\ 1 \in DOMAIN q /\ w \in Seq(M)
        /\ \A i \in DOMAIN w : i + 1 \in DOMAIN q /\ i \in Nat \ {0} /\ w[i] = q[i + 1]
      BY DEF M
    <2> QED BY HeadTail
  <1> HIDE DEF w, m
  <1>2. Ordered(l, e, w)
    <2>1. \A i, j \in DOMAIN w : i < j => w[i].id < w[j].id
      <3> SUFFICES ASSUME NEW i \in DOMAIN w, NEW j \in DOMAIN w, i < j
                   PROVE  w[i].id < w[j].id
        OBVIOUS
      <3>1. i + 1 \in DOMAIN q /\ j + 1 \in DOMAIN q /\ i + 1 < j + 1
        BY <1>1
      <3>2. q[i + 1].id < q[j + 1].id
        BY <3>1 DEF Ordered
      <3> QED BY <1>1, <3>2
    <2> QED BY <1>1, <2>1 DEF Ordered
  <1>3. \A n \in Nat : UpTo(l, e, q, n) => UpTo(l, e, w, n)
    BY <1>1 DEF UpTo
  <1>4. DOMAIN <<m>> = {1} /\ <<m>>[1] = m
    OBVIOUS
  <1>5. ASSUME NEW i \in DOMAIN w PROVE m.id < w[i].id
    <2>1. i + 1 \in DOMAIN q /\ 1 < i + 1
      BY <1>1
    <2>2. q[1].id < q[i + 1].id
      BY <1>1, <2>1 DEF Ordered
    <2> QED BY <1>1, <2>2
  <1>6. \A i \in DOMAIN l : l[i] < m.id
    BY <1>1 DEF Ordered
  <1>7. Ordered(l, <<m>>, w)
    BY <1>2, <1>4, <1>5, <1>6 DEF Ordered
  <1>8. \A n \in Nat : UpTo(l, e, q, n) => UpTo(l, <<m>>, w, n)
    BY <1>1, <1>4 DEF UpTo
  <1> QED BY <1>1, <1>2, <1>3, <1>7, <1>8 DEF w, m

(* A message in the hands of master_event_callback goes to the application. *)
LEMMA Handed ==
  ASSUME NEW l \in Seq(Id), NEW e \in Seq(Message), NEW q \in Seq(Message), e # <<>>,
         Ordered(l, e, q)
  PROVE  /\ Append(l, Head(e).id) \in Seq(Id)
         /\ Ordered(Append(l, Head(e).id), <<>>, q)
         /\ \A n \in Nat : UpTo(l, e, q, n) => UpTo(Append(l, Head(e).id), <<>>, q, n)
  <1> DEFINE k == Head(e).id
             w == Append(l, k)
             M == Message
             I == Id
  <1>1. Head(e) = e[1] /\ Head(e) \in Message /\ 1 \in DOMAIN e
    <2> HIDE DEF M
    <2> SUFFICES ASSUME e \in Seq(M) PROVE Head(e) = e[1] /\ Head(e) \in M /\ 1 \in DOMAIN e
      BY DEF M
    <2> QED BY HeadTail
  <1>2. k \in Id /\ k = e[1].id
    BY <1>1 DEF Message
  <1> HIDE DEF k
  <1>3. /\ w \in Seq(Id) /\ Len(l) \in Nat
        /\ DOMAIN l = 1 .. Len(l) /\ DOMAIN w = 1 .. Len(l) + 1
        /\ \A i \in 1 .. Len(l) : w[i] = l[i]
        /\ w[Len(l) + 1] = k
        /\ \A i \in DOMAIN w : (i \in DOMAIN l /\ w[i] = l[i]) \/ (i = Len(l) + 1 /\ w[i] = k)
    BY <1>2, AppendIs
  <1>4. \A i \in DOMAIN l : l[i] < k
    BY <1>1, <1>2 DEF Ordered
  <1>5. \A i \in DOMAIN q : k < q[i].id
    BY <1>1, <1>2 DEF Ordered
  <1> HIDE DEF w
  <1>6. \A i \in DOMAIN w : (i \in DOMAIN l /\ w[i] = l[i]) \/ (i = Len(l) + 1 /\ w[i] = k)
    BY <1>3, Zenon
  <1>7. Ordered(w, <<>>, q)
    <2>1. \A i, j \in DOMAIN w : i < j => w[i] < w[j]
      BY <1>3, <1>4, <1>6 DEF Ordered
    <2>2. \A i \in DOMAIN w, j \in DOMAIN q : w[i] < q[j].id
      BY <1>5, <1>6 DEF Ordered
    <2> QED BY <2>1, <2>2 DEF Ordered
  <1>8. \A n \in Nat : UpTo(l, e, q, n) => UpTo(w, <<>>, q, n)
    BY <1>1, <1>2, <1>6 DEF UpTo
  <1> QED BY <1>3, <1>7, <1>8 DEF w, k

LEMMA More ==
  ASSUME NEW l \in Seq(Id), NEW e \in Seq(Message), NEW q \in Seq(Message),
         NEW n \in Nat, NEW k \in Nat, n <= k, UpTo(l, e, q, n)
  PROVE  UpTo(l, e, q, k)
  <1>1. /\ \A i \in DOMAIN l : l[i] \in Nat
        /\ \A i \in DOMAIN e : e[i].id \in Nat
        /\ \A i \in DOMAIN q : q[i].id \in Nat
    BY Numbers DEF Id
  <1> QED BY <1>1 DEF UpTo

(***************************************************************************)
(* The list of listeners.                                                  *)
(***************************************************************************)

(* Without the item at i, those behind it move up by one. *)
LEMMA Closing ==
  ASSUME NEW S, NEW s \in Seq(S), NEW i \in 1 .. Len(s)
  PROVE  LET w == SubSeq(s, 1, i - 1) \o SubSeq(s, i + 1, Len(s))
         IN  /\ w \in Seq(S) /\ Len(w) = Len(s) - 1
             /\ \A j \in 1 .. Len(s) - 1 : w[j] = IF j < i THEN s[j] ELSE s[j + 1]
  <1> DEFINE k == Len(s)
             a == SubSeq(s, 1, i - 1)
             b == SubSeq(s, i + 1, k)
             w == a \o b
  <1>1. k \in Nat
    OBVIOUS
  <1>2. a \in Seq(S) /\ Len(a) = i - 1 /\ \A j \in 1 .. i - 1 : a[j] = s[j]
    BY <1>1
  <1>3. b \in Seq(S) /\ Len(b) = k - i /\ \A j \in 1 .. k - i : b[j] = s[i + j]
    BY <1>1
  <1> HIDE DEF a, b, k
  <1>4. /\ w \in Seq(S) /\ Len(w) = Len(a) + Len(b)
        /\ \A j \in 1 .. Len(a) + Len(b) :
               w[j] = IF j <= Len(a) THEN a[j] ELSE b[j - Len(a)]
    BY <1>2, <1>3, ConcatProperties, Zenon
  <1>5. i \in 1 .. k
    BY DEF k
  <1> HIDE DEF w
  <1>6. Len(w) = k - 1
    BY <1>1, <1>2, <1>3, <1>4, <1>5
  <1>7. ASSUME NEW j \in 1 .. k - 1, j < i PROVE w[j] = s[j]
    BY <1>1, <1>2, <1>3, <1>4, <1>5, <1>7
  <1>8. ASSUME NEW j \in 1 .. k - 1, ~(j < i) PROVE w[j] = s[j + 1]
    <2>1. w[j] = b[j - (i - 1)]
      BY <1>1, <1>2, <1>3, <1>4, <1>5, <1>8
    <2>2. j - (i - 1) \in 1 .. k - i /\ i + (j - (i - 1)) = j + 1
      BY <1>1, <1>5, <1>8
    <2> QED BY <1>3, <2>1, <2>2
  <1>9. \A j \in 1 .. k - 1 : w[j] = IF j < i THEN s[j] ELSE s[j + 1]
    BY <1>7, <1>8
  <1> QED BY <1>4, <1>6, <1>9 DEF w, a, b, k

(* rtVector_RemoveItemByCompare moves those behind the item up by one. *)
LEMMA Removal ==
  ASSUME NEW S, NEW s \in Seq(S), Injective(s), NEW c \in Elems(s)
  PROVE  \E r \in 1 .. Len(s) :
            /\ s[r] = c
            /\ RemoveItemByCompare(s, c) \in Seq(S)
            /\ Len(RemoveItemByCompare(s, c)) = Len(s) - 1
            /\ \A j \in 1 .. Len(s) - 1 :
                 RemoveItemByCompare(s, c)[j] = IF j < r THEN s[j] ELSE s[j + 1]
  <1> DEFINE i == CHOOSE j \in DOMAIN s : s[j] = c /\ \A k \in 1 .. j - 1 : s[k] # c
  <1>1. DOMAIN s = 1 .. Len(s) /\ Len(s) \in Nat
    OBVIOUS
  <1>2. i \in 1 .. Len(s) /\ s[i] = c
    <2>1. PICK j \in DOMAIN s : s[j] = c
      BY DEF Elems
    <2>2. \A l \in 1 .. j - 1 : s[l] # c
      <3> SUFFICES ASSUME NEW l \in 1 .. j - 1, s[l] = c PROVE FALSE
        OBVIOUS
      <3>1. l \in DOMAIN s /\ l # j
        BY <1>1, <2>1
      <3> QED BY <2>1, <3>1 DEF Injective
    <2> QED BY <1>1, <2>1, <2>2
  <1>3. RemoveItemByCompare(s, c) = SubSeq(s, 1, i - 1) \o SubSeq(s, i + 1, Len(s))
    BY DEF RemoveItemByCompare
  <1> HIDE DEF i
  <1> QED BY <1>2, <1>3, Closing

(* A list without duplicates is not longer than there are clients. *)
LEMMA ListBound ==
  ASSUME NEW s \in Seq(Client), Injective(s)
  PROVE  Len(s) <= Cardinality(Client)
  <1>1. Len(s) \in Nat /\ DOMAIN s = 1 .. Len(s) /\ s \in [1 .. Len(s) -> Client]
    OBVIOUS
  <1>2. s \in Injection(1 .. Len(s), Client)
    BY <1>1 DEF Injective, Injection, IsInjective
  <1>3. IsFiniteSet(Client)
    BY DeliveryAssumption
  <1>4. Cardinality(1 .. Len(s)) <= Cardinality(Client)
    BY <1>2, <1>3, FS_Injection
  <1>5. Cardinality(1 .. Len(s)) = Len(s)
    BY <1>1, FS_Interval
  <1> QED BY <1>4, <1>5

(***************************************************************************)
(* The initial states.                                                     *)
(***************************************************************************)

LEMMA DeliveryInit ==
  ASSUME Init
  PROVE  DeliveryInv
  <1>1. Injective(listeners) /\ listeners \in Seq(Client)
    BY DEF Init, Injective
  <1>2. \A c \in Client : log[c] = <<>> /\ evt[c] = <<>> /\ inbox[c] = <<>>
    BY DEF Init
  <1>3. \A c \in Client : ClientInv(c)
    BY <1>2 DEF ClientInv, Got, Ordered, UpTo
  <1>4. \A p \in Publisher : ~Publishing(p)
    BY DEF Init, Publishing
  <1>5. OneLoop
    BY <1>4 DEF Init, OneLoop
  <1>6. TypeOK
    <2>1. Len(listeners) <= Cardinality(Client)
      BY <1>1, ListBound
    <2>2. published \in 0 .. MaxPublish
      BY DeliveryAssumption DEF Init
    <2>3. loop \in [Publisher -> [at : Nat, size : Nat, id : Nat]]
      BY DEF Init, NotPublishing
    <2>4. /\ inbox \in [Client -> Seq(Message)] /\ evt \in [Client -> Seq(Message)]
          /\ log \in [Client -> Seq(Id)]
      BY DEF Init
    <2> QED BY <1>1, <2>1, <2>2, <2>3, <2>4 DEF Init, TypeOK
  <1> QED BY <1>1, <1>3, <1>4, <1>5, <1>6 DEF DeliveryInv

(***************************************************************************)
(* The clients.                                                            *)
(***************************************************************************)

(* What the provider knows does not change, and no client gets anything     *)
(* new.                                                                     *)
LEMMA ProviderRests ==
  ASSUME DeliveryInv, UNCHANGED <<published, mutex, listeners, loop, handling, owed>>,
         TypeOK', \A c \in Client : ClientInv(c)',
         \A c \in Client : \A n \in Nat : Got(c, n) => Got(c, n)'
  PROVE  DeliveryInv'
  <1>1. Injective(listeners)' /\ OneLoop'
    BY DEF DeliveryInv, Injective, OneLoop, Publishing
  <1>2. ASSUME NEW p \in Publisher, Publishing(p)' PROVE LoopInv(p)'
    <2>1. Publishing(p) /\ LoopInv(p) /\ Ahead(p)' = Ahead(p)
      BY <1>2 DEF DeliveryInv, Publishing, Ahead
    <2>2. published - 1 \in Nat /\ Ahead(p) \subseteq Client
      BY <2>1 DEF DeliveryInv, TypeOK, LoopInv, Ahead
    <2>3. \A c \in Ahead(p)' : Got(c, published - 1)'
      BY <2>1, <2>2 DEF LoopInv
    <2> QED BY <2>1, <2>3 DEF LoopInv
  <1> QED BY <1>1, <1>2 DEF DeliveryInv

LEMMA ApplicationStep ==
  ASSUME DeliveryInv, NEW c \in Client,
         Subscribe(c) \/ Unsubscribe(c) \/ RegisterMasterEventHandler(c)
  PROVE  DeliveryInv'
  <1>1. UNCHANGED <<published, mutex, listeners, loop, handling, inbox, owed, evt, log>>
    BY DEF Subscribe, Unsubscribe, RegisterMasterEventHandler, deliveryVars
  <1>2. /\ request' \in [Client -> {"none", "subscribe", "unsubscribe"}]
        /\ entry' \in [Client -> BOOLEAN] /\ master' \in [Client -> BOOLEAN]
    BY DEF DeliveryInv, TypeOK, Subscribe, Unsubscribe, RegisterMasterEventHandler
  <1>3. TypeOK'
    BY <1>1, <1>2 DEF DeliveryInv, TypeOK
  <1>4. \A d \in Client : ClientInv(d)'
    BY <1>1 DEF DeliveryInv, ClientInv, Got
  <1>5. \A d \in Client : \A n \in Nat : Got(d, n) => Got(d, n)'
    BY <1>1 DEF Got
  <1> QED BY <1>1, <1>3, <1>4, <1>5, ProviderRests

(* master_event_callback hands events on in the order in which they came. *)
LEMMA ClientDispatchStep ==
  ASSUME DeliveryInv, NEW c \in Client, ClientDispatch(c)
  PROVE  DeliveryInv'
  <1> DEFINE l == log[c]
             e == evt[c]
             q == inbox[c]
  <1>1. /\ TypeOK /\ l \in Seq(Id) /\ e \in Seq(Message) /\ q \in Seq(Message)
        /\ Ordered(l, e, q) /\ UpTo(l, e, q, published) /\ published \in Nat
    BY DEF DeliveryInv, TypeOK, ClientInv, Got
  <1>2. /\ UNCHANGED <<published, mutex, listeners, loop, handling, owed, request, entry, master>>
        /\ \A d \in Client \ {c} : log'[d] = log[d] /\ evt'[d] = evt[d] /\ inbox'[d] = inbox[d]
    BY <1>1 DEF ClientDispatch, MasterHandles, FindEntry, InvokeCallback, TakeMessage,
                clientVars, TypeOK
  <1>3. /\ log' \in [Client -> Seq(Id)] /\ evt' \in [Client -> Seq(Message)]
        /\ inbox' \in [Client -> Seq(Message)]
        /\ Ordered(log'[c], evt'[c], inbox'[c])
        /\ \A n \in Nat : UpTo(l, e, q, n) => UpTo(log'[c], evt'[c], inbox'[c], n)
    <2>1. CASE MasterHandles(c)
      <3>1. /\ q # <<>> /\ e = <<>> /\ evt' = evt
            /\ inbox' = [inbox EXCEPT ![c] = Tail(q)]
            /\ log' = [log EXCEPT ![c] = Append(l, Head(q).id)]
        BY <2>1 DEF MasterHandles, TakeMessage
      <3>2. PICK m \in Message : m = Head(q)
        BY <1>1, <3>1, Taken
      <3>3. /\ Tail(q) \in Seq(Message) /\ Ordered(l, <<m>>, Tail(q))
            /\ \A n \in Nat : UpTo(l, e, q, n) => UpTo(l, <<m>>, Tail(q), n)
        BY <1>1, <3>1, <3>2, Taken
      <3>4. <<m>> \in Seq(Message) /\ <<m>> # <<>> /\ Head(<<m>>) = m
        OBVIOUS
      <3>5. /\ Append(l, m.id) \in Seq(Id)
            /\ Ordered(Append(l, m.id), <<>>, Tail(q))
            /\ \A n \in Nat : UpTo(l, <<m>>, Tail(q), n) => UpTo(Append(l, m.id), <<>>, Tail(q), n)
        BY <1>1, <3>3, <3>4, Handed
      <3>6. log'[c] = Append(l, m.id) /\ evt'[c] = <<>> /\ inbox'[c] = Tail(q)
        BY <1>1, <3>1, <3>2 DEF TypeOK
      <3> QED BY <1>1, <3>1, <3>2, <3>3, <3>5, <3>6 DEF TypeOK
    <2>2. CASE FindEntry(c)
      <3>1. /\ q # <<>> /\ e = <<>> /\ log' = log
            /\ inbox' = [inbox EXCEPT ![c] = Tail(q)]
            /\ evt' = [evt EXCEPT ![c] = IF entry[c] THEN <<Head(q)>> ELSE e]
        BY <2>2 DEF FindEntry, TakeMessage
      <3>2. /\ log'[c] = l /\ inbox'[c] = Tail(q)
            /\ evt'[c] = <<Head(q)>> \/ evt'[c] = e
        BY <1>1, <3>1 DEF TypeOK
      <3>3. /\ Tail(q) \in Seq(Message) /\ Head(q) \in Message
            /\ Ordered(l, e, Tail(q)) /\ Ordered(l, <<Head(q)>>, Tail(q))
            /\ \A n \in Nat : UpTo(l, e, q, n) =>
                    UpTo(l, e, Tail(q), n) /\ UpTo(l, <<Head(q)>>, Tail(q), n)
        BY <1>1, <3>1, Taken
      <3>4. <<Head(q)>> \in Seq(Message)
        BY <3>3
      <3>5. log' \in [Client -> Seq(Id)] /\ inbox' \in [Client -> Seq(Message)]
        BY <1>1, <3>1, <3>3 DEF TypeOK
      <3>6. evt' \in [Client -> Seq(Message)]
        BY <1>1, <3>1, <3>4 DEF TypeOK
      <3>7. CASE evt'[c] = <<Head(q)>>
        BY <3>2, <3>3, <3>5, <3>6, <3>7
      <3>8. CASE evt'[c] = e
        BY <3>2, <3>3, <3>5, <3>6, <3>8
      <3> QED BY <3>2, <3>7, <3>8
    <2>3. CASE InvokeCallback(c)
      <3>1. /\ e # <<>> /\ inbox' = inbox
            /\ log' = [log EXCEPT ![c] = Append(l, Head(e).id)]
            /\ evt' = [evt EXCEPT ![c] = <<>>]
        BY <2>3 DEF InvokeCallback
      <3>2. log'[c] = Append(l, Head(e).id) /\ evt'[c] = <<>> /\ inbox'[c] = q
        BY <1>1, <3>1 DEF TypeOK
      <3>3. /\ Append(l, Head(e).id) \in Seq(Id)
            /\ Ordered(Append(l, Head(e).id), <<>>, q)
            /\ \A n \in Nat : UpTo(l, e, q, n) => UpTo(Append(l, Head(e).id), <<>>, q, n)
        BY <1>1, <3>1, Handed
      <3>4. log' \in [Client -> Seq(Id)] /\ evt' \in [Client -> Seq(Message)]
        BY <1>1, <3>1, <3>3 DEF TypeOK
      <3> QED BY <1>1, <3>1, <3>2, <3>3, <3>4 DEF TypeOK
    <2> QED BY <2>1, <2>2, <2>3 DEF ClientDispatch
  <1>4. TypeOK'
    BY <1>1, <1>2, <1>3 DEF TypeOK
  <1>5. \A d \in Client : \A n \in Nat : Got(d, n) => Got(d, n)'
    BY <1>2, <1>3 DEF Got
  <1>6. \A d \in Client : ClientInv(d)'
    <2>1. \A d \in Client : Ordered(log'[d], evt'[d], inbox'[d])
      BY <1>2, <1>3 DEF DeliveryInv, ClientInv
    <2>2. \A d \in Client : Got(d, published)'
      BY <1>1, <1>2, <1>5 DEF DeliveryInv, ClientInv, Got
    <2> QED BY <1>2, <2>1, <2>2 DEF ClientInv
  <1> QED BY <1>2, <1>4, <1>5, <1>6, ProviderRests

(***************************************************************************)
(* The provider publishes.                                                 *)
(***************************************************************************)

LEMMA LoopType ==
  ASSUME TypeOK, NEW p \in Publisher
  PROVE  /\ loop[p].at \in Nat /\ loop[p].size \in Nat /\ loop[p].id \in Nat
         /\ Len(listeners) \in Nat /\ DOMAIN listeners = 1 .. Len(listeners)
         /\ published \in Nat
  BY DEF TypeOK

(* Nobody walks over the list when the mutex is free. *)
LEMMA FreeMutex ==
  ASSUME DeliveryInv, mutex = NoOne
  PROVE  \A p \in Publisher : ~Publishing(p)
  BY DeliveryAssumption DEF DeliveryInv, OneLoop

(* A later event is published, and those in T get its message m. *)
LEMMA NewEvent ==
  ASSUME DeliveryInv, NEW T \in SUBSET Client, NEW m \in Message,
         published' \in Nat, published <= published', m.id = published',
         UNCHANGED <<log, evt>>,
         \A c \in T : inbox'[c] = Append(inbox[c], m) /\ Got(c, published' - 1),
         \A c \in Client \ T : inbox'[c] = inbox[c]
  PROVE  \A c \in Client : ClientInv(c)'
  <1> SUFFICES ASSUME NEW c \in Client PROVE ClientInv(c)'
    OBVIOUS
  <1>1. /\ log[c] \in Seq(Id) /\ evt[c] \in Seq(Message) /\ inbox[c] \in Seq(Message)
        /\ Ordered(log[c], evt[c], inbox[c]) /\ UpTo(log[c], evt[c], inbox[c], published)
        /\ published \in Nat
    BY DEF DeliveryInv, TypeOK, ClientInv, Got
  <1>2. CASE c \in T
    <2>1. published' - 1 \in Nat /\ published' - 1 < m.id
      BY DEF Message, Id
    <2>2. /\ Ordered(log[c], evt[c], Append(inbox[c], m))
          /\ UpTo(log[c], evt[c], Append(inbox[c], m), published')
      BY <1>1, <1>2, <2>1, Sent DEF Got
    <2> QED BY <1>2, <2>2 DEF ClientInv, Got
  <1>3. CASE c \notin T
    <2>1. UpTo(log[c], evt[c], inbox[c], published')
      BY <1>1, More
    <2> QED BY <1>1, <1>3, <2>1 DEF ClientInv, Got
  <1> QED BY <1>2, <1>3

LEMMA PublishBeginStep ==
  ASSUME DeliveryInv, NEW p \in Publisher, PublishBegin(p)
  PROVE  DeliveryInv'
  <1>1. /\ TypeOK /\ mutex = NoOne /\ published < MaxPublish /\ published' = published + 1
        /\ mutex' = p /\ owed' = Elems(listeners)
        /\ loop' = [loop EXCEPT ![p] = [at |-> 1, size |-> Len(listeners), id |-> published']]
        /\ UNCHANGED <<listeners, handling, inbox, request, entry, master, evt, log>>
    BY DEF DeliveryInv, PublishBegin, clientVars, deliveryVars
  <1>2. /\ published \in Nat /\ published' \in Nat /\ MaxPublish \in Nat
        /\ Len(listeners) \in Nat /\ DOMAIN listeners = 1 .. Len(listeners)
        /\ \A j \in DOMAIN listeners : listeners[j] \in Client
    BY <1>1, DeliveryAssumption DEF TypeOK
  <1>3. PICK r \in [at : Nat, size : Nat, id : Nat] :
           /\ r = [at |-> 1, size |-> Len(listeners), id |-> published']
           /\ r.at = 1 /\ r.size = Len(listeners) /\ r.id = published'
    <2>1. [at |-> 1, size |-> Len(listeners), id |-> published']
             \in [at : Nat, size : Nat, id : Nat]
      BY <1>2
    <2> QED BY <2>1
  <1>4. loop'[p] = r /\ \A o \in Publisher \ {p} : loop'[o] = loop[o]
    BY <1>1, <1>3 DEF TypeOK
  <1>5. TypeOK'
    <2>1. loop' \in [Publisher -> [at : Nat, size : Nat, id : Nat]]
      BY <1>1, <1>3 DEF TypeOK
    <2>2. owed' \subseteq Client
      BY <1>1, <1>2 DEF Elems
    <2>3. published' \in 0 .. MaxPublish
      BY <1>1, <1>2
    <2> QED BY <1>1, <2>1, <2>2, <2>3 DEF TypeOK
  <1>6. \A o \in Publisher : Publishing(o)' <=> o = p
    <2>1. r # NotPublishing
      BY <1>3 DEF NotPublishing
    <2> QED BY <1>1, <1>4, <2>1, FreeMutex DEF Publishing
  <1>7. OneLoop'
    BY <1>1, <1>6 DEF OneLoop
  <1>8. \A c \in Client : ClientInv(c)'
    <2>1. PICK m \in Message : m.id = published'
      <3>1. [id |-> published', rbus |-> FALSE] \in Message
        BY <1>1, <1>2 DEF Message, Id
      <3> QED BY <3>1
    <2>2. PICK T \in SUBSET Client : T = {}
      OBVIOUS
    <2>3. published <= published'
      BY <1>1, <1>2
    <2> QED BY <1>1, <1>2, <2>1, <2>2, <2>3, NewEvent
  <1>9. LoopInv(p)'
    <2>1. Ahead(p)' = Elems(listeners)
      BY <1>1, <1>2, <1>3, <1>4 DEF Ahead, Elems
    <2>2. \A c \in Elems(listeners) : c \in Client /\ Got(c, published)
      BY <1>2 DEF Elems, DeliveryInv, ClientInv
    <2>3. published' - 1 = published /\ published' >= 1
      BY <1>1, <1>2
    <2>4. \A c \in Ahead(p)' : Got(c, published - 1)'
      BY <1>1, <2>1, <2>2, <2>3 DEF Got
    <2>5. owed' \subseteq Ahead(p)'
      BY <1>1, <2>1
    <2>6. \E x \in Client \cup {NoOne} : owed' \subseteq Ahead(p)' \cup {x}
      BY <2>5
    <2>7. /\ loop'[p].at >= 1 /\ loop'[p].id = published' /\ published' >= 1
          /\ Len(listeners)' = loop'[p].size
      BY <1>1, <1>3, <1>4, <2>3
    <2> QED BY <2>4, <2>5, <2>6, <2>7 DEF LoopInv
  <1> QED BY <1>1, <1>5, <1>6, <1>7, <1>8, <1>9 DEF DeliveryInv

(* The loop of p goes on to the next listener; those still ahead are there  *)
(* as before, without the one at the index.                                 *)
LEMMA Advanced ==
  ASSUME DeliveryInv, NEW p \in Publisher, Publishing(p), Advance(p), listeners' = listeners
  PROVE  /\ loop' \in [Publisher -> [at : Nat, size : Nat, id : Nat]]
         /\ loop'[p].at = loop[p].at + 1 /\ loop'[p].size = loop[p].size
         /\ loop'[p].id = loop[p].id
         /\ \A o \in Publisher : Publishing(o)' <=> Publishing(o)
         /\ \A o \in Publisher : Publishing(o) => o = p
         /\ Ahead(p)' \subseteq Ahead(p)
         /\ \A x \in Ahead(p) \ Ahead(p)' :
                loop[p].at <= Len(listeners) /\ x = listeners[loop[p].at]
         /\ loop[p].at <= Len(listeners) => listeners[loop[p].at] \notin Ahead(p)'
  <1>1. TypeOK /\ loop[p] \in [at : Nat, size : Nat, id : Nat]
    BY DEF DeliveryInv, TypeOK
  <1>2. PICK r \in [at : Nat, size : Nat, id : Nat] :
           /\ r = [loop[p] EXCEPT !.at = @ + 1]
           /\ r.at = loop[p].at + 1 /\ r.size = loop[p].size /\ r.id = loop[p].id
    <2>1. [loop[p] EXCEPT !.at = @ + 1] \in [at : Nat, size : Nat, id : Nat]
      BY <1>1
    <2> QED BY <1>1, <2>1
  <1>3. loop' = [loop EXCEPT ![p] = r]
    BY <1>2 DEF Advance
  <1>4. /\ loop' \in [Publisher -> [at : Nat, size : Nat, id : Nat]]
        /\ loop'[p] = r /\ \A o \in Publisher \ {p} : loop'[o] = loop[o]
    BY <1>1, <1>2, <1>3 DEF TypeOK
  <1>5. \A o \in Publisher : Publishing(o)' <=> Publishing(o)
    <2>1. r # NotPublishing
      <3>1. r.at # 0
        BY <1>1, <1>2
      <3> QED BY <3>1 DEF NotPublishing
    <2> QED BY <1>4, <2>1 DEF Publishing
  <1>6. \A o \in Publisher : Publishing(o) => o = p
    BY DEF DeliveryInv, OneLoop
  <1>7. /\ loop[p].at \in Nat /\ loop[p].size \in Nat /\ loop[p].at >= 1
        /\ DOMAIN listeners = 1 .. Len(listeners) /\ Len(listeners) \in Nat
    BY <1>1, LoopType DEF DeliveryInv, LoopInv
  <1> DEFINE a == loop[p].at
             n == loop[p].size
             D == DOMAIN listeners
  <1>8. /\ Ahead(p) = {listeners[j] : j \in {k \in D : a <= k /\ k <= n}}
        /\ Ahead(p)' = {listeners[j] : j \in {k \in D : a + 1 <= k /\ k <= n}}
    BY <1>2, <1>4 DEF Ahead
  <1>9. a \in Nat /\ n \in Nat /\ a >= 1 /\ D = 1 .. Len(listeners)
    BY <1>7
  <1> HIDE DEF a, n, D
  <1>10. {k \in D : a + 1 <= k /\ k <= n} \subseteq {k \in D : a <= k /\ k <= n}
    BY <1>7, <1>9
  <1>11. Ahead(p)' \subseteq Ahead(p)
    BY <1>8, <1>10
  <1>12. ASSUME NEW x \in Ahead(p), x \notin Ahead(p)'
         PROVE  a <= Len(listeners) /\ x = listeners[a]
    <2>1. PICK k \in D : x = listeners[k] /\ a <= k /\ k <= n
      BY <1>8
    <2>2. ~(a + 1 <= k)
      BY <1>8, <1>12, <2>1
    <2> QED BY <1>7, <1>9, <2>1, <2>2
  <1>13. ASSUME a <= Len(listeners), listeners[a] \in Ahead(p)'
         PROVE  FALSE
    <2>1. PICK k \in D : listeners[a] = listeners[k] /\ a + 1 <= k
      BY <1>8, <1>13
    <2>2. a \in D
      BY <1>7, <1>9, <1>13
    <2>3. a = k
      BY <2>1, <2>2 DEF DeliveryInv, Injective, D
    <2> QED BY <1>7, <1>9, <2>1, <2>3
  <1> QED BY <1>2, <1>4, <1>5, <1>6, <1>11, <1>12, <1>13 DEF a

LEMMA PublishSendStep ==
  ASSUME DeliveryInv, NEW p \in Publisher, PublishSend(p) \/ PublishSendFails(p)
  PROVE  DeliveryInv'
  <1> DEFINE a == loop[p].at
             x == listeners[a]
  <1>1. /\ TypeOK /\ Publishing(p) /\ LoopInv(p) /\ Advance(p)
        /\ owed' = (IF a <= Len(listeners) THEN owed \ {x} ELSE owed)
        /\ UNCHANGED <<published, mutex, listeners, handling, request, entry, master, evt, log>>
    BY DEF DeliveryInv, PublishSend, PublishSendFails, clientVars, deliveryVars
  <1>2. /\ loop' \in [Publisher -> [at : Nat, size : Nat, id : Nat]]
        /\ loop'[p].at = a + 1 /\ loop'[p].size = loop[p].size /\ loop'[p].id = loop[p].id
        /\ \A o \in Publisher : Publishing(o)' <=> Publishing(o)
        /\ \A o \in Publisher : Publishing(o) => o = p
        /\ Ahead(p)' \subseteq Ahead(p)
        /\ \A y \in Ahead(p) \ Ahead(p)' : a <= Len(listeners) /\ y = x
        /\ a <= Len(listeners) => x \notin Ahead(p)'
    BY <1>1, Advanced
  <1>3. /\ a \in Nat /\ a >= 1 /\ published \in Nat /\ published >= 1
        /\ Len(listeners) \in Nat /\ DOMAIN listeners = 1 .. Len(listeners)
        /\ loop[p].size \in Nat /\ loop[p].id = published
    BY <1>1, LoopType DEF LoopInv
  <1>4. PICK m \in Message : m = [id |-> loop[p].id, rbus |-> FALSE] /\ m.id = published
    <2>1. [id |-> loop[p].id, rbus |-> FALSE] \in Message
      BY <1>3 DEF Message, Id
    <2> QED BY <1>3, <2>1
  <1>5. PICK T \in SUBSET Client :
           /\ T = {} \/ (a <= Len(listeners) /\ a <= loop[p].size /\ T = {x})
           /\ \A c \in T : inbox'[c] = Append(inbox[c], m)
           /\ \A c \in Client \ T : inbox'[c] = inbox[c]
           /\ inbox' \in [Client -> Seq(Message)]
    <2>1. CASE PublishSend(p)
      <3>1. /\ a <= Len(listeners) /\ a <= loop[p].size
            /\ inbox' = [inbox EXCEPT ![x] = Append(inbox[x], m)]
        BY <1>4, <2>1 DEF PublishSend
      <3>2. x \in Client /\ inbox[x] \in Seq(Message)
        BY <1>1, <1>3, <3>1 DEF TypeOK
      <3>3. Append(inbox[x], m) \in Seq(Message)
        BY <3>2
      <3>4. PICK T \in SUBSET Client : T = {x}
        BY <3>2
      <3>5. /\ inbox' \in [Client -> Seq(Message)] /\ inbox'[x] = Append(inbox[x], m)
            /\ \A c \in Client \ {x} : inbox'[c] = inbox[c]
        BY <1>1, <3>1, <3>2, <3>3 DEF TypeOK
      <3> QED BY <3>1, <3>4, <3>5
    <2>2. CASE PublishSendFails(p)
      <3>1. inbox' = inbox
        BY <2>2 DEF PublishSendFails
      <3>2. PICK T \in SUBSET Client : T = {}
        OBVIOUS
      <3> QED BY <1>1, <3>1, <3>2 DEF TypeOK
    <2> QED BY <2>1, <2>2
  <1>6. \A c \in T : c \in Ahead(p) /\ c \notin Ahead(p)' /\ Got(c, published - 1)
    <2>1. ASSUME a <= Len(listeners), a <= loop[p].size
          PROVE  x \in Ahead(p) /\ x \notin Ahead(p)' /\ Got(x, published - 1)
      <3>1. a \in DOMAIN listeners
        BY <1>3, <2>1
      <3>2. x \in Ahead(p)
        BY <1>3, <2>1, <3>1 DEF Ahead
      <3> QED BY <1>1, <1>2, <2>1, <3>2 DEF LoopInv
    <2> QED BY <1>5, <2>1
  <1>7. TypeOK'
    BY <1>1, <1>2, <1>5 DEF TypeOK
  <1>8. \A c \in Client : ClientInv(c)'
    <2>1. /\ published' \in Nat /\ published <= published' /\ m.id = published'
          /\ UNCHANGED <<log, evt>>
      BY <1>1, <1>3, <1>4
    <2>2. \A c \in T : inbox'[c] = Append(inbox[c], m) /\ Got(c, published' - 1)
      BY <1>1, <1>5, <1>6
    <2> QED BY <1>5, <2>1, <2>2, NewEvent
  <1>9. Injective(listeners)' /\ OneLoop'
    <2>1. mutex = p /\ p # NoOne
      BY <1>1, DeliveryAssumption DEF DeliveryInv, OneLoop
    <2> QED BY <1>1, <1>2, <2>1 DEF DeliveryInv, Injective, OneLoop
  <1>10. LoopInv(p)'
    <2>1. \A c \in Ahead(p)' : Got(c, published - 1)'
      <3> SUFFICES ASSUME NEW c \in Ahead(p)' PROVE Got(c, published - 1)'
        OBVIOUS
      <3>1. c \in Ahead(p) /\ c \in Client \ T
        <4>1. Ahead(p) \subseteq Client
          BY <1>1 DEF Ahead, TypeOK
        <4> QED BY <1>2, <1>6, <4>1
      <3>2. Got(c, published - 1)
        BY <1>1, <3>1 DEF LoopInv
      <3> QED BY <1>1, <1>5, <3>1, <3>2 DEF Got
    <2>2. ASSUME Len(listeners) >= loop[p].size PROVE owed' \subseteq Ahead(p)'
      <3>1. owed \subseteq Ahead(p)
        BY <1>1, <2>2 DEF LoopInv
      <3> QED BY <1>1, <1>2, <3>1
    <2>3. \E y \in Client \cup {NoOne} : owed' \subseteq Ahead(p)' \cup {y}
      <3>1. PICK y \in Client \cup {NoOne} : owed \subseteq Ahead(p) \cup {y}
        BY <1>1 DEF LoopInv
      <3>2. owed' \subseteq Ahead(p)' \cup {y}
        BY <1>1, <1>2, <3>1
      <3> QED BY <3>2
    <2>4. /\ loop'[p].at >= 1 /\ loop'[p].id = published' /\ published' >= 1
          /\ handling' # NoOne => Len(listeners') = loop'[p].size
      BY <1>1, <1>2, <1>3 DEF LoopInv
    <2> QED BY <1>1, <1>2, <2>1, <2>2, <2>3, <2>4 DEF LoopInv
  <1> QED BY <1>1, <1>2, <1>7, <1>8, <1>9, <1>10 DEF DeliveryInv

LEMMA PublishEndStep ==
  ASSUME DeliveryInv, NEW p \in Publisher, PublishEnd(p)
  PROVE  DeliveryInv'
  <1>1. /\ TypeOK /\ Publishing(p) /\ mutex' = NoOne /\ owed' = {}
        /\ loop' = [loop EXCEPT ![p] = NotPublishing]
        /\ UNCHANGED <<published, listeners, handling, inbox, request, entry, master, evt, log>>
    BY DEF DeliveryInv, PublishEnd, clientVars, deliveryVars
  <1>2. \A o \in Publisher : ~Publishing(o)'
    BY <1>1 DEF DeliveryInv, OneLoop, Publishing, TypeOK
  <1>3. TypeOK'
    <2>1. NotPublishing \in [at : Nat, size : Nat, id : Nat]
      BY DEF NotPublishing
    <2> HIDE DEF NotPublishing
    <2>2. loop' \in [Publisher -> [at : Nat, size : Nat, id : Nat]]
      BY <1>1, <2>1 DEF TypeOK
    <2> QED BY <1>1, <2>2 DEF TypeOK
  <1>4. Injective(listeners)' /\ OneLoop' /\ \A c \in Client : ClientInv(c)'
    BY <1>1, <1>2 DEF DeliveryInv, Injective, OneLoop, ClientInv, Got
  <1> QED BY <1>2, <1>3, <1>4 DEF DeliveryInv

LEMMA PublishSubscriberEventStep ==
  ASSUME DeliveryInv, NEW p \in Publisher, NEW c \in Client, PublishSubscriberEvent(p, c)
  PROVE  DeliveryInv'
  <1>1. /\ TypeOK /\ mutex = NoOne /\ published < MaxPublish /\ published' = published + 1
        /\ inbox' = [inbox EXCEPT ![c] = Append(@, [id |-> published', rbus |-> TRUE])]
        /\ UNCHANGED <<mutex, listeners, loop, handling, owed, request, entry, master, evt, log>>
    BY DEF DeliveryInv, PublishSubscriberEvent, clientVars, deliveryVars
  <1>2. published \in Nat /\ published' \in Nat /\ published' - 1 = published
        /\ published <= published' /\ published' \in 0 .. MaxPublish /\ published' # 0
    BY <1>1, DeliveryAssumption DEF TypeOK
  <1>3. PICK m \in Message : m = [id |-> published', rbus |-> TRUE] /\ m.id = published'
    <2>1. [id |-> published', rbus |-> TRUE] \in Message
      BY <1>2 DEF Message, Id
    <2> QED BY <2>1
  <1>4. Append(inbox[c], m) \in Seq(Message)
    BY <1>1 DEF TypeOK
  <1>5. /\ inbox' \in [Client -> Seq(Message)] /\ inbox'[c] = Append(inbox[c], m)
        /\ \A d \in Client \ {c} : inbox'[d] = inbox[d]
    BY <1>1, <1>3, <1>4 DEF TypeOK
  <1>6. Got(c, published' - 1)
    BY <1>2 DEF DeliveryInv, ClientInv
  <1>7. PICK T \in SUBSET Client : T = {c}
    OBVIOUS
  <1>8. \A d \in Client : ClientInv(d)'
    BY <1>1, <1>2, <1>3, <1>5, <1>6, <1>7, NewEvent
  <1>9. \A o \in Publisher : ~Publishing(o) /\ ~Publishing(o)'
    BY <1>1, FreeMutex DEF Publishing
  <1>10. TypeOK'
    BY <1>1, <1>2, <1>5 DEF TypeOK
  <1>11. Injective(listeners)' /\ OneLoop'
    BY <1>1, <1>9 DEF DeliveryInv, Injective, OneLoop
  <1> QED BY <1>8, <1>9, <1>10, <1>11 DEF DeliveryInv

(***************************************************************************)
(* The provider's dispatch thread.                                         *)
(***************************************************************************)

LEMMA DispatchLookupStep ==
  ASSUME DeliveryInv, NEW c \in Client, DispatchLookup(c)
  PROVE  DeliveryInv'
  <1>1. /\ TypeOK /\ mutex = NoOne /\ handling' = c
        /\ UNCHANGED <<published, mutex, listeners, loop, inbox, owed, request, entry, master, evt, log>>
    BY DEF DeliveryInv, DispatchLookup, clientVars, deliveryVars
  <1>2. \A o \in Publisher : ~Publishing(o) /\ ~Publishing(o)'
    BY <1>1, FreeMutex DEF Publishing
  <1>3. TypeOK'
    BY <1>1 DEF TypeOK
  <1>4. Injective(listeners)' /\ OneLoop' /\ \A d \in Client : ClientInv(d)'
    BY <1>1, <1>2 DEF DeliveryInv, Injective, OneLoop, ClientInv, Got
  <1> QED BY <1>2, <1>3, <1>4 DEF DeliveryInv

(* How the handler changes the list: not at all, by an item at its end, or  *)
(* by taking out the one at r.                                              *)
Same(s, w) == w = s

Longer(s, w, c) ==
    /\ Len(w) = Len(s) + 1 /\ w[Len(s) + 1] = c
    /\ \A j \in 1 .. Len(s) : w[j] = s[j] /\ s[j] # c

Shorter(s, w, c, r) ==
    /\ r \in 1 .. Len(s) /\ s[r] = c /\ Len(w) = Len(s) - 1
    /\ \A j \in 1 .. Len(s) - 1 : w[j] = IF j < r THEN s[j] ELSE s[j + 1]

LEMMA HandlerList ==
  ASSUME NEW s \in Seq(Client), Injective(s), NEW c \in Client
  PROVE  /\ \/ Same(s, removeListener(s, c)) /\ c \notin Elems(s)
            \/ \E r \in 1 .. Len(s) : Shorter(s, removeListener(s, c), c, r)
         /\ Same(s, addListener(s, c)) \/ Longer(s, addListener(s, c), c)
         /\ removeListener(s, c) \in Seq(Client) /\ addListener(s, c) \in Seq(Client)
  <1>1. CASE c \notin Elems(s)
    <2>1. removeListener(s, c) = s /\ addListener(s, c) = Append(s, c)
      BY <1>1 DEF removeListener, addListener
    <2>2. \A j \in 1 .. Len(s) : s[j] # c
      BY <1>1 DEF Elems
    <2>3. Longer(s, Append(s, c), c) /\ Append(s, c) \in Seq(Client)
      BY <2>2, AppendIs DEF Longer
    <2> QED BY <1>1, <2>1, <2>3 DEF Same
  <1>2. CASE c \in Elems(s)
    <2>1. removeListener(s, c) = RemoveItemByCompare(s, c) /\ addListener(s, c) = s
      BY <1>2 DEF removeListener, addListener
    <2>2. PICK r \in 1 .. Len(s) :
            /\ s[r] = c
            /\ RemoveItemByCompare(s, c) \in Seq(Client)
            /\ Len(RemoveItemByCompare(s, c)) = Len(s) - 1
            /\ \A j \in 1 .. Len(s) - 1 :
                 RemoveItemByCompare(s, c)[j] = IF j < r THEN s[j] ELSE s[j + 1]
      BY <1>2, Removal
    <2>3. Shorter(s, RemoveItemByCompare(s, c), c, r)
      BY <2>2 DEF Shorter
    <2> QED BY <2>1, <2>2, <2>3 DEF Same
  <1> QED BY <1>1, <1>2

(* No duplicates come up. *)
LEMMA StaysInjective ==
  ASSUME NEW s \in Seq(Client), NEW w \in Seq(Client), Injective(s), NEW c \in Client,
         \/ Same(s, w) \/ Longer(s, w, c)
         \/ \E r \in 1 .. Len(s) : Shorter(s, w, c, r)
  PROVE  Injective(w)
  <1>1. /\ Len(s) \in Nat /\ Len(w) \in Nat
        /\ DOMAIN s = 1 .. Len(s) /\ DOMAIN w = 1 .. Len(w)
    OBVIOUS
  <1> SUFFICES ASSUME NEW i \in 1 .. Len(w), NEW j \in 1 .. Len(w), w[i] = w[j]
               PROVE  i = j
    BY <1>1 DEF Injective
  <1>2. CASE Same(s, w)
    BY <1>1, <1>2 DEF Same, Injective
  <1>3. CASE Longer(s, w, c)
    <2>1. i = Len(s) + 1 \/ i \in 1 .. Len(s)
      BY <1>1, <1>3 DEF Longer
    <2>2. j = Len(s) + 1 \/ j \in 1 .. Len(s)
      BY <1>1, <1>3 DEF Longer
    <2> QED BY <1>1, <1>3, <2>1, <2>2 DEF Longer, Injective
  <1>4. CASE \E r \in 1 .. Len(s) : Shorter(s, w, c, r)
    <2>1. PICK r \in 1 .. Len(s) : Shorter(s, w, c, r)
      BY <1>4
    <2>2. PICK x \in 1 .. Len(s) : w[i] = s[x] /\ x = IF i < r THEN i ELSE i + 1
      BY <1>1, <2>1 DEF Shorter
    <2>3. PICK y \in 1 .. Len(s) : w[j] = s[y] /\ y = IF j < r THEN j ELSE j + 1
      BY <1>1, <2>1 DEF Shorter
    <2>4. x = y
      BY <1>1, <2>2, <2>3 DEF Injective
    <2> QED BY <1>1, <2>2, <2>3, <2>4
  <1> QED BY <1>2, <1>3, <1>4

(* The part of a list from a to n. *)
Span(s, a, n) == {s[j] : j \in {k \in DOMAIN s : a <= k /\ k <= n}}

(* Of the listeners from a to the end of the old list, a removal hides at   *)
(* most one: the one that moves to the place before a.                      *)
LEMMA Spans ==
  ASSUME NEW s \in Seq(Client), NEW w \in Seq(Client), NEW c \in Client,
         NEW a \in Nat, NEW n \in Nat, n = Len(s)
  PROVE  /\ Longer(s, w, c) => Span(w, a, n) = Span(s, a, n)
         /\ \A r \in 1 .. Len(s) : Shorter(s, w, c, r) =>
               /\ Span(w, a, n) \subseteq Span(s, a, n)
               /\ \E y \in Client \cup {NoOne} :
                     Span(s, a, n) \ {c} \subseteq Span(w, a, n) \cup {y}
  <1>1. /\ n \in Nat /\ Len(w) \in Nat
        /\ DOMAIN s = 1 .. n /\ DOMAIN w = 1 .. Len(w)
    OBVIOUS
  <1>2. ASSUME Longer(s, w, c)
        PROVE  Span(w, a, n) = Span(s, a, n)
    <2>1. Len(w) = n + 1 /\ \A j \in 1 .. n : w[j] = s[j]
      BY <1>2 DEF Longer
    <2>2. {k \in DOMAIN w : a <= k /\ k <= n} = {k \in DOMAIN s : a <= k /\ k <= n}
      BY <1>1, <2>1
    <2>3. \A k \in {k \in DOMAIN s : a <= k /\ k <= n} : w[k] = s[k]
      BY <1>1, <2>1
    <2> QED BY <2>2, <2>3 DEF Span
  <1>3. ASSUME NEW r \in 1 .. Len(s), Shorter(s, w, c, r)
        PROVE  /\ Span(w, a, n) \subseteq Span(s, a, n)
               /\ \E y \in Client \cup {NoOne} :
                     Span(s, a, n) \ {c} \subseteq Span(w, a, n) \cup {y}
    <2>1. /\ r \in 1 .. n /\ s[r] = c /\ Len(w) = n - 1
          /\ \A j \in 1 .. n - 1 : j < r => w[j] = s[j]
          /\ \A j \in 1 .. n - 1 : ~(j < r) => w[j] = s[j + 1]
      BY <1>3 DEF Shorter
    <2>2. Span(w, a, n) \subseteq Span(s, a, n)
      <3> SUFFICES ASSUME NEW e \in Span(w, a, n) PROVE e \in Span(s, a, n)
        OBVIOUS
      <3>1. PICK j \in 1 .. n - 1 : e = w[j] /\ a <= j
        BY <1>1, <2>1 DEF Span
      <3>2. PICK k \in 1 .. n : e = s[k] /\ a <= k
        <4>1. CASE j < r
          <5>1. j \in 1 .. n /\ e = s[j]
            BY <1>1, <2>1, <3>1, <4>1
          <5> QED BY <3>1, <5>1
        <4>2. CASE ~(j < r)
          <5>1. j + 1 \in 1 .. n /\ e = s[j + 1] /\ a <= j + 1
            BY <1>1, <2>1, <3>1, <4>2
          <5> QED BY <5>1
        <4> QED BY <4>1, <4>2
      <3> QED BY <1>1, <3>2 DEF Span
    <2>3. PICK y \in Client \cup {NoOne} : a \in 1 .. n => y = s[a]
      <3>1. CASE a \in 1 .. n
        <4>1. s[a] \in Client
          BY <1>1, <3>1
        <4> QED BY <4>1
      <3> QED BY <3>1
    <2>4. ASSUME NEW e \in Span(s, a, n), e # c
          PROVE  e \in Span(w, a, n) \cup {y}
      <3>1. PICK k \in 1 .. n : e = s[k] /\ a <= k
        BY <1>1 DEF Span
      <3>2. k # r
        BY <2>1, <2>4, <3>1
      <3>3. CASE k < r
        <4>1. k \in 1 .. n - 1 /\ w[k] = s[k]
          BY <1>1, <2>1, <3>3
        <4>2. k \in DOMAIN w /\ a <= k /\ k <= n
          BY <1>1, <2>1, <3>1, <4>1
        <4> QED BY <3>1, <4>1, <4>2 DEF Span
      <3>4. CASE k > r /\ k = a
        BY <2>3, <3>1, <3>4
      <3>5. CASE k > r /\ k # a
        <4>1. k - 1 \in 1 .. n - 1 /\ ~(k - 1 < r) /\ (k - 1) + 1 = k /\ a <= k - 1 /\ k - 1 <= n
          BY <1>1, <2>1, <3>1, <3>5
        <4>2. w[k - 1] = s[k]
          BY <2>1, <4>1
        <4>3. k - 1 \in DOMAIN w
          BY <1>1, <2>1, <4>1
        <4> QED BY <3>1, <4>1, <4>2, <4>3 DEF Span
      <3> QED BY <1>1, <2>1, <3>2, <3>3, <3>4, <3>5
    <2> QED BY <2>2, <2>4
  <1> QED BY <1>2, <1>3

(* subscription_handler changes the list, possibly under a loop. *)
LEMMA SubscriptionHandlerStep ==
  ASSUME DeliveryInv, NEW c \in Client, SubscriptionHandler(c)
  PROVE  DeliveryInv'
  <1>1. /\ TypeOK /\ handling = c /\ handling' = NoOne /\ c # NoOne
        /\ request' = [request EXCEPT ![c] = "none"]
        /\ UNCHANGED <<published, mutex, loop, inbox, entry, master, evt, log>>
    BY DeliveryAssumption DEF DeliveryInv, SubscriptionHandler, deliveryVars
  <1>2. listeners \in Seq(Client) /\ Injective(listeners)
    BY <1>1 DEF DeliveryInv, TypeOK
  <1>3. /\ listeners' \in Seq(Client)
        /\ \/ Same(listeners, listeners') /\ owed' \subseteq owed
           \/ Longer(listeners, listeners', c) /\ owed' = owed
           \/ /\ \E r \in 1 .. Len(listeners) : Shorter(listeners, listeners', c, r)
              /\ owed' = owed \ {c}
    <2>1. CASE request[c] = "unsubscribe"
      <3>1. listeners' = removeListener(listeners, c) /\ owed' = owed \ {c}
        BY <2>1 DEF SubscriptionHandler
      <3> QED BY <1>2, <3>1, HandlerList
    <2>2. CASE request[c] # "unsubscribe"
      <3>1. listeners' = addListener(listeners, c) /\ owed' = owed
        BY <2>2 DEF SubscriptionHandler
      <3> QED BY <1>2, <3>1, HandlerList
    <2> QED BY <2>1, <2>2
  <1>4. Injective(listeners)'
    <2>1. \A w \in Seq(Client) :
            \/ Same(listeners, w) \/ Longer(listeners, w, c)
            \/ \E r \in 1 .. Len(listeners) : Shorter(listeners, w, c, r)
            => Injective(w)
      BY <1>2, StaysInjective
    <2>2. Injective(listeners')
      BY <1>3, <2>1
    <2> QED BY <2>2 DEF Injective
  <1>5. TypeOK'
    <2>1. Len(listeners') <= Cardinality(Client)
      BY <1>3, <1>4, ListBound DEF Injective
    <2>2. owed' \subseteq Client
      BY <1>1, <1>3 DEF TypeOK
    <2>3. request' \in [Client -> {"none", "subscribe", "unsubscribe"}]
      BY <1>1 DEF TypeOK
    <2> QED BY <1>1, <1>3, <2>1, <2>2, <2>3 DEF TypeOK
  <1>6. OneLoop' /\ \A d \in Client : ClientInv(d)'
    BY <1>1 DEF DeliveryInv, OneLoop, Publishing, ClientInv, Got
  <1>7. ASSUME NEW p \in Publisher, Publishing(p)' PROVE LoopInv(p)'
    <2>1. /\ LoopInv(p) /\ Len(listeners) = loop[p].size /\ loop'[p] = loop[p]
          /\ loop[p].at \in Nat /\ loop[p].size \in Nat
      BY <1>1, <1>7, LoopType DEF DeliveryInv, LoopInv, Publishing
    <2> DEFINE a == loop[p].at
               n == loop[p].size
    <2>2. Ahead(p) = Span(listeners, a, n) /\ Ahead(p)' = Span(listeners', a, n)
      BY <2>1 DEF Ahead, Span
    <2>3. owed \subseteq Ahead(p) /\ \A d \in Ahead(p) : Got(d, published - 1)
      BY <2>1 DEF LoopInv
    <2>4. /\ Ahead(p)' \subseteq Ahead(p)
          /\ Len(listeners') >= n => owed' \subseteq Ahead(p)'
          /\ \E y \in Client \cup {NoOne} : owed' \subseteq Ahead(p)' \cup {y}
      <3>1. CASE Same(listeners, listeners') /\ owed' \subseteq owed
        BY <2>2, <2>3, <3>1 DEF Same
      <3>2. CASE Longer(listeners, listeners', c) /\ owed' = owed
        <4>1. Span(listeners', a, n) = Span(listeners, a, n)
          BY <1>2, <1>3, <2>1, <3>2, Spans
        <4> QED BY <2>2, <2>3, <3>2, <4>1
      <3>3. CASE /\ \E r \in 1 .. Len(listeners) : Shorter(listeners, listeners', c, r)
                 /\ owed' = owed \ {c}
        <4>1. PICK r \in 1 .. Len(listeners) : Shorter(listeners, listeners', c, r)
          BY <3>3
        <4>2. /\ Span(listeners', a, n) \subseteq Span(listeners, a, n)
              /\ \E y \in Client \cup {NoOne} :
                   Span(listeners, a, n) \ {c} \subseteq Span(listeners', a, n) \cup {y}
          <5> HIDE DEF a, n
          <5>1. a \in Nat /\ n \in Nat /\ n = Len(listeners)
            BY <2>1 DEF a, n
          <5>2. \A q \in 1 .. Len(listeners) : Shorter(listeners, listeners', c, q) =>
                  /\ Span(listeners', a, n) \subseteq Span(listeners, a, n)
                  /\ \E y \in Client \cup {NoOne} :
                       Span(listeners, a, n) \ {c} \subseteq Span(listeners', a, n) \cup {y}
            BY <1>2, <1>3, <5>1, Spans, Zenon
          <5> QED BY <4>1, <5>2, Zenon
        <4>3. ~(Len(listeners') >= n)
          BY <2>1, <4>1 DEF Shorter
        <4>4. PICK y \in Client \cup {NoOne} :
                   Span(listeners, a, n) \ {c} \subseteq Span(listeners', a, n) \cup {y}
          BY <4>2
        <4>5. owed' \subseteq Ahead(p)' \cup {y}
          BY <2>2, <2>3, <3>3, <4>4
        <4> QED BY <2>2, <4>2, <4>3, <4>5
      <3> QED BY <1>3, <3>1, <3>2, <3>3
    <2>5. \A d \in Ahead(p)' : Got(d, published - 1)'
      BY <1>1, <2>3, <2>4 DEF Got
    <2> QED BY <1>1, <2>1, <2>4, <2>5 DEF LoopInv
  <1> QED BY <1>4, <1>5, <1>6, <1>7 DEF DeliveryInv

(***************************************************************************)
(* The theorems.                                                           *)
(***************************************************************************)

LEMMA DeliveryStep ==
  ASSUME DeliveryInv, [Next]_vars
  PROVE  DeliveryInv'
  <1>1. CASE UNCHANGED vars
    <2>1. UNCHANGED <<published, mutex, listeners, loop, handling, inbox, owed,
                      request, entry, master, evt, log>>
      BY <1>1 DEF vars, clientVars, deliveryVars
    <2>2. TypeOK'
      BY <2>1 DEF DeliveryInv, TypeOK
    <2>3. \A c \in Client : ClientInv(c)'
      BY <2>1 DEF DeliveryInv, ClientInv, Got
    <2>4. \A c \in Client : \A n \in Nat : Got(c, n) => Got(c, n)'
      BY <2>1 DEF Got
    <2> QED BY <2>1, <2>2, <2>3, <2>4, ProviderRests
  <1>2. CASE Application
    BY <1>2, PublishBeginStep, PublishSubscriberEventStep, ApplicationStep DEF Application
  <1>3. CASE \E p \in Publisher : PublishStep(p)
    BY <1>3, PublishSendStep, PublishEndStep DEF PublishStep
  <1>4. CASE ProviderDispatch
    BY <1>4, DispatchLookupStep, SubscriptionHandlerStep DEF ProviderDispatch
  <1>5. CASE \E c \in Client : ClientDispatch(c)
    BY <1>5, ClientDispatchStep
  <1> QED BY <1>1, <1>2, <1>3, <1>4, <1>5 DEF Next

(* The inductive invariant: messages, the loop of rbus_publishEvent and the *)
(* list it walks over fit together, whatever the other threads do.          *)
THEOREM DeliveryInvariant == Spec => []DeliveryInv
  <1>1. Init => DeliveryInv
    BY DeliveryInit
  <1>2. DeliveryInv /\ [Next]_vars => DeliveryInv'
    BY DeliveryStep
  <1> QED BY <1>1, <1>2, PTL DEF Spec

(* The state keeps its type; the list of listeners never holds more items   *)
(* than there are clients (server_event_addListener).                       *)
THEOREM DeliveryTypeCorrect == Spec => []TypeOK
  <1>1. DeliveryInv => TypeOK
    BY DEF DeliveryInv
  <1> QED BY <1>1, DeliveryInvariant, PTL

(* Every application sees the events in the order of publishing, and none   *)
(* twice, for any number of publishing threads and clients.                 *)
THEOREM DeliveryInOrder == Spec => []DeliveredInOrder
  <1>1. DeliveryInv => DeliveredInOrder
    BY DEF DeliveryInv, ClientInv, Ordered, DeliveredInOrder
  <1> QED BY <1>1, DeliveryInvariant, PTL

(* However many clients unsubscribe, a loop of rbus_publishEvent passes     *)
(* over at most one listener, and over none unless the list got shorter.    *)
THEOREM DeliveryMissesAtMostOne == Spec => []MissesAtMostOne
  <1>1. ASSUME DeliveryInv PROVE MissesAtMostOne
    <2> SUFFICES ASSUME NEW p \in Publisher, Publishing(p), loop[p].at > loop[p].size
                 PROVE  /\ Cardinality(owed) <= 1
                        /\ loop[p].size <= Len(listeners) => owed = {}
      BY DEF MissesAtMostOne
    <2>1. LoopInv(p) /\ TypeOK
      BY <1>1 DEF DeliveryInv
    <2>2. Ahead(p) = {}
      BY <2>1, LoopType DEF Ahead
    <2>3. PICK x \in Client \cup {NoOne} : owed \subseteq {x}
      BY <2>1, <2>2 DEF LoopInv
    <2>4. IsFiniteSet({x}) /\ Cardinality({x}) = 1
      BY FS_Singleton
    <2>5. Cardinality(owed) <= 1
      BY <2>3, <2>4, FS_Subset
    <2>6. loop[p].size <= Len(listeners) => owed = {}
      BY <2>1, <2>2, LoopType DEF LoopInv
    <2> QED BY <2>5, <2>6
  <1> QED BY <1>1, DeliveryInvariant, PTL

=============================================================================
