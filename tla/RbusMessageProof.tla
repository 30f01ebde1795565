--------------------------- MODULE RbusMessageProof ---------------------------
(* Proofs about RbusMessage, for messages of any items, read and published  *)
(* any number of times.                                                     *)
EXTENDS RbusMessage, SequenceTheorems, TLAPS

(***************************************************************************)
(* The invariant.                                                          *)
(***************************************************************************)

(* Where the item after the first j starts, or the buffer ends. *)
Pos(m, j) == IF j < Len(m.items) THEN m.items[j + 1].at ELSE m.size

(* The items lie one behind the other and fill the buffer; an offset is     *)
(* that of an earlier byte.                                                 *)
Placed(m) ==
    /\ Pos(m, 0) = 0
    /\ \A k \in 1 .. Len(m.items) :
         /\ m.items[k].size > 0
         /\ Pos(m, k) = m.items[k].at + m.items[k].size
         /\ m.items[k].at + m.items[k].size <= m.size
         /\ m.items[k].offset <= m.items[k].at
    /\ \A j, k \in 1 .. Len(m.items) : j < k => m.items[j].at < m.items[k].at

(* s is what a reader gets that starts behind the first b items of m and    *)
(* has come to byte n.                                                      *)
Follows(s, m, b, n) ==
    /\ b + Len(s) <= Len(m.items)
    /\ \A k \in 1 .. Len(s) : s[k] = m.items[b + k]
    /\ n = Pos(m, b + Len(s))

BufferInv ==
    /\ TypeOK
    /\ Placed(out) /\ Placed(in)
    /\ out.meta <= out.size /\ in.meta <= in.size
    /\ writing => seals < MaxSeals

(* The payload comes first in both messages, and the application of the     *)
(* receiver has read the first items; while the meta section is read, its   *)
(* position is the one that is kept.                                        *)
PayloadInv ==
    /\ Agree(out.items, payload) /\ Agree(in.items, payload)
    /\ Len(payload) <= Len(out.items)
    /\ seals = 0 => /\ Len(in.items) <= Len(payload)
                    /\ ~writing => Len(payload) = Len(out.items)
    /\ Follows(got, in, 0, IF reading THEN in.meta ELSE in.read)

MessageInv == BufferInv /\ PayloadInv

(* The items in front of the meta section that is written, and of the one   *)
(* that was received.                                                       *)
OutBase == Len(out.items) - Len(meta)
InBase  == Len(in.items) - Len(meta) - 1

(* The section that is written starts at meta_offset. *)
SectionWritten ==
    /\ OutBase >= 0
    /\ Follows(meta, out, OutBase, out.size)
    /\ out.meta = Pos(out, OutBase)

(* The section that was sent is followed by its offset in 5 bytes. *)
SectionSent ==
    /\ InBase >= 0
    /\ \A k \in 1 .. Len(meta) : meta[k] = in.items[InBase + k]
    /\ LastItem(in).size = 5 /\ LastItem(in).offset = Pos(in, InBase)

SectionInv ==
    /\ writing => SectionWritten
    /\ seals > 0 /\ ~writing =>
         /\ SectionSent
         /\ reading => Follows(gotMeta, in, InBase, in.read)

MetaInv == MessageInv /\ SectionInv

(***************************************************************************)
(* The operators on messages.                                              *)
(***************************************************************************)

(* What the types say of a message and of its items. *)
LEMMA MessageTypes ==
  ASSUME NEW m \in Message
  PROVE  /\ m.items \in Seq(Stored) /\ Len(m.items) \in Nat
         /\ m.size \in Nat /\ m.read \in Int /\ m.meta \in Nat
         /\ \A k \in 1 .. Len(m.items) :
              /\ m.items[k] \in Stored
              /\ m.items[k].at \in Nat /\ m.items[k].size \in Nat
              /\ m.items[k].offset \in Int
  <1>1. m.items \in Seq(Stored) /\ m.size \in Nat /\ m.read \in Int /\ m.meta \in Nat
    BY DEF Message
  <1>2. \A k \in 1 .. Len(m.items) : m.items[k] \in Stored
    BY <1>1
  <1> QED BY <1>1, <1>2 DEF Stored

(* The positions between the items, up to the end of the buffer. *)
LEMMA PosTypes ==
  ASSUME NEW m \in Message, Placed(m), NEW j \in 0 .. Len(m.items)
  PROVE  Pos(m, j) \in Nat /\ Pos(m, j) <= m.size
  <1>1. Len(m.items) \in Nat /\ m.size \in Nat
    BY MessageTypes
  <1>2. CASE j < Len(m.items)
    <2>1. j + 1 \in 1 .. Len(m.items)
      BY <1>1, <1>2
    <2>2. m.items[j + 1].at \in Nat /\ m.items[j + 1].size \in Nat
      BY <2>1, MessageTypes
    <2>3. m.items[j + 1].at + m.items[j + 1].size <= m.size
      BY <2>1 DEF Placed
    <2> QED BY <1>1, <1>2, <2>2, <2>3 DEF Pos
  <1>3. CASE ~(j < Len(m.items))
    BY <1>1, <1>3 DEF Pos
  <1> QED BY <1>2, <1>3

(* Pack puts one item behind the others. *)
LEMMA Packed ==
  ASSUME NEW m \in Message, Placed(m), NEW type \in ItemType, NEW size \in Nat \ {0},
         NEW offset \in Nat \cup {-1}, offset <= m.size,
         NEW q, q = Pack(m, type, size, offset)
  PROVE  /\ q \in Message /\ Placed(q)
         /\ q.size = m.size + size /\ q.read = m.read /\ q.meta = m.meta
         /\ Len(q.items) = Len(m.items) + 1
         /\ \A k \in 1 .. Len(m.items) : q.items[k] = m.items[k]
         /\ \A j \in 0 .. Len(m.items) : Pos(q, j) = Pos(m, j)
         /\ LastItem(q) = [at |-> m.size, size |-> size, type |-> type, offset |-> offset]
         /\ LastItem(q) \in Stored
         /\ q.items[Len(m.items) + 1] = LastItem(q)
  <1>1. PICK i : i = [at |-> m.size, size |-> size, type |-> type, offset |-> offset]
    OBVIOUS
  <1>2. /\ m.items \in Seq(Stored) /\ Len(m.items) \in Nat /\ m.size \in Nat
        /\ m.read \in Int /\ m.meta \in Nat
    BY MessageTypes
  <1>3. i \in Stored /\ i.at = m.size /\ i.size = size /\ i.offset = offset
    BY <1>1, <1>2 DEF Stored
  <1>4. /\ q.items = Append(m.items, i) /\ q.size = m.size + size
        /\ q.read = m.read /\ q.meta = m.meta
        /\ q = [items |-> Append(m.items, i), size |-> m.size + size,
                read |-> m.read, meta |-> m.meta]
    BY <1>1 DEF Pack, Message
  <1>5. /\ Append(m.items, i) \in Seq(Stored)
        /\ Len(q.items) = Len(m.items) + 1
        /\ \A k \in 1 .. Len(m.items) : q.items[k] = m.items[k]
        /\ q.items[Len(m.items) + 1] = i
    BY <1>2, <1>3, <1>4
  <1>6. q \in Message
    BY <1>2, <1>4, <1>5 DEF Message
  <1>7. LastItem(q) = i
    BY <1>5 DEF LastItem
  <1>8. ASSUME NEW j \in 0 .. Len(m.items) PROVE Pos(q, j) = Pos(m, j)
    <2>1. CASE j < Len(m.items)
      <3>1. j + 1 \in 1 .. Len(m.items) /\ j < Len(q.items)
        BY <1>2, <1>5, <2>1
      <3> QED BY <1>5, <2>1, <3>1 DEF Pos
    <2>2. CASE j = Len(m.items)
      BY <1>2, <1>3, <1>5, <2>2 DEF Pos
    <2> QED BY <1>2, <2>1, <2>2
  <1>9. Placed(q)
    <2>1. Pos(q, 0) = 0
      BY <1>2, <1>8 DEF Placed
    <2>2. ASSUME NEW k \in 1 .. Len(m.items)
          PROVE  /\ q.items[k].size > 0
                 /\ Pos(q, k) = q.items[k].at + q.items[k].size
                 /\ q.items[k].at + q.items[k].size <= q.size
                 /\ q.items[k].offset <= q.items[k].at
                 /\ q.items[k].at < m.size
      <3>1. /\ m.items[k].size > 0 /\ Pos(m, k) = m.items[k].at + m.items[k].size
            /\ m.items[k].at + m.items[k].size <= m.size
            /\ m.items[k].offset <= m.items[k].at
        BY <2>2 DEF Placed
      <3>2. m.items[k].at \in Nat /\ m.items[k].size \in Nat
        BY <2>2, MessageTypes
      <3>3. k \in 0 .. Len(m.items)
        BY <1>2, <2>2
      <3>4. Pos(q, k) = Pos(m, k) /\ q.items[k] = m.items[k]
        BY <1>5, <1>8, <2>2, <3>3
      <3>5. q.size \in Nat /\ m.size <= q.size
        BY <1>2, <1>4
      <3> QED BY <1>2, <3>1, <3>2, <3>4, <3>5
    <2>3. Pos(q, Len(m.items) + 1) = q.size
      BY <1>2, <1>5 DEF Pos
    <2>4. \A k \in 1 .. Len(q.items) : k \in 1 .. Len(m.items) \/ k = Len(m.items) + 1
      BY <1>2, <1>5
    <2>5. \A k \in 1 .. Len(q.items) :
            /\ q.items[k].size > 0
            /\ Pos(q, k) = q.items[k].at + q.items[k].size
            /\ q.items[k].at + q.items[k].size <= q.size
            /\ q.items[k].offset <= q.items[k].at
      <3>1. ASSUME NEW k, k = Len(m.items) + 1
            PROVE  /\ q.items[k].size > 0
                   /\ Pos(q, k) = q.items[k].at + q.items[k].size
                   /\ q.items[k].at + q.items[k].size <= q.size
                   /\ q.items[k].offset <= q.items[k].at
        <4>1. q.items[k] = i /\ q.size = m.size + size /\ Pos(q, k) = q.size
          BY <1>4, <1>5, <2>3, <3>1
        <4> QED BY <1>2, <1>3, <4>1
      <3> QED BY <2>2, <2>4, <3>1
    <2>6. ASSUME NEW j \in 1 .. Len(q.items), NEW k \in 1 .. Len(q.items), j < k
          PROVE  q.items[j].at < q.items[k].at
      <3>1. j \in 1 .. Len(m.items)
        BY <1>2, <1>5, <2>6
      <3>2. CASE k \in 1 .. Len(m.items)
        BY <1>5, <2>6, <3>1, <3>2 DEF Placed
      <3>3. CASE k = Len(m.items) + 1
        BY <1>3, <1>5, <2>2, <3>1, <3>3
      <3> QED BY <2>4, <3>2, <3>3
    <2> QED BY <2>1, <2>5, <2>6 DEF Placed
  <1> QED BY <1>1, <1>3, <1>4, <1>5, <1>6, <1>7, <1>8, <1>9

(* The item at a position between items is the next one. *)
LEMMA ItemAtPos ==
  ASSUME NEW m \in Message, Placed(m), NEW j \in 0 .. Len(m.items)
  PROVE  ItemsAt(m, Pos(m, j)) = IF j < Len(m.items) THEN {j + 1} ELSE {}
  <1>1. Len(m.items) \in Nat /\ m.size \in Nat
    BY MessageTypes
  <1>2. \A k \in 1 .. Len(m.items) : /\ m.items[k].at \in Nat /\ m.items[k].size \in Nat
                                     /\ m.items[k].at < m.size
    <2>1. \A k \in 1 .. Len(m.items) :
             /\ m.items[k].at \in Nat /\ m.items[k].size \in Nat
             /\ m.items[k].size > 0 /\ m.items[k].at + m.items[k].size <= m.size
      BY MessageTypes DEF Placed
    <2> QED BY <1>1, <2>1
  <1>3. CASE j < Len(m.items)
    <2>1. j + 1 \in 1 .. Len(m.items) /\ Pos(m, j) = m.items[j + 1].at
      BY <1>1, <1>3 DEF Pos
    <2>2. ASSUME NEW k \in 1 .. Len(m.items), m.items[k].at = m.items[j + 1].at
          PROVE  k = j + 1
      <3>1. ~(k < j + 1) /\ ~(j + 1 < k)
        BY <1>2, <2>1, <2>2 DEF Placed
      <3> QED BY <1>1, <3>1
    <2> QED BY <1>3, <2>1, <2>2 DEF ItemsAt
  <1>4. CASE ~(j < Len(m.items))
    BY <1>1, <1>2, <1>4 DEF ItemsAt, Pos
  <1> QED BY <1>3, <1>4

(* A getter that is between two items consumes the next one, or nothing at  *)
(* the end.                                                                 *)
LEMMA NextAtPos ==
  ASSUME NEW m \in Message, Placed(m), NEW j \in 0 .. Len(m.items), m.read = Pos(m, j)
  PROVE  /\ j < Len(m.items) => /\ AfterNext(m) = {Pos(m, j + 1)}
                                /\ Consumed(m) = <<m.items[j + 1]>>
         /\ ~(j < Len(m.items)) => AfterNext(m) = {Pos(m, j)} /\ Consumed(m) = <<>>
  <1>1. Len(m.items) \in Nat /\ m.size \in Nat
    BY MessageTypes
  <1>2. CASE j < Len(m.items)
    <2>1. ItemsAt(m, m.read) = {j + 1} /\ j + 1 \in 1 .. Len(m.items)
      BY <1>1, <1>2, ItemAtPos
    <2>2. (CHOOSE i \in ItemsAt(m, m.read) : TRUE) = j + 1
      BY <2>1
    <2>3. Consumed(m) = <<m.items[j + 1]>>
      BY <2>1, <2>2 DEF Consumed
    <2>4. Pos(m, j + 1) = m.items[j + 1].at + m.items[j + 1].size
      BY <2>1 DEF Placed
    <2>5. AfterNext(m) = {m.items[j + 1].at + m.items[j + 1].size}
      BY <2>1 DEF AfterNext
    <2> QED BY <1>2, <2>3, <2>4, <2>5
  <1>3. CASE ~(j < Len(m.items))
    <2>1. ItemsAt(m, m.read) = {} /\ m.read = m.size
      BY <1>3, ItemAtPos DEF Pos
    <2> QED BY <1>1, <1>3, <2>1 DEF AfterNext, Consumed
  <1> QED BY <1>2, <1>3

(* A getter that starts in the buffer does not go beyond it, and wherever   *)
(* it starts its position stays a number.                                   *)
LEMMA NextWithin ==
  ASSUME NEW m \in Message, Placed(m), NEW n \in AfterNext(m)
  PROVE  n \in Int /\ (m.read \in 0 .. m.size => n \in 0 .. m.size)
  <1>1. m.size \in Nat /\ m.read \in Int
    BY MessageTypes
  <1>2. CASE ItemsAt(m, m.read) # {}
    <2>1. PICK i \in ItemsAt(m, m.read) : n = m.items[i].at + m.items[i].size
      BY <1>2 DEF AfterNext
    <2>2. i \in 1 .. Len(m.items)
      BY DEF ItemsAt
    <2>3. /\ m.items[i].at \in Nat /\ m.items[i].size \in Nat
          /\ m.items[i].at + m.items[i].size <= m.size
      BY <2>2, MessageTypes DEF Placed
    <2> QED BY <1>1, <2>1, <2>3
  <1>3. CASE ItemsAt(m, m.read) = {}
    BY <1>1, <1>3 DEF AfterNext
  <1> QED BY <1>2, <1>3

(* What a getter consumes is of the buffer. *)
LEMMA ConsumedType ==
  ASSUME NEW m \in Message
  PROVE  Consumed(m) \in Seq(Stored)
  <1>1. CASE ItemsAt(m, m.read) = {}
    BY <1>1 DEF Consumed
  <1>2. CASE ItemsAt(m, m.read) # {}
    <2>1. PICK i : i = CHOOSE k \in ItemsAt(m, m.read) : TRUE
      OBVIOUS
    <2>2. i \in ItemsAt(m, m.read)
      BY <1>2, <2>1
    <2>3. m.items[i] \in Stored
      BY <2>2, MessageTypes DEF ItemsAt
    <2>4. Consumed(m) = <<m.items[i]>>
      BY <1>2, <2>1 DEF Consumed
    <2> QED BY <2>3, <2>4
  <1> QED BY <1>1, <1>2

(* What is found at the end of a message is a number. *)
LEMMA OffsetIsNumber ==
  ASSUME NEW m \in Message, NEW n \in SectionOffset(m)
  PROVE  n \in Int
  <1>1. n = 0 => n \in Int
    OBVIOUS
  <1>2. n \in Stray => n \in Int
    BY StrayAssumption, Zenon
  <1>3. CASE \E i \in ItemsAt(m, m.size - 5) : n = m.items[i].offset
    BY <1>3, MessageTypes DEF ItemsAt
  <1> QED BY <1>1, <1>2, <1>3 DEF SectionOffset

(* A message that differs only in its positions has the same places. *)
LEMMA SameItems ==
  ASSUME NEW m, NEW q, q.items = m.items, q.size = m.size
  PROVE  /\ Placed(m) => Placed(q)
         /\ \A j : Pos(q, j) = Pos(m, j)
         /\ \A s, b, n : Follows(s, m, b, n) => Follows(s, q, b, n)
  <1>1. \A j : Pos(q, j) = Pos(m, j)
    BY DEF Pos
  <1>2. Placed(m) => Placed(q)
    BY <1>1 DEF Placed
  <1>3. \A s, b, n : Follows(s, m, b, n) => Follows(s, q, b, n)
    BY <1>1 DEF Follows
  <1> QED BY <1>1, <1>2, <1>3

(* What a receiver starts with. *)
LEMMA Received ==
  ASSUME NEW m \in Message, Placed(m), NEW q, q = FromBytes(m)
  PROVE  /\ q \in Message /\ Placed(q)
         /\ q.items = m.items /\ q.size = m.size /\ q.read = 0 /\ q.meta = 0
         /\ Follows(<<>>, q, 0, 0)
  <1>1. /\ q \in Message
        /\ q.items = m.items /\ q.size = m.size /\ q.read = 0 /\ q.meta = 0
    <2>1. q = [items |-> m.items, size |-> m.size, read |-> 0, meta |-> 0]
      BY DEF FromBytes, Message
    <2>2. m.items \in Seq(Stored) /\ m.size \in Nat /\ 0 \in Int /\ 0 \in Nat
      BY MessageTypes
    <2> QED BY <2>1, <2>2 DEF Message
  <1>2. Placed(q)
    BY <1>1, SameItems
  <1>3. Follows(<<>>, q, 0, 0)
    <2>1. Len(q.items) \in Nat /\ Pos(q, 0) = 0
      BY <1>1, <1>2, MessageTypes DEF Placed
    <2> QED BY <2>1 DEF Follows
  <1> QED BY <1>1, <1>2, <1>3

(* One more item is read where a reader has come to. *)
LEMMA ReadsOn ==
  ASSUME NEW m \in Message, Placed(m), NEW s \in Seq(Stored), NEW b \in Nat,
         Follows(s, m, b, m.read), NEW n \in AfterNext(m)
  PROVE  Follows(s \o Consumed(m), m, b, n)
  <1> DEFINE j == b + Len(s)
  <1>1. Len(s) \in Nat /\ Len(m.items) \in Nat /\ j \in 0 .. Len(m.items) /\ m.read = Pos(m, j)
    BY MessageTypes DEF Follows
  <1>2. CASE j < Len(m.items)
    <2>1. PICK i : i = m.items[j + 1]
      OBVIOUS
    <2>2. n = Pos(m, j + 1) /\ Consumed(m) = <<i>> /\ i \in Stored
      <3>1. j + 1 \in 1 .. Len(m.items)
        BY <1>1, <1>2
      <3> QED BY <1>1, <1>2, <2>1, <3>1, NextAtPos, MessageTypes
    <2>3. /\ Len(s \o <<i>>) = Len(s) + 1 /\ (s \o <<i>>)[Len(s) + 1] = i
          /\ \A k \in 1 .. Len(s) : (s \o <<i>>)[k] = s[k]
      BY <2>2
    <2>4. PICK q : q = s \o <<i>>
      OBVIOUS
    <2>5. /\ Len(q) = Len(s) + 1 /\ q[Len(s) + 1] = i
          /\ \A k \in 1 .. Len(s) : q[k] = s[k]
      BY <2>3, <2>4
    <2>6. ASSUME NEW k \in 1 .. Len(q) PROVE q[k] = m.items[b + k]
      <3>1. CASE k \in 1 .. Len(s)
        BY <2>5, <3>1 DEF Follows
      <3>2. CASE k = Len(s) + 1
        <4>1. b + k = j + 1
          BY <1>1, <3>2
        <4> QED BY <2>1, <2>5, <3>2, <4>1
      <3> QED BY <1>1, <2>5, <3>1, <3>2
    <2>7. b + Len(q) = j + 1
      BY <1>1, <2>5
    <2>8. Follows(q, m, b, n)
      BY <1>1, <1>2, <2>2, <2>6, <2>7 DEF Follows
    <2> QED BY <2>2, <2>4, <2>8
  <1>3. CASE ~(j < Len(m.items))
    <2>1. n = Pos(m, j) /\ Consumed(m) = <<>>
      BY <1>1, <1>3, NextAtPos
    <2>2. s \o <<>> = s
      OBVIOUS
    <2> QED BY <2>1, <2>2 DEF Follows
  <1> QED BY <1>2, <1>3

(***************************************************************************)
(* Types and the payload.                                                  *)
(***************************************************************************)

LEMMA InitMessage == Init => MessageInv
  <1> SUFFICES ASSUME Init PROVE MessageInv
    OBVIOUS
  <1>1. Empty \in Message /\ Empty.items = <<>> /\ Empty.size = 0 /\ Empty.read = 0 /\ Empty.meta = 0
    BY DEF Empty, Message
  <1>2. out = Empty /\ in = Empty /\ payload = <<>> /\ got = <<>>
    BY DEF Init
  <1>3. TypeOK
    <2>1. 0 \in 0 .. MaxSeals /\ 0 \in 0 .. MaxReads
      BY BoundAssumption
    <2>2. <<>> \in Seq(Stored)
      OBVIOUS
    <2>3. out \in Message /\ in \in Message /\ in.read \in 0 .. in.size
      BY <1>1, <1>2
    <2>4. writing \in BOOLEAN /\ reading \in BOOLEAN
      BY DEF Init
    <2>5. seals \in 0 .. MaxSeals /\ reads \in 0 .. MaxReads
      BY <2>1 DEF Init
    <2>6. /\ payload \in Seq(Stored) /\ meta \in Seq(Stored)
          /\ gotMeta \in Seq(Stored) /\ got \in Seq(Stored)
      BY <2>2 DEF Init
    <2> QED BY <2>3, <2>4, <2>5, <2>6 DEF TypeOK
  <1>4. Placed(Empty)
    BY <1>1 DEF Placed, Pos
  <1>5. BufferInv
    BY <1>1, <1>2, <1>3, <1>4 DEF BufferInv, Init
  <1>6. PayloadInv
    BY <1>1, <1>2 DEF Init, PayloadInv, Agree, Follows, Pos
  <1> QED BY <1>5, <1>6 DEF MessageInv

(* What the invariant says of the sizes of things. *)
LEMMA MessageFacts ==
  ASSUME MessageInv
  PROVE  /\ TypeOK
         /\ out \in Message /\ Placed(out) /\ out.size \in Nat /\ out.meta \in Nat
         /\ in \in Message /\ Placed(in) /\ in.size \in Nat /\ in.meta \in Nat /\ in.read \in Int
         /\ out.meta <= out.size /\ in.meta <= in.size
         /\ ~reading => in.read \in 0 .. in.size
         /\ Len(out.items) \in Nat /\ Len(in.items) \in Nat
         /\ Len(payload) \in Nat /\ Len(meta) \in Nat /\ Len(got) \in Nat /\ Len(gotMeta) \in Nat
         /\ seals \in Nat
  <1>1. TypeOK /\ Placed(out) /\ Placed(in) /\ out.meta <= out.size /\ in.meta <= in.size
    BY DEF MessageInv, BufferInv
  <1>2. out \in Message /\ in \in Message /\ seals \in Nat
        /\ (~reading => in.read \in 0 .. in.size)
    BY <1>1, BoundAssumption DEF TypeOK
  <1>3. /\ Len(payload) \in Nat /\ Len(meta) \in Nat /\ Len(got) \in Nat /\ Len(gotMeta) \in Nat
    BY <1>1 DEF TypeOK
  <1> QED BY <1>1, <1>2, <1>3, MessageTypes

(* The sizes and types of what an application writes. *)
LEMMA SetPacks ==
  ASSUME NEW i \in Item, NEW m
  PROVE  /\ Set(m, i) = Pack(m, i.type, i.size, -1)
         /\ i.type \in ItemType /\ i.size \in Nat \ {0}
  BY ItemAssumption DEF Set

(* The sender's message after an item was written to it. *)
LEMMA Writes ==
  ASSUME MessageInv, NEW i \in Item, out' = Set(out, i)
  PROVE  /\ out' \in Message /\ Placed(out')
         /\ out'.size \in Nat /\ out'.meta = out.meta /\ out'.meta <= out'.size
         /\ Len(out'.items) = Len(out.items) + 1
         /\ \A k \in 1 .. Len(out.items) : out'.items[k] = out.items[k]
         /\ \A j \in 0 .. Len(out.items) : Pos(out', j) = Pos(out, j)
         /\ LastItem(out') \in Stored
         /\ out'.items[Len(out.items) + 1] = LastItem(out')
  <1>1. /\ out \in Message /\ Placed(out) /\ out.size \in Nat /\ out.meta \in Nat
        /\ out.meta <= out.size
    BY MessageFacts
  <1>2. i.type \in ItemType /\ i.size \in Nat \ {0} /\ out' = Pack(out, i.type, i.size, -1)
    BY SetPacks
  <1>3. -1 \in Nat \cup {-1} /\ -1 <= out.size
    BY <1>1
  <1>4. /\ out' \in Message /\ Placed(out')
        /\ out'.size = out.size + i.size /\ out'.meta = out.meta
        /\ Len(out'.items) = Len(out.items) + 1
        /\ \A k \in 1 .. Len(out.items) : out'.items[k] = out.items[k]
        /\ \A j \in 0 .. Len(out.items) : Pos(out', j) = Pos(out, j)
        /\ LastItem(out') \in Stored
        /\ out'.items[Len(out.items) + 1] = LastItem(out')
    BY <1>1, <1>2, <1>3, Packed
  <1>5. out'.size \in Nat /\ out'.meta <= out'.size
    BY <1>1, <1>2, <1>4
  <1> QED BY <1>4, <1>5

(* The application of the sender writes an item. *)
LEMMA WritePayloadStep ==
  ASSUME MessageInv, NEW i \in Item, WritePayload(i)
  PROVE  MessageInv'
  <1>1. /\ ~writing /\ out' = Set(out, i)
        /\ payload' = (IF seals = 0 THEN Append(payload, LastItem(out')) ELSE payload)
        /\ UNCHANGED <<in, writing, reading, seals, reads, meta, gotMeta, got>>
    BY DEF WritePayload
  <1>2. /\ out' \in Message /\ Placed(out') /\ out'.meta <= out'.size
        /\ Len(out'.items) = Len(out.items) + 1
        /\ \A k \in 1 .. Len(out.items) : out'.items[k] = out.items[k]
        /\ LastItem(out') \in Stored
        /\ out'.items[Len(out.items) + 1] = LastItem(out')
    BY <1>1, Writes
  <1>3. PICK l : l = LastItem(out')
    OBVIOUS
  <1>4. /\ payload' \in Seq(Stored)
        /\ \/ payload' = payload /\ seals # 0
           \/ /\ Len(payload') = Len(payload) + 1 /\ seals = 0
              /\ \A k \in 1 .. Len(payload) : payload'[k] = payload[k]
              /\ payload'[Len(payload) + 1] = l
    BY <1>1, <1>2, <1>3, MessageFacts DEF TypeOK
  <1>5. BufferInv'
    BY <1>1, <1>2, <1>4, MessageFacts DEF MessageInv, BufferInv, TypeOK
  <1>6. PayloadInv'
    <2>1. PayloadInv /\ MessageInv
      BY DEF MessageInv
    <2>2. /\ Len(payload') \in Nat /\ Len(payload') <= Len(out'.items)
          /\ seals = 0 => /\ Len(in.items) <= Len(payload')
                          /\ Len(payload') = Len(out'.items)
      BY <1>1, <1>2, <1>4, <2>1, MessageFacts DEF PayloadInv
    <2>3. Agree(out'.items, payload')
      <3> SUFFICES ASSUME NEW k \in 1 .. Len(out'.items), k <= Len(payload')
                   PROVE  out'.items[k] = payload'[k]
        BY DEF Agree
      <3>1. /\ Len(out.items) \in Nat /\ Len(payload) \in Nat /\ Len(payload) <= Len(out.items)
            /\ seals = 0 => Len(payload) = Len(out.items)
        BY <1>1, <2>1, MessageFacts DEF PayloadInv
      <3>2. CASE k \in 1 .. Len(out.items)
        <4>1. k <= Len(payload) => out'.items[k] = payload[k]
          BY <1>2, <2>1, <3>2 DEF PayloadInv, Agree
        <4> QED BY <1>4, <3>1, <3>2, <4>1
      <3>3. CASE k = Len(out.items) + 1
        <4>1. seals = 0 /\ k = Len(payload) + 1
          BY <1>4, <3>1, <3>3
        <4> QED BY <1>2, <1>3, <1>4, <3>3, <4>1
      <3> QED BY <1>2, <3>1, <3>2, <3>3
    <2>4. Agree(in.items, payload')
      BY <1>4, <2>1, MessageFacts DEF PayloadInv, Agree
    <2>5. Follows(got, in, 0, IF reading THEN in.meta ELSE in.read)
      BY <2>1 DEF PayloadInv
    <2> QED BY <1>1, <2>2, <2>3, <2>4, <2>5 DEF PayloadInv
  <1> QED BY <1>5, <1>6 DEF MessageInv

(* The section's start is noted. *)
LEMMA BeginMetaStep ==
  ASSUME MessageInv, BeginMeta
  PROVE  /\ MessageInv'
         /\ out'.items = out.items /\ out'.size = out.size /\ out'.meta = out.size
  <1>1. /\ ~writing /\ seals < MaxSeals
        /\ out' = [out EXCEPT !.meta = out.size] /\ writing' = TRUE /\ meta' = <<>>
        /\ UNCHANGED <<in, reading, seals, reads, payload, gotMeta, got>>
    BY DEF BeginMeta, BeginMetaSectionWrite
  <1>2. /\ out' \in Message /\ out'.items = out.items /\ out'.size = out.size
        /\ out'.meta = out.size
    BY <1>1, MessageFacts DEF Message
  <1>3. Placed(out')
    BY <1>2, MessageFacts, SameItems
  <1>4. BufferInv'
    BY <1>1, <1>2, <1>3, MessageFacts DEF BufferInv, TypeOK
  <1>5. PayloadInv'
    BY <1>1, <1>2 DEF MessageInv, PayloadInv
  <1> QED BY <1>2, <1>4, <1>5 DEF MessageInv

(* An item of the meta section is written. *)
LEMMA WriteMetaStep ==
  ASSUME MessageInv, NEW i \in Item, WriteMeta(i)
  PROVE  MessageInv'
  <1>1. /\ writing /\ out' = Set(out, i) /\ meta' = Append(meta, LastItem(out'))
        /\ UNCHANGED <<in, writing, reading, seals, reads, payload, gotMeta, got>>
    BY DEF WriteMeta
  <1>2. /\ out' \in Message /\ Placed(out') /\ out'.meta <= out'.size
        /\ Len(out'.items) = Len(out.items) + 1
        /\ \A k \in 1 .. Len(out.items) : out'.items[k] = out.items[k]
        /\ LastItem(out') \in Stored
    BY <1>1, Writes
  <1>3. meta' \in Seq(Stored)
    BY <1>1, <1>2, MessageFacts DEF TypeOK
  <1>4. BufferInv'
    BY <1>1, <1>2, <1>3, MessageFacts DEF MessageInv, BufferInv, TypeOK
  <1>5. PayloadInv'
    <2>1. PayloadInv /\ Len(out.items) \in Nat /\ Len(payload) \in Nat
      BY MessageFacts DEF MessageInv
    <2>2. Agree(out'.items, payload)
      BY <1>2, <2>1 DEF PayloadInv, Agree
    <2> QED BY <1>1, <1>2, <2>1, <2>2 DEF PayloadInv
  <1> QED BY <1>4, <1>5 DEF MessageInv

(* An offset is below 2^31 - 2^15: behind that its value with the sign bit  *)
(* set is an integer that msgpack stores in less than 5 bytes.              *)
SmallOffset(n) == n < 2147450880

(* The bytes of the offset n with its sign bit set. *)
SignedSize(n) == IntSize(n - 2147483647 - 1)

LEMMA OffsetSizes ==
  ASSUME NEW n \in Nat
  PROVE  /\ SignedSize(n) \in {1, 2, 3, 5}
         /\ SmallOffset(n) => SignedSize(n) = 5
  <1>1. \A v \in Int : IntSize(v) \in {1, 2, 3, 5}
    BY DEF IntSize
  <1>2. \A v \in Int : v < -32768 => IntSize(v) = 5
    BY SMT DEF IntSize
  <1>3. n - 2147483647 - 1 \in Int /\ (SmallOffset(n) => n - 2147483647 - 1 < -32768)
    BY SMT DEF SmallOffset
  <1> QED BY <1>1, <1>2, <1>3, SMT DEF SignedSize

LEMMA SmallerOffset ==
  ASSUME NEW n \in Nat, NEW k \in Nat, k <= n, SmallOffset(n)
  PROVE  SmallOffset(k)
  BY SMT DEF SmallOffset

LEMMA EndsWithOffset ==
  ASSUME NEW m
  PROVE  EndMetaSectionWrite(m) =
           Pack(m, "int", SignedSize(m.meta), IF SignedSize(m.meta) = 5 THEN m.meta ELSE -1)
  BY SMT DEF EndMetaSectionWrite, SignedSize

(* The sender's message after the section was ended. *)
LEMMA Seals ==
  ASSUME MessageInv, out' = EndMetaSectionWrite(out)
  PROVE  /\ out' \in Message /\ Placed(out')
         /\ out'.size \in Nat /\ out'.meta = out.meta /\ out'.meta <= out'.size
         /\ Len(out'.items) = Len(out.items) + 1
         /\ \A k \in 1 .. Len(out.items) : out'.items[k] = out.items[k]
         /\ \A j \in 0 .. Len(out.items) : Pos(out', j) = Pos(out, j)
         /\ SmallOffset(out.meta) => /\ LastItem(out').size = 5
                                     /\ LastItem(out').offset = out.meta
  <1>1. /\ out \in Message /\ Placed(out) /\ out.size \in Nat /\ out.meta \in Nat
        /\ out.meta <= out.size
    BY MessageFacts
  <1>2. PICK z : z = SignedSize(out.meta)
    OBVIOUS
  <1>3. PICK o : o = IF z = 5 THEN out.meta ELSE -1
    OBVIOUS
  <1>4. z \in Nat \ {0} /\ (SmallOffset(out.meta) => z = 5)
    BY <1>1, <1>2, OffsetSizes
  <1>5. o \in Nat \cup {-1} /\ o <= out.size
    BY <1>1, <1>3
  <1>6. out' = Pack(out, "int", z, o) /\ "int" \in ItemType
    BY <1>2, <1>3, EndsWithOffset DEF ItemType
  <1>7. /\ out' \in Message /\ Placed(out')
        /\ out'.size = out.size + z /\ out'.meta = out.meta
        /\ Len(out'.items) = Len(out.items) + 1
        /\ \A k \in 1 .. Len(out.items) : out'.items[k] = out.items[k]
        /\ \A j \in 0 .. Len(out.items) : Pos(out', j) = Pos(out, j)
        /\ LastItem(out') = [at |-> out.size, size |-> z, type |-> "int", offset |-> o]
    BY <1>1, <1>4, <1>5, <1>6, Packed
  <1>8. out'.size \in Nat /\ out'.meta <= out'.size
    BY <1>1, <1>4, <1>7
  <1>9. LastItem(out').size = z /\ LastItem(out').offset = o
    BY <1>7
  <1> QED BY <1>3, <1>4, <1>7, <1>8, <1>9

(* The message is sealed, and the receiver gets it. *)
LEMMA EndMetaStep ==
  ASSUME MessageInv, EndMetaAndSend
  PROVE  MessageInv'
  <1>1. /\ writing /\ out' = EndMetaSectionWrite(out) /\ in' = FromBytes(out')
        /\ writing' = FALSE /\ seals' = seals + 1 /\ reading' = FALSE /\ reads' = 0
        /\ gotMeta' = <<>> /\ got' = <<>> /\ UNCHANGED <<payload, meta>>
    BY DEF EndMetaAndSend
  <1>2. /\ out' \in Message /\ Placed(out') /\ out'.size \in Nat /\ out'.meta <= out'.size
        /\ Len(out'.items) = Len(out.items) + 1
        /\ \A k \in 1 .. Len(out.items) : out'.items[k] = out.items[k]
    BY <1>1, Seals
  <1>3. /\ in' \in Message /\ Placed(in') /\ in'.items = out'.items /\ in'.size = out'.size
        /\ in'.read = 0 /\ in'.meta = 0 /\ Follows(<<>>, in', 0, 0)
    BY <1>1, <1>2, Received
  <1>4. TypeOK'
    <2>1. seals' \in 0 .. MaxSeals /\ reads' \in 0 .. MaxReads
      BY <1>1, MessageFacts, BoundAssumption DEF MessageInv, BufferInv
    <2>2. <<>> \in Seq(Stored) /\ in'.read \in 0 .. in'.size
      BY <1>2, <1>3
    <2> QED BY <1>1, <1>2, <1>3, <2>1, <2>2, MessageFacts DEF TypeOK
  <1>5. BufferInv'
    BY <1>1, <1>2, <1>3, <1>4 DEF BufferInv
  <1>6. PayloadInv'
    <2>1. /\ PayloadInv /\ Len(out.items) \in Nat /\ Len(payload) \in Nat /\ seals \in Nat
      BY MessageFacts DEF MessageInv
    <2>2. Agree(out'.items, payload)
      BY <1>2, <2>1 DEF PayloadInv, Agree
    <2>3. Len(payload) <= Len(out'.items) /\ seals' # 0
      BY <1>1, <1>2, <2>1 DEF PayloadInv
    <2> QED BY <1>1, <1>3, <2>2, <2>3 DEF PayloadInv
  <1> QED BY <1>5, <1>6 DEF MessageInv

(* A message of other code is sent. *)
LEMMA SendUnsealedStep ==
  ASSUME MessageInv, SendUnsealed
  PROVE  MessageInv'
  <1>1. /\ seals = 0 /\ ~writing /\ in = Empty /\ in' = FromBytes(out)
        /\ UNCHANGED <<out, writing, reading, seals, reads, payload, meta, gotMeta, got>>
    BY DEF SendUnsealed
  <1>2. /\ in' \in Message /\ Placed(in') /\ in'.items = out.items /\ in'.size = out.size
        /\ in'.read = 0 /\ in'.meta = 0 /\ Follows(<<>>, in', 0, 0)
    BY <1>1, MessageFacts, Received
  <1>3. BufferInv'
    BY <1>1, <1>2, MessageFacts DEF MessageInv, BufferInv, TypeOK
  <1>4. PayloadInv'
    <2>1. PayloadInv /\ Len(out.items) \in Nat /\ got \in Seq(Stored) /\ Len(got) \in Nat
      BY MessageFacts DEF MessageInv, TypeOK
    <2>2. Len(in.items) = 0
      BY <1>1 DEF Empty
    <2>3. got = <<>>
      BY <2>1, <2>2 DEF PayloadInv, Follows
    <2>4. Len(payload) = Len(out.items) /\ Agree(out.items, payload)
      BY <1>1, <2>1 DEF PayloadInv
    <2>5. Follows(got, in', 0, IF reading THEN in'.meta ELSE in'.read)
      BY <1>2, <2>3
    <2> QED BY <1>1, <1>2, <2>1, <2>4, <2>5 DEF PayloadInv
  <1> QED BY <1>3, <1>4 DEF MessageInv

(* A receiver that only moves its positions keeps its items. *)
LEMMA MovesOnly ==
  ASSUME MessageInv, NEW r \in Int, NEW p \in Nat, p <= in.size,
         in' = [in EXCEPT !.read = r, !.meta = p]
  PROVE  /\ in' \in Message /\ Placed(in')
         /\ in'.items = in.items /\ in'.size = in.size /\ in'.read = r /\ in'.meta = p
         /\ in'.meta <= in'.size
         /\ \A s, b, n : Follows(s, in, b, n) => Follows(s, in', b, n)
         /\ \A j : Pos(in', j) = Pos(in, j)
  <1>1. /\ in' \in Message
        /\ in'.items = in.items /\ in'.size = in.size /\ in'.read = r /\ in'.meta = p
    BY MessageFacts DEF Message
  <1> QED BY <1>1, MessageFacts, SameItems

(* The reader of the meta section keeps the application's position. *)
LEMMA ReadBeginStep ==
  ASSUME MessageInv, ReadBegin
  PROVE  /\ MessageInv'
         /\ in'.read \in SectionOffset(in)
         /\ in'.items = in.items /\ in'.size = in.size
  <1>1. /\ ~reading /\ reads < MaxReads /\ in' \in BeginMetaSectionRead(in)
        /\ reading' = TRUE /\ reads' = reads + 1 /\ gotMeta' = <<>>
        /\ UNCHANGED <<out, writing, seals, payload, meta, got>>
    BY DEF ReadBegin
  <1>2. PICK n \in SectionOffset(in) : in' = [in EXCEPT !.meta = in.read, !.read = n]
    BY <1>1 DEF BeginMetaSectionRead
  <1>3. n \in Int /\ in.read \in Nat /\ in.read <= in.size
    BY <1>1, MessageFacts, OffsetIsNumber
  <1>4. in' = [in EXCEPT !.read = n, !.meta = in.read]
    BY <1>2, MessageFacts DEF Message
  <1>5. /\ in' \in Message /\ Placed(in')
        /\ in'.items = in.items /\ in'.size = in.size /\ in'.read = n /\ in'.meta = in.read
        /\ in'.meta <= in'.size
        /\ \A s, b, k : Follows(s, in, b, k) => Follows(s, in', b, k)
    BY <1>3, <1>4, MovesOnly
  <1>6. BufferInv'
    <2>1. reads' \in 0 .. MaxReads
      <3>1. reads \in 0 .. MaxReads /\ MaxReads \in Nat
        BY BoundAssumption, MessageFacts DEF TypeOK
      <3> QED BY <1>1, <3>1
    <2>2. gotMeta' \in Seq(Stored)
      BY <1>1
    <2> QED BY <1>1, <1>5, <2>1, <2>2, MessageFacts DEF MessageInv, BufferInv, TypeOK
  <1>7. PayloadInv'
    <2>1. Follows(got, in', 0, in'.meta)
      BY <1>1, <1>5 DEF MessageInv, PayloadInv
    <2> QED BY <1>1, <1>5, <2>1 DEF MessageInv, PayloadInv
  <1> QED BY <1>2, <1>5, <1>6, <1>7 DEF MessageInv

(* One item of the meta section is read. *)
LEMMA ReadMetaStep ==
  ASSUME MessageInv, ReadMeta
  PROVE  /\ MessageInv'
         /\ in'.read \in AfterNext(in)
         /\ in'.items = in.items /\ in'.size = in.size
  <1>1. /\ reading /\ gotMeta' = gotMeta \o Consumed(in)
        /\ UNCHANGED <<out, writing, reading, seals, reads, payload, meta, got>>
    BY DEF ReadMeta
  <1>2. PICK n \in AfterNext(in) : in' = [in EXCEPT !.read = n]
    BY DEF ReadMeta
  <1>3. n \in Int /\ in.meta \in Nat /\ in.meta <= in.size
    BY MessageFacts, NextWithin
  <1>4. in' = [in EXCEPT !.read = n, !.meta = in.meta]
    BY <1>2, MessageFacts DEF Message
  <1>5. /\ in' \in Message /\ Placed(in')
        /\ in'.items = in.items /\ in'.size = in.size /\ in'.read = n /\ in'.meta = in.meta
        /\ in'.meta <= in'.size
        /\ \A s, b, k : Follows(s, in, b, k) => Follows(s, in', b, k)
    BY <1>3, <1>4, MovesOnly
  <1>6. BufferInv'
    <2>1. gotMeta' \in Seq(Stored)
      BY <1>1, ConsumedType, MessageFacts DEF TypeOK
    <2> QED BY <1>1, <1>5, <2>1, MessageFacts DEF MessageInv, BufferInv, TypeOK
  <1>7. PayloadInv'
    <2>1. Follows(got, in', 0, in'.meta)
      BY <1>1, <1>5 DEF MessageInv, PayloadInv
    <2> QED BY <1>1, <1>5, <2>1 DEF MessageInv, PayloadInv
  <1> QED BY <1>2, <1>5, <1>6, <1>7 DEF MessageInv

(* The application's position is back. *)
LEMMA ReadEndStep ==
  ASSUME MessageInv, ReadEnd
  PROVE  MessageInv' /\ in'.items = in.items /\ in'.size = in.size
  <1>1. /\ reading /\ in' = [in EXCEPT !.read = in.meta] /\ reading' = FALSE
        /\ UNCHANGED <<out, writing, seals, reads, payload, meta, gotMeta, got>>
    BY DEF ReadEnd, EndMetaSectionRead
  <1>2. in.meta \in Nat /\ in.meta <= in.size
    BY MessageFacts
  <1>3. in' = [in EXCEPT !.read = in.meta, !.meta = in.meta]
    BY <1>1, MessageFacts DEF Message
  <1>4. /\ in' \in Message /\ Placed(in')
        /\ in'.items = in.items /\ in'.size = in.size /\ in'.read = in.meta
        /\ in'.read \in 0 .. in'.size /\ in'.meta <= in'.size
        /\ \A s, b, k : Follows(s, in, b, k) => Follows(s, in', b, k)
    <2>1. in.meta \in Int /\ in.meta \in 0 .. in.size
      BY <1>2, MessageFacts
    <2> QED BY <1>2, <1>3, <2>1, MovesOnly
  <1>5. BufferInv'
    BY <1>1, <1>4, MessageFacts DEF MessageInv, BufferInv, TypeOK
  <1>6. PayloadInv'
    <2>1. Follows(got, in', 0, in'.read)
      BY <1>1, <1>4 DEF MessageInv, PayloadInv
    <2> QED BY <1>1, <1>4, <2>1 DEF MessageInv, PayloadInv
  <1> QED BY <1>4, <1>5, <1>6 DEF MessageInv

(* The application of the receiver reads its next item. *)
LEMMA ReadPayloadStep ==
  ASSUME MessageInv, ReadPayload
  PROVE  MessageInv' /\ in'.items = in.items /\ in'.size = in.size
  <1>1. /\ ~reading /\ got' = got \o Consumed(in)
        /\ UNCHANGED <<out, writing, reading, seals, reads, payload, meta, gotMeta>>
    BY DEF ReadPayload
  <1>2. PICK n \in AfterNext(in) : in' = [in EXCEPT !.read = n]
    BY DEF ReadPayload
  <1>3. n \in Int /\ n \in 0 .. in.size /\ in.meta \in Nat /\ in.meta <= in.size
    BY <1>1, MessageFacts, NextWithin
  <1>4. in' = [in EXCEPT !.read = n, !.meta = in.meta]
    BY <1>2, MessageFacts DEF Message
  <1>5. /\ in' \in Message /\ Placed(in')
        /\ in'.items = in.items /\ in'.size = in.size /\ in'.read = n /\ in'.meta = in.meta
        /\ in'.read \in 0 .. in'.size /\ in'.meta <= in'.size
        /\ \A s, b, k : Follows(s, in, b, k) => Follows(s, in', b, k)
    BY <1>3, <1>4, MovesOnly
  <1>6. BufferInv'
    <2>1. got' \in Seq(Stored)
      BY <1>1, ConsumedType, MessageFacts DEF TypeOK
    <2> QED BY <1>1, <1>5, <2>1, MessageFacts DEF MessageInv, BufferInv, TypeOK
  <1>7. PayloadInv'
    <2>1. Follows(got, in, 0, in.read) /\ got \in Seq(Stored)
      BY <1>1, MessageFacts DEF MessageInv, PayloadInv, TypeOK
    <2>2. Follows(got \o Consumed(in), in, 0, n)
      BY <2>1, MessageFacts, ReadsOn
    <2>3. Follows(got', in', 0, in'.read)
      BY <1>1, <1>5, <2>2
    <2> QED BY <1>1, <1>5, <2>3 DEF MessageInv, PayloadInv
  <1> QED BY <1>5, <1>6, <1>7 DEF MessageInv

LEMMA MessageStep ==
  ASSUME MessageInv, [Next]_vars
  PROVE  MessageInv'
  <1>1. CASE UNCHANGED vars
    BY <1>1 DEF vars, MessageInv, BufferInv, PayloadInv, TypeOK
  <1> QED BY <1>1, WritePayloadStep, WriteMetaStep, BeginMetaStep, EndMetaStep, SendUnsealedStep,
             ReadBeginStep, ReadMetaStep, ReadEndStep, ReadPayloadStep DEF Next

(* The invariant of the buffers and of the payload, for messages of any     *)
(* size.                                                                    *)
THEOREM MessageInvariant == Spec => []MessageInv
  <1>1. MessageInv /\ [Next]_vars => MessageInv'
    BY MessageStep
  <1> QED BY <1>1, InitMessage, PTL DEF Spec

(* The buffers and the positions keep their types: whatever integer the end *)
(* of a message has for the offset of a meta section, also a negative one   *)
(* or one beyond the buffer, the application reads on within the buffer     *)
(* when the section is left.                                                *)
THEOREM MessageTypeCorrect == Spec => []TypeOK
  <1>1. MessageInv => TypeOK
    BY DEF MessageInv, BufferInv
  <1> QED BY <1>1, MessageInvariant, PTL

(* The application gets the items of the payload in the order they were     *)
(* written, however often the meta section is read or was written           *)
(* (rbusMessage_BeginMetaSectionRead, rbusMessage_EndMetaSectionRead).      *)
THEOREM MessagePayload == Spec => []PayloadInOrder
  <1>1. ASSUME MessageInv PROVE PayloadInOrder
    <2>1. /\ Len(got) \in Nat /\ Len(in.items) \in Nat /\ Len(got) <= Len(in.items)
          /\ \A k \in 1 .. Len(got) : got[k] = in.items[k]
      BY <1>1, MessageFacts DEF MessageInv, PayloadInv, Follows
    <2>2. Agree(in.items, payload)
      BY <1>1 DEF MessageInv, PayloadInv
    <2> QED BY <2>1, <2>2 DEF PayloadInOrder, Agree
  <1> QED BY <1>1, MessageInvariant, PTL

(***************************************************************************)
(* The meta section.                                                       *)
(***************************************************************************)

(* The sender's message is small enough for its offsets. *)
SmallMessage == SmallOffset(out.size)

(* A message that ends with an offset in 5 bytes gives the offset back. *)
LEMMA OffsetFound ==
  ASSUME NEW m \in Message, Placed(m), Len(m.items) > 0,
         LastItem(m).size = 5, LastItem(m).offset \in Nat
  PROVE  SectionOffset(m) = {LastItem(m).offset}
  <1>1. PICK l : l = Len(m.items)
    OBVIOUS
  <1>2. l \in 1 .. l /\ l \in Nat /\ l - 1 \in 0 .. l /\ LastItem(m) = m.items[l]
    BY <1>1, MessageTypes DEF LastItem
  <1>3. m.items[l].at \in Nat /\ m.size \in Nat /\ m.items[l].size = 5
    BY <1>1, <1>2, MessageTypes
  <1>4. Pos(m, l) = m.size /\ Pos(m, l) = m.items[l].at + m.items[l].size
    BY <1>1, <1>2 DEF Pos, Placed
  <1>5. m.size - 5 = m.items[l].at /\ ~(m.size < 5)
    BY <1>3, <1>4
  <1>6. Pos(m, l - 1) = m.items[l].at
    <2>1. l - 1 < Len(m.items) /\ l - 1 + 1 = l
      BY <1>1, <1>2
    <2> QED BY <2>1 DEF Pos
  <1>7. ItemsAt(m, m.size - 5) = {l}
    <2>1. l - 1 < Len(m.items) /\ l - 1 + 1 = l
      BY <1>1, <1>2
    <2> QED BY <1>1, <1>2, <1>5, <1>6, <2>1, ItemAtPos
  <1>8. m.items[l].offset # -1
    BY <1>2
  <1> QED BY <1>2, <1>5, <1>7, <1>8 DEF SectionOffset

LEMMA BeginSection ==
  ASSUME MetaInv, BeginMeta
  PROVE  SectionInv'
  <1>1. /\ writing' = TRUE /\ meta' = <<>>
        /\ out'.items = out.items /\ out'.size = out.size /\ out'.meta = out.size
        /\ Len(out.items) \in Nat
    BY BeginMetaStep, MessageFacts DEF BeginMeta, MetaInv
  <1>2. OutBase' = Len(out.items)
    BY <1>1 DEF OutBase
  <1>3. SectionWritten'
    BY <1>1, <1>2 DEF SectionWritten, Follows, Pos
  <1> QED BY <1>1, <1>3 DEF SectionInv

LEMMA WriteSection ==
  ASSUME MetaInv, NEW i \in Item, WriteMeta(i)
  PROVE  SectionInv'
  <1>1. /\ writing /\ writing' /\ out' = Set(out, i) /\ meta' = Append(meta, LastItem(out'))
        /\ MessageInv /\ SectionWritten
    BY DEF WriteMeta, MetaInv, SectionInv
  <1>2. PICK l : l = LastItem(out')
    OBVIOUS
  <1>3. /\ out'.meta = out.meta /\ Len(out'.items) = Len(out.items) + 1
        /\ \A k \in 1 .. Len(out.items) : out'.items[k] = out.items[k]
        /\ \A j \in 0 .. Len(out.items) : Pos(out', j) = Pos(out, j)
        /\ out'.items[Len(out.items) + 1] = l /\ l \in Stored
    BY <1>1, <1>2, Writes
  <1>4. /\ Len(meta') = Len(meta) + 1 /\ meta'[Len(meta) + 1] = l
        /\ \A k \in 1 .. Len(meta) : meta'[k] = meta[k]
        /\ Len(meta) \in Nat /\ Len(out.items) \in Nat
    BY <1>1, <1>2, <1>3, MessageFacts DEF TypeOK
  <1>5. PICK b : b = OutBase
    OBVIOUS
  <1>6. b \in 0 .. Len(out.items) /\ b + Len(meta) = Len(out.items) /\ OutBase' = b
    BY <1>1, <1>3, <1>4, <1>5 DEF OutBase, SectionWritten
  <1>7. ASSUME NEW k \in 1 .. Len(meta') PROVE meta'[k] = out'.items[b + k]
    <2>1. CASE k \in 1 .. Len(meta)
      <3>1. b + k \in 1 .. Len(out.items) /\ meta[k] = out.items[b + k]
        BY <1>1, <1>4, <1>5, <1>6, <2>1 DEF SectionWritten, Follows
      <3> QED BY <1>3, <1>4, <2>1, <3>1
    <2>2. CASE k = Len(meta) + 1
      <3>1. b + k = Len(out.items) + 1
        BY <1>4, <1>6, <2>2
      <3> QED BY <1>3, <1>4, <2>2, <3>1
    <2> QED BY <1>4, <2>1, <2>2
  <1>8. b + Len(meta') = Len(out'.items) /\ Pos(out', Len(out'.items)) = out'.size
    <2>1. Len(out'.items) \in Nat /\ b + Len(meta') = Len(out'.items)
      BY <1>3, <1>4, <1>6
    <2> QED BY <2>1 DEF Pos
  <1>9. Follows(meta', out', b, out'.size)
    BY <1>3, <1>4, <1>7, <1>8 DEF Follows
  <1>10. out'.meta = Pos(out', b)
    BY <1>1, <1>3, <1>5, <1>6 DEF SectionWritten
  <1>11. SectionWritten'
    BY <1>6, <1>9, <1>10 DEF SectionWritten
  <1> QED BY <1>1, <1>11 DEF SectionInv

LEMMA SendSection ==
  ASSUME MetaInv, SmallMessage, EndMetaAndSend
  PROVE  SectionInv'
  <1>1. /\ writing /\ out' = EndMetaSectionWrite(out) /\ in' = FromBytes(out')
        /\ writing' = FALSE /\ reading' = FALSE /\ UNCHANGED meta
        /\ MessageInv /\ SectionWritten
    BY DEF EndMetaAndSend, MetaInv, SectionInv
  <1>2. SmallOffset(out.meta)
    BY <1>1, MessageFacts, SmallerOffset DEF SmallMessage
  <1>3. /\ out' \in Message /\ Placed(out')
        /\ Len(out'.items) = Len(out.items) + 1
        /\ \A k \in 1 .. Len(out.items) : out'.items[k] = out.items[k]
        /\ \A j \in 0 .. Len(out.items) : Pos(out', j) = Pos(out, j)
        /\ LastItem(out').size = 5 /\ LastItem(out').offset = out.meta
    BY <1>1, <1>2, Seals
  <1>4. in'.items = out'.items /\ in'.size = out'.size
    BY <1>1, <1>3, Received
  <1>5. LastItem(in') = LastItem(out') /\ \A j : Pos(in', j) = Pos(out', j)
    BY <1>4 DEF LastItem, Pos
  <1>6. PICK b : b = OutBase
    OBVIOUS
  <1>7. /\ b \in 0 .. Len(out.items) /\ b + Len(meta) = Len(out.items) /\ Len(meta) \in Nat
        /\ Len(out.items) \in Nat
    BY <1>1, <1>6, MessageFacts DEF OutBase, SectionWritten
  <1>8. InBase' = b
    BY <1>1, <1>3, <1>4, <1>7 DEF InBase
  <1>9. ASSUME NEW k \in 1 .. Len(meta) PROVE meta[k] = in'.items[b + k]
    <2>1. b + k \in 1 .. Len(out.items) /\ meta[k] = out.items[b + k]
      BY <1>1, <1>6, <1>7, <1>9 DEF SectionWritten, Follows
    <2> QED BY <1>3, <1>4, <2>1
  <1>10. LastItem(in').size = 5 /\ LastItem(in').offset = Pos(in', b)
    BY <1>1, <1>3, <1>5, <1>6, <1>7 DEF SectionWritten
  <1>11. SectionSent'
    BY <1>1, <1>7, <1>8, <1>9, <1>10 DEF SectionSent
  <1> QED BY <1>1, <1>11 DEF SectionInv

(* The reader of the meta section starts behind the payload. *)
LEMMA FindSection ==
  ASSUME MetaInv, ReadBegin
  PROVE  SectionInv'
  <1>1. /\ in'.read \in SectionOffset(in) /\ in'.items = in.items /\ in'.size = in.size
        /\ gotMeta' = <<>> /\ UNCHANGED <<out, writing, seals, meta>>
        /\ MessageInv
    BY ReadBeginStep DEF ReadBegin, MetaInv
  <1>2. writing' => SectionWritten'
    BY <1>1 DEF MetaInv, SectionInv, SectionWritten, OutBase
  <1>3. ASSUME seals > 0, ~writing
        PROVE  SectionSent' /\ Follows(gotMeta', in', InBase', in'.read)
    <2>1. PICK b : b = InBase
      OBVIOUS
    <2>2. SectionSent /\ InBase' = b
      BY <1>1, <1>3, <2>1 DEF MetaInv, SectionInv, InBase
    <2>3. /\ b \in Nat /\ b \in 0 .. Len(in.items) /\ Len(in.items) \in Nat /\ Len(in.items) > 0
          /\ b + 0 <= Len(in.items)
      BY <1>1, <2>1, <2>2, MessageFacts DEF InBase, SectionSent
    <2>4. LastItem(in).size = 5 /\ LastItem(in).offset = Pos(in, b) /\ Pos(in, b) \in Nat
      BY <1>1, <2>1, <2>2, <2>3, MessageFacts, PosTypes DEF SectionSent
    <2>5. in'.read = Pos(in, b)
      BY <1>1, <2>3, <2>4, MessageFacts, OffsetFound
    <2>6. \A j : Pos(in', j) = Pos(in, j)
      BY <1>1 DEF Pos
    <2>7. Follows(<<>>, in', b, in'.read)
      BY <1>1, <2>3, <2>5, <2>6 DEF Follows
    <2>8. SectionSent'
      BY <1>1, <2>1, <2>2, <2>6 DEF SectionSent, LastItem
    <2> QED BY <1>1, <2>2, <2>7, <2>8
  <1> QED BY <1>1, <1>2, <1>3 DEF SectionInv

(* And gets the items of the section one by one. *)
LEMMA ReadSection ==
  ASSUME MetaInv, ReadMeta
  PROVE  SectionInv'
  <1>1. /\ in'.read \in AfterNext(in) /\ in'.items = in.items /\ in'.size = in.size
        /\ reading /\ gotMeta' = gotMeta \o Consumed(in)
        /\ UNCHANGED <<out, writing, reading, seals, meta>>
        /\ MessageInv
    BY ReadMetaStep DEF ReadMeta, MetaInv
  <1>2. writing' => SectionWritten'
    BY <1>1 DEF MetaInv, SectionInv, SectionWritten, OutBase
  <1>3. ASSUME seals > 0, ~writing
        PROVE  SectionSent' /\ Follows(gotMeta', in', InBase', in'.read)
    <2>1. PICK b : b = InBase
      OBVIOUS
    <2>2. SectionSent /\ InBase' = b /\ Follows(gotMeta, in, b, in.read)
      BY <1>1, <1>3, <2>1 DEF MetaInv, SectionInv, InBase
    <2>3. b \in Nat /\ gotMeta \in Seq(Stored)
      BY <1>1, <2>1, <2>2, MessageFacts DEF InBase, SectionSent, TypeOK
    <2>4. Follows(gotMeta', in, b, in'.read)
      BY <1>1, <2>2, <2>3, MessageFacts, ReadsOn
    <2>5. Follows(gotMeta', in', b, in'.read)
      BY <1>1, <2>4, SameItems
    <2>6. \A j : Pos(in', j) = Pos(in, j)
      BY <1>1 DEF Pos
    <2>7. SectionSent'
      BY <1>1, <2>1, <2>2, <2>6 DEF SectionSent, LastItem
    <2> QED BY <2>2, <2>5, <2>7
  <1> QED BY <1>1, <1>2, <1>3 DEF SectionInv

(* Everything else leaves the section alone. *)
LEMMA OtherSection ==
  ASSUME MetaInv,
         \/ \E i \in Item : WritePayload(i)
         \/ SendUnsealed \/ ReadEnd \/ ReadPayload \/ UNCHANGED vars
  PROVE  SectionInv'
  <1>1. CASE \E i \in Item : WritePayload(i)
    BY <1>1 DEF WritePayload, MetaInv, SectionInv, SectionSent, InBase
  <1>2. CASE SendUnsealed
    BY <1>2 DEF SendUnsealed, SectionInv
  <1>3. CASE ReadEnd \/ ReadPayload
    <2>1. /\ in'.items = in.items /\ in'.size = in.size /\ ~reading'
          /\ UNCHANGED <<out, writing, seals, meta>>
      <3>1. MessageInv
        BY DEF MetaInv
      <3>2. CASE ReadEnd
        BY <3>1, <3>2, ReadEndStep DEF ReadEnd
      <3>3. CASE ReadPayload
        BY <3>1, <3>3, ReadPayloadStep DEF ReadPayload
      <3> QED BY <1>3, <3>2, <3>3
    <2>2. \A j : Pos(in', j) = Pos(in, j)
      BY <2>1 DEF Pos
    <2>3. SectionWritten => SectionWritten'
      BY <2>1 DEF SectionWritten, OutBase
    <2>4. SectionSent => SectionSent'
      BY <2>1, <2>2 DEF SectionSent, InBase, LastItem
    <2> QED BY <2>1, <2>3, <2>4 DEF MetaInv, SectionInv
  <1>4. CASE UNCHANGED vars
    BY <1>4 DEF vars, MetaInv, SectionInv, SectionWritten, SectionSent, OutBase, InBase
  <1> QED BY <1>1, <1>2, <1>3, <1>4

(* The meta section of every message that is smaller than 2^31 - 2^15 bytes *)
(* is found: the reader gets the items of the section written last, in      *)
(* their order and no others, however often the message was published       *)
(* (rbusMessage_EndMetaSectionWrite, rbusMessage_BeginMetaSectionRead).     *)
THEOREM MessageMeta == Spec /\ []SmallMessage => []MetaIsFound
  <1>1. Init => MetaInv
    BY InitMessage DEF Init, MetaInv, SectionInv
  <1>2. ASSUME MetaInv, SmallMessage, [Next]_vars PROVE MetaInv'
    <2>1. MessageInv'
      BY <1>2, MessageStep DEF MetaInv
    <2>2. SectionInv'
      BY <1>2, BeginSection, WriteSection, SendSection, FindSection, ReadSection, OtherSection
         DEF Next
    <2> QED BY <2>1, <2>2 DEF MetaInv
  <1>3. ASSUME MetaInv PROVE MetaIsFound
    <2> SUFFICES ASSUME reading, seals > 0, ~writing
                 PROVE  /\ Agree(gotMeta, meta)
                        /\ in.read < in.size => Len(gotMeta) <= Len(meta)
      BY DEF MetaIsFound
    <2>1. /\ SectionSent /\ Follows(gotMeta, in, InBase, in.read)
          /\ Len(meta) \in Nat /\ Len(gotMeta) \in Nat /\ Len(in.items) \in Nat /\ in.size \in Nat
      BY <1>3, MessageFacts DEF MetaInv, SectionInv
    <2>2. Agree(gotMeta, meta)
      BY <2>1 DEF Agree, SectionSent, Follows
    <2>3. ASSUME ~(Len(gotMeta) <= Len(meta)) PROVE in.read = in.size
      <3>1. InBase + Len(gotMeta) <= Len(in.items) /\ in.read = Pos(in, InBase + Len(gotMeta))
        BY <2>1 DEF Follows
      <3>2. InBase + Len(gotMeta) = Len(in.items)
        BY <2>1, <2>3, <3>1 DEF InBase
      <3> QED BY <2>1, <3>1, <3>2 DEF Pos
    <2> QED BY <2>1, <2>2, <2>3
  <1> QED BY <1>1, <1>2, <1>3, PTL DEF Spec

=============================================================================
