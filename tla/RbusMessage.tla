---------------------------- MODULE RbusMessage ----------------------------
(***************************************************************************)
(* rbusMessage: a buffer of msgpack items that the application fills and   *)
(* reads in order, with a hidden meta section (method or event name) that  *)
(* rbuscore appends before it sends the message and reads from its end.    *)
(*                                                                         *)
(* The meta section ends with its own offset, an integer that has to take  *)
(* exactly 5 bytes to be found again: EndMetaSectionWrite packs it with    *)
(* the sign bit set, which msgpack can only store in 4 bytes, and clears   *)
(* the bit in the buffer.  meta_offset holds the start of the section      *)
(* while it is written, and the read position of the application while it  *)
(* is read.  An event message that is published again gets another meta    *)
(* section behind the first.                                               *)
(*                                                                         *)
(* A sender with one message, and a receiver of what was sent last, are    *)
(* modelled.  An item is its type and its length in bytes.                 *)
(***************************************************************************)
EXTENDS Integers, Sequences

CONSTANTS
    Item,       \* the items an application writes: type and size
    Stray,      \* the integers that may be found where no offset was written
    MaxItems,   \* bound: items in the buffer when the application writes
    MaxMeta,    \* bound: items of one meta section
    MaxSeals,   \* bound: meta sections of the message
    MaxReads    \* bound: times the meta section is read

ItemType == {"str", "int", "bin", "float"}

ASSUME ItemAssumption == Item \subseteq [type : ItemType, size : Nat \ {0}]

ASSUME StrayAssumption == Stray \subseteq Int

ASSUME BoundAssumption ==
    MaxItems \in Nat /\ MaxMeta \in Nat /\ MaxSeals \in Nat /\ MaxReads \in Nat

VARIABLES
    out,     \* the message of the sender
    in,      \* the message of the receiver
    writing, \* the sender is between Begin- and EndMetaSectionWrite
    reading, \* the receiver is between Begin- and EndMetaSectionRead
    seals,   \* meta sections written (bounded)
    reads,   \* meta sections read (bounded)
    payload, \* history: the items of the application before the first seal
    meta,    \* history: the items of the last meta section
    gotMeta, \* history: the items read from the meta section
    got      \* history: the items the application of the receiver consumed

vars == <<out, in, writing, reading, seals, reads, payload, meta, gotMeta, got>>

-----------------------------------------------------------------------------
(* struct _rbusMessage: the items with their places in sbuf, the size of    *)
(* sbuf, read_offset and meta_offset.  "offset" is the value of an integer  *)
(* that ends a meta section.  A negative read_offset is, as a size_t,       *)
(* beyond every buffer.                                                     *)
Stored == [at : Nat, size : Nat, type : ItemType, offset : Nat \cup {-1}]

Message == [items : Seq(Stored), size : Nat, read : Int, meta : Nat]

(* rbusMessage_Init; rbusMessage_FromBytes starts to read at 0 as well. *)
Empty == [items |-> <<>>, size |-> 0, read |-> 0, meta |-> 0]

FromBytes(m) == [m EXCEPT !.read = 0, !.meta = 0]

(* A packed item goes to the end of the buffer. *)
Pack(m, type, size, offset) ==
    [m EXCEPT !.items = Append(@, [at |-> m.size, size |-> size, type |-> type,
                                   offset |-> offset]),
              !.size = @ + size]

(* rbusMessage_SetString and the other setters. *)
Set(m, i) == Pack(m, i.type, i.size, -1)

(* The bytes msgpack takes for the 32 bit integer n. *)
IntSize(n) ==
    IF -32 <= n /\ n <= 127 THEN 1
    ELSE IF -128 <= n /\ n <= 255 THEN 2
    ELSE IF -32768 <= n /\ n <= 65535 THEN 3
    ELSE 5

BeginMetaSectionWrite(m) == [m EXCEPT !.meta = m.size]

(* Mutant of EndMetaSectionWrite: the offset is packed as it is. *)
EndMetaSectionWrite_NoMask(m) == Pack(m, "int", IntSize(m.meta), m.meta)

(* meta_offset | 0x80000000, the value packed, is meta_offset - 2^31.  The  *)
(* bit is cleared in the fourth byte from the end.                          *)
EndMetaSectionWrite(m) ==
    LET size == IntSize(m.meta - 2147483647 - 1)
    IN  Pack(m, "int", size, IF size = 5 THEN m.meta ELSE -1)

(* The items that start at byte n: one or none. *)
ItemsAt(m, n) == {i \in 1 .. Len(m.items) : m.items[i].at = n}

(* Where the read position can be after msgpack_unpack_next: behind the     *)
(* item, or where it was at the end of the buffer and beyond; between the   *)
(* bytes of an item anything may come out.                                  *)
AfterNext(m) ==
    IF ItemsAt(m, m.read) # {}
    THEN {m.items[i].at + m.items[i].size : i \in ItemsAt(m, m.read)}
    ELSE IF 0 <= m.read /\ m.read < m.size THEN m.read .. m.size
    ELSE {m.read}

(* The integers rbusMessage_GetInt32 may find 5 bytes before the end: the   *)
(* offset of the meta section; 0, the initial value, if there is no         *)
(* integer; or, where a message without meta section happens to have an     *)
(* integer or half an item, any at all.                                     *)
SectionOffset(m) ==
    LET last == ItemsAt(m, m.size - 5)
    IN  IF m.size < 5 THEN {0}
        ELSE IF \E i \in last : m.items[i].offset # -1
        THEN {m.items[i].offset : i \in last}
        ELSE IF \E i \in last : m.items[i].type # "int" THEN {0}
        ELSE Stray

(* Mutant of BeginMetaSectionRead: the read position is not kept. *)
BeginMetaSectionRead_NoSave(m) == {[m EXCEPT !.read = n] : n \in SectionOffset(m)}

BeginMetaSectionRead(m) ==
    {[m EXCEPT !.meta = m.read, !.read = n] : n \in SectionOffset(m)}

(* Mutant of EndMetaSectionRead: the read position is not put back. *)
EndMetaSectionRead_Stays(m) == m

EndMetaSectionRead(m) == [m EXCEPT !.read = m.meta]

-----------------------------------------------------------------------------
(* The types, and where the application reads: whatever integer was taken   *)
(* for the offset of a meta section, its position is in the buffer again    *)
(* when the section is left.                                                *)
TypeOK ==
    /\ out \in Message /\ in \in Message
    /\ writing \in BOOLEAN /\ reading \in BOOLEAN
    /\ seals \in 0 .. MaxSeals /\ reads \in 0 .. MaxReads
    /\ payload \in Seq(Stored) /\ meta \in Seq(Stored)
    /\ gotMeta \in Seq(Stored) /\ got \in Seq(Stored)
    /\ ~reading => in.read \in 0 .. in.size

Init ==
    /\ out = Empty /\ in = Empty
    /\ writing = FALSE /\ reading = FALSE
    /\ seals = 0 /\ reads = 0
    /\ payload = <<>> /\ meta = <<>>
    /\ gotMeta = <<>> /\ got = <<>>

-----------------------------------------------------------------------------
(* The sender.                                                              *)

LastItem(m) == m.items[Len(m.items)]

(* The application writes an item, possibly after it has published the      *)
(* message.                                                                 *)
WritePayload(i) ==
    /\ ~writing
    /\ Len(out.items) < MaxItems
    /\ out' = Set(out, i)
    /\ payload' = IF seals = 0 THEN Append(payload, LastItem(out')) ELSE payload
    /\ UNCHANGED <<in, writing, reading, seals, reads, meta, gotMeta, got>>

(* set_message_method, rbus_publishEvent: the meta section. *)
BeginMeta ==
    /\ ~writing
    /\ seals < MaxSeals
    /\ out' = BeginMetaSectionWrite(out)
    /\ writing' = TRUE
    /\ meta' = <<>>
    /\ UNCHANGED <<in, reading, seals, reads, payload, gotMeta, got>>

WriteMeta(i) ==
    /\ writing
    /\ Len(meta) < MaxMeta
    /\ out' = Set(out, i)
    /\ meta' = Append(meta, LastItem(out'))
    /\ UNCHANGED <<in, writing, reading, seals, reads, payload, gotMeta, got>>

(* The message is complete and sent: rbusMessage_ToBytes here and           *)
(* rbusMessage_FromBytes at the receiver.                                   *)
EndMetaAndSend ==
    /\ writing
    /\ out' = EndMetaSectionWrite(out)
    /\ in' = FromBytes(out')
    /\ writing' = FALSE
    /\ seals' = seals + 1
    /\ reading' = FALSE /\ reads' = 0
    /\ gotMeta' = <<>> /\ got' = <<>>
    /\ UNCHANGED <<payload, meta>>

(* A message of other code, without a meta section. *)
SendUnsealed ==
    /\ seals = 0 /\ ~writing
    /\ out # Empty /\ in = Empty
    /\ in' = FromBytes(out)
    /\ UNCHANGED <<out, writing, reading, seals, reads, payload, meta, gotMeta, got>>

-----------------------------------------------------------------------------
(* The receiver.                                                            *)

ReadBegin ==
    /\ in # Empty /\ ~reading
    /\ reads < MaxReads
    /\ in' \in BeginMetaSectionRead(in)
    /\ reading' = TRUE
    /\ reads' = reads + 1
    /\ gotMeta' = <<>>
    /\ UNCHANGED <<out, writing, seals, payload, meta, got>>

(* What a getter consumed, whether it was of the type asked for or not. *)
Consumed(m) ==
    IF ItemsAt(m, m.read) = {} THEN <<>>
    ELSE <<m.items[CHOOSE i \in ItemsAt(m, m.read) : TRUE]>>

ReadMeta ==
    /\ reading
    /\ Len(gotMeta) < MaxMeta
    /\ \E n \in AfterNext(in) : in' = [in EXCEPT !.read = n]
    /\ gotMeta' = gotMeta \o Consumed(in)
    /\ UNCHANGED <<out, writing, reading, seals, reads, payload, meta, got>>

ReadEnd ==
    /\ reading
    /\ in' = EndMetaSectionRead(in)
    /\ reading' = FALSE
    /\ UNCHANGED <<out, writing, seals, reads, payload, meta, gotMeta, got>>

(* The application reads an item of the payload. *)
ReadPayload ==
    /\ in # Empty /\ ~reading
    /\ \E n \in AfterNext(in) : in' = [in EXCEPT !.read = n]
    /\ got' = got \o Consumed(in)
    /\ UNCHANGED <<out, writing, reading, seals, reads, payload, meta, gotMeta>>

-----------------------------------------------------------------------------
Next ==
    \/ \E i \in Item : WritePayload(i) \/ WriteMeta(i)
    \/ BeginMeta \/ EndMetaAndSend \/ SendUnsealed
    \/ ReadBegin \/ ReadMeta \/ ReadEnd \/ ReadPayload

Spec == Init /\ [][Next]_vars

-----------------------------------------------------------------------------
(* Properties.                                                             *)

(* s and t agree as far as both go. *)
Agree(s, t) == \A k \in 1 .. Len(s) : k <= Len(t) => s[k] = t[k]

(* A receiver finds the meta section written last, in a message of any      *)
(* size, published any number of times (EndMetaSectionWrite against         *)
(* BeginMetaSectionRead): what it reads there are the items of that section *)
(* in their order, and there are as many as were written.                   *)
MetaIsFound ==
    reading /\ seals > 0 /\ ~writing =>
        /\ Agree(gotMeta, meta)
        /\ in.read < in.size => Len(gotMeta) <= Len(meta)

(* Reading the meta section, also of a message that has none, does not      *)
(* disturb the application: it gets the items of the payload one by one, in *)
(* the order they were written, however often the section is read and the   *)
(* message was published (BeginMetaSectionRead, EndMetaSectionRead).        *)
PayloadInOrder == Agree(got, payload)

=============================================================================
