----------------------------- MODULE Discovery -----------------------------
(***************************************************************************)
(* The five functions that ask the router for names and hand the caller an *)
(* array of copies, which the caller frees.                                *)
(*                                                                         *)
(* An answer has a count and items, and nothing makes the two agree.       *)
(* Three functions allocate the count and fill in the items; a difference  *)
(* they only log.  They also assign RTMESSAGE_BUS_SUCCESS to the result    *)
(* after the decoding, whatever happened in it.                            *)
(* rbus_discoverElementObjects goes by the count and keeps its result;     *)
(* rbus_discoverElementsObjects takes the count for that of each element,  *)
(* and grows its array for each.  Every read of an item and every          *)
(* allocation may fail halfway.                                            *)
(*                                                                         *)
(* The router (external) may answer anything.  Writes behind the end of an *)
(* array are recorded (touched); what they destroy is not modelled.        *)
(***************************************************************************)
EXTENDS Integers, Sequences

CONSTANTS
    Name,        \* names the router knows
    NoName,      \* the empty string: an element without a route
    MaxItems,    \* bound: names in an answer
    MaxElements  \* bound: elements asked about at once

ASSUME DiscoveryAssumption == NoName \notin Name /\ MaxItems \in Nat /\ MaxElements \in Nat \ {0}

(* rbus_discoverWildcardDestinations, -ObjectElements, -ElementObjects,     *)
(* -ElementsObjects and -RegisteredComponents.                              *)
Function == {"wildcard", "object", "element", "elements", "components"}

(* Those that allocate one number of entries and fill another. *)
Loose == {"wildcard", "object", "components"}

VARIABLES
    fn,      \* the function that was called
    n,       \* how many elements it was asked about
    answer,  \* the answer of the router: its items and their number
    pc,      \* where the call is
    elem,    \* elements decoded
    item,    \* items decoded of this element
    array,   \* the names in the array
    room,    \* the entries allocated
    touched, \* the entries written, by memset or with a name
    told,    \* *count of the caller; -1: not written
    mem,     \* the array: not allocated, alive, freed, freed twice
    ret,     \* the return value
    fault    \* history: a read or an allocation failed

vars == <<fn, n, answer, pc, elem, item, array, room, touched, told, mem, ret, fault>>

Items  == UNION {[1 .. k -> Name \cup {NoName}] : k \in 0 .. MaxItems}
Answer == [count : 0 .. MaxItems, items : Items]
None   == [count |-> 0, items |-> <<>>]

TypeOK ==
    /\ fn \in Function
    /\ n \in 0 .. MaxElements
    /\ answer \in Answer
    /\ pc \in {"sent", "alloc", "fill", "done"}
    /\ elem \in 0 .. MaxElements
    /\ item \in 0 .. MaxItems
    /\ array \in Items
    /\ room \in 0 .. 2 * MaxItems
    /\ touched \in 0 .. MaxItems
    /\ told \in -1 .. MaxItems
    /\ mem \in {"none", "alive", "freed", "twice"}
    /\ ret \in {"none", "success", "error"}
    /\ fault \in BOOLEAN

(* A call, up to its request. *)
Init ==
    /\ fn \in Function
    /\ n \in IF fn = "elements" THEN 0 .. MaxElements ELSE {1}
    /\ answer = None
    /\ pc = "sent"
    /\ elem = 0 /\ item = 0
    /\ array = <<>> /\ room = 0 /\ touched = 0 /\ mem = "none"
    /\ told = IF fn = "elements" THEN 0 ELSE -1
    /\ ret = "none"
    /\ fault = FALSE

-----------------------------------------------------------------------------
(* The call returns r. *)
Return(r) == pc' = "done" /\ ret' = r

(* No connection, an error of the request, or a result that is not RT_OK. *)
RequestFails ==
    /\ pc = "sent"
    /\ Return("error")
    /\ UNCHANGED <<fn, n, answer, elem, item, array, room, touched, told, mem, fault>>

(* An answer that lacks the count or the items ends                         *)
(* rbus_discoverWildcardDestinations, and no elements end                   *)
(* rbus_discoverElementsObjects, with nothing allocated.                    *)
ReceiveAnswer ==
    /\ pc = "sent"
    /\ answer' \in Answer
    /\ IF \/ fn = "wildcard" /\ (answer'.count = 0 \/ answer'.items = <<>>)
          \/ fn = "elements" /\ n = 0
       THEN Return("success") ELSE pc' = "alloc" /\ UNCHANGED ret
    /\ UNCHANGED <<fn, n, elem, item, array, room, touched, told, mem, fault>>

-----------------------------------------------------------------------------
(* Mutant of Outcome: rbus_discoverElementObjects, like the others, resets  *)
(* its result.                                                              *)
Outcome_AlwaysReset(f) == IF f = "elements" THEN "error" ELSE "success"

(* What a call returns after a failure in the decoding. *)
Outcome(f) == IF f \in Loose THEN "success" ELSE "error"

(* Mutant of Grow: the names collected before are not counted. *)
Grow_ForgetsNames == answer.count

(* The entries after the next allocation: realloc keeps the names           *)
(* collected so far.                                                        *)
Grow == Len(array) + answer.count

(* How many items the loop over the array of one element goes through. *)
Turns == IF fn \in Loose THEN Len(answer.items) ELSE answer.count

(* *count is written with the first allocation, whether it fails or not;    *)
(* rbus_discoverElementsObjects writes it at the end.                       *)
CountTold == told' = IF fn = "elements" THEN told ELSE answer.count

(* A new array is set to zero, as far as it is going to be filled. *)
Allocate ==
    /\ pc = "alloc"
    /\ room' = Grow
    /\ touched' = IF fn = "elements" THEN touched ELSE Turns
    /\ CountTold
    /\ mem' = "alive"
    /\ item' = 0
    /\ pc' = "fill"
    /\ UNCHANGED <<fn, n, answer, elem, array, ret, fault>>

(* Mutant of Freed: an array that was being filled is forgotten. *)
Freed_Forgets == mem

(* The array on the way out after a failure. *)
Freed == IF mem = "alive" THEN "freed" ELSE mem

(* malloc or realloc fails: rbus_discoverElementsObjects still has its old  *)
(* array and frees it.                                                      *)
AllocationFails ==
    /\ pc = "alloc"
    /\ Return(Outcome(fn))
    /\ CountTold
    /\ mem' = Freed
    /\ fault' = TRUE
    /\ UNCHANGED <<fn, n, answer, elem, item, array, room, touched>>

(* realloc to no entries at all may free the array and return NULL, which   *)
(* rbus_discoverElementsObjects takes for a failure: it frees it again.     *)
ReallocToNothing ==
    /\ pc = "alloc" /\ mem = "alive"
    /\ Grow = 0
    /\ Return(Outcome(fn))
    /\ mem' = "twice"
    /\ fault' = TRUE
    /\ UNCHANGED <<fn, n, answer, elem, item, array, room, touched, told>>

(* The next item to read is found by the number of names collected.         *)
NextItem == Len(array) + 1

(* The name is written to the array, or left out. *)
Store(name) ==
    IF fn = "elements" /\ name = NoName
    THEN UNCHANGED <<array, touched>>
    ELSE /\ array' = Append(array, name)
         /\ touched' = IF NextItem > touched THEN NextItem ELSE touched

(* Mutant of CopyItem: the number of items is not looked at. *)
CopyItem_Unbounded ==
    /\ pc = "fill"
    /\ NextItem <= Len(answer.items)
    /\ Store(answer.items[NextItem])
    /\ item' = item + 1
    /\ UNCHANGED <<fn, n, answer, pc, elem, room, told, mem, ret, fault>>

(* An item is copied to the array; an empty one is left out by              *)
(* rbus_discoverElementsObjects.                                            *)
CopyItem ==
    /\ pc = "fill" /\ item < Turns
    /\ NextItem <= Len(answer.items)
    /\ Store(answer.items[NextItem])
    /\ item' = item + 1
    /\ UNCHANGED <<fn, n, answer, pc, elem, room, told, mem, ret, fault>>

(* rtMessage_GetStringItem, also for want of an item, or strndup fails:     *)
(* what was copied is freed.                                                *)
CopyFails ==
    /\ pc = "fill" /\ item < Turns
    /\ Return(Outcome(fn))
    /\ mem' = Freed
    /\ fault' = TRUE
    /\ UNCHANGED <<fn, n, answer, elem, item, array, room, touched, told>>

(* Mutant of NextElement: one element too few. *)
NextElement_StopsEarly ==
    /\ pc = "fill" /\ item = Turns
    /\ elem' = elem + 1
    /\ IF elem' + 1 < n THEN pc' = "alloc" /\ UNCHANGED ret ELSE Return("success")
    /\ told' = IF fn = "elements" /\ elem' = n THEN Len(array) ELSE told
    /\ UNCHANGED <<fn, n, answer, item, array, room, touched, mem, fault>>

(* All items of an element are copied. *)
NextElement ==
    /\ pc = "fill" /\ item = Turns
    /\ elem' = elem + 1
    /\ IF elem' < n THEN pc' = "alloc" /\ UNCHANGED ret ELSE Return("success")
    /\ told' = IF fn = "elements" /\ elem' = n THEN Len(array) ELSE told
    /\ UNCHANGED <<fn, n, answer, item, array, room, touched, mem, fault>>

-----------------------------------------------------------------------------
(* The functions: the same steps, in the order of their guards. *)
Step ==
    \/ RequestFails \/ ReceiveAnswer
    \/ Allocate \/ AllocationFails \/ ReallocToNothing
    \/ CopyItem \/ CopyFails \/ NextElement

DiscoverWildcardDestinations == fn = "wildcard" /\ Step
DiscoverObjectElements       == fn = "object" /\ Step
DiscoverElementObjects       == fn = "element" /\ Step
DiscoverElementsObjects      == fn = "elements" /\ Step
DiscoverRegisteredComponents == fn = "components" /\ Step

Next ==
    \/ DiscoverWildcardDestinations \/ DiscoverObjectElements
    \/ DiscoverElementObjects \/ DiscoverElementsObjects
    \/ DiscoverRegisteredComponents

Spec == Init /\ [][Next]_vars

-----------------------------------------------------------------------------
(* Properties.                                                             *)

(* The router's count and its items differ, which the function only logs. *)
Mismatch == fn \in Loose /\ answer.count # Len(answer.items)

(* Nothing is written behind the end of the array, whatever the router      *)
(* answers: the reallocations of rbus_discoverElementsObjects keep up with  *)
(* the names it collects over several elements, and                         *)
(* rbus_discoverElementObjects goes by the count in both.  The three others *)
(* overrun it, and only then, when there are more items than the count.     *)
WithinArray == touched > room => Mismatch /\ Len(answer.items) > answer.count

(* After a success *count is the number of names in the array, each of      *)
(* which the caller may read and free, for any answer.  The exceptions are  *)
(* the three functions that drop an error: after a failure (the array is    *)
(* freed), and for a mismatch; and rbus_discoverWildcardDestinations, which *)
(* writes no count when there is nothing.                                   *)
CountIsTheNames ==
    pc = "done" /\ ret = "success" =>
        \/ fn \in Loose /\ (fault \/ Mismatch)
        \/ fn = "wildcard" /\ answer.count = 0 /\ told = -1 /\ mem = "none"
        \/ told = Len(array) /\ (told > 0 => mem = "alive")

(* After a failure nothing is left allocated: what was collected before is  *)
(* freed, also when a reallocation for a later element fails; and it is     *)
(* freed once, except where realloc was asked for no entries at all.        *)
ErrorFreesAll ==
    pc = "done" /\ (ret = "error" \/ fault) =>
        /\ mem # "alive"
        /\ mem = "twice" => fn = "elements" /\ n > 1 /\ answer.count = 0

(* The caller gets as many names as the router counted, the first ones of   *)
(* the answer, in order: in rbus_discoverElementsObjects, where items are   *)
(* found by the number of names so far, as many for every element, when no  *)
(* item is empty.                                                           *)
NamesInOrder ==
    pc = "done" /\ ret = "success" /\ ~fault =>
        \/ Mismatch
        \/ fn = "elements" /\ \E k \in 1 .. Len(answer.items) : answer.items[k] = NoName
        \/ /\ n * answer.count <= Len(answer.items)
           /\ array = SubSeq(answer.items, 1, n * answer.count)

(* "If look-up fails for any of the elements, it will be represented by an  *)
(* empty string in the objects array": each element asked about has its     *)
(* entry (rbus_discoverElementsObjects).                                    *)
FailedLookupIsEmptyString ==
    pc = "done" /\ ret = "success" /\ fn = "elements"
        /\ answer.count = 1 /\ Len(answer.items) = n
    => array = answer.items

=============================================================================
