---------------------------- MODULE SlottedPage ----------------------------
(***************************************************************************)
(* One slotted page of src/src/slotted_page.cc: a header, an array of      *)
(* slots that grows up from the header and record data that grows down     *)
(* from the end of the page.  A page is a record of the header's fields    *)
(* and the slot array; the bytes of a record are not modelled, only where  *)
(* they lie (offset and size), which is what allocate, relocate, erase and *)
(* compactify compute.  The operations are functions from page to page, so *)
(* that SPSegment can apply them to the pages of a segment; the second     *)
(* half of the module is one page under any sequence of legal calls.       *)
(***************************************************************************)
EXTENDS Integers, FiniteSetsExt

CONSTANTS PageSize,    \* page_size
          HeaderSize,  \* sizeof(Header)
          SlotSize,    \* sizeof(Slot)
          DataSizes,   \* the record sizes a caller asks for
          MaxSlots,    \* bound on slot_count
          NoTid        \* the redirect of a slot that has none

VARIABLE page

(***************************************************************************)
(* SlottedPage::Slot is declared in slotted_page.h; it is modelled from    *)
(* the calls made on it: a slot is empty, holds a record, holds a record   *)
(* that is the target of a redirect, or is a redirect to another TID.      *)
(***************************************************************************)
EmptySlot == [kind |-> "empty", offset |-> 0, size |-> 0, tid |-> NoTid]

set_slot(offset, size, target) ==
    [kind |-> IF target THEN "target" ELSE "record",
     offset |-> offset, size |-> size, tid |-> NoTid]

is_empty(slot) == slot.kind = "empty"
is_redirect(slot) == slot.kind = "redirect"
is_redirect_target(slot) == slot.kind = "target"
HasData(slot) == ~is_empty(slot) /\ ~is_redirect(slot)

Slots(p) == 0..p.slot_count - 1

\* Header::Header and SlottedPage::SlottedPage
NewPage ==
    [slot_count |-> 0, first_free_slot |-> 0, data_start |-> PageSize,
     free_space |-> PageSize - HeaderSize, slots |-> [s \in {} |-> EmptySlot]]

get_fragmented_free_space(p) == p.data_start - HeaderSize - p.slot_count * SlotSize

\* The records are packed against the end of the page in slot order; empty
\* slots and redirects have no data and are copied as they are.
compactify(p) ==
    LET packed(s) == PageSize - SumFunctionOnSet([i \in Slots(p) |-> p.slots[i].size],
                                                 {i \in 0..s : HasData(p.slots[i])})
        start == packed(p.slot_count - 1)
    IN  [p EXCEPT !.data_start = start,
                  !.free_space = start - HeaderSize - p.slot_count * SlotSize,
                  !.slots = [s \in Slots(p) |-> IF HasData(p.slots[s])
                                                THEN [p.slots[s] EXCEPT !.offset = packed(s)]
                                                ELSE p.slots[s]]]

\* fault: the slot a new record takes is not paid for
NeededForData(p, data_size) == data_size

\* what allocate needs: the data, and a slot unless a free one is reused
Needed(p, data_size) ==
    data_size + IF p.first_free_slot < p.slot_count THEN 0 ELSE SlotSize

\* fault: allocate is called without the space its assert requires
CanAllocateAlways(p, data_size) == TRUE

\* the assert of allocate
CanAllocate(p, data_size) == p.free_space >= Needed(p, data_size)

\* fault: the page is never compactified before a record is placed
FitsAlways(p, data_size) == TRUE

\* the data fits between the slot array and data_start as the page is
FitsBelowData(p, data_size) == get_fragmented_free_space(p) > Needed(p, data_size)

\* fault: first_free_slot stays where it is
SameFreeSlot(slots, from) == from

\* the first empty slot at or after `from`, slot_count when there is none
NextFreeSlot(slots, from) ==
    LET count == Cardinality(DOMAIN slots)
    IN  Min({s \in from..count - 1 : is_empty(slots[s])} \cup {count})

\* allocate returns the slot it took and leaves the page
allocate(p, data_size, target) ==
    LET q == IF FitsBelowData(p, data_size) THEN p ELSE compactify(p)
        slotId == Min({q.first_free_slot, q.slot_count})
        start == q.data_start - data_size
        slots == [s \in 0..Max({slotId, q.slot_count - 1}) |->
                     IF s = slotId THEN set_slot(start, data_size, target) ELSE q.slots[s]]
    IN  [slot |-> slotId,
         page |-> [slot_count |-> Cardinality(DOMAIN slots),
                   first_free_slot |-> NextFreeSlot(slots, q.first_free_slot),
                   data_start |-> start,
                   free_space |-> q.free_space - Needed(q, data_size),
                   slots |-> slots]]

\* the assert of relocate
CanRelocate(p, slot_id, data_size) ==
    /\ HasData(p.slots[slot_id])
    /\ data_size <= p.slots[slot_id].size
           \/ p.free_space >= data_size - p.slots[slot_id].size

\* shrink in place, or move below data_start, or grow and compactify
relocate(p, slot_id, data_size) ==
    LET slot == p.slots[slot_id]
    IN  IF data_size <= slot.size
        THEN [p EXCEPT !.free_space = @ + slot.size - data_size,
                       !.slots[slot_id].size = data_size]
        ELSE IF get_fragmented_free_space(p) >= data_size
        THEN [p EXCEPT !.data_start = @ - data_size,
                       !.free_space = @ + slot.size - data_size,
                       !.slots[slot_id] = [slot EXCEPT !.offset = p.data_start - data_size,
                                                       !.size = data_size]]
        ELSE compactify([p EXCEPT !.slots[slot_id].size = data_size])

\* data_start moves up when the erased record was the lowest
StartAfterErase(p, slot) ==
    IF slot.offset = p.data_start THEN p.data_start + slot.size ELSE p.data_start

\* the slots that are left when the empty slots at the end are dropped
Trimmed(slots) ==
    Max({0} \cup {s + 1 : s \in {i \in DOMAIN slots : ~is_empty(slots[i])}})

\* the slot is cleared, and when it was the last slot the empty slots at the
\* end are dropped and given back
erase(p, slot_id) ==
    LET cleared == [p.slots EXCEPT ![slot_id] = EmptySlot]
        count == IF slot_id + 1 = p.slot_count THEN Trimmed(cleared) ELSE p.slot_count
    IN  [slot_count |-> count,
         first_free_slot |-> Min({slot_id, p.first_free_slot}),
         data_start |-> StartAfterErase(p, p.slots[slot_id]),
         free_space |-> p.free_space + p.slots[slot_id].size
                        + (p.slot_count - count) * SlotSize,
         slots |-> Restrict(cleared, 0..count - 1)]

-----------------------------------------------------------------------------
(* One page under every sequence of calls that keeps the asserts. *)

Init == page = NewPage

Allocate(data_size, target) ==
    /\ CanAllocate(page, data_size)
    /\ page.slot_count < MaxSlots \/ page.first_free_slot < page.slot_count
    /\ page' = allocate(page, data_size, target).page

Relocate(slot_id, data_size) ==
    /\ CanRelocate(page, slot_id, data_size)
    /\ page' = relocate(page, slot_id, data_size)

Erase(slot_id) == page' = erase(page, slot_id)

Next ==
    \/ \E data_size \in DataSizes, is_target \in BOOLEAN : Allocate(data_size, is_target)
    \/ \E slot_id \in Slots(page) :
           \/ \E data_size \in DataSizes : Relocate(slot_id, data_size)
           \/ Erase(slot_id)

Spec == Init /\ [][Next]_page

-----------------------------------------------------------------------------
IsPage(p) ==
    /\ p.slot_count \in 0..MaxSlots
    /\ p.first_free_slot \in 0..MaxSlots
    /\ p.data_start \in 0..PageSize
    /\ p.free_space \in 0..PageSize
    /\ DOMAIN p.slots = Slots(p)
    /\ \A s \in Slots(p) :
           /\ p.slots[s].kind \in {"empty", "record", "target", "redirect"}
           /\ p.slots[s].offset \in 0..PageSize
           /\ p.slots[s].size \in 0..PageSize

TypeOK == IsPage(page)

\* where the bytes of the records lie
Extent(slot) == slot.offset..slot.offset + slot.size - 1

(***************************************************************************)
(* The header's free_space is what the page has left: the page less the    *)
(* header, the slot array and the records, whatever allocate, relocate,    *)
(* erase and compactify did to holes and to slots at the end.              *)
(***************************************************************************)
FreeSpaceAccounted(p) ==
    p.free_space = PageSize - HeaderSize - p.slot_count * SlotSize
                   - SumFunctionOnSet([s \in Slots(p) |-> p.slots[s].size],
                                      {s \in Slots(p) : HasData(p.slots[s])})

(***************************************************************************)
(* No two records share a byte, every record lies between data_start and   *)
(* the end of the page, and the slot array ends at or below data_start:    *)
(* allocate and relocate, which write at data_start - data_size, never     *)
(* overwrite a record or a slot.                                           *)
(***************************************************************************)
DataDisjoint(p) ==
    /\ HeaderSize + p.slot_count * SlotSize <= p.data_start
    /\ \A s \in Slots(p) :
           HasData(p.slots[s]) /\ p.slots[s].size > 0 =>
               /\ Extent(p.slots[s]) \subseteq p.data_start..PageSize - 1
               /\ \A r \in Slots(p) \ {s} :
                      HasData(p.slots[r]) => Extent(p.slots[s]) \cap Extent(p.slots[r]) = {}

(***************************************************************************)
(* first_free_slot is the first empty slot, or slot_count when no slot is  *)
(* empty: allocate, which takes that slot without looking at it, never     *)
(* takes a slot that holds a record.                                       *)
(***************************************************************************)
FirstFreeSlotIsFree(p) ==
    /\ p.first_free_slot <= p.slot_count
    /\ \A s \in Slots(p) : is_empty(p.slots[s]) => p.first_free_slot <= s /\ s + 1 < p.slot_count
    /\ p.first_free_slot < p.slot_count => is_empty(p.slots[p.first_free_slot])

PageFreeSpaceAccounted == FreeSpaceAccounted(page)
PageDataDisjoint == DataDisjoint(page)
PageFirstFreeSlotIsFree == FirstFreeSlotIsFree(page)
=============================================================================
