----------------------------- MODULE SPSegment -----------------------------
(***************************************************************************)
(* The slotted-page segment of src/src/sp_segment.cc: records of a table   *)
(* on slotted pages, found through the free-space inventory and named by   *)
(* TIDs (page, slot).  A record that outgrows its page is moved to another *)
(* page and its slot becomes a redirect to the new TID.                    *)
(*                                                                         *)
(* The segment has one caller at a time (neither free_cache nor            *)
(* table.allocated_pages is latched), so an operation is one step.  What   *)
(* the model keeps of the buffer manager is which pages the caller still   *)
(* has fixed: an operation that fixes a page it cannot get never returns,  *)
(* and the caller is blocked for good.  Nothing of a blocked operation is  *)
(* shown, since nobody is left to see it.                                  *)
(*                                                                         *)
(* SlottedPage::Slot is not among the sources: a redirect slot is taken to *)
(* report size 0, which is what resize and erase need for the free space   *)
(* they add to come out right.                                             *)
(***************************************************************************)
EXTENDS Integers, FiniteSetsExt, TLC

CONSTANTS PageSize, PowTable, MaxPages, invalidPid,  \* as in FSISegment
          HeaderSize, SlotSize, DataSizes, MaxSlots, NoTid,  \* as in SlottedPage
          MaxRecords,  \* bound on the records the caller keeps
          Evicted      \* what a header read after unfix may give once the frame was
                       \* evicted: nothing when the pool holds the whole table

VARIABLES pages,            \* the slotted pages of the segment
          fsi, free_cache,  \* the inventory
          allocated_pages,  \* table.allocated_pages
          records,          \* TID -> length, as the caller knows its records
          fixed,            \* page -> how the caller has left it fixed
          blocked           \* the caller waits for a page for ever

vars == <<pages, fsi, free_cache, allocated_pages, records, fixed, blocked>>

PageIds == 0..MaxPages - 1

FSI == INSTANCE FSISegment WITH
           reported <- [p \in PageIds |-> pages[p].free_space],
           FreeSpaces <- {size + SlotSize : size \in DataSizes}
SP == INSTANCE SlottedPage WITH page <- pages[0]

\* the segment as a value, for the operators that thread it through calls
Db == [pages |-> pages, fsi |-> fsi, free_cache |-> free_cache,
       allocated_pages |-> allocated_pages]

Install(db) ==
    /\ pages' = db.pages
    /\ fsi' = db.fsi
    /\ free_cache' = db.free_cache
    /\ allocated_pages' = db.allocated_pages

\* fault: the inventory is not told
UpdateFsiNever(db, pid) == db

\* fsi.update(pid, page->get_free_space())
UpdateFsi(db, pid) ==
    LET u == FSI!Updated(db.fsi, db.free_cache, db.allocated_pages, pid,
                         db.pages[pid].free_space)
    IN  [db EXCEPT !.fsi = u.fsi, !.free_cache = u.free_cache]

\* fault: the second search starts at the encoding of the first
SameEncoding(required) == FSI!encode_free_space(required)

\* uint8_t nextEnc = fsi.encode_free_space(size + sizeof(Slot)) + 1
NextEncoding(required) == FSI!encode_free_space(required) + 1

(***************************************************************************)
(* allocate: the page find returns, the page of the next encoding when     *)
(* that one is too full, a new page when there is none.  `fixes` are the   *)
(* pages it asks the buffer manager for, `fits` the assert of              *)
(* SlottedPage::allocate on the page it chose, `room` the bounds of the    *)
(* model: MaxPages pages of MaxSlots slots.                                *)
(***************************************************************************)
Allocation(db, size, target) ==
    LET required == size + SlotSize
        Place(first, found) ==
            LET pid == IF found = invalidPid THEN db.allocated_pages ELSE found
                before == IF found = invalidPid THEN SP!NewPage ELSE db.pages[pid]
                Result(placed) ==
                    [tid |-> [page |-> pid, slot |-> placed.slot],
                     fixes |-> {first, pid} \ {invalidPid},
                     fits |-> SP!CanAllocate(before, size),
                     room |-> pid < MaxPages /\ placed.page.slot_count <= MaxSlots,
                     db |-> IF pid \notin PageIds THEN db
                            ELSE UpdateFsi([db EXCEPT !.pages[pid] = placed.page,
                                                      !.allocated_pages = Max({@, pid + 1})], pid)]
            IN  Result(SP!allocate(before, size, target))
        Retry(first) ==
            Place(first, IF first = invalidPid \/ db.pages[first].free_space >= required
                         THEN first
                         ELSE IF NextEncoding(required) >= 16 THEN invalidPid
                         ELSE FSI!find(db.free_cache, FSI!decode_free_space(NextEncoding(required))))
    IN  Retry(FSI!find(db.free_cache, required))

\* fault: the bytes of the record that moved away stay counted
RedirectedKeepsSpace(p, slot_id, tid) ==
    [p EXCEPT !.slots[slot_id] = [kind |-> "redirect", offset |-> 0, size |-> 0, tid |-> tid]]

\* page->header.free_space += slot.get_size(); slot.set_redirect_tid(newRTid)
Redirected(p, slot_id, tid) ==
    [p EXCEPT !.free_space = @ + p.slots[slot_id].size,
              !.slots[slot_id] = [kind |-> "redirect", offset |-> 0, size |-> 0, tid |-> tid]]

\* the slot that holds the record of a TID, behind its redirect if it has one
Target(db, tid) ==
    LET slot == db.pages[tid.page].slots[tid.slot]
    IN  IF SP!is_redirect(slot) THEN slot.tid ELSE tid

\* fault: the record grows in its page whatever room is left
StillFitsAlways(p, slot_id, new_length) == TRUE

\* still fits (compactifies if needed)
StillFits(p, slot_id, new_length) ==
    \/ new_length < p.slots[slot_id].size
    \/ p.free_space >= new_length - p.slots[slot_id].size

\* fault: the old redirect target is left where it was
RetargetedKeepsOld(db, tid, old, new) ==
    [db EXCEPT !.pages[tid.page].slots[tid.slot].tid = new]

\* the old target is erased and the redirect set to the new one
Retargeted(db, tid, old, new) ==
    [db EXCEPT !.pages[old.page] = SP!erase(@, old.slot),
               !.pages[tid.page].slots[tid.slot].tid = new]

(***************************************************************************)
(* resize of a record that is not already new_length long: in its page if  *)
(* it still fits, else on the page allocate finds, while the pages of the  *)
(* record stay fixed (`own`: allocate asks for one of them).               *)
(***************************************************************************)
Resizing(db, tid, new_length) ==
    LET at == Target(db, tid)
        held == {tid.page, at.page}
        Moved(a) ==
            [fixes |-> held \cup a.fixes, own |-> a.fixes \cap held # {}, room |-> a.room,
             db |-> UpdateFsi(IF at = tid
                              THEN [a.db EXCEPT !.pages[tid.page] = Redirected(@, tid.slot, a.tid)]
                              ELSE Retargeted(a.db, tid, at, a.tid), at.page)]
    IN  IF StillFits(db.pages[at.page], at.slot, new_length)
        THEN [fixes |-> held, own |-> FALSE, room |-> TRUE,
              db |-> UpdateFsi([db EXCEPT !.pages[at.page] =
                                    SP!relocate(@, at.slot, new_length)], at.page)]
        ELSE Moved(Allocation(db, new_length, TRUE))

\* erase of the record, and of its slot when it is behind a redirect; `seen`
\* is the free space read from the page of the slot after the page of the
\* record was fixed, when the pool may have given its frame away
Erasing(db, tid, seen) ==
    LET at == Target(db, tid)
        gone == [db EXCEPT !.pages[tid.page] = SP!erase(@, tid.slot)]
        Told(d) == LET u == FSI!Updated(d.fsi, d.free_cache, d.allocated_pages, tid.page, seen)
                   IN  [d EXCEPT !.fsi = u.fsi, !.free_cache = u.free_cache]
    IN  IF at = tid THEN UpdateFsi(gone, tid.page)
        ELSE Told(UpdateFsi([gone EXCEPT !.pages[at.page] = SP!erase(@, at.slot)], at.page))

-----------------------------------------------------------------------------
Init ==
    /\ pages = [p \in PageIds |-> SP!NewPage]
    /\ fsi = [b \in 0..(MaxPages - 1) \div 2 |-> 0]
    /\ free_cache = [e \in 0..15 |-> invalidPid]
    /\ allocated_pages = 0
    /\ records = <<>>
    /\ fixed = [p \in PageIds |-> "free"]
    /\ blocked = FALSE

\* fix_page returns: nothing is left fixed exclusively, nor shared when the
\* page is wanted exclusively
CanFix(ps, exclusive) ==
    \A p \in ps : fixed[p] = "free" \/ (~exclusive /\ fixed[p] = "shared")

\* the operation fixes a page it cannot get and never returns
Blocks == blocked' = TRUE /\ UNCHANGED <<pages, fsi, free_cache, allocated_pages, records, fixed>>

allocate(size) ==
    /\ ~blocked /\ Cardinality(DOMAIN records) < MaxRecords
    /\ \E a \in {Allocation(Db, size, FALSE)} :
           /\ a.room
           /\ \/ ~CanFix(a.fixes, TRUE) /\ Blocks
              \/ /\ CanFix(a.fixes, TRUE)
                 /\ Install(a.db)
                 /\ records' = (a.tid :> size) @@ records
                 /\ UNCHANGED <<fixed, blocked>>

\* the TIDs the caller may pass: its records, and those it has erased
Erased == {tid \in [page : 0..allocated_pages - 1, slot : 0..MaxSlots - 1] :
               /\ tid.slot < pages[tid.page].slot_count
               /\ SP!is_empty(pages[tid.page].slots[tid.slot])}

\* read returns 0 for an erased record, before it has unfixed the page
read(tid) ==
    /\ ~blocked
    /\ \/ ~CanFix({tid.page, Target(Db, tid).page}, FALSE) /\ Blocks
       \/ /\ CanFix({tid.page, Target(Db, tid).page}, FALSE)
          /\ fixed' = IF tid \in Erased THEN [fixed EXCEPT ![tid.page] = "shared"] ELSE fixed
          /\ UNCHANGED <<pages, fsi, free_cache, allocated_pages, records, blocked>>

\* write copies bytes, which the model does not keep
write(tid) ==
    /\ ~blocked
    /\ IF CanFix({tid.page, Target(Db, tid).page}, TRUE) THEN UNCHANGED vars ELSE Blocks

\* resize returns at once, the page still fixed, when the slot has the length
resizeSame(tid, new_length) ==
    /\ ~blocked
    /\ pages[tid.page].slots[tid.slot].size = new_length
    /\ \/ ~CanFix({tid.page}, TRUE) /\ Blocks
       \/ /\ CanFix({tid.page}, TRUE)
          /\ fixed' = [fixed EXCEPT ![tid.page] = "exclusive"]
          /\ UNCHANGED <<pages, fsi, free_cache, allocated_pages, records, blocked>>

resize(tid, new_length) ==
    /\ ~blocked /\ pages[tid.page].slots[tid.slot].size # new_length
    /\ \E r \in {Resizing(Db, tid, new_length)} :
           /\ r.room
           /\ \/ (r.own \/ ~CanFix(r.fixes, TRUE)) /\ Blocks
              \/ /\ ~r.own /\ CanFix(r.fixes, TRUE)
                 /\ Install(r.db)
                 /\ records' = [records EXCEPT ![tid] = new_length]
                 /\ UNCHANGED <<fixed, blocked>>

erase(tid) ==
    /\ ~blocked
    /\ \/ ~CanFix({tid.page, Target(Db, tid).page}, TRUE) /\ Blocks
       \/ /\ CanFix({tid.page, Target(Db, tid).page}, TRUE)
          /\ \E seen \in {SP!erase(pages[tid.page], tid.slot).free_space} \cup Evicted :
                 Install(Erasing(Db, tid, seen))
          /\ records' = [t \in DOMAIN records \ {tid} |-> records[t]]
          /\ UNCHANGED <<fixed, blocked>>

\* the calls that leave no page fixed when they return
NextCareful ==
    \/ \E size \in DataSizes : allocate(size)
    \/ \E tid \in DOMAIN records :
           \/ read(tid) \/ write(tid) \/ erase(tid)
           \/ \E new_length \in DataSizes : resize(tid, new_length)

\* and the two that return early
Next ==
    \/ NextCareful
    \/ \E tid \in Erased : read(tid)
    \/ \E tid \in DOMAIN records, new_length \in DataSizes : resizeSame(tid, new_length)

Spec == Init /\ [][Next]_vars
SpecCareful == Init /\ [][NextCareful]_vars
-----------------------------------------------------------------------------
Tids == [page : PageIds, slot : 0..MaxSlots - 1]

TypeOK ==
    /\ \A p \in PageIds : SP!IsPage(pages[p])
    /\ fsi \in [0..(MaxPages - 1) \div 2 -> 0..255]
    /\ free_cache \in [0..15 -> PageIds \cup {invalidPid}]
    /\ allocated_pages \in 0..MaxPages
    /\ DOMAIN records \subseteq Tids /\ \A tid \in DOMAIN records : records[tid] \in DataSizes
    /\ fixed \in [PageIds -> {"free", "shared", "exclusive"}]
    /\ blocked \in BOOLEAN

(***************************************************************************)
(* The inventory is true of the pages: the four bits of every allocated    *)
(* page encode the free space in its header, and free_cache is the         *)
(* earliest page of each encoding, after every allocate, resize and erase, *)
(* each of which changes up to three pages and tells the inventory of some *)
(* of them.                                                                *)
(***************************************************************************)
InventoryMatchesPages ==
    /\ \A p \in 0..allocated_pages - 1 :
           FSI!Nibble(fsi, p) = FSI!encode_free_space(pages[p].free_space)
    /\ FSI!CacheIsEarliest

(***************************************************************************)
(* The page allocate chooses has room for the record: the assert of        *)
(* SlottedPage::allocate holds for every size, although find answers from  *)
(* four bits per page and allocate looks at one page before it trusts the  *)
(* page of the next encoding.                                              *)
(***************************************************************************)
AllocateFits ==
    \A size \in DataSizes : Allocation(Db, size, FALSE).fits

(***************************************************************************)
(* The caller's records are where its TIDs say: behind each TID there is a *)
(* record of the length last asked for, in the TID's slot or in the slot   *)
(* its redirect names, and every redirect target belongs to exactly one    *)
(* redirect ("An empty redirect target doesn't make sense", read).         *)
(***************************************************************************)
RecordsKept ==
    LET slotOf(tid) == pages[tid.page].slots[tid.slot]
        placed(kind) == {tid \in Tids : /\ tid.slot < pages[tid.page].slot_count
                                        /\ slotOf(tid).kind = kind}
    IN  /\ DOMAIN records = placed("record") \cup placed("redirect")
        /\ \A tid \in DOMAIN records : slotOf(Target(Db, tid)).size = records[tid]
        /\ \A tid \in placed("redirect") : slotOf(tid).tid \in placed("target")
        /\ \A t \in placed("target") :
               Cardinality({tid \in placed("redirect") : slotOf(tid).tid = t}) = 1

(***************************************************************************)
(* Every page of the segment keeps the layout SlottedPage promises, also   *)
(* where SPSegment writes the header and a slot itself (a record becomes a *)
(* redirect) and where one call changes two pages.                         *)
(***************************************************************************)
PagesWellFormed ==
    \A p \in PageIds :
        /\ SP!FreeSpaceAccounted(pages[p])
        /\ SP!DataDisjoint(pages[p])
        /\ SP!FirstFreeSlotIsFree(pages[p])

(***************************************************************************)
(* Every fix_page has its unfix_page: when an operation has returned, the  *)
(* caller has no page fixed (the data flow of the buffer manager: fix,     *)
(* read or write, unfix).                                                  *)
(***************************************************************************)
NoPageLeftFixed == \A p \in PageIds : fixed[p] = "free"

(***************************************************************************)
(* No operation waits for a page for ever: resize, which keeps the page of *)
(* the record fixed while allocate looks for room, is never sent by the    *)
(* inventory to that very page.                                            *)
(***************************************************************************)
NeverBlocked == ~blocked
=============================================================================
