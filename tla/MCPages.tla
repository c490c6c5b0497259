------------------------------ MODULE MCPages ------------------------------
(***************************************************************************)
(* The two parts an SP segment is built from, each on its own and under    *)
(* wider inputs than the segment gives them: the free-space inventory with *)
(* the free spaces on both sides of every boundary of its encoding, and    *)
(* one slotted page under every sequence of legal calls.  A behaviour is a *)
(* behaviour of one of the two, chosen by `part`, with the other at rest.  *)
(***************************************************************************)
EXTENDS Integers

CONSTANTS PageSize, MaxPages, invalidPid, HeaderSize, SlotSize, DataSizes,
          MaxSlots, NoTid

VARIABLES part, fsi, free_cache, allocated_pages, reported, page

\* ceil(2^(1.25 * i)) for i = 1..7
Pow1024 == <<3, 6, 14, 32, 77, 182, 431>>

\* both sides of every boundary between two encodings that a seam, a zero
\* or a full page could move
EdgeSpaces == {0, 1, 2, 3, 430, 431, 511, 512, 519, 520, 974, 975, 1012}

Inventory == INSTANCE FSISegment WITH PowTable <- Pow1024, FreeSpaces <- EdgeSpaces
Slotted == INSTANCE SlottedPage

inventoryVars == <<fsi, free_cache, allocated_pages, reported>>

Init ==
    /\ part \in {"inventory", "page"}
    /\ Inventory!Init
    /\ part = "page" => allocated_pages = 0
    /\ Slotted!Init

Next ==
    \/ part = "inventory" /\ Inventory!Next /\ UNCHANGED <<part, page>>
    \/ part = "page" /\ Slotted!Next /\ UNCHANGED <<part, inventoryVars>>

Spec == Init /\ [][Next]_<<part, inventoryVars, page>>

TypeOK == part \in {"inventory", "page"} /\ Inventory!TypeOK /\ Slotted!TypeOK
CacheIsEarliest == Inventory!CacheIsEarliest
EncodingBracketsSpace == Inventory!EncodingBracketsSpace
FindIsComplete == Inventory!FindIsComplete
PageFreeSpaceAccounted == Slotted!PageFreeSpaceAccounted
PageDataDisjoint == Slotted!PageDataDisjoint
PageFirstFreeSlotIsFree == Slotted!PageFirstFreeSlotIsFree
=============================================================================
