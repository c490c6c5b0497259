---------------------------- MODULE FSISegment ----------------------------
(***************************************************************************)
(* The free-space inventory of src/src/fsi_segment.cc: four bits per       *)
(* slotted page that encode its free space, two pages to a byte, and       *)
(* free_cache, which names for each of the 16 encodings the earliest page  *)
(* that has it.  The FSI pages are the byte array fsi (the buffer manager  *)
(* that holds them is left out); the slotted pages are known only through  *)
(* the free space their owner reports.                                     *)
(*                                                                         *)
(* log_factor is log2(page_size) / 8, a float.  The code uses it in        *)
(* floor(log2f(x) / log_factor) and ceil(pow(2, i * log_factor)); both are *)
(* decided by the seven numbers ceil(2^(i * log_factor)), i in 1..7, which *)
(* the model takes as PowTable (3, 6, 14, 32, 77, 182, 431 for pages of    *)
(* 1024 bytes, where log_factor is exactly 1.25).                          *)
(***************************************************************************)
EXTENDS Integers, FiniteSetsExt

CONSTANTS PageSize,    \* buffer_manager.get_page_size()
          PowTable,    \* PowTable[i] = ceil(2^(i * log_factor))
          MaxPages,    \* bound on table.allocated_pages
          FreeSpaces,  \* the amounts of free space a page may report
          invalidPid   \* free_cache entry of an encoding no page has

VARIABLES fsi,              \* the bytes of the FSI pages
          free_cache,       \* encoding -> earliest page with it
          allocated_pages,  \* table.allocated_pages
          reported          \* page -> the free space last passed to update

fsiVars == <<fsi, free_cache, allocated_pages, reported>>

Encodings == 0..15
PageIds == 0..MaxPages - 1

linear_factor == PageSize \div 16 + 1

\* fault: the divisor without its + 1
EncodeLinearTight(free_space) ==
    IF free_space < PageSize \div 2
    THEN Max({0} \cup {i \in 1..7 : PowTable[i] <= free_space})
    ELSE free_space \div (PageSize \div 16)

\* floor(log2f(0)) is minus infinity and its cast to uint8_t undefined; the
\* builds in use (cvttss2si, fcvtzs) leave 0 in the low byte.
encode_free_space(free_space) ==
    IF free_space < PageSize \div 2
    THEN Max({0} \cup {i \in 1..7 : PowTable[i] <= free_space})
    ELSE free_space \div linear_factor

decode_free_space(free_space) ==
    IF free_space >= 8 THEN free_space * linear_factor
    ELSE IF free_space = 0 THEN 0 ELSE PowTable[free_space]

\* the upper half of a byte belongs to the even page, the lower to the odd
Nibble(bytes, pageIndex) ==
    IF pageIndex % 2 = 0 THEN bytes[pageIndex \div 2] \div 16
    ELSE bytes[pageIndex \div 2] % 16

\* fault: the old upper half is not masked out
WithNibbleUnmasked(bytes, pageIndex, efs) ==
    [bytes EXCEPT ![pageIndex \div 2] =
        IF pageIndex % 2 = 0 THEN @ + efs * 16 ELSE (@ \div 16) * 16 + efs]

\* *fsiPtr = fsiOffset % 2 == 0 ? (fsiVal & 0x0F) | (efs << 4) : (fsiVal & 0xF0) | efs
WithNibble(bytes, pageIndex, efs) ==
    [bytes EXCEPT ![pageIndex \div 2] =
        IF pageIndex % 2 = 0 THEN ((@ % 16) + efs * 16) % 256 ELSE (@ \div 16) * 16 + efs]

\* the scan for the first page at or after `from` whose nibble is `encoding`
Earliest(bytes, allocated, encoding, from) ==
    LET pages == {p \in from..allocated - 1 : Nibble(bytes, p) = encoding}
    IN  IF pages = {} THEN invalidPid ELSE Min(pages)

\* the constructor: every page in order claims the entry of its encoding
\* unless an earlier page has
Scanned(bytes, allocated) ==
    [e \in Encodings |-> Earliest(bytes, allocated, e, 0)]

\* fault: the new entry is set whichever page is earlier
CacheOverwritten(cache, bytes, allocated, pageIndex, freeSpace) ==
    LET held == {i \in Encodings : cache[i] = pageIndex}
        set == [cache EXCEPT ![freeSpace] = pageIndex]
    IN  IF held = {} \/ Min(held) = freeSpace THEN set
        ELSE [set EXCEPT ![Min(held)] = Earliest(bytes, allocated, Min(held), pageIndex + 1)]

\* fault: the entry the page leaves is not searched again
CacheKeepsOld(cache, bytes, allocated, pageIndex, freeSpace) ==
    IF cache[freeSpace] = invalidPid \/ pageIndex < cache[freeSpace]
    THEN [cache EXCEPT ![freeSpace] = pageIndex] ELSE cache

\* the loop stops at the first entry that names the page; when that entry is
\* of another encoding (prevFreeSpace) it is searched again from the next page
update_free_cache(cache, bytes, allocated, pageIndex, freeSpace) ==
    LET held == {i \in Encodings : cache[i] = pageIndex}
        set == IF cache[freeSpace] = invalidPid \/ pageIndex < cache[freeSpace]
               THEN [cache EXCEPT ![freeSpace] = pageIndex] ELSE cache
    IN  IF held = {} \/ Min(held) = freeSpace THEN set
        ELSE [set EXCEPT ![Min(held)] = Earliest(bytes, allocated, Min(held), pageIndex + 1)]

\* update as a function of the inventory: the byte is written, then the cache
Updated(bytes, cache, allocated, tpIndex, free_space) ==
    LET efs == encode_free_space(free_space)
        written == WithNibble(bytes, tpIndex, efs)
    IN  [fsi |-> written,
         free_cache |-> update_free_cache(cache, written, allocated, tpIndex, efs)]

\* the first entry at or above the encoding of required_space, invalidPid
\* for the empty optional
find(cache, required_space) ==
    LET found == {ci \in encode_free_space(required_space)..15 : cache[ci] # invalidPid}
    IN  IF found = {} THEN invalidPid ELSE cache[Min(found)]

-----------------------------------------------------------------------------
(* The inventory driven by any owner of the slotted pages. *)

\* The constructor runs over the FSI pages of a table that may have pages.
Init ==
    /\ allocated_pages \in 0..MaxPages
    /\ reported \in [PageIds -> FreeSpaces]
    /\ \A p \in allocated_pages..MaxPages - 1 : reported[p] = 0
    /\ fsi = [b \in 0..(MaxPages - 1) \div 2 |->
                 16 * (IF 2 * b < allocated_pages THEN encode_free_space(reported[2 * b]) ELSE 0)
                 + (IF 2 * b + 1 < allocated_pages THEN encode_free_space(reported[2 * b + 1]) ELSE 0)]
    /\ free_cache = Scanned(fsi, allocated_pages)

update(target_page, free_space) ==
    /\ target_page < allocated_pages
    /\ LET u == Updated(fsi, free_cache, allocated_pages, target_page, free_space)
       IN  fsi' = u.fsi /\ free_cache' = u.free_cache
    /\ reported' = [reported EXCEPT ![target_page] = free_space]
    /\ UNCHANGED allocated_pages

\* SPSegment::allocate creates a page: the counter first, the entry after
NewPage(free_space) ==
    /\ allocated_pages < MaxPages
    /\ allocated_pages' = allocated_pages + 1
    /\ LET u == Updated(fsi, free_cache, allocated_pages', allocated_pages, free_space)
       IN  fsi' = u.fsi /\ free_cache' = u.free_cache
    /\ reported' = [reported EXCEPT ![allocated_pages] = free_space]

Next == \E free_space \in FreeSpaces :
            \/ NewPage(free_space)
            \/ \E p \in PageIds : update(p, free_space)

Spec == Init /\ [][Next]_fsiVars

-----------------------------------------------------------------------------
TypeOK ==
    /\ fsi \in [0..(MaxPages - 1) \div 2 -> 0..255]
    /\ free_cache \in [Encodings -> PageIds \cup {invalidPid}]
    /\ allocated_pages \in 0..MaxPages
    /\ reported \in [PageIds -> FreeSpaces]

(***************************************************************************)
(* free_cache[e] is the earliest allocated page whose four bits are e, and *)
(* invalidPid exactly when there is none: update_free_cache keeps this     *)
(* although it looks only at the pages after the one that changed.         *)
(***************************************************************************)
CacheIsEarliest ==
    \A e \in Encodings :
        LET with == {p \in 0..allocated_pages - 1 : Nibble(fsi, p) = e}
        IN  /\ free_cache[e] = invalidPid <=> with = {}
            /\ free_cache[e] # invalidPid =>
                   free_cache[e] \in with /\ \A p \in with : free_cache[e] <= p

(***************************************************************************)
(* The four bits never promise more than the page has, and the next        *)
(* encoding always would: decode(e) <= free space < decode(e + 1), across  *)
(* the seam of encode_free_space's logarithmic and linear halves.  It is   *)
(* what lets SPSegment::allocate retry with the next encoding when the     *)
(* page that find returned is too full.                                    *)
(***************************************************************************)
EncodingBracketsSpace ==
    \A p \in 0..allocated_pages - 1 :
        LET e == Nibble(fsi, p)
        IN  /\ decode_free_space(e) <= reported[p]
            /\ e < 15 => reported[p] < decode_free_space(e + 1)

(***************************************************************************)
(* find is complete: it returns no page only when no allocated page has an *)
(* encoding at or above the one of the space required, so a page is        *)
(* created only when the inventory knows of none.                          *)
(***************************************************************************)
FindIsComplete ==
    \A required \in FreeSpaces :
        LET p == find(free_cache, required)
        IN  IF p = invalidPid
            THEN \A q \in 0..allocated_pages - 1 :
                     Nibble(fsi, q) < encode_free_space(required)
            ELSE p < allocated_pages /\ Nibble(fsi, p) >= encode_free_space(required)
=============================================================================
