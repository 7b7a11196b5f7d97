--------------------------- MODULE SMAProperties ---------------------------
(***************************************************************************)
(* What the memory allocator of module SMA must satisfy.                   *)
(*                                                                         *)
(* The properties of the heap's structure speak of a heap that has lost no *)
(* block: losing one is the defect that NoOverlap shows the effect of.     *)
(***************************************************************************)
EXTENDS SMA

Addresses == 1 .. MaxBreak
Words     == [size : 1 .. MaxBreak, tag : {Free, Used}]
Links     == [prev : 0 .. MaxBreak, next : 0 .. MaxBreak]

IsPartial(f, S, T) == DOMAIN f \subseteq S /\ \A x \in DOMAIN f : f[x] \in T

(* Every variable holds values of its declared kind (sma.c:37-50).         *)
TypeOK ==
  /\ IsPartial(heap.header, Addresses, Words)
  /\ IsPartial(heap.foot, Addresses, Words)
  /\ IsPartial(heap.link, Addresses, Links)
  /\ heap.head \in 0 .. MaxBreak /\ heap.tail \in 0 .. MaxBreak
  /\ heap.top \in 0 .. MaxBreak /\ heap.lost \subseteq Addresses
  /\ currentPolicy \in {"WORST", "NEXT"}
  /\ lastAllocated \in 0 .. MaxBreak
  /\ IsPartial(live, Addresses, Sizes)
  /\ fault \in [by : {"none", "sbrk", "link"}, size : Sizes \cup {0}]
-----------------------------------------------------------------------------
Blocks  == DOMAIN heap.header
FreeSet == {b \in Blocks : heap.header[b].tag = Free}
Whole   == heap.lost = {}

(* The blocks tile the memory below the break, and each has a foot equal   *)
(* to its header, however they were split, merged, grown and cut: the      *)
(* neighbours are found by these words only (sma.c:284-287, 469-472,       *)
(* 605-616, 734-735).                                                      *)
BoundaryTags ==
  Whole =>
    /\ DOMAIN heap.foot = {FootOf(heap, b) : b \in Blocks}
    /\ \A b \in Blocks :
         /\ heap.foot[FootOf(heap, b)] = heap.header[b]
         /\ b = 1 \/ b - 1 \in DOMAIN heap.foot
         /\ FootOf(heap, b) = heap.top \/ After(heap, b) \in Blocks
         /\ \A c \in Blocks : b < c => FootOf(heap, b) < c
    /\ Blocks = {} => heap.top = 0

(* The free list holds the blocks tagged free, all of them, in the order   *)
(* of their addresses, and can be walked both ways from its two ends       *)
(* (sma.c:522-538, 574-602, 634-637, 658-673, 736-742).                    *)
Above(b) == {c \in FreeSet : c > b}
Below(b) == {c \in FreeSet : c < b}
Lowest(S)  == IF S = {} THEN Null ELSE Min(S)
Highest(S) == IF S = {} THEN Null ELSE Max(S)

FreeListExact ==
  Whole =>
    /\ DOMAIN heap.link = FreeSet
    /\ heap.head = Lowest(FreeSet) /\ heap.tail = Highest(FreeSet)
    /\ \A b \in FreeSet : heap.link[b] = [prev |-> Highest(Below(b)),
                                          next |-> Lowest(Above(b))]

(* No two free blocks lie side by side, although the list's first node is  *)
(* never merged with what lies in front of it, and a block put on an empty *)
(* list is not merged at all (sma.c:574-577, 609-623).                     *)
Coalesced == Whole => \A b \in FreeSet : After(heap, b) \notin FreeSet

(* "Max top free block size = 128 Kbytes" (sma.c:27): a free block at the  *)
(* top never stays larger, whether it grew by a free, a merge or a shrink  *)
(* (sma.c:626-638).                                                        *)
TopBounded ==
  Whole => \A b \in FreeSet : FootOf(heap, b) = heap.top
                                => SizeOf(heap, b) <= MaxTop

(* A block is used exactly if the program holds it, is as large as was     *)
(* asked, and wastes no more than the bytes that could not be split off    *)
(* (sma.c:462, 488-500, 192-196, 239-243).                                 *)
Accounted ==
  Whole =>
    /\ Blocks \ FreeSet = DOMAIN live
    /\ \A b \in DOMAIN live : SizeOf(heap, b) \in live[b] .. live[b] + MinSplit

(* The break goes up, and the program dies of a break that cannot go up,   *)
(* only if no free block is larger than the request: the two scans of next *)
(* fit together see the whole list, wherever lastAllocated points          *)
(* (sma.c:77-86, 281, 338, 393-421).                                       *)
NoneLarger(n) == \A c \in FreeSet : SizeOf(heap, c) <= n

GrowsOnlyIfNeeded ==
  [][/\ heap'.top > heap.top =>
          \A b \in DOMAIN live' \ DOMAIN live : NoneLarger(live'[b])
     /\ fault'.by = "sbrk" => fault.by = "sbrk" \/ NoneLarger(fault'.size)]_vars

Service == INSTANCE AllocService WITH held <- live

(* The blocks handed out never overlap, and none moves on its own.         *)
ImplementsAllocService == Service!Spec
-----------------------------------------------------------------------------
(* What the comments of the code say and the code does not do.             *)

(* "Allocates a memory block of input size from the heap" (sma.c:62): two  *)
(* blocks that the program holds do not overlap.                           *)
NoOverlap == \A b, c \in DOMAIN live : b < c => b + live[b] <= c
=============================================================================
