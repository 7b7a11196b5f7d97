--------------------------- MODULE SMAStatistics ---------------------------
(***************************************************************************)
(* The statistics of the memory allocator ("Simple Memory Allocator"/sma.c *)
(* 46-47, printed by sma_mallinfo): two unsigned totals that every change  *)
(* of the free list moves, in units of 16 bytes and modulo Word.           *)
(***************************************************************************)
EXTENDS SMA, Integers

CONSTANT Word   \* 2^64, in units

VARIABLES totalAllocatedSize, totalFreeSize

totals == <<totalAllocatedSize, totalFreeSize>>
-----------------------------------------------------------------------------
(* What a step adds to the two totals.                                     *)
Moves(allocated, free) == [allocated |-> allocated, free |-> free]
Plus(x, y) == Moves(x.allocated + y.allocated, x.free + y.free)

(* remove_block_freeList and replace_block_freeList: the size that the     *)
(* header of the block shows by then.                                      *)
Unlisted(n) == Moves(n, -n)

(* add_block_freeList counts the block, and what it gives back.            *)
Added(h, b) ==
  LET g == Entered(h, b)
      surrendered == IF TopTooLarge(g) THEN SizeOf(g, g.tail) ELSE 0
  IN  Moves(-SizeOf(h, b), SizeOf(h, b) - surrendered)

(* allocate_block.                                                         *)
Split(h, b, n, excess, fromFreeList) ==
  IF fromFreeList THEN Unlisted(IF excess > MinSplit THEN n ELSE n + excess)
  ELSE IF excess > MinSplit
    THEN LET rest == b + n + 1
         IN  Added(Use(Write(h, rest, excess - 1, Free), b, n), rest)
    ELSE Moves(0, 0)

(* allocate_pBrk.                                                          *)
Extended(h, n) ==
  IF EndsFree(h)
    THEN LET g == [Remove(h, h.tail) EXCEPT
                     !.top = @ + (n + Excess) - h.foot[h.top].size,
                     !.foot = Drop(@, {h.top})]
         IN  Plus(Unlisted(SizeOf(h, h.tail)),
                  Split(g, h.tail, n, Excess, FALSE))
    ELSE Split([h EXCEPT !.top = @ + 1 + n + Excess], h.top + 1, n, Excess,
               FALSE)

(* sma_malloc counts the size that was asked for as well.                  *)
Got(h, n) ==
  Plus(Moves(n, 0),
       LET b == Fitting(h, n)
       IN  IF b # Null THEN Split(h, b, n, SizeOf(h, b) - n, TRUE)
                       ELSE Extended(h, n))
-----------------------------------------------------------------------------
Count(moves) ==
  /\ totalAllocatedSize' = (totalAllocatedSize + moves.allocated) % Word
  /\ totalFreeSize' = (totalFreeSize + moves.free) % Word

InitS == Init /\ totalAllocatedSize = 0 /\ totalFreeSize = 0

SMalloc(n) == Malloc(n) /\ (IF fault' = Alive THEN Count(Got(heap, n))
                                              ELSE UNCHANGED totals)

SFree(b) == FreeBlock(b) /\ Count(Added(heap, b))

SShrink(b, n) ==
  /\ ReallocShrink(b, n)
  /\ IF n = SizeOf(heap, b) THEN UNCHANGED totals
     ELSE Count(Split(heap, b, n, SizeOf(heap, b) - n, FALSE))

SMove(b, n) ==
  /\ ReallocMove(b, n)
  /\ IF fault' = Alive
       THEN Count(Plus(Got(heap, n), Added(Allocated(heap, n), b)))
       ELSE UNCHANGED totals

NextS ==
  \/ Working /\ \E n \in Sizes : SMalloc(n)
  \/ Working /\ \E b \in DOMAIN live : SFree(b)
  \/ Working /\ \E policy \in {"WORST", "NEXT"} :
       Mallopt(policy) /\ UNCHANGED totals
  \/ Working /\ \E b \in DOMAIN live, n \in Sizes : SShrink(b, n)
  \/ Working /\ \E b \in DOMAIN live, n \in Sizes :
       ReallocInPlace(b, n) /\ UNCHANGED totals
  \/ Working /\ \E b \in DOMAIN live, n \in Sizes : SMove(b, n)
  \/ ~Working /\ UNCHANGED <<vars, totals>>

SpecS == InitS /\ [][NextS]_<<vars, totals>>
-----------------------------------------------------------------------------
SizesOf(S) == FoldSet(LAMBDA b, sum : SizeOf(heap, b) + sum, 0, S)

(* "Total Allocated memory in Bytes" (sma.c:46) and "Total Free memory in  *)
(* Bytes in the free memory list" (sma.c:47): the totals that sma_mallinfo *)
(* prints are the sizes of the used and of the free blocks.                *)
StatisticsTrue ==
  /\ totalAllocatedSize = SizesOf({b \in DOMAIN heap.header :
                                     heap.header[b].tag = Used})
  /\ totalFreeSize = SizesOf(Listed(heap))
=============================================================================
