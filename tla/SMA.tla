-------------------------------- MODULE SMA --------------------------------
(***************************************************************************)
(* The memory allocator ("Simple Memory Allocator"/sma.c).                 *)
(*                                                                         *)
(* The heap is a run of blocks.  A block has a header and a foot, each a   *)
(* size and a tag (0 free, 1 used); a free block holds in its payload the  *)
(* links of the doubly linked free list.  Blocks are cut, merged and found *)
(* by these words alone, so the model keeps the words, not a set of        *)
(* blocks.                                                                 *)
(*                                                                         *)
(* Unit: 16 bytes, the room the two links of a free block need.  Bound:    *)
(* requests are multiples of it.  A block is named by the address of its   *)
(* payload, in units; the unit before it holds the foot of the block       *)
(* before (8 bytes) and its own header (8 bytes).  A foot is named by its  *)
(* unit, and so is the program break, which ends the foot of the last      *)
(* block.  A word is in the domain of its function while it is in use: a   *)
(* step that reads what has become somebody's data has no value.           *)
(*                                                                         *)
(* The program passes sma_free and sma_realloc only what it holds, asks    *)
(* for sizes above 0, and nobody else moves the program break.             *)
(*                                                                         *)
(* An operator named Bug_... is a plausible defect of the definition that  *)
(* follows it; the specification uses none of them.                        *)
(***************************************************************************)
EXTENDS Naturals, FiniteSets, FiniteSetsExt, Functions

CONSTANTS
  Sizes,     \* the sizes a program asks for
  MinSplit,  \* FREE_BLOCK_HEADER_SIZE + BLOCK_FOOT_SIZE, 32 bytes
  Excess,    \* EXCESS_SIZE
  MaxTop,    \* MAX_TOP_FREE
  MaxBreak,  \* the highest break the system grants
  PastLeak   \* bound: does the model go on once a block is lost?

ASSUME SizesAssumption == Sizes \subseteq Nat \ {0}
ASSUME ExcessAssumption == /\ MinSplit \in Nat \ {0} /\ Excess \in Nat
                           /\ MaxTop \in Nat
                           /\ MinSplit < Excess /\ Excess <= MaxTop
ASSUME BoundAssumption == MaxBreak \in Nat /\ PastLeak \in BOOLEAN

VARIABLES
  heap,           \* the words of the heap and of the free list
  currentPolicy,  \* currentPolicy
  lastAllocated,  \* lastAllocated
  live,           \* ghost: what the program holds, and how much it asked for
  fault           \* what the program died of, and the size it asked for

vars == <<heap, currentPolicy, lastAllocated, live, fault>>
-----------------------------------------------------------------------------
Null == 0
Free == 0
Used == 1

Put(f, x, v) == [y \in DOMAIN f \cup {x} |-> IF y = x THEN v ELSE f[y]]
Drop(f, S)   == Restrict(f, DOMAIN f \ S)

SizeOf(h, b) == h.header[b].size
FootOf(h, b) == b + SizeOf(h, b)
After(h, b)  == FootOf(h, b) + 1

(* Write header and foot of a block; a used block also overwrites what its *)
(* payload held.                                                           *)
Write(h, b, n, tag) ==
  [h EXCEPT !.header = Put(@, b, [size |-> n, tag |-> tag]),
            !.foot   = Put(@, b + n, [size |-> n, tag |-> tag])]

Use(h, b, n) ==
  Write([h EXCEPT !.header = Drop(@, b + 1 .. b + n),
                  !.foot   = Drop(@, b .. b + n - 1),
                  !.link   = Drop(@, b .. b + n - 1)], b, n, Used)

(* Write the size of a block, but not its tag.                             *)
Resize(h, b, n) == [h EXCEPT !.header[b].size = n, !.foot[b + n].size = n]

(* Drop a block's header, its link and the foot at f.                      *)
Without(h, b, f) == [h EXCEPT !.header = Drop(@, {b}), !.link = Drop(@, {b}),
                              !.foot = Drop(@, {f})]

(* The nodes of the free list in the order of its links.                   *)
Nodes(h) ==
  LET node[i \in 1 .. Cardinality(DOMAIN h.link)] ==
        IF i = 1 THEN h.head
        ELSE LET previous == node[i - 1]
             IN  IF previous = Null THEN Null ELSE h.link[previous].next
  IN  node

Listed(h) == {Nodes(h)[i] : i \in DOMAIN Nodes(h)} \ {Null}

(* The first node that is one of candidates.                               *)
First(h, candidates) ==
  LET found == {i \in DOMAIN Nodes(h) : Nodes(h)[i] \in candidates}
  IN  IF found = {} THEN Null ELSE Nodes(h)[Min(found)]

(* Set the next, or the previous, node of a node; the node before the      *)
(* first is freeListHead and the one after the last is freeListTail.       *)
SetNext(h, b, c) == IF b = Null THEN [h EXCEPT !.head = c]
                                ELSE [h EXCEPT !.link[b].next = c]
SetPrev(h, b, c) == IF b = Null THEN [h EXCEPT !.tail = c]
                                ELSE [h EXCEPT !.link[b].prev = c]

(* Hang node b between two neighbours.                                     *)
Hang(h, b, before, after) ==
  SetPrev(SetNext([h EXCEPT !.link = Put(@, b, [prev |-> before,
                                                next |-> after])],
                  before, b), after, b)

(* replace_block_freeList and remove_block_freeList.                       *)
Replace(h, old, new) == Hang(h, new, h.link[old].prev, h.link[old].next)

Remove(h, b) ==
  LET g == SetPrev(SetNext(h, h.link[b].prev, h.link[b].next),
                   h.link[b].next, h.link[b].prev)
  IN  [g EXCEPT !.link = Drop(@, {b})]
-----------------------------------------------------------------------------
(* add_block_freeList, in four parts.                                      *)

(* Insert: at the tail, without looking for the place.                     *)
Bug_InsertAtTail(h, b) ==
  Hang(Write(h, b, SizeOf(h, b), Free), b, h.tail, Null)

(* Mark the block free and hang it before the first node above it.         *)
Insert(h, b) ==
  LET after  == First(h, {c \in Listed(h) : c > b})
      before == IF after = Null THEN h.tail
                ELSE IF after = h.head THEN Null ELSE h.link[after].prev
  IN  Hang(Write(h, b, SizeOf(h, b), Free), b, before, after)

(* Merge: leave the foot as it was.                                        *)
Bug_StaleFoot(h, front, back) ==
  LET n == SizeOf(h, front) + 1 + SizeOf(h, back)
      g == [h EXCEPT !.header[front].size = n,
                     !.link[front].next = h.link[back].next]
      l == SetPrev(g, h.link[back].next, front)
  IN  Without(l, back, back - 1)

(* merge_with_front: the node after the back one, or the end of the list,  *)
(* is told of the front one.                                               *)
Merge(h, front, back) ==
  LET n    == SizeOf(h, front) + 1 + SizeOf(h, back)
      next == h.link[back].next
      g    == SetNext(Resize(h, front, n), front, next)
  IN  Without(SetPrev(g, IF back = h.tail THEN Null ELSE next, front),
              back, back - 1)

(* Coalesce: merge with the block in front only when there is none behind. *)
Bug_MergesOnce(h, b) ==
  LET behind  == After(h, b)
      front   == b - 1 - h.foot[b - 1].size
      mergeBehind == behind <= h.top /\ h.header[behind].tag = Free
      mergeFront  == b > h.head /\ h.foot[b - 1].tag = Free
  IN  IF mergeBehind THEN Merge(h, b, behind)
      ELSE IF mergeFront THEN Merge(h, front, b) ELSE h

(* Merge with the blocks in front and behind if their tags say free; the   *)
(* first node of the list is not merged with what lies in front of it.     *)
Coalesce(h, b) ==
  LET behind  == After(h, b)
      front   == b - 1 - h.foot[b - 1].size
      mergeBehind == behind <= h.top /\ h.header[behind].tag = Free
      mergeFront  == b > h.head /\ h.foot[b - 1].tag = Free
      g == IF mergeFront THEN Merge(h, front, b) ELSE h
  IN  IF mergeBehind THEN Merge(g, IF mergeFront THEN front ELSE b, behind)
                     ELSE g

(* Cut: the break is not compared after merging.                           *)
Bug_NoCut(h) == h

TopTooLarge(h) == FootOf(h, h.tail) = h.top /\ SizeOf(h, h.tail) > MaxTop

(* Give the last free block back if it is at the top and too large.  When  *)
(* it is the only one the list is emptied first, and brk is then called    *)
(* with an address below NULL and fails: the block stays below the break,  *)
(* tagged free but on no list.                                             *)
Cut(h) ==
  LET t == h.tail
      p == h.link[t].prev
  IN  IF ~TopTooLarge(h) THEN h
      ELSE IF h.head = t
        THEN [h EXCEPT !.head = Null, !.tail = Null, !.lost = @ \cup {t}]
        ELSE LET g == [h EXCEPT !.top = t - 1, !.tail = p,
                                !.link[p].next = Null]
             IN  Without(g, t, FootOf(h, t))

Entered(h, b) == IF h.head = Null THEN Insert(h, b)
                                  ELSE Coalesce(Insert(h, b), b)

Add(h, b) == Cut(Entered(h, b))
-----------------------------------------------------------------------------
(* AllocateBlock: split whenever there is room for header and foot.        *)
Bug_SplitsTooSmall(h, b, n, excess, fromFreeList) ==
  IF excess > 0
    THEN LET rest == b + n + 1
             g == Write(h, rest, excess - 1, Free)
         IN  IF fromFreeList THEN Use(Replace(g, b, rest), b, n)
                             ELSE Add(Use(g, b, n), rest)
    ELSE Use(IF fromFreeList THEN Remove(h, b) ELSE h, b, n)

(* allocate_block: make a block of what exceeds the request, if that is    *)
(* more than MinSplit, and leave it to the request otherwise.              *)
AllocateBlock(h, b, n, excess, fromFreeList) ==
  IF excess > MinSplit
    THEN LET rest == b + n + 1
             g == Write(h, rest, excess - 1, Free)
         IN  IF fromFreeList THEN Use(Replace(g, b, rest), b, n)
                             ELSE Add(Use(g, b, n), rest)
    ELSE Use(IF fromFreeList THEN Remove(h, b) ELSE h, b, n + excess)

(* get_largest_freeBlock, and allocate_worst_fit, which needs a block      *)
(* larger than the request.                                                *)
Largest(h) == Max({0} \cup {SizeOf(h, b) : b \in Listed(h)})

WorstFit(h, n) ==
  IF Largest(h) > n
    THEN First(h, {c \in Listed(h) : SizeOf(h, c) = Largest(h)})
    ELSE Null

(* NextFit: look above lastAllocated only.                                 *)
Bug_NoWrap(h, n) ==
  First(h, {c \in Listed(h) : c > lastAllocated /\ SizeOf(h, c) >= n})

(* allocate_next_fit: look above lastAllocated first, if that is below the *)
(* break, and then from the start up to it.                                *)
NextFit(h, n) ==
  LET fitting == {c \in Listed(h) : SizeOf(h, c) >= n}
      above   == IF lastAllocated # Null /\ lastAllocated <= h.top
                   THEN First(h, {c \in fitting : c > lastAllocated})
                   ELSE Null
  IN  IF above # Null THEN above
      ELSE First(h, {c \in fitting : c <= lastAllocated})

(* allocate_freeList: Null if there is no list or nothing on it fits.      *)
Fitting(h, n) == IF h.head = Null THEN Null
                 ELSE IF currentPolicy = "WORST" THEN WorstFit(h, n)
                                                 ELSE NextFit(h, n)

(* EndsFree: take the last node of the list for the end of the heap.       *)
Bug_TrustsTail(h) == h.head # Null

(* allocate_pBrk: extend the free block at the end of the heap, which is   *)
(* taken to be the last of the list, or put a block after the last one.    *)
EndsFree(h) == h.head # Null /\ h.foot[h.top].tag = Free

Grown(h, n) ==
  IF EndsFree(h)
    THEN LET g == [Remove(h, h.tail) EXCEPT
                     !.top = @ + (n + Excess) - h.foot[h.top].size,
                     !.foot = Drop(@, {h.top})]
         IN  AllocateBlock(g, h.tail, n, Excess, FALSE)
    ELSE AllocateBlock([h EXCEPT !.top = @ + 1 + n + Excess], h.top + 1, n,
                       Excess, FALSE)

(* sma_malloc: the block it returns and the heap it leaves.                *)
Block(h, n) == IF Fitting(h, n) # Null THEN Fitting(h, n)
               ELSE IF EndsFree(h) THEN h.tail ELSE h.top + 1

Allocated(h, n) ==
  IF Fitting(h, n) # Null
    THEN AllocateBlock(h, Fitting(h, n), n, SizeOf(h, Fitting(h, n)) - n, TRUE)
    ELSE Grown(h, n)
-----------------------------------------------------------------------------
Alive == [by |-> "none", size |-> 0]

(* sbrk fails; nobody tests that, and the header of the new block, or the  *)
(* foot of what is left of it, is written to no memory of the program.     *)
NoMemory(n) ==
  /\ Allocated(heap, n).top > MaxBreak
  /\ fault' = [by |-> "sbrk", size |-> n]
  /\ UNCHANGED <<heap, currentPolicy, lastAllocated, live>>

Init ==
  /\ heap = [header |-> <<>>, foot |-> <<>>, link |-> <<>>,
             head |-> Null, tail |-> Null, top |-> 0, lost |-> {}]
  /\ currentPolicy = "WORST"
  /\ lastAllocated = Null
  /\ live = <<>>
  /\ fault = Alive

Malloc(n) ==
  \/ NoMemory(n)
  \/ /\ Allocated(heap, n).top <= MaxBreak
     /\ heap' = Allocated(heap, n)
     /\ lastAllocated' = Block(heap, n)
     /\ live' = Put(live, Block(heap, n), n)
     /\ UNCHANGED <<currentPolicy, fault>>

(* What lies above the break is refused.                                   *)
FreeBlock(b) ==
  /\ b \in DOMAIN live /\ b <= heap.top
  /\ heap' = Add(heap, b)
  /\ live' = Drop(live, {b})
  /\ UNCHANGED <<currentPolicy, lastAllocated, fault>>

Mallopt(policy) ==
  /\ currentPolicy' = policy
  /\ UNCHANGED <<heap, lastAllocated, live, fault>>

(* sma_realloc with a size up to that of the block.                        *)
ReallocShrink(b, n) ==
  /\ b \in DOMAIN live /\ n <= SizeOf(heap, b)
  /\ heap' = IF n = SizeOf(heap, b) THEN heap
             ELSE AllocateBlock(heap, b, n, SizeOf(heap, b) - n, FALSE)
  /\ live' = Put(live, b, n)
  /\ UNCHANGED <<currentPolicy, lastAllocated, fault>>

(* A neighbour behind, or in front, is free and has what is missing.       *)
RoomBehind(h, b, extra) ==
  /\ After(h, b) <= h.top
  /\ h.header[After(h, b)].tag = Free
  /\ SizeOf(h, After(h, b)) >= extra

RoomInFront(h, b, extra) ==
  /\ h.head # Null /\ b > h.head
  /\ h.foot[b - 1].tag = Free
  /\ h.foot[b - 1].size >= extra

RoomBeside(h, b, n) == \/ RoomBehind(h, b, n - SizeOf(h, b))
                       \/ RoomInFront(h, b, n - SizeOf(h, b))

(* sma_realloc with more.  Beside a free neighbour that is large enough    *)
(* the block is to grow in place, but remove_block_freeList is called with *)
(* an address 4 bytes too low: it takes the neighbour's size for half of a *)
(* link and dies writing through it.                                       *)
ReallocInPlace(b, n) ==
  /\ b \in DOMAIN live /\ n > SizeOf(heap, b)
  /\ RoomBeside(heap, b, n)
  /\ fault' = [by |-> "link", size |-> n]
  /\ UNCHANGED <<heap, currentPolicy, lastAllocated, live>>

(* ReallocMove: the old block is never freed.                              *)
Bug_KeepsOld(b, n) ==
  /\ b \in DOMAIN live /\ n > SizeOf(heap, b)
  /\ ~RoomBeside(heap, b, n)
  /\ Allocated(heap, n).top <= MaxBreak
  /\ heap' = Allocated(heap, n)
  /\ lastAllocated' = Block(heap, n)
  /\ live' = Put(Drop(live, {b}), Block(heap, n), n)
  /\ UNCHANGED <<currentPolicy, fault>>

(* Otherwise it allocates another block, copies, and frees the old one.    *)
ReallocMove(b, n) ==
  /\ b \in DOMAIN live /\ n > SizeOf(heap, b)
  /\ ~RoomBeside(heap, b, n)
  /\ \/ NoMemory(n)
     \/ /\ Allocated(heap, n).top <= MaxBreak
        /\ heap' = Add(Allocated(heap, n), b)
        /\ lastAllocated' = Block(heap, n)
        /\ live' = Put(Drop(live, {b}), Block(heap, n), n)
        /\ UNCHANGED <<currentPolicy, fault>>
-----------------------------------------------------------------------------
Working == fault = Alive /\ (heap.lost = {} \/ PastLeak)

Next ==
  \/ Working /\ \E n \in Sizes : Malloc(n)
  \/ Working /\ \E b \in DOMAIN live : FreeBlock(b)
  \/ Working /\ \E policy \in {"WORST", "NEXT"} : Mallopt(policy)
  \/ Working /\ \E b \in DOMAIN live, n \in Sizes : ReallocShrink(b, n)
  \/ Working /\ \E b \in DOMAIN live, n \in Sizes : ReallocInPlace(b, n)
  \/ Working /\ \E b \in DOMAIN live, n \in Sizes : ReallocMove(b, n)
  \/ ~Working /\ UNCHANGED vars

Spec == Init /\ [][Next]_vars
=============================================================================
