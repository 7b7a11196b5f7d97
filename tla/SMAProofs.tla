------------------------------ MODULE SMAProofs ------------------------------
(***************************************************************************)
(* The structure of the allocator's heap, proved of every sequence of      *)
(* calls, for any sizes, policy and break.                                 *)
(***************************************************************************)
EXTENDS SMALemmas

(* The words of a heap: nothing else is in the record.                     *)
IsHeap(h) == h = [header |-> h.header, foot |-> h.foot, link |-> h.link,
                  head |-> h.head, tail |-> h.tail, top |-> h.top,
                  lost |-> h.lost]

(* Writing one of them leaves the others.                                  *)
LEMMA SetWord ==
  ASSUME NEW h, IsHeap(h), NEW x
  PROVE  /\ [h EXCEPT !.header = x] =
              [header |-> x, foot |-> h.foot, link |-> h.link, head |-> h.head,
               tail |-> h.tail, top |-> h.top, lost |-> h.lost]
         /\ [h EXCEPT !.foot = x] =
              [header |-> h.header, foot |-> x, link |-> h.link, head |-> h.head,
               tail |-> h.tail, top |-> h.top, lost |-> h.lost]
         /\ [h EXCEPT !.link = x] =
              [header |-> h.header, foot |-> h.foot, link |-> x, head |-> h.head,
               tail |-> h.tail, top |-> h.top, lost |-> h.lost]
         /\ [h EXCEPT !.head = x] =
              [header |-> h.header, foot |-> h.foot, link |-> h.link, head |-> x,
               tail |-> h.tail, top |-> h.top, lost |-> h.lost]
         /\ [h EXCEPT !.tail = x] =
              [header |-> h.header, foot |-> h.foot, link |-> h.link, head |-> h.head,
               tail |-> x, top |-> h.top, lost |-> h.lost]
         /\ [h EXCEPT !.top = x] =
              [header |-> h.header, foot |-> h.foot, link |-> h.link, head |-> h.head,
               tail |-> h.tail, top |-> x, lost |-> h.lost]
         /\ [h EXCEPT !.lost = x] =
              [header |-> h.header, foot |-> h.foot, link |-> h.link, head |-> h.head,
               tail |-> h.tail, top |-> h.top, lost |-> x]
<1>1. ASSUME NEW a, NEW b, NEW c, NEW d, NEW e, NEW f, NEW g,
             h = [header |-> a, foot |-> b, link |-> c, head |-> d,
                  tail |-> e, top |-> f, lost |-> g]
      PROVE  /\ [h EXCEPT !.header = x] =
                  [header |-> x, foot |-> b, link |-> c, head |-> d,
                   tail |-> e, top |-> f, lost |-> g]
             /\ [h EXCEPT !.foot = x] =
                  [header |-> a, foot |-> x, link |-> c, head |-> d,
                   tail |-> e, top |-> f, lost |-> g]
             /\ [h EXCEPT !.link = x] =
                  [header |-> a, foot |-> b, link |-> x, head |-> d,
                   tail |-> e, top |-> f, lost |-> g]
             /\ [h EXCEPT !.head = x] =
                  [header |-> a, foot |-> b, link |-> c, head |-> x,
                   tail |-> e, top |-> f, lost |-> g]
             /\ [h EXCEPT !.tail = x] =
                  [header |-> a, foot |-> b, link |-> c, head |-> d,
                   tail |-> x, top |-> f, lost |-> g]
             /\ [h EXCEPT !.top = x] =
                  [header |-> a, foot |-> b, link |-> c, head |-> d,
                   tail |-> e, top |-> x, lost |-> g]
             /\ [h EXCEPT !.lost = x] =
                  [header |-> a, foot |-> b, link |-> c, head |-> d,
                   tail |-> e, top |-> f, lost |-> x]
  BY <1>1
<1>2. h = [header |-> h.header, foot |-> h.foot, link |-> h.link,
           head |-> h.head, tail |-> h.tail, top |-> h.top, lost |-> h.lost]
  BY DEF IsHeap
<1> QED BY <1>1, <1>2, Zenon

(* Put changes a function at one argument, which it adds if need be.       *)
LEMMA PutIs ==
  \A f, x, v : /\ \A y : y \in DOMAIN Put(f, x, v) <=> y \in DOMAIN f \/ y = x
               /\ Put(f, x, v)[x] = v
               /\ \A y \in DOMAIN f : y # x => Put(f, x, v)[y] = f[y]
BY DEF Put

(* Drop takes arguments out of a function and keeps the rest.              *)
LEMMA DropIs ==
  \A f, S : /\ \A y : y \in DOMAIN Drop(f, S) <=> y \in DOMAIN f /\ y \notin S
            /\ \A y \in DOMAIN f : y \notin S => Drop(f, S)[y] = f[y]
BY DEF Drop, Restrict

(* Write changes one header and the foot that belongs to it, and nothing   *)
(* else.                                                                   *)
LEMMA WriteIs ==
  ASSUME NEW h, IsHeap(h), NEW b, NEW n, NEW tag,
         NEW g, g = Write(h, b, n, tag)
  PROVE  /\ IsHeap(g)
         /\ g.header = Put(h.header, b, [size |-> n, tag |-> tag])
         /\ g.foot = Put(h.foot, b + n, [size |-> n, tag |-> tag])
         /\ g.link = h.link /\ g.head = h.head /\ g.tail = h.tail
         /\ g.top = h.top /\ g.lost = h.lost
<1>0. PICK w : w = [size |-> n, tag |-> tag]
  OBVIOUS
<1>1. PICK k : k = [h EXCEPT !.header = Put(h.header, b, w)]
  OBVIOUS
<1>2. g = [k EXCEPT !.foot = Put(h.foot, b + n, w)]
  BY <1>0, <1>1, Zenon DEF Write
<1>3. k = [header |-> Put(h.header, b, w), foot |-> h.foot, link |-> h.link,
           head |-> h.head, tail |-> h.tail, top |-> h.top, lost |-> h.lost]
  BY <1>1, SetWord, Zenon
<1>4. IsHeap(k)
  BY <1>3 DEF IsHeap
<1>5. g = [header |-> k.header, foot |-> Put(h.foot, b + n, w), link |-> k.link,
           head |-> k.head, tail |-> k.tail, top |-> k.top, lost |-> k.lost]
  BY <1>2, <1>4, SetWord, Zenon
<1> QED BY <1>0, <1>3, <1>5 DEF IsHeap

(* The links of a heap are nodes, and none is at Null.                     *)
Chained(link) == Null \notin DOMAIN link /\ \A b \in DOMAIN link : IsNode(link[b])

(* Writing one link of a node leaves its other link and every other node.  *)
LEMMA NodeSet ==
  ASSUME NEW link, NEW b \in DOMAIN link, IsNode(link[b]), NEW c
  PROVE  /\ LET l == [link EXCEPT ![b].next = c]
            IN  /\ DOMAIN l = DOMAIN link
                /\ l[b] = [prev |-> link[b].prev, next |-> c]
                /\ \A y \in DOMAIN link \ {b} : l[y] = link[y]
         /\ LET l == [link EXCEPT ![b].prev = c]
            IN  /\ DOMAIN l = DOMAIN link
                /\ l[b] = [prev |-> c, next |-> link[b].next]
                /\ \A y \in DOMAIN link \ {b} : l[y] = link[y]
<1>1. PICK n : n = link[b].next
  OBVIOUS
<1>2. PICK p : p = link[b].prev
  OBVIOUS
<1>3. PICK m : m = link[b]
  OBVIOUS
<1>4. m = [prev |-> p, next |-> n]
  BY <1>1, <1>2, <1>3 DEF IsNode
<1>5. [m EXCEPT !.next = c] = [prev |-> p, next |-> c]
  BY <1>4
<1>6. [m EXCEPT !.prev = c] = [prev |-> c, next |-> n]
  BY <1>4
<1>7. [link EXCEPT ![b].next = c] = [link EXCEPT ![b] = [prev |-> p, next |-> c]]
  BY <1>3, <1>5, Zenon
<1>8. [link EXCEPT ![b].prev = c] = [link EXCEPT ![b] = [prev |-> c, next |-> n]]
  BY <1>3, <1>6, Zenon
<1> QED BY <1>1, <1>2, <1>7, <1>8, Zenon

(* SetNext and SetPrev write one link, or one end of the list.             *)
NextWritten(g, h, b, c) ==
  /\ IsHeap(g) /\ Chained(g.link)
  /\ g.header = h.header /\ g.foot = h.foot
  /\ DOMAIN g.link = DOMAIN h.link
  /\ \A y \in DOMAIN h.link :
       /\ g.link[y].next = IF y = b THEN c ELSE h.link[y].next
       /\ g.link[y].prev = h.link[y].prev
  /\ g.head = (IF b = Null THEN c ELSE h.head) /\ g.tail = h.tail
  /\ g.top = h.top /\ g.lost = h.lost

PrevWritten(g, h, b, c) ==
  /\ IsHeap(g) /\ Chained(g.link)
  /\ g.header = h.header /\ g.foot = h.foot
  /\ DOMAIN g.link = DOMAIN h.link
  /\ \A y \in DOMAIN h.link :
       /\ g.link[y].prev = IF y = b THEN c ELSE h.link[y].prev
       /\ g.link[y].next = h.link[y].next
  /\ g.tail = (IF b = Null THEN c ELSE h.tail) /\ g.head = h.head
  /\ g.top = h.top /\ g.lost = h.lost

(* SetNext writes the next link of b, or the head if there is no b.        *)
LEMMA SetNextIs ==
  ASSUME NEW h, IsHeap(h), Chained(h.link),
         NEW b, b = Null \/ b \in DOMAIN h.link, NEW c,
         NEW g, g = SetNext(h, b, c)
  PROVE  NextWritten(g, h, b, c)
<1>1. CASE b = Null
  <2>1. g = [header |-> h.header, foot |-> h.foot, link |-> h.link, head |-> c,
             tail |-> h.tail, top |-> h.top, lost |-> h.lost]
    BY <1>1, SetWord, Zenon DEF SetNext
  <2> QED BY <1>1, <2>1 DEF NextWritten, IsHeap, Chained
<1>2. CASE b # Null
  <2>1. PICK l : l = [h.link EXCEPT ![b].next = c]
    OBVIOUS
  <2>2. g = [h EXCEPT !.link = l]
    BY <1>2, <2>1, Zenon DEF SetNext
  <2>3. g = [header |-> h.header, foot |-> h.foot, link |-> l, head |-> h.head,
             tail |-> h.tail, top |-> h.top, lost |-> h.lost]
    BY <2>2, SetWord, Zenon
  <2>4. /\ DOMAIN l = DOMAIN h.link
        /\ l[b] = [prev |-> h.link[b].prev, next |-> c]
        /\ \A y \in DOMAIN h.link \ {b} : l[y] = h.link[y]
    BY <1>2, <2>1, NodeSet, Zenon DEF Chained
  <2> QED BY <1>2, <2>3, <2>4 DEF NextWritten, IsHeap, Chained, IsNode
<1> QED BY <1>1, <1>2

(* SetPrev writes the previous link of b, or the tail if there is no b.    *)
LEMMA SetPrevIs ==
  ASSUME NEW h, IsHeap(h), Chained(h.link),
         NEW b, b = Null \/ b \in DOMAIN h.link, NEW c,
         NEW g, g = SetPrev(h, b, c)
  PROVE  PrevWritten(g, h, b, c)
<1>1. CASE b = Null
  <2>1. g = [header |-> h.header, foot |-> h.foot, link |-> h.link,
             head |-> h.head, tail |-> c, top |-> h.top, lost |-> h.lost]
    BY <1>1, SetWord, Zenon DEF SetPrev
  <2> QED BY <1>1, <2>1 DEF PrevWritten, IsHeap, Chained
<1>2. CASE b # Null
  <2>1. PICK l : l = [h.link EXCEPT ![b].prev = c]
    OBVIOUS
  <2>2. g = [h EXCEPT !.link = l]
    BY <1>2, <2>1, Zenon DEF SetPrev
  <2>3. g = [header |-> h.header, foot |-> h.foot, link |-> l, head |-> h.head,
             tail |-> h.tail, top |-> h.top, lost |-> h.lost]
    BY <2>2, SetWord, Zenon
  <2>4. /\ DOMAIN l = DOMAIN h.link
        /\ l[b] = [prev |-> c, next |-> h.link[b].next]
        /\ \A y \in DOMAIN h.link \ {b} : l[y] = h.link[y]
    BY <1>2, <2>1, NodeSet, Zenon DEF Chained
  <2> QED BY <1>2, <2>3, <2>4 DEF PrevWritten, IsHeap, Chained, IsNode
<1> QED BY <1>1, <1>2

(* Nothing but the free list differs between two heaps.                    *)
SameBlocks(g, h) == /\ IsHeap(g) /\ g.header = h.header /\ g.foot = h.foot
                    /\ g.top = h.top /\ g.lost = h.lost

(* What a node hung between two others changes, and one taken off.         *)
Hung(g, h, b, before, after) ==
  /\ SameBlocks(g, h) /\ Chained(g.link)
  /\ \A y : y \in DOMAIN g.link <=> y \in DOMAIN h.link \/ y = b
  /\ g.link[b] = [prev |-> before, next |-> after]
  /\ \A c \in DOMAIN h.link :
       /\ g.link[c].prev = IF c = after THEN b ELSE h.link[c].prev
       /\ g.link[c].next = IF c = before THEN b ELSE h.link[c].next
  /\ g.head = IF before = Null THEN b ELSE h.head
  /\ g.tail = IF after = Null THEN b ELSE h.tail

Unhung(g, h, b, before, after) ==
  /\ SameBlocks(g, h) /\ Chained(g.link)
  /\ \A y : y \in DOMAIN g.link <=> y \in DOMAIN h.link /\ y # b
  /\ \A c \in DOMAIN g.link :
       /\ g.link[c].prev = IF c = after THEN before ELSE h.link[c].prev
       /\ g.link[c].next = IF c = before THEN after ELSE h.link[c].next
  /\ g.head = IF before = Null THEN after ELSE h.head
  /\ g.tail = IF after = Null THEN before ELSE h.tail

(* Hang adds a node for b and makes its neighbours, or head and tail,      *)
(* point to it.                                                            *)
LEMMA HangIs ==
  ASSUME NEW h, IsHeap(h), Chained(h.link),
         NEW b, b # Null, b \notin DOMAIN h.link,
         NEW before \in DOMAIN h.link \cup {Null},
         NEW after \in DOMAIN h.link \cup {Null},
         NEW g, g = Hang(h, b, before, after)
  PROVE  Hung(g, h, b, before, after)
<1>0. PICK v : v = [prev |-> before, next |-> after]
  OBVIOUS
<1>1. PICK l : l = Put(h.link, b, v)
  OBVIOUS
<1>2. /\ DOMAIN l = DOMAIN h.link \cup {b}
      /\ l[b] = [prev |-> before, next |-> after]
      /\ \A c \in DOMAIN h.link : l[c] = h.link[c]
  <2>1. \A y : y \in DOMAIN l <=> y \in DOMAIN h.link \/ y = b
    BY <1>1, PutIs
  <2>2. l[b] = v /\ \A c \in DOMAIN h.link : c # b => l[c] = h.link[c]
    BY <1>1, PutIs
  <2> QED BY <2>1, <2>2, <1>0
<1>3. PICK k : k = [h EXCEPT !.link = l]
  OBVIOUS
<1>4. k = [header |-> h.header, foot |-> h.foot, link |-> l, head |-> h.head,
           tail |-> h.tail, top |-> h.top, lost |-> h.lost]
  BY <1>3, SetWord, Zenon
<1>5. IsHeap(k) /\ Chained(k.link) /\ k.link = l
  BY <1>2, <1>4 DEF IsHeap, Chained, IsNode
<1>6. PICK m : m = SetNext(k, before, b)
  OBVIOUS
<1>7. NextWritten(m, k, before, b)
  <2>1. before = Null \/ before \in DOMAIN k.link
    BY <1>2, <1>5
  <2> QED BY <2>1, <1>5, <1>6, SetNextIs
<1>8. IsHeap(m) /\ Chained(m.link) /\ DOMAIN m.link = DOMAIN l
  BY <1>5, <1>7 DEF NextWritten
<1>9. PrevWritten(g, m, after, b)
  <2>1. after = Null \/ after \in DOMAIN m.link
    BY <1>2, <1>8
  <2>2. g = SetPrev(m, after, b)
    BY <1>0, <1>1, <1>3, <1>6, Zenon DEF Hang
  <2> QED BY <2>1, <2>2, <1>8, SetPrevIs
<1>10. /\ SameBlocks(g, h) /\ Chained(g.link)
       /\ DOMAIN g.link = DOMAIN l
       /\ \A c \in DOMAIN l :
            /\ g.link[c].prev = IF c = after THEN b ELSE l[c].prev
            /\ g.link[c].next = IF c = before THEN b ELSE l[c].next
       /\ g.head = IF before = Null THEN b ELSE h.head
       /\ g.tail = IF after = Null THEN b ELSE h.tail
  BY <1>4, <1>5, <1>7, <1>9 DEF NextWritten, PrevWritten, SameBlocks
<1>11. g.link[b] = [prev |-> before, next |-> after]
  <2>1. b # before /\ b # after
    OBVIOUS
  <2>2. g.link[b].prev = before /\ g.link[b].next = after
    BY <2>1, <1>2, <1>10
  <2>3. IsNode(g.link[b])
    BY <1>2, <1>10 DEF Chained
  <2> QED BY <2>2, <2>3 DEF IsNode
<1> QED BY <1>2, <1>10, <1>11 DEF Hung

(* The list stays in order if b is hung between its neighbours by address. *)
LEMMA HungLinked ==
  ASSUME NEW h, NEW F, F \subseteq Nat \ {0},
         Linked(h.link, h.head, h.tail, F),
         NEW b \in Nat \ {0}, b \notin F,
         NEW before, IsPrev(F, b, before), NEW after, IsNext(F, b, after),
         NEW g, Hung(g, h, b, before, after),
         NEW G, \A c : c \in G <=> c \in F \/ c = b
  PROVE  Linked(g.link, g.head, g.tail, G)
<1>1. PICK l : l = g.link
  OBVIOUS
<1>2. PICK m : m = h.link
  OBVIOUS
<1>3. DOMAIN m = F
  BY <1>2 DEF Linked
<1>4. /\ DOMAIN l = G
      /\ IsNode(l[b]) /\ l[b].prev = before /\ l[b].next = after
  <2>1. \A c : c \in DOMAIN l <=> c \in G
    BY <1>1, <1>2, <1>3 DEF Hung
  <2>2. l[b] = [prev |-> before, next |-> after]
    BY <1>1 DEF Hung
  <2> QED BY <2>1, <2>2 DEF IsNode
<1>5. \A c \in F : /\ IsNode(l[c])
                   /\ l[c].prev = IF c = after THEN b ELSE m[c].prev
                   /\ l[c].next = IF c = before THEN b ELSE m[c].next
  BY <1>1, <1>2, <1>3 DEF Hung, Chained
<1>6. PICK hd : hd = h.head
  OBVIOUS
<1>7. PICK tl : tl = h.tail
  OBVIOUS
<1>8. PICK hd2 : hd2 = g.head
  OBVIOUS
<1>9. PICK tl2 : tl2 = g.tail
  OBVIOUS
<1>10. /\ hd2 = IF before = Null THEN b ELSE hd
       /\ tl2 = IF after = Null THEN b ELSE tl
       /\ Linked(m, hd, tl, F)
  BY <1>2, <1>6, <1>7, <1>8, <1>9 DEF Hung
<1>11. Linked(l, hd2, tl2, G)
  <2>1. HungIn(l, hd2, tl2, G, m, hd, tl, F, b, before, after)
    BY <1>4, <1>5, <1>10 DEF HungIn
  <2> QED BY <2>1, <1>10, LinkedHung
<1> QED BY <1>1, <1>8, <1>9, <1>11

(* remove_block_freeList joins the neighbours of the block it takes out.   *)
LEMMA RemoveIs ==
  ASSUME NEW h, IsHeap(h), Chained(h.link), NEW b \in DOMAIN h.link,
         NEW before, before = h.link[b].prev, before # b,
         before = Null \/ before \in DOMAIN h.link,
         NEW after, after = h.link[b].next, after # b,
         after = Null \/ after \in DOMAIN h.link,
         NEW g, g = Remove(h, b)
  PROVE  Unhung(g, h, b, before, after)
<1>1. PICK k : k = SetNext(h, before, after)
  OBVIOUS
<1>2. NextWritten(k, h, before, after)
  BY <1>1, SetNextIs
<1>3. PICK m : m = SetPrev(k, after, before)
  OBVIOUS
<1>4. PrevWritten(m, k, after, before)
  <2>1. IsHeap(k) /\ Chained(k.link) /\ (after = Null \/ after \in DOMAIN k.link)
    BY <1>2 DEF NextWritten
  <2> QED BY <2>1, <1>3, SetPrevIs
<1>5. PICK l : l = Drop(m.link, {b})
  OBVIOUS
<1>6. g = [m EXCEPT !.link = l]
  BY <1>1, <1>3, <1>5, Zenon DEF Remove
<1>7. IsHeap(m)
  BY <1>4 DEF PrevWritten
<1>8. g = [header |-> m.header, foot |-> m.foot, link |-> l,
           head |-> m.head, tail |-> m.tail, top |-> m.top, lost |-> m.lost]
  BY <1>6, <1>7, SetWord, Zenon
<1>9. /\ \A y : y \in DOMAIN l <=> y \in DOMAIN m.link /\ y # b
      /\ \A y \in DOMAIN m.link : y # b => l[y] = m.link[y]
  BY <1>5, DropIs
<1>10. /\ g.link = l /\ g.head = m.head /\ g.tail = m.tail
       /\ IsHeap(g) /\ g.header = m.header /\ g.foot = m.foot
       /\ g.top = m.top /\ g.lost = m.lost
  BY <1>8 DEF IsHeap
<1>11. SameBlocks(g, h)
  BY <1>2, <1>4, <1>10 DEF SameBlocks, NextWritten, PrevWritten
<1>12. Chained(g.link)
  BY <1>4, <1>9, <1>10 DEF PrevWritten, Chained
<1>13. /\ \A y : y \in DOMAIN l <=> y \in DOMAIN h.link /\ y # b
       /\ \A c \in DOMAIN l :
            /\ l[c].prev = IF c = after THEN before ELSE h.link[c].prev
            /\ l[c].next = IF c = before THEN after ELSE h.link[c].next
       /\ m.head = IF before = Null THEN after ELSE h.head
       /\ m.tail = IF after = Null THEN before ELSE h.tail
  BY <1>2, <1>4, <1>9 DEF NextWritten, PrevWritten
<1> QED BY <1>10, <1>11, <1>12, <1>13 DEF Unhung

(* Three of them at once, in the two orders the model writes them in.      *)
LEMMA SetBlocks ==
  ASSUME NEW h, IsHeap(h), NEW x, NEW y, NEW z
  PROVE  /\ [h EXCEPT !.header = x, !.foot = y, !.link = z] =
              [header |-> x, foot |-> y, link |-> z, head |-> h.head,
               tail |-> h.tail, top |-> h.top, lost |-> h.lost]
         /\ [h EXCEPT !.header = x, !.link = z, !.foot = y] =
              [header |-> x, foot |-> y, link |-> z, head |-> h.head,
               tail |-> h.tail, top |-> h.top, lost |-> h.lost]
<1>1. PICK k : k = [h EXCEPT !.header = x]
  OBVIOUS
<1>2. k = [header |-> x, foot |-> h.foot, link |-> h.link, head |-> h.head,
           tail |-> h.tail, top |-> h.top, lost |-> h.lost]
  BY <1>1, SetWord, Zenon
<1>3. IsHeap(k)
  BY <1>2 DEF IsHeap
<1>4. PICK l : l = [k EXCEPT !.foot = y]
  OBVIOUS
<1>5. l = [header |-> k.header, foot |-> y, link |-> k.link, head |-> k.head,
           tail |-> k.tail, top |-> k.top, lost |-> k.lost]
  BY <1>3, <1>4, SetWord, Zenon
<1>6. IsHeap(l)
  BY <1>5 DEF IsHeap
<1>7. PICK m : m = [k EXCEPT !.link = z]
  OBVIOUS
<1>8. m = [header |-> k.header, foot |-> k.foot, link |-> z, head |-> k.head,
           tail |-> k.tail, top |-> k.top, lost |-> k.lost]
  BY <1>3, <1>7, SetWord, Zenon
<1>9. IsHeap(m)
  BY <1>8 DEF IsHeap
<1>10. [l EXCEPT !.link = z] =
          [header |-> l.header, foot |-> l.foot, link |-> z, head |-> l.head,
           tail |-> l.tail, top |-> l.top, lost |-> l.lost]
  BY <1>6, SetWord, Zenon
<1>11. [m EXCEPT !.foot = y] =
          [header |-> m.header, foot |-> y, link |-> m.link, head |-> m.head,
           tail |-> m.tail, top |-> m.top, lost |-> m.lost]
  BY <1>9, SetWord, Zenon
<1>12. [h EXCEPT !.header = x, !.foot = y, !.link = z] = [l EXCEPT !.link = z]
  BY <1>1, <1>4, Zenon
<1>13. [h EXCEPT !.header = x, !.link = z, !.foot = y] = [m EXCEPT !.foot = y]
  BY <1>1, <1>7, Zenon
<1>14. [l EXCEPT !.link = z] =
          [header |-> x, foot |-> y, link |-> z, head |-> h.head,
           tail |-> h.tail, top |-> h.top, lost |-> h.lost]
  BY <1>2, <1>5, <1>10
<1>15. [m EXCEPT !.foot = y] =
          [header |-> x, foot |-> y, link |-> z, head |-> h.head,
           tail |-> h.tail, top |-> h.top, lost |-> h.lost]
  BY <1>2, <1>8, <1>11
<1> QED BY <1>12, <1>13, <1>14, <1>15, Zenon

(* Use leaves the words of one block: a header in front, a foot behind,    *)
(* nothing between.                                                        *)
LEMMA UseIs ==
  ASSUME NEW h, IsHeap(h), NEW b, NEW n, NEW g, g = Use(h, b, n)
  PROVE  /\ IsHeap(g)
         /\ g.header = Put(Drop(h.header, b + 1 .. b + n), b,
                           [size |-> n, tag |-> Used])
         /\ g.foot = Put(Drop(h.foot, b .. b + n - 1), b + n,
                         [size |-> n, tag |-> Used])
         /\ g.link = Drop(h.link, b .. b + n - 1)
         /\ g.head = h.head /\ g.tail = h.tail
         /\ g.top = h.top /\ g.lost = h.lost
<1>1. PICK hd : hd = Drop(h.header, b + 1 .. b + n)
  OBVIOUS
<1>2. PICK ft : ft = Drop(h.foot, b .. b + n - 1)
  OBVIOUS
<1>3. PICK ln : ln = Drop(h.link, b .. b + n - 1)
  OBVIOUS
<1>4. PICK k : k = [h EXCEPT !.header = hd, !.foot = ft, !.link = ln]
  OBVIOUS
<1>5. g = Write(k, b, n, Used)
  BY <1>1, <1>2, <1>3, <1>4, Zenon DEF Use
<1>8. k = [header |-> hd, foot |-> ft, link |-> ln, head |-> h.head,
           tail |-> h.tail, top |-> h.top, lost |-> h.lost]
  BY <1>4, SetBlocks, Zenon
<1>9. /\ IsHeap(k) /\ k.header = hd /\ k.foot = ft /\ k.link = ln
      /\ k.head = h.head /\ k.tail = h.tail /\ k.top = h.top /\ k.lost = h.lost
  BY <1>8 DEF IsHeap
<1>10. /\ IsHeap(g)
       /\ g.header = Put(k.header, b, [size |-> n, tag |-> Used])
       /\ g.foot = Put(k.foot, b + n, [size |-> n, tag |-> Used])
       /\ g.link = k.link /\ g.head = k.head /\ g.tail = k.tail
       /\ g.top = k.top /\ g.lost = k.lost
  BY <1>5, <1>9, WriteIs
<1> QED BY <1>1, <1>2, <1>3, <1>9, <1>10, Zenon

(* The size in one entry.                                                  *)
SizeAt(f, b, n) == [f EXCEPT ![b].size = n]

(* Writing a size keeps the tag of the word and all other words.           *)
LEMMA SizeAtIs ==
  ASSUME NEW f, NEW b \in DOMAIN f, IsWord(f[b]), NEW n
  PROVE  /\ DOMAIN SizeAt(f, b, n) = DOMAIN f
         /\ SizeAt(f, b, n)[b] = [size |-> n, tag |-> f[b].tag]
         /\ \A y \in DOMAIN f \ {b} : SizeAt(f, b, n)[y] = f[y]
<1>1. PICK s : s = f[b].size
  OBVIOUS
<1>2. PICK t : t = f[b].tag
  OBVIOUS
<1>3. PICK m : m = f[b]
  OBVIOUS
<1>4. m = [size |-> s, tag |-> t]
  BY <1>1, <1>2, <1>3 DEF IsWord
<1>5. [m EXCEPT !.size = n] = [size |-> n, tag |-> t]
  BY <1>4
<1>6. SizeAt(f, b, n) = [f EXCEPT ![b] = [size |-> n, tag |-> t]]
  BY <1>3, <1>5, Zenon DEF SizeAt
<1> QED BY <1>2, <1>6, Zenon

(* Resize writes one size to a header and to a foot.                       *)
LEMMA ResizeIs ==
  ASSUME NEW h, IsHeap(h), NEW b, NEW n, NEW g, g = Resize(h, b, n)
  PROVE  /\ IsHeap(g)
         /\ g.header = SizeAt(h.header, b, n) /\ g.foot = SizeAt(h.foot, b + n, n)
         /\ g.link = h.link /\ g.head = h.head /\ g.tail = h.tail
         /\ g.top = h.top /\ g.lost = h.lost
<1>1. PICK hd : hd = SizeAt(h.header, b, n)
  OBVIOUS
<1>2. PICK ft : ft = SizeAt(h.foot, b + n, n)
  OBVIOUS
<1>3. PICK k : k = [h EXCEPT !.header = hd]
  OBVIOUS
<1>4. k = [header |-> hd, foot |-> h.foot, link |-> h.link, head |-> h.head,
           tail |-> h.tail, top |-> h.top, lost |-> h.lost]
  BY <1>3, SetWord, Zenon
<1>5. IsHeap(k)
  BY <1>4 DEF IsHeap
<1>6. g = [k EXCEPT !.foot = ft]
  BY <1>1, <1>2, <1>3, Zenon DEF Resize, SizeAt
<1>7. g = [header |-> k.header, foot |-> ft, link |-> k.link, head |-> k.head,
           tail |-> k.tail, top |-> k.top, lost |-> k.lost]
  BY <1>5, <1>6, SetWord, Zenon
<1> QED BY <1>1, <1>2, <1>4, <1>7 DEF IsHeap

Dropped(g, h, b, f) ==
  /\ IsHeap(g) /\ g.head = h.head /\ g.tail = h.tail
  /\ g.top = h.top /\ g.lost = h.lost
  /\ \A y : y \in DOMAIN g.header <=> y \in DOMAIN h.header /\ y # b
  /\ \A y \in DOMAIN h.header : y # b => g.header[y] = h.header[y]
  /\ \A y : y \in DOMAIN g.link <=> y \in DOMAIN h.link /\ y # b
  /\ \A y \in DOMAIN h.link : y # b => g.link[y] = h.link[y]
  /\ \A y : y \in DOMAIN g.foot <=> y \in DOMAIN h.foot /\ y # f
  /\ \A y \in DOMAIN h.foot : y # f => g.foot[y] = h.foot[y]

(* Without takes a header, a node and a foot away.                         *)
LEMMA WithoutIs ==
  ASSUME NEW h, IsHeap(h), NEW b, NEW f, NEW g, g = Without(h, b, f)
  PROVE  Dropped(g, h, b, f)
<1>1. PICK x : x = Drop(h.header, {b})
  OBVIOUS
<1>2. PICK y : y = Drop(h.foot, {f})
  OBVIOUS
<1>3. PICK z : z = Drop(h.link, {b})
  OBVIOUS
<1>4. g = [h EXCEPT !.header = x, !.link = z, !.foot = y]
  BY <1>1, <1>2, <1>3, Zenon DEF Without
<1>5. g = [header |-> x, foot |-> y, link |-> z, head |-> h.head,
           tail |-> h.tail, top |-> h.top, lost |-> h.lost]
  BY <1>4, SetBlocks, Zenon
<1>6. /\ \A z1 : z1 \in DOMAIN x <=> z1 \in DOMAIN h.header /\ z1 # b
      /\ \A z1 \in DOMAIN h.header : z1 # b => x[z1] = h.header[z1]
  BY <1>1, DropIs
<1>7. /\ \A z1 : z1 \in DOMAIN y <=> z1 \in DOMAIN h.foot /\ z1 # f
      /\ \A z1 \in DOMAIN h.foot : z1 # f => y[z1] = h.foot[z1]
  BY <1>2, DropIs
<1>8. /\ \A z1 : z1 \in DOMAIN z <=> z1 \in DOMAIN h.link /\ z1 # b
      /\ \A z1 \in DOMAIN h.link : z1 # b => z[z1] = h.link[z1]
  BY <1>3, DropIs
<1> QED BY <1>5, <1>6, <1>7, <1>8 DEF IsHeap, Dropped

(* What merging two blocks writes: the size of the front one, and the link *)
(* around the back one.                                                    *)
Merged(g, h, front, back, n, after) ==
  /\ IsHeap(g) /\ g.top = h.top /\ g.lost = h.lost
  /\ \A y : y \in DOMAIN g.header <=> y \in DOMAIN h.header /\ y # back
  /\ g.header[front] = [size |-> n, tag |-> h.header[front].tag]
  /\ \A y \in DOMAIN g.header : y # front => g.header[y] = h.header[y]
  /\ \A y : y \in DOMAIN g.foot <=> y \in DOMAIN h.foot /\ y # back - 1
  /\ g.foot[front + n] = [size |-> n, tag |-> h.foot[front + n].tag]
  /\ \A y \in DOMAIN g.foot : y # front + n => g.foot[y] = h.foot[y]
  /\ Chained(g.link)
  /\ \A y : y \in DOMAIN g.link <=> y \in DOMAIN h.link /\ y # back
  /\ \A c \in DOMAIN g.link :
       /\ g.link[c].prev = IF c = after THEN front ELSE h.link[c].prev
       /\ g.link[c].next = IF c = front THEN after ELSE h.link[c].next
  /\ g.head = h.head
  /\ g.tail = IF back = h.tail THEN front ELSE h.tail

(* What merge_with_front writes: the size in both tags of the front block, *)
(* the links around the back one, which disappears.                        *)
LEMMA MergeIs ==
  ASSUME NEW h, IsHeap(h), Chained(h.link),
         NEW front \in DOMAIN h.header, NEW back, front # back,
         IsWord(h.header[front]), front \in DOMAIN h.link,
         NEW n, n = SizeOf(h, front) + 1 + SizeOf(h, back),
         front + n \in DOMAIN h.foot, IsWord(h.foot[front + n]),
         front + n # back - 1,
         NEW after, after = h.link[back].next,
         after = Null \/ after \in DOMAIN h.link,
         back = h.tail <=> after = Null,
         NEW g, g = Merge(h, front, back)
  PROVE  Merged(g, h, front, back, n, after)
<1>1. PICK k : k = Resize(h, front, n)
  OBVIOUS
<1>2. /\ IsHeap(k) /\ k.header = SizeAt(h.header, front, n)
      /\ k.foot = SizeAt(h.foot, front + n, n) /\ k.link = h.link
      /\ k.head = h.head /\ k.tail = h.tail /\ k.top = h.top /\ k.lost = h.lost
  BY <1>1, ResizeIs
<1>3. /\ DOMAIN k.header = DOMAIN h.header
      /\ k.header[front] = [size |-> n, tag |-> h.header[front].tag]
      /\ \A y \in DOMAIN h.header \ {front} : k.header[y] = h.header[y]
  BY <1>2, SizeAtIs
<1>4. PICK x : x = front + n
  OBVIOUS
<1>5. PICK z : z = back - 1
  OBVIOUS
<1>6. /\ DOMAIN k.foot = DOMAIN h.foot
      /\ k.foot[x] = [size |-> n, tag |-> h.foot[x].tag]
      /\ \A y \in DOMAIN h.foot \ {x} : k.foot[y] = h.foot[y]
  BY <1>2, <1>4, SizeAtIs
<1>7. PICK m : m = SetNext(k, front, after)
  OBVIOUS
<1>8. NextWritten(m, k, front, after)
  BY <1>2, <1>7, SetNextIs
<1>9. PICK at : at = IF back = h.tail THEN Null ELSE after
  OBVIOUS
<1>10. at = after
  BY <1>9
<1>11. PICK l : l = SetPrev(m, at, front)
  OBVIOUS
<1>12. PrevWritten(l, m, after, front)
  <2>1. IsHeap(m) /\ Chained(m.link) /\ (after = Null \/ after \in DOMAIN m.link)
    BY <1>2, <1>8 DEF NextWritten
  <2> QED BY <2>1, <1>10, <1>11, SetPrevIs
<1>13. g = Without(l, back, z)
  BY <1>1, <1>5, <1>7, <1>9, <1>11 DEF Merge
<1>14. Dropped(g, l, back, z)
  <2>1. IsHeap(l)
    BY <1>12 DEF PrevWritten
  <2> QED BY <2>1, <1>13, WithoutIs
<1>15. /\ IsHeap(g) /\ g.top = h.top /\ g.lost = h.lost
       /\ g.head = h.head /\ g.tail = IF back = h.tail THEN front ELSE h.tail
       /\ l.header = k.header /\ l.foot = k.foot
  <2>1. front # Null
    BY DEF Chained
  <2> QED BY <2>1, <1>2, <1>8, <1>12, <1>14 DEF NextWritten, PrevWritten, Dropped
<1>16. /\ \A y : y \in DOMAIN g.header <=> y \in DOMAIN h.header /\ y # back
       /\ g.header[front] = [size |-> n, tag |-> h.header[front].tag]
       /\ \A y \in DOMAIN g.header : y # front => g.header[y] = h.header[y]
  BY <1>3, <1>14, <1>15 DEF Dropped
<1>17. /\ \A y : y \in DOMAIN g.foot <=> y \in DOMAIN h.foot /\ y # z
       /\ g.foot[x] = [size |-> n, tag |-> h.foot[x].tag]
       /\ \A y \in DOMAIN g.foot : y # x => g.foot[y] = h.foot[y]
  <2>1. x # z /\ x \in DOMAIN h.foot
    BY <1>4, <1>5
  <2> QED BY <2>1, <1>6, <1>14, <1>15 DEF Dropped
<1>18. /\ Chained(g.link)
       /\ \A y : y \in DOMAIN g.link <=> y \in DOMAIN h.link /\ y # back
       /\ \A c \in DOMAIN g.link :
            /\ g.link[c].prev = IF c = after THEN front ELSE h.link[c].prev
            /\ g.link[c].next = IF c = front THEN after ELSE h.link[c].next
  BY <1>2, <1>8, <1>12, <1>14 DEF NextWritten, PrevWritten, Dropped, Chained
<1> QED BY <1>4, <1>5, <1>15, <1>16, <1>17, <1>18, Zenon DEF Merged
-----------------------------------------------------------------------------
(* What is true of the heap between two calls, and in the middle of one.   *)

(* The blocks of S are free if they are in F, held as live says if not;    *)
(* the tags and sizes of those in R are open.                              *)
Marked(header, S, F, R, held) ==
  /\ \A c \in F : c \in S /\ c \notin R
  /\ \A c \in S : c \in R \/ (header[c].tag = Free <=> c \in F)
  /\ \A c \in S : c \in F \/ c \in R \/ c \in DOMAIN held
  /\ \A c \in DOMAIN held : /\ c \in S /\ c \notin F /\ c \notin R
                            /\ held[c] \in Nat \ {0}
                            /\ held[c] <= header[c].size
                            /\ header[c].size <= held[c] + MinSplit

(* The feet of the blocks of S, and no more but in E.                      *)
Footed(header, S, foot, E) ==
  /\ \A c \in S : /\ EndOf(header, c) \in DOMAIN foot
                  /\ foot[EndOf(header, c)] = header[c]
  /\ \A x \in DOMAIN foot : x \in E \/ \E c \in S : x = EndOf(header, c)

(* Free blocks are apart, and the last is not too large.                   *)
Split(header, F) == \A c \in F : EndOf(header, c) + 1 \notin F
Low(header, F, top) == \A c \in F : EndOf(header, c) = top
                                       => header[c].size <= MaxTop

(* The heap is whole: F are the blocks on the free list, R those neither   *)
(* on it nor held.                                                         *)
Strung(h, F, R, held) ==
  /\ IsHeap(h) /\ h.lost = {}
  /\ Tiling(h.header, h.top)
  /\ Footed(h.header, DOMAIN h.header, h.foot, {})
  /\ Marked(h.header, DOMAIN h.header, F, R, held)
  /\ Linked(h.link, h.head, h.tail, F)

Laid(h, F, R, held) ==
  /\ Strung(h, F, R, held)
  /\ Split(h.header, F) /\ Low(h.header, F, h.top)

(* The heap is whole but for the words between b and e.                    *)
Holed(h, F, R, held, b, e) ==
  /\ IsHeap(h) /\ h.lost = {}
  /\ Slot(h.header, DOMAIN h.header \ {b}, h.top, b, e)
  /\ Footed(h.header, DOMAIN h.header \ {b}, h.foot, {e})
  /\ Marked(h.header, DOMAIN h.header \ {b}, F, R, held)
  /\ \A c \in F : c \in DOMAIN h.link
  /\ \A c \in DOMAIN h.link : c \in F \/ c = b
  /\ Linked([c \in F |-> h.link[c]], h.head, h.tail, F)
  /\ Split(h.header, F) /\ Low(h.header, F, h.top)

(* The free list is of addresses below the break.                          *)
LEMMA FreeBelow ==
  ASSUME NEW h, NEW F, NEW R, NEW held, Strung(h, F, R, held)
  PROVE  /\ F \subseteq Nat \ {0} /\ h.top \in Nat /\ \A y \in F : y <= h.top
         /\ F \subseteq DOMAIN h.header
         /\ DOMAIN h.link = F /\ Chained(h.link)
         /\ \A c \in DOMAIN h.header :
              /\ c \in Nat \ {0} /\ IsWord(h.header[c])
              /\ h.header[c].size \in Nat \ {0}
              /\ EndOf(h.header, c) \in Nat
              /\ c < EndOf(h.header, c) /\ EndOf(h.header, c) <= h.top
<1>1. h.top \in Nat /\ Spaced(h.header, DOMAIN h.header, h.top)
  BY DEF Strung, Tiling
<1>2. \A c \in DOMAIN h.header :
        /\ c \in Nat \ {0} /\ IsWord(h.header[c])
        /\ h.header[c].size \in Nat \ {0}
        /\ EndOf(h.header, c) <= h.top
  BY <1>1 DEF Spaced, IsWord
<1>3. \A c \in DOMAIN h.header :
        EndOf(h.header, c) \in Nat /\ c < EndOf(h.header, c)
  BY <1>2 DEF EndOf
<1>4. F \subseteq DOMAIN h.header
  BY DEF Strung, Marked
<1>5. \A y \in F : y \in Nat \ {0} /\ y <= h.top
  BY <1>1, <1>2, <1>3, <1>4
<1>6. DOMAIN h.link = F /\ \A b \in F : IsNode(h.link[b])
  BY DEF Strung, Linked
<1>7. Chained(h.link)
  BY <1>5, <1>6 DEF Chained, Null
<1> QED BY <1>1, <1>2, <1>3, <1>4, <1>5, <1>6, <1>7

(* Blocks that keep their places and sizes tile what they tiled.           *)
LEMMA SameTiling ==
  ASSUME NEW header, NEW top, Tiling(header, top),
         NEW header2, \A c : c \in DOMAIN header2 <=> c \in DOMAIN header,
         \A c \in DOMAIN header : /\ IsWord(header2[c])
                                  /\ header2[c].size = header[c].size
  PROVE  Tiling(header2, top) /\ DOMAIN header2 = DOMAIN header
<1>1. DOMAIN header2 = DOMAIN header
  OBVIOUS
<1>2. \A c \in DOMAIN header : EndOf(header2, c) = EndOf(header, c)
  BY DEF EndOf
<1>3. Spaced(header2, DOMAIN header2, top)
  BY <1>1, <1>2 DEF Spaced, Tiling
<1>4. \A b \in DOMAIN header2 :
       /\ b = 1 \/ \E a \in DOMAIN header2 : EndOf(header2, a) + 1 = b
       /\ EndOf(header2, b) = top \/ EndOf(header2, b) + 1 \in DOMAIN header2
  BY <1>1, <1>2 DEF Tiling
<1>5. top = 0 \/ \E b \in DOMAIN header2 : EndOf(header2, b) = top
  BY <1>1, <1>2 DEF Tiling
<1> QED BY <1>1, <1>3, <1>4, <1>5 DEF Tiling

(* Two blocks with the same end are one.                                   *)
LEMMA EndsDiffer ==
  ASSUME NEW header, NEW S, NEW top, Spaced(header, S, top), top \in Nat
  PROVE  \A b, c \in S : EndOf(header, b) = EndOf(header, c) => b = c
<1>1. SUFFICES ASSUME NEW b \in S, NEW c \in S, b < c
               PROVE  EndOf(header, b) # EndOf(header, c)
  <2>1. \A b, c \in S : b \in Nat /\ c \in Nat
    BY DEF Spaced
  <2> QED BY <2>1
<1>2. EndOf(header, b) < c
  BY <1>1 DEF Spaced
<1>4. c < EndOf(header, c)
  BY EndAbove
<1>3. EndOf(header, b) \in Nat /\ EndOf(header, c) \in Nat /\ c \in Nat
  BY EndAbove DEF Spaced
<1> QED BY <1>2, <1>3, <1>4

(* Insert takes the one open block onto the list.                          *)
LEMMA InsertStrung ==
  ASSUME NEW h, NEW F, NEW b, NEW held, Strung(h, F, {b}, held),
         b \in DOMAIN h.header, NEW g, g = Insert(h, b),
         NEW G, \A c : c \in G <=> c \in F \/ c = b
  PROVE  /\ Strung(g, G, {}, held)
         /\ g.top = h.top /\ DOMAIN g.header = DOMAIN h.header
         /\ \A c \in DOMAIN h.header : g.header[c].size = h.header[c].size
<1>1. /\ F \subseteq Nat \ {0} /\ h.top \in Nat /\ \A y \in F : y <= h.top
      /\ F \subseteq DOMAIN h.header
      /\ DOMAIN h.link = F /\ Chained(h.link)
      /\ b \in Nat \ {0} /\ h.header[b].size \in Nat \ {0}
      /\ IsHeap(h) /\ Linked(h.link, h.head, h.tail, F)
      /\ b \notin F
  <2>1. b \notin F
    BY DEF Strung, Marked
  <2> QED BY <2>1, FreeBelow DEF Strung
<1> DEFINE A == {c \in F : c > b}
<1>2. Listed(h) = F /\ \A S \in SUBSET F : IsLowest(First(h, S), S)
  BY <1>1, ListedExactly
<1>3. PICK after : after = First(h, A)
  OBVIOUS
<1>4. IsLowest(after, A)
  BY <1>2, <1>3
<1>5. IsNext(F, b, after)
  BY <1>1, <1>4 DEF IsNext, IsLowest, Null
<1>6. PICK before : before = IF after = Null THEN h.tail
                             ELSE IF after = h.head THEN Null
                                  ELSE h.link[after].prev
  OBVIOUS
<1>7. IsPrev(F, b, before)
  <2>0. b \in Nat /\ \A c \in F : c \in Nat /\ c # b /\ c # Null
    BY <1>1 DEF Null
  <2>1. CASE after = Null
    <3>1. before = h.tail /\ \A c \in F : c < b
      BY <2>0, <2>1, <1>5, <1>6 DEF IsNext
    <3>2. (F = {} /\ h.tail = Null) \/ (h.tail \in F /\ \A y \in F : y <= h.tail)
      BY <1>1 DEF Linked, IsHighest
    <3> QED BY <2>0, <3>1, <3>2 DEF IsPrev
  <2>2. CASE after # Null /\ after = h.head
    <3>1. before = Null /\ after \in F /\ b < after
      BY <2>0, <2>2, <1>5, <1>6 DEF IsNext
    <3>2. \A y \in F : after <= y
      BY <3>1, <2>2, <1>1 DEF Linked, IsLowest
    <3> QED BY <2>0, <3>1, <3>2 DEF IsPrev
  <2>3. CASE after # Null /\ after # h.head
    <3>1. before = h.link[after].prev /\ after \in F /\ b < after
      BY <2>3, <1>5, <1>6 DEF IsNext
    <3>2. IsPrev(F, after, before)
      BY <3>1, <1>1 DEF Linked
    <3>3. \A c \in F : b < c => after <= c
      BY <2>0, <2>3, <1>5 DEF IsNext
    <3>4. \A c \in F : c < b => c < after
      BY <2>0, <3>1
    <3>5. CASE before = Null
      BY <2>0, <3>1, <3>2, <3>5 DEF IsPrev
    <3>6. CASE before # Null
      <4>1. before \in F /\ before < after /\ \A c \in F : c < after => c <= before
        BY <3>2, <3>6 DEF IsPrev
      <4>2. before < b
        BY <2>0, <3>1, <3>3, <4>1
      <4> QED BY <3>4, <4>1, <4>2 DEF IsPrev
    <3> QED BY <3>5, <3>6
  <2> QED BY <2>1, <2>2, <2>3
<1>8. PICK n : n = SizeOf(h, b)
  OBVIOUS
<1>9. n = h.header[b].size /\ b + n = EndOf(h.header, b)
  BY <1>8 DEF SizeOf, EndOf
<1>10. PICK w : w = [size |-> n, tag |-> Free]
  OBVIOUS
<1>11. w.size = n /\ w.tag = Free /\ IsWord(w)
  BY <1>1, <1>9, <1>10 DEF IsWord, Free, Used
<1>12. PICK k : k = Write(h, b, n, Free)
  OBVIOUS
<1>13. /\ IsHeap(k) /\ k.header = Put(h.header, b, w)
       /\ k.foot = Put(h.foot, b + n, w)
       /\ k.link = h.link /\ k.head = h.head /\ k.tail = h.tail
       /\ k.top = h.top /\ k.lost = h.lost
  BY <1>1, <1>10, <1>12, WriteIs
<1>14. g = Hang(k, b, before, after)
  <2>1. {c \in Listed(h) : c > b} = A
    BY <1>2
  <2>2. after = First(h, {c \in Listed(h) : c > b})
    BY <2>1, <1>3
  <2> QED BY <2>2, <1>6, <1>8, <1>12 DEF Insert
<1>15. Hung(g, k, b, before, after)
  <2>1. b \notin DOMAIN k.link /\ b # Null /\ Chained(k.link)
    BY <1>1, <1>13 DEF Null
  <2>2. before \in DOMAIN k.link \cup {Null} /\ after \in DOMAIN k.link \cup {Null}
    BY <1>1, <1>5, <1>7, <1>13 DEF IsNext, IsPrev
  <2> QED BY <2>1, <2>2, <1>13, <1>14, HangIs
<1>16. /\ IsHeap(g) /\ g.header = k.header /\ g.foot = k.foot
       /\ g.top = h.top /\ g.lost = {}
  BY <1>13, <1>15 DEF Hung, SameBlocks, Strung
<1>17. Linked(g.link, g.head, g.tail, G)
  <2>1. Linked(k.link, k.head, k.tail, F)
    BY <1>1, <1>13
  <2> QED BY <2>1, <1>1, <1>5, <1>7, <1>15, HungLinked
<1>18. /\ \A c : c \in DOMAIN g.header <=> c \in DOMAIN h.header
       /\ g.header[b] = w
       /\ \A c \in DOMAIN h.header : c # b => g.header[c] = h.header[c]
  <2>1. /\ \A y : y \in DOMAIN k.header <=> y \in DOMAIN h.header \/ y = b
        /\ k.header[b] = w
        /\ \A y \in DOMAIN h.header : y # b => k.header[y] = h.header[y]
    BY <1>13, PutIs
  <2> QED BY <2>1, <1>16
<1>19. \A c \in DOMAIN h.header : /\ IsWord(g.header[c])
                                  /\ g.header[c].size = h.header[c].size
  BY <1>9, <1>11, <1>18, FreeBelow
<1>20. Tiling(g.header, g.top) /\ DOMAIN g.header = DOMAIN h.header
  <2>1. Tiling(h.header, h.top)
    BY DEF Strung
  <2> QED BY <2>1, <1>16, <1>18, <1>19, SameTiling
<1>21. \A c \in DOMAIN h.header : EndOf(g.header, c) = EndOf(h.header, c)
  BY <1>19 DEF EndOf
<1>22. Footed(g.header, DOMAIN g.header, g.foot, {})
  <2>1. PICK x : x = EndOf(h.header, b)
    OBVIOUS
  <2>2. /\ \A y : y \in DOMAIN g.foot <=> y \in DOMAIN h.foot \/ y = x
        /\ g.foot[x] = w
        /\ \A y \in DOMAIN h.foot : y # x => g.foot[y] = h.foot[y]
    <3>1. g.foot = Put(h.foot, x, w)
      BY <2>1, <1>9, <1>13, <1>16
    <3> QED BY <3>1, PutIs
  <2>3. Footed(h.header, DOMAIN h.header, h.foot, {})
    BY DEF Strung
  <2>4. \A c \in DOMAIN h.header : EndOf(h.header, c) = x => c = b
    BY <2>1, EndsDiffer DEF Strung, Tiling
  <2>5. ASSUME NEW c \in DOMAIN g.header
        PROVE  /\ EndOf(g.header, c) \in DOMAIN g.foot
               /\ g.foot[EndOf(g.header, c)] = g.header[c]
    <3>1. c \in DOMAIN h.header /\ EndOf(g.header, c) = EndOf(h.header, c)
      BY <1>20, <1>21
    <3>2. /\ EndOf(h.header, c) \in DOMAIN h.foot
          /\ h.foot[EndOf(h.header, c)] = h.header[c]
      BY <3>1, <2>3 DEF Footed
    <3>3. CASE c = b
      BY <3>1, <3>3, <2>1, <2>2, <1>18
    <3>4. CASE c # b
      BY <3>1, <3>2, <3>4, <2>2, <2>4, <1>18
    <3> QED BY <3>3, <3>4
  <2>6. ASSUME NEW y \in DOMAIN g.foot
        PROVE  \E c \in DOMAIN g.header : y = EndOf(g.header, c)
    <3>1. \E c \in DOMAIN h.header : y = EndOf(h.header, c)
      BY <2>1, <2>2, <2>3 DEF Footed
    <3> QED BY <3>1, <1>20, <1>21
  <2> QED BY <2>5, <2>6 DEF Footed
<1>23. Marked(g.header, DOMAIN g.header, G, {}, held)
  BY <1>11, <1>18, <1>19, <1>20 DEF Strung, Marked
<1> QED BY <1>16, <1>17, <1>19, <1>20, <1>22, <1>23 DEF Strung

(* The same of a list from which a node was taken.                         *)
LEMMA UnhungLinked ==
  ASSUME NEW h, NEW F, F \subseteq Nat \ {0},
         Linked(h.link, h.head, h.tail, F), NEW b \in F,
         NEW g, Unhung(g, h, b, h.link[b].prev, h.link[b].next),
         NEW G, \A c : c \in G <=> c \in F /\ c # b
  PROVE  Linked(g.link, g.head, g.tail, G)
<1>1. DOMAIN h.link = F
  BY DEF Linked
<1>2. DOMAIN g.link = G
  <2>1. \A c : c \in DOMAIN g.link <=> c \in G
    BY <1>1 DEF Unhung
  <2> QED BY <2>1
<1>3. UnhungIn(g.link, g.head, g.tail, G, h.link, h.head, h.tail, F, b)
  BY <1>1, <1>2 DEF Unhung, UnhungIn, Chained
<1> QED BY <1>3, LinkedUnhung

(* The neighbours of a node are those of what takes its place.             *)
LEMMA Shifted ==
  ASSUME NEW F, F \subseteq Nat \ {0}, NEW old \in F, NEW new \in Nat, old < new,
         \A c \in F : old < c => new < c,
         NEW before, IsPrev(F, old, before), NEW after, IsNext(F, old, after),
         NEW K, \A c : c \in K <=> c \in F /\ c # old
  PROVE  IsPrev(K, new, before) /\ IsNext(K, new, after)
<1>1. \A c \in K : c \in F /\ c \in Nat /\ c # old
  OBVIOUS
<1>2. old \in Nat
  OBVIOUS
<1>3. \A c \in K : c < new <=> c < old
  <2>1. TAKE c \in K
  <2>2. c \in F /\ c \in Nat /\ c # old
    BY <1>1
  <2>3. CASE c < old
    BY <1>2, <2>2, <2>3
  <2>4. CASE old < c
    <3>1. new < c
      BY <2>2, <2>4
    <3> QED BY <1>2, <2>2, <2>4, <3>1
  <2> QED BY <1>2, <2>2, <2>3, <2>4
<1>4. IsPrev(K, new, before)
  <2>1. CASE before = Null /\ \A c \in F : old <= c
    <3>1. \A c \in K : new <= c
      BY <1>1, <1>2, <1>3, <2>1
    <3> QED BY <2>1, <3>1 DEF IsPrev
  <2>2. CASE before \in F /\ before < old /\ \A c \in F : c < old => c <= before
    <3>1. before \in K
      BY <1>2, <2>2
    <3>2. before < new /\ \A c \in K : c < new => c <= before
      BY <1>1, <1>3, <2>2, <3>1
    <3> QED BY <3>1, <3>2 DEF IsPrev
  <2> QED BY <2>1, <2>2 DEF IsPrev
<1>5. IsNext(K, new, after)
  <2>1. CASE after = Null /\ \A c \in F : c <= old
    <3>1. \A c \in K : c <= new
      <4>1. TAKE c \in K
      <4>2. c \in Nat /\ c <= old
        BY <1>1, <2>1
      <4> QED BY <1>2, <4>2
    <3> QED BY <2>1, <3>1 DEF IsNext
  <2>2. CASE after \in F /\ old < after /\ \A c \in F : old < c => after <= c
    <3>1. after \in K /\ new < after
      BY <1>2, <2>2
    <3>2. \A c \in K : new < c => after <= c
      <4>1. TAKE c \in K
      <4>2. c \in F /\ c \in Nat /\ c # old /\ (c < new <=> c < old)
        BY <1>1, <1>3
      <4> QED BY <1>2, <2>2, <4>2
    <3> QED BY <3>1, <3>2 DEF IsNext
  <2> QED BY <2>1, <2>2 DEF IsNext
<1> QED BY <1>4, <1>5

(* The neighbours of a node.                                               *)
Beside(link, b, before, after) == link[b].prev = before /\ link[b].next = after

(* And of one on which a node took the place of another.                   *)
MovedIn(link2, head2, tail2, G, link, head, tail, F, old, new, before, after) ==
  /\ \A c : c \in G <=> (c \in F /\ c # old) \/ c = new
  /\ DOMAIN link2 = G
  /\ IsNode(link2[new]) /\ Beside(link2, new, before, after)
  /\ \A c \in F : c # old =>
       /\ IsNode(link2[c])
       /\ link2[c].prev = IF c = after THEN new ELSE link[c].prev
       /\ link2[c].next = IF c = before THEN new ELSE link[c].next
  /\ head2 = IF before = Null THEN new ELSE head
  /\ tail2 = IF after = Null THEN new ELSE tail

(* A block may take over the node of another if no block lies between the  *)
(* two.                                                                    *)
LEMMA Relinked ==
  ASSUME NEW link, NEW head, NEW tail, NEW F, F \subseteq Nat \ {0},
         Linked(link, head, tail, F),
         NEW old \in F, NEW new \in Nat \ {0}, new \notin F, old < new,
         \A c \in F : old < c => new < c,
         NEW before, NEW after, Beside(link, old, before, after),
         NEW G, NEW link2, NEW head2, NEW tail2,
         MovedIn(link2, head2, tail2, G, link, head, tail, F, old, new, before, after)
  PROVE  Linked(link2, head2, tail2, G)
<1>1. PICK K : K = F \ {old}
  OBVIOUS
<1>2. \A c : c \in K <=> c \in F /\ c # old
  BY <1>1
<1>3. PICK link1 : link1 = [c \in K |->
                             [prev |-> IF c = after THEN before ELSE link[c].prev,
                              next |-> IF c = before THEN after ELSE link[c].next]]
  OBVIOUS
<1>4. /\ DOMAIN link1 = K
      /\ \A c \in K :
           /\ IsNode(link1[c])
           /\ link1[c].prev = IF c = after THEN before ELSE link[c].prev
           /\ link1[c].next = IF c = before THEN after ELSE link[c].next
  BY <1>3 DEF IsNode
<1>5. PICK head1 : head1 = IF before = Null THEN after ELSE head
  OBVIOUS
<1>6. PICK tail1 : tail1 = IF after = Null THEN before ELSE tail
  OBVIOUS
<1>7. Linked(link1, head1, tail1, K)
  <2>1. UnhungIn(link1, head1, tail1, K, link, head, tail, F, old)
    BY <1>2, <1>4, <1>5, <1>6 DEF UnhungIn, Beside
  <2> QED BY <2>1, LinkedUnhung
<1>8. IsPrev(F, old, before) /\ IsNext(F, old, after)
  BY DEF Linked, Beside
<1>9. /\ \A c \in F : c \in Nat /\ c # Null
      /\ \A c \in K : c \in F /\ c # old
      /\ old \in Nat /\ new \in Nat
  BY <1>2 DEF Null
<1>10. IsPrev(K, new, before) /\ IsNext(K, new, after)
  BY <1>2, <1>8, Shifted
<1>12. new \notin K /\ K \subseteq Nat \ {0}
  BY <1>9 DEF Null
<1>13. HungIn(link2, head2, tail2, G, link1, head1, tail1, K, new, before, after)
  <2>1. \A c : c \in G <=> c \in K \/ c = new
    BY <1>2 DEF MovedIn
  <2>2. \A c \in K :
          /\ IsNode(link2[c])
          /\ link2[c].prev = IF c = after THEN new ELSE link1[c].prev
          /\ link2[c].next = IF c = before THEN new ELSE link1[c].next
    BY <1>4, <1>9 DEF MovedIn
  <2>3. /\ head2 = IF before = Null THEN new ELSE head1
        /\ tail2 = IF after = Null THEN new ELSE tail1
    BY <1>5, <1>6 DEF MovedIn
  <2>4. /\ DOMAIN link2 = G
        /\ IsNode(link2[new]) /\ link2[new].prev = before /\ link2[new].next = after
    BY DEF MovedIn, Beside
  <2> QED BY <2>1, <2>2, <2>3, <2>4 DEF HungIn
<1> QED BY <1>7, <1>10, <1>12, <1>13, LinkedHung

(* G is F without b.                                                       *)
Less(G, F, b) == \A c : c \in G <=> c \in F /\ c # b

(* And of the one that merging leaves.                                     *)
LEMMA MergedLinked ==
  ASSUME NEW h, NEW F, F \subseteq Nat \ {0},
         Linked(h.link, h.head, h.tail, F),
         NEW front \in F, NEW back \in F, front < back,
         NEW n, NEW after, Beside(h.link, back, front, after),
         NEW g, Merged(g, h, front, back, n, after),
         NEW G, Less(G, F, back)
  PROVE  Linked(g.link, g.head, g.tail, G)
<1>1. DOMAIN h.link = F /\ IsPrev(F, back, front) /\ IsNext(F, back, after)
  BY DEF Linked, Beside
<1>c. \A c : c \in G <=> c \in F /\ c # back
  BY DEF Less
<1>2. PICK l : l = g.link
  OBVIOUS
<1>3. PICK m : m = h.link
  OBVIOUS
<1>a. /\ DOMAIN l = G
      /\ \A c \in G : /\ IsNode(l[c])
                      /\ l[c].prev = IF c = after THEN front ELSE m[c].prev
                      /\ l[c].next = IF c = front THEN after ELSE m[c].next
  <2>1. /\ \A c : c \in DOMAIN l <=> c \in G
        /\ \A c \in DOMAIN l : IsNode(l[c])
        /\ \A c \in DOMAIN l :
             /\ l[c].prev = IF c = after THEN front ELSE m[c].prev
             /\ l[c].next = IF c = front THEN after ELSE m[c].next
    BY <1>1, <1>2, <1>3, <1>c DEF Merged, Chained
  <2>2. DOMAIN l = G
    BY <2>1
  <2> QED BY <2>1, <2>2
<1>4. g.head = h.head /\ front # Null
  BY DEF Merged, Null
<1>5. g.tail = IF after = Null THEN front ELSE h.tail
  <2>1. after = Null <=> back = h.tail
    <3>1. h.tail \in F /\ \A c \in F : c <= h.tail
      BY DEF Linked, IsHighest
    <3>2. \A c \in F : c \in Nat /\ c # Null
      BY DEF Null
    <3>3. CASE after = Null
      <4>1. \A c \in F : c <= back
        BY <1>1, <3>2, <3>3 DEF IsNext
      <4>2. h.tail \in Nat /\ back \in Nat /\ back <= h.tail /\ h.tail <= back
        BY <3>1, <3>2, <4>1
      <4> QED BY <3>3, <4>2
    <3>4. CASE after # Null
      <4>1. after \in F /\ back < after
        BY <1>1, <3>4 DEF IsNext
      <4> QED BY <3>1, <3>2, <3>4, <4>1
    <3> QED BY <3>3, <3>4
  <2> QED BY <2>1 DEF Merged
<1>b. Beside(m, back, front, after) /\ Linked(m, h.head, h.tail, F)
  BY <1>3
<1>6. UnhungIn(l, g.head, g.tail, G, m, h.head, h.tail, F, back)
  <2>1. m[back].prev = front /\ m[back].next = after
    BY <1>b DEF Beside
  <2>2. g.head = IF m[back].prev = Null THEN m[back].next ELSE h.head
    BY <2>1, <1>4, Zenon
  <2>3. g.tail = IF m[back].next = Null THEN m[back].prev ELSE h.tail
    BY <2>1, <1>5, Zenon
  <2>4. \A c \in G : /\ IsNode(l[c])
                     /\ l[c].prev = IF c = m[back].next THEN m[back].prev ELSE m[c].prev
                     /\ l[c].next = IF c = m[back].prev THEN m[back].next ELSE m[c].next
    BY <2>1, <1>a, Zenon
  <2> QED BY <2>2, <2>3, <2>4, <1>a, <1>c, Zenon DEF UnhungIn
<1>7. Linked(l, g.head, g.tail, G)
  BY <1>6, <1>b, LinkedUnhung
<1> QED BY <1>2, <1>7

(* Merge makes one free block of two that touch.                           *)
LEMMA MergeStrung ==
  ASSUME NEW h, NEW F, NEW held, Strung(h, F, {}, held),
         NEW front \in F, NEW back \in F, EndOf(h.header, front) + 1 = back,
         NEW G, \A c : c \in G <=> c \in F /\ c # back,
         NEW g, g = Merge(h, front, back)
  PROVE  /\ Strung(g, G, {}, held) /\ g.top = h.top
         /\ \A c : c \in DOMAIN g.header <=> c \in DOMAIN h.header /\ c # back
         /\ EndOf(g.header, front) = EndOf(h.header, back)
         /\ \A c \in DOMAIN g.header : c # front => g.header[c] = h.header[c]
<1>1. /\ F \subseteq Nat \ {0} /\ h.top \in Nat /\ \A y \in F : y <= h.top
      /\ F \subseteq DOMAIN h.header
      /\ DOMAIN h.link = F /\ Chained(h.link)
  BY FreeBelow
<1>2. \A c \in DOMAIN h.header :
        /\ c \in Nat \ {0} /\ IsWord(h.header[c])
        /\ h.header[c].size \in Nat \ {0}
        /\ EndOf(h.header, c) \in Nat
        /\ c < EndOf(h.header, c) /\ EndOf(h.header, c) <= h.top
  BY FreeBelow
<1>3. PICK hd : hd = h.header
  OBVIOUS
<1>4. PICK e : e = EndOf(hd, back)
  OBVIOUS
<1>5. PICK z : z = EndOf(hd, front)
  OBVIOUS
<1>6. /\ z \in Nat /\ back = z + 1 /\ front \in Nat /\ front < z /\ front < back
      /\ e \in Nat /\ back < e /\ z = back - 1 /\ front # back /\ z # e
      /\ front # 0 /\ back # 0
  BY <1>1, <1>2, <1>3, <1>4, <1>5
<1>7. PICK n : n = SizeOf(h, front) + 1 + SizeOf(h, back)
  OBVIOUS
<1>8. n \in Nat \ {0} /\ front + n = e
  <2>1. PICK s : s = hd[front].size
    OBVIOUS
  <2>2. PICK t : t = hd[back].size
    OBVIOUS
  <2>3. s \in Nat /\ t \in Nat /\ n = s + 1 + t /\ z = front + s /\ e = back + t
    <3>1. s \in Nat /\ t \in Nat
      BY <1>1, <1>2, <1>3, <2>1, <2>2
    <3>2. n = s + 1 + t
      BY <1>3, <1>7, <2>1, <2>2 DEF SizeOf
    <3>3. z = front + s /\ e = back + t
      BY <1>4, <1>5, <2>1, <2>2 DEF EndOf
    <3> QED BY <3>1, <3>2, <3>3
  <2> QED BY <1>6, <2>3
<1>9. PICK lk : lk = h.link
  OBVIOUS
<1>10. PICK after : after = lk[back].next
  OBVIOUS
<1>11. Linked(lk, h.head, h.tail, F)
  BY <1>9 DEF Strung
<1>12. IsPrev(F, back, lk[back].prev) /\ IsNext(F, back, after)
  BY <1>10, <1>11 DEF Linked
<1>13. lk[back].prev = front
  <2>1. PICK p : p = lk[back].prev
    OBVIOUS
  <2>2. \A c \in F : c < back => c <= front
    <3>1. SUFFICES ASSUME NEW c \in F, front < c, c < back PROVE FALSE
      BY <1>1, <1>6
    <3>2. EndOf(h.header, front) < c
      BY <3>1, <1>1 DEF Strung, Tiling, Spaced
    <3>3. z < c /\ c < z + 1 /\ c \in Nat
      BY <3>1, <3>2, <1>1, <1>3, <1>5, <1>6
    <3> QED BY <3>3, <1>6
  <2>3. IsPrev(F, back, p)
    BY <1>12, <2>1
  <2>4. p \in F /\ p < back /\ front <= p
    BY <1>6, <2>3 DEF IsPrev
  <2> QED BY <1>1, <1>6, <2>1, <2>2, <2>4
<1>14. Beside(h.link, back, front, after)
  BY <1>9, <1>10, <1>13 DEF Beside
<1>15. after = Null \/ after \in F
  BY <1>12 DEF IsNext
<1>16. back = h.tail <=> after = Null
  <2>1. h.tail \in F /\ \A c \in F : c <= h.tail
    BY <1>11 DEF Linked, IsHighest
  <2>2. h.tail \in Nat /\ \A c \in F : c \in Nat /\ c # Null
    BY <1>1, <2>1 DEF Null
  <2>3. CASE after = Null
    <3>1. h.tail <= back
      BY <1>12, <2>1, <2>2, <2>3 DEF IsNext
    <3> QED BY <1>6, <2>1, <2>2, <2>3, <3>1
  <2>4. CASE after # Null
    <3>1. after \in F /\ back < after
      BY <1>12, <2>4 DEF IsNext
    <3> QED BY <1>6, <2>1, <2>2, <2>4, <3>1
  <2> QED BY <2>3, <2>4
<1>17. PICK ft : ft = h.foot
  OBVIOUS
<1>18. Footed(hd, DOMAIN hd, ft, {})
  BY <1>3, <1>17 DEF Strung
<1>19. /\ e \in DOMAIN ft /\ ft[e] = hd[back] /\ z \in DOMAIN ft
       /\ IsWord(ft[e]) /\ IsWord(hd[front]) /\ IsWord(hd[back])
       /\ hd[front].tag = Free /\ hd[back].tag = Free
  <2>1. front \in DOMAIN hd /\ back \in DOMAIN hd
    BY <1>1, <1>3
  <2>2. hd[front].tag = Free /\ hd[back].tag = Free
    BY <1>3, <2>1 DEF Strung, Marked
  <2> QED BY <2>1, <2>2, <1>2, <1>3, <1>4, <1>5, <1>18 DEF Footed
<1>20. Merged(g, h, front, back, n, after)
  <2>1. IsHeap(h) /\ front \in DOMAIN h.header /\ IsWord(h.header[front])
    BY <1>1, <1>2 DEF Strung
  <2>2. front + n \in DOMAIN h.foot /\ IsWord(h.foot[front + n])
    BY <1>8, <1>17, <1>19
  <2>3. front \in DOMAIN h.link /\ (after = Null \/ after \in DOMAIN h.link)
    BY <1>1, <1>15
  <2>4. after = h.link[back].next
    BY <1>14 DEF Beside
  <2>5. front + n # back - 1
    BY <1>6, <1>8
  <2> QED BY <2>1, <2>2, <2>3, <2>4, <2>5, <1>1, <1>6, <1>7, <1>16, MergeIs
<1>21. PICK hd2 : hd2 = g.header
  OBVIOUS
<1>22. PICK ft2 : ft2 = g.foot
  OBVIOUS
<1>23. /\ IsHeap(g) /\ g.top = h.top /\ g.lost = {}
       /\ \A y : y \in DOMAIN hd2 <=> y \in DOMAIN hd /\ y # back
       /\ hd2[front] = [size |-> n, tag |-> hd[front].tag]
       /\ \A y \in DOMAIN hd2 : y # front => hd2[y] = hd[y]
       /\ \A y : y \in DOMAIN ft2 <=> y \in DOMAIN ft /\ y # back - 1
       /\ ft2[front + n] = [size |-> n, tag |-> ft[front + n].tag]
       /\ \A y \in DOMAIN ft2 : y # front + n => ft2[y] = ft[y]
  BY <1>3, <1>17, <1>20, <1>21, <1>22 DEF Merged, Strung
<1>24. /\ hd2[front].size = n /\ hd2[front].tag = Free /\ IsWord(hd2[front])
       /\ ft2[e] = hd2[front]
       /\ \A y : y \in DOMAIN ft2 <=> y \in DOMAIN ft /\ y # z
       /\ \A y \in DOMAIN ft2 : y # e => ft2[y] = ft[y]
  <2>1. hd2[front] = [size |-> n, tag |-> Free]
    BY <1>19, <1>23
  <2>2. ft2[e] = [size |-> n, tag |-> Free]
    BY <1>8, <1>19, <1>23
  <2> QED BY <2>1, <2>2, <1>6, <1>8, <1>23 DEF IsWord
<1>25. EndOf(hd2, front) = e
  BY <1>8, <1>24 DEF EndOf
<1>26. Linked(g.link, g.head, g.tail, G)
  <2>1. Linked(h.link, h.head, h.tail, F)
    BY DEF Strung
  <2>2. F \subseteq Nat \ {0} /\ front < back
    BY <1>1, <1>6
  <2>3. Less(G, F, back)
    BY DEF Less
  <2> QED BY <2>1, <2>2, <2>3, <1>14, <1>20, MergedLinked, Zenon
<1>27. Tiling(hd2, g.top)
  <2>1. Tiling(hd, h.top)
    BY <1>3 DEF Strung
  <2>2. PICK S : S = DOMAIN hd \ {front, back}
    OBVIOUS
  <2>3. Slot(hd, S, h.top, front, e)
    BY <2>1, <2>2, <1>1, <1>3, <1>4, HoleOfTwo
  <2>4. DOMAIN hd2 = S \cup {front}
    <3>1. \A c : c \in DOMAIN hd2 <=> c \in S \/ c = front
      BY <2>2, <1>1, <1>3, <1>6, <1>23
    <3> QED BY <3>1
  <2>5. \A c \in S \ {front} : hd2[c] = hd[c]
    BY <2>2, <1>23
  <2>6. PICK top : top = h.top /\ top = g.top
    BY <1>23
  <2>7. Slot(hd, S, top, front, e)
    BY <2>3, <2>6
  <2>8. IsWord(hd2[front])
    BY <1>24
  <2>9. Tiling(hd2, top)
    BY <2>4, <2>5, <2>7, <2>8, <1>25, FillOne
  <2> QED BY <2>6, <2>9
<1>28. \A c \in DOMAIN hd2 : c # front => EndOf(hd2, c) = EndOf(hd, c)
  BY <1>23 DEF EndOf
<1>29. Footed(hd2, DOMAIN hd2, ft2, {})
  <2>1. \A b, c \in DOMAIN hd : EndOf(hd, b) = EndOf(hd, c) => b = c
    BY <1>1, <1>3, EndsDiffer DEF Strung, Tiling
  <2>2. front \in DOMAIN hd /\ back \in DOMAIN hd
    BY <1>1, <1>3
  <2>3. ASSUME NEW c \in DOMAIN hd2
        PROVE  EndOf(hd2, c) \in DOMAIN ft2 /\ ft2[EndOf(hd2, c)] = hd2[c]
    <3>1. CASE c = front
      BY <3>1, <1>6, <1>19, <1>24, <1>25
    <3>2. CASE c # front
      <4>1. PICK x : x = EndOf(hd, c)
        OBVIOUS
      <4>2. c \in DOMAIN hd /\ c # back /\ x = EndOf(hd2, c)
        BY <3>2, <4>1, <1>23, <1>28
      <4>3. x # e /\ x # z /\ x \in DOMAIN ft /\ ft[x] = hd[c]
        BY <2>1, <2>2, <3>2, <4>1, <4>2, <1>4, <1>5, <1>18 DEF Footed
      <4> QED BY <3>2, <4>2, <4>3, <1>23, <1>24
    <3> QED BY <3>1, <3>2
  <2>4. ASSUME NEW y \in DOMAIN ft2
        PROVE  \E c \in DOMAIN hd2 : y = EndOf(hd2, c)
    <3>1. PICK c \in DOMAIN hd : y = EndOf(hd, c)
      BY <1>18, <1>24 DEF Footed
    <3>2. c # front
      BY <3>1, <1>5, <1>24
    <3>3. CASE c = back
      <4>1. front \in DOMAIN hd2 /\ y = EndOf(hd2, front)
        BY <2>2, <3>1, <3>3, <1>4, <1>6, <1>23, <1>25
      <4> QED BY <4>1
    <3>4. CASE c # back
      BY <3>1, <3>2, <3>4, <1>23, <1>28
    <3> QED BY <3>3, <3>4
  <2> QED BY <2>3, <2>4 DEF Footed
<1>30. Marked(hd2, DOMAIN hd2, G, {}, held)
  <2>1. Marked(hd, DOMAIN hd, F, {}, held)
    BY <1>3 DEF Strung
  <2>2. \A c \in DOMAIN held : c # front /\ c # back
    BY <2>1 DEF Marked
  <2>3. \A c \in DOMAIN held :
          /\ c \in DOMAIN hd /\ c \notin F /\ held[c] \in Nat \ {0}
          /\ held[c] <= hd[c].size /\ hd[c].size <= held[c] + MinSplit
    BY <2>1 DEF Marked
  <2>4. \A c \in DOMAIN held : c \in DOMAIN hd2 /\ hd2[c] = hd[c]
    BY <2>2, <2>3, <1>23
  <2>5. \A c \in DOMAIN held :
          /\ c \in DOMAIN hd2 /\ c \notin G /\ held[c] \in Nat \ {0}
          /\ held[c] <= hd2[c].size /\ hd2[c].size <= held[c] + MinSplit
    BY <2>3, <2>4
  <2>6. \A c \in DOMAIN hd2 : hd2[c].tag = Free <=> c \in F
    <3>1. \A c \in DOMAIN hd : hd[c].tag = Free <=> c \in F
      BY <2>1 DEF Marked
    <3>2. \A c \in DOMAIN hd2 : hd2[c].tag = hd[c].tag
      BY <1>19, <1>23, <1>24
    <3> QED BY <3>1, <3>2, <1>23
  <2>7. \A c \in G : c \in DOMAIN hd2
    BY <1>1, <1>3, <1>23
  <2>8. \A c \in DOMAIN hd2 : c \in F <=> c \in G
    BY <1>23
  <2>9. \A c \in DOMAIN hd2 : c \in F \/ c \in DOMAIN held
    BY <2>1, <1>23 DEF Marked
  <2> QED BY <2>5, <2>6, <2>7, <2>8, <2>9 DEF Marked
<1>31. Strung(g, G, {}, held)
  BY <1>21, <1>22, <1>23, <1>26, <1>27, <1>29, <1>30 DEF Strung
<1> QED BY <1>3, <1>4, <1>21, <1>23, <1>25, <1>31

(* The two tests of Coalesce: the block in front, or behind, is free.      *)
LEMMA FrontIs ==
  ASSUME NEW h, NEW F, NEW held, Strung(h, F, {}, held), NEW b \in F
  PROVE  /\ (b > h.head /\ h.foot[b - 1].tag = Free)
              <=> \E a \in F : EndOf(h.header, a) + 1 = b
         /\ \A a \in F : EndOf(h.header, a) + 1 = b
                           => b - 1 - h.foot[b - 1].size = a
<1>1. /\ F \subseteq Nat \ {0} /\ F \subseteq DOMAIN h.header
      /\ \A c \in DOMAIN h.header :
           /\ c \in Nat \ {0} /\ h.header[c].size \in Nat \ {0}
           /\ EndOf(h.header, c) \in Nat /\ c < EndOf(h.header, c)
  BY FreeBelow
<1>2. \A c \in DOMAIN h.header : h.header[c].tag = Free <=> c \in F
  BY DEF Strung, Marked
<1>3. \A c \in DOMAIN h.header :
        EndOf(h.header, c) + 1 = b => h.foot[b - 1] = h.header[c]
  <2>1. \A c \in DOMAIN h.header : h.foot[EndOf(h.header, c)] = h.header[c]
    BY DEF Strung, Footed
  <2> SUFFICES ASSUME NEW c \in DOMAIN h.header, EndOf(h.header, c) + 1 = b
               PROVE  h.foot[b - 1] = h.header[c]
    OBVIOUS
  <2>2. b - 1 = EndOf(h.header, c)
    BY <1>1
  <2> QED BY <2>1, <2>2
<1>4. h.head \in F /\ \A c \in F : h.head <= c
  BY DEF Strung, Linked, IsLowest
<1>5. ASSUME b > h.head PROVE \E a \in DOMAIN h.header : EndOf(h.header, a) + 1 = b
  <2>1. b # 1
    <3>1. h.head \in Nat /\ h.head # 0 /\ b \in Nat
      BY <1>1, <1>4
    <3> QED BY <3>1, <1>5
  <2>2. b \in DOMAIN h.header
    BY <1>1
  <2> QED BY <2>1, <2>2 DEF Strung, Tiling
<1>6. \A a \in F : EndOf(h.header, a) + 1 = b
                     => b > h.head /\ h.foot[b - 1].tag = Free
  <2> SUFFICES ASSUME NEW a \in F, EndOf(h.header, a) + 1 = b
               PROVE  b > h.head /\ h.foot[b - 1].tag = Free
    OBVIOUS
  <2>1. a \in DOMAIN h.header /\ a < b
    BY <1>1
  <2>2. b > h.head
    BY <2>1, <1>1, <1>4
  <2>3. h.foot[b - 1].tag = Free
    BY <2>1, <1>2, <1>3
  <2> QED BY <2>2, <2>3
<1>7. ASSUME b > h.head, h.foot[b - 1].tag = Free
      PROVE  \E a \in F : EndOf(h.header, a) + 1 = b
  BY <1>2, <1>3, <1>5, <1>7
<1>8. ASSUME NEW a \in F, EndOf(h.header, a) + 1 = b
      PROVE  b - 1 - h.foot[b - 1].size = a
  <2>1. PICK s : s = h.header[a].size
    OBVIOUS
  <2>2. h.foot[b - 1].size = s
    BY <2>1, <1>1, <1>3, <1>8
  <2>3. s \in Nat /\ a \in Nat /\ a + s + 1 = b
    BY <2>1, <1>1, <1>8 DEF EndOf
  <2> QED BY <2>2, <2>3
<1> QED BY <1>6, <1>7, <1>8

(* The block behind b is tagged free exactly if it is one of the free      *)
(* blocks.                                                                 *)
LEMMA BehindIs ==
  ASSUME NEW h, NEW F, NEW held, Strung(h, F, {}, held), NEW b \in F
  PROVE  /\ After(h, b) = EndOf(h.header, b) + 1
         /\ (After(h, b) <= h.top /\ h.header[After(h, b)].tag = Free)
              <=> EndOf(h.header, b) + 1 \in F
<1>1. /\ b \in DOMAIN h.header /\ F \subseteq DOMAIN h.header /\ h.top \in Nat
      /\ \A c \in DOMAIN h.header :
           /\ c \in Nat \ {0} /\ EndOf(h.header, c) \in Nat
           /\ c < EndOf(h.header, c) /\ EndOf(h.header, c) <= h.top
  BY FreeBelow
<1>2. After(h, b) = EndOf(h.header, b) + 1
  BY DEF After, FootOf, SizeOf, EndOf
<1>3. EndOf(h.header, b) = h.top \/ EndOf(h.header, b) + 1 \in DOMAIN h.header
  BY <1>1 DEF Strung, Tiling
<1>4. \A c \in DOMAIN h.header : h.header[c].tag = Free <=> c \in F
  BY DEF Strung, Marked
<1>5. PICK a : a = EndOf(h.header, b) + 1
  OBVIOUS
<1>6. a \in F => a <= h.top
  <2>1. ASSUME a \in F PROVE a <= h.top
    <3>1. /\ a \in Nat /\ EndOf(h.header, a) \in Nat
          /\ a < EndOf(h.header, a) /\ EndOf(h.header, a) <= h.top
      BY <2>1, <1>1
    <3> QED BY <3>1, <1>1
  <2> QED BY <2>1
<1>7. a <= h.top => a \in DOMAIN h.header
  BY <1>1, <1>3, <1>5
<1> QED BY <1>1, <1>2, <1>4, <1>5, <1>6, <1>7

(* What merging with the front leaves: the block entered is in the free    *)
(* block x, which is the only one that may touch another.                  *)
Joined(g, F, G, x, e) ==
  /\ x \in G /\ EndOf(g.header, x) = e
  /\ \A c \in F : c \in G
  /\ \A c \in G : c # x => EndOf(g.header, c) + 1 \notin G

(* Merging b with the free block in front of it leaves one that ends where *)
(* b ended.                                                                *)
LEMMA JoinFront ==
  ASSUME NEW h, NEW F, NEW b, b \notin F, NEW G, \A c : c \in G <=> c \in F \/ c = b,
         NEW held, Strung(h, G, {}, held), Split(h.header, F),
         NEW a \in F, EndOf(h.header, a) + 1 = b,
         NEW g, g = Merge(h, a, b)
  PROVE  /\ Strung(g, F, {}, held) /\ g.top = h.top
         /\ Joined(g, F, F, a, EndOf(h.header, b))
<1>1. a \in G /\ b \in G /\ \A c : c \in F <=> c \in G /\ c # b
  OBVIOUS
<1>2. /\ Strung(g, F, {}, held) /\ g.top = h.top
      /\ \A c : c \in DOMAIN g.header <=> c \in DOMAIN h.header /\ c # b
      /\ EndOf(g.header, a) = EndOf(h.header, b)
      /\ \A c \in DOMAIN g.header : c # a => g.header[c] = h.header[c]
  BY <1>1, MergeStrung
<1>3. \A c \in F : c \in DOMAIN g.header
  BY <1>2, FreeBelow
<1>4. ASSUME NEW c \in F, c # a PROVE EndOf(g.header, c) + 1 \notin F
  <2>1. EndOf(g.header, c) = EndOf(h.header, c)
    BY <1>2, <1>3, <1>4 DEF EndOf
  <2> QED BY <2>1 DEF Split
<1> QED BY <1>2, <1>4 DEF Joined

(* Without a free block in front, b itself is the block that may be merged *)
(* further.                                                                *)
LEMMA JoinAlone ==
  ASSUME NEW h, NEW F, NEW b, b \notin F, NEW G, \A c : c \in G <=> c \in F \/ c = b,
         Split(h.header, F), \A a \in F : EndOf(h.header, a) + 1 # b
  PROVE  Joined(h, F, G, b, EndOf(h.header, b))
BY DEF Joined, Split

(* And with the one behind.                                                *)
LEMMA JoinBehind ==
  ASSUME NEW h, NEW F, NEW G, NEW held, Strung(h, G, {}, held),
         NEW x, NEW e, Joined(h, F, G, x, e), e + 1 \in F,
         NEW g, g = Merge(h, x, e + 1)
  PROVE  \E K : /\ K # {} /\ Strung(g, K, {}, held) /\ Split(g.header, K)
                /\ g.top = h.top
<1>1. PICK back : back = e + 1
  OBVIOUS
<1>2. PICK K : K = G \ {back}
  OBVIOUS
<1>3. back \in G /\ x \in G /\ EndOf(h.header, x) + 1 = back
  BY <1>1 DEF Joined
<1>4. x # back
  BY <1>3, FreeBelow
<1>5. \A c : c \in K <=> c \in G /\ c # back
  BY <1>2
<1>6. g = Merge(h, x, back)
  BY <1>1
<1>7. /\ Strung(g, K, {}, held) /\ g.top = h.top
      /\ \A c : c \in DOMAIN g.header <=> c \in DOMAIN h.header /\ c # back
      /\ EndOf(g.header, x) = EndOf(h.header, back)
      /\ \A c \in DOMAIN g.header : c # x => g.header[c] = h.header[c]
  BY <1>3, <1>5, <1>6, MergeStrung
<1>8. \A c \in K : c \in DOMAIN g.header
  BY <1>7, FreeBelow
<1>9. ASSUME NEW c \in K PROVE EndOf(g.header, c) + 1 \notin K
  <2>1. CASE c = x
    <3>1. EndOf(h.header, back) + 1 \notin G
      BY <1>3, <1>4 DEF Joined
    <3> QED BY <2>1, <3>1, <1>5, <1>7
  <2>2. CASE c # x
    <3>1. EndOf(g.header, c) = EndOf(h.header, c)
      BY <2>2, <1>7, <1>8 DEF EndOf
    <3>2. EndOf(h.header, c) + 1 \notin G
      BY <2>2, <1>5 DEF Joined
    <3> QED BY <3>1, <3>2, <1>5
  <2> QED BY <2>1, <2>2
<1>10. x \in K
  BY <1>3, <1>4, <1>5
<1> QED BY <1>7, <1>9, <1>10 DEF Split

(* Or not.                                                                 *)
LEMMA JoinedSplit ==
  ASSUME NEW h, NEW F, NEW G, NEW x, NEW e, Joined(h, F, G, x, e), e + 1 \notin G
  PROVE  G # {} /\ Split(h.header, G)
BY DEF Joined, Split

(* After both merges no two free blocks touch.                             *)
LEMMA CoalesceStrung ==
  ASSUME NEW h, NEW F, NEW b, b \notin F, NEW G, \A c : c \in G <=> c \in F \/ c = b,
         NEW held, Strung(h, G, {}, held), Split(h.header, F),
         NEW g, g = Coalesce(h, b)
  PROVE  \E K : /\ K # {} /\ Strung(g, K, {}, held) /\ Split(g.header, K)
                /\ g.top = h.top
<1>1. PICK e : e = EndOf(h.header, b)
  OBVIOUS
<1>2. b \in G
  OBVIOUS
<1>3. /\ (b > h.head /\ h.foot[b - 1].tag = Free)
           <=> \E a \in F : EndOf(h.header, a) + 1 = b
      /\ \A a \in F : EndOf(h.header, a) + 1 = b
                        => b - 1 - h.foot[b - 1].size = a
  <2>1. EndOf(h.header, b) + 1 # b
    BY <1>2, FreeBelow
  <2>2. /\ (b > h.head /\ h.foot[b - 1].tag = Free)
           <=> \E a \in G : EndOf(h.header, a) + 1 = b
        /\ \A a \in G : EndOf(h.header, a) + 1 = b
                        => b - 1 - h.foot[b - 1].size = a
    BY <1>2, FrontIs
  <2> QED BY <2>1, <2>2
<1>4. /\ After(h, b) = e + 1
      /\ (After(h, b) <= h.top /\ h.header[After(h, b)].tag = Free) <=> e + 1 \in F
      /\ e + 1 # b
  <2>1. EndOf(h.header, b) + 1 # b
    BY <1>2, FreeBelow
  <2>2. /\ After(h, b) = e + 1
        /\ (After(h, b) <= h.top /\ h.header[After(h, b)].tag = Free) <=> e + 1 \in G
    BY <1>1, <1>2, BehindIs
  <2> QED BY <2>1, <2>2, <1>1
<1>5. PICK front : front = b - 1 - h.foot[b - 1].size
  OBVIOUS
<1>6. PICK behind : behind = After(h, b)
  OBVIOUS
<1>7. PICK mf : mf = (b > h.head /\ h.foot[b - 1].tag = Free)
  OBVIOUS
<1>8. PICK mb : mb = (behind <= h.top /\ h.header[behind].tag = Free)
  OBVIOUS
<1>9. PICK k : k = IF mf THEN Merge(h, front, b) ELSE h
  OBVIOUS
<1>10. PICK x : x = IF mf THEN front ELSE b
  OBVIOUS
<1>11. g = IF mb THEN Merge(k, x, behind) ELSE k
  BY <1>5, <1>6, <1>7, <1>8, <1>9, <1>10, Zenon DEF Coalesce
<1>12. PICK H : /\ Strung(k, H, {}, held) /\ k.top = h.top /\ Joined(k, F, H, x, e)
                /\ (e + 1 \in H => e + 1 \in F)
  <2>1. CASE \E a \in F : EndOf(h.header, a) + 1 = b
    <3>1. PICK a \in F : EndOf(h.header, a) + 1 = b
      BY <2>1
    <3>2. k = Merge(h, a, b) /\ x = a
      BY <3>1, <1>3, <1>5, <1>7, <1>9, <1>10
    <3>3. Strung(k, F, {}, held) /\ k.top = h.top /\ Joined(k, F, F, x, e)
      BY <3>1, <3>2, <1>1, JoinFront
    <3> QED BY <3>3
  <2>2. CASE ~ \E a \in F : EndOf(h.header, a) + 1 = b
    <3>1. k = h /\ x = b
      BY <2>2, <1>3, <1>7, <1>9, <1>10
    <3>2. Joined(k, F, G, x, e)
      BY <2>2, <3>1, <1>1, JoinAlone
    <3>3. Strung(k, G, {}, held) /\ k.top = h.top
      BY <3>1
    <3> QED BY <3>2, <3>3, <1>4
  <2> QED BY <2>1, <2>2
<1>13. CASE e + 1 \in F
  <2>1. g = Merge(k, x, e + 1)
    BY <1>13, <1>4, <1>6, <1>8, <1>11
  <2> QED BY <2>1, <1>12, <1>13, JoinBehind
<1>14. CASE e + 1 \notin F
  <2>1. g = k
    BY <1>14, <1>4, <1>6, <1>8, <1>11
  <2>2. H # {} /\ Split(k.header, H)
    BY <1>12, <1>14, JoinedSplit
  <2> QED BY <2>1, <2>2, <1>12
<1> QED BY <1>13, <1>14


(* Entering a block keeps the free blocks apart.                           *)
LEMMA EnteredStrung ==
  ASSUME NEW h, NEW F, NEW b, NEW held, Strung(h, F, {b}, held),
         Split(h.header, F), b \in DOMAIN h.header,
         NEW g, g = Entered(h, b)
  PROVE  \E K : /\ K # {} /\ Strung(g, K, {}, held) /\ Split(g.header, K)
                /\ g.top = h.top
<1>1. PICK k : k = Insert(h, b)
  OBVIOUS
<1>2. PICK G : G = F \cup {b}
  OBVIOUS
<1>3. /\ Strung(k, G, {}, held) /\ k.top = h.top /\ DOMAIN k.header = DOMAIN h.header
      /\ \A c \in DOMAIN h.header : k.header[c].size = h.header[c].size
  <2>1. \A c : c \in G <=> c \in F \/ c = b
    BY <1>2
  <2> QED BY <2>1, <1>1, InsertStrung
<1>4. b \notin F /\ F \subseteq DOMAIN h.header
  BY DEF Strung, Marked
<1>5. \A c \in DOMAIN h.header : EndOf(k.header, c) = EndOf(h.header, c)
  BY <1>3 DEF EndOf
<1>6. Split(k.header, F)
  BY <1>4, <1>5 DEF Split
<1>7. CASE h.head = Null
  <2>1. F = {}
    <3>1. F \subseteq Nat \ {0}
      BY FreeBelow
    <3> QED BY <3>1, <1>7 DEF Strung, Linked, IsLowest, Null
  <2>2. g = k
    BY <1>1, <1>7, Zenon DEF Entered
  <2>3. EndOf(k.header, b) + 1 # b
    BY <1>2, <1>3, FreeBelow
  <2>4. Split(k.header, G)
    BY <2>1, <2>3, <1>2 DEF Split
  <2> QED BY <2>2, <2>4, <1>2, <1>3
<1>8. CASE h.head # Null
  <2>1. g = Coalesce(k, b)
    BY <1>1, <1>8, Zenon DEF Entered
  <2>2. \A c : c \in G <=> c \in F \/ c = b
    BY <1>2
  <2>3. \E K : /\ K # {} /\ Strung(g, K, {}, held) /\ Split(g.header, K)
               /\ g.top = k.top
    BY <2>1, <2>2, <1>3, <1>4, <1>6, CoalesceStrung
  <2> QED BY <2>3, <1>3
<1> QED BY <1>7, <1>8

(* Cut writes the ends of the list, or the break.                          *)
LEMMA SetEnds ==
  ASSUME NEW h, IsHeap(h), NEW x, NEW y, NEW z
  PROVE  /\ [h EXCEPT !.head = x, !.tail = y, !.lost = z] =
              [header |-> h.header, foot |-> h.foot, link |-> h.link, head |-> x,
               tail |-> y, top |-> h.top, lost |-> z]
         /\ [h EXCEPT !.top = x, !.tail = y, !.link = z] =
              [header |-> h.header, foot |-> h.foot, link |-> z, head |-> h.head,
               tail |-> y, top |-> x, lost |-> h.lost]
<1>1. PICK k : k = [h EXCEPT !.head = x]
  OBVIOUS
<1>2. k = [header |-> h.header, foot |-> h.foot, link |-> h.link, head |-> x,
           tail |-> h.tail, top |-> h.top, lost |-> h.lost]
  BY <1>1, SetWord, Zenon
<1>3. IsHeap(k)
  BY <1>2 DEF IsHeap
<1>4. PICK l : l = [k EXCEPT !.tail = y]
  OBVIOUS
<1>5. l = [header |-> k.header, foot |-> k.foot, link |-> k.link, head |-> k.head,
           tail |-> y, top |-> k.top, lost |-> k.lost]
  BY <1>3, <1>4, SetWord, Zenon
<1>6. IsHeap(l)
  BY <1>5 DEF IsHeap
<1>7. [l EXCEPT !.lost = z] =
          [header |-> l.header, foot |-> l.foot, link |-> l.link, head |-> l.head,
           tail |-> l.tail, top |-> l.top, lost |-> z]
  BY <1>6, SetWord, Zenon
<1>8. [h EXCEPT !.head = x, !.tail = y, !.lost = z] = [l EXCEPT !.lost = z]
  BY <1>1, <1>4, Zenon
<1>9. [l EXCEPT !.lost = z] =
          [header |-> h.header, foot |-> h.foot, link |-> h.link, head |-> x,
           tail |-> y, top |-> h.top, lost |-> z]
  BY <1>2, <1>5, <1>7
<1>11. PICK m : m = [h EXCEPT !.top = x]
  OBVIOUS
<1>12. m = [header |-> h.header, foot |-> h.foot, link |-> h.link,
            head |-> h.head, tail |-> h.tail, top |-> x, lost |-> h.lost]
  BY <1>11, SetWord, Zenon
<1>13. IsHeap(m)
  BY <1>12 DEF IsHeap
<1>14. PICK n : n = [m EXCEPT !.tail = y]
  OBVIOUS
<1>15. n = [header |-> m.header, foot |-> m.foot, link |-> m.link,
            head |-> m.head, tail |-> y, top |-> m.top, lost |-> m.lost]
  BY <1>13, <1>14, SetWord, Zenon
<1>16. IsHeap(n)
  BY <1>15 DEF IsHeap
<1>17. [n EXCEPT !.link = z] =
          [header |-> n.header, foot |-> n.foot, link |-> z, head |-> n.head,
           tail |-> n.tail, top |-> n.top, lost |-> n.lost]
  BY <1>16, SetWord, Zenon
<1>18. [h EXCEPT !.top = x, !.tail = y, !.link = z] = [n EXCEPT !.link = z]
  BY <1>11, <1>14, Zenon
<1>19. [n EXCEPT !.link = z] =
          [header |-> h.header, foot |-> h.foot, link |-> z, head |-> h.head,
           tail |-> y, top |-> x, lost |-> h.lost]
  BY <1>12, <1>15, <1>17
<1> QED BY <1>8, <1>9, <1>18, <1>19, Zenon

(* The next node of one.                                                   *)
NextAt(f, b, c) == [f EXCEPT ![b].next = c]

(* What Cut does with the only block of the list, if it is too much.       *)
Emptied(g, h) ==
  /\ IsHeap(g) /\ g.header = h.header /\ g.foot = h.foot /\ g.link = h.link
  /\ g.head = Null /\ g.tail = Null /\ g.top = h.top
  /\ g.lost = h.lost \cup {h.tail}

(* What Cut does when it finds too much at the top, and gives it back.     *)
Lowered(g, h, t, p, f) ==
  \E m : /\ IsHeap(m) /\ m.header = h.header /\ m.foot = h.foot
         /\ m.link = NextAt(h.link, p, Null)
         /\ m.head = h.head /\ m.tail = p /\ m.top = t - 1 /\ m.lost = h.lost
         /\ Dropped(g, m, t, f)

(* The three outcomes of the end of add_block_freeList: no cut, a cut that *)
(* empties the list, a cut of the tail.                                    *)
LEMMA CutIs ==
  ASSUME NEW h, IsHeap(h), NEW g, g = Cut(h)
  PROVE  /\ ~TopTooLarge(h) => g = h
         /\ TopTooLarge(h) /\ h.head = h.tail => Emptied(g, h)
         /\ TopTooLarge(h) /\ h.head # h.tail
              => Lowered(g, h, h.tail, h.link[h.tail].prev, FootOf(h, h.tail))
<1>1. ASSUME ~TopTooLarge(h) PROVE g = h
  BY <1>1, Zenon DEF Cut
<1>2. ASSUME TopTooLarge(h), h.head = h.tail
      PROVE  Emptied(g, h)
  <2>1. PICK l : l = h.lost \cup {h.tail}
    OBVIOUS
  <2>2. g = [h EXCEPT !.head = Null, !.tail = Null, !.lost = l]
    BY <1>2, <2>1, Zenon DEF Cut
  <2>3. g = [header |-> h.header, foot |-> h.foot, link |-> h.link,
             head |-> Null, tail |-> Null, top |-> h.top, lost |-> l]
    BY <2>2, SetEnds, Zenon
  <2> QED BY <2>1, <2>3 DEF IsHeap, Emptied
<1>3. ASSUME TopTooLarge(h), h.head # h.tail
      PROVE  Lowered(g, h, h.tail, h.link[h.tail].prev, FootOf(h, h.tail))
  <2>1. PICK t : t = h.tail
    OBVIOUS
  <2>2. PICK p : p = h.link[t].prev
    OBVIOUS
  <2>3. PICK l : l = NextAt(h.link, p, Null)
    OBVIOUS
  <2>4. PICK m : m = [h EXCEPT !.top = t - 1, !.tail = p, !.link = l]
    OBVIOUS
  <2>5. m = [header |-> h.header, foot |-> h.foot, link |-> l, head |-> h.head,
             tail |-> p, top |-> t - 1, lost |-> h.lost]
    BY <2>4, SetEnds, ZenonT(30)
  <2>6. m = [h EXCEPT !.top = t - 1, !.tail = p, !.link[p].next = Null]
    BY <2>3, <2>4, Zenon DEF NextAt
  <2>7. PICK f : f = FootOf(h, t)
    OBVIOUS
  <2>8. g = Without(m, t, f)
    BY <1>3, <2>1, <2>2, <2>6, <2>7, Zenon DEF Cut
  <2>9. IsHeap(m)
    BY <2>5 DEF IsHeap
  <2>10. Dropped(g, m, t, f)
    BY <2>8, <2>9, WithoutIs
  <2>11. Lowered(g, h, t, p, f)
    BY <2>3, <2>5, <2>9, <2>10 DEF Lowered
  <2> QED BY <2>1, <2>2, <2>7, <2>11
<1> QED BY <1>1, <1>2, <1>3

(* Writing a next link keeps the previous link and all other nodes.        *)
LEMMA NextAtIs ==
  ASSUME NEW f, NEW b \in DOMAIN f, IsNode(f[b]), NEW c
  PROVE  /\ DOMAIN NextAt(f, b, c) = DOMAIN f
         /\ NextAt(f, b, c)[b] = [prev |-> f[b].prev, next |-> c]
         /\ \A y \in DOMAIN f \ {b} : NextAt(f, b, c)[y] = f[y]
<1>1. PICK l : l = NextAt(f, b, c)
  OBVIOUS
<1>2. l = [f EXCEPT ![b].next = c]
  BY <1>1 DEF NextAt
<1>3. /\ DOMAIN l = DOMAIN f /\ l[b] = [prev |-> f[b].prev, next |-> c]
      /\ \A y \in DOMAIN f \ {b} : l[y] = f[y]
  BY <1>2, NodeSet, Zenon
<1> QED BY <1>1, <1>3

(* Lowering the break takes the last free block off everything.            *)
LEMMA LoweredLaid ==
  ASSUME NEW h, NEW F, NEW held, Strung(h, F, {}, held), Split(h.header, F),
         F # {}, EndOf(h.header, h.tail) = h.top, h.head # h.tail,
         NEW g, Lowered(g, h, h.tail, h.link[h.tail].prev, h.top)
  PROVE  /\ Laid(g, F \ {h.tail}, {}, held)
         /\ g.top \in Nat /\ g.top <= h.top
<1>1. /\ F \subseteq Nat \ {0} /\ h.top \in Nat /\ F \subseteq DOMAIN h.header
      /\ DOMAIN h.link = F /\ Chained(h.link)
      /\ \A c \in DOMAIN h.header :
           /\ c \in Nat \ {0} /\ IsWord(h.header[c])
           /\ EndOf(h.header, c) \in Nat
           /\ c < EndOf(h.header, c) /\ EndOf(h.header, c) <= h.top
  BY FreeBelow
<1>2. PICK hd : hd = h.header
  OBVIOUS
<1>3. PICK ft : ft = h.foot
  OBVIOUS
<1>4. PICK lk : lk = h.link
  OBVIOUS
<1>5. PICK t : t = h.tail
  OBVIOUS
<1>6. PICK p : p = lk[t].prev
  OBVIOUS
<1>7. PICK top : top = h.top
  OBVIOUS
<1>8. PICK head : head = h.head
  OBVIOUS
<1>9. /\ Linked(lk, head, t, F) /\ Tiling(hd, top)
      /\ Footed(hd, DOMAIN hd, ft, {}) /\ Marked(hd, DOMAIN hd, F, {}, held)
      /\ h.lost = {}
  BY <1>2, <1>3, <1>4, <1>5, <1>7, <1>8 DEF Strung
<1>10. /\ t \in F /\ t \in Nat /\ t # 0 /\ t \in DOMAIN hd /\ EndOf(hd, t) = top
       /\ t < top /\ top \in Nat /\ \A c \in F : c <= t
  <2>1. t \in F /\ \A c \in F : c <= t
    BY <1>9 DEF Linked, IsHighest
  <2>2. t \in DOMAIN hd /\ EndOf(hd, t) = top
    BY <2>1, <1>1, <1>2, <1>5, <1>7
  <2> QED BY <2>1, <2>2, <1>1, <1>2, <1>5, <1>7
<1>11. p \in F /\ p < t /\ p \in Nat /\ p # 0
  <2>1. IsPrev(F, t, p)
    BY <1>6, <1>9, <1>10 DEF Linked
  <2>2. head \in F /\ head # t
    BY <1>5, <1>8, <1>9 DEF Linked, IsLowest
  <2>3. head \in Nat /\ head < t
    BY <2>2, <1>1, <1>10
  <2>4. ~ (t <= head)
    BY <2>3, <1>10
  <2>5. p \in F /\ p < t
    BY <2>1, <2>2, <2>4 DEF IsPrev
  <2> QED BY <2>5, <1>1
<1>12. lk[t].next = Null
  <2>1. IsNext(F, t, lk[t].next)
    BY <1>9, <1>10 DEF Linked
  <2>2. PICK x : x = lk[t].next
    OBVIOUS
  <2>3. x \in F => ~ (t < x)
    <3>1. SUFFICES ASSUME x \in F PROVE ~ (t < x)
      OBVIOUS
    <3>2. t \in Nat /\ x \in Nat /\ x <= t
      BY <1>1, <1>10, <3>1
    <3> QED BY <3>2
  <2> QED BY <2>1, <2>2, <2>3 DEF IsNext
<1>13. PICK m : /\ IsHeap(m) /\ m.header = hd /\ m.foot = ft
                /\ m.link = NextAt(lk, p, Null)
                /\ m.head = head /\ m.tail = p /\ m.top = t - 1 /\ m.lost = {}
                /\ Dropped(g, m, t, top)
  BY <1>2, <1>3, <1>4, <1>5, <1>6, <1>7, <1>8, <1>9 DEF Lowered
<1>14. PICK lk2 : lk2 = g.link
  OBVIOUS
<1>15. PICK hd2 : hd2 = g.header
  OBVIOUS
<1>16. PICK ft2 : ft2 = g.foot
  OBVIOUS
<1>17. /\ IsHeap(g) /\ g.head = head /\ g.tail = p /\ g.top = t - 1 /\ g.lost = {}
       /\ \A y : y \in DOMAIN hd2 <=> y \in DOMAIN hd /\ y # t
       /\ \A y \in DOMAIN hd : y # t => hd2[y] = hd[y]
       /\ \A y : y \in DOMAIN ft2 <=> y \in DOMAIN ft /\ y # top
       /\ \A y \in DOMAIN ft : y # top => ft2[y] = ft[y]
  BY <1>13, <1>15, <1>16 DEF Dropped
<1>18. PICK ml : ml = NextAt(lk, p, Null)
  OBVIOUS
<1>19. /\ \A y : y \in DOMAIN lk2 <=> y \in DOMAIN ml /\ y # t
       /\ \A y \in DOMAIN ml : y # t => lk2[y] = ml[y]
  BY <1>13, <1>14, <1>18 DEF Dropped
<1>20. DOMAIN lk = F /\ \A c \in F : IsNode(lk[c])
  BY <1>1, <1>4 DEF Chained
<1>21. /\ DOMAIN ml = F /\ ml[p] = [prev |-> lk[p].prev, next |-> Null]
       /\ \A y \in F \ {p} : ml[y] = lk[y]
  BY <1>11, <1>18, <1>20, NextAtIs
<1>22. PICK K : K = F \ {t}
  OBVIOUS
<1>23. Linked(lk2, head, p, K)
  <2>1. \A c : c \in K <=> c \in F /\ c # t
    BY <1>22
  <2>2. DOMAIN lk2 = K
    BY <2>1, <1>19, <1>21
  <2>3. ASSUME NEW c \in K
        PROVE  /\ IsNode(lk2[c]) /\ lk2[c].prev = lk[c].prev
               /\ lk2[c].next = IF c = p THEN Null ELSE lk[c].next
    <3>1. c \in F /\ c # t /\ lk2[c] = ml[c] /\ c # Null
      BY <2>1, <1>1, <1>19, <1>21 DEF Null
    <3>2. CASE c = p
      BY <3>1, <3>2, <1>21 DEF IsNode
    <3>3. CASE c # p
      BY <3>1, <3>3, <1>20, <1>21
    <3> QED BY <3>2, <3>3
  <2>4. p # Null /\ \A c \in K : c # Null
    BY <2>1, <1>1, <1>11 DEF Null
  <2>5. UnhungIn(lk2, head, p, K, lk, head, t, F, t)
    <3>1. \A c \in K :
            /\ IsNode(lk2[c])
            /\ lk2[c].prev = IF c = lk[t].next THEN lk[t].prev ELSE lk[c].prev
            /\ lk2[c].next = IF c = lk[t].prev THEN lk[t].next ELSE lk[c].next
      BY <2>3, <2>4, <1>6, <1>12
    <3>2. /\ head = IF lk[t].prev = Null THEN lk[t].next ELSE head
          /\ p = IF lk[t].next = Null THEN lk[t].prev ELSE t
      BY <2>4, <1>6, <1>12
    <3> QED BY <2>1, <2>2, <3>1, <3>2, Zenon DEF UnhungIn
  <2>6. F \subseteq Nat \ {0}
    BY <1>1
  <2> QED BY <2>5, <2>6, <1>9, <1>10, LinkedUnhung
<1>24. Tiling(hd2, t - 1)
  <2>1. DOMAIN hd2 = DOMAIN hd \ {t}
    BY <1>17
  <2>2. \A c \in DOMAIN hd2 : hd2[c] = hd[c]
    BY <1>17
  <2> QED BY <2>1, <2>2, <1>9, <1>10, CutOff
<1>25. \A c \in DOMAIN hd2 :
         c \in DOMAIN hd /\ hd2[c] = hd[c] /\ EndOf(hd2, c) = EndOf(hd, c)
  BY <1>17 DEF EndOf
<1>26. Footed(hd2, DOMAIN hd2, ft2, {})
  <2>1. \A b, c \in DOMAIN hd : EndOf(hd, b) = EndOf(hd, c) => b = c
    BY <1>9, EndsDiffer DEF Tiling
  <2>2. ASSUME NEW c \in DOMAIN hd2
        PROVE  EndOf(hd2, c) \in DOMAIN ft2 /\ ft2[EndOf(hd2, c)] = hd2[c]
    <3>1. PICK x : x = EndOf(hd, c)
      OBVIOUS
    <3>2. c \in DOMAIN hd /\ c # t /\ x = EndOf(hd2, c) /\ hd2[c] = hd[c]
      BY <3>1, <1>17, <1>25
    <3>3. x # top /\ x \in DOMAIN ft /\ ft[x] = hd[c]
      BY <2>1, <3>1, <3>2, <1>9, <1>10 DEF Footed
    <3> QED BY <3>2, <3>3, <1>17
  <2>3. ASSUME NEW y \in DOMAIN ft2
        PROVE  \E c \in DOMAIN hd2 : y = EndOf(hd2, c)
    <3>1. PICK c \in DOMAIN hd : y = EndOf(hd, c)
      BY <1>9, <1>17 DEF Footed
    <3>2. c # t
      BY <3>1, <1>10, <1>17
    <3>3. c \in DOMAIN hd2
      BY <3>1, <3>2, <1>17
    <3> QED BY <3>1, <3>3, <1>25
  <2> QED BY <2>2, <2>3 DEF Footed
<1>27. Marked(hd2, DOMAIN hd2, K, {}, held)
  <2>1. \A c : c \in K <=> c \in F /\ c # t
    BY <1>22
  <2>2. \A c \in DOMAIN held : c # t
    BY <1>9, <1>10 DEF Marked
  <2>3. \A c \in DOMAIN held : c \in DOMAIN hd2 /\ hd2[c] = hd[c]
    BY <2>2, <1>9, <1>17 DEF Marked
  <2> QED BY <2>1, <2>3, <1>9, <1>17, <1>25 DEF Marked
<1>28. Split(hd2, K) /\ Low(hd2, K, t - 1)
  <2>1. ASSUME NEW c \in K
        PROVE  /\ EndOf(hd2, c) + 1 \notin F /\ EndOf(hd2, c) # t - 1
    <3>1. c \in F /\ c \in DOMAIN hd2
      BY <1>1, <1>2, <1>17, <1>22
    <3>2. EndOf(hd2, c) + 1 \notin F
      BY <3>1, <1>2, <1>25 DEF Split
    <3> QED BY <3>2, <1>10
  <2> QED BY <2>1, <1>22 DEF Split, Low
<1>29. Strung(g, K, {}, held)
  BY <1>14, <1>15, <1>16, <1>17, <1>23, <1>24, <1>26, <1>27 DEF Strung
<1>30. Laid(g, K, {}, held)
  BY <1>15, <1>17, <1>28, <1>29 DEF Laid
<1> QED BY <1>5, <1>7, <1>10, <1>17, <1>22, <1>30

(* The heap that has just lost a block: only its list is wrong.            *)
Spoiled(g, held) ==
  \E k, F : Strung(k, F, {}, held) /\ F # {} /\ k.top = g.top /\ Emptied(g, k)

(* Add puts the one open block on the list, or cuts it off; if it loses    *)
(* the last block of the list it says so.                                  *)
Settled(g, top, held) ==
  /\ IsHeap(g) /\ g.top \in Nat /\ g.top <= top
  /\ g.lost = {} => \E K : Laid(g, K, {}, held)
  /\ g.lost # {} => Spoiled(g, held)

(* The cut bounds the top free block, or loses the only free block of the  *)
(* heap.                                                                   *)
LEMMA CutLaid ==
  ASSUME NEW h, NEW F, NEW held, Strung(h, F, {}, held), Split(h.header, F),
         F # {}, NEW g, g = Cut(h)
  PROVE  Settled(g, h.top, held)
<1>1. /\ F \subseteq Nat \ {0} /\ h.top \in Nat /\ F \subseteq DOMAIN h.header
      /\ \A c \in DOMAIN h.header :
           /\ c \in Nat \ {0} /\ h.header[c].size \in Nat \ {0}
           /\ EndOf(h.header, c) \in Nat
           /\ c < EndOf(h.header, c) /\ EndOf(h.header, c) <= h.top
  BY FreeBelow
<1>2. h.tail \in F /\ \A c \in F : c <= h.tail
  BY DEF Strung, Linked, IsHighest
<1>3. IsHeap(h) /\ h.lost = {}
  BY DEF Strung
<1>4. /\ FootOf(h, h.tail) = EndOf(h.header, h.tail)
      /\ TopTooLarge(h) <=> /\ EndOf(h.header, h.tail) = h.top
                            /\ h.header[h.tail].size > MaxTop
  BY DEF TopTooLarge, FootOf, SizeOf, EndOf
<1>5. /\ ~TopTooLarge(h) => g = h
      /\ TopTooLarge(h) /\ h.head = h.tail
           => Emptied(g, h)
      /\ TopTooLarge(h) /\ h.head # h.tail
           => Lowered(g, h, h.tail, h.link[h.tail].prev, FootOf(h, h.tail))
  BY <1>3, CutIs
<1>6. CASE ~TopTooLarge(h)
  <2>1. Low(h.header, F, h.top)
    <3>1. SUFFICES ASSUME NEW c \in F, EndOf(h.header, c) = h.top
                   PROVE  h.header[c].size <= MaxTop
      BY DEF Low
    <3>2. c \in DOMAIN h.header /\ h.tail \in DOMAIN h.header
      BY <1>1, <1>2
    <3>3. c = h.tail
      <4>1. SUFFICES ASSUME c < h.tail PROVE FALSE
        BY <3>2, <1>1, <1>2
      <4>2. EndOf(h.header, c) < h.tail
        BY <3>2, <4>1 DEF Strung, Tiling, Spaced
      <4> QED BY <3>1, <3>2, <4>2, <1>1
    <3>4. ~(h.header[h.tail].size > MaxTop)
      BY <3>1, <3>3, <1>4, <1>6
    <3> QED BY <3>2, <3>3, <3>4, <1>1, ExcessAssumption
  <2>2. g = h
    BY <1>5, <1>6
  <2>3. Laid(h, F, {}, held)
    BY <2>1 DEF Laid
  <2> QED BY <2>2, <2>3, <1>1, <1>3 DEF Settled
<1>7. CASE TopTooLarge(h) /\ h.head = h.tail
  <2>1. Emptied(g, h)
    BY <1>5, <1>7
  <2>2. h.tail \in g.lost /\ IsHeap(g) /\ g.top = h.top
    BY <2>1 DEF Emptied
  <2>3. Spoiled(g, held)
    BY <2>1, <2>2 DEF Spoiled
  <2> QED BY <2>2, <2>3, <1>1 DEF Settled
<1>8. CASE TopTooLarge(h) /\ h.head # h.tail
  <2>1. Lowered(g, h, h.tail, h.link[h.tail].prev, h.top)
    BY <1>4, <1>5, <1>8
  <2>2. EndOf(h.header, h.tail) = h.top
    BY <1>4, <1>8
  <2>3. Laid(g, F \ {h.tail}, {}, held) /\ g.top \in Nat /\ g.top <= h.top
    BY <2>1, <2>2, <1>8, LoweredLaid
  <2>4. IsHeap(g) /\ g.lost = {}
    BY <2>3 DEF Laid, Strung
  <2> QED BY <2>3, <2>4 DEF Settled
<1> QED BY <1>6, <1>7, <1>8

(* add_block_freeList lists the block, merges it and cuts the heap, in     *)
(* that order.                                                             *)
LEMMA AddLaid ==
  ASSUME NEW h, NEW F, NEW b, NEW held, Strung(h, F, {b}, held),
         Split(h.header, F), b \in DOMAIN h.header, NEW g, g = Add(h, b)
  PROVE  Settled(g, h.top, held)
<1>1. PICK k : k = Entered(h, b)
  OBVIOUS
<1>2. PICK K : /\ K # {} /\ Strung(k, K, {}, held) /\ Split(k.header, K)
               /\ k.top = h.top
  BY <1>1, EnteredStrung
<1>3. g = Cut(k)
  BY <1>1 DEF Add
<1>4. Settled(g, k.top, held)
  BY <1>2, <1>3, CutLaid
<1> QED BY <1>2, <1>4

(* A block at the top that touches no other free one stays as it is.       *)
Topmost(h, F, b, held) ==
  /\ Laid(h, F, {b}, held) /\ b \in DOMAIN h.header
  /\ EndOf(h.header, b) = h.top /\ h.header[b].size <= MaxTop
  /\ \A a \in F : EndOf(h.header, a) + 1 # b

(* A block at the top that is small enough is listed without a cut.        *)
LEMMA AddTop ==
  ASSUME NEW h, NEW F, NEW b, NEW held, Topmost(h, F, b, held),
         NEW g, g = Add(h, b)
  PROVE  (\E G : Laid(g, G, {}, held)) /\ g.top = h.top
<1>a. /\ Laid(h, F, {b}, held) /\ b \in DOMAIN h.header
      /\ EndOf(h.header, b) = h.top /\ h.header[b].size <= MaxTop
      /\ \A a \in F : EndOf(h.header, a) + 1 # b
  BY DEF Topmost
<1>b. PICK G : G = F \cup {b}
  OBVIOUS
<1>c. \A c : c \in G <=> c \in F \/ c = b
  BY <1>b
<1>1. PICK k : k = Insert(h, b)
  OBVIOUS
<1>0. Strung(h, F, {b}, held) /\ Split(h.header, F)
  BY <1>a DEF Laid
<1>2. /\ Strung(k, G, {}, held) /\ k.top = h.top /\ DOMAIN k.header = DOMAIN h.header
      /\ \A c \in DOMAIN h.header : k.header[c].size = h.header[c].size
  BY <1>0, <1>1, <1>a, <1>c, InsertStrung
<1>3. b \notin F /\ F \subseteq DOMAIN h.header /\ b \in G
  BY <1>0, <1>c DEF Strung, Marked
<1>4. \A c \in DOMAIN h.header : EndOf(k.header, c) = EndOf(h.header, c)
  BY <1>2 DEF EndOf
<1>5. /\ k.top \in Nat /\ G \subseteq DOMAIN k.header
      /\ \A c \in DOMAIN k.header : c \in Nat /\ EndOf(k.header, c) <= k.top
  BY <1>2, FreeBelow
<1>6. EndOf(k.header, b) = k.top /\ k.top + 1 \notin G
  <2>1. EndOf(k.header, b) = k.top
    BY <1>2, <1>4, <1>a
  <2>2. ASSUME k.top + 1 \in G PROVE FALSE
    <3>1. PICK c : c = k.top + 1
      OBVIOUS
    <3>2. c \in DOMAIN k.header
      BY <2>2, <3>1, <1>5
    <3>3. c < EndOf(k.header, c) /\ EndOf(k.header, c) \in Nat
      BY <3>2, <1>2, FreeBelow
    <3> QED BY <3>1, <3>2, <3>3, <1>5
  <2> QED BY <2>1, <2>2
<1>7. Split(k.header, G)
  <2>1. Split(k.header, F)
    BY <1>0, <1>3, <1>4 DEF Split
  <2>2. \A a \in F : EndOf(k.header, a) + 1 # b
    BY <1>3, <1>4, <1>a
  <2>3. Joined(k, F, G, b, k.top)
    BY <2>1, <2>2, <1>3, <1>6, <1>c, JoinAlone
  <2> QED BY <2>3, <1>6, JoinedSplit
<1>8. \A c \in G : EndOf(k.header, c) = k.top => c = b
  BY <1>2, <1>3, <1>5, <1>6, <1>a, EndsDiffer DEF Strung, Tiling
<1>9. k.header[b].size <= MaxTop
  BY <1>2, <1>a
<1>10. Laid(k, G, {}, held)
  BY <1>2, <1>7, <1>8, <1>9 DEF Laid, Low
<1>11. Entered(h, b) = k
  <2>1. CASE h.head = Null
    BY <2>1, <1>1, Zenon DEF Entered
  <2>2. CASE h.head # Null
    <3>1. Entered(h, b) = Coalesce(k, b)
      BY <2>2, <1>1, Zenon DEF Entered
    <3>2. ~ \E a \in G : EndOf(k.header, a) + 1 = b
      <4>1. EndOf(k.header, b) + 1 # b
        BY <1>2, <1>3, FreeBelow
      <4> QED BY <4>1, <1>3, <1>4, <1>a, <1>c
    <3>3. ~(b > k.head /\ k.foot[b - 1].tag = Free)
      BY <3>2, <1>2, <1>3, FrontIs
    <3>4. ~(After(k, b) <= k.top /\ k.header[After(k, b)].tag = Free)
      BY <1>2, <1>3, <1>6, BehindIs
    <3>5. Coalesce(k, b) = k
      BY <3>3, <3>4, Zenon DEF Coalesce
    <3> QED BY <3>1, <3>5
  <2> QED BY <2>1, <2>2
<1>12. ~TopTooLarge(k)
  <2>1. k.tail \in G
    BY <1>2, <1>3 DEF Strung, Linked, IsHighest
  <2>2. EndOf(k.header, k.tail) = k.top => k.tail = b
    BY <2>1, <1>8
  <2>3. k.header[b].size \in Nat
    BY <1>2, <1>3, <1>5, FreeBelow
  <2>4. ~(k.header[b].size > MaxTop)
    BY <2>3, <1>9, ExcessAssumption
  <2> QED BY <2>2, <2>4 DEF TopTooLarge, FootOf, SizeOf, EndOf
<1>13. g = k
  <2>1. g = Cut(k)
    BY <1>11 DEF Add
  <2> QED BY <2>1, <1>2, <1>12, CutIs DEF Strung
<1> QED BY <1>2, <1>10, <1>13

(* Links seen as those of the nodes alone.                                 *)
LEMMA LinkedOnly ==
  ASSUME NEW link, NEW head, NEW tail, NEW F, \A c \in F : c \in DOMAIN link
  PROVE  /\ Linked(link, head, tail, F)
              => Linked([c \in F |-> link[c]], head, tail, F)
         /\ DOMAIN link = F /\ Linked([c \in F |-> link[c]], head, tail, F)
              => Linked(link, head, tail, F)
<1>1. PICK l : l = [c \in F |-> link[c]]
  OBVIOUS
<1>2. DOMAIN l = F /\ \A c \in F : l[c] = link[c]
  BY <1>1
<1>3. Linked(link, head, tail, F) => Linked(l, head, tail, F)
  BY <1>2 DEF Linked
<1>4. DOMAIN link = F /\ Linked(l, head, tail, F) => Linked(link, head, tail, F)
  BY <1>2 DEF Linked
<1> QED BY <1>1, <1>3, <1>4

(* Links that agree on the free blocks link the same list.                 *)
LEMMA SameLinks ==
  ASSUME NEW link, NEW F, NEW link2, \A c \in F : link2[c] = link[c],
         NEW head, NEW tail, Linked([c \in F |-> link[c]], head, tail, F)
  PROVE  Linked([c \in F |-> link2[c]], head, tail, F)
<1>1. [c \in F |-> link2[c]] = [c \in F |-> link[c]]
  OBVIOUS
<1> QED BY <1>1

(* The program holds b, and asked for n.                                   *)
Holds(held2, held, b, n) ==
  /\ \A c : c \in DOMAIN held2 <=> c \in DOMAIN held \/ c = b
  /\ held2[b] = n /\ \A c \in DOMAIN held : c # b => held2[c] = held[c]

(* Using a hole closes it.                                                 *)
Usable(h, F, R, held, b, n, k, held2) ==
  /\ n \in Nat /\ Holed(h, F, R, held, b, b + n) /\ \A c \in R : c # b
  /\ k \in Nat \ {0} /\ k <= n /\ n <= k + MinSplit
  /\ Holds(held2, held, b, k)

(* Using a hole exactly lays the heap out again, with one more block in    *)
(* use.                                                                    *)
LEMMA UseFills ==
  ASSUME NEW h, NEW F, NEW R, NEW held, NEW b, NEW n, NEW k, NEW held2,
         Usable(h, F, R, held, b, n, k, held2),
         NEW g, g = Use(h, b, n)
  PROVE  /\ Laid(g, F, R, held2) /\ g.top = h.top
         /\ \A c : c \in DOMAIN g.header <=> c \in DOMAIN h.header \/ c = b
         /\ \A c \in DOMAIN g.header : c # b => g.header[c] = h.header[c]
         /\ g.header[b].size = n
<1>1. PICK hd : hd = h.header
  OBVIOUS
<1>2. PICK ft : ft = h.foot
  OBVIOUS
<1>3. PICK lk : lk = h.link
  OBVIOUS
<1>4. PICK S : S = DOMAIN hd \ {b}
  OBVIOUS
<1>d. /\ n \in Nat /\ \A c \in R : c # b
      /\ k \in Nat \ {0} /\ k <= n /\ n <= k + MinSplit
      /\ Holds(held2, held, b, k)
  BY DEF Usable
<1>5. PICK e : e = b + n
  OBVIOUS
<1>6. /\ IsHeap(h) /\ h.lost = {}
      /\ Slot(hd, S, h.top, b, e)
      /\ Footed(hd, S, ft, {e}) /\ Marked(hd, S, F, R, held)
      /\ \A c \in F : c \in DOMAIN lk
      /\ \A c \in DOMAIN lk : c \in F \/ c = b
      /\ Linked([c \in F |-> lk[c]], h.head, h.tail, F)
      /\ Split(hd, F) /\ Low(hd, F, h.top)
  BY <1>1, <1>2, <1>3, <1>4, <1>5 DEF Usable, Holed
<1>7. /\ b \in Nat \ {0} /\ e \in Nat /\ b < e /\ n # 0
      /\ Spaced(hd, S, h.top)
      /\ \A c \in S : EndOf(hd, c) < b \/ e < c
  BY <1>5, <1>6, <1>d DEF Slot
<1>8. \A c \in S : /\ c \in Nat /\ EndOf(hd, c) \in Nat /\ c < EndOf(hd, c)
                   /\ c \notin b .. e /\ EndOf(hd, c) \notin b .. e
  <2>1. ASSUME NEW c \in S
        PROVE  /\ c \in Nat /\ EndOf(hd, c) \in Nat /\ c < EndOf(hd, c)
               /\ EndOf(hd, c) < b \/ e < c
    BY <1>7, EndAbove DEF Spaced
  <2> QED BY <2>1, <1>7
<1>9. PICK w : w = [size |-> n, tag |-> Used]
  OBVIOUS
<1>10. w.size = n /\ w.tag = Used /\ IsWord(w)
  BY <1>7, <1>9, <1>d DEF IsWord, Free, Used
<1>11. PICK hd2 : hd2 = g.header
  OBVIOUS
<1>12. PICK ft2 : ft2 = g.foot
  OBVIOUS
<1>13. PICK lk2 : lk2 = g.link
  OBVIOUS
<1>a. PICK I : I = b .. b + n - 1
  OBVIOUS
<1>b. PICK J : J = b + 1 .. b + n
  OBVIOUS
<1>c. /\ b \in I /\ b \notin J /\ e \notin I
      /\ \A x \in Nat : x \notin b .. e => x \notin I /\ x \notin J
  BY <1>a, <1>b, <1>d, <1>5, <1>7
<1>14. /\ IsHeap(g)
       /\ hd2 = Put(Drop(hd, J), b, w)
       /\ ft2 = Put(Drop(ft, I), e, w)
       /\ lk2 = Drop(lk, I)
       /\ g.head = h.head /\ g.tail = h.tail /\ g.top = h.top /\ g.lost = h.lost
  <2>1. /\ IsHeap(g)
        /\ g.header = Put(Drop(h.header, b + 1 .. b + n), b,
                           [size |-> n, tag |-> Used])
        /\ g.foot = Put(Drop(h.foot, b .. b + n - 1), b + n,
                         [size |-> n, tag |-> Used])
        /\ g.link = Drop(h.link, b .. b + n - 1)
        /\ g.head = h.head /\ g.tail = h.tail
        /\ g.top = h.top /\ g.lost = h.lost
    BY <1>6, UseIs
  <2> QED BY <2>1, <1>a, <1>b, <1>1, <1>2, <1>3, <1>5, <1>9, <1>11, <1>12, <1>13, Zenon
<1>15. /\ \A c : c \in DOMAIN hd2 <=> c \in S \/ c = b
       /\ hd2[b] = w /\ \A c \in S : hd2[c] = hd[c]
  <2>1. PICK d : d = Drop(hd, J)
    OBVIOUS
  <2>2. \A c \in S : c \notin J /\ c \in DOMAIN hd /\ c # b
    BY <1>4, <1>c, <1>8
  <2>3. \A c : c \in DOMAIN hd => c \in S \/ c = b
    BY <1>4
  <2>4. /\ \A c : c \in DOMAIN d <=> c \in DOMAIN hd /\ c \notin J
        /\ \A c \in DOMAIN hd : c \notin J => d[c] = hd[c]
    BY <2>1, DropIs
  <2>5. /\ \A c : c \in DOMAIN hd2 <=> c \in DOMAIN d \/ c = b
        /\ hd2[b] = w /\ \A c \in DOMAIN d : c # b => hd2[c] = d[c]
    BY <2>1, <1>14, PutIs
  <2> QED BY <2>2, <2>3, <2>4, <2>5
<1>16. /\ \A x : x \in DOMAIN ft2 <=> x = e \/ (x \in DOMAIN ft /\ x \notin I)
       /\ ft2[e] = w
       /\ \A x \in DOMAIN ft : x # e /\ x \notin I => ft2[x] = ft[x]
  <2>1. PICK d : d = Drop(ft, I)
    OBVIOUS
  <2>4. /\ \A c : c \in DOMAIN d <=> c \in DOMAIN ft /\ c \notin I
        /\ \A c \in DOMAIN ft : c \notin I => d[c] = ft[c]
    BY <2>1, DropIs
  <2>5. /\ \A c : c \in DOMAIN ft2 <=> c \in DOMAIN d \/ c = e
        /\ ft2[e] = w /\ \A c \in DOMAIN d : c # e => ft2[c] = d[c]
    BY <2>1, <1>14, PutIs
  <2>6. \A x : x \in DOMAIN ft2 <=> x = e \/ (x \in DOMAIN ft /\ x \notin I)
    BY <2>4, <2>5, Zenon
  <2>7. \A x \in DOMAIN ft : x # e /\ x \notin I => ft2[x] = ft[x]
    BY <2>4, <2>5, Zenon
  <2> QED BY <2>5, <2>6, <2>7, Zenon
<1>17. F \subseteq S /\ b \notin F /\ b \notin DOMAIN held
  BY <1>4, <1>6 DEF Marked
<1>18. DOMAIN lk2 = F /\ \A c \in F : lk2[c] = lk[c]
  <2>1. /\ \A c : c \in DOMAIN lk2 <=> c \in DOMAIN lk /\ c \notin I
        /\ \A c \in DOMAIN lk : c \notin I => lk2[c] = lk[c]
    BY <1>14, DropIs
  <2>2. \A c \in F : c \notin I
    BY <1>c, <1>8, <1>17
  <2>3. b \in I
    BY <1>c
  <2>4. \A c : c \in DOMAIN lk2 <=> c \in F
    BY <2>1, <2>2, <2>3, <1>6
  <2> QED BY <2>1, <2>2, <2>4, <1>6
<1>19. Linked(lk2, h.head, h.tail, F)
  <2>1. Linked([c \in F |-> lk2[c]], h.head, h.tail, F)
    BY <1>6, <1>18, SameLinks
  <2> QED BY <2>1, <1>18, LinkedOnly
<1>20. EndOf(hd2, b) = e /\ \A c \in S : EndOf(hd2, c) = EndOf(hd, c)
  BY <1>5, <1>10, <1>15 DEF EndOf
<1>21. Tiling(hd2, h.top)
  <2>1. DOMAIN hd2 = S \cup {b}
    BY <1>15
  <2>2. \A c \in S \ {b} : hd2[c] = hd[c]
    BY <1>15
  <2>3. IsWord(hd2[b])
    BY <1>10, <1>15
  <2> QED BY <2>1, <2>2, <2>3, <1>6, <1>20, FillOne
<1>22. Footed(hd2, DOMAIN hd2, ft2, {})
  <2>1. ASSUME NEW c \in DOMAIN hd2
        PROVE  EndOf(hd2, c) \in DOMAIN ft2 /\ ft2[EndOf(hd2, c)] = hd2[c]
    <3>1. CASE c = b
      <4>1. EndOf(hd2, c) = e /\ hd2[c] = w
        BY <3>1, <1>15, <1>20
      <4>2. e \in DOMAIN ft2 /\ ft2[e] = w
        BY <1>16
      <4> QED BY <4>1, <4>2
    <3>2. CASE c # b
      <4>1. c \in S /\ hd2[c] = hd[c] /\ EndOf(hd2, c) = EndOf(hd, c)
        BY <3>2, <1>15, <1>20
      <4>2. PICK x : x = EndOf(hd, c)
        OBVIOUS
      <4>3. x \in DOMAIN ft /\ ft[x] = hd[c] /\ x \in Nat /\ x \notin b .. e
        BY <4>1, <4>2, <1>6, <1>8 DEF Footed
      <4>4. x # e /\ x \notin I
        BY <4>3, <1>c, <1>7
      <4> QED BY <4>1, <4>2, <4>3, <4>4, <1>16
    <3> QED BY <3>1, <3>2
  <2>2. ASSUME NEW x \in DOMAIN ft2
        PROVE  \E c \in DOMAIN hd2 : x = EndOf(hd2, c)
    <3>1. CASE x = e
      BY <3>1, <1>15, <1>20
    <3>2. CASE x # e
      <4>1. PICK c \in S : x = EndOf(hd, c)
        BY <3>2, <1>6, <1>16 DEF Footed
      <4> QED BY <4>1, <1>15, <1>20
    <3> QED BY <3>1, <3>2
  <2> QED BY <2>1, <2>2 DEF Footed
<1>23. Marked(hd2, DOMAIN hd2, F, R, held2)
  <2>1. \A c \in F : c \in DOMAIN hd2 /\ c \notin R
    BY <1>6, <1>15 DEF Marked
  <2>2. \A c \in DOMAIN hd2 : c \in R \/ (hd2[c].tag = Free <=> c \in F)
    <3>1. hd2[b].tag # Free
      BY <1>10, <1>15 DEF Free, Used
    <3> QED BY <3>1, <1>6, <1>15, <1>17 DEF Marked
  <2>3. \A c \in DOMAIN hd2 : c \in F \/ c \in R \/ c \in DOMAIN held2
    BY <1>6, <1>15 DEF Usable, Marked, Holds
  <2>4. ASSUME NEW c \in DOMAIN held2
        PROVE  /\ c \in DOMAIN hd2 /\ c \notin F /\ c \notin R
               /\ held2[c] \in Nat \ {0} /\ held2[c] <= hd2[c].size
               /\ hd2[c].size <= held2[c] + MinSplit
    <3>1. CASE c = b
      BY <3>1, <1>10, <1>15, <1>17, <1>d DEF Holds
    <3>2. CASE c # b
      <4>1. c \in DOMAIN held /\ held2[c] = held[c]
        BY <3>2, <1>d DEF Holds
      <4>2. c \in S
        BY <4>1, <1>6 DEF Marked
      <4> QED BY <4>1, <4>2, <1>6, <1>15 DEF Marked
    <3> QED BY <3>1, <3>2
  <2> QED BY <2>1, <2>2, <2>3, <2>4 DEF Marked
<1>24. Split(hd2, F) /\ Low(hd2, F, h.top)
  <2>1. \A c \in F : EndOf(hd2, c) = EndOf(hd, c) /\ hd2[c] = hd[c]
    BY <1>15, <1>17, <1>20
  <2> QED BY <2>1, <1>6 DEF Split, Low
<1>25. Strung(g, F, R, held2)
  BY <1>6, <1>11, <1>12, <1>13, <1>14, <1>19, <1>21, <1>22, <1>23 DEF Strung
<1>26. Laid(g, F, R, held2)
  BY <1>11, <1>14, <1>24, <1>25 DEF Laid
<1>27. /\ \A c : c \in DOMAIN hd2 <=> c \in DOMAIN hd \/ c = b
       /\ \A c \in DOMAIN hd2 : c # b => hd2[c] = hd[c]
       /\ hd2[b].size = n
  BY <1>4, <1>10, <1>15
<1> QED BY <1>1, <1>11, <1>14, <1>26, <1>27

(* Writing a free block at the upper end of a hole leaves a smaller one.   *)
LEMMA RestWritten ==
  ASSUME NEW h, NEW F, NEW held, NEW b, NEW e, Holed(h, F, {}, held, b, e),
         NEW r \in Nat, b + 1 < r, NEW m \in Nat \ {0}, r + m = e,
         NEW g, g = Write(h, r, m, Free),
         NEW R, R = {r}, NEW f, f = r - 1
  PROVE  /\ Holed(g, F, R, held, b, f) /\ g.top = h.top
         /\ r \notin F /\ r \in DOMAIN g.header /\ g.header[r].size = m
         /\ \A c \in F : g.header[c] = h.header[c]
<1>1. PICK hd : hd = h.header
  OBVIOUS
<1>2. PICK ft : ft = h.foot
  OBVIOUS
<1>3. PICK S : S = DOMAIN hd \ {b}
  OBVIOUS
<1>4. /\ IsHeap(h) /\ h.lost = {}
      /\ Slot(hd, S, h.top, b, e)
      /\ Footed(hd, S, ft, {e}) /\ Marked(hd, S, F, {}, held)
      /\ Split(hd, F) /\ Low(hd, F, h.top)
  BY <1>1, <1>2, <1>3 DEF Holed
<1>5. /\ b \in Nat \ {0} /\ e \in Nat /\ b < e /\ Spaced(hd, S, h.top)
      /\ \A c \in S : EndOf(hd, c) < b \/ e < c
  BY <1>4 DEF Slot
<1>6. \A c \in S : c \in Nat /\ EndOf(hd, c) \in Nat /\ c < EndOf(hd, c)
  BY <1>5, EndAbove DEF Spaced
<1>7. r < e /\ r # b /\ r \notin S /\ \A c \in S : EndOf(hd, c) # e
  <2>1. r < e /\ r # b
    BY <1>5
  <2>2. ASSUME NEW c \in S PROVE c # r /\ EndOf(hd, c) # e
    BY <2>1, <1>5, <1>6
  <2> QED BY <2>1, <2>2
<1>8. PICK w : w = [size |-> m, tag |-> Free]
  OBVIOUS
<1>9. w.size = m /\ w.tag = Free /\ IsWord(w)
  BY <1>8 DEF IsWord, Free, Used
<1>10. PICK hd2 : hd2 = g.header
  OBVIOUS
<1>11. PICK ft2 : ft2 = g.foot
  OBVIOUS
<1>12. /\ IsHeap(g) /\ hd2 = Put(hd, r, w) /\ ft2 = Put(ft, e, w)
       /\ g.link = h.link /\ g.head = h.head /\ g.tail = h.tail
       /\ g.top = h.top /\ g.lost = h.lost
  BY <1>1, <1>2, <1>4, <1>8, <1>10, <1>11, WriteIs
<1>13. /\ \A y : y \in DOMAIN hd2 <=> y \in DOMAIN hd \/ y = r
       /\ hd2[r] = w /\ \A y \in DOMAIN hd : y # r => hd2[y] = hd[y]
  BY <1>12, PutIs
<1>14. /\ \A y : y \in DOMAIN ft2 <=> y \in DOMAIN ft \/ y = e
       /\ ft2[e] = w /\ \A y \in DOMAIN ft : y # e => ft2[y] = ft[y]
  BY <1>12, PutIs
<1>15. PICK S2 : S2 = DOMAIN hd2 \ {b}
  OBVIOUS
<1>16. /\ \A c : c \in S2 <=> c \in S \/ c = r
       /\ \A c \in S : hd2[c] = hd[c]
  BY <1>3, <1>7, <1>13, <1>15
<1>17. EndOf(hd2, r) = e /\ \A c \in S : EndOf(hd2, c) = EndOf(hd, c)
  BY <1>9, <1>13, <1>16 DEF EndOf
<1>18. Slot(hd2, S2, h.top, b, r - 1)
  <2>1. \A c \in S \ {r} : hd2[c] = hd[c]
    BY <1>16
  <2>2. IsWord(hd2[r])
    BY <1>9, <1>13
  <2>3. \A c : c \in S2 <=> c \in S \/ c = r
    BY <1>16
  <2> QED BY <2>1, <2>2, <2>3, <1>4, <1>17, FillAbove
<1>19. Footed(hd2, S2, ft2, {r - 1})
  <2>1. ASSUME NEW c \in S2
        PROVE  EndOf(hd2, c) \in DOMAIN ft2 /\ ft2[EndOf(hd2, c)] = hd2[c]
    <3>1. CASE c = r
      BY <3>1, <1>13, <1>14, <1>17
    <3>2. CASE c # r
      <4>1. PICK x : x = EndOf(hd, c)
        OBVIOUS
      <4>2. c \in S /\ hd2[c] = hd[c] /\ EndOf(hd2, c) = x
        BY <3>2, <4>1, <1>16, <1>17
      <4>3. x # e /\ x \in DOMAIN ft /\ ft[x] = hd[c]
        BY <4>1, <4>2, <1>4, <1>7 DEF Footed
      <4> QED BY <4>2, <4>3, <1>14
    <3> QED BY <3>1, <3>2
  <2>2. ASSUME NEW x \in DOMAIN ft2
        PROVE  \E c \in S2 : x = EndOf(hd2, c)
    <3>1. CASE x = e
      BY <3>1, <1>16, <1>17
    <3>2. CASE x # e
      <4>1. PICK c \in S : x = EndOf(hd, c)
        BY <3>2, <1>4, <1>14 DEF Footed
      <4> QED BY <4>1, <1>16, <1>17
    <3> QED BY <3>1, <3>2
  <2> QED BY <2>1, <2>2 DEF Footed
<1>20. \A c \in F : c \in S /\ c # r
  BY <1>4, <1>7 DEF Marked
<1>21. Marked(hd2, S2, F, {r}, held)
  <2>1. \A c \in DOMAIN held : c \in S /\ c # r
    BY <1>4, <1>7 DEF Marked
  <2> QED BY <2>1, <1>4, <1>16, <1>20 DEF Marked
<1>22. Split(hd2, F) /\ Low(hd2, F, h.top)
  <2>1. \A c \in F : EndOf(hd2, c) = EndOf(hd, c) /\ hd2[c] = hd[c]
    BY <1>16, <1>17, <1>20
  <2> QED BY <2>1, <1>4 DEF Split, Low
<1>23. /\ \A c \in F : c \in DOMAIN h.link
       /\ \A c \in DOMAIN h.link : c \in F \/ c = b
       /\ Linked([c \in F |-> h.link[c]], h.head, h.tail, F)
  BY DEF Holed
<1>24. Holed(g, F, R, held, b, f)
  BY <1>4, <1>10, <1>11, <1>12, <1>15, <1>18, <1>19, <1>21, <1>22, <1>23 DEF Holed
<1>25. r \in DOMAIN hd2 /\ hd2[r].size = m /\ \A c \in F : hd2[c] = hd[c]
  BY <1>9, <1>13, <1>16, <1>20
<1> QED BY <1>1, <1>10, <1>12, <1>20, <1>24, <1>25

(* The program no longer holds b.                                          *)
Released(held1, held, b) ==
  /\ \A c : c \in DOMAIN held1 <=> c \in DOMAIN held /\ c # b
  /\ \A c \in DOMAIN held1 : held1[c] = held[c]

(* A block that is neither free nor held is a hole.                        *)
LEMMA HoledAt ==
  ASSUME NEW h, NEW F, NEW held, Laid(h, F, {}, held), NEW b \in DOMAIN held,
         NEW held1, Released(held1, held, b)
  PROVE  /\ Holed(h, F, {}, held1, b, EndOf(h.header, b))
         /\ Laid(h, F, {b}, held1) /\ b \in DOMAIN h.header /\ b \notin F
<1>1. PICK hd : hd = h.header
  OBVIOUS
<1>2. PICK S : S = DOMAIN hd \ {b}
  OBVIOUS
<1>3. /\ Marked(hd, DOMAIN hd, F, {}, held) /\ Split(hd, F) /\ Low(hd, F, h.top)
      /\ Tiling(hd, h.top) /\ Footed(hd, DOMAIN hd, h.foot, {})
      /\ Linked(h.link, h.head, h.tail, F) /\ DOMAIN h.link = F
      /\ IsHeap(h) /\ h.lost = {}
  BY <1>1 DEF Laid, Strung, Linked
<1>4. b \in DOMAIN hd /\ b \notin F
  BY <1>3 DEF Marked
<1>5. Slot(hd, S, h.top, b, EndOf(hd, b))
  BY <1>2, <1>3, <1>4, HoleOf
<1>6. Footed(hd, S, h.foot, {EndOf(hd, b)})
  BY <1>2, <1>3 DEF Footed
<1>7. Marked(hd, S, F, {}, held1) /\ Marked(hd, DOMAIN hd, F, {b}, held1)
  BY <1>2, <1>3, <1>4 DEF Marked, Released
<1>8. Linked([c \in F |-> h.link[c]], h.head, h.tail, F)
  BY <1>3, LinkedOnly
<1>9. Holed(h, F, {}, held1, b, EndOf(hd, b))
  BY <1>1, <1>2, <1>3, <1>5, <1>6, <1>7, <1>8 DEF Holed
<1>10. Laid(h, F, {b}, held1)
  BY <1>1, <1>3, <1>7 DEF Laid, Strung
<1> QED BY <1>1, <1>4, <1>9, <1>10

(* So is a node taken off the list.                                        *)
LEMMA RemoveHoled ==
  ASSUME NEW h, NEW F, NEW held, Laid(h, F, {}, held), NEW b \in F,
         NEW G, \A c : c \in G <=> c \in F /\ c # b,
         NEW g, g = Remove(h, b)
  PROVE  /\ Holed(g, G, {}, held, b, EndOf(h.header, b))
         /\ g.header = h.header /\ g.foot = h.foot /\ g.top = h.top
         /\ b \notin DOMAIN g.link /\ Linked(g.link, g.head, g.tail, G)
<1>1. PICK hd : hd = h.header
  OBVIOUS
<1>2. PICK S : S = DOMAIN hd \ {b}
  OBVIOUS
<1>3. /\ Marked(hd, DOMAIN hd, F, {}, held) /\ Split(hd, F) /\ Low(hd, F, h.top)
      /\ Tiling(hd, h.top) /\ Footed(hd, DOMAIN hd, h.foot, {})
      /\ IsHeap(h) /\ h.lost = {} /\ Strung(h, F, {}, held)
      /\ Linked(h.link, h.head, h.tail, F)
  BY <1>1 DEF Laid, Strung
<1>4. /\ F \subseteq Nat \ {0} /\ DOMAIN h.link = F /\ Chained(h.link)
      /\ b \in DOMAIN hd
  BY <1>1, <1>3, FreeBelow
<1>5. PICK before : before = h.link[b].prev
  OBVIOUS
<1>6. PICK after : after = h.link[b].next
  OBVIOUS
<1>7. /\ before # b /\ (before = Null \/ before \in F)
      /\ after # b /\ (after = Null \/ after \in F)
  <2>1. IsPrev(F, b, before) /\ IsNext(F, b, after)
    BY <1>3, <1>5, <1>6 DEF Linked
  <2>2. b \in Nat /\ b # Null
    BY <1>4 DEF Null
  <2> QED BY <2>1, <2>2 DEF IsPrev, IsNext
<1>8. Unhung(g, h, b, before, after)
  <2>1. b \in DOMAIN h.link /\ (before = Null \/ before \in DOMAIN h.link)
        /\ (after = Null \/ after \in DOMAIN h.link)
    BY <1>4, <1>7
  <2> QED BY <2>1, <1>3, <1>4, <1>5, <1>6, <1>7, RemoveIs
<1>9. /\ IsHeap(g) /\ g.header = hd /\ g.foot = h.foot /\ g.top = h.top
      /\ g.lost = {} /\ b \notin DOMAIN g.link
      /\ \A c : c \in DOMAIN g.link <=> c \in G
  BY <1>1, <1>3, <1>4, <1>8 DEF Unhung, SameBlocks
<1>10. Linked(g.link, g.head, g.tail, G)
  BY <1>3, <1>4, <1>5, <1>6, <1>8, UnhungLinked
<1>11. Linked([c \in G |-> g.link[c]], g.head, g.tail, G)
  BY <1>9, <1>10, LinkedOnly
<1>12. Slot(hd, S, h.top, b, EndOf(hd, b))
  BY <1>2, <1>3, <1>4, HoleOf
<1>13. Footed(hd, S, h.foot, {EndOf(hd, b)})
  BY <1>2, <1>3 DEF Footed
<1>14. Marked(hd, S, G, {}, held)
  BY <1>2, <1>3, <1>4 DEF Marked
<1>15. Split(hd, G) /\ Low(hd, G, h.top)
  BY <1>3 DEF Split, Low
<1>16. Holed(g, G, {}, held, b, EndOf(hd, b))
  BY <1>2, <1>9, <1>11, <1>12, <1>13, <1>14, <1>15 DEF Holed
<1> QED BY <1>1, <1>9, <1>10, <1>16

(* A free block is split: what is left of it takes its place on the list.  *)
LEMMA SplitHoled ==
  ASSUME NEW h, NEW F, NEW held, Laid(h, F, {}, held), NEW b \in F,
         NEW r \in Nat, b + 1 < r, NEW m \in Nat \ {0},
         r + m = EndOf(h.header, b),
         NEW k, k = Write(h, r, m, Free), NEW g, g = Replace(k, b, r),
         NEW G, \A c : c \in G <=> (c \in F /\ c # b) \/ c = r
  PROVE  Holed(g, G, {}, held, b, r - 1) /\ g.top = h.top
<1>1. PICK hd : hd = h.header
  OBVIOUS
<1>2. /\ Split(hd, F) /\ Low(hd, F, h.top) /\ IsHeap(h) /\ h.lost = {}
      /\ Strung(h, F, {}, held) /\ Linked(h.link, h.head, h.tail, F)
      /\ Tiling(hd, h.top)
  BY <1>1 DEF Laid, Strung
<1>3. /\ F \subseteq Nat \ {0} /\ F \subseteq DOMAIN hd
      /\ DOMAIN h.link = F /\ Chained(h.link)
      /\ b \in Nat /\ EndOf(hd, b) \in Nat
  BY <1>1, <1>2, FreeBelow
<1>4. PICK e : e = EndOf(hd, b)
  OBVIOUS
<1>5. /\ e \in Nat /\ r + m = e /\ b < r /\ r < e
  BY <1>1, <1>3, <1>4
<1>6. PICK before : before = h.link[b].prev
  OBVIOUS
<1>7. PICK after : after = h.link[b].next
  OBVIOUS
<1>8. /\ IsPrev(F, b, before) /\ IsNext(F, b, after)
      /\ Beside(h.link, b, before, after)
  BY <1>2, <1>6, <1>7 DEF Linked, Beside
<1>9. PICK K : K = F \ {b}
  OBVIOUS
<1>10. PICK h1 : h1 = Remove(h, b)
  OBVIOUS
<1>11. /\ Holed(h1, K, {}, held, b, e)
       /\ h1.header = hd /\ h1.foot = h.foot /\ h1.top = h.top
  <2>1. \A c : c \in K <=> c \in F /\ c # b
    BY <1>9
  <2> QED BY <2>1, <1>1, <1>4, <1>10, RemoveHoled
<1>12. PICK k1 : k1 = Write(h1, r, m, Free)
  OBVIOUS
<1>13. /\ Holed(k1, K, {r}, held, b, r - 1) /\ k1.top = h.top
       /\ r \notin K /\ r \in DOMAIN k1.header /\ k1.header[r].size = m
       /\ \A c \in K : k1.header[c] = hd[c]
  <2>1. /\ Holed(k1, K, {r}, held, b, r - 1) /\ k1.top = h1.top
        /\ r \notin K /\ r \in DOMAIN k1.header /\ k1.header[r].size = m
        /\ \A c \in K : k1.header[c] = h1.header[c]
    <3>1. PICK R : R = {r}
      OBVIOUS
    <3>2. PICK f : f = r - 1
      OBVIOUS
    <3>3. /\ Holed(k1, K, R, held, b, f) /\ k1.top = h1.top
          /\ r \notin K /\ r \in DOMAIN k1.header /\ k1.header[r].size = m
          /\ \A c \in K : k1.header[c] = h1.header[c]
      BY <3>1, <3>2, <1>5, <1>11, <1>12, RestWritten
    <3> QED BY <3>1, <3>2, <3>3
  <2> QED BY <2>1, <1>11
<1>14. PICK w : w = [size |-> m, tag |-> Free]
  OBVIOUS
<1>15. PICK hd2 : hd2 = Put(hd, r, w)
  OBVIOUS
<1>16. PICK ft2 : ft2 = Put(h.foot, e, w)
  OBVIOUS
<1>17. k1.header = hd2 /\ k1.foot = ft2
  <2>1. IsHeap(h1)
    BY <1>11 DEF Holed
  <2>2. /\ k1.header = Put(h1.header, r, [size |-> m, tag |-> Free])
        /\ k1.foot = Put(h1.foot, r + m, [size |-> m, tag |-> Free])
    BY <2>1, <1>12, WriteIs
  <2> QED BY <2>2, <1>5, <1>11, <1>14, <1>15, <1>16, Zenon
<1>18. /\ IsHeap(k) /\ k.header = hd2 /\ k.foot = ft2 /\ k.link = h.link
       /\ k.head = h.head /\ k.tail = h.tail /\ k.top = h.top /\ k.lost = {}
  <2>1. /\ IsHeap(k)
        /\ k.header = Put(h.header, r, [size |-> m, tag |-> Free])
        /\ k.foot = Put(h.foot, r + m, [size |-> m, tag |-> Free])
        /\ k.link = h.link /\ k.head = h.head /\ k.tail = h.tail
        /\ k.top = h.top /\ k.lost = h.lost
    BY <1>2, WriteIs
  <2> QED BY <2>1, <1>1, <1>2, <1>5, <1>14, <1>15, <1>16, Zenon
<1>19. hd2[r] = w /\ w.tag = Free /\ w.size = m
  BY <1>14, <1>15, PutIs
<1>20. r # b /\ r \notin F /\ r # Null
  BY <1>3, <1>5, <1>9, <1>13 DEF Null
<1>21. Hung(g, k, r, before, after)
  <2>1. g = Hang(k, r, before, after)
    BY <1>6, <1>7, <1>18 DEF Replace
  <2>2. /\ before \in DOMAIN k.link \cup {Null}
        /\ after \in DOMAIN k.link \cup {Null}
    BY <1>3, <1>8, <1>18 DEF IsPrev, IsNext
  <2>3. Chained(k.link) /\ r \notin DOMAIN k.link
    BY <1>3, <1>18, <1>20
  <2> QED BY <2>1, <2>2, <2>3, <1>18, <1>20, HangIs
<1>22. /\ IsHeap(g) /\ g.header = hd2 /\ g.foot = ft2 /\ g.top = h.top
       /\ g.lost = {} /\ \A y : y \in DOMAIN g.link <=> y \in F \/ y = r
  BY <1>3, <1>18, <1>21 DEF Hung, SameBlocks
<1>23. PICK lk2 : lk2 = [c \in G |-> g.link[c]]
  OBVIOUS
<1>24. MovedIn(lk2, g.head, g.tail, G, h.link, h.head, h.tail, F, b, r, before, after)
  <2>1. DOMAIN lk2 = G /\ \A c \in G : lk2[c] = g.link[c]
    BY <1>23
  <2>2. r \in G
    OBVIOUS
  <2>3. IsNode(lk2[r]) /\ Beside(lk2, r, before, after)
    <3>1. lk2[r] = [prev |-> before, next |-> after]
      BY <2>1, <2>2, <1>21 DEF Hung
    <3> QED BY <3>1 DEF IsNode, Beside
  <2>4. ASSUME NEW c \in F, c # b
        PROVE  /\ IsNode(lk2[c])
               /\ lk2[c].prev = IF c = after THEN r ELSE h.link[c].prev
               /\ lk2[c].next = IF c = before THEN r ELSE h.link[c].next
    <3>1. lk2[c] = g.link[c] /\ c \in DOMAIN h.link /\ c \in DOMAIN g.link
      BY <2>1, <2>4, <1>3, <1>22
    <3>2. IsNode(g.link[c])
      BY <3>1, <1>21 DEF Hung, Chained
    <3>3. /\ g.link[c].prev = IF c = after THEN r ELSE h.link[c].prev
          /\ g.link[c].next = IF c = before THEN r ELSE h.link[c].next
      BY <3>1, <1>18, <1>21 DEF Hung
    <3> QED BY <3>1, <3>2, <3>3, Zenon
  <2>5. /\ g.head = IF before = Null THEN r ELSE h.head
        /\ g.tail = IF after = Null THEN r ELSE h.tail
    BY <1>18, <1>21 DEF Hung
  <2> QED BY <2>1, <2>3, <2>4, <2>5, Zenon DEF MovedIn
<1>25. Linked(lk2, g.head, g.tail, G)
  <2>1. \A c \in F : b < c => r < c
    <3>1. SUFFICES ASSUME NEW c \in F, b < c PROVE r < c
      OBVIOUS
    <3>2. e < c
      BY <3>1, <1>2, <1>3, <1>4 DEF Tiling, Spaced
    <3> QED BY <3>2, <1>3, <1>5
  <2>2. r \in Nat \ {0} /\ F \subseteq Nat \ {0}
    BY <1>3, <1>5
  <2> QED BY <2>1, <2>2, <1>2, <1>5, <1>8, <1>20, <1>24, Relinked
<1>26. PICK S2 : S2 = DOMAIN hd2 \ {b}
  OBVIOUS
<1>27. /\ Slot(hd2, S2, h.top, b, r - 1) /\ Footed(hd2, S2, ft2, {r - 1})
       /\ Marked(hd2, S2, K, {r}, held)
       /\ Split(hd2, K) /\ Low(hd2, K, h.top)
  BY <1>13, <1>17, <1>26 DEF Holed
<1>28. \A c : c \in G <=> c \in K \/ c = r
  BY <1>9
<1>29. Marked(hd2, S2, G, {}, held)
  <2>1. r \in S2
    BY <1>13, <1>17, <1>20, <1>26
  <2> QED BY <2>1, <1>19, <1>27, <1>28 DEF Marked
<1>30. EndOf(hd2, r) = e
  BY <1>5, <1>19 DEF EndOf
<1>31. e + 1 \notin G
  <2>1. e + 1 # r
    BY <1>5
  <2> QED BY <2>1, <1>2, <1>4 DEF Split
<1>32. \A c \in K : EndOf(hd2, c) + 1 # r
  <2>1. SUFFICES ASSUME NEW c \in K PROVE EndOf(hd2, c) + 1 # r
    OBVIOUS
  <2>2. c \in S2
    BY <1>27 DEF Marked
  <2>3. EndOf(hd2, c) \in Nat /\ c < EndOf(hd2, c) /\ c \in Nat
    BY <2>2, <1>3, <1>9, <1>27, EndAbove DEF Slot
  <2>4. EndOf(hd2, c) < b \/ r - 1 < c
    BY <2>2, <1>27 DEF Slot
  <2> QED BY <2>3, <2>4, <1>3, <1>5
<1>33. Split(hd2, G)
  BY <1>27, <1>28, <1>30, <1>31, <1>32 DEF Split
<1>34. Low(hd2, G, h.top)
  <2>1. ASSUME e = h.top PROVE m <= MaxTop
    <3>1. hd[b].size <= MaxTop
      BY <2>1, <1>2, <1>4 DEF Low
    <3>2. hd[b].size \in Nat /\ b + hd[b].size = e
      BY <1>1, <1>2, <1>3, <1>4, FreeBelow DEF EndOf
    <3> QED BY <3>1, <3>2, <1>3, <1>5, ExcessAssumption
  <2> QED BY <2>1, <1>19, <1>27, <1>28, <1>30 DEF Low
<1>35. \A c \in G : c \in DOMAIN g.link
  BY <1>22
<1>36. \A c \in DOMAIN g.link : c \in G \/ c = b
  BY <1>22
<1>37. Linked([c \in G |-> g.link[c]], g.head, g.tail, G)
  BY <1>23, <1>25
<1> QED BY <1>22, <1>26, <1>27, <1>29, <1>33, <1>34, <1>35, <1>36, <1>37 DEF Holed

(* The room that a higher break opens, alone or with the last block.       *)
Opened(h, F, held, n, x) ==
  Laid(h, F, {}, held) /\ n \in Nat \ {0} /\ x = h.top + 1 + n

(* Moving the break up opens a hole above the last block.                  *)
LEMMA RoomAbove ==
  ASSUME NEW h, NEW F, NEW held, NEW n, NEW x, Opened(h, F, held, n, x),
         NEW g, g = [h EXCEPT !.top = x]
  PROVE  /\ Holed(g, F, {}, held, h.top + 1, x)
         /\ g.top = x /\ h.top \in Nat
         /\ \A a \in F : EndOf(g.header, a) <= h.top
<1>o. Laid(h, F, {}, held) /\ n \in Nat \ {0} /\ x = h.top + 1 + n
  BY Zenon DEF Opened
<1> USE <1>o
<1>1. PICK hd : hd = h.header
  OBVIOUS
<1>2. PICK b : b = h.top + 1
  OBVIOUS
<1>3. PICK e : e = h.top + 1 + n /\ e = x
  OBVIOUS
<1>4. /\ Marked(hd, DOMAIN hd, F, {}, held) /\ Split(hd, F) /\ Low(hd, F, h.top)
      /\ Tiling(hd, h.top) /\ Footed(hd, DOMAIN hd, h.foot, {})
      /\ IsHeap(h) /\ h.lost = {} /\ Strung(h, F, {}, held)
      /\ Linked(h.link, h.head, h.tail, F)
  BY <1>1 DEF Laid, Strung
<1>5. /\ F \subseteq Nat \ {0} /\ DOMAIN h.link = F /\ h.top \in Nat
      /\ F \subseteq DOMAIN hd
      /\ \A c \in DOMAIN hd : /\ c \in Nat /\ EndOf(hd, c) \in Nat
                              /\ c < EndOf(hd, c) /\ EndOf(hd, c) <= h.top
  BY <1>1, <1>4, FreeBelow
<1>6. /\ IsHeap(g) /\ g.header = hd /\ g.foot = h.foot /\ g.link = h.link
      /\ g.head = h.head /\ g.tail = h.tail /\ g.top = e /\ g.lost = {}
  <2>1. g = [h EXCEPT !.top = e]
    BY <1>3, Zenon
  <2>2. g = [header |-> h.header, foot |-> h.foot, link |-> h.link,
             head |-> h.head, tail |-> h.tail, top |-> e, lost |-> h.lost]
    BY <2>1, <1>4, SetWord, ZenonT(30)
  <2> QED BY <2>2, <1>1, <1>4 DEF IsHeap
<1>7. DOMAIN hd \ {b} = DOMAIN hd
  BY <1>2, <1>5
<1>8. Slot(hd, DOMAIN hd, e, b, e)
  BY <1>2, <1>3, <1>4, HoleAbove
<1>9. Footed(hd, DOMAIN hd, h.foot, {e})
  BY <1>4 DEF Footed
<1>10. Low(hd, F, e)
  <2>1. \A c \in F : EndOf(hd, c) # e
    BY <1>3, <1>5
  <2> QED BY <2>1 DEF Low
<1>11. Linked([c \in F |-> g.link[c]], g.head, g.tail, F)
  BY <1>4, <1>5, <1>6, LinkedOnly
<1>12. \A c \in F : c \in DOMAIN g.link
  BY <1>5, <1>6
<1>13. \A c \in DOMAIN g.link : c \in F \/ c = b
  BY <1>5, <1>6
<1>14. Holed(g, F, {}, held, b, e)
  BY <1>4, <1>6, <1>7, <1>8, <1>9, <1>10, <1>11, <1>12, <1>13 DEF Holed
<1> QED BY <1>2, <1>3, <1>5, <1>6, <1>14

(* The end of the heap is free exactly if the last of the list lies there. *)
LEMMA EndsFreeIs ==
  ASSUME NEW h, NEW F, NEW held, Laid(h, F, {}, held)
  PROVE  /\ EndsFree(h) => /\ h.tail \in F /\ EndOf(h.header, h.tail) = h.top
                           /\ h.foot[h.top].size = h.header[h.tail].size
         /\ ~EndsFree(h) => \A c \in F : EndOf(h.header, c) # h.top
<1>1. /\ Strung(h, F, {}, held) /\ Linked(h.link, h.head, h.tail, F)
      /\ Marked(h.header, DOMAIN h.header, F, {}, held)
      /\ Tiling(h.header, h.top) /\ Footed(h.header, DOMAIN h.header, h.foot, {})
  BY DEF Laid, Strung
<1>2. /\ F \subseteq Nat \ {0} /\ F \subseteq DOMAIN h.header /\ h.top \in Nat
      /\ \A c \in DOMAIN h.header :
           /\ c \in Nat \ {0} /\ EndOf(h.header, c) \in Nat
           /\ c < EndOf(h.header, c) /\ EndOf(h.header, c) <= h.top
  BY <1>1, FreeBelow
<1>3. h.head # Null <=> F # {}
  BY <1>1, <1>2 DEF Linked, IsLowest, Null
<1>4. \A c \in DOMAIN h.header :
        EndOf(h.header, c) = h.top => h.foot[h.top] = h.header[c]
  BY <1>1 DEF Footed
<1>5. \A c \in DOMAIN h.header : h.header[c].tag = Free <=> c \in F
  BY <1>1 DEF Marked
<1>6. ASSUME EndsFree(h)
      PROVE  /\ h.tail \in F /\ EndOf(h.header, h.tail) = h.top
             /\ h.foot[h.top].size = h.header[h.tail].size
  <2>1. F # {} /\ h.foot[h.top].tag = Free
    BY <1>3, <1>6 DEF EndsFree
  <2>2. h.tail \in F /\ \A c \in F : c <= h.tail
    BY <2>1, <1>1 DEF Linked, IsHighest
  <2>3. h.top # 0
    <3>1. h.tail \in DOMAIN h.header
      BY <2>2, <1>2
    <3>2. PICK z : z = EndOf(h.header, h.tail)
      OBVIOUS
    <3>3. z \in Nat /\ h.tail \in Nat /\ h.tail < z /\ z <= h.top
      BY <3>1, <3>2, <1>2
    <3> QED BY <3>3, <1>2
  <2>4. PICK c \in DOMAIN h.header : EndOf(h.header, c) = h.top
    BY <2>3, <1>1 DEF Tiling
  <2>5. c \in F
    BY <2>1, <2>4, <1>4, <1>5
  <2>6. c = h.tail
    <3>1. SUFFICES ASSUME c < h.tail PROVE FALSE
      BY <2>2, <2>5, <1>2
    <3>2. h.tail \in DOMAIN h.header
      BY <2>2, <1>2
    <3>3. EndOf(h.header, c) < h.tail
      BY <3>1, <3>2, <1>1 DEF Tiling, Spaced
    <3> QED BY <2>4, <3>2, <3>3, <1>2
  <2> QED BY <2>2, <2>4, <2>6, <1>4
<1>7. ASSUME ~EndsFree(h), NEW c \in F PROVE EndOf(h.header, c) # h.top
  <2>1. SUFFICES ASSUME EndOf(h.header, c) = h.top PROVE FALSE
    OBVIOUS
  <2>2. h.foot[h.top].tag = Free /\ h.head # Null
    BY <2>1, <1>2, <1>3, <1>4, <1>5
  <2> QED BY <2>2, <1>7 DEF EndsFree
<1> QED BY <1>6, <1>7

(* Raising the break and dropping the foot below it.                       *)
LEMMA SetTopFoot ==
  ASSUME NEW h, IsHeap(h), NEW x, NEW y
  PROVE  [h EXCEPT !.top = x, !.foot = y] =
           [header |-> h.header, foot |-> y, link |-> h.link, head |-> h.head,
            tail |-> h.tail, top |-> x, lost |-> h.lost]
<1>1. PICK k : k = [h EXCEPT !.top = x]
  OBVIOUS
<1>2. k = [header |-> h.header, foot |-> h.foot, link |-> h.link,
           head |-> h.head, tail |-> h.tail, top |-> x, lost |-> h.lost]
  BY <1>1, SetWord, Zenon
<1>3. IsHeap(k)
  BY <1>2 DEF IsHeap
<1>4. [k EXCEPT !.foot = y] =
        [header |-> k.header, foot |-> y, link |-> k.link,
         head |-> k.head, tail |-> k.tail, top |-> k.top, lost |-> k.lost]
  BY <1>3, SetWord, Zenon
<1>5. [h EXCEPT !.top = x, !.foot = y] = [k EXCEPT !.foot = y]
  BY <1>1, Zenon
<1> QED BY <1>2, <1>4, <1>5

(* The heap after the break has moved and some feet have gone.             *)
LEMMA RaisedIs ==
  ASSUME NEW h, IsHeap(h), NEW x, NEW D
  PROVE  [h EXCEPT !.top = x, !.foot = Drop(@, D)] =
           [header |-> h.header, foot |-> Drop(h.foot, D), link |-> h.link,
            head |-> h.head, tail |-> h.tail, top |-> x, lost |-> h.lost]
<1>1. PICK y : y = Drop(h.foot, D)
  OBVIOUS
<1>2. [h EXCEPT !.top = x, !.foot = Drop(@, D)] = [h EXCEPT !.top = x, !.foot = y]
  BY <1>1, Zenon
<1>3. [h EXCEPT !.top = x, !.foot = y] =
        [header |-> h.header, foot |-> y, link |-> h.link, head |-> h.head,
         tail |-> h.tail, top |-> x, lost |-> h.lost]
  BY SetTopFoot, Zenon
<1> QED BY <1>1, <1>2, <1>3, Zenon

(* The last block and the room that a higher break opens above it.         *)
RoomMade(g, G, h, F, held, b, x, e) ==
  /\ Laid(h, F, {}, held) /\ b \in F /\ b = h.tail /\ EndOf(h.header, b) = h.top
  /\ x \in Nat /\ h.header[b].size <= x /\ e = b + x
  /\ LET k == Remove(h, b)
     IN  /\ IsHeap(g) /\ g.header = k.header /\ g.foot = Drop(k.foot, {h.top})
         /\ g.link = k.link /\ g.head = k.head /\ g.tail = k.tail
         /\ g.top = e /\ g.lost = k.lost
  /\ \A c : c \in G <=> c \in F /\ c # b

(* If the last block is free, taking it out and moving the break opens one *)
(* hole from that block on.                                                *)
LEMMA RoomAtTail ==
  ASSUME NEW h, NEW F, NEW held, NEW b, NEW x, NEW e, NEW g, NEW G,
         RoomMade(g, G, h, F, held, b, x, e)
  PROVE  /\ Holed(g, G, {}, held, b, e) /\ g.top = e /\ e \in Nat /\ h.top <= e
         /\ b \in Nat \ {0}
         /\ \A a \in G : EndOf(g.header, a) < b
<1>k. PICK k : k = Remove(h, b)
  OBVIOUS
<1>r. /\ Laid(h, F, {}, held) /\ b \in F /\ b = h.tail
      /\ EndOf(h.header, b) = h.top
      /\ x \in Nat /\ h.header[b].size <= x /\ e = b + x
      /\ IsHeap(g) /\ g.header = k.header /\ g.foot = Drop(k.foot, {h.top})
      /\ g.link = k.link /\ g.head = k.head /\ g.tail = k.tail
      /\ g.top = e /\ g.lost = k.lost
      /\ \A c : c \in G <=> c \in F /\ c # b
  BY <1>k, Zenon DEF RoomMade
<1> USE <1>k, <1>r
<1>1. PICK hd : hd = h.header
  OBVIOUS
<1>2. PICK S : S = DOMAIN hd \ {b}
  OBVIOUS
<1>4. PICK top : top = h.top
  OBVIOUS
<1>5. /\ Holed(k, G, {}, held, b, top) /\ k.header = hd /\ k.foot = h.foot
      /\ k.top = top /\ b \notin DOMAIN k.link
  <2>1. EndOf(h.header, b) = top
    BY <1>4
  <2>2. /\ Holed(k, G, {}, held, b, EndOf(h.header, b))
        /\ k.header = h.header /\ k.foot = h.foot /\ k.top = h.top
        /\ b \notin DOMAIN k.link
    BY RemoveHoled
  <2> QED BY <2>1, <2>2, <1>1, <1>4
<1>6. /\ IsHeap(k) /\ k.lost = {}
      /\ Footed(hd, S, k.foot, {top}) /\ Marked(hd, S, G, {}, held)
      /\ \A c \in G : c \in DOMAIN k.link
      /\ \A c \in DOMAIN k.link : c \in G \/ c = b
      /\ Linked([c \in G |-> k.link[c]], k.head, k.tail, G)
      /\ Split(hd, G)
  BY <1>2, <1>5 DEF Holed
<1>7. PICK ft2 : ft2 = Drop(k.foot, {top})
  OBVIOUS
<1>8. /\ IsHeap(g) /\ g.header = hd /\ g.foot = ft2 /\ g.link = k.link
      /\ g.head = k.head /\ g.tail = k.tail /\ g.top = e /\ g.lost = {}
  BY <1>4, <1>5, <1>6, <1>7
<1>9. /\ Tiling(hd, top) /\ b \in DOMAIN hd /\ b \in Nat \ {0} /\ top \in Nat
      /\ b < top /\ \A c \in G : c \in F /\ c # b /\ c \in DOMAIN hd /\ c < b
      /\ \A c \in DOMAIN hd : EndOf(hd, c) \in Nat
      /\ hd[b].size \in Nat /\ b + hd[b].size = top
  <2>1. Strung(h, F, {}, held) /\ Linked(h.link, h.head, h.tail, F)
        /\ Tiling(hd, top)
    BY <1>1, <1>4 DEF Laid, Strung
  <2>2. /\ F \subseteq Nat \ {0} /\ F \subseteq DOMAIN hd /\ top \in Nat
        /\ \A c \in DOMAIN hd : /\ EndOf(hd, c) \in Nat /\ c < EndOf(hd, c)
                                /\ hd[c].size \in Nat
    BY <2>1, <1>1, <1>4, FreeBelow
  <2>3. \A c \in F : c <= b
    BY <2>1 DEF Linked, IsHighest
  <2>4. b + hd[b].size = top
    BY <1>1, <1>4 DEF EndOf
  <2>5. b \in DOMAIN hd /\ b \in Nat \ {0} /\ b < top
    BY <2>2, <1>1, <1>4
  <2>6. \A c \in G : c \in F /\ c # b /\ c \in DOMAIN hd /\ c < b
    BY <2>2, <2>3
  <2> QED BY <2>1, <2>2, <2>4, <2>5, <2>6
<1>10. e \in Nat /\ top <= e
  BY <1>1, <1>9
<1>11. Slot(hd, S, e, b, e)
  <2>1. EndOf(hd, b) = top
    BY <1>1, <1>4
  <2> QED BY <2>1, <1>2, <1>9, <1>10, HoleAtTop
<1>12. \A x1 : x1 \in DOMAIN ft2 <=> x1 \in DOMAIN k.foot /\ x1 # top
  <2>1. PICK D : D = {top}
    OBVIOUS
  <2>2. ft2 = Drop(k.foot, D)
    BY <2>1, <1>7
  <2>3. \A x1 : x1 \in DOMAIN ft2 <=> x1 \in DOMAIN k.foot /\ x1 \notin D
    BY <2>2, DropIs
  <2> QED BY <2>1, <2>3
<1>13. \A x1 \in DOMAIN k.foot : x1 # top => ft2[x1] = k.foot[x1]
  <2>1. PICK D : D = {top}
    OBVIOUS
  <2>2. ft2 = Drop(k.foot, D)
    BY <2>1, <1>7
  <2>3. \A x1 \in DOMAIN k.foot : x1 \notin D => ft2[x1] = k.foot[x1]
    BY <2>2, DropIs
  <2> QED BY <2>1, <2>3
<1>14. Footed(hd, S, ft2, {e})
  <2>1. \A c \in S : EndOf(hd, c) # top
    <3>1. EndOf(hd, b) = top
      BY <1>1, <1>4
    <3> QED BY <3>1, <1>2, <1>9, EndsDiffer DEF Tiling
  <2>2. \A c \in S : EndOf(hd, c) \in DOMAIN ft2 /\ ft2[EndOf(hd, c)] = hd[c]
    <3>1. SUFFICES ASSUME NEW c \in S
                   PROVE  EndOf(hd, c) \in DOMAIN ft2 /\ ft2[EndOf(hd, c)] = hd[c]
      OBVIOUS
    <3>2. PICK y : y = EndOf(hd, c)
      OBVIOUS
    <3>3. y # top /\ y \in DOMAIN k.foot /\ k.foot[y] = hd[c]
      BY <2>1, <3>2, <1>6 DEF Footed
    <3> QED BY <3>2, <3>3, <1>12, <1>13
  <2>3. \A y \in DOMAIN ft2 : \E c \in S : y = EndOf(hd, c)
    BY <1>6, <1>12 DEF Footed
  <2> QED BY <2>2, <2>3 DEF Footed
<1>15. \A a \in G : EndOf(hd, a) < b
  BY <1>9 DEF Tiling, Spaced
<1>16. Low(hd, G, e)
  <2>1. \A c \in G : EndOf(hd, c) # e
    <3>1. SUFFICES ASSUME NEW c \in G PROVE EndOf(hd, c) # e
      OBVIOUS
    <3>2. EndOf(hd, c) \in Nat /\ EndOf(hd, c) < b
      BY <1>9, <1>15
    <3> QED BY <3>2, <1>9, <1>10
  <2> QED BY <2>1 DEF Low
<1>17. Holed(g, G, {}, held, b, e)
  BY <1>2, <1>6, <1>8, <1>11, <1>14, <1>16 DEF Holed
<1> QED BY <1>4, <1>8, <1>9, <1>10, <1>15, <1>17

(* What is left of a grown heap is put on the list as it is: growing       *)
(* neither merges nor loses a block.                                       *)
Growable(h, F, held, b, n, held2) ==
  /\ b \in Nat \ {0} /\ n \in Nat \ {0}
  /\ LET e == b + n + Excess
     IN  Holed(h, F, {}, held, b, e) /\ h.top = e
  /\ \A a \in F : EndOf(h.header, a) < b
  /\ Holds(held2, held, b, n)

Grow(h, b, n)   == AllocateBlock(h, b, n, Excess, FALSE)
Pick(h, b, n)   == AllocateBlock(h, b, n, SizeOf(h, b) - n, TRUE)
Shrink(h, b, n) == AllocateBlock(h, b, n, SizeOf(h, b) - n, FALSE)

(* allocate_block fills the hole at the new break with the block asked for *)
(* and lists the excess.                                                   *)
LEMMA GrownLaid ==
  ASSUME NEW h, NEW F, NEW held, NEW b, NEW n, NEW held2,
         Growable(h, F, held, b, n, held2),
         NEW g, g = Grow(h, b, n)
  PROVE  (\E K : Laid(g, K, {}, held2)) /\ g.top = h.top
<1>e. PICK e : e = b + n + Excess
  OBVIOUS
<1>h. /\ b \in Nat \ {0} /\ n \in Nat \ {0}
      /\ Holed(h, F, {}, held, b, e) /\ h.top = e
      /\ \A a \in F : EndOf(h.header, a) < b
      /\ Holds(held2, held, b, n)
  BY <1>e, Zenon DEF Growable
<1> USE <1>e, <1>h
<1>1. PICK r : r = b + n + 1
  OBVIOUS
<1>2. PICK m : m = Excess - 1
  OBVIOUS
<1>3. PICK k : k = Write(h, r, m, Free)
  OBVIOUS
<1>4. PICK u : u = Use(k, b, n)
  OBVIOUS
<1>5. g = Add(u, r)
  BY <1>1, <1>2, <1>3, <1>4, ExcessAssumption, Zenon DEF Grow, AllocateBlock
<1>6. /\ r \in Nat /\ b + 1 < r /\ m \in Nat \ {0} /\ r + m = e
      /\ m <= MaxTop /\ r # b
  BY <1>1, <1>2, ExcessAssumption
<1>7. PICK R : R = {r}
  OBVIOUS
<1>8. PICK f : f = r - 1
  OBVIOUS
<1>9. f = b + n
  BY <1>1, <1>8
<1>10. /\ Holed(k, F, R, held, b, f) /\ k.top = h.top
       /\ r \notin F /\ r \in DOMAIN k.header /\ k.header[r].size = m
       /\ \A c \in F : k.header[c] = h.header[c]
  BY <1>3, <1>6, <1>7, <1>8, RestWritten
<1>11. n <= n /\ n <= n + MinSplit /\ n \in Nat
  BY ExcessAssumption
<1>12. /\ Laid(u, F, R, held2) /\ u.top = k.top
       /\ \A c : c \in DOMAIN u.header <=> c \in DOMAIN k.header \/ c = b
       /\ \A c \in DOMAIN u.header : c # b => u.header[c] = k.header[c]
  <2>1. \A c \in R : c # b
    BY <1>6, <1>7
  <2>2. Usable(k, F, R, held, b, n, n, held2)
    BY <2>1, <1>9, <1>10, <1>11 DEF Usable
  <2> QED BY <2>2, <1>4, UseFills
<1>13. r \in DOMAIN u.header /\ u.header[r].size = m /\ EndOf(u.header, r) = u.top
  <2>1. r \in DOMAIN u.header /\ u.header[r].size = m
    BY <1>6, <1>10, <1>12
  <2> QED BY <2>1, <1>6, <1>10, <1>12 DEF EndOf
<1>14. \A a \in F : EndOf(u.header, a) + 1 # r
  <2>1. SUFFICES ASSUME NEW a \in F PROVE EndOf(u.header, a) + 1 # r
    OBVIOUS
  <2>2. Strung(u, F, R, held2)
    BY <1>12 DEF Laid
  <2>3. a \in DOMAIN u.header /\ EndOf(u.header, a) \in Nat /\ a < EndOf(u.header, a)
        /\ a \in Nat
    BY <2>2, FreeBelow
  <2>4. a # b
    BY <1>10 DEF Holed, Marked
  <2>5. EndOf(u.header, a) = EndOf(h.header, a)
    BY <2>3, <2>4, <1>10, <1>12 DEF EndOf
  <2>6. EndOf(u.header, a) < b
    BY <2>5
  <2> QED BY <2>3, <2>6, <1>6
<1>15. Topmost(u, F, r, held2)
  <2>1. u.header[r].size <= MaxTop
    BY <1>6, <1>13
  <2> QED BY <2>1, <1>7, <1>12, <1>13, <1>14 DEF Topmost
<1>16. (\E K : Laid(g, K, {}, held2)) /\ g.top = u.top
  <2>1. PICK v : v = Add(u, r)
    OBVIOUS
  <2>2. (\E K : Laid(v, K, {}, held2)) /\ v.top = u.top
    BY <2>1, <1>15, AddTop
  <2>3. g = v
    BY <2>1, <1>5, Zenon
  <2> QED BY <2>2, <2>3, Zenon
<1> QED BY <1>10, <1>12, <1>16

(* A block off the list is split, or used as a whole.                      *)
Chosen(h, F, held, b, n, held2) ==
  /\ Laid(h, F, {}, held) /\ b \in F
  /\ n \in Nat \ {0} /\ n <= SizeOf(h, b)
  /\ Holds(held2, held, b, n)

(* allocate_block takes a listed block that fits, whole or split.          *)
LEMMA ListedLaid ==
  ASSUME NEW h, NEW F, NEW held, NEW b, NEW n, NEW held2,
         Chosen(h, F, held, b, n, held2),
         NEW g, g = Pick(h, b, n)
  PROVE  (\E K : Laid(g, K, {}, held2)) /\ g.top = h.top
<1>c. /\ Laid(h, F, {}, held) /\ b \in F
      /\ n \in Nat \ {0} /\ n <= SizeOf(h, b)
      /\ Holds(held2, held, b, n)
  BY Zenon DEF Chosen
<1> USE <1>c
<1>1. PICK s : s = SizeOf(h, b)
  OBVIOUS
<1>2. PICK x : x = s - n
  OBVIOUS
<1>3. PICK e : e = EndOf(h.header, b)
  OBVIOUS
<1>4. /\ b \in Nat \ {0} /\ s \in Nat /\ n <= s /\ x \in Nat /\ s = n + x
      /\ e = b + s /\ e \in Nat
  <2>1. b \in Nat \ {0} /\ h.header[b].size \in Nat /\ EndOf(h.header, b) \in Nat
    <3>1. Strung(h, F, {}, held)
      BY DEF Laid
    <3> QED BY <3>1, FreeBelow
  <2>2. s = h.header[b].size /\ e = b + h.header[b].size
    BY <1>1, <1>3 DEF SizeOf, EndOf
  <2> QED BY <2>1, <2>2, <1>1, <1>2, <1>3
<1>5. CASE x > MinSplit
  <2>1. PICK r : r = b + n + 1
    OBVIOUS
  <2>2. PICK m : m = x - 1
    OBVIOUS
  <2>3. PICK k : k = Write(h, r, m, Free)
    OBVIOUS
  <2>4. PICK p : p = Replace(k, b, r)
    OBVIOUS
  <2>5. PICK v : v = Use(p, b, n)
    OBVIOUS
  <2>6. g = v
    BY <1>1, <1>2, <1>5, <2>1, <2>2, <2>3, <2>4, <2>5, Zenon DEF Pick, AllocateBlock
  <2>7. r \in Nat /\ b + 1 < r /\ m \in Nat \ {0} /\ r + m = e /\ r - 1 = b + n
    BY <1>4, <1>5, <2>1, <2>2, ExcessAssumption
  <2>8. PICK G : G = (F \ {b}) \cup {r}
    OBVIOUS
  <2>9. \A c : c \in G <=> (c \in F /\ c # b) \/ c = r
    BY <2>8
  <2>10. Holed(p, G, {}, held, b, r - 1) /\ p.top = h.top
    BY <2>3, <2>4, <2>7, <2>9, <1>3, SplitHoled
  <2>11. Usable(p, G, {}, held, b, n, n, held2)
    BY <2>7, <2>10, ExcessAssumption DEF Usable
  <2>12. Laid(v, G, {}, held2) /\ v.top = p.top
    BY <2>5, <2>11, UseFills
  <2> QED BY <2>6, <2>10, <2>12
<1>6. CASE ~(x > MinSplit)
  <2>1. PICK p : p = Remove(h, b)
    OBVIOUS
  <2>2. PICK v : v = Use(p, b, n + x)
    OBVIOUS
  <2>3. g = v
    BY <1>1, <1>2, <1>6, <2>1, <2>2, Zenon DEF Pick, AllocateBlock
  <2>4. PICK G : G = F \ {b}
    OBVIOUS
  <2>5. \A c : c \in G <=> c \in F /\ c # b
    BY <2>4
  <2>6. Holed(p, G, {}, held, b, e) /\ p.top = h.top
    BY <2>1, <2>5, <1>3, RemoveHoled
  <2>7. Usable(p, G, {}, held, b, n + x, n, held2)
    <3>1. n + x \in Nat /\ b + (n + x) = e /\ n <= n + x /\ n + x <= n + MinSplit
      BY <1>4, <1>6, ExcessAssumption
    <3> QED BY <3>1, <2>6 DEF Usable
  <2>8. Laid(v, G, {}, held2) /\ v.top = p.top
    BY <2>2, <2>7, UseFills
  <2> QED BY <2>3, <2>6, <2>8
<1> QED BY <1>5, <1>6

(* A held block gets smaller: what is left is put on the list.             *)
LEMMA ShrunkLaid ==
  ASSUME NEW h, NEW F, NEW held, Laid(h, F, {}, held), NEW b \in DOMAIN held,
         NEW n \in Nat \ {0}, n < SizeOf(h, b),
         NEW held2, Holds(held2, held, b, n),
         NEW g, g = Shrink(h, b, n)
  PROVE  Settled(g, h.top, held2)
<1>1. PICK s : s = SizeOf(h, b)
  OBVIOUS
<1>2. PICK x : x = s - n
  OBVIOUS
<1>3. PICK e : e = EndOf(h.header, b)
  OBVIOUS
<1>4. PICK held1 : held1 = [c \in DOMAIN held \ {b} |-> held[c]]
  OBVIOUS
<1>5. Holed(h, F, {}, held1, b, e) /\ b \in DOMAIN h.header
  <2>2. Released(held1, held, b)
    BY <1>4 DEF Released
  <2>3. Holed(h, F, {}, held1, b, EndOf(h.header, b)) /\ b \in DOMAIN h.header
    BY <2>2, HoledAt
  <2> QED BY <2>3, <1>3
<1>6. Holds(held2, held1, b, n)
  BY <1>4 DEF Holds
<1>7. /\ b \in Nat \ {0} /\ s \in Nat /\ n < s /\ x \in Nat /\ s = n + x
      /\ e = b + s /\ e \in Nat /\ h.top \in Nat
  <2>1. b \in Nat \ {0} /\ h.header[b].size \in Nat /\ EndOf(h.header, b) \in Nat
        /\ h.top \in Nat
    <3>1. Strung(h, F, {}, held)
      BY DEF Laid
    <3> QED BY <3>1, <1>5, FreeBelow
  <2>2. s = h.header[b].size /\ e = b + h.header[b].size
    BY <1>1, <1>3 DEF SizeOf, EndOf
  <2> QED BY <2>1, <2>2, <1>1, <1>2, <1>3
<1>8. CASE x > MinSplit
  <2>1. PICK r : r = b + n + 1
    OBVIOUS
  <2>2. PICK m : m = x - 1
    OBVIOUS
  <2>3. PICK k : k = Write(h, r, m, Free)
    OBVIOUS
  <2>4. PICK u : u = Use(k, b, n)
    OBVIOUS
  <2>5. PICK v : v = Add(u, r)
    OBVIOUS
  <2>6. g = v
    BY <1>1, <1>2, <1>8, <2>1, <2>2, <2>3, <2>4, <2>5, Zenon DEF Shrink, AllocateBlock
  <2>7. /\ r \in Nat /\ b + 1 < r /\ m \in Nat \ {0} /\ r + m = e /\ r - 1 = b + n
        /\ r # b
    BY <1>7, <1>8, <2>1, <2>2, ExcessAssumption
  <2>8. PICK R : R = {r}
    OBVIOUS
  <2>9. PICK f : f = r - 1
    OBVIOUS
  <2>10. /\ Holed(k, F, R, held1, b, f) /\ k.top = h.top
         /\ r \notin F /\ r \in DOMAIN k.header
    BY <2>3, <2>7, <2>8, <2>9, <1>5, RestWritten
  <2>11. Usable(k, F, R, held1, b, n, n, held2)
    <3>1. n \in Nat /\ n <= n /\ n <= n + MinSplit /\ f = b + n
      BY <2>7, <2>9, ExcessAssumption
    <3>2. \A c \in R : c # b
      BY <2>7, <2>8
    <3> QED BY <3>1, <3>2, <2>10, <1>6 DEF Usable
  <2>12. /\ Laid(u, F, R, held2) /\ u.top = k.top
         /\ \A c : c \in DOMAIN u.header <=> c \in DOMAIN k.header \/ c = b
    BY <2>4, <2>11, UseFills
  <2>13. Strung(u, F, {r}, held2) /\ Split(u.header, F) /\ r \in DOMAIN u.header
    BY <2>8, <2>10, <2>12 DEF Laid
  <2>14. Settled(v, u.top, held2)
    BY <2>5, <2>13, AddLaid
  <2> QED BY <2>6, <2>10, <2>12, <2>14
<1>9. CASE ~(x > MinSplit)
  <2>1. PICK v : v = Use(h, b, n + x)
    OBVIOUS
  <2>2. g = v
    BY <1>1, <1>2, <1>9, <2>1, Zenon DEF Shrink, AllocateBlock
  <2>3. Usable(h, F, {}, held1, b, n + x, n, held2)
    <3>1. n + x \in Nat /\ b + (n + x) = e /\ n <= n + x /\ n + x <= n + MinSplit
      BY <1>7, <1>9, ExcessAssumption
    <3> QED BY <3>1, <1>5, <1>6 DEF Usable
  <2>4. Laid(v, F, {}, held2) /\ v.top = h.top
    BY <2>1, <2>3, UseFills
  <2>5. IsHeap(v) /\ v.lost = {}
    BY <2>4 DEF Laid, Strung
  <2>6. \E K : Laid(v, K, {}, held2)
    BY <2>4
  <2>7. v.top \in Nat /\ v.top <= h.top
    BY <2>4, <1>7
  <2> QED BY <2>2, <2>5, <2>6, <2>7, Zenon DEF Settled
<1> QED BY <1>8, <1>9

(* A held block is freed.                                                  *)
LEMMA FreedLaid ==
  ASSUME NEW h, NEW F, NEW held, Laid(h, F, {}, held), NEW b \in DOMAIN held,
         NEW held2, Released(held2, held, b),
         NEW g, g = Add(h, b)
  PROVE  Settled(g, h.top, held2)
<1>1. Laid(h, F, {b}, held2) /\ b \in DOMAIN h.header
  BY HoledAt
<1>2. Strung(h, F, {b}, held2) /\ Split(h.header, F)
  BY <1>1 DEF Laid
<1> QED BY <1>1, <1>2, AddLaid
-----------------------------------------------------------------------------
(* The two policies find a block that fits, if there is one that is larger *)
(* than what is asked for.                                                 *)
LEMMA LargestIs ==
  ASSUME NEW h, NEW F, NEW held, Laid(h, F, {}, held)
  PROVE  /\ Largest(h) \in Nat /\ \A c \in F : SizeOf(h, c) <= Largest(h)
         /\ Largest(h) = 0 \/ \E c \in F : SizeOf(h, c) = Largest(h)
<1>1. /\ Strung(h, F, {}, held) /\ Linked(h.link, h.head, h.tail, F)
  BY DEF Laid, Strung
<1>2. /\ F \subseteq Nat \ {0} /\ h.top \in Nat /\ \A y \in F : y <= h.top
      /\ F \subseteq DOMAIN h.header
      /\ \A c \in DOMAIN h.header : /\ c \in Nat /\ h.header[c].size \in Nat
                                    /\ EndOf(h.header, c) <= h.top
  BY <1>1, FreeBelow
<1>3. Listed(h) = F
  BY <1>1, <1>2, ListedExactly
<1>4. PICK S : S = {0} \cup {SizeOf(h, b) : b \in F}
  OBVIOUS
<1>5. S \subseteq Nat /\ S # {} /\ \A y \in S : y <= h.top
  <2>1. ASSUME NEW c \in F PROVE SizeOf(h, c) \in Nat /\ SizeOf(h, c) <= h.top
    <3>1. PICK s : s = SizeOf(h, c)
      OBVIOUS
    <3>2. s \in Nat /\ c \in Nat /\ c + s <= h.top
      BY <3>1, <1>2 DEF SizeOf, EndOf
    <3> QED BY <3>1, <3>2, <1>2
  <2>2. \A y \in S : y \in Nat /\ y <= h.top
    BY <2>1, <1>2, <1>4
  <2> QED BY <2>2, <1>4
<1>6. \E x \in S : \A y \in S : y <= x
  BY <1>2, <1>5, GreatestNatural
<1>7. PICK x : x = Max(S)
  OBVIOUS
<1>8. x \in S /\ \A y \in S : y <= x
  BY <1>6, <1>7 DEF Max
<1>9. x = Largest(h)
  BY <1>3, <1>4, <1>7 DEF Largest
<1>10. x \in Nat /\ (\A c \in F : SizeOf(h, c) <= x)
       /\ (x = 0 \/ \E c \in F : SizeOf(h, c) = x)
  BY <1>4, <1>5, <1>8
<1> QED BY <1>9, <1>10

(* allocate_freeList returns a listed block that fits, and none only if    *)
(* none is larger than what is asked for.                                  *)
LEMMA FittingIs ==
  ASSUME NEW h, NEW F, NEW held, Laid(h, F, {}, held), NEW n \in Nat \ {0},
         lastAllocated \in Nat, lastAllocated = 0 => F = {},
         NEW b, b = Fitting(h, n)
  PROVE  \/ b = Null /\ \A c \in F : SizeOf(h, c) <= n
         \/ b # Null /\ b \in F /\ n <= SizeOf(h, b)
<1>1. /\ Strung(h, F, {}, held) /\ Linked(h.link, h.head, h.tail, F)
  BY DEF Laid, Strung
<1>2. /\ F \subseteq Nat \ {0} /\ h.top \in Nat /\ \A y \in F : y <= h.top
      /\ F \subseteq DOMAIN h.header
      /\ \A c \in DOMAIN h.header : h.header[c].size \in Nat
  BY <1>1, FreeBelow
<1>3. Listed(h) = F /\ \A S \in SUBSET F : IsLowest(First(h, S), S)
  BY <1>1, <1>2, ListedExactly
<1>4. \A c \in F : SizeOf(h, c) \in Nat
  BY <1>2 DEF SizeOf
<1>5. h.head = Null <=> F = {}
  BY <1>1, <1>2 DEF Linked, IsLowest, Null
<1>6. \A S \in SUBSET F : \/ First(h, S) = Null /\ S = {}
                          \/ First(h, S) # Null /\ First(h, S) \in S
  BY <1>2, <1>3 DEF IsLowest, Null
<1>7. CASE h.head = Null
  <2>1. b = Null
    BY <1>7, Zenon DEF Fitting
  <2> QED BY <2>1, <1>5, <1>7
<1>8. CASE h.head # Null /\ currentPolicy = "WORST"
  <2>1. b = WorstFit(h, n)
    BY <1>8, Zenon DEF Fitting
  <2>2. /\ Largest(h) \in Nat /\ \A c \in F : SizeOf(h, c) <= Largest(h)
        /\ Largest(h) = 0 \/ \E c \in F : SizeOf(h, c) = Largest(h)
    BY LargestIs
  <2>3. CASE Largest(h) > n
    <3>1. PICK S : S = {c \in F : SizeOf(h, c) = Largest(h)}
      OBVIOUS
    <3>2. b = First(h, S)
      BY <2>1, <2>3, <3>1, <1>3 DEF WorstFit
    <3>3. S # {} /\ S \in SUBSET F /\ \A c \in S : SizeOf(h, c) = Largest(h)
      BY <2>2, <2>3, <3>1
    <3>4. b # Null /\ b \in S
      BY <3>2, <3>3, <1>6
    <3> QED BY <2>2, <2>3, <3>3, <3>4
  <2>4. CASE ~(Largest(h) > n)
    <3>1. b = Null
      BY <2>1, <2>4, Zenon DEF WorstFit
    <3>2. \A c \in F : SizeOf(h, c) <= n
      BY <2>2, <2>4, <1>4
    <3> QED BY <3>1, <3>2
  <2> QED BY <2>3, <2>4
<1>9. CASE h.head # Null /\ currentPolicy # "WORST"
  <2>1. b = NextFit(h, n)
    BY <1>9, Zenon DEF Fitting
  <2>2. PICK A : A = {c \in F : SizeOf(h, c) >= n /\ c > lastAllocated}
    OBVIOUS
  <2>3. PICK B : B = {c \in F : SizeOf(h, c) >= n /\ c <= lastAllocated}
    OBVIOUS
  <2>4. PICK above : above = IF lastAllocated # Null /\ lastAllocated <= h.top
                               THEN First(h, A) ELSE Null
    OBVIOUS
  <2>5. b = IF above # Null THEN above ELSE First(h, B)
    <3>1. PICK fitting : fitting = {c \in Listed(h) : SizeOf(h, c) >= n}
      OBVIOUS
    <3>2. A = {c \in fitting : c > lastAllocated}
      BY <2>2, <3>1, <1>3
    <3>3. B = {c \in fitting : c <= lastAllocated}
      BY <2>3, <3>1, <1>3
    <3> QED BY <2>1, <2>4, <3>1, <3>2, <3>3, Zenon DEF NextFit
  <2>6. A \in SUBSET F /\ B \in SUBSET F
    BY <2>2, <2>3
  <2>7. \A c \in A \cup B : n <= SizeOf(h, c)
    BY <2>2, <2>3, <1>4
  <2>8. CASE b # Null
    <3>1. b \in A \cup B
      BY <2>4, <2>5, <2>6, <2>8, <1>6
    <3> QED BY <2>6, <2>7, <2>8, <3>1
  <2>9. CASE b = Null
    <3>1. B = {}
      BY <2>5, <2>6, <2>9, <1>6
    <3>2. A = {}
      <4>1. CASE lastAllocated # Null /\ lastAllocated <= h.top
        BY <4>1, <2>4, <2>5, <2>6, <2>9, <1>6
      <4>2. CASE lastAllocated = Null
        BY <4>2, <2>2 DEF Null
      <4>3. CASE ~(lastAllocated <= h.top)
        <5>1. \A c \in F : ~(c > lastAllocated)
          BY <4>3, <1>2
        <5> QED BY <5>1, <2>2
      <4> QED BY <4>1, <4>2, <4>3
    <3>3. ASSUME NEW c \in F PROVE SizeOf(h, c) <= n
      <4>1. ~(SizeOf(h, c) >= n)
        BY <3>1, <3>2, <2>2, <2>3, <1>2
      <4> QED BY <4>1, <1>4
    <3> QED BY <2>9, <3>3
  <2> QED BY <2>8, <2>9
<1> QED BY <1>7, <1>8, <1>9

(* sma_malloc hands out a block that the program does not hold, loses      *)
(* none, and raises the break only if no free block is larger.             *)
LEMMA GrownIs ==
  ASSUME NEW h, NEW F, NEW held, Laid(h, F, {}, held), NEW n \in Nat \ {0},
         \A c \in F : SizeOf(h, c) <= n,
         NEW b, b = IF EndsFree(h) THEN h.tail ELSE h.top + 1,
         NEW held2, Holds(held2, held, b, n),
         NEW g, g = Grown(h, n)
  PROVE  /\ \E K : Laid(g, K, {}, held2)
         /\ g.top \in Nat /\ h.top <= g.top
         /\ b \in Nat \ {0} /\ b \notin DOMAIN held
<1>1. PICK x : x = n + Excess
  OBVIOUS
<1>2. x \in Nat \ {0} /\ n <= x
  BY <1>1, ExcessAssumption
<1>3. /\ Strung(h, F, {}, held) /\ IsHeap(h)
      /\ Marked(h.header, DOMAIN h.header, F, {}, held)
  BY DEF Laid, Strung
<1>4. /\ h.top \in Nat /\ F \subseteq DOMAIN h.header
      /\ \A c \in DOMAIN h.header :
           /\ c \in Nat /\ h.header[c].size \in Nat
           /\ EndOf(h.header, c) <= h.top
           /\ c < EndOf(h.header, c) /\ EndOf(h.header, c) \in Nat
  BY <1>3, FreeBelow
<1>5. CASE EndsFree(h)
  <2>1. /\ h.tail \in F /\ EndOf(h.header, h.tail) = h.top
        /\ h.foot[h.top].size = h.header[h.tail].size
    BY <1>5, EndsFreeIs
  <2>2. b = h.tail
    BY <1>5
  <2>3. PICK s : s = h.header[b].size
    OBVIOUS
  <2>4. s \in Nat /\ s <= n /\ b \in Nat /\ h.top = b + s
    <3>1. s \in Nat /\ b \in Nat
      BY <2>1, <2>2, <2>3, <1>4
    <3>2. s <= n
      BY <2>1, <2>2, <2>3 DEF SizeOf
    <3>3. h.top = b + s
      BY <2>1, <2>2, <2>3 DEF EndOf
    <3> QED BY <3>1, <3>2, <3>3
  <2>5. PICK e : e = b + x
    OBVIOUS
  <2>6. PICK G : G = F \ {b}
    OBVIOUS
  <2>7. PICK k : k = Remove(h, b)
    OBVIOUS
  <2>8. PICK D : D = {h.top}
    OBVIOUS
  <2>9. PICK y : y = k.top + (n + Excess) - h.foot[h.top].size
    OBVIOUS
  <2>10. PICK u : u = [k EXCEPT !.top = y, !.foot = Drop(@, D)]
    OBVIOUS
  <2>11. \A c : c \in G <=> c \in F /\ c # b
    BY <2>6
  <2>12. /\ Holed(k, G, {}, held, b, EndOf(h.header, b)) /\ k.top = h.top
    BY <2>1, <2>2, <2>7, <2>11, RemoveHoled
  <2>13. IsHeap(k)
    BY <2>12 DEF Holed
  <2>14. y = e
    <3>1. y = b + s + (n + Excess) - s
      BY <2>1, <2>2, <2>3, <2>4, <2>9, <2>12
    <3> QED BY <3>1, <2>4, <2>5, <1>1, <1>2, ExcessAssumption
  <2>15. /\ IsHeap(u) /\ u.header = k.header /\ u.foot = Drop(k.foot, D)
         /\ u.link = k.link /\ u.head = k.head /\ u.tail = k.tail
         /\ u.top = e /\ u.lost = k.lost
    <3>1. /\ IsHeap(u) /\ u.header = k.header /\ u.foot = Drop(k.foot, D)
          /\ u.link = k.link /\ u.head = k.head /\ u.tail = k.tail
          /\ u.top = y /\ u.lost = k.lost
      <4>1. u = [header |-> k.header, foot |-> Drop(k.foot, D), link |-> k.link,
                 head |-> k.head, tail |-> k.tail, top |-> y, lost |-> k.lost]
        BY <2>10, <2>13, RaisedIs, Zenon
      <4> QED BY <4>1 DEF IsHeap
    <3> QED BY <3>1, <2>14
  <2>16. /\ Holed(u, G, {}, held, b, e) /\ u.top = e /\ e \in Nat /\ h.top <= e
         /\ b \in Nat \ {0}
         /\ \A a \in G : EndOf(u.header, a) < b
    <3>1. b \in F /\ EndOf(h.header, b) = h.top
      BY <2>1, <2>2
    <3>2. h.header[b].size <= x /\ x \in Nat
      BY <2>3, <2>4, <1>2
    <3>3. u.foot = Drop(k.foot, {h.top})
      BY <2>8, <2>15
    <3>4. RoomMade(u, G, h, F, held, b, x, e)
      BY <3>1, <3>2, <3>3, <2>2, <2>5, <2>7, <2>11, <2>15, Zenon DEF RoomMade
    <3> QED BY <3>4, RoomAtTail
  <2>17. PICK v : v = Grow(u, b, n)
    OBVIOUS
  <2>18. g = v
    BY <1>5, <2>2, <2>7, <2>8, <2>9, <2>10, <2>17, Zenon DEF Grown, Grow
  <2>19. e = b + n + Excess
    BY <2>4, <2>5, <1>1, ExcessAssumption
  <2>20. (\E K : Laid(v, K, {}, held2)) /\ v.top = u.top
    <3>1. Growable(u, G, held, b, n, held2)
      BY <2>16, <2>19, Zenon DEF Growable
    <3> QED BY <3>1, <2>17, GrownLaid
  <2>21. b \notin DOMAIN held
    BY <2>1, <2>2, <1>3 DEF Marked
  <2> QED BY <2>16, <2>18, <2>20, <2>21
<1>6. CASE ~EndsFree(h)
  <2>1. b = h.top + 1 /\ b \in Nat \ {0}
    BY <1>4, <1>6
  <2>2. PICK e : e = h.top + 1 + x
    OBVIOUS
  <2>3. PICK u : u = [h EXCEPT !.top = e]
    OBVIOUS
  <2>4. /\ Holed(u, F, {}, held, b, e) /\ u.top = e
        /\ \A a \in F : EndOf(u.header, a) <= h.top
    <3>1. /\ Holed(u, F, {}, held, h.top + 1, e) /\ u.top = e
          /\ \A a \in F : EndOf(u.header, a) <= h.top
      <4>1. Opened(h, F, held, x, e)
        BY <2>2, <1>2, Zenon DEF Opened
      <4> QED BY <4>1, <2>3, RoomAbove
    <3> QED BY <3>1, <2>1
  <2>5. \A a \in F : EndOf(u.header, a) < b
    <3>1. SUFFICES ASSUME NEW a \in F PROVE EndOf(u.header, a) < b
      OBVIOUS
    <3>2. u.header = h.header
      <4>1. u = [header |-> h.header, foot |-> h.foot, link |-> h.link,
                 head |-> h.head, tail |-> h.tail, top |-> e, lost |-> h.lost]
        BY <2>3, <1>3, SetWord, Zenon
      <4> QED BY <4>1
    <3>3. EndOf(h.header, a) \in Nat /\ EndOf(h.header, a) <= h.top
      BY <1>4
    <3> QED BY <3>2, <3>3, <2>1, <1>4
  <2>6. PICK v : v = Grow(u, b, n)
    OBVIOUS
  <2>7. e = h.top + 1 + n + Excess
    BY <2>2, <1>1, <1>4, ExcessAssumption
  <2>8. g = v
    BY <1>6, <2>1, <2>3, <2>6, <2>7, Zenon DEF Grown, Grow
  <2>9. e = b + n + Excess /\ e \in Nat /\ h.top <= e
    BY <2>1, <2>7, <1>4, ExcessAssumption
  <2>10. (\E K : Laid(v, K, {}, held2)) /\ v.top = u.top
    <3>1. Growable(u, F, held, b, n, held2)
      BY <2>1, <2>4, <2>5, <2>9, Zenon DEF Growable
    <3> QED BY <3>1, <2>6, GrownLaid
  <2>11. b \notin DOMAIN held
    <3>1. SUFFICES ASSUME b \in DOMAIN held PROVE FALSE
      OBVIOUS
    <3>2. b \in DOMAIN h.header
      BY <3>1, <1>3 DEF Marked
    <3> QED BY <3>2, <2>1, <1>4
  <2> QED BY <2>1, <2>4, <2>8, <2>9, <2>10, <2>11
<1> QED BY <1>5, <1>6

(* sma_malloc keeps the heap laid out with the new block held, and raises  *)
(* the break only if no listed block is larger than what is asked for.     *)
LEMMA AllocatedLaid ==
  ASSUME NEW h, NEW F, NEW held, Laid(h, F, {}, held), NEW n \in Nat \ {0},
         lastAllocated \in Nat, lastAllocated = 0 => F = {},
         NEW b, b = Block(h, n),
         NEW held2, Holds(held2, held, b, n),
         NEW g, g = Allocated(h, n)
  PROVE  /\ \E K : Laid(g, K, {}, held2)
         /\ g.top \in Nat /\ h.top <= g.top
         /\ h.top < g.top => \A c \in F : SizeOf(h, c) <= n
         /\ b \in Nat \ {0} /\ b \notin DOMAIN held
<1>1. PICK f : f = Fitting(h, n)
  OBVIOUS
<1>2. \/ f = Null /\ \A c \in F : SizeOf(h, c) <= n
      \/ f # Null /\ f \in F /\ n <= SizeOf(h, f)
  BY <1>1, FittingIs
<1>3. /\ Strung(h, F, {}, held) /\ h.top \in Nat /\ F \subseteq Nat \ {0}
  <2>1. Strung(h, F, {}, held)
    BY DEF Laid
  <2> QED BY <2>1, FreeBelow
<1>4. CASE f = Null
  <2>1. \A c \in F : SizeOf(h, c) <= n
    BY <1>2, <1>4
  <2>2. b = IF EndsFree(h) THEN h.tail ELSE h.top + 1
    BY <1>1, <1>4, Zenon DEF Block
  <2>3. PICK v : v = Grown(h, n)
    OBVIOUS
  <2>4. g = v
    BY <1>1, <1>4, <2>3, Zenon DEF Allocated, Pick
  <2>5. /\ \E K : Laid(v, K, {}, held2)
        /\ v.top \in Nat /\ h.top <= v.top
        /\ b \in Nat \ {0} /\ b \notin DOMAIN held
    BY <2>1, <2>2, <2>3, GrownIs
  <2> QED BY <2>1, <2>4, <2>5
<1>5. CASE f # Null
  <2>1. b = f
    BY <1>1, <1>5, Zenon DEF Block
  <2>2. b \in F /\ n <= SizeOf(h, b)
    BY <1>2, <1>5, <2>1
  <2>3. PICK v : v = Pick(h, b, n)
    OBVIOUS
  <2>4. g = v
    BY <1>1, <1>5, <2>1, <2>3, Zenon DEF Allocated, Pick
  <2>5. (\E K : Laid(v, K, {}, held2)) /\ v.top = h.top
    <3>1. Chosen(h, F, held, b, n, held2)
      BY <2>2, Zenon DEF Chosen
    <3> QED BY <3>1, <2>3, ListedLaid
  <2>6. b \in Nat \ {0} /\ b \notin DOMAIN held
    BY <2>2, <1>3 DEF Strung, Marked
  <2> QED BY <2>4, <2>5, <2>6, <1>3
<1> QED BY <1>4, <1>5

-----------------------------------------------------------------------------
(* A heap that has lost a block is as it happens to be: what every call    *)
(* keeps of it is that the block stays lost.                               *)
Keeps(g, h) == IsHeap(g) /\ h.lost \subseteq g.lost

(* Each call is made of these.                                             *)
LEMMA KeepsAll ==
  \A g, k, h : Keeps(g, k) /\ Keeps(k, h) => Keeps(g, h)
BY DEF Keeps

(* Writing list words or the break loses no block.                         *)
LEMMA ListKeeps ==
  ASSUME NEW h, IsHeap(h), NEW x
  PROVE  /\ Keeps([h EXCEPT !.link = x], h)
         /\ Keeps([h EXCEPT !.head = x], h)
         /\ Keeps([h EXCEPT !.tail = x], h)
         /\ Keeps([h EXCEPT !.top = x], h)
<1>1. Keeps([h EXCEPT !.link = x], h)
  <2>1. PICK k : k = [h EXCEPT !.link = x]
    OBVIOUS
  <2>2. k = [header |-> h.header, foot |-> h.foot, link |-> x, head |-> h.head,
              tail |-> h.tail, top |-> h.top, lost |-> h.lost]
    BY <2>1, SetWord, Zenon
  <2>3. Keeps(k, h)
    BY <2>2 DEF Keeps, IsHeap
  <2> QED BY <2>1, <2>3
<1>2. Keeps([h EXCEPT !.head = x], h)
  <2>1. PICK k : k = [h EXCEPT !.head = x]
    OBVIOUS
  <2>2. k = [header |-> h.header, foot |-> h.foot, link |-> h.link, head |-> x,
              tail |-> h.tail, top |-> h.top, lost |-> h.lost]
    BY <2>1, SetWord, Zenon
  <2>3. Keeps(k, h)
    BY <2>2 DEF Keeps, IsHeap
  <2> QED BY <2>1, <2>3
<1>3. Keeps([h EXCEPT !.tail = x], h)
  <2>1. PICK k : k = [h EXCEPT !.tail = x]
    OBVIOUS
  <2>2. k = [header |-> h.header, foot |-> h.foot, link |-> h.link, head |-> h.head,
              tail |-> x, top |-> h.top, lost |-> h.lost]
    BY <2>1, SetWord, Zenon
  <2>3. Keeps(k, h)
    BY <2>2 DEF Keeps, IsHeap
  <2> QED BY <2>1, <2>3
<1>4. Keeps([h EXCEPT !.top = x], h)
  <2>1. PICK k : k = [h EXCEPT !.top = x]
    OBVIOUS
  <2>2. k = [header |-> h.header, foot |-> h.foot, link |-> h.link, head |-> h.head,
              tail |-> h.tail, top |-> x, lost |-> h.lost]
    BY <2>1, SetWord, Zenon
  <2>3. Keeps(k, h)
    BY <2>2 DEF Keeps, IsHeap
  <2> QED BY <2>1, <2>3
<1> QED BY <1>1, <1>2, <1>3, <1>4

(* Writing a neighbour's link loses no block.                              *)
LEMMA NeighbourKeeps ==
  ASSUME NEW h, IsHeap(h), NEW b, NEW c
  PROVE  Keeps(SetNext(h, b, c), h) /\ Keeps(SetPrev(h, b, c), h)
<1>1. Keeps(SetNext(h, b, c), h)
  <2>1. CASE b = Null
    <3>1. SetNext(h, b, c) = [h EXCEPT !.head = c]
      BY <2>1, Zenon DEF SetNext
    <3> QED BY <3>1, ListKeeps, Zenon
  <2>2. CASE b # Null
    <3>1. PICK l : l = [h.link EXCEPT ![b].next = c]
      OBVIOUS
    <3>2. SetNext(h, b, c) = [h EXCEPT !.link = l]
      BY <2>2, <3>1, Zenon DEF SetNext
    <3> QED BY <3>2, ListKeeps, Zenon
  <2> QED BY <2>1, <2>2
<1>2. Keeps(SetPrev(h, b, c), h)
  <2>1. CASE b = Null
    <3>1. SetPrev(h, b, c) = [h EXCEPT !.tail = c]
      BY <2>1, Zenon DEF SetPrev
    <3> QED BY <3>1, ListKeeps, Zenon
  <2>2. CASE b # Null
    <3>1. PICK l : l = [h.link EXCEPT ![b].prev = c]
      OBVIOUS
    <3>2. SetPrev(h, b, c) = [h EXCEPT !.link = l]
      BY <2>2, <3>1, Zenon DEF SetPrev
    <3> QED BY <3>2, ListKeeps, Zenon
  <2> QED BY <2>1, <2>2
<1> QED BY <1>1, <1>2

(* Writing the words of a block loses none.                                *)
LEMMA BlockKeeps ==
  ASSUME NEW h, IsHeap(h), NEW b, NEW n, NEW x
  PROVE  /\ Keeps(Write(h, b, n, x), h) /\ Keeps(Use(h, b, n), h)
         /\ Keeps(Resize(h, b, n), h) /\ Keeps(Without(h, b, n), h)
<1>1. Keeps(Write(h, b, n, x), h)
  <2>1. PICK g : g = Write(h, b, n, x)
    OBVIOUS
  <2>2. /\ IsHeap(g)
        /\ g.header = Put(h.header, b, [size |-> n, tag |-> x])
        /\ g.foot = Put(h.foot, b + n, [size |-> n, tag |-> x])
        /\ g.link = h.link /\ g.head = h.head /\ g.tail = h.tail
        /\ g.top = h.top /\ g.lost = h.lost
    BY <2>1, WriteIs
  <2> QED BY <2>1, <2>2 DEF Keeps
<1>2. Keeps(Use(h, b, n), h)
  <2>1. PICK g : g = Use(h, b, n)
    OBVIOUS
  <2>2. /\ IsHeap(g)
        /\ g.header = Put(Drop(h.header, b + 1 .. b + n), b,
                          [size |-> n, tag |-> Used])
        /\ g.foot = Put(Drop(h.foot, b .. b + n - 1), b + n,
                        [size |-> n, tag |-> Used])
        /\ g.link = Drop(h.link, b .. b + n - 1)
        /\ g.head = h.head /\ g.tail = h.tail
        /\ g.top = h.top /\ g.lost = h.lost
    BY <2>1, UseIs
  <2> QED BY <2>1, <2>2 DEF Keeps
<1>3. Keeps(Resize(h, b, n), h)
  <2>1. PICK g : g = Resize(h, b, n)
    OBVIOUS
  <2>2. IsHeap(g) /\ g.lost = h.lost
    BY <2>1, ResizeIs
  <2> QED BY <2>1, <2>2 DEF Keeps
<1>4. Keeps(Without(h, b, n), h)
  <2>1. PICK g : g = Without(h, b, n)
    OBVIOUS
  <2>2. IsHeap(g) /\ g.lost = h.lost
    BY <2>1, WithoutIs DEF Dropped
  <2> QED BY <2>1, <2>2 DEF Keeps
<1> QED BY <1>1, <1>2, <1>3, <1>4

(* Hanging a block into the list loses none.                               *)
LEMMA HangKeeps ==
  ASSUME NEW h, IsHeap(h), NEW b, NEW before, NEW after
  PROVE  Keeps(Hang(h, b, before, after), h)
<1>1. PICK l : l = Put(h.link, b, [prev |-> before, next |-> after])
  OBVIOUS
<1>2. PICK k : k = [h EXCEPT !.link = l]
  OBVIOUS
<1>3. Keeps(k, h)
  BY <1>2, ListKeeps, Zenon
<1>4. PICK m : m = SetNext(k, before, b)
  OBVIOUS
<1>5. Keeps(m, k)
  BY <1>3, <1>4, NeighbourKeeps DEF Keeps
<1>6. Hang(h, b, before, after) = SetPrev(m, after, b)
  BY <1>1, <1>2, <1>4, Zenon DEF Hang
<1>7. Keeps(SetPrev(m, after, b), m)
  BY <1>5, NeighbourKeeps DEF Keeps
<1> QED BY <1>3, <1>5, <1>6, <1>7, KeepsAll

(* Taking a block out of the list loses none.                              *)
LEMMA RemoveKeeps ==
  ASSUME NEW h, IsHeap(h), NEW b
  PROVE  Keeps(Remove(h, b), h)
<1>1. PICK p : p = h.link[b].prev
  OBVIOUS
<1>2. PICK n : n = h.link[b].next
  OBVIOUS
<1>3. PICK k : k = SetNext(h, p, n)
  OBVIOUS
<1>4. PICK m : m = SetPrev(k, n, p)
  OBVIOUS
<1>5. PICK l : l = Drop(m.link, {b})
  OBVIOUS
<1>6. Remove(h, b) = [m EXCEPT !.link = l]
  BY <1>1, <1>2, <1>3, <1>4, <1>5, Zenon DEF Remove
<1>7. Keeps(k, h)
  BY <1>3, NeighbourKeeps
<1>8. Keeps(m, k)
  BY <1>4, <1>7, NeighbourKeeps DEF Keeps
<1>9. Keeps([m EXCEPT !.link = l], m)
  <2>1. IsHeap(m)
    BY <1>8 DEF Keeps
  <2> QED BY <2>1, ListKeeps, Zenon
<1> QED BY <1>6, <1>7, <1>8, <1>9, KeepsAll, Zenon

(* Merging two blocks loses none.                                          *)
LEMMA MergeKeeps ==
  ASSUME NEW h, IsHeap(h), NEW front, NEW back
  PROVE  Keeps(Merge(h, front, back), h)
<1>1. PICK n : n = SizeOf(h, front) + 1 + SizeOf(h, back)
  OBVIOUS
<1>2. PICK next : next = h.link[back].next
  OBVIOUS
<1>3. PICK k : k = Resize(h, front, n)
  OBVIOUS
<1>4. PICK m : m = SetNext(k, front, next)
  OBVIOUS
<1>5. PICK at : at = IF back = h.tail THEN Null ELSE next
  OBVIOUS
<1>6. PICK l : l = SetPrev(m, at, front)
  OBVIOUS
<1>7. PICK f : f = back - 1
  OBVIOUS
<1>8. Merge(h, front, back) = Without(l, back, f)
  BY <1>1, <1>2, <1>3, <1>4, <1>5, <1>6, <1>7 DEF Merge
<1>9. Keeps(k, h)
  BY <1>3, BlockKeeps
<1>10. Keeps(m, k)
  BY <1>4, <1>9, NeighbourKeeps DEF Keeps
<1>11. Keeps(l, m)
  BY <1>6, <1>10, NeighbourKeeps DEF Keeps
<1>12. Keeps(Without(l, back, f), l)
  BY <1>11, BlockKeeps DEF Keeps
<1> QED BY <1>8, <1>9, <1>10, <1>11, <1>12, KeepsAll

(* What is lost before add_block_freeList is lost after it.                *)
LEMMA AddKeeps ==
  ASSUME NEW h, IsHeap(h), NEW b
  PROVE  Keeps(Add(h, b), h)
<1>1. PICK n : n = SizeOf(h, b)
  OBVIOUS
<1>2. PICK w : w = Write(h, b, n, Free)
  OBVIOUS
<1>3. PICK after : after = First(h, {c \in Listed(h) : c > b})
  OBVIOUS
<1>4. PICK before : before = IF after = Null THEN h.tail
                             ELSE IF after = h.head THEN Null
                             ELSE h.link[after].prev
  OBVIOUS
<1>5. PICK k : k = Insert(h, b)
  OBVIOUS
<1>6. Keeps(k, h)
  <2>1. k = Hang(w, b, before, after)
    BY <1>1, <1>2, <1>3, <1>4, <1>5 DEF Insert
  <2>2. Keeps(w, h)
    BY <1>2, BlockKeeps
  <2>3. Keeps(k, w)
    BY <2>1, <2>2, HangKeeps DEF Keeps
  <2> QED BY <2>2, <2>3, KeepsAll
<1>7. PICK m : m = Coalesce(k, b)
  OBVIOUS
<1>8. Keeps(m, k)
  <2>1. IsHeap(k)
    BY <1>6 DEF Keeps
  <2>2. PICK front : front = b - 1 - k.foot[b - 1].size
    OBVIOUS
  <2>3. PICK behind : behind = After(k, b)
    OBVIOUS
  <2>4. PICK u : u = Merge(k, front, b)
    OBVIOUS
  <2>5. Keeps(u, k) /\ Keeps(k, k)
    BY <2>1, <2>4, MergeKeeps DEF Keeps
  <2>6. \A v, x : Keeps(v, k) => Keeps(Merge(v, x, behind), k)
    <3>1. SUFFICES ASSUME NEW v, NEW x, Keeps(v, k)
                   PROVE  Keeps(Merge(v, x, behind), k)
      OBVIOUS
    <3>2. Keeps(Merge(v, x, behind), v)
      BY <3>1, MergeKeeps DEF Keeps
    <3> QED BY <3>1, <3>2, KeepsAll
  <2>7. \E v, x : Keeps(v, k) /\ (m = v \/ m = Merge(v, x, behind))
    <3>1. \/ m = k \/ m = u
          \/ m = Merge(k, b, behind) \/ m = Merge(u, front, behind)
      BY <1>7, <2>2, <2>3, <2>4 DEF Coalesce
    <3> QED BY <3>1, <2>5
  <2> QED BY <2>6, <2>7
<1>9. PICK e : e = Entered(h, b)
  OBVIOUS
<1>10. Keeps(e, h)
  <2>1. e = k \/ e = m
    BY <1>5, <1>7, <1>9 DEF Entered
  <2> QED BY <2>1, <1>6, <1>8, KeepsAll
<1>11. PICK g : g = Add(h, b)
  OBVIOUS
<1>12. g = Cut(e)
  BY <1>9, <1>11 DEF Add
<1>13. Keeps(g, e)
  <2>1. IsHeap(e)
    BY <1>10 DEF Keeps
  <2>2. CASE ~TopTooLarge(e)
    BY <2>1, <2>2, <1>12, CutIs DEF Keeps
  <2>3. CASE TopTooLarge(e) /\ e.head = e.tail
    <3>1. Emptied(g, e)
      BY <2>1, <2>3, <1>12, CutIs
    <3> QED BY <3>1 DEF Emptied, Keeps
  <2>4. CASE TopTooLarge(e) /\ e.head # e.tail
    <3>1. Lowered(g, e, e.tail, e.link[e.tail].prev, FootOf(e, e.tail))
      BY <2>1, <2>4, <1>12, CutIs
    <3> QED BY <3>1, Zenon DEF Lowered, Dropped, Keeps
  <2> QED BY <2>2, <2>3, <2>4
<1> QED BY <1>10, <1>11, <1>13, KeepsAll

(* What is lost before allocate_block is lost after it.                    *)
LEMMA BlocksKeep ==
  ASSUME NEW h, IsHeap(h), NEW b, NEW n, NEW x, NEW list
  PROVE  Keeps(AllocateBlock(h, b, n, x, list), h)
<1>1. PICK rest : rest = b + n + 1
  OBVIOUS
<1>2. PICK m : m = x - 1
  OBVIOUS
<1>3. PICK k : k = Write(h, rest, m, Free)
  OBVIOUS
<1>4. Keeps(k, h)
  BY <1>3, BlockKeeps
<1>5. PICK r : r = Replace(k, b, rest)
  OBVIOUS
<1>6. Keeps(r, k)
  BY <1>4, <1>5, HangKeeps DEF Replace, Keeps
<1>7. PICK u : u = Use(k, b, n)
  OBVIOUS
<1>8. Keeps(u, k)
  BY <1>4, <1>7, BlockKeeps DEF Keeps
<1>9. PICK v : v = Remove(h, b)
  OBVIOUS
<1>10. Keeps(v, h) /\ Keeps(h, h)
  BY <1>9, RemoveKeeps DEF Keeps
<1>11. PICK y : y = n + x
  OBVIOUS
<1>12. PICK g : g = AllocateBlock(h, b, n, x, list)
  OBVIOUS
<1>13. \/ g = Use(r, b, n) \/ g = Add(u, rest)
       \/ g = Use(v, b, y) \/ g = Use(h, b, y)
  BY <1>1, <1>2, <1>3, <1>5, <1>7, <1>9, <1>11, <1>12, Zenon DEF AllocateBlock
<1>14. Keeps(Use(r, b, n), r)
  BY <1>6, BlockKeeps DEF Keeps
<1>15. Keeps(Add(u, rest), u)
  BY <1>8, AddKeeps DEF Keeps
<1>16. Keeps(Use(v, b, y), v) /\ Keeps(Use(h, b, y), h)
  BY <1>10, BlockKeeps DEF Keeps
<1>17. Keeps(Use(r, b, n), h) /\ Keeps(Add(u, rest), h) /\ Keeps(Use(v, b, y), h)
  BY <1>4, <1>6, <1>8, <1>10, <1>14, <1>15, <1>16, KeepsAll
<1> QED BY <1>12, <1>13, <1>16, <1>17

(* What is lost before sma_malloc is lost after it.                        *)
LEMMA AllocatedKeeps ==
  ASSUME NEW h, IsHeap(h), NEW n
  PROVE  Keeps(Allocated(h, n), h)
<1>1. \A v, b, x, list :
         Keeps(v, h) => Keeps(AllocateBlock(v, b, n, x, list), h)
  <2>1. SUFFICES ASSUME NEW v, NEW b, NEW x, NEW list, Keeps(v, h)
                 PROVE  Keeps(AllocateBlock(v, b, n, x, list), h)
    OBVIOUS
  <2>2. Keeps(AllocateBlock(v, b, n, x, list), v)
    BY <2>1, BlocksKeep DEF Keeps
  <2> QED BY <2>1, <2>2, KeepsAll
<1>2. Keeps(h, h)
  BY DEF Keeps
<1>3. PICK t : t = h.tail
  OBVIOUS
<1>4. PICK k : k = Remove(h, t)
  OBVIOUS
<1>5. PICK D : D = {h.top}
  OBVIOUS
<1>6. PICK x : x = k.top + (n + Excess) - h.foot[h.top].size
  OBVIOUS
<1>7. PICK u : u = [k EXCEPT !.top = x, !.foot = Drop(@, D)]
  OBVIOUS
<1>8. Keeps(u, h)
  <2>1. Keeps(k, h)
    BY <1>4, RemoveKeeps
  <2>2. u = [header |-> k.header, foot |-> Drop(k.foot, D), link |-> k.link,
             head |-> k.head, tail |-> k.tail, top |-> x, lost |-> k.lost]
    BY <1>7, <2>1, RaisedIs, Zenon DEF Keeps
  <2>3. Keeps(u, k)
    BY <2>2 DEF Keeps, IsHeap
  <2> QED BY <2>1, <2>3, KeepsAll
<1>9. PICK y : y = h.top + 1 + n + Excess
  OBVIOUS
<1>10. PICK v : v = [h EXCEPT !.top = y]
  OBVIOUS
<1>11. Keeps(v, h)
  BY <1>10, ListKeeps, Zenon
<1>12. PICK z : z = h.top + 1
  OBVIOUS
<1>13. PICK f : f = Fitting(h, n)
  OBVIOUS
<1>14. PICK s : s = SizeOf(h, f) - n
  OBVIOUS
<1>15. \/ Allocated(h, n) = AllocateBlock(h, f, n, s, TRUE)
       \/ Allocated(h, n) = AllocateBlock(u, t, n, Excess, FALSE)
       \/ Allocated(h, n) = AllocateBlock(v, z, n, Excess, FALSE)
  BY <1>3, <1>4, <1>5, <1>6, <1>7, <1>9, <1>10, <1>12, <1>13, <1>14, Zenon
     DEF Allocated, Grown
<1> QED BY <1>1, <1>2, <1>8, <1>11, <1>15

-----------------------------------------------------------------------------
(* What the program holds after it has got, or given back, a block.        *)
LEMMA PutHolds ==
  ASSUME NEW held, NEW b, NEW n
  PROVE  Holds(Put(held, b, n), held, b, n)
<1>1. PICK f : f = Put(held, b, n)
  OBVIOUS
<1>2. /\ \A y : y \in DOMAIN f <=> y \in DOMAIN held \/ y = b
      /\ f[b] = n
      /\ \A y \in DOMAIN held : y # b => f[y] = held[y]
  BY <1>1, PutIs
<1>3. Holds(f, held, b, n)
  BY <1>2 DEF Holds
<1> QED BY <1>1, <1>3

(* Dropping a block from what is held releases that block and no other.    *)
LEMMA DropReleases ==
  ASSUME NEW held, NEW b
  PROVE  Released(Drop(held, {b}), held, b)
<1>1. PICK f : f = Drop(held, {b})
  OBVIOUS
<1>2. /\ \A y : y \in DOMAIN f <=> y \in DOMAIN held /\ y # b
      /\ \A y \in DOMAIN held : y # b => f[y] = held[y]
  BY <1>1, DropIs
<1>3. Released(f, held, b)
  BY <1>2 DEF Released
<1> QED BY <1>1, <1>3

(* Getting a block and giving back another, in either order.               *)
LEMMA MoveReleases ==
  ASSUME NEW held, NEW b, NEW c, b # c, NEW n
  PROVE  Released(Put(Drop(held, {b}), c, n), Put(held, c, n), b)
<1>1. PICK f : f = Put(held, c, n)
  OBVIOUS
<1>2. PICK d : d = Drop(held, {b})
  OBVIOUS
<1>3. PICK g : g = Put(d, c, n)
  OBVIOUS
<1>4. Holds(f, held, c, n) /\ Released(d, held, b) /\ Holds(g, d, c, n)
  BY <1>1, <1>2, <1>3, PutHolds, DropReleases
<1>5. Released(g, f, b)
  BY <1>4 DEF Holds, Released
<1> QED BY <1>1, <1>2, <1>3, <1>5

(* Everything that is asked of the heap between two calls.                 *)
Sound ==
  /\ Settled(heap, MaxBreak, live)
  /\ lastAllocated \in Nat
  /\ lastAllocated = 0 => DOMAIN heap.header = {}

(* What F stands for: the blocks tagged free.                              *)
LEMMA FreeSetIs ==
  ASSUME NEW F, Laid(heap, F, {}, live)
  PROVE  F = FreeSet
<1>1. /\ Marked(heap.header, DOMAIN heap.header, F, {}, live)
  BY DEF Laid, Strung
<1>2. \A c : c \in F <=> c \in DOMAIN heap.header /\ heap.header[c].tag = Free
  BY <1>1 DEF Marked
<1> QED BY <1>2 DEF FreeSet, Blocks

(* What Sound says while no block is lost.                                 *)
LEMMA SoundLaid ==
  ASSUME Sound, heap.lost = {}
  PROVE  /\ Laid(heap, FreeSet, {}, live)
         /\ IsHeap(heap) /\ heap.top \in Nat /\ heap.top <= MaxBreak
         /\ FreeSet \subseteq DOMAIN heap.header
         /\ DOMAIN live \subseteq DOMAIN heap.header
<1>1. PICK F : Laid(heap, F, {}, live)
  BY DEF Sound, Settled
<1>2. F = FreeSet
  BY <1>1, FreeSetIs
<1>3. Laid(heap, FreeSet, {}, live)
  BY <1>1, <1>2
<1>4. DOMAIN live \subseteq DOMAIN heap.header
  BY <1>3 DEF Laid, Strung, Marked
<1> QED BY <1>3, <1>4 DEF Sound, Settled, FreeSet, Blocks

(* sma_malloc.                                                             *)
LEMMA AllocatedSound ==
  ASSUME Sound, heap.lost = {}, NEW n \in Nat \ {0},
         NEW b, b = Block(heap, n), NEW g, g = Allocated(heap, n)
  PROVE  /\ \E K : Laid(g, K, {}, Put(live, b, n))
         /\ g.top \in Nat /\ heap.top <= g.top
         /\ heap.top < g.top => NoneLarger(n)
         /\ b \in Nat \ {0} /\ b \notin DOMAIN live
<1>1. PICK F : F = FreeSet
  OBVIOUS
<1>2. Laid(heap, F, {}, live) /\ F \subseteq DOMAIN heap.header
  BY <1>1, SoundLaid
<1>3. lastAllocated \in Nat /\ (lastAllocated = 0 => F = {})
  BY <1>2 DEF Sound
<1>4. PICK held : held = Put(live, b, n)
  OBVIOUS
<1>5. Holds(held, live, b, n)
  BY <1>4, PutHolds
<1>6. /\ \E K : Laid(g, K, {}, held)
      /\ g.top \in Nat /\ heap.top <= g.top
      /\ heap.top < g.top => \A c \in F : SizeOf(heap, c) <= n
      /\ b \in Nat \ {0} /\ b \notin DOMAIN live
  BY <1>2, <1>3, <1>5, AllocatedLaid
<1>7. heap.top < g.top => NoneLarger(n)
  BY <1>1, <1>6 DEF NoneLarger
<1> QED BY <1>4, <1>6, <1>7

(* A heap whose blocks are laid out is settled at any bound of its break.  *)
LEMMA LaidSettled ==
  ASSUME NEW g, NEW K, NEW held, Laid(g, K, {}, held), NEW top, g.top <= top
  PROVE  Settled(g, top, held) /\ g.lost = {} /\ IsHeap(g)
<1>1. IsHeap(g) /\ g.lost = {} /\ Strung(g, K, {}, held)
  BY DEF Laid, Strung
<1>2. g.top \in Nat
  BY <1>1, FreeBelow
<1> QED BY <1>1, <1>2 DEF Settled

(* A settled heap is settled under any higher limit.                       *)
LEMMA SettledHigher ==
  ASSUME NEW g, NEW held, NEW top \in Nat, Settled(g, top, held),
         NEW max \in Nat, top <= max
  PROVE  Settled(g, max, held)
<1>1. g.top \in Nat /\ g.top <= top
  BY DEF Settled
<1>2. g.top <= max
  BY <1>1
<1> QED BY <1>2 DEF Settled

(* sma_malloc keeps the heap sound.                                        *)
LEMMA MallocSound ==
  ASSUME Sound, heap.lost = {}, NEW n \in Sizes,
         Allocated(heap, n).top <= MaxBreak,
         heap' = Allocated(heap, n), lastAllocated' = Block(heap, n),
         live' = Put(live, Block(heap, n), n)
  PROVE  Sound'
<1>1. n \in Nat \ {0}
  BY SizesAssumption
<1>2. PICK b : b = Block(heap, n)
  OBVIOUS
<1>3. PICK g : g = Allocated(heap, n)
  OBVIOUS
<1>4. PICK held : held = Put(live, b, n)
  OBVIOUS
<1>5. /\ \E K : Laid(g, K, {}, held)
      /\ b \in Nat \ {0}
  BY <1>1, <1>2, <1>3, <1>4, AllocatedSound
<1>6. heap' = g /\ lastAllocated' = b /\ live' = held
  BY <1>2, <1>3, <1>4
<1>7. g.top <= MaxBreak
  BY <1>3
<1>8. Settled(g, MaxBreak, held)
  BY <1>5, <1>7, LaidSettled
<1>9. Settled(heap', MaxBreak, live')
  BY <1>6, <1>8
<1> QED BY <1>5, <1>6, <1>9 DEF Sound

(* sma_free keeps the heap sound and never raises the break.               *)
LEMMA FreeSound ==
  ASSUME Sound, heap.lost = {}, NEW b \in DOMAIN live,
         heap' = Add(heap, b), live' = Drop(live, {b}),
         UNCHANGED lastAllocated
  PROVE  Sound' /\ heap'.top <= heap.top
<1>1. PICK F : F = FreeSet
  OBVIOUS
<1>2. /\ Laid(heap, F, {}, live) /\ heap.top \in Nat /\ heap.top <= MaxBreak
      /\ b \in DOMAIN heap.header
  BY <1>1, SoundLaid
<1>3. PICK g : g = Add(heap, b)
  OBVIOUS
<1>4. PICK held : held = Drop(live, {b})
  OBVIOUS
<1>5. Released(held, live, b)
  BY <1>4, DropReleases
<1>6. Settled(g, heap.top, held)
  BY <1>2, <1>3, <1>5, FreedLaid
<1>7. Settled(g, MaxBreak, held) /\ g.top <= heap.top
  BY <1>2, <1>6, BoundAssumption, SettledHigher DEF Settled
<1>8. heap' = g /\ live' = held
  BY <1>3, <1>4
<1>9. Settled(heap', MaxBreak, live') /\ heap'.top <= heap.top
  BY <1>7, <1>8
<1>10. lastAllocated \in Nat /\ lastAllocated # 0
  BY <1>2 DEF Sound
<1> QED BY <1>9, <1>10 DEF Sound

(* A block that is as large as asked, or too little larger to be split.    *)
LEMMA SameLaid ==
  ASSUME NEW h, NEW F, NEW held, Laid(h, F, {}, held), NEW b \in DOMAIN held,
         NEW n \in Nat \ {0}, n = SizeOf(h, b),
         NEW held2, Holds(held2, held, b, n)
  PROVE  Laid(h, F, {}, held2)
<1>1. /\ Marked(h.header, DOMAIN h.header, F, {}, held)
      /\ Strung(h, F, {}, held)
  BY DEF Laid, Strung
<1>2. PICK hd : hd = h.header
  OBVIOUS
<1>3. Marked(hd, DOMAIN hd, F, {}, held) /\ n = hd[b].size
  BY <1>1, <1>2 DEF SizeOf
<1>4. n <= hd[b].size /\ hd[b].size <= n + MinSplit
  BY <1>3, ExcessAssumption
<1>5. Marked(hd, DOMAIN hd, F, {}, held2)
  BY <1>3, <1>4 DEF Marked, Holds
<1>6. Strung(h, F, {}, held2)
  BY <1>1, <1>2, <1>5 DEF Strung
<1> QED BY <1>6 DEF Laid

(* sma_realloc to a smaller size keeps the heap sound and never raises the *)
(* break.                                                                  *)
LEMMA ShrinkSound ==
  ASSUME Sound, heap.lost = {}, NEW b \in DOMAIN live, NEW n \in Sizes,
         n <= SizeOf(heap, b),
         heap' = IF n = SizeOf(heap, b) THEN heap
                 ELSE AllocateBlock(heap, b, n, SizeOf(heap, b) - n, FALSE),
         live' = Put(live, b, n), UNCHANGED lastAllocated
  PROVE  Sound' /\ heap'.top <= heap.top
<1>1. PICK F : F = FreeSet
  OBVIOUS
<1>2. /\ Laid(heap, F, {}, live) /\ heap.top \in Nat /\ heap.top <= MaxBreak
      /\ b \in DOMAIN heap.header
  BY <1>1, SoundLaid
<1>3. n \in Nat \ {0}
  BY SizesAssumption
<1>4. PICK held : held = Put(live, b, n)
  OBVIOUS
<1>5. Holds(held, live, b, n)
  BY <1>4, PutHolds
<1>6. PICK g : g = heap'
  OBVIOUS
<1>7. Settled(g, heap.top, held)
  <2>1. CASE n = SizeOf(heap, b)
    <3>1. Laid(heap, F, {}, held)
      BY <2>1, <1>2, <1>3, <1>5, SameLaid
    <3>2. heap.top <= heap.top
      BY <1>2
    <3>3. Settled(heap, heap.top, held)
      BY <3>1, <3>2, LaidSettled
    <3>4. g = heap
      BY <2>1, <1>6
    <3> QED BY <3>3, <3>4
  <2>2. CASE n # SizeOf(heap, b)
    <3>1. g = Shrink(heap, b, n)
      BY <2>2, <1>6, Zenon DEF Shrink
    <3>2. n < SizeOf(heap, b)
      <4>1. heap.header[b].size \in Nat
        <5>1. Strung(heap, F, {}, live)
          BY <1>2 DEF Laid
        <5> QED BY <5>1, <1>2, FreeBelow
      <4> QED BY <4>1, <2>2, <1>3 DEF SizeOf
    <3> QED BY <3>1, <3>2, <1>2, <1>3, <1>5, ShrunkLaid
  <2> QED BY <2>1, <2>2
<1>8. Settled(g, MaxBreak, held) /\ g.top <= heap.top
  BY <1>2, <1>7, BoundAssumption, SettledHigher DEF Settled
<1>9. Settled(heap', MaxBreak, live') /\ heap'.top <= heap.top
  BY <1>4, <1>6, <1>8
<1>10. lastAllocated \in Nat /\ lastAllocated # 0
  BY <1>2 DEF Sound
<1> QED BY <1>9, <1>10 DEF Sound

(* sma_realloc that moves a block keeps the heap sound; only its malloc    *)
(* can raise the break.                                                    *)
LEMMA MoveSound ==
  ASSUME Sound, heap.lost = {}, NEW b \in DOMAIN live, NEW n \in Sizes,
         Allocated(heap, n).top <= MaxBreak,
         heap' = Add(Allocated(heap, n), b), lastAllocated' = Block(heap, n),
         live' = Put(Drop(live, {b}), Block(heap, n), n)
  PROVE  Sound' /\ heap'.top <= Allocated(heap, n).top
<1>1. n \in Nat \ {0}
  BY SizesAssumption
<1>2. PICK c : c = Block(heap, n)
  OBVIOUS
<1>3. PICK k : k = Allocated(heap, n)
  OBVIOUS
<1>4. PICK held : held = Put(live, c, n)
  OBVIOUS
<1>5. /\ \E K : Laid(k, K, {}, held)
      /\ k.top \in Nat /\ c \in Nat \ {0} /\ c \notin DOMAIN live
  BY <1>1, <1>2, <1>3, <1>4, AllocatedSound
<1>6. PICK K : Laid(k, K, {}, held)
  BY <1>5
<1>7. PICK held2 : held2 = Put(Drop(live, {b}), c, n)
  OBVIOUS
<1>8. Released(held2, held, b)
  BY <1>4, <1>5, <1>7, MoveReleases
<1>9. b \in DOMAIN held
  BY <1>4, PutIs
<1>10. PICK g : g = Add(k, b)
  OBVIOUS
<1>11. Settled(g, k.top, held2)
  BY <1>6, <1>8, <1>9, <1>10, FreedLaid
<1>12. k.top <= MaxBreak
  BY <1>3
<1>13. Settled(g, MaxBreak, held2) /\ g.top <= k.top
  BY <1>5, <1>11, <1>12, BoundAssumption, SettledHigher DEF Settled
<1>14. heap' = g /\ live' = held2 /\ lastAllocated' = c
  BY <1>2, <1>3, <1>7, <1>10
<1>15. Settled(heap', MaxBreak, live') /\ heap'.top <= k.top
  BY <1>13, <1>14
<1> QED BY <1>3, <1>5, <1>14, <1>15 DEF Sound
-----------------------------------------------------------------------------
(* The inductive invariant: a heap that has lost no block is sound, and    *)
(* what is lost stays lost.                                                *)
HeapInv == IsHeap(heap) /\ (heap.lost = {} => Sound)

(* The heap starts empty, sound, with nothing lost.                        *)
LEMMA HeapInit == Init => Sound /\ heap.lost = {} /\ heap.top = 0
<1>1. SUFFICES ASSUME Init PROVE Sound /\ heap.lost = {} /\ heap.top = 0
  OBVIOUS
<1>2. PICK e : e = <<>>
  OBVIOUS
<1>3. DOMAIN e = {}
  BY <1>2
<1>4. /\ IsHeap(heap) /\ heap.header = e /\ heap.foot = e /\ heap.link = e
      /\ heap.head = Null /\ heap.tail = Null /\ heap.top = 0 /\ heap.lost = {}
      /\ live = e /\ lastAllocated = 0
  BY <1>1, <1>2 DEF Init, IsHeap, Null
<1>5. PICK t : t = heap.top
  OBVIOUS
<1>6. Tiling(e, t)
  BY <1>3, <1>4, <1>5 DEF Tiling, Spaced
<1>7. Footed(e, DOMAIN e, e, {}) /\ Marked(e, DOMAIN e, {}, {}, e)
  BY <1>3 DEF Footed, Marked
<1>8. Linked(e, Null, Null, {})
  BY <1>3 DEF Linked, IsLowest, IsHighest
<1>9. Strung(heap, {}, {}, live)
  BY <1>4, <1>5, <1>6, <1>7, <1>8 DEF Strung
<1>10. Split(heap.header, {}) /\ Low(heap.header, {}, heap.top)
  BY DEF Split, Low
<1>11. Laid(heap, {}, {}, live)
  BY <1>9, <1>10 DEF Laid
<1>12. heap.top <= MaxBreak
  BY <1>4, BoundAssumption
<1>13. Settled(heap, MaxBreak, live)
  BY <1>11, <1>12, LaidSettled
<1> QED BY <1>3, <1>4, <1>13 DEF Sound

(* What a step does, whether or not a block has been lost.                 *)
LEMMA StepKeeps ==
  ASSUME IsHeap(heap), [Next]_vars
  PROVE  Keeps(heap', heap)
<1>1. Keeps(heap, heap)
  BY DEF Keeps
<1>2. ASSUME NEW n \in Sizes, Malloc(n) PROVE Keeps(heap', heap)
  <2>1. CASE NoMemory(n)
    BY <2>1, <1>1 DEF NoMemory
  <2>2. CASE heap' = Allocated(heap, n)
    BY <2>2, AllocatedKeeps
  <2> QED BY <1>2, <2>1, <2>2 DEF Malloc
<1>3. ASSUME NEW b \in DOMAIN live, FreeBlock(b) PROVE Keeps(heap', heap)
  BY <1>3, AddKeeps DEF FreeBlock
<1>4. ASSUME NEW b \in DOMAIN live, NEW n \in Sizes, ReallocShrink(b, n)
      PROVE  Keeps(heap', heap)
  <2>1. PICK x : x = SizeOf(heap, b) - n
    OBVIOUS
  <2>2. \/ heap' = heap \/ heap' = AllocateBlock(heap, b, n, x, FALSE)
    BY <1>4, <2>1 DEF ReallocShrink
  <2> QED BY <2>2, <1>1, BlocksKeep
<1>5. ASSUME NEW b \in DOMAIN live, NEW n \in Sizes, ReallocMove(b, n)
      PROVE  Keeps(heap', heap)
  <2>1. CASE NoMemory(n)
    BY <2>1, <1>1 DEF NoMemory
  <2>2. CASE heap' = Add(Allocated(heap, n), b)
    <3>1. PICK k : k = Allocated(heap, n)
      OBVIOUS
    <3>2. Keeps(k, heap)
      BY <3>1, AllocatedKeeps
    <3>3. Keeps(Add(k, b), k)
      BY <3>2, AddKeeps DEF Keeps
    <3> QED BY <2>2, <3>1, <3>2, <3>3, KeepsAll
  <2> QED BY <1>5, <2>1, <2>2 DEF ReallocMove
<1>6. CASE UNCHANGED vars
  BY <1>6, <1>1 DEF vars
<1>7. CASE UNCHANGED heap
  BY <1>7, <1>1
<1> QED BY <1>2, <1>3, <1>4, <1>5, <1>6, <1>7
        DEF Next, Mallopt, ReallocInPlace, vars

(* No call makes a sound heap unsound.                                     *)
LEMMA StepSound ==
  ASSUME Sound, heap.lost = {}, [Next]_vars
  PROVE  Sound'
<1>1. ASSUME UNCHANGED <<heap, lastAllocated, live>> PROVE Sound'
  BY <1>1 DEF Sound, Settled, Spoiled, Laid
<1>2. ASSUME NEW n \in Sizes, NoMemory(n) PROVE Sound'
  BY <1>1, <1>2 DEF NoMemory
<1>3. ASSUME NEW n \in Sizes, Malloc(n) PROVE Sound'
  BY <1>2, <1>3, MallocSound DEF Malloc
<1>4. ASSUME NEW b \in DOMAIN live, FreeBlock(b) PROVE Sound'
  BY <1>4, FreeSound DEF FreeBlock
<1>5. ASSUME NEW b \in DOMAIN live, NEW n \in Sizes, ReallocShrink(b, n)
      PROVE  Sound'
  BY <1>5, ShrinkSound DEF ReallocShrink
<1>6. ASSUME NEW b \in DOMAIN live, NEW n \in Sizes, ReallocMove(b, n)
      PROVE  Sound'
  BY <1>2, <1>6, MoveSound DEF ReallocMove
<1>7. ASSUME NEW policy, Mallopt(policy) PROVE Sound'
  BY <1>1, <1>7 DEF Mallopt
<1>8. ASSUME NEW b, NEW n, ReallocInPlace(b, n) PROVE Sound'
  BY <1>1, <1>8 DEF ReallocInPlace
<1>9. CASE UNCHANGED vars
  BY <1>1, <1>9 DEF vars
<1> QED BY <1>3, <1>4, <1>5, <1>6, <1>7, <1>8, <1>9 DEF Next

(* The words of the heap are what sma.c takes them for as long as no block *)
(* has been lost, for any sizes, bounds and policies: the blocks tile the  *)
(* memory below the break, the free list holds the free ones, and each     *)
(* call leaves it so.                                                      *)
THEOREM HeapInvariant == Spec => []HeapInv
<1>1. Init => HeapInv
  BY HeapInit DEF HeapInv, Sound, Settled
<1>2. HeapInv /\ [Next]_vars => HeapInv'
  <2>1. SUFFICES ASSUME HeapInv, [Next]_vars PROVE HeapInv'
    OBVIOUS
  <2>2. IsHeap(heap') /\ heap.lost \subseteq heap'.lost
    BY <2>1, StepKeeps DEF HeapInv, Keeps
  <2>3. ASSUME heap'.lost = {} PROVE Sound'
    BY <2>1, <2>2, <2>3, StepSound DEF HeapInv
  <2> QED BY <2>2, <2>3 DEF HeapInv
<1> QED BY <1>1, <1>2, PTL DEF Spec
-----------------------------------------------------------------------------
(* The five properties of the heap's structure follow from HeapInv.        *)
LEMMA TagsHold ==
  ASSUME HeapInv, heap.lost = {}
  PROVE  BoundaryTags
<1>1. PICK hd : hd = heap.header
  OBVIOUS
<1>2. PICK ft : ft = heap.foot
  OBVIOUS
<1>3. PICK top : top = heap.top
  OBVIOUS
<1>4. Tiling(hd, top) /\ Footed(hd, DOMAIN hd, ft, {})
  <2>1. Laid(heap, FreeSet, {}, live)
    BY SoundLaid DEF HeapInv
  <2> QED BY <2>1, <1>1, <1>2, <1>3 DEF Laid, Strung
<1>5. /\ Blocks = DOMAIN hd
      /\ \A b : FootOf(heap, b) = EndOf(hd, b) /\ After(heap, b) = EndOf(hd, b) + 1
  BY <1>1 DEF Blocks, FootOf, SizeOf, EndOf, After
<1>6. \A b \in DOMAIN hd : b \in Nat \ {0} /\ EndOf(hd, b) \in Nat
  BY <1>4 DEF Tiling, Spaced, EndOf, IsWord
<1>7. DOMAIN ft = {FootOf(heap, b) : b \in Blocks}
  <2>1. \A x : x \in DOMAIN ft <=> \E b \in DOMAIN hd : x = EndOf(hd, b)
    BY <1>4 DEF Footed
  <2>2. \A x : x \in DOMAIN ft <=> \E b \in Blocks : x = FootOf(heap, b)
    BY <2>1, <1>5
  <2> QED BY <2>2
<1>8. ASSUME NEW b \in DOMAIN hd
      PROVE  /\ ft[EndOf(hd, b)] = hd[b]
             /\ b = 1 \/ b - 1 \in DOMAIN ft
             /\ EndOf(hd, b) = top \/ EndOf(hd, b) + 1 \in DOMAIN hd
             /\ \A c \in DOMAIN hd : b < c => EndOf(hd, b) < c
  <2>1. ft[EndOf(hd, b)] = hd[b]
    BY <1>4, <1>8 DEF Footed
  <2>2. b = 1 \/ b - 1 \in DOMAIN ft
    <3>1. SUFFICES ASSUME b # 1 PROVE b - 1 \in DOMAIN ft
      OBVIOUS
    <3>2. PICK a \in DOMAIN hd : EndOf(hd, a) + 1 = b
      BY <1>4, <1>8, <3>1 DEF Tiling
    <3>3. b - 1 = EndOf(hd, a)
      BY <1>6, <3>2
    <3> QED BY <1>4, <3>2, <3>3 DEF Footed
  <2>3. /\ EndOf(hd, b) = top \/ EndOf(hd, b) + 1 \in DOMAIN hd
        /\ \A c \in DOMAIN hd : b < c => EndOf(hd, b) < c
    BY <1>4, <1>8 DEF Tiling, Spaced
  <2> QED BY <2>1, <2>2, <2>3
<1>9. DOMAIN hd = {} => top = 0
  BY <1>4 DEF Tiling
<1>10. \A b \in Blocks :
         /\ ft[FootOf(heap, b)] = hd[b]
         /\ b = 1 \/ b - 1 \in DOMAIN ft
         /\ FootOf(heap, b) = top \/ After(heap, b) \in Blocks
         /\ \A c \in Blocks : b < c => FootOf(heap, b) < c
  BY <1>5, <1>8, Zenon
<1> QED BY <1>1, <1>2, <1>3, <1>5, <1>7, <1>9, <1>10, Zenon DEF BoundaryTags

(* The list is the free blocks in the order of their addresses.            *)
LEMMA ListHolds ==
  ASSUME HeapInv, heap.lost = {}
  PROVE  FreeListExact
<1>1. PICK F : F = FreeSet
  OBVIOUS
<1>2. PICK lk : lk = heap.link
  OBVIOUS
<1>3. Laid(heap, F, {}, live)
  BY <1>1, SoundLaid DEF HeapInv
<1>4. Strung(heap, F, {}, live)
  BY <1>3 DEF Laid
<1>5. Linked(lk, heap.head, heap.tail, F)
  BY <1>2, <1>4 DEF Strung
<1>6. PICK top : top = heap.top
  OBVIOUS
<1>7. F \subseteq Nat \ {0} /\ top \in Nat /\ \A y \in F : y <= top
  BY <1>4, <1>6, FreeBelow
<1>8. \A S \in SUBSET F : \A x : /\ IsLowest(x, S) => x = Lowest(S)
                                 /\ IsHighest(x, S) => x = Highest(S)
  <2>1. SUFFICES ASSUME NEW S \in SUBSET F, NEW x
                 PROVE  /\ IsLowest(x, S) => x = Lowest(S)
                        /\ IsHighest(x, S) => x = Highest(S)
    OBVIOUS
  <2>2. S \subseteq Nat /\ \A y \in S : y <= top
    BY <1>7
  <2> QED BY <2>2, <1>7, LowestIs, HighestIs
<1>9. ASSUME NEW b \in F
      PROVE  lk[b] = [prev |-> Highest(Below(b)), next |-> Lowest(Above(b))]
  <2>1. PICK A : A = Above(b)
    OBVIOUS
  <2>2. PICK B : B = Below(b)
    OBVIOUS
  <2>3. /\ \A c : c \in A <=> c \in F /\ c > b
        /\ \A c : c \in B <=> c \in F /\ c < b
    BY <1>1, <2>1, <2>2 DEF Above, Below
  <2>4. /\ IsNode(lk[b]) /\ IsPrev(F, b, lk[b].prev) /\ IsNext(F, b, lk[b].next)
    BY <1>5, <1>9 DEF Linked
  <2>5. PICK p : p = lk[b].prev
    OBVIOUS
  <2>6. PICK n : n = lk[b].next
    OBVIOUS
  <2>7. IsLowest(n, A)
    <3>1. IsNext(F, b, n)
      BY <2>4, <2>6
    <3>2. CASE n = Null /\ \A c \in F : c <= b
      <4>1. \A c \in A : FALSE
        BY <3>2, <2>3, <1>7, <1>9
      <4> QED BY <3>2, <4>1 DEF IsLowest
    <3>3. CASE n \in F /\ b < n /\ \A c \in F : b < c => n <= c
      <4>1. n \in A /\ \A y \in A : n <= y
        BY <3>3, <2>3, <1>7, <1>9
      <4> QED BY <4>1 DEF IsLowest
    <3> QED BY <3>1, <3>2, <3>3, Zenon DEF IsNext
  <2>8. IsHighest(p, B)
    <3>1. IsPrev(F, b, p)
      BY <2>4, <2>5
    <3>2. CASE p = Null /\ \A c \in F : b <= c
      <4>1. \A c \in B : FALSE
        BY <3>2, <2>3, <1>7, <1>9
      <4> QED BY <3>2, <4>1 DEF IsHighest
    <3>3. CASE p \in F /\ p < b /\ \A c \in F : c < b => c <= p
      <4>1. p \in B /\ \A y \in B : y <= p
        BY <3>3, <2>3, <1>7, <1>9
      <4> QED BY <4>1 DEF IsHighest
    <3> QED BY <3>1, <3>2, <3>3, Zenon DEF IsPrev
  <2>9. n = Lowest(A) /\ p = Highest(B)
    BY <2>3, <2>7, <2>8, <1>8
  <2>10. lk[b] = [prev |-> p, next |-> n]
    BY <2>4, <2>5, <2>6 DEF IsNode
  <2> QED BY <2>1, <2>2, <2>9, <2>10
<1>10. DOMAIN lk = F /\ heap.head = Lowest(F) /\ heap.tail = Highest(F)
  BY <1>5, <1>8 DEF Linked
<1> QED BY <1>1, <1>2, <1>9, <1>10, Zenon DEF FreeListExact

(* No two free blocks touch, and the top one is below the limit.           *)
LEMMA ApartHolds ==
  ASSUME HeapInv, heap.lost = {}
  PROVE  Coalesced /\ TopBounded
<1>1. PICK F : F = FreeSet
  OBVIOUS
<1>2. PICK hd : hd = heap.header
  OBVIOUS
<1>3. Split(hd, F) /\ Low(hd, F, heap.top)
  <2>1. Laid(heap, F, {}, live)
    BY <1>1, SoundLaid DEF HeapInv
  <2> QED BY <2>1, <1>2 DEF Laid
<1>4. \A b : /\ After(heap, b) = EndOf(hd, b) + 1
             /\ FootOf(heap, b) = EndOf(hd, b) /\ SizeOf(heap, b) = hd[b].size
  BY <1>2 DEF After, FootOf, SizeOf, EndOf
<1> QED BY <1>1, <1>3, <1>4 DEF Coalesced, TopBounded, Split, Low

(* Every block held has its header, tagged used and large enough.          *)
LEMMA AccountHolds ==
  ASSUME HeapInv, heap.lost = {}
  PROVE  Accounted
<1>1. PICK F : F = FreeSet
  OBVIOUS
<1>2. PICK hd : hd = heap.header
  OBVIOUS
<1>3. Marked(hd, DOMAIN hd, F, {}, live) /\ Tiling(hd, heap.top)
  <2>1. Laid(heap, F, {}, live)
    BY <1>1, SoundLaid DEF HeapInv
  <2> QED BY <2>1, <1>2 DEF Laid, Strung
<1>4. \A c : c \in DOMAIN hd \ F <=> c \in DOMAIN live
  BY <1>3 DEF Marked
<1>5. \A c \in DOMAIN live : hd[c].size \in live[c] .. live[c] + MinSplit
  BY <1>3, ExcessAssumption DEF Marked, Tiling, Spaced, IsWord
<1> QED BY <1>1, <1>2, <1>4, <1>5 DEF Accounted, Blocks, SizeOf

(* The invariant implies what the runs check of the heap's structure.      *)
LEMMA StructureHolds ==
  HeapInv => /\ BoundaryTags /\ FreeListExact /\ Coalesced
             /\ TopBounded /\ Accounted
<1>1. CASE heap.lost = {}
  BY <1>1, TagsHold, ListHolds, ApartHolds, AccountHolds
<1>2. CASE heap.lost # {}
  BY <1>2 DEF BoundaryTags, FreeListExact, Coalesced, TopBounded, Accounted, Whole
<1> QED BY <1>1, <1>2

(* Header and foot agree, blocks do not overlap, and nothing lies between  *)
(* them (sma.c:284-287, 469-472, 605-616, 734-735).                        *)
THEOREM TagsAreTrue == Spec => []BoundaryTags
BY HeapInvariant, StructureHolds, PTL

(* The free list is exactly the free blocks in ascending order, both ways  *)
(* (sma.c:522-538, 574-602, 634-637, 658-673, 736-742).                    *)
THEOREM ListIsExact == Spec => []FreeListExact
BY HeapInvariant, StructureHolds, PTL

(* No two free blocks lie side by side, although the first of the list and *)
(* one put on an empty list are not looked at (sma.c:574-577, 609-623).    *)
THEOREM FreeIsCoalesced == Spec => []Coalesced
BY HeapInvariant, StructureHolds, PTL

(* A free block at the top is at most MAX_TOP_FREE (sma.c:27, 626-638).    *)
THEOREM TopIsBounded == Spec => []TopBounded
BY HeapInvariant, StructureHolds, PTL

(* Used blocks are those the program holds, at most MinSplit too large     *)
(* (sma.c:192-196, 239-243, 462, 488-500).                                 *)
THEOREM HeldIsUsed == Spec => []Accounted
BY HeapInvariant, StructureHolds, PTL
-----------------------------------------------------------------------------
(* The values of the words, up to and including the step that loses a      *)
(* block; PastLeak = FALSE ends the model there.                           *)
LEMMA StrungTyped ==
  ASSUME NEW h, NEW F, NEW held, Strung(h, F, {}, held), h.top <= MaxBreak
  PROVE  /\ IsPartial(h.header, Addresses, Words)
         /\ IsPartial(h.foot, Addresses, Words)
         /\ IsPartial(h.link, Addresses, Links)
         /\ h.head \in 0 .. MaxBreak /\ h.tail \in 0 .. MaxBreak
         /\ h.top \in 0 .. MaxBreak
         /\ F \subseteq Addresses /\ DOMAIN held \subseteq Addresses
<1>1. PICK hd : hd = h.header
  OBVIOUS
<1>2. PICK ft : ft = h.foot
  OBVIOUS
<1>3. PICK lk : lk = h.link
  OBVIOUS
<1>4. PICK top : top = h.top
  OBVIOUS
<1>5. /\ F \subseteq Nat \ {0} /\ top \in Nat /\ \A y \in F : y <= top
      /\ \A c \in DOMAIN hd :
           /\ c \in Nat \ {0} /\ IsWord(hd[c])
           /\ hd[c].size \in Nat \ {0}
           /\ EndOf(hd, c) \in Nat
           /\ c < EndOf(hd, c) /\ EndOf(hd, c) <= top
  BY <1>1, <1>4, FreeBelow
<1>6. top <= MaxBreak /\ MaxBreak \in Nat
  BY <1>4, BoundAssumption
<1>7. /\ Footed(hd, DOMAIN hd, ft, {}) /\ Linked(lk, h.head, h.tail, F)
      /\ Marked(hd, DOMAIN hd, F, {}, held)
  BY <1>1, <1>2, <1>3 DEF Strung
<1>8. ASSUME NEW c \in DOMAIN hd
      PROVE  /\ c \in Addresses /\ hd[c] \in Words /\ EndOf(hd, c) \in Addresses
  <2>1. PICK s : s = hd[c].size
    OBVIOUS
  <2>2. PICK g : g = hd[c].tag
    OBVIOUS
  <2>3. /\ c \in Nat \ {0} /\ s \in Nat \ {0} /\ c + s <= top /\ g \in {Free, Used}
        /\ hd[c] = [size |-> s, tag |-> g] /\ EndOf(hd, c) = c + s
    BY <1>5, <1>8, <2>1, <2>2 DEF EndOf, IsWord
  <2>4. /\ c \in 1 .. MaxBreak /\ s \in 1 .. MaxBreak
        /\ EndOf(hd, c) \in 1 .. MaxBreak
    BY <2>3, <1>5, <1>6
  <2> QED BY <2>3, <2>4 DEF Addresses, Words
<1>9. IsPartial(hd, Addresses, Words)
  BY <1>8 DEF IsPartial
<1>10. IsPartial(ft, Addresses, Words)
  <2>1. SUFFICES ASSUME NEW x \in DOMAIN ft
                 PROVE  x \in Addresses /\ ft[x] \in Words
    BY DEF IsPartial
  <2>2. PICK c \in DOMAIN hd : x = EndOf(hd, c)
    BY <1>7 DEF Footed
  <2>3. ft[x] = hd[c]
    BY <1>7, <2>2 DEF Footed
  <2> QED BY <1>8, <2>2, <2>3
<1>11. F \subseteq Addresses
  <2>1. SUFFICES ASSUME NEW y \in F PROVE y \in 1 .. MaxBreak
    BY DEF Addresses
  <2>2. y \in Nat \ {0} /\ y <= top
    BY <1>5
  <2> QED BY <2>2, <1>5, <1>6
<1>12. F \cup {0} \subseteq 0 .. MaxBreak
  <2>1. \A y \in F : y \in 1 .. MaxBreak
    BY <1>11 DEF Addresses
  <2>2. SUFFICES ASSUME NEW y \in F PROVE y \in 0 .. MaxBreak
    BY <1>6
  <2> QED BY <2>1
<1>13. h.head \in 0 .. MaxBreak /\ h.tail \in 0 .. MaxBreak
  BY <1>7, <1>12 DEF Linked, IsLowest, IsHighest, Null
<1>14. IsPartial(lk, Addresses, Links)
  <2>1. SUFFICES ASSUME NEW c \in F PROVE lk[c] \in Links
    BY <1>7, <1>11 DEF IsPartial, Linked
  <2>2. PICK p : p = lk[c].prev
    OBVIOUS
  <2>3. PICK n : n = lk[c].next
    OBVIOUS
  <2>4. lk[c] = [prev |-> p, next |-> n]
    BY <1>7, <2>2, <2>3 DEF Linked, IsNode
  <2>5. p \in F \cup {0} /\ n \in F \cup {0}
    <3>1. IsPrev(F, c, lk[c].prev) /\ IsNext(F, c, lk[c].next)
      BY <1>7 DEF Linked
    <3> QED BY <3>1, <2>2, <2>3 DEF IsPrev, IsNext, Null
  <2> QED BY <2>4, <2>5, <1>12 DEF Links
<1>15. top \in 0 .. MaxBreak
  BY <1>5, <1>6
<1>16. DOMAIN held \subseteq Addresses
  BY <1>7, <1>8 DEF Marked
<1> QED BY <1>1, <1>2, <1>3, <1>4, <1>9, <1>10, <1>11, <1>13, <1>14, <1>15, <1>16

(* A heap settled below MaxBreak has its words at addresses, with values   *)
(* of their types.                                                         *)
LEMMA SettledTyped ==
  ASSUME NEW h, NEW held, Settled(h, MaxBreak, held)
  PROVE  /\ IsPartial(h.header, Addresses, Words)
         /\ IsPartial(h.foot, Addresses, Words)
         /\ IsPartial(h.link, Addresses, Links)
         /\ h.head \in 0 .. MaxBreak /\ h.tail \in 0 .. MaxBreak
         /\ h.top \in 0 .. MaxBreak /\ h.lost \subseteq Addresses
         /\ DOMAIN held \subseteq Addresses
<1>1. CASE h.lost = {}
  <2>1. PICK F : Laid(h, F, {}, held)
    BY <1>1 DEF Settled
  <2>2. Strung(h, F, {}, held) /\ h.top <= MaxBreak
    BY <2>1 DEF Laid, Settled
  <2> QED BY <1>1, <2>2, StrungTyped
<1>2. CASE h.lost # {}
  <2>1. PICK k, F : /\ Strung(k, F, {}, held) /\ F # {} /\ k.top = h.top
                    /\ Emptied(h, k)
    BY <1>2 DEF Settled, Spoiled
  <2>2. k.top <= MaxBreak
    BY <2>1 DEF Settled
  <2>3. /\ IsPartial(k.header, Addresses, Words)
        /\ IsPartial(k.foot, Addresses, Words)
        /\ IsPartial(k.link, Addresses, Links)
        /\ k.top \in 0 .. MaxBreak
        /\ F \subseteq Addresses /\ DOMAIN held \subseteq Addresses
    BY <2>1, <2>2, StrungTyped
  <2>4. h.lost \subseteq Addresses
    <3>1. k.lost = {} /\ k.tail \in F /\ h.lost = k.lost \cup {k.tail}
      BY <2>1 DEF Strung, Linked, IsHighest, Emptied
    <3> QED BY <3>1, <2>3
  <2>5. 0 \in 0 .. MaxBreak
    BY BoundAssumption
  <2> QED BY <2>1, <2>3, <2>4, <2>5 DEF Emptied, Null
<1> QED BY <1>1, <1>2

(* Sound, and the types of what Sound does not speak of.                   *)
Typed ==
  /\ Sound
  /\ lastAllocated <= MaxBreak
  /\ currentPolicy \in {"WORST", "NEXT"}
  /\ \A b \in DOMAIN live : live[b] \in Sizes
  /\ fault \in [by : {"none", "sbrk", "link"}, size : Sizes \cup {0}]

(* The invariant implies the type invariant of the runs.                   *)
LEMMA TypedOK == Typed => TypeOK
<1>1. SUFFICES ASSUME Typed PROVE TypeOK
  OBVIOUS
<1>2. PICK h : h = heap
  OBVIOUS
<1>3. /\ IsPartial(h.header, Addresses, Words)
      /\ IsPartial(h.foot, Addresses, Words)
      /\ IsPartial(h.link, Addresses, Links)
      /\ h.head \in 0 .. MaxBreak /\ h.tail \in 0 .. MaxBreak
      /\ h.top \in 0 .. MaxBreak /\ h.lost \subseteq Addresses
      /\ DOMAIN live \subseteq Addresses
  BY <1>1, <1>2, SettledTyped DEF Typed, Sound
<1>4. IsPartial(live, Addresses, Sizes)
  BY <1>1, <1>3 DEF Typed, IsPartial
<1>5. lastAllocated \in 0 .. MaxBreak
  BY <1>1, BoundAssumption DEF Typed, Sound
<1> QED BY <1>1, <1>2, <1>3, <1>4, <1>5 DEF Typed, TypeOK

(* The block that a call returns lies below the break.                     *)
LEMMA BlockBelow ==
  ASSUME Sound, heap.lost = {}, NEW n \in Sizes,
         Allocated(heap, n).top <= MaxBreak
  PROVE  Block(heap, n) \in 1 .. MaxBreak
<1>1. n \in Nat \ {0}
  BY SizesAssumption
<1>2. PICK b : b = Block(heap, n)
  OBVIOUS
<1>3. PICK g : g = Allocated(heap, n)
  OBVIOUS
<1>4. PICK held : held = Put(live, b, n)
  OBVIOUS
<1>5. PICK K : Laid(g, K, {}, held)
  BY <1>1, <1>2, <1>3, <1>4, AllocatedSound
<1>6. Strung(g, K, {}, held) /\ g.top <= MaxBreak
  BY <1>3, <1>5 DEF Laid
<1>7. DOMAIN held \subseteq Addresses
  BY <1>6, StrungTyped
<1>8. b \in DOMAIN held
  BY <1>4, PutIs
<1> QED BY <1>2, <1>7, <1>8 DEF Addresses

(* Holding one more block of a legal size keeps the sizes legal.           *)
LEMMA PutTyped ==
  ASSUME NEW held, NEW T, \A b \in DOMAIN held : held[b] \in T, NEW n \in T, NEW c
  PROVE  \A b \in DOMAIN Put(held, c, n) : Put(held, c, n)[b] \in T
<1>1. PICK f : f = Put(held, c, n)
  OBVIOUS
<1>2. Holds(f, held, c, n)
  BY <1>1, PutHolds
<1>3. \A b \in DOMAIN f : f[b] \in T
  BY <1>2 DEF Holds
<1> QED BY <1>1, <1>3

(* Releasing a block keeps the sizes of the others.                        *)
LEMMA DropTyped ==
  ASSUME NEW held, NEW T, \A b \in DOMAIN held : held[b] \in T, NEW c
  PROVE  \A b \in DOMAIN Drop(held, {c}) : Drop(held, {c})[b] \in T
<1>1. PICK f : f = Drop(held, {c})
  OBVIOUS
<1>2. Released(f, held, c)
  BY <1>1, DropReleases
<1>3. \A b \in DOMAIN f : f[b] \in T
  BY <1>2 DEF Released
<1> QED BY <1>1, <1>3

(* No call leaves the types while no block is lost.                        *)
LEMMA StepTyped ==
  ASSUME Typed, heap.lost = {}, [Next]_vars
  PROVE  Typed'
<1>1. Sound /\ Sound'
  BY StepSound DEF Typed
<1>2. ASSUME NEW n \in Sizes, NoMemory(n) PROVE Typed'
  BY <1>1, <1>2 DEF NoMemory, Typed
<1>3. ASSUME NEW n \in Sizes, Malloc(n) PROVE Typed'
  <2>1. CASE NoMemory(n)
    BY <1>2, <2>1
  <2>2. CASE ~NoMemory(n)
    <3>1. /\ Allocated(heap, n).top <= MaxBreak
          /\ lastAllocated' = Block(heap, n)
          /\ live' = Put(live, Block(heap, n), n)
          /\ UNCHANGED <<currentPolicy, fault>>
      BY <1>3, <2>2 DEF Malloc
    <3>2. lastAllocated' <= MaxBreak
      BY <3>1, <1>1, BlockBelow, BoundAssumption
    <3>3. \A b \in DOMAIN live' : live'[b] \in Sizes
      BY <3>1, PutTyped DEF Typed
    <3> QED BY <1>1, <3>1, <3>2, <3>3 DEF Typed
  <2> QED BY <2>1, <2>2
<1>4. ASSUME NEW b \in DOMAIN live, FreeBlock(b) PROVE Typed'
  <2>1. /\ live' = Drop(live, {b})
        /\ UNCHANGED <<currentPolicy, lastAllocated, fault>>
    BY <1>4 DEF FreeBlock
  <2>2. \A c \in DOMAIN live' : live'[c] \in Sizes
    BY <2>1, DropTyped DEF Typed
  <2> QED BY <1>1, <2>1, <2>2 DEF Typed
<1>5. ASSUME NEW b \in DOMAIN live, NEW n \in Sizes, ReallocShrink(b, n)
      PROVE  Typed'
  <2>1. /\ live' = Put(live, b, n)
        /\ UNCHANGED <<currentPolicy, lastAllocated, fault>>
    BY <1>5 DEF ReallocShrink
  <2>2. \A c \in DOMAIN live' : live'[c] \in Sizes
    BY <2>1, PutTyped DEF Typed
  <2> QED BY <1>1, <2>1, <2>2 DEF Typed
<1>6. ASSUME NEW b \in DOMAIN live, NEW n \in Sizes, ReallocMove(b, n)
      PROVE  Typed'
  <2>1. CASE NoMemory(n)
    BY <1>2, <2>1
  <2>2. CASE ~NoMemory(n)
    <3>1. /\ Allocated(heap, n).top <= MaxBreak
          /\ lastAllocated' = Block(heap, n)
          /\ live' = Put(Drop(live, {b}), Block(heap, n), n)
          /\ UNCHANGED <<currentPolicy, fault>>
      BY <1>6, <2>2 DEF ReallocMove
    <3>2. lastAllocated' <= MaxBreak
      BY <3>1, <1>1, BlockBelow, BoundAssumption
    <3>3. PICK d : d = Drop(live, {b})
      OBVIOUS
    <3>4. \A c \in DOMAIN d : d[c] \in Sizes
      BY <3>3, DropTyped DEF Typed
    <3>5. \A c \in DOMAIN live' : live'[c] \in Sizes
      BY <3>1, <3>3, <3>4, PutTyped
    <3> QED BY <1>1, <3>1, <3>2, <3>5 DEF Typed
  <2> QED BY <2>1, <2>2
<1>7. ASSUME NEW policy \in {"WORST", "NEXT"}, Mallopt(policy) PROVE Typed'
  BY <1>1, <1>7 DEF Mallopt, Typed
<1>8. ASSUME NEW b \in DOMAIN live, NEW n \in Sizes, ReallocInPlace(b, n)
      PROVE  Typed'
  BY <1>1, <1>8 DEF ReallocInPlace, Typed
<1>9. CASE UNCHANGED vars
  BY <1>1, <1>9 DEF vars, Typed
<1> QED BY <1>3, <1>4, <1>5, <1>6, <1>7, <1>8, <1>9 DEF Next

(* As long as the model goes on nothing has been lost.                     *)
THEOREM TypedInvariant == ASSUME PastLeak = FALSE PROVE Spec => []Typed
<1>1. Init => Typed
  <2>1. SUFFICES ASSUME Init PROVE Typed
    OBVIOUS
  <2>2. Sound /\ lastAllocated = 0 /\ lastAllocated <= MaxBreak
    BY <2>1, HeapInit, BoundAssumption DEF Init, Null
  <2>3. \A b \in DOMAIN live : live[b] \in Sizes
    BY <2>1 DEF Init
  <2> QED BY <2>1, <2>2, <2>3 DEF Init, Typed, Alive
<1>2. Typed /\ [Next]_vars => Typed'
  <2>1. SUFFICES ASSUME Typed, [Next]_vars PROVE Typed'
    OBVIOUS
  <2>2. CASE heap.lost = {}
    BY <2>1, <2>2, StepTyped
  <2>3. CASE heap.lost # {}
    <3>1. UNCHANGED vars
      BY <2>1, <2>3 DEF Next, Working
    <3> QED BY <2>1, <3>1 DEF vars, Typed, Sound, Settled, Spoiled, Laid
  <2> QED BY <2>2, <2>3
<1> QED BY <1>1, <1>2, PTL DEF Spec

(* Every word of the heap is an address, a size or a tag (sma.c:37-50).    *)
THEOREM Typing == ASSUME PastLeak = FALSE PROVE Spec => []TypeOK
BY TypedInvariant, TypedOK, PTL
-----------------------------------------------------------------------------
(* The break: what a call that raises it, or dies of it, has tried first.  *)
GrowsFor ==
  /\ heap'.top > heap.top =>
       \A b \in DOMAIN live' \ DOMAIN live : NoneLarger(live'[b])
  /\ fault'.by = "sbrk" => fault.by = "sbrk" \/ NoneLarger(fault'.size)

(* The break moves up, or sbrk fails, only if no listed block would have   *)
(* done.                                                                   *)
LEMMA StepGrows ==
  ASSUME Typed, heap.lost = {}, [Next]_vars
  PROVE  GrowsFor
<1>1. Sound /\ heap.top \in Nat /\ heap.top <= MaxBreak
  BY SoundLaid DEF Typed
<1>2. ASSUME NEW n \in Sizes
      PROVE  /\ Allocated(heap, n).top \in Nat
             /\ heap.top < Allocated(heap, n).top => NoneLarger(n)
  <2>1. n \in Nat \ {0}
    BY SizesAssumption
  <2>2. PICK b : b = Block(heap, n)
    OBVIOUS
  <2>3. PICK g : g = Allocated(heap, n)
    OBVIOUS
  <2>4. g.top \in Nat /\ (heap.top < g.top => NoneLarger(n))
    BY <1>1, <2>1, <2>2, <2>3, AllocatedSound
  <2> QED BY <2>3, <2>4
<1>3. ASSUME heap'.top \in Nat, heap'.top <= heap.top, UNCHANGED fault
      PROVE  GrowsFor
  <2>1. ~(heap'.top > heap.top)
    BY <1>1, <1>3
  <2> QED BY <1>3, <2>1 DEF GrowsFor
<1>4. ASSUME NEW n \in Sizes, NoMemory(n) PROVE GrowsFor
  <2>1. PICK top : top = Allocated(heap, n).top
    OBVIOUS
  <2>2. heap.top < top
    <3>1. top \in Nat /\ top > MaxBreak
      BY <1>2, <1>4, <2>1 DEF NoMemory
    <3> QED BY <3>1, <1>1, BoundAssumption
  <2>3. NoneLarger(n)
    BY <1>2, <2>1, <2>2
  <2>4. fault'.size = n /\ heap' = heap
    BY <1>4 DEF NoMemory
  <2>5. ~(heap'.top > heap.top)
    BY <1>1, <2>4
  <2> QED BY <2>3, <2>4, <2>5 DEF GrowsFor
<1>5. ASSUME NEW n \in Sizes, NEW b, UNCHANGED fault,
             \A c \in DOMAIN live' : c \in DOMAIN live \/ c = b,
             live'[b] = n, heap'.top \in Nat,
             heap'.top <= Allocated(heap, n).top
      PROVE  GrowsFor
  <2>1. ASSUME heap'.top > heap.top PROVE NoneLarger(n)
    <3>1. heap.top < Allocated(heap, n).top
      BY <1>1, <1>2, <1>5, <2>1
    <3> QED BY <1>2, <3>1
  <2> QED BY <1>5, <2>1 DEF GrowsFor
<1>6. Typed'
  BY StepTyped
<1>7. heap'.top \in Nat
  BY <1>6 DEF Typed, Sound, Settled
<1>8. ASSUME NEW n \in Sizes, Malloc(n) PROVE GrowsFor
  <2>1. CASE NoMemory(n)
    BY <1>4, <2>1
  <2>2. CASE ~NoMemory(n)
    <3>1. PICK b : b = Block(heap, n)
      OBVIOUS
    <3>2. /\ heap' = Allocated(heap, n) /\ live' = Put(live, b, n)
          /\ UNCHANGED fault
      BY <1>8, <2>2, <3>1 DEF Malloc
    <3>3. Holds(live', live, b, n)
      BY <3>2, PutHolds
    <3>4. /\ \A c \in DOMAIN live' : c \in DOMAIN live \/ c = b
          /\ live'[b] = n
      BY <3>3 DEF Holds
    <3>5. heap'.top <= Allocated(heap, n).top
      BY <3>2, <1>7
    <3> QED BY <3>2, <3>4, <3>5, <1>5, <1>7
  <2> QED BY <2>1, <2>2
<1>9. ASSUME NEW b \in DOMAIN live, FreeBlock(b) PROVE GrowsFor
  <2>1. heap'.top <= heap.top /\ UNCHANGED fault
    BY <1>1, <1>9, FreeSound DEF FreeBlock
  <2> QED BY <2>1, <1>3, <1>7
<1>10. ASSUME NEW b \in DOMAIN live, NEW n \in Sizes, ReallocShrink(b, n)
       PROVE  GrowsFor
  <2>1. heap'.top <= heap.top /\ UNCHANGED fault
    BY <1>1, <1>10, ShrinkSound DEF ReallocShrink
  <2> QED BY <2>1, <1>3, <1>7
<1>11. ASSUME NEW b \in DOMAIN live, NEW n \in Sizes, ReallocMove(b, n)
       PROVE  GrowsFor
  <2>1. CASE NoMemory(n)
    BY <1>4, <2>1
  <2>2. CASE ~NoMemory(n)
    <3>1. PICK c : c = Block(heap, n)
      OBVIOUS
    <3>2. PICK d : d = Drop(live, {b})
      OBVIOUS
    <3>3. live' = Put(d, c, n) /\ UNCHANGED fault
      BY <1>11, <2>2, <3>1, <3>2 DEF ReallocMove
    <3>4. Holds(live', d, c, n) /\ Released(d, live, b)
      BY <3>2, <3>3, PutHolds, DropReleases
    <3>5. /\ \A x \in DOMAIN live' : x \in DOMAIN live \/ x = c
          /\ live'[c] = n
      BY <3>4 DEF Holds, Released
    <3>6. heap'.top <= Allocated(heap, n).top
      BY <1>1, <1>11, <2>2, MoveSound DEF ReallocMove
    <3> QED BY <3>3, <3>5, <3>6, <1>5, <1>7
  <2> QED BY <2>1, <2>2
<1>12. ASSUME NEW policy, Mallopt(policy) PROVE GrowsFor
  BY <1>1, <1>3, <1>12 DEF Mallopt
<1>13. ASSUME NEW b, NEW n, ReallocInPlace(b, n) PROVE GrowsFor
  <2>1. fault'.by = "link" /\ heap' = heap
    BY <1>13 DEF ReallocInPlace
  <2>2. ~(heap'.top > heap.top)
    BY <1>1, <2>1
  <2> QED BY <2>1, <2>2 DEF GrowsFor
<1>14. CASE UNCHANGED vars
  BY <1>1, <1>3, <1>14 DEF vars
<1> QED BY <1>8, <1>9, <1>10, <1>11, <1>12, <1>13, <1>14 DEF Next

(* The break goes up, and a call dies of a break that cannot go up, only   *)
(* if no free block is larger than what is asked for, whichever policy     *)
(* looks and wherever lastAllocated points (sma.c:77-86, 281, 338,         *)
(* 393-421).                                                               *)
THEOREM BreakGrowsForCause ==
  ASSUME PastLeak = FALSE PROVE Spec => GrowsOnlyIfNeeded
<1>1. Typed /\ [Next]_vars => [GrowsFor]_vars
  <2>1. SUFFICES ASSUME Typed, [Next]_vars, ~(UNCHANGED vars) PROVE GrowsFor
    OBVIOUS
  <2>2. heap.lost = {}
    BY <2>1 DEF Next, Working
  <2> QED BY <2>1, <2>2, StepGrows
<1>2. Spec => [][GrowsFor]_vars
  BY <1>1, TypedInvariant, PTL DEF Spec
<1> QED BY <1>2, PTL DEF GrowsOnlyIfNeeded, GrowsFor
-----------------------------------------------------------------------------
(* The blocks that the program holds are apart.                            *)
LEMMA HeldApart ==
  ASSUME NEW h, NEW F, NEW held, Laid(h, F, {}, held)
  PROVE  \A b, c \in DOMAIN held :
           b # c => /\ \A n \in Nat : n <= SizeOf(h, b)
                                        => Service!Apart(b, n, c, held[c])
                    /\ b \in Nat
<1>1. PICK hd : hd = h.header
  OBVIOUS
<1>2. Marked(hd, DOMAIN hd, F, {}, held) /\ Spaced(hd, DOMAIN hd, h.top)
  BY <1>1 DEF Laid, Strung, Tiling
<1>3. SUFFICES ASSUME NEW b \in DOMAIN held, NEW c \in DOMAIN held, b # c,
                      NEW n \in Nat, n <= SizeOf(h, b)
               PROVE  Service!Apart(b, n, c, held[c]) /\ b \in Nat
  <2>1. \A b \in DOMAIN held : b \in Nat
    BY <1>2 DEF Marked, Spaced
  <2> QED BY <2>1
<1>4. PICK s : s = hd[b].size
  OBVIOUS
<1>5. PICK t : t = hd[c].size
  OBVIOUS
<1>6. PICK m : m = held[c]
  OBVIOUS
<1>7. /\ b \in Nat /\ c \in Nat /\ s \in Nat /\ t \in Nat /\ m \in Nat
      /\ n <= s /\ m <= t
      /\ b < c => b + s < c
      /\ c < b => c + t < b
  <2>1. b \in DOMAIN hd /\ c \in DOMAIN hd /\ held[c] \in Nat /\ held[c] <= hd[c].size
    BY <1>2 DEF Marked
  <2>2. /\ b \in Nat /\ c \in Nat /\ IsWord(hd[b]) /\ IsWord(hd[c])
        /\ b < c => EndOf(hd, b) < c
        /\ c < b => EndOf(hd, c) < b
    BY <1>2, <2>1 DEF Spaced
  <2>3. n <= s
    BY <1>1, <1>3, <1>4 DEF SizeOf
  <2> QED BY <1>4, <1>5, <1>6, <2>1, <2>2, <2>3 DEF EndOf, IsWord
<1>8. b + n <= c \/ c + m <= b
  BY <1>3, <1>7
<1> QED BY <1>6, <1>7, <1>8 DEF Service!Apart

(* A block that a call returns is apart from those held already.           *)
LEMMA AllocatedApart ==
  ASSUME Sound, heap.lost = {}, NEW n \in Sizes,
         Allocated(heap, n).top <= MaxBreak
  PROVE  /\ Block(heap, n) \in Addresses
         /\ \A c \in DOMAIN live : Service!Apart(Block(heap, n), n, c, live[c])
<1>1. n \in Nat \ {0}
  BY SizesAssumption
<1>2. PICK b : b = Block(heap, n)
  OBVIOUS
<1>3. PICK g : g = Allocated(heap, n)
  OBVIOUS
<1>4. PICK held : held = Put(live, b, n)
  OBVIOUS
<1>5. (\E K : Laid(g, K, {}, held)) /\ b \notin DOMAIN live
  BY <1>1, <1>2, <1>3, <1>4, AllocatedSound
<1>6. PICK K : Laid(g, K, {}, held)
  BY <1>5
<1>7. Holds(held, live, b, n)
  BY <1>4, PutHolds
<1>8. n <= SizeOf(g, b)
  <2>1. Marked(g.header, DOMAIN g.header, K, {}, held)
    BY <1>6 DEF Laid, Strung
  <2>2. held[b] <= g.header[b].size /\ held[b] = n
    BY <2>1, <1>7 DEF Marked, Holds
  <2> QED BY <2>2 DEF SizeOf
<1>9. ASSUME NEW c \in DOMAIN live
      PROVE  Service!Apart(b, n, c, live[c])
  <2>1. b # c /\ b \in DOMAIN held /\ c \in DOMAIN held /\ held[c] = live[c]
    BY <1>5, <1>7 DEF Holds
  <2>2. Service!Apart(b, n, c, held[c])
    BY <2>1, <1>1, <1>6, <1>8, HeldApart
  <2> QED BY <2>1, <2>2
<1>10. b \in Addresses
  BY <1>2, BlockBelow DEF Addresses
<1> QED BY <1>2, <1>9, <1>10

(* What the abstract service holds after a call is what the program holds. *)
LEMMA WithIs ==
  ASSUME NEW b, NEW a, NEW n
  PROVE  /\ Service!With({}, a, n) = Put(live, a, n)
         /\ Service!With({b}, a, n) = Put(Drop(live, {b}), a, n)
<1>1. Service!With({}, a, n) = Put(live, a, n)
  BY DEF Service!With, Put
<1>2. Service!With({b}, a, n) = Put(Drop(live, {b}), a, n)
  <2>1. PICK d : d = Drop(live, {b})
    OBVIOUS
  <2>2. DOMAIN d = DOMAIN live \ {b} /\ \A c \in DOMAIN d : d[c] = live[c]
    BY <2>1, DropIs
  <2>3. Service!With({b}, a, n) = Put(d, a, n)
    BY <2>2 DEF Service!With, Put
  <2> QED BY <2>1, <2>3
<1> QED BY <1>1, <1>2

(* Each call is one call of the service.                                   *)
LEMMA StepServes ==
  ASSUME Typed, heap.lost = {}, [Next]_vars
  PROVE  [Service!Next]_live
<1>1. Sound /\ Laid(heap, FreeSet, {}, live)
  BY SoundLaid DEF Typed
<1>2. ASSUME NEW n \in Sizes, Malloc(n) PROVE [Service!Next]_live
  <2>1. CASE NoMemory(n)
    BY <2>1 DEF NoMemory
  <2>2. CASE ~NoMemory(n)
    <3>1. PICK b : b = Block(heap, n)
      OBVIOUS
    <3>2. Allocated(heap, n).top <= MaxBreak /\ live' = Put(live, b, n)
      BY <1>2, <2>2, <3>1 DEF Malloc
    <3>3. /\ b \in Addresses
          /\ \A c \in DOMAIN live : Service!Apart(b, n, c, live[c])
      BY <1>1, <3>1, <3>2, AllocatedApart
    <3>4. live' = Service!With({}, b, n)
      BY <3>2, WithIs
    <3>5. Service!Malloc(n)
      BY <3>3, <3>4 DEF Service!Malloc
    <3> QED BY <3>5 DEF Service!Next
  <2> QED BY <2>1, <2>2
<1>3. ASSUME NEW b \in DOMAIN live, FreeBlock(b) PROVE [Service!Next]_live
  <2>1. live' = Drop(live, {b})
    BY <1>3 DEF FreeBlock
  <2>2. Drop(live, {b}) = [c \in DOMAIN live \ {b} |-> live[c]]
    <3>1. PICK d : d = Drop(live, {b})
      OBVIOUS
    <3>2. d = [c \in DOMAIN live \cap (DOMAIN live \ {b}) |-> live[c]]
      BY <3>1 DEF Drop, Restrict
    <3>3. DOMAIN live \cap (DOMAIN live \ {b}) = DOMAIN live \ {b}
      OBVIOUS
    <3> QED BY <3>1, <3>2, <3>3
  <2>3. Service!Free(b)
    BY <2>1, <2>2 DEF Service!Free
  <2> QED BY <2>3 DEF Service!Next
<1>4. ASSUME NEW b \in DOMAIN live, NEW n \in Sizes, ReallocShrink(b, n)
      PROVE  [Service!Next]_live
  <2>1. live' = Put(live, b, n) /\ n <= SizeOf(heap, b) /\ n \in Nat
    BY <1>4, SizesAssumption DEF ReallocShrink
  <2>2. \A c \in DOMAIN live \ {b} : Service!Apart(b, n, c, live[c])
    BY <1>1, <2>1, HeldApart
  <2>3. live' = Service!With({}, b, n)
    BY <2>1, WithIs
  <2>4. Service!Realloc(b, n)
    BY <2>2, <2>3 DEF Service!Realloc
  <2> QED BY <2>4 DEF Service!Next
<1>5. ASSUME NEW b \in DOMAIN live, NEW n \in Sizes, ReallocMove(b, n)
      PROVE  [Service!Next]_live
  <2>1. CASE NoMemory(n)
    BY <2>1 DEF NoMemory
  <2>2. CASE ~NoMemory(n)
    <3>1. PICK a : a = Block(heap, n)
      OBVIOUS
    <3>2. /\ Allocated(heap, n).top <= MaxBreak
          /\ live' = Put(Drop(live, {b}), a, n)
      BY <1>5, <2>2, <3>1 DEF ReallocMove
    <3>3. /\ a \in Addresses
          /\ \A c \in DOMAIN live : Service!Apart(a, n, c, live[c])
      BY <1>1, <3>1, <3>2, AllocatedApart
    <3>4. live' = Service!With({b}, a, n)
      BY <3>2, WithIs
    <3>5. Service!Realloc(b, n)
      BY <3>3, <3>4 DEF Service!Realloc
    <3> QED BY <3>5 DEF Service!Next
  <2> QED BY <2>1, <2>2
<1> QED BY <1>2, <1>3, <1>4, <1>5 DEF Next, vars, Mallopt, ReallocInPlace

(* What the program holds never overlaps, and changes only as the calls    *)
(* say: the allocator implements AllocService (sma.c:62-220).              *)
THEOREM AllocatesAsPromised ==
  ASSUME PastLeak = FALSE PROVE Spec => ImplementsAllocService
<1>1. Init => Service!Init
  BY DEF Init, Service!Init
<1>2. Typed /\ [Next]_vars => [Service!Next]_live
  <2>1. SUFFICES ASSUME Typed, [Next]_vars, ~(UNCHANGED vars)
                 PROVE  [Service!Next]_live
    BY DEF vars
  <2>2. heap.lost = {}
    BY <2>1 DEF Next, Working
  <2> QED BY <2>1, <2>2, StepServes
<1> QED BY <1>1, <1>2, TypedInvariant, PTL
        DEF Spec, ImplementsAllocService, Service!Spec
=============================================================================
