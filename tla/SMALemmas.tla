------------------------------ MODULE SMALemmas ------------------------------
(***************************************************************************)
(* Facts about the words of module SMA that do not depend on which step    *)
(* writes them: what the least and greatest of a set of addresses are, how *)
(* the free list is linked and what a walk along it meets, and how blocks  *)
(* tile the memory below the break.                                        *)
(***************************************************************************)
EXTENDS SMAProperties, FiniteSetTheorems, TLAPS

(* A nonempty set of naturals has a least element.                         *)
LEMMA LeastNatural ==
  ASSUME NEW S, S \subseteq Nat, S # {}
  PROVE  \E x \in S : \A y \in S : x <= y
<1> DEFINE R == OpToRel(<, Nat)
<1>1. \A m, n \in Nat : <<m, n>> \in R <=> m < n
  BY DEF OpToRel
<1>2. IsWellFoundedOn(R, Nat)
  BY NatLessThanWellFounded
<1> HIDE DEF R
<1>3. PICK x \in S : \A y \in S : ~(<<y, x>> \in R)
  BY <1>2, WFMin
<1>4. ASSUME NEW y \in S PROVE x <= y
  <2>1. x \in Nat /\ y \in Nat
    OBVIOUS
  <2>2. ~(y < x)
    BY <1>1, <1>3, <2>1, Zenon
  <2> QED BY <2>1, <2>2
<1> QED BY <1>4

(* A nonempty set of naturals with an upper bound has a greatest element.  *)
LEMMA GreatestNatural ==
  ASSUME NEW S, S \subseteq Nat, S # {},
         NEW k \in Nat, \A y \in S : y <= k
  PROVE  \E x \in S : \A y \in S : y <= x
<1> DEFINE U == {u \in Nat : \A y \in S : y <= u}
<1>1. U \subseteq Nat /\ k \in U
  OBVIOUS
<1> HIDE DEF U
<1>2. PICK m \in U : \A u \in U : m <= u
  BY <1>1, LeastNatural
<1>3. m \in Nat /\ \A y \in S : y <= m
  BY <1>2 DEF U
<1>4. ASSUME m \notin S PROVE FALSE
  <2>1. \A y \in S : y < m
    BY <1>3, <1>4
  <2>2. PICK s \in S : TRUE
    OBVIOUS
  <2>3. m - 1 \in Nat /\ \A y \in S : y <= m - 1
    BY <1>3, <2>1, <2>2
  <2>4. m - 1 \in U
    BY <2>3 DEF U
  <2> QED BY <2>4, <1>2, <1>3
<1> QED BY <1>3, <1>4

(* x is the least, or greatest, of the addresses in S, Null if there is    *)
(* none.                                                                   *)
IsLowest(x, S)  == \/ S = {} /\ x = Null
                   \/ x \in S /\ \A y \in S : x <= y
IsHighest(x, S) == \/ S = {} /\ x = Null
                   \/ x \in S /\ \A y \in S : y <= x

(* Lowest is the least address of a set, or Null if there is none.         *)
LEMMA LowestIs ==
  ASSUME NEW S, S \subseteq Nat, NEW x
  PROVE  IsLowest(x, S) <=> x = Lowest(S)
<1>1. CASE S = {}
  BY <1>1 DEF IsLowest, Lowest
<1>2. CASE S # {}
  <2>1. PICK m \in S : \A y \in S : m <= y
    BY <1>2, LeastNatural
  <2>2. Min(S) \in S /\ \A y \in S : Min(S) <= y
    BY <2>1 DEF Min
  <2>3. \A z \in S : (\A y \in S : z <= y) => z = Min(S)
    <3> TAKE z \in S
    <3> HAVE \A y \in S : z <= y
    <3>1. z <= Min(S) /\ Min(S) <= z
      BY <2>2
    <3>2. z \in Nat /\ Min(S) \in Nat
      BY <2>2
    <3> QED BY <3>1, <3>2
  <2> QED BY <1>2, <2>2, <2>3 DEF IsLowest, Lowest
<1> QED BY <1>1, <1>2

(* Highest is the greatest address of a bounded set, or Null if there is   *)
(* none.                                                                   *)
LEMMA HighestIs ==
  ASSUME NEW S, S \subseteq Nat, NEW k \in Nat, \A y \in S : y <= k, NEW x
  PROVE  IsHighest(x, S) <=> x = Highest(S)
<1>1. CASE S = {}
  BY <1>1 DEF IsHighest, Highest
<1>2. CASE S # {}
  <2>1. PICK m \in S : \A y \in S : y <= m
    BY <1>2, GreatestNatural
  <2>2. Max(S) \in S /\ \A y \in S : Max(S) >= y
    BY <2>1 DEF Max
  <2>3. \A z \in S : (\A y \in S : y <= z) => z = Max(S)
    <3> TAKE z \in S
    <3> HAVE \A y \in S : y <= z
    <3>1. z <= Max(S) /\ Max(S) <= z
      BY <2>2
    <3>2. z \in Nat /\ Max(S) \in Nat
      BY <2>2
    <3> QED BY <3>1, <3>2
  <2> QED BY <1>2, <2>2, <2>3 DEF IsHighest, Highest
<1> QED BY <1>1, <1>2
-----------------------------------------------------------------------------
(* The free list: a walk from its head meets all of it, in order.          *)

(* x is the next, or the previous, one of the addresses F seen from b;     *)
(* Null if there is none.                                                  *)
IsNext(F, b, x) == \/ x = Null /\ \A c \in F : c <= b
                   \/ x \in F /\ b < x /\ \A c \in F : b < c => x <= c
IsPrev(F, b, x) == \/ x = Null /\ \A c \in F : b <= c
                   \/ x \in F /\ x < b /\ \A c \in F : c < b => c <= x

IsNode(l) == l = [prev |-> l.prev, next |-> l.next]

(* link, head and tail chain the addresses of F in ascending order, both   *)
(* ways.                                                                   *)
Linked(link, head, tail, F) ==
  /\ DOMAIN link = F
  /\ IsLowest(head, F) /\ IsHighest(tail, F)
  /\ \A b \in F :
       /\ IsNode(link[b])
       /\ IsPrev(F, b, link[b].prev)
       /\ IsNext(F, b, link[b].next)

(* The place of b among the addresses in F.                                *)
Rank(F, b) == Cardinality({c \in F : c <= b})

(* A block's rank, the number of blocks up to it, grows with its address.  *)
LEMMA RankStrict ==
  ASSUME NEW F, F \subseteq Nat, NEW k \in Nat, \A y \in F : y <= k
  PROVE  /\ IsFiniteSet(F) /\ Cardinality(F) \in Nat
         /\ \A b \in F : Rank(F, b) \in 1 .. Cardinality(F)
         /\ \A b, c \in F : b < c => Rank(F, b) < Rank(F, c)
<1>1. IsFiniteSet(F) /\ Cardinality(F) \in Nat
  BY FS_BoundedSetOfNaturals, FS_CardinalityType
<1>2. ASSUME NEW b \in F PROVE Rank(F, b) \in 1 .. Cardinality(F)
  <2> DEFINE T == {c \in F : c <= b}
  <2>1. T \in SUBSET F /\ b \in T
    OBVIOUS
  <2> HIDE DEF T
  <2>2. IsFiniteSet(T) /\ Cardinality(T) <= Cardinality(F)
    BY <1>1, <2>1, FS_Subset
  <2>3. Cardinality(T) \in Nat /\ Cardinality(T) # 0
    BY <2>1, <2>2, FS_CardinalityType, FS_EmptySet
  <2>4. Cardinality(T) \in 1 .. Cardinality(F)
    BY <1>1, <2>2, <2>3
  <2> QED BY <2>4 DEF Rank, T
<1>3. ASSUME NEW b \in F, NEW c \in F, b < c
      PROVE  Rank(F, b) < Rank(F, c)
  <2> DEFINE T == {d \in F : d <= b}
             U == {d \in F : d <= c}
  <2>0. b \in Nat /\ c \in Nat /\ \A d \in F : d \in Nat
    OBVIOUS
  <2>1. T \in SUBSET U /\ c \in U /\ c \notin T /\ U \in SUBSET F
    <3>1. \A d \in F : d <= b => d <= c
      BY <1>3, <2>0
    <3>2. c <= c /\ ~(c <= b)
      BY <1>3, <2>0
    <3> QED BY <3>1, <3>2
  <2> HIDE DEF T, U
  <2>2. IsFiniteSet(U)
    BY <1>1, <2>1, FS_Subset
  <2>3. /\ IsFiniteSet(T) /\ Cardinality(T) <= Cardinality(U)
        /\ Cardinality(U) # Cardinality(T)
    BY <2>1, <2>2, FS_Subset
  <2>4. Cardinality(T) \in Nat /\ Cardinality(U) \in Nat
    BY <2>2, <2>3, FS_CardinalityType
  <2>5. Cardinality(T) < Cardinality(U)
    BY <2>3, <2>4
  <2> QED BY <2>5 DEF Rank, T, U
<1> QED BY <1>1, <1>2, <1>3

(* Every place is taken, because no two addresses have the same.           *)
LEMMA RankOnto ==
  ASSUME NEW F, F \subseteq Nat, NEW k \in Nat, \A y \in F : y <= k
  PROVE  \A i \in 1 .. Cardinality(F) : \E b \in F : Rank(F, b) = i
<1> DEFINE n == Cardinality(F)
           f == [b \in F |-> Rank(F, b)]
<1>1. /\ IsFiniteSet(F) /\ n \in Nat
      /\ \A b \in F : Rank(F, b) \in 1 .. n
      /\ \A b, c \in F : b < c => Rank(F, b) < Rank(F, c)
  BY RankStrict
<1>2. IsFiniteSet(1 .. n) /\ Cardinality(1 .. n) = n
  BY <1>1, FS_Interval
<1>3. f \in [F -> 1 .. n]
  BY <1>1
<1>4. ASSUME NEW b \in F, NEW c \in F, f[b] = f[c] PROVE b = c
  <2>1. Rank(F, b) = Rank(F, c) /\ Rank(F, b) \in Nat
    BY <1>1, <1>4
  <2>2. ~(b < c) /\ ~(c < b)
    BY <1>1, <2>1
  <2> QED BY <2>2
<1>5. f \in Injection(F, 1 .. n)
  BY <1>3, <1>4 DEF Injection, IsInjective
<1> HIDE DEF f
<1>6. f \in Surjection(F, 1 .. n)
  BY <1>2, <1>5, FS_Injection
<1>7. \A i \in 1 .. n : \E b \in F : f[b] = i
  BY <1>6 DEF Surjection
<1> QED BY <1>7 DEF f

(* The least address has place 1, and the next one of any the next place.  *)
LEMMA RankNext ==
  ASSUME NEW F, F \subseteq Nat, NEW k \in Nat, \A y \in F : y <= k
  PROVE  /\ \A b \in F : (\A y \in F : b <= y) => Rank(F, b) = 1
         /\ \A b, c \in F :
              b < c /\ (\A y \in F : b < y => c <= y)
                => Rank(F, c) = Rank(F, b) + 1
<1>1. IsFiniteSet(F)
  BY RankStrict
<1>2. ASSUME NEW b \in F, \A y \in F : b <= y PROVE Rank(F, b) = 1
  <2>1. {c \in F : c <= b} = {b}
    <3>1. \A c \in F : c <= b <=> c = b
      BY <1>2
    <3> QED BY <3>1
  <2> QED BY <2>1, FS_Singleton DEF Rank
<1>3. ASSUME NEW b \in F, NEW c \in F, b < c, \A y \in F : b < y => c <= y
      PROVE  Rank(F, c) = Rank(F, b) + 1
  <2> DEFINE T == {d \in F : d <= b}
             U == {d \in F : d <= c}
  <2>0. b \in Nat /\ c \in Nat /\ \A d \in F : d \in Nat
    OBVIOUS
  <2>1. U = T \cup {c} /\ c \notin T /\ T \in SUBSET F
    <3>1. \A d \in F : d <= c <=> (d <= b \/ d = c)
      BY <1>3, <2>0
    <3>2. ~(c <= b)
      BY <1>3, <2>0
    <3> QED BY <3>1, <3>2
  <2> HIDE DEF T, U
  <2>2. IsFiniteSet(T)
    BY <1>1, <2>1, FS_Subset
  <2>3. Cardinality(U) = Cardinality(T) + 1
    BY <2>1, <2>2, FS_AddElement
  <2> QED BY <2>3 DEF Rank, T, U
<1> QED BY <1>2, <1>3

(* The i-th node of a walk is the i-th address of F.  The function of the  *)
(* addresses by their place solves the equation that Nodes recurs by, and  *)
(* no other function does.                                                 *)
LEMMA Walk ==
  ASSUME NEW h, NEW F, F \subseteq Nat \ {0},
         NEW k \in Nat, \A y \in F : y <= k,
         Linked(h.link, h.head, h.tail, F)
  PROVE  /\ DOMAIN Nodes(h) = 1 .. Cardinality(F)
         /\ \A i \in DOMAIN Nodes(h) :
              Nodes(h)[i] \in F /\ Rank(F, Nodes(h)[i]) = i
<1> DEFINE n == Cardinality(F)
           Of(node) == [i \in 1 .. n |->
                          IF i = 1 THEN h.head
                          ELSE LET previous == node[i - 1]
                               IN  IF previous = Null THEN Null
                                   ELSE h.link[previous].next]
           N == [i \in 1 .. n |-> CHOOSE b \in F : Rank(F, b) = i]
<1>0. /\ F \subseteq Nat /\ \A b \in F : b # Null
      /\ DOMAIN h.link = F
      /\ IsLowest(h.head, F)
      /\ \A b \in F : IsNext(F, b, h.link[b].next)
  BY DEF Linked, Null
<1>1. /\ n \in Nat
      /\ \A b \in F : Rank(F, b) \in 1 .. n
      /\ \A b, c \in F : b < c => Rank(F, b) < Rank(F, c)
      /\ \A i \in 1 .. n : \E b \in F : Rank(F, b) = i
  BY <1>0, RankStrict, RankOnto
<1>2. /\ \A b \in F : (\A y \in F : b <= y) => Rank(F, b) = 1
      /\ \A b, c \in F :
           b < c /\ (\A y \in F : b < y => c <= y)
             => Rank(F, c) = Rank(F, b) + 1
  BY <1>0, RankNext
<1>3. \A b, c \in F : Rank(F, b) = Rank(F, c) => b = c
  <2> TAKE b, c \in F
  <2> HAVE Rank(F, b) = Rank(F, c)
  <2>1. ~(b < c) /\ ~(c < b)
    BY <1>1
  <2>2. b \in Nat /\ c \in Nat
    BY <1>0
  <2> QED BY <2>1, <2>2
<1>4. DOMAIN N = 1 .. n /\ \A i \in 1 .. n : N[i] \in F /\ Rank(F, N[i]) = i
  BY <1>1
<1> HIDE DEF N
<1>5. ASSUME NEW i \in 1 .. n PROVE N[i] = Of(N)[i]
  <2>1. CASE i = 1
    <3>1. h.head \in F /\ \A y \in F : h.head <= y
      BY <1>0, <1>4 DEF IsLowest
    <3> QED BY <2>1, <3>1, <1>2, <1>3, <1>4
  <2>2. CASE i # 1
    <3>1. i - 1 \in 1 .. n /\ i \in Nat
      BY <2>2, <1>1
    <3>2. PICK b \in F : b = N[i - 1]
      BY <3>1, <1>4
    <3>3. Rank(F, b) = i - 1 /\ Rank(F, N[i]) = i
      BY <3>1, <3>2, <1>4
    <3>4. b < N[i]
      <4>1. N[i] \in F /\ N[i] \in Nat /\ b \in Nat
        BY <1>0, <1>4
      <4>2. b # N[i] /\ ~(N[i] < b)
        BY <4>1, <3>1, <3>3, <1>1
      <4> QED BY <4>1, <4>2
    <3>5. h.link[b].next \in F /\ b < h.link[b].next
      <4>1. b \in Nat /\ N[i] \in F /\ N[i] \in Nat
        BY <1>0, <1>4
      <4> QED BY <3>4, <4>1, <1>0 DEF IsNext
    <3>6. \A y \in F : b < y => h.link[b].next <= y
      BY <3>5, <1>0 DEF IsNext
    <3>7. PICK c \in F : c = h.link[b].next
      BY <3>5
    <3>8. Rank(F, c) = i
      <4>1. Rank(F, c) = Rank(F, b) + 1
        BY <3>5, <3>6, <3>7, <1>2
      <4> QED BY <4>1, <3>1, <3>3
    <3>9. N[i] = c
      BY <3>8, <3>3, <1>3, <1>4
    <3> QED BY <2>2, <3>2, <3>7, <3>9, <1>0
  <2> QED BY <2>1, <2>2
<1>6. N = Of(N)
  <2>1. N = [i \in 1 .. n |-> N[i]]
    BY <1>4 DEF N
  <2> QED BY <2>1, <1>5
<1>7. Nodes(h) = Of(Nodes(h))
  BY <1>0, <1>6 DEF Nodes
<1>8. DOMAIN Nodes(h) = 1 .. n
  BY <1>7
<1> DEFINE Bad == {i \in 1 .. n : Nodes(h)[i] # N[i]}
<1>9. Bad = {}
  <2> SUFFICES ASSUME Bad # {} PROVE FALSE
    OBVIOUS
  <2>1. PICK m \in Bad : \A i \in Bad : m <= i
    <3>1. Bad \subseteq Nat
      BY <1>1
    <3> HIDE DEF Bad
    <3> QED BY <3>1, LeastNatural
  <2>2. Nodes(h)[m] = Of(Nodes(h))[m] /\ N[m] = Of(N)[m]
    BY <1>5, <1>7
  <2>3. m # 1
    BY <2>1, <2>2
  <2>4. m - 1 \in 1 .. n /\ m - 1 \notin Bad
    BY <2>1, <2>3, <1>1
  <2>5. Nodes(h)[m - 1] = N[m - 1]
    BY <2>4
  <2> QED BY <2>1, <2>2, <2>5
<1> QED BY <1>4, <1>8, <1>9

(* What the list is asked for: the nodes on it are F, and the first of any *)
(* of them is the lowest.                                                  *)
LEMMA ListedExactly ==
  ASSUME NEW h, NEW F, F \subseteq Nat \ {0},
         NEW k \in Nat, \A y \in F : y <= k,
         Linked(h.link, h.head, h.tail, F)
  PROVE  /\ Listed(h) = F
         /\ \A S \in SUBSET F : IsLowest(First(h, S), S)
<1>0. /\ F \subseteq Nat /\ \A b \in F : b # Null
  BY DEF Null
<1>1. /\ DOMAIN Nodes(h) = 1 .. Cardinality(F)
      /\ \A i \in DOMAIN Nodes(h) :
           Nodes(h)[i] \in F /\ Rank(F, Nodes(h)[i]) = i
  BY Walk
<1>2. /\ Cardinality(F) \in Nat
      /\ \A b \in F : Rank(F, b) \in 1 .. Cardinality(F)
      /\ \A b, c \in F : b < c => Rank(F, b) < Rank(F, c)
  BY <1>0, RankStrict
<1>3. ASSUME NEW b \in F
      PROVE  Rank(F, b) \in DOMAIN Nodes(h) /\ Nodes(h)[Rank(F, b)] = b
  <2>1. Rank(F, b) \in DOMAIN Nodes(h)
    BY <1>1, <1>2
  <2>2. PICK c \in F : c = Nodes(h)[Rank(F, b)]
    BY <2>1, <1>1
  <2>3. Rank(F, c) = Rank(F, b) /\ Rank(F, b) \in Nat
    BY <2>1, <2>2, <1>1, <1>2
  <2>4. ~(b < c) /\ ~(c < b) /\ b \in Nat /\ c \in Nat
    BY <2>3, <1>2, <1>0
  <2> QED BY <2>1, <2>2, <2>4
<1>4. Listed(h) = F
  BY <1>0, <1>1, <1>3 DEF Listed
<1>5. ASSUME NEW S \in SUBSET F PROVE IsLowest(First(h, S), S)
  <2> DEFINE found == {i \in DOMAIN Nodes(h) : Nodes(h)[i] \in S}
  <2>1. First(h, S) = IF found = {} THEN Null ELSE Nodes(h)[Min(found)]
    BY DEF First
  <2>2. CASE found = {}
    <3>1. S = {}
      BY <2>2, <1>3
    <3> QED BY <2>1, <2>2, <3>1 DEF IsLowest
  <2>3. CASE found # {}
    <3>1. found \subseteq Nat
      BY <1>1, <1>2
    <3> HIDE DEF found
    <3>2. PICK m \in found : \A i \in found : m <= i
      BY <2>3, <3>1, LeastNatural
    <3>3. Min(found) \in found /\ \A i \in found : Min(found) <= i
      BY <3>2 DEF Min
    <3>4. PICK b \in S : b = Nodes(h)[Min(found)]
      BY <3>3 DEF found
    <3>5. b \in F /\ Rank(F, b) = Min(found)
      BY <3>3, <3>4, <1>1 DEF found
    <3>6. ASSUME NEW c \in S PROVE b <= c
      <4>1. Rank(F, c) \in found
        BY <1>3 DEF found
      <4>2. Rank(F, b) <= Rank(F, c)
        BY <4>1, <3>3, <3>5
      <4>3. ~(c < b)
        BY <4>2, <3>5, <1>2
      <4> QED BY <4>3, <3>5, <1>0
    <3> QED BY <2>1, <2>3, <3>4, <3>6 DEF IsLowest
  <2> QED BY <2>2, <2>3
<1> QED BY <1>4, <1>5

(* Taking an address in, and out: who is next to c.                        *)
LEMMA NextWith ==
  ASSUME NEW F, F \subseteq Nat \ {0}, NEW b \in Nat \ {0}, b \notin F,
         NEW before, IsPrev(F, b, before),
         NEW c \in F, NEW x, IsNext(F, c, x)
  PROVE  IsNext(F \cup {b}, c, IF c = before THEN b ELSE x)
<1>0. /\ b \in Nat /\ c \in Nat /\ c # 0 /\ \A d \in F : d \in Nat /\ d # b /\ d # 0
      /\ Null = 0
  BY DEF Null
<1>1. CASE c = before
  <2>1. c < b
    BY <1>0, <1>1 DEF IsPrev
  <2>2. \A d \in F : c < d => b <= d
    BY <1>0, <1>1 DEF IsPrev
  <2> QED BY <1>0, <1>1, <2>1, <2>2 DEF IsNext
<1>2. CASE c # before /\ c < b
  <2>1. before \in F /\ before < b /\ c < before
    <3>1. ~(b <= c)
      BY <1>0, <1>2
    <3>2. before \in F /\ before < b /\ c <= before
      BY <1>2, <3>1 DEF IsPrev
    <3> QED BY <1>0, <1>2, <3>2
  <2>2. x \in F /\ c < x /\ \A d \in F : c < d => x <= d
    BY <1>0, <2>1 DEF IsNext
  <2>3. x <= b
    <3>1. x <= before /\ x \in Nat /\ before \in Nat
      BY <1>0, <2>1, <2>2
    <3> QED BY <1>0, <2>1, <3>1
  <2> QED BY <1>2, <2>2, <2>3 DEF IsNext
<1>3. CASE c # before /\ ~(c < b)
  <2>1. b <= c
    BY <1>0, <1>3
  <2> QED BY <1>3, <2>1 DEF IsNext
<1> QED BY <1>1, <1>2, <1>3

(* The predecessor of a block once b has been added before `after`.        *)
LEMMA PrevWith ==
  ASSUME NEW F, F \subseteq Nat \ {0}, NEW b \in Nat \ {0}, b \notin F,
         NEW after, IsNext(F, b, after),
         NEW c \in F, NEW x, IsPrev(F, c, x)
  PROVE  IsPrev(F \cup {b}, c, IF c = after THEN b ELSE x)
<1>0. /\ b \in Nat /\ c \in Nat /\ c # 0 /\ \A d \in F : d \in Nat /\ d # b /\ d # 0
      /\ Null = 0
  BY DEF Null
<1>1. CASE c = after
  <2>1. b < c
    BY <1>0, <1>1 DEF IsNext
  <2>2. \A d \in F : d < c => d <= b
    BY <1>0, <1>1 DEF IsNext
  <2> QED BY <1>0, <1>1, <2>1, <2>2 DEF IsPrev
<1>2. CASE c # after /\ b < c
  <2>1. after \in F /\ b < after /\ after < c
    <3>1. ~(c <= b)
      BY <1>0, <1>2
    <3>2. after \in F /\ b < after /\ after <= c
      BY <1>2, <3>1 DEF IsNext
    <3> QED BY <1>0, <1>2, <3>2
  <2>2. x \in F /\ x < c /\ \A d \in F : d < c => d <= x
    BY <1>0, <2>1 DEF IsPrev
  <2>3. b <= x
    <3>1. after <= x /\ x \in Nat /\ after \in Nat
      BY <1>0, <2>1, <2>2
    <3> QED BY <1>0, <2>1, <3>1
  <2> QED BY <1>2, <2>2, <2>3 DEF IsPrev
<1>3. CASE c # after /\ ~(b < c)
  <2>1. c <= b
    BY <1>0, <1>3
  <2> QED BY <1>3, <2>1 DEF IsPrev
<1> QED BY <1>1, <1>2, <1>3

(* The successor of a block once b has been taken out.                     *)
LEMMA NextWithout ==
  ASSUME NEW F, F \subseteq Nat \ {0}, NEW b \in F,
         NEW before, IsPrev(F, b, before), NEW after, IsNext(F, b, after),
         NEW c \in F \ {b}, NEW x, IsNext(F, c, x)
  PROVE  IsNext(F \ {b}, c, IF c = before THEN after ELSE x)
<1>0. /\ b \in Nat /\ c \in Nat /\ c # 0 /\ c # b
      /\ \A d \in F : d \in Nat /\ d # 0
      /\ Null = 0
  BY DEF Null
<1>1. CASE c = before
  <2>1. c < b
    BY <1>0, <1>1 DEF IsPrev
  <2>2. ASSUME NEW d \in F \ {b}, c < d PROVE b < d
    <3>1. ~(d < b) /\ d # b
      BY <1>0, <1>1, <2>2 DEF IsPrev
    <3> QED BY <1>0, <3>1
  <2>3. CASE after = Null
    <3>1. \A d \in F \ {b} : d <= c
      BY <1>0, <2>2, <2>3 DEF IsNext
    <3> QED BY <1>1, <2>3, <3>1 DEF IsNext
  <2>4. CASE after # Null
    <3>1. after \in F /\ b < after /\ \A d \in F : b < d => after <= d
      BY <2>4 DEF IsNext
    <3>2. c < after /\ after # b
      BY <1>0, <2>1, <3>1
    <3> QED BY <1>1, <2>2, <3>1, <3>2 DEF IsNext
  <2> QED BY <2>3, <2>4
<1>2. CASE c # before
  <2>1. x # b
    <3> SUFFICES ASSUME x = b PROVE FALSE
      OBVIOUS
    <3>1. c < b /\ \A d \in F : c < d => b <= d
      BY <1>0 DEF IsNext
    <3>2. before \in F /\ c <= before /\ before < b
      BY <1>0, <3>1 DEF IsPrev
    <3> QED BY <1>0, <1>2, <3>1, <3>2
  <2> QED BY <1>2, <2>1 DEF IsNext
<1> QED BY <1>1, <1>2

(* The predecessor of a block once b has been taken out.                   *)
LEMMA PrevWithout ==
  ASSUME NEW F, F \subseteq Nat \ {0}, NEW b \in F,
         NEW before, IsPrev(F, b, before), NEW after, IsNext(F, b, after),
         NEW c \in F \ {b}, NEW x, IsPrev(F, c, x)
  PROVE  IsPrev(F \ {b}, c, IF c = after THEN before ELSE x)
<1>0. /\ b \in Nat /\ c \in Nat /\ c # 0 /\ c # b
      /\ \A d \in F : d \in Nat /\ d # 0
      /\ Null = 0
  BY DEF Null
<1>1. CASE c = after
  <2>1. b < c
    BY <1>0, <1>1 DEF IsNext
  <2>2. ASSUME NEW d \in F \ {b}, d < c PROVE d < b
    <3>1. ~(b < d) /\ d # b
      BY <1>0, <1>1, <2>2 DEF IsNext
    <3> QED BY <1>0, <3>1
  <2>3. CASE before = Null
    <3>1. \A d \in F \ {b} : c <= d
      BY <1>0, <2>2, <2>3 DEF IsPrev
    <3> QED BY <1>1, <2>3, <3>1 DEF IsPrev
  <2>4. CASE before # Null
    <3>1. before \in F /\ before < b /\ \A d \in F : d < b => d <= before
      BY <2>4 DEF IsPrev
    <3>2. before < c /\ before # b
      BY <1>0, <2>1, <3>1
    <3> QED BY <1>1, <2>2, <3>1, <3>2 DEF IsPrev
  <2> QED BY <2>3, <2>4
<1>2. CASE c # after
  <2>1. x # b
    <3> SUFFICES ASSUME x = b PROVE FALSE
      OBVIOUS
    <3>1. b < c /\ \A d \in F : d < c => d <= b
      BY <1>0 DEF IsPrev
    <3>2. after \in F /\ after <= c /\ b < after
      BY <1>0, <3>1 DEF IsNext
    <3> QED BY <1>0, <1>2, <3>1, <3>2
  <2> QED BY <1>2, <2>1 DEF IsPrev
<1> QED BY <1>1, <1>2

(* Hanging a node between its neighbours.                                  *)
HungIn(link2, head2, tail2, G, link, head, tail, F, b, before, after) ==
  /\ \A c : c \in G <=> c \in F \/ c = b
  /\ DOMAIN link2 = G
  /\ IsNode(link2[b]) /\ link2[b].prev = before /\ link2[b].next = after
  /\ \A c \in F :
       /\ IsNode(link2[c])
       /\ link2[c].prev = IF c = after THEN b ELSE link[c].prev
       /\ link2[c].next = IF c = before THEN b ELSE link[c].next
  /\ head2 = IF before = Null THEN b ELSE head
  /\ tail2 = IF after = Null THEN b ELSE tail

(* Hanging a block between its neighbours by address keeps the list linked *)
(* in order.                                                               *)
LEMMA LinkedHung ==
  ASSUME NEW F, F \subseteq Nat \ {0},
         NEW link, NEW head, NEW tail, Linked(link, head, tail, F),
         NEW b \in Nat \ {0}, b \notin F,
         NEW before, IsPrev(F, b, before), NEW after, IsNext(F, b, after),
         NEW G, NEW link2, NEW head2, NEW tail2,
         HungIn(link2, head2, tail2, G, link, head, tail, F, b, before, after)
  PROVE  Linked(link2, head2, tail2, G)
<1> /\ \A c : c \in G <=> c \in F \/ c = b
    /\ DOMAIN link2 = G
    /\ IsNode(link2[b]) /\ link2[b].prev = before /\ link2[b].next = after
    /\ \A c \in F :
         /\ IsNode(link2[c])
         /\ link2[c].prev = IF c = after THEN b ELSE link[c].prev
         /\ link2[c].next = IF c = before THEN b ELSE link[c].next
    /\ head2 = IF before = Null THEN b ELSE head
    /\ tail2 = IF after = Null THEN b ELSE tail
  BY DEF HungIn
<1> G = F \cup {b}
  OBVIOUS
<1>0. /\ G \subseteq Nat \ {0} /\ \A c \in F : c \in Nat /\ c # 0 /\ c # b
      /\ b \in Nat /\ b # 0 /\ Null = 0
  BY DEF Null
<1>1. /\ IsLowest(head, F) /\ IsHighest(tail, F)
      /\ \A c \in F : IsPrev(F, c, link[c].prev) /\ IsNext(F, c, link[c].next)
  BY DEF Linked
<1>2. IsLowest(head2, G)
  <2>1. CASE before = Null
    BY <1>0, <2>1 DEF IsPrev, IsLowest
  <2>2. CASE before # Null
    <3>1. head \in F /\ head <= before /\ before < b /\ \A c \in F : head <= c
      BY <1>1, <2>2 DEF IsPrev, IsLowest
    <3>2. head \in Nat /\ before \in Nat /\ head <= b
      BY <1>0, <2>2, <3>1 DEF IsPrev
    <3> QED BY <2>2, <3>1, <3>2 DEF IsLowest
  <2> QED BY <2>1, <2>2
<1>3. IsHighest(tail2, G)
  <2>1. CASE after = Null
    BY <1>0, <2>1 DEF IsNext, IsHighest
  <2>2. CASE after # Null
    <3>1. tail \in F /\ after <= tail /\ b < after /\ \A c \in F : c <= tail
      BY <1>1, <2>2 DEF IsNext, IsHighest
    <3>2. after \in Nat /\ tail \in Nat
      BY <1>0, <2>2, <3>1 DEF IsNext
    <3>3. b <= tail
      BY <1>0, <3>1, <3>2
    <3> QED BY <2>2, <3>1, <3>3 DEF IsHighest
  <2> QED BY <2>1, <2>2
<1>4. IsPrev(G, b, before) /\ IsNext(G, b, after)
  <2>1. ~(b < b) /\ b <= b
    BY <1>0
  <2> QED BY <2>1 DEF IsPrev, IsNext
<1>5. ASSUME NEW c \in F
      PROVE  IsNext(G, c, link2[c].next) /\ IsPrev(G, c, link2[c].prev)
  <2>1. /\ link2[c].next = IF c = before THEN b ELSE link[c].next
        /\ link2[c].prev = IF c = after THEN b ELSE link[c].prev
    OBVIOUS
  <2>2. IsNext(G, c, IF c = before THEN b ELSE link[c].next)
    <3>1. IsNext(F, c, link[c].next)
      BY <1>1
    <3>2. IsNext(F \cup {b}, c, IF c = before THEN b ELSE link[c].next)
      BY <3>1, NextWith
    <3> QED BY <3>2
  <2>3. IsPrev(G, c, IF c = after THEN b ELSE link[c].prev)
    <3>1. IsPrev(F, c, link[c].prev)
      BY <1>1
    <3>2. IsPrev(F \cup {b}, c, IF c = after THEN b ELSE link[c].prev)
      BY <3>1, PrevWith
    <3> QED BY <3>2
  <2> QED BY <2>1, <2>2, <2>3
<1>6. /\ link2[b].prev = before /\ link2[b].next = after
      /\ \A c \in G : IsNode(link2[c])
  BY DEF IsNode
<1> QED BY <1>2, <1>3, <1>4, <1>5, <1>6 DEF Linked

(* Taking a node off: its neighbours become each other's.                  *)
UnhungIn(link2, head2, tail2, G, link, head, tail, F, b) ==
  /\ \A c : c \in G <=> c \in F /\ c # b
  /\ DOMAIN link2 = G
  /\ \A c \in G :
       /\ IsNode(link2[c])
       /\ link2[c].prev = IF c = link[b].next THEN link[b].prev
                                              ELSE link[c].prev
       /\ link2[c].next = IF c = link[b].prev THEN link[b].next
                                              ELSE link[c].next
  /\ head2 = IF link[b].prev = Null THEN link[b].next ELSE head
  /\ tail2 = IF link[b].next = Null THEN link[b].prev ELSE tail

(* Taking a block out and joining its neighbours keeps the list linked in  *)
(* order.                                                                  *)
LEMMA LinkedUnhung ==
  ASSUME NEW F, F \subseteq Nat \ {0},
         NEW link, NEW head, NEW tail, Linked(link, head, tail, F),
         NEW b \in F,
         NEW G, NEW link2, NEW head2, NEW tail2,
         UnhungIn(link2, head2, tail2, G, link, head, tail, F, b)
  PROVE  Linked(link2, head2, tail2, G)
<1> /\ \A c : c \in G <=> c \in F /\ c # b
    /\ DOMAIN link2 = G
    /\ \A c \in G :
         /\ IsNode(link2[c])
         /\ link2[c].prev = IF c = link[b].next THEN link[b].prev
                                                ELSE link[c].prev
         /\ link2[c].next = IF c = link[b].prev THEN link[b].next
                                                ELSE link[c].next
    /\ head2 = IF link[b].prev = Null THEN link[b].next ELSE head
    /\ tail2 = IF link[b].next = Null THEN link[b].prev ELSE tail
  BY DEF UnhungIn
<1> G = F \ {b}
  OBVIOUS
<1>0. /\ G \subseteq Nat \ {0} /\ \A c \in F : c \in Nat /\ c # 0
      /\ b \in Nat /\ b # 0 /\ Null = 0
  BY DEF Null
<1>1. /\ IsLowest(head, F) /\ IsHighest(tail, F)
      /\ \A c \in F : IsPrev(F, c, link[c].prev) /\ IsNext(F, c, link[c].next)
  BY DEF Linked
<1>a. PICK before : before = link[b].prev
  OBVIOUS
<1>b. PICK after : after = link[b].next
  OBVIOUS
<1>h. /\ head2 = IF before = Null THEN after ELSE head
      /\ tail2 = IF after = Null THEN before ELSE tail
  BY <1>a, <1>b
<1>c. IsPrev(F, b, before) /\ IsNext(F, b, after)
  BY <1>1, <1>a, <1>b
<1>d. head \in F /\ tail \in F /\ \A c \in F : head <= c /\ c <= tail
  BY <1>1 DEF IsLowest, IsHighest
<1>2. IsLowest(head2, G)
  <2>1. CASE before = Null
    <3>1. \A c \in G : b < c
      BY <1>0, <1>c, <2>1 DEF IsPrev
    <3>2. CASE after = Null
      BY <1>h, <1>0, <1>c, <2>1, <3>1, <3>2 DEF IsNext, IsLowest
    <3>3. CASE after # Null
      <4>1. after \in F /\ after # b /\ \A c \in F : b < c => after <= c
        BY <1>0, <1>c, <3>3 DEF IsNext
      <4> QED BY <1>h, <2>1, <3>1, <4>1 DEF IsLowest
    <3> QED BY <3>2, <3>3
  <2>2. CASE before # Null
    <3>1. head <= before /\ before < b
      BY <1>d, <1>c, <2>2 DEF IsPrev
    <3>2. head # b /\ head \in G
      <4>1. before \in F /\ head \in Nat
        BY <1>0, <1>d, <1>c, <2>2 DEF IsPrev
      <4> QED BY <1>0, <1>d, <3>1, <4>1
    <3> QED BY <1>h, <1>d, <2>2, <3>2 DEF IsLowest
  <2> QED BY <2>1, <2>2
<1>3. IsHighest(tail2, G)
  <2>1. CASE after = Null
    <3>1. \A c \in G : c < b
      BY <1>0, <1>c, <2>1 DEF IsNext
    <3>2. CASE before = Null
      BY <1>h, <1>0, <1>c, <2>1, <3>1, <3>2 DEF IsPrev, IsHighest
    <3>3. CASE before # Null
      <4>1. before \in F /\ before # b /\ \A c \in F : c < b => c <= before
        BY <1>0, <1>c, <3>3 DEF IsPrev
      <4> QED BY <1>h, <2>1, <3>1, <4>1 DEF IsHighest
    <3> QED BY <3>2, <3>3
  <2>2. CASE after # Null
    <3>1. after <= tail /\ b < after
      BY <1>d, <1>c, <2>2 DEF IsNext
    <3>2. tail # b /\ tail \in G
      <4>1. after \in F /\ tail \in Nat
        BY <1>0, <1>d, <1>c, <2>2 DEF IsNext
      <4> QED BY <1>0, <1>d, <3>1, <4>1
    <3> QED BY <1>h, <1>d, <2>2, <3>2 DEF IsHighest
  <2> QED BY <2>1, <2>2
<1>5. ASSUME NEW c \in G
      PROVE  IsNext(G, c, link2[c].next) /\ IsPrev(G, c, link2[c].prev)
  <2>1. /\ link2[c].next = IF c = before THEN after ELSE link[c].next
        /\ link2[c].prev = IF c = after THEN before ELSE link[c].prev
    BY <1>a, <1>b
  <2>2. IsNext(F \ {b}, c, IF c = before THEN after ELSE link[c].next)
    BY <1>1, <1>c, NextWithout
  <2>3. IsPrev(F \ {b}, c, IF c = after THEN before ELSE link[c].prev)
    BY <1>1, <1>c, PrevWithout
  <2> QED BY <2>1, <2>2, <2>3
<1>6. \A c \in G : IsNode(link2[c])
  OBVIOUS
<1> QED BY <1>2, <1>3, <1>5, <1>6, <1>a, <1>b DEF Linked
-----------------------------------------------------------------------------
(* How blocks tile the memory below the break, by their headers alone.     *)

IsWord(w) == /\ w = [size |-> w.size, tag |-> w.tag]
             /\ w.size \in Nat \ {0} /\ w.tag \in {Free, Used}

EndOf(header, b) == b + header[b].size

(* Blocks lie in order below top, and none overlaps the next.              *)
Spaced(header, S, top) ==
  /\ \A b \in S : /\ b \in Nat \ {0} /\ IsWord(header[b])
                  /\ EndOf(header, b) <= top
  /\ \A b, c \in S : b < c => EndOf(header, b) < c

Tiling(header, top) ==
  /\ top \in Nat
  /\ Spaced(header, DOMAIN header, top)
  /\ \A b \in DOMAIN header :
       /\ b = 1 \/ \E a \in DOMAIN header : EndOf(header, a) + 1 = b
       /\ EndOf(header, b) = top \/ EndOf(header, b) + 1 \in DOMAIN header
  /\ top = 0 \/ \E b \in DOMAIN header : EndOf(header, b) = top

(* The blocks of S tile the memory below top but for one hole, b up to e.  *)
Slot(header, S, top, b, e) ==
  /\ top \in Nat /\ b \in Nat \ {0} /\ e \in Nat /\ b < e /\ e <= top
  /\ Spaced(header, S, top)
  /\ \A c \in S :
       /\ EndOf(header, c) < b \/ e < c
       /\ c = 1 \/ c = e + 1 \/ \E a \in S : EndOf(header, a) + 1 = c
       /\ \/ EndOf(header, c) = top \/ EndOf(header, c) + 1 = b
          \/ EndOf(header, c) + 1 \in S
  /\ b = 1 \/ \E a \in S : EndOf(header, a) + 1 = b
  /\ e = top \/ e + 1 \in S

(* A block ends above the address it starts at.                            *)
LEMMA EndAbove ==
  ASSUME NEW header, NEW S, NEW top, Spaced(header, S, top), NEW b \in S
  PROVE  EndOf(header, b) \in Nat /\ b < EndOf(header, b)
<1>1. b \in Nat /\ header[b].size \in Nat /\ header[b].size # 0
  BY DEF Spaced, IsWord
<1> QED BY <1>1 DEF EndOf

(* One block fills the hole.                                               *)
LEMMA FillOne ==
  ASSUME NEW header, NEW S, NEW top, NEW b, NEW e, Slot(header, S, top, b, e),
         NEW header2, DOMAIN header2 = S \cup {b},
         \A c \in S \ {b} : header2[c] = header[c],
         IsWord(header2[b]), EndOf(header2, b) = e
  PROVE  Tiling(header2, top) /\ b \notin S
<1> DEFINE T == S \cup {b}
<1>0. /\ top \in Nat /\ b \in Nat /\ b # 0 /\ e \in Nat /\ b < e /\ e <= top
      /\ Spaced(header, S, top)
      /\ \A c \in S : EndOf(header, c) < b \/ e < c
  BY DEF Slot
<1>1. ASSUME NEW c \in S
      PROVE  /\ EndOf(header, c) \in Nat /\ c \in Nat /\ c # 0
             /\ c < EndOf(header, c) /\ c # b
             /\ EndOf(header, c) < b \/ e < c
             /\ EndOf(header, c) <= top
             /\ IsWord(header[c]) /\ header2[c] = header[c]
             /\ EndOf(header2, c) = EndOf(header, c)
  <2>1. EndOf(header, c) \in Nat /\ c < EndOf(header, c) /\ c \in Nat /\ c # 0
    BY <1>0, EndAbove DEF Spaced
  <2>2. c # b
    BY <1>0, <2>1
  <2> QED BY <1>0, <2>1, <2>2 DEF Spaced, EndOf
<1>2. Spaced(header2, T, top)
  <2>1. \A c \in T : /\ c \in Nat \ {0} /\ IsWord(header2[c])
                     /\ EndOf(header2, c) <= top
    BY <1>0, <1>1
  <2>2. ASSUME NEW c \in T, NEW d \in T, c < d PROVE EndOf(header2, c) < d
    <3>1. CASE c \in S /\ d \in S
      BY <1>0, <1>1, <2>2, <3>1 DEF Spaced
    <3>2. CASE c = b /\ d \in S
      BY <1>0, <1>1, <2>2, <3>2
    <3>3. CASE c \in S /\ d = b
      BY <1>0, <1>1, <2>2, <3>3
    <3>4. CASE c = b /\ d = b
      BY <1>0, <2>2, <3>4
    <3> QED BY <3>1, <3>2, <3>3, <3>4
  <2> QED BY <2>1, <2>2 DEF Spaced
<1>3. ASSUME NEW c \in T
      PROVE  /\ c = 1 \/ \E a \in T : EndOf(header2, a) + 1 = c
             /\ EndOf(header2, c) = top \/ EndOf(header2, c) + 1 \in T
  <2>1. CASE c \in S
    BY <1>1, <2>1 DEF Slot
  <2>2. CASE c = b
    BY <1>1, <2>2 DEF Slot
  <2> QED BY <2>1, <2>2
<1>4. \E c \in T : EndOf(header2, c) = top
  <2>1. CASE e = top
    BY <2>1
  <2>2. CASE e # top
    <3>1. e + 1 \in S
      BY <2>2 DEF Slot
    <3> DEFINE U == {EndOf(header, c) : c \in S}
    <3>2. U \subseteq Nat /\ U # {} /\ \A u \in U : u <= top
      BY <1>1, <3>1
    <3>3. PICK c \in S : \A d \in S : EndOf(header, d) <= EndOf(header, c)
      <4> HIDE DEF U
      <4>1. PICK u \in U : \A v \in U : v <= u
        BY <3>2, <1>0, GreatestNatural
      <4> QED BY <4>1 DEF U
    <3>4. EndOf(header, c) + 1 \notin S
      <4> SUFFICES ASSUME NEW d \in S, d = EndOf(header, c) + 1 PROVE FALSE
        OBVIOUS
      <4>1. d < EndOf(header, d) /\ EndOf(header, d) <= EndOf(header, c)
        BY <1>1, <3>3
      <4> QED BY <1>1, <4>1
    <3>5. EndOf(header, c) + 1 # b
      <4>1. EndOf(header, e + 1) <= EndOf(header, c) /\ e + 1 < EndOf(header, e + 1)
        BY <1>1, <3>1, <3>3
      <4> QED BY <1>0, <1>1, <3>1, <4>1
    <3>6. EndOf(header, c) = top
      BY <3>4, <3>5 DEF Slot
    <3> QED BY <1>1, <3>6
  <2> QED BY <2>1, <2>2
<1> QED BY <1>0, <1>1, <1>2, <1>3, <1>4 DEF Tiling

(* A block at the upper end of the hole leaves a smaller hole.             *)
LEMMA FillAbove ==
  ASSUME NEW header, NEW S, NEW top, NEW b, NEW e, Slot(header, S, top, b, e),
         NEW r \in Nat, b + 1 < r,
         NEW header2, \A c \in S \ {r} : header2[c] = header[c],
         IsWord(header2[r]), EndOf(header2, r) = e,
         NEW T, \A c : c \in T <=> c \in S \/ c = r
  PROVE  Slot(header2, T, top, b, r - 1) /\ r \notin S
<1>0. /\ top \in Nat /\ b \in Nat /\ b # 0 /\ e \in Nat /\ b < e /\ e <= top
      /\ Spaced(header, S, top)
      /\ \A c \in S : EndOf(header, c) < b \/ e < c
  BY DEF Slot
<1>a. r < e
  <2>1. header2[r].size \in Nat /\ header2[r].size # 0
    BY DEF IsWord
  <2> QED BY <2>1, <1>0 DEF EndOf
<1>1. ASSUME NEW c \in S
      PROVE  /\ EndOf(header, c) \in Nat /\ c \in Nat /\ c # 0
             /\ c < EndOf(header, c) /\ c # r
             /\ EndOf(header, c) < b \/ e < c
             /\ EndOf(header, c) <= top
             /\ IsWord(header[c]) /\ header2[c] = header[c]
             /\ EndOf(header2, c) = EndOf(header, c)
  <2>1. EndOf(header, c) \in Nat /\ c < EndOf(header, c) /\ c \in Nat /\ c # 0
    BY <1>0, EndAbove DEF Spaced
  <2>2. c # r
    BY <1>0, <1>a, <2>1
  <2> QED BY <1>0, <2>1, <2>2 DEF Spaced, EndOf
<1>2. Spaced(header2, T, top)
  <2>1. \A c \in T : /\ c \in Nat \ {0} /\ IsWord(header2[c])
                     /\ EndOf(header2, c) <= top
    BY <1>0, <1>1
  <2>2. ASSUME NEW c \in T, NEW d \in T, c < d PROVE EndOf(header2, c) < d
    <3>1. CASE c \in S /\ d \in S
      BY <1>0, <1>1, <2>2, <3>1 DEF Spaced
    <3>2. CASE c = r /\ d \in S
      BY <1>0, <1>a, <1>1, <2>2, <3>2
    <3>3. CASE c \in S /\ d = r
      BY <1>0, <1>a, <1>1, <2>2, <3>3
    <3>4. CASE c = r /\ d = r
      BY <1>0, <2>2, <3>4
    <3> QED BY <3>1, <3>2, <3>3, <3>4
  <2> QED BY <2>1, <2>2 DEF Spaced
<1>3. ASSUME NEW c \in T
      PROVE  /\ EndOf(header2, c) < b \/ r - 1 < c
             /\ \/ c = 1 \/ c = r - 1 + 1
                \/ \E a \in T : EndOf(header2, a) + 1 = c
             /\ \/ EndOf(header2, c) = top \/ EndOf(header2, c) + 1 = b
                \/ EndOf(header2, c) + 1 \in T
  <2>1. CASE c \in S
    <3>1. EndOf(header2, c) < b \/ r - 1 < c
      BY <1>0, <1>a, <1>1, <2>1
    <3>2. c = 1 \/ \E a \in T : EndOf(header2, a) + 1 = c
      BY <1>1, <2>1 DEF Slot
    <3>3. \/ EndOf(header2, c) = top \/ EndOf(header2, c) + 1 = b
          \/ EndOf(header2, c) + 1 \in T
      BY <1>1, <2>1 DEF Slot
    <3> QED BY <3>1, <3>2, <3>3
  <2>2. CASE c = r
    BY <1>1, <2>2 DEF Slot
  <2> QED BY <2>1, <2>2
<1>4. b = 1 \/ \E a \in T : EndOf(header2, a) + 1 = b
  BY <1>1 DEF Slot
<1>5. r - 1 \in Nat /\ b < r - 1 /\ r - 1 <= top /\ r - 1 + 1 = r
  BY <1>0, <1>a
<1> QED BY <1>0, <1>1, <1>2, <1>3, <1>4, <1>5 DEF Slot

(* The hole that a block leaves, as large as it is.                        *)
LEMMA HoleOf ==
  ASSUME NEW header, NEW top, Tiling(header, top), NEW b \in DOMAIN header
  PROVE  Slot(header, DOMAIN header \ {b}, top, b, EndOf(header, b))
<1> DEFINE S == DOMAIN header \ {b}
<1>0. top \in Nat /\ Spaced(header, DOMAIN header, top)
  BY DEF Tiling
<1>1. \A c \in DOMAIN header :
        /\ c \in Nat /\ c # 0 /\ EndOf(header, c) \in Nat /\ c < EndOf(header, c)
        /\ EndOf(header, c) <= top
        /\ \A d \in DOMAIN header : c < d => EndOf(header, c) < d
  BY <1>0, EndAbove DEF Spaced
<1>2. Spaced(header, S, top)
  BY <1>0 DEF Spaced
<1>3. ASSUME NEW c \in S
      PROVE  /\ EndOf(header, c) < b \/ EndOf(header, b) < c
             /\ \/ c = 1 \/ c = EndOf(header, b) + 1
                \/ \E a \in S : EndOf(header, a) + 1 = c
             /\ \/ EndOf(header, c) = top \/ EndOf(header, c) + 1 = b
                \/ EndOf(header, c) + 1 \in S
  <2>1. EndOf(header, c) < b \/ EndOf(header, b) < c
    BY <1>1
  <2> QED BY <2>1 DEF Tiling
<1>4. b = 1 \/ \E a \in S : EndOf(header, a) + 1 = b
  <2>1. EndOf(header, b) + 1 # b
    BY <1>1
  <2> QED BY <2>1 DEF Tiling
<1>5. EndOf(header, b) = top \/ EndOf(header, b) + 1 \in S
  <2>1. EndOf(header, b) + 1 # b
    BY <1>1
  <2> QED BY <2>1 DEF Tiling
<1> QED BY <1>0, <1>1, <1>2, <1>3, <1>4, <1>5 DEF Slot

(* The hole that two adjacent blocks leave.                                *)
LEMMA HoleOfTwo ==
  ASSUME NEW header, NEW top, Tiling(header, top),
         NEW b \in DOMAIN header, NEW r \in DOMAIN header,
         EndOf(header, b) + 1 = r
  PROVE  Slot(header, DOMAIN header \ {b, r}, top, b, EndOf(header, r))
<1> DEFINE S == DOMAIN header \ {b, r}
<1>0. top \in Nat /\ Spaced(header, DOMAIN header, top)
  BY DEF Tiling
<1>1. \A c \in DOMAIN header :
        /\ c \in Nat /\ c # 0 /\ EndOf(header, c) \in Nat /\ c < EndOf(header, c)
        /\ EndOf(header, c) <= top
        /\ \A d \in DOMAIN header : c < d => EndOf(header, c) < d
  BY <1>0, EndAbove DEF Spaced
<1>2. Spaced(header, S, top)
  BY <1>0 DEF Spaced
<1>a. b < r
  BY <1>1
<1>3. ASSUME NEW c \in S
      PROVE  /\ EndOf(header, c) < b \/ EndOf(header, r) < c
             /\ \/ c = 1 \/ c = EndOf(header, r) + 1
                \/ \E a \in S : EndOf(header, a) + 1 = c
             /\ \/ EndOf(header, c) = top \/ EndOf(header, c) + 1 = b
                \/ EndOf(header, c) + 1 \in S
  <2>0. c \in Nat /\ b \in Nat /\ r \in Nat /\ c # b /\ c # r
    BY <1>1
  <2>1. EndOf(header, c) < b \/ EndOf(header, r) < c
    <3>1. CASE c < b
      BY <1>1, <3>1
    <3>2. CASE b < c
      <4>1. EndOf(header, b) < c
        BY <1>1, <3>2
      <4>2. r < c
        BY <1>1, <2>0, <4>1
      <4> QED BY <1>1, <4>2
    <3> QED BY <2>0, <3>1, <3>2
  <2>2. EndOf(header, b) + 1 # c
    BY <2>0
  <2>3. EndOf(header, c) + 1 # r
    BY <2>1, <1>1, <1>a, <2>0
  <2> QED BY <2>1, <2>2, <2>3 DEF Tiling
<1>4. b = 1 \/ \E a \in S : EndOf(header, a) + 1 = b
  <2>1. EndOf(header, b) + 1 # b /\ EndOf(header, r) + 1 # b
    BY <1>1, <1>a
  <2> QED BY <2>1 DEF Tiling
<1>5. EndOf(header, r) = top \/ EndOf(header, r) + 1 \in S
  <2>1. EndOf(header, r) + 1 # b /\ EndOf(header, r) + 1 # r
    BY <1>1, <1>a
  <2> QED BY <2>1 DEF Tiling
<1>6. b \in Nat \ {0} /\ EndOf(header, r) \in Nat /\ b < EndOf(header, r)
      /\ EndOf(header, r) <= top
  BY <1>1, <1>a
<1> QED BY <1>0, <1>2, <1>3, <1>4, <1>5, <1>6 DEF Slot

(* The room that a higher break opens above the last block.                *)
LEMMA HoleAbove ==
  ASSUME NEW header, NEW top, Tiling(header, top), NEW n \in Nat \ {0}
  PROVE  Slot(header, DOMAIN header, top + 1 + n, top + 1, top + 1 + n)
<1>0. top \in Nat /\ Spaced(header, DOMAIN header, top)
  BY DEF Tiling
<1>1. \A c \in DOMAIN header :
        /\ c \in Nat /\ c # 0 /\ EndOf(header, c) \in Nat /\ c < EndOf(header, c)
        /\ EndOf(header, c) <= top
  BY <1>0, EndAbove DEF Spaced
<1>2. Spaced(header, DOMAIN header, top + 1 + n)
  <2>1. \A c \in DOMAIN header : EndOf(header, c) <= top + 1 + n
    BY <1>0, <1>1
  <2> QED BY <1>0, <2>1 DEF Spaced
<1>3. \A c \in DOMAIN header : EndOf(header, c) < top + 1
  BY <1>0, <1>1
<1>4. top + 1 = 1 \/ \E a \in DOMAIN header : EndOf(header, a) + 1 = top + 1
  BY <1>0 DEF Tiling
<1>5. \A c \in DOMAIN header :
        EndOf(header, c) + 1 = top + 1 \/ EndOf(header, c) + 1 \in DOMAIN header
  BY DEF Tiling
<1>6. \A c \in DOMAIN header :
        c = 1 \/ \E a \in DOMAIN header : EndOf(header, a) + 1 = c
  BY DEF Tiling
<1>7. top + 1 \in Nat \ {0} /\ top + 1 + n \in Nat /\ top + 1 < top + 1 + n
  BY <1>0
<1> QED BY <1>2, <1>3, <1>4, <1>5, <1>6, <1>7 DEF Slot

(* The last block and the room that a higher break opens above it.         *)
LEMMA HoleAtTop ==
  ASSUME NEW header, NEW top, Tiling(header, top), NEW b \in DOMAIN header,
         EndOf(header, b) = top, NEW e \in Nat, top <= e
  PROVE  Slot(header, DOMAIN header \ {b}, e, b, e)
<1> DEFINE S == DOMAIN header \ {b}
<1>0. top \in Nat /\ Spaced(header, DOMAIN header, top)
  BY DEF Tiling
<1>1. \A c \in DOMAIN header :
        /\ c \in Nat /\ c # 0 /\ EndOf(header, c) \in Nat /\ c < EndOf(header, c)
        /\ EndOf(header, c) <= top
        /\ \A d \in DOMAIN header : c < d => EndOf(header, c) < d
  BY <1>0, EndAbove DEF Spaced
<1>2. Spaced(header, S, e)
  <2>1. \A c \in S : EndOf(header, c) <= e
    BY <1>0, <1>1
  <2> QED BY <1>0, <2>1 DEF Spaced
<1>3. ASSUME NEW c \in S
      PROVE  /\ EndOf(header, c) < b
             /\ c = 1 \/ \E a \in S : EndOf(header, a) + 1 = c
             /\ EndOf(header, c) + 1 = b \/ EndOf(header, c) + 1 \in S
  <2>0. c \in Nat /\ b \in Nat /\ c # b
    BY <1>1
  <2>1. EndOf(header, c) < b
    <3>1. ~(b < c)
      <4> SUFFICES ASSUME b < c PROVE FALSE
        OBVIOUS
      <4>1. top < c /\ c < EndOf(header, c) /\ EndOf(header, c) <= top
        BY <1>1
      <4> QED BY <1>0, <1>1, <4>1
    <3> QED BY <1>1, <2>0, <3>1
  <2>2. c < b
    BY <1>1, <2>0, <2>1
  <2>3. EndOf(header, b) + 1 # c /\ EndOf(header, c) # top
    BY <1>0, <1>1, <2>0, <2>1, <2>2
  <2> QED BY <2>1, <2>3 DEF Tiling
<1>4. b = 1 \/ \E a \in S : EndOf(header, a) + 1 = b
  <2>1. EndOf(header, b) + 1 # b
    BY <1>1
  <2> QED BY <2>1 DEF Tiling
<1>5. b \in Nat \ {0} /\ b < e
  BY <1>0, <1>1
<1> QED BY <1>2, <1>3, <1>4, <1>5 DEF Slot

(* Without its last block the heap ends where that block's header was.     *)
LEMMA CutOff ==
  ASSUME NEW header, NEW top, Tiling(header, top), NEW b \in DOMAIN header,
         EndOf(header, b) = top,
         NEW header2, DOMAIN header2 = DOMAIN header \ {b},
         \A c \in DOMAIN header2 : header2[c] = header[c]
  PROVE  Tiling(header2, b - 1)
<1> DEFINE S == DOMAIN header \ {b}
<1>0. top \in Nat
  BY DEF Tiling
<1>1. Slot(header, S, top, b, top)
  BY <1>0, HoleAtTop
<1>2. b \in Nat /\ b # 0 /\ Spaced(header, S, top)
  BY <1>1 DEF Slot
<1>3. ASSUME NEW c \in S
      PROVE  /\ c \in Nat /\ c # 0 /\ EndOf(header, c) \in Nat
             /\ c < EndOf(header, c) /\ EndOf(header, c) < b
             /\ EndOf(header2, c) = EndOf(header, c)
  <2>1. c \in Nat /\ c # 0 /\ EndOf(header, c) \in Nat /\ c < EndOf(header, c)
    BY <1>2, EndAbove DEF Spaced
  <2>2. EndOf(header, c) <= top
    BY <1>2 DEF Spaced
  <2>3. EndOf(header, c) < b
    BY <1>0, <1>1, <2>1, <2>2 DEF Slot
  <2> QED BY <2>1, <2>3 DEF EndOf
<1>4. Spaced(header2, S, b - 1)
  <2>1. \A c \in S : EndOf(header2, c) <= b - 1
    BY <1>2, <1>3
  <2> QED BY <1>2, <1>3, <2>1 DEF Spaced
<1>5. ASSUME NEW c \in S
      PROVE  /\ c = 1 \/ \E a \in S : EndOf(header2, a) + 1 = c
             /\ EndOf(header2, c) = b - 1 \/ EndOf(header2, c) + 1 \in S
  <2>1. c = 1 \/ c = top + 1 \/ \E a \in S : EndOf(header, a) + 1 = c
    BY <1>1 DEF Slot
  <2>2. \/ EndOf(header, c) = top \/ EndOf(header, c) + 1 = b
        \/ EndOf(header, c) + 1 \in S
    BY <1>1 DEF Slot
  <2>3. b <= top
    BY <1>0, <1>1 DEF Slot
  <2>4. c # top + 1 /\ EndOf(header, c) # top
    BY <1>0, <1>2, <1>3, <2>3
  <2> QED BY <1>2, <1>3, <2>1, <2>2, <2>4
<1>6. b - 1 = 0 \/ \E a \in S : EndOf(header2, a) = b - 1
  <2>1. b = 1 \/ \E a \in S : EndOf(header, a) + 1 = b
    BY <1>1 DEF Slot
  <2> QED BY <1>2, <1>3, <2>1
<1> QED BY <1>2, <1>4, <1>5, <1>6 DEF Tiling
=============================================================================
