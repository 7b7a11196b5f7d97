---------------------------- MODULE QueueLemmas ----------------------------
(***************************************************************************)
(* What insertion at the tail and removal of the head do to the elements   *)
(* of a queue.                                                             *)
(***************************************************************************)
EXTENDS Queues, SequenceTheorems, TLAPS

(* Insertion at the tail of a queue, element by element.                   *)
LEMMA AppendElements ==
  ASSUME NEW S, NEW q \in Seq(S), NEW e \in S
  PROVE  /\ Append(q, e) \in Seq(S)
         /\ Len(q) \in Nat /\ DOMAIN q = 1 .. Len(q)
         /\ DOMAIN Append(q, e) = 1 .. Len(q) + 1
         /\ \A i \in 1 .. Len(q) : Append(q, e)[i] = q[i]
         /\ Append(q, e)[Len(q) + 1] = e
  OBVIOUS

(* Removal of the head of a queue, element by element.                     *)
LEMMA TailElements ==
  ASSUME NEW S, NEW q \in Seq(S), q # <<>>
  PROVE  /\ Tail(q) \in Seq(S)
         /\ Head(q) \in S /\ Head(q) = q[1]
         /\ Len(q) \in Nat \ {0} /\ DOMAIN q = 1 .. Len(q)
         /\ DOMAIN Tail(q) = 1 .. Len(q) - 1
         /\ \A i \in 1 .. Len(q) - 1 : Tail(q)[i] = q[i + 1]
<1>1. /\ Tail(q) \in Seq(S) /\ Head(q) \in S
      /\ Len(Tail(q)) = Len(q) - 1
      /\ \A i \in 1 .. Len(Tail(q)) : Tail(q)[i] = q[i + 1]
  BY HeadTailProperties
<1>2. Len(q) \in Nat \ {0} /\ DOMAIN q = 1 .. Len(q)
  BY EmptySeq, LenProperties
<1>3. DOMAIN Tail(q) = 1 .. Len(Tail(q))
  BY <1>1, LenProperties
<1>4. Head(q) = q[1]
  BY <1>2
<1> QED
  BY <1>1, <1>2, <1>3, <1>4

(* An element that enters a queue: the queue gains that element only, and  *)
(* stays free of duplicates if it was and did not hold it.                 *)
LEMMA InAppend ==
  ASSUME NEW S, NEW q \in Seq(S), NEW e \in S
  PROVE  /\ \A t : In(t, Append(q, e)) <=> In(t, q) \/ t = e
         /\ Distinct(q) /\ ~In(e, q) => Distinct(Append(q, e))
<1> DEFINE a == Append(q, e)
<1>0. /\ Len(q) \in Nat /\ DOMAIN q = 1 .. Len(q)
      /\ DOMAIN a = 1 .. Len(q) + 1
      /\ \A i \in 1 .. Len(q) : a[i] = q[i]
      /\ a[Len(q) + 1] = e
  BY AppendElements
<1> HIDE DEF a
<1>1. ASSUME NEW t, In(t, a) PROVE In(t, q) \/ t = e
  BY <1>0, <1>1 DEF In
<1>2. ASSUME NEW t, In(t, q) PROVE In(t, a)
  BY <1>0, <1>2 DEF In
<1>3. In(e, a)
  BY <1>0 DEF In
<1>4. ASSUME Distinct(q), ~In(e, q) PROVE Distinct(a)
  BY <1>0, <1>4 DEF In, Distinct
<1> QED
  BY <1>1, <1>2, <1>3, <1>4 DEF a

(* A task that leaves the head of a queue without duplicates: the queue    *)
(* loses that task only.                                                   *)
LEMMA InTail ==
  ASSUME NEW S, NEW q \in Seq(S), q # <<>>, Distinct(q)
  PROVE  /\ In(Head(q), q) /\ ~In(Head(q), Tail(q))
         /\ \A t : In(t, Tail(q)) <=> In(t, q) /\ t # Head(q)
         /\ Distinct(Tail(q))
<1> DEFINE r == Tail(q)
<1> DEFINE h == Head(q)
<1>0. /\ h = q[1]
      /\ Len(q) \in Nat \ {0} /\ DOMAIN q = 1 .. Len(q)
      /\ DOMAIN r = 1 .. Len(q) - 1
      /\ \A i \in 1 .. Len(q) - 1 : r[i] = q[i + 1]
  BY TailElements
<1> HIDE DEF r, h
<1>1. In(h, q)
  BY <1>0 DEF In
<1>2. ASSUME NEW t, In(t, r) PROVE In(t, q) /\ t # h
  <2>1. PICK i \in 1 .. Len(q) - 1 : r[i] = t
    BY <1>0, <1>2 DEF In
  <2>2. i + 1 \in DOMAIN q /\ 1 \in DOMAIN q /\ q[i + 1] = t
    BY <1>0, <2>1
  <2> QED
    BY <1>0, <2>2 DEF In, Distinct
<1>3. ASSUME NEW t, In(t, q), t # h PROVE In(t, r)
  <2>1. PICK i \in 1 .. Len(q) : q[i] = t
    BY <1>0, <1>3 DEF In
  <2>2. i # 1
    BY <1>0, <1>3, <2>1
  <2>3. i - 1 \in 1 .. Len(q) - 1 /\ r[i - 1] = q[i]
    BY <1>0, <2>1, <2>2
  <2> QED
    BY <1>0, <2>1, <2>3 DEF In
<1>4. Distinct(r)
  <2> SUFFICES ASSUME NEW i \in DOMAIN r, NEW j \in DOMAIN r, r[i] = r[j]
               PROVE  i = j
    BY DEF Distinct
  <2>1. /\ i + 1 \in DOMAIN q /\ j + 1 \in DOMAIN q
        /\ q[i + 1] = q[j + 1]
    BY <1>0
  <2>2. i + 1 = j + 1
    BY <2>1 DEF Distinct
  <2> QED
    BY <1>0, <2>2
<1> QED
  BY <1>1, <1>2, <1>3, <1>4 DEF r, h
=============================================================================
