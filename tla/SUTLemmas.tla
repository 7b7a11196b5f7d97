------------------------------ MODULE SUTLemmas ------------------------------
(***************************************************************************)
(* What inserting at the tail and popping the head do to pairs of queues   *)
(* that are served in step.                                                *)
(***************************************************************************)
EXTENDS SUTInvariant, QueueLemmas

(* A new request and its task enter both queues.                           *)
LEMMA PairedAppend ==
  ASSUME NEW S, NEW F \in Seq(S), NEW G \in Seq(S), NEW e \in S,
         NEW I \in SUBSET DOMAIN F, NEW b \in BOOLEAN, NEW w,
         Paired(F, I, G, b, w), ~In(e, G)
  PROVE  Paired(Append(F, e), I \cup {Len(F) + 1}, Append(G, e), b, w)
<1> DEFINE F2 == Append(F, e)
<1> DEFINE G2 == Append(G, e)
<1> DEFINE I2 == I \cup {Len(F) + 1}
<1>0. /\ Len(F) \in Nat /\ DOMAIN F = 1 .. Len(F)
      /\ DOMAIN F2 = 1 .. Len(F) + 1
      /\ \A i \in 1 .. Len(F) : F2[i] = F[i]
      /\ F2[Len(F) + 1] = e
  BY AppendElements
<1>1. /\ Len(G) \in Nat /\ DOMAIN G = 1 .. Len(G)
      /\ DOMAIN G2 = 1 .. Len(G) + 1
      /\ \A i \in 1 .. Len(G) : G2[i] = G[i]
      /\ G2[Len(G) + 1] = e
  BY AppendElements
<1> HIDE DEF F2, G2
<1>2. \A k \in DOMAIN G : G[k] # e
  BY DEF In
<1>3. \A i \in I : F[i] # e
  BY <1>2 DEF Paired
<1>4. \A i \in I2 : \E k \in DOMAIN G2 : G2[k] = F2[i]
  BY <1>0, <1>1 DEF Paired
<1>5. \A k \in DOMAIN G2 : (\E i \in I2 : F2[i] = G2[k]) \/ (b /\ k = 1)
  <2> SUFFICES ASSUME NEW k \in DOMAIN G2, ~(b /\ k = 1)
               PROVE  \E i \in I2 : F2[i] = G2[k]
    OBVIOUS
  <2>1. CASE k = Len(G) + 1
    BY <1>0, <1>1, <2>1
  <2>2. CASE k \in DOMAIN G
    <3>1. PICK i \in I : F[i] = G[k]
      BY <2>2 DEF Paired
    <3> QED
      BY <1>0, <1>1, <2>2, <3>1
  <2> QED
    BY <1>1, <2>1, <2>2
<1>6. \A i, j \in I2 : \A k, l \in DOMAIN G2 :
         F2[i] = G2[k] /\ F2[j] = G2[l] => (i < j <=> k < l)
  <2> SUFFICES ASSUME NEW i \in I2, NEW j \in I2,
                      NEW k \in DOMAIN G2, NEW l \in DOMAIN G2,
                      F2[i] = G2[k], F2[j] = G2[l]
               PROVE  i < j <=> k < l
    OBVIOUS
  <2>1. \/ i \in I /\ k \in DOMAIN G
        \/ i = Len(F) + 1 /\ k = Len(G) + 1
    BY <1>0, <1>1, <1>2, <1>3
  <2>2. \/ j \in I /\ l \in DOMAIN G
        \/ j = Len(F) + 1 /\ l = Len(G) + 1
    BY <1>0, <1>1, <1>2, <1>3
  <2>3. CASE i \in I /\ k \in DOMAIN G /\ j \in I /\ l \in DOMAIN G
    BY <1>0, <1>1, <2>3 DEF Paired
  <2>4. CASE i = Len(F) + 1 /\ k = Len(G) + 1
    BY <1>0, <1>1, <2>2, <2>4
  <2>5. CASE /\ i \in I /\ k \in DOMAIN G
             /\ j = Len(F) + 1 /\ l = Len(G) + 1
    BY <1>0, <1>1, <2>5
  <2> QED
    BY <2>1, <2>2, <2>3, <2>4, <2>5
<1>7. b => /\ G2 # <<>> /\ G2[1] = w
           /\ \A i \in I2 : F2[i] # w
  <2> SUFFICES ASSUME b
               PROVE  G2 # <<>> /\ G2[1] = w /\ \A i \in I2 : F2[i] # w
    OBVIOUS
  <2>1. G # <<>> /\ G[1] = w /\ \A i \in I : F[i] # w
    BY DEF Paired
  <2>2. 1 \in DOMAIN G
    BY <1>1, <2>1, EmptySeq
  <2>3. w # e
    BY <1>2, <2>1, <2>2
  <2>4. G2 # <<>> /\ G2[1] = w
    BY <1>1, <2>1, <2>2
  <2> QED
    BY <1>0, <2>1, <2>3, <2>4
<1> QED
  BY <1>4, <1>5, <1>6, <1>7 DEF Paired, F2, G2

(* Something that asks for nobody enters the first queue.                  *)
LEMMA PairedSkip ==
  ASSUME NEW S, NEW F \in Seq(S), NEW G, NEW e \in S,
         NEW I \in SUBSET DOMAIN F, NEW b \in BOOLEAN, NEW w,
         Paired(F, I, G, b, w)
  PROVE  Paired(Append(F, e), I, G, b, w)
<1> DEFINE F2 == Append(F, e)
<1>1. \A i \in I : F2[i] = F[i]
  BY AppendElements
<1> HIDE DEF F2
<1>2. Paired(F2, I, G, b, w)
  BY <1>1 DEF Paired
<1> QED
  BY <1>2 DEF F2

(* A request whose task waits leaves the head of the first queue: its task *)
(* is the one at the head of the second.                                   *)
LEMMA PairedPop ==
  ASSUME NEW S, NEW F \in Seq(S), NEW G \in Seq(S), F # <<>>,
         NEW I \in SUBSET DOMAIN F, 1 \in I, NEW w, NEW I2,
         I2 = {i \in DOMAIN Tail(F) : i + 1 \in I},
         Paired(F, I, G, FALSE, w)
  PROVE  Paired(Tail(F), I2, G, TRUE, Head(F))
<1> DEFINE F2 == Tail(F)
<1> DEFINE h == Head(F)
<1>0. /\ h = F[1]
      /\ Len(F) \in Nat \ {0} /\ DOMAIN F = 1 .. Len(F)
      /\ DOMAIN F2 = 1 .. Len(F) - 1
      /\ \A i \in 1 .. Len(F) - 1 : F2[i] = F[i + 1]
  BY TailElements
<1>1. Len(G) \in Nat /\ DOMAIN G = 1 .. Len(G)
  BY LenProperties
<1>2. I2 = {i \in DOMAIN F2 : i + 1 \in I}
  OBVIOUS
<1> HIDE DEF F2, h
<1>3. \A i \in I2 : i \in Nat /\ i + 1 \in I /\ F2[i] = F[i + 1]
  BY <1>0, <1>2
<1>4. \A i \in I : i # 1 => i \in Nat /\ i - 1 \in I2 /\ F2[i - 1] = F[i]
  <2> SUFFICES ASSUME NEW i \in I, i # 1
               PROVE  i \in Nat /\ i - 1 \in I2 /\ F2[i - 1] = F[i]
    OBVIOUS
  <2>1. i - 1 \in 1 .. Len(F) - 1 /\ (i - 1) + 1 = i
    BY <1>0
  <2> QED
    BY <1>0, <1>2, <2>1
<1>5. G # <<>> /\ G[1] = h
  <2>1. PICK k \in DOMAIN G : G[k] = F[1]
    BY DEF Paired
  <2>2. 1 \in DOMAIN G /\ 1 <= k
    BY <1>1, <2>1
  <2>3. PICK j \in I : F[j] = G[1]
    BY <2>2 DEF Paired
  <2>4. 1 < j <=> k < 1
    BY <2>1, <2>2, <2>3 DEF Paired
  <2>5. j = 1
    BY <1>0, <1>1, <2>2, <2>3, <2>4
  <2> QED
    BY <1>0, <1>1, <2>2, <2>3, <2>5
<1>6. \A i \in I2 : F2[i] # h
  <2> SUFFICES ASSUME NEW i \in I2, F2[i] = h
               PROVE  FALSE
    OBVIOUS
  <2>1. i + 1 \in I /\ F[i + 1] = G[1] /\ F[1] = G[1]
    BY <1>0, <1>3, <1>5
  <2>2. 1 \in DOMAIN G
    BY <1>1, <1>5, EmptySeq
  <2>3. 1 < i + 1 <=> 1 < 1
    BY <2>1, <2>2 DEF Paired
  <2> QED
    BY <1>3, <2>3
<1>7. \A i \in I2 : \E k \in DOMAIN G : G[k] = F2[i]
  BY <1>3 DEF Paired
<1>8. \A k \in DOMAIN G : (\E i \in I2 : F2[i] = G[k]) \/ k = 1
  <2> SUFFICES ASSUME NEW k \in DOMAIN G, k # 1
               PROVE  \E i \in I2 : F2[i] = G[k]
    OBVIOUS
  <2>1. PICK j \in I : F[j] = G[k]
    BY DEF Paired
  <2>2. 1 \in DOMAIN G /\ F[1] = G[1]
    BY <1>0, <1>1, <1>5
  <2>3. 1 < j <=> 1 < k
    BY <2>1, <2>2 DEF Paired
  <2>4. j # 1
    BY <1>1, <2>3
  <2> QED
    BY <1>4, <2>1, <2>4
<1>9. \A i, j \in I2 : \A k, l \in DOMAIN G :
        F2[i] = G[k] /\ F2[j] = G[l] => (i < j <=> k < l)
  <2> SUFFICES ASSUME NEW i \in I2, NEW j \in I2,
                      NEW k \in DOMAIN G, NEW l \in DOMAIN G,
                      F2[i] = G[k], F2[j] = G[l]
               PROVE  i < j <=> k < l
    OBVIOUS
  <2>0. /\ i + 1 \in I /\ F[i + 1] = G[k]
        /\ j + 1 \in I /\ F[j + 1] = G[l]
    BY <1>3
  <2>1. \A m, n \in I : F[m] = G[k] /\ F[n] = G[l] => (m < n <=> k < l)
    BY DEF Paired
  <2>2. i + 1 < j + 1 <=> k < l
    BY <2>0, <2>1
  <2> QED
    BY <1>3, <2>2
<1> QED
  BY <1>5, <1>6, <1>7, <1>8, <1>9 DEF Paired, F2, h

(* A request that asks for nobody leaves the head of the first queue.      *)
LEMMA PairedPopOther ==
  ASSUME NEW S, NEW F \in Seq(S), NEW G \in Seq(S), F # <<>>,
         NEW I \in SUBSET DOMAIN F, 1 \notin I, NEW b \in BOOLEAN, NEW w,
         NEW I2, I2 = {i \in DOMAIN Tail(F) : i + 1 \in I},
         Paired(F, I, G, b, w)
  PROVE  Paired(Tail(F), I2, G, b, w)
<1> DEFINE F2 == Tail(F)
<1>0. /\ Len(F) \in Nat \ {0} /\ DOMAIN F = 1 .. Len(F)
      /\ DOMAIN F2 = 1 .. Len(F) - 1
      /\ \A i \in 1 .. Len(F) - 1 : F2[i] = F[i + 1]
  BY TailElements
<1>2. I2 = {i \in DOMAIN F2 : i + 1 \in I}
  OBVIOUS
<1> HIDE DEF F2
<1>3. \A i \in I2 : i \in Nat /\ i + 1 \in I /\ F2[i] = F[i + 1]
  BY <1>0, <1>2
<1>4. \A i \in I : i \in Nat /\ i - 1 \in I2 /\ F2[i - 1] = F[i]
  <2> SUFFICES ASSUME NEW i \in I
               PROVE  i \in Nat /\ i - 1 \in I2 /\ F2[i - 1] = F[i]
    OBVIOUS
  <2>1. i - 1 \in 1 .. Len(F) - 1 /\ (i - 1) + 1 = i
    BY <1>0
  <2> QED
    BY <1>0, <1>2, <2>1
<1>5. \A i \in I2 : \E k \in DOMAIN G : G[k] = F2[i]
  BY <1>3 DEF Paired
<1>6. \A k \in DOMAIN G : (\E i \in I2 : F2[i] = G[k]) \/ (b /\ k = 1)
  <2> SUFFICES ASSUME NEW k \in DOMAIN G, ~(b /\ k = 1)
               PROVE  \E i \in I2 : F2[i] = G[k]
    OBVIOUS
  <2>1. PICK j \in I : F[j] = G[k]
    BY DEF Paired
  <2> QED
    BY <1>4, <2>1
<1>7. \A i, j \in I2 : \A k, l \in DOMAIN G :
        F2[i] = G[k] /\ F2[j] = G[l] => (i < j <=> k < l)
  <2> SUFFICES ASSUME NEW i \in I2, NEW j \in I2,
                      NEW k \in DOMAIN G, NEW l \in DOMAIN G,
                      F2[i] = G[k], F2[j] = G[l]
               PROVE  i < j <=> k < l
    OBVIOUS
  <2>0. /\ i + 1 \in I /\ F[i + 1] = G[k]
        /\ j + 1 \in I /\ F[j + 1] = G[l]
    BY <1>3
  <2>1. \A m, n \in I : F[m] = G[k] /\ F[n] = G[l] => (m < n <=> k < l)
    BY DEF Paired
  <2>2. i + 1 < j + 1 <=> k < l
    BY <2>0, <2>1
  <2> QED
    BY <1>3, <2>2
<1>8. b => G # <<>> /\ G[1] = w /\ \A i \in I2 : F2[i] # w
  BY <1>3 DEF Paired
<1> QED
  BY <1>5, <1>6, <1>7, <1>8 DEF Paired, F2

(* The task whose request was being served leaves the head of the second.  *)
LEMMA PairedDone ==
  ASSUME NEW S, NEW F, NEW G \in Seq(S), NEW I \in SUBSET Nat,
         NEW w, NEW w2, Paired(F, I, G, TRUE, w)
  PROVE  Paired(F, I, Tail(G), FALSE, w2)
<1> DEFINE G2 == Tail(G)
<1>1. G # <<>> /\ G[1] = w /\ \A i \in I : F[i] # w
  BY DEF Paired
<1>2. /\ Len(G) \in Nat \ {0} /\ DOMAIN G = 1 .. Len(G)
      /\ DOMAIN G2 = 1 .. Len(G) - 1
      /\ \A k \in 1 .. Len(G) - 1 : G2[k] = G[k + 1]
  BY <1>1, TailElements
<1> HIDE DEF G2
<1>3. \A k \in DOMAIN G2 : /\ k \in Nat /\ k + 1 \in DOMAIN G /\ k + 1 # 1
                          /\ G2[k] = G[k + 1]
  BY <1>2
<1>4. \A i \in I : \E k \in DOMAIN G2 : G2[k] = F[i]
  <2> SUFFICES ASSUME NEW i \in I
               PROVE  \E k \in DOMAIN G2 : G2[k] = F[i]
    OBVIOUS
  <2>1. PICK k \in DOMAIN G : G[k] = F[i]
    BY DEF Paired
  <2>2. k # 1
    BY <1>1, <2>1
  <2>3. k - 1 \in DOMAIN G2 /\ G2[k - 1] = G[k]
    BY <1>2, <2>1, <2>2
  <2> QED
    BY <2>1, <2>3
<1>5. \A k \in DOMAIN G2 : \E i \in I : F[i] = G2[k]
  BY <1>3 DEF Paired
<1>6. \A i, j \in I : \A k, l \in DOMAIN G2 :
        F[i] = G2[k] /\ F[j] = G2[l] => (i < j <=> k < l)
  <2> SUFFICES ASSUME NEW i \in I, NEW j \in I,
                      NEW k \in DOMAIN G2, NEW l \in DOMAIN G2,
                      F[i] = G2[k], F[j] = G2[l]
               PROVE  i < j <=> k < l
    OBVIOUS
  <2>1. i < j <=> k + 1 < l + 1
    BY <1>3 DEF Paired
  <2> QED
    BY <1>3, <2>1
<1> QED
  BY <1>4, <1>5, <1>6 DEF Paired, G2

(* While nobody is served it does not matter who was.                      *)
LEMMA PairedIdle ==
  ASSUME NEW F, NEW I, NEW G, NEW w, NEW w2, Paired(F, I, G, FALSE, w)
  PROVE  Paired(F, I, G, FALSE, w2)
  BY DEF Paired
-----------------------------------------------------------------------------
(* The tasks of requests, and the requests that block, as requests come    *)
(* and go.                                                                 *)
LEMMA OwnersType ==
  ASSUME NEW q \in Seq(Request)
  PROVE  /\ Owners(q) \in Seq(Tasks)
         /\ DOMAIN Owners(q) = DOMAIN q /\ Len(Owners(q)) = Len(q)
         /\ \A i \in DOMAIN q : Owners(q)[i] = q[i].task
         /\ BlockingIn(q) \in SUBSET DOMAIN Owners(q)
<1>1. /\ Len(q) \in Nat /\ DOMAIN q = 1 .. Len(q)
      /\ \A i \in 1 .. Len(q) : q[i] \in Request
  BY LenProperties, ElementOfSeq
<1>2. \A i \in 1 .. Len(q) : q[i].task \in Tasks
  BY <1>1 DEF Request
<1>3. Owners(q) = [i \in 1 .. Len(q) |-> q[i].task]
  BY <1>1 DEF Owners
<1>4. Owners(q) \in Seq(Tasks) /\ Len(Owners(q)) = Len(q)
  BY <1>1, <1>2, <1>3
<1> QED
  BY <1>1, <1>3, <1>4 DEF BlockingIn

(* A request is added.                                                     *)
LEMMA OwnersAppend ==
  ASSUME NEW q \in Seq(Request), NEW r \in Request
  PROVE  /\ Owners(Append(q, r)) = Append(Owners(q), r.task)
         /\ BlockingIn(Append(q, r)) =
               BlockingIn(q) \cup IF Blocking(r) THEN {Len(q) + 1} ELSE {}
<1> DEFINE q2 == Append(q, r)
<1> DEFINE o == Owners(q)
<1>1. /\ q2 \in Seq(Request)
      /\ Len(q) \in Nat /\ DOMAIN q = 1 .. Len(q)
      /\ DOMAIN q2 = 1 .. Len(q) + 1
      /\ \A i \in 1 .. Len(q) : q2[i] = q[i]
      /\ q2[Len(q) + 1] = r
  BY AppendElements
<1>2. o \in Seq(Tasks) /\ Len(o) = Len(q) /\ r.task \in Tasks
      /\ \A i \in DOMAIN q : o[i] = q[i].task
  BY OwnersType DEF Request
<1>3. /\ DOMAIN Append(o, r.task) = 1 .. Len(q) + 1
      /\ \A i \in 1 .. Len(q) : Append(o, r.task)[i] = o[i]
      /\ Append(o, r.task)[Len(q) + 1] = r.task
      /\ Append(o, r.task) \in Seq(Tasks)
  BY <1>2, AppendElements
<1>4. Len(Append(o, r.task)) = Len(q) + 1 /\ Len(q2) = Len(q) + 1
  BY <1>1, <1>2
<1> HIDE DEF q2, o
<1>5. /\ Owners(q2) \in Seq(Tasks) /\ Len(Owners(q2)) = Len(q) + 1
      /\ \A i \in DOMAIN q2 : Owners(q2)[i] = q2[i].task
  BY <1>1, <1>4, OwnersType
<1>6. Owners(q2) = Append(o, r.task)
  <2>1. ASSUME NEW i \in 1 .. Len(q) + 1
        PROVE  Owners(q2)[i] = Append(o, r.task)[i]
    <3>1. CASE i = Len(q) + 1
      BY <1>1, <1>3, <1>5, <3>1
    <3>2. CASE i \in 1 .. Len(q)
      <4>1. i \in DOMAIN q /\ i \in DOMAIN q2
        BY <1>1, <3>2
      <4>2. Owners(q2)[i] = q2[i].task /\ q2[i] = q[i]
        BY <1>1, <1>5, <3>2, <4>1
      <4>3. Append(o, r.task)[i] = o[i] /\ o[i] = q[i].task
        BY <1>2, <1>3, <3>2, <4>1
      <4> QED
        BY <4>2, <4>3
    <3>3. i = Len(q) + 1 \/ i \in 1 .. Len(q)
      BY <1>1
    <3> QED
      BY <3>1, <3>2, <3>3
  <2> QED
    BY <1>1, <1>3, <1>4, <1>5, <2>1, SeqEqual
<1>7. BlockingIn(q2) =
        BlockingIn(q) \cup IF Blocking(r) THEN {Len(q) + 1} ELSE {}
  BY <1>1 DEF BlockingIn
<1> QED
  BY <1>6, <1>7 DEF q2, o

(* The head request is removed.                                            *)
LEMMA OwnersTail ==
  ASSUME NEW q \in Seq(Request), q # <<>>
  PROVE  /\ Owners(q) # <<>>
         /\ Owners(Tail(q)) = Tail(Owners(q))
         /\ Head(Owners(q)) = Head(q).task
         /\ 1 \in BlockingIn(q) <=> Blocking(Head(q))
         /\ BlockingIn(Tail(q)) =
               {i \in DOMAIN Tail(Owners(q)) : i + 1 \in BlockingIn(q)}
<1> DEFINE q2 == Tail(q)
<1> DEFINE o == Owners(q)
<1>1. /\ q2 \in Seq(Request)
      /\ Head(q) = q[1]
      /\ Len(q) \in Nat \ {0} /\ DOMAIN q = 1 .. Len(q)
      /\ DOMAIN q2 = 1 .. Len(q) - 1
      /\ \A i \in 1 .. Len(q) - 1 : q2[i] = q[i + 1]
  BY TailElements
<1>2. /\ o \in Seq(Tasks) /\ Len(o) = Len(q)
      /\ \A i \in DOMAIN q : o[i] = q[i].task
  BY OwnersType
<1>3. o # <<>>
  BY <1>1, <1>2, EmptySeq
<1>4. /\ Tail(o) \in Seq(Tasks)
      /\ Head(o) = o[1]
      /\ DOMAIN Tail(o) = 1 .. Len(q) - 1
      /\ \A i \in 1 .. Len(q) - 1 : Tail(o)[i] = o[i + 1]
  BY <1>2, <1>3, TailElements
<1>5. Len(Tail(o)) = Len(q) - 1 /\ Len(q2) = Len(q) - 1
  BY <1>1, <1>2, <1>3, HeadTailProperties
<1> HIDE DEF q2, o
<1>6. /\ Owners(q2) \in Seq(Tasks) /\ Len(Owners(q2)) = Len(q) - 1
      /\ \A i \in DOMAIN q2 : Owners(q2)[i] = q2[i].task
  BY <1>1, <1>5, OwnersType
<1>7. Owners(q2) = Tail(o)
  <2>1. ASSUME NEW i \in 1 .. Len(q) - 1
        PROVE  Owners(q2)[i] = Tail(o)[i]
    <3>1. i \in DOMAIN q2 /\ i + 1 \in DOMAIN q
      BY <1>1
    <3>2. Owners(q2)[i] = q2[i].task /\ q2[i] = q[i + 1]
      BY <1>1, <1>6, <3>1
    <3>3. Tail(o)[i] = o[i + 1] /\ o[i + 1] = q[i + 1].task
      BY <1>2, <1>4, <3>1
    <3> QED
      BY <3>2, <3>3
  <2> QED
    BY <1>4, <1>5, <1>6, <2>1, SeqEqual
<1>8. Head(o) = Head(q).task
  BY <1>1, <1>2, <1>4
<1>9. 1 \in BlockingIn(q) <=> Blocking(Head(q))
  BY <1>1 DEF BlockingIn
<1>10. BlockingIn(q2) = {i \in DOMAIN Tail(o) : i + 1 \in BlockingIn(q)}
  BY <1>1, <1>4 DEF BlockingIn
<1> QED
  BY <1>3, <1>7, <1>8, <1>9, <1>10 DEF q2, o

(* The readers of a queue, as tasks come and go.                           *)
LEMMA ReadersAppend ==
  ASSUME NEW q \in Seq(Tasks), NEW t \in Tasks
  PROVE  ReadersIn(Append(q, t)) =
           ReadersIn(q) \cup IF reading[t] THEN {Len(q) + 1} ELSE {}
<1> DEFINE q2 == Append(q, t)
<1>1. /\ Len(q) \in Nat /\ DOMAIN q = 1 .. Len(q)
      /\ DOMAIN q2 = 1 .. Len(q) + 1
      /\ \A i \in 1 .. Len(q) : q2[i] = q[i]
      /\ q2[Len(q) + 1] = t
  BY AppendElements
<1> HIDE DEF q2
<1>2. ReadersIn(q2) =
        ReadersIn(q) \cup IF reading[t] THEN {Len(q) + 1} ELSE {}
  BY <1>1 DEF ReadersIn
<1> QED
  BY <1>2 DEF q2

(* The head task is removed.                                               *)
LEMMA ReadersTail ==
  ASSUME NEW q \in Seq(Tasks), q # <<>>
  PROVE  /\ 1 \in ReadersIn(q) <=> reading[Head(q)]
         /\ ReadersIn(Tail(q)) =
               {i \in DOMAIN Tail(q) : i + 1 \in ReadersIn(q)}
<1> DEFINE q2 == Tail(q)
<1>1. /\ Head(q) = q[1]
      /\ Len(q) \in Nat \ {0} /\ DOMAIN q = 1 .. Len(q)
      /\ DOMAIN q2 = 1 .. Len(q) - 1
      /\ \A i \in 1 .. Len(q) - 1 : q2[i] = q[i + 1]
  BY TailElements
<1> HIDE DEF q2
<1>2. 1 \in ReadersIn(q) <=> reading[Head(q)]
  BY <1>1 DEF ReadersIn
<1>3. ReadersIn(q2) = {i \in DOMAIN q2 : i + 1 \in ReadersIn(q)}
  BY <1>1 DEF ReadersIn
<1> QED
  BY <1>2, <1>3 DEF q2
=============================================================================
