----------------------------- MODULE RPCProofs -----------------------------
(***************************************************************************)
(* Proofs about the remote procedure call service, for every finite set of *)
(* clients and every value of the bounds.                                  *)
(***************************************************************************)
EXTENDS RPCInvariant, QueueLemmas, FiniteSetTheorems

(* Every step is one of the actions.                                       *)
LEMMA Steps ==
  ASSUME [Next]_vars
  PROVE  \/ PAccept \/ PFork \/ PNoReturn \/ PTest \/ PWait \/ PExit
         \/ \E k \in Kids : \/ PReturn(k) \/ KRecv(k) \/ KCheck(k)
                            \/ KSend(k) \/ KSendLost(k) \/ KAborts(k)
                            \/ KDecide(k)
         \/ \E c \in Clients : \/ CConnect(c) \/ CReply(c) \/ CLost(c)
                               \/ CInterrupted(c) \/ CEndOfInput(c)
                               \/ \E line \in Typed : CType(c, line)
         \/ UNCHANGED vars
BY DEF Next, Parent, Child, Client, ClientTypes, Quiet

-----------------------------------------------------------------------------
(* The children not waited for yet: a finite set that a fork enlarges, a   *)
(* wait diminishes, and the children's own steps leave alone.              *)
LEMMA UnreapedCount ==
  /\ IsFiniteSet(Unreaped) /\ Cardinality(Unreaped) \in Nat
  /\ IsFiniteSet(Unreaped') /\ Cardinality(Unreaped') \in Nat
<1>1. IsFiniteSet(Kids)
  BY ClientsAssumption, FS_AddElement, FS_Union, FS_Singleton DEF Kids
<1>2. Unreaped \subseteq Kids
  BY DEF Unreaped, Running, Zombies
<1>3. Unreaped' \subseteq Kids
  BY DEF Unreaped, Running, Zombies
<1> QED
  BY <1>1, <1>2, <1>3, FS_Subset, FS_CardinalityType

(* A child that moves on inside its loop, or ends, stays uncollected.      *)
LEMMA ChildWorks ==
  ASSUME kid \in [Kids -> {"none", "recv", "check", "send", "decide",
                           "zombie", "reaped"}],
         NEW k \in Kids, k \in Running,
         NEW v \in {"recv", "check", "send", "decide", "zombie"},
         kid' = [kid EXCEPT ![k] = v]
  PROVE  Unreaped' = Unreaped
BY DEF Unreaped, Running, Zombies

(* waitpid() takes one child out of the uncollected ones.                  *)
LEMMA ChildCollected ==
  ASSUME kid \in [Kids -> {"none", "recv", "check", "send", "decide",
                           "zombie", "reaped"}],
         NEW k \in Zombies, Collect(k)
  PROVE  /\ Cardinality(Unreaped') = Cardinality(Unreaped) - 1
         /\ Cardinality(Unreaped) > 0
<1>1. k \in Kids /\ kid[k] = "zombie" /\ kid' = [kid EXCEPT ![k] = "reaped"]
  BY DEF Zombies, Collect
<1>2. k \in Unreaped
  BY DEF Unreaped
<1>3. Unreaped' = Unreaped \ {k}
  BY <1>1 DEF Unreaped, Running, Zombies
<1>4. Cardinality(Unreaped \ {k}) = Cardinality(Unreaped) - 1
  BY <1>2, UnreapedCount, FS_RemoveElement
<1>5. Cardinality(Unreaped \ {k}) \in Nat
  BY <1>3, UnreapedCount
<1> QED
  BY <1>3, <1>4, <1>5, UnreapedCount

(* fork() adds one child at most.                                          *)
LEMMA ChildForked ==
  ASSUME kid \in [Kids -> {"none", "recv", "check", "send", "decide",
                           "zombie", "reaped"}],
         NEW k \in Kids, kid' = [kid EXCEPT ![k] = "recv"]
  PROVE  Cardinality(Unreaped') <= Cardinality(Unreaped) + 1
<1>1. Unreaped' = Unreaped \cup {k}
  BY DEF Unreaped, Running, Zombies
<1>2. Cardinality(Unreaped \cup {k}) \in
        {Cardinality(Unreaped), Cardinality(Unreaped) + 1}
  BY UnreapedCount, FS_AddElement
<1> QED
  BY <1>1, <1>2, UnreapedCount

-----------------------------------------------------------------------------
(* The initial values have their types.                                    *)
LEMMA InitTypes == Init => TypeOK
<1> USE BoundsAssumption
<1> SUFFICES ASSUME Init PROVE TypeOK
  OBVIOUS
<1>1. /\ pPc = "accept" /\ accepted \in Kids
      /\ childNum \in Nat /\ loopLeft \in Nat
      /\ quitFlag \in BOOLEAN /\ listening \in BOOLEAN
      /\ backlog = <<>> /\ conns \in SUBSET Kids
  BY DEF Init, Kids
<1>2. /\ kid \in [Kids -> {"none"}] /\ command \in [Kids -> {"none"}]
      /\ reply \in [Kids -> {"none"}] /\ status \in [Kids -> {"none"}]
      /\ reset \in [Kids -> BOOLEAN]
  BY DEF Init
<1>3. /\ stage \in [Clients -> {"away"}] /\ typed \in [Clients -> {"none"}]
      /\ calls \in [Clients -> 0 .. MaxCalls]
      /\ inbox \in [Clients -> Seq(Lines)]
      /\ outbox \in [Clients -> Seq(Replies \cup {"rest"})]
      /\ longSent \in [Clients -> BOOLEAN]
  BY DEF Init
<1> QED
  BY <1>1, <1>2, <1>3 DEF TypeOK, Replies

(* The beginning of a stream taken, pieces of the same kinds are left.     *)
LEMMA SuffixType ==
  ASSUME NEW S, NEW q \in Seq(S), NEW n \in Nat
  PROVE  SubSeq(q, n + 1, Len(q)) \in Seq(S)
<1>1. Len(q) \in Nat /\ n + 1 \in Int /\ \A i \in n + 1 .. Len(q) : q[i] \in S
  BY LenProperties, ElementOfSeq
<1> QED
  BY <1>1, SubSeqProperties

(* recv shortens the stream of its own client only, whose frontend leaves  *)
(* or goes on.                                                             *)
LEMMA RecvTakes ==
  ASSUME TypeOK, NEW c \in Clients, CReply(c)
  PROVE  /\ \E q \in Seq(Replies \cup {"rest"}) :
              outbox' = [outbox EXCEPT ![c] = q]
         /\ \E st \in {"left", "prompt", "stuck"} :
              stage' = [stage EXCEPT ![c] = st]
<1> DEFINE Pieces == Replies \cup {"rest"}
<1>1. outbox[c] \in Seq(Pieces)
  BY DEF TypeOK
<1>2. PICK n \in 0 .. Len(outbox[c]) : TakesWhole(c, n) \/ TakesPart(c, n)
  BY DEF CReply
<1>3. ASSUME NEW q \in Seq(Pieces), NEW refused, GoesOn(c, q, refused)
      PROVE  /\ \E t \in Seq(Pieces) : outbox' = [outbox EXCEPT ![c] = t]
             /\ \E st \in {"left", "prompt", "stuck"} :
                  stage' = [stage EXCEPT ![c] = st]
  <2>1. <<>> \in Seq(Pieces)
    BY EmptySeq
  <2> DEFINE leaves == Leaves(typed[c]) \/ refused
  <2>2. CASE leaves
    <3>1. /\ outbox' = [outbox EXCEPT ![c] = <<>>]
          /\ stage' = [stage EXCEPT ![c] = "left"]
      BY <1>3, <2>2 DEF GoesOn
    <3> QED
      BY <2>1, <3>1
  <2>3. CASE ~leaves
    <3>1. /\ outbox' = [outbox EXCEPT ![c] = q]
          /\ stage' = [stage EXCEPT ![c] = IF stage[c] = "stuck" THEN stage[c]
                                                                ELSE "prompt"]
      BY <1>3, <2>3 DEF GoesOn
    <3>2. CASE stage[c] = "stuck"
      BY <3>1, <3>2
    <3>3. CASE stage[c] # "stuck"
      BY <3>1, <3>3
    <3> QED
      BY <3>2, <3>3
  <2> QED
    BY <2>2, <2>3
<1>4. CASE TakesWhole(c, n)
  <2>1. SubSeq(outbox[c], n + 1, Len(outbox[c])) \in Seq(Pieces)
    BY <1>1, <1>2, SuffixType
  <2> QED
    BY <1>3, <1>4, <2>1 DEF TakesWhole
<1>5. CASE TakesPart(c, n)
  <2>1. PICK rest \in {"rest", "long"} :
          GoesOn(c, <<rest>> \o SubSeq(outbox[c], n + 2, Len(outbox[c])), FALSE)
    BY <1>5 DEF TakesPart
  <2>2. n + 1 \in Nat /\ n + 2 = (n + 1) + 1
    BY <1>2
  <2>3. SubSeq(outbox[c], n + 2, Len(outbox[c])) \in Seq(Pieces)
    BY <1>1, <2>2, SuffixType
  <2>4. <<rest>> \in Seq(Pieces)
    BY DEF Replies
  <2>5. <<rest>> \o SubSeq(outbox[c], n + 2, Len(outbox[c])) \in Seq(Pieces)
    BY <2>3, <2>4, ConcatProperties
  <2> QED
    BY <1>3, <2>1, <2>5
<1> QED
  BY <1>2, <1>4, <1>5

(* Every step keeps the types.  That child_num stays a natural number in   *)
(* the loop needs ChildrenCounted.                                         *)
LEMMA StepTypes == TypeOK /\ ChildrenCounted /\ [Next]_vars => TypeOK'
<1> USE BoundsAssumption, TypedAssumption
<1> SUFFICES ASSUME TypeOK, ChildrenCounted, [Next]_vars PROVE TypeOK'
  OBVIOUS
<1> USE DEF TypeOK, Replies, parentVars, kidVars, clientVars, wires
<1>1. CASE PAccept
  <2>1. CASE Cardinality(conns) < FdLimit
    <3>1. backlog # <<>> /\ accepted' = Head(backlog)
            /\ backlog' = Tail(backlog) /\ conns' = conns \cup {Head(backlog)}
      BY <1>1, <2>1 DEF PAccept
    <3>2. Head(backlog) \in Clients /\ Tail(backlog) \in Seq(Clients)
      BY <3>1, HeadTailProperties
    <3> QED
      BY <1>1, <3>1, <3>2 DEF PAccept, Kids
  <2>2. CASE ~(Cardinality(conns) < FdLimit)
    BY <1>1, <2>2 DEF PAccept, Kids
  <2> QED
    BY <2>1, <2>2
<1>2. CASE PFork
  BY <1>2 DEF PFork
<1>3. CASE PNoReturn
  BY <1>3 DEF PNoReturn
<1>4. ASSUME NEW k \in Kids, PReturn(k) PROVE TypeOK'
  <2>1. Cardinality(Unreaped) > 0
    BY <1>4, ChildCollected DEF PReturn, Zombies
  <2>2. childNum - 1 \in Nat
    BY <2>1, UnreapedCount DEF ChildrenCounted
  <2>3. childNum' \in Nat /\ loopLeft' \in Nat /\ quitFlag' \in BOOLEAN
    BY <1>4, <2>2 DEF PReturn
  <2> QED
    BY <1>4, <2>3 DEF PReturn, Collect
<1>5. CASE PTest
  <2>1. pPc' \in {"accept", "wait"} /\ listening' \in BOOLEAN
    BY <1>5 DEF PTest
  <2>2. backlog' = <<>> \/ backlog' = backlog
    BY <1>5 DEF PTest
  <2>3. backlog' \in Seq(Clients)
    BY <2>2, EmptySeq
  <2>4. UNCHANGED <<accepted, childNum, loopLeft, quitFlag, conns, kidVars,
                    clientVars, wires>>
    BY <1>5 DEF PTest
  <2> QED
    BY <2>1, <2>3, <2>4
<1>6. CASE PWait
  <2>1. childNum' \in Nat
    BY <1>6 DEF PWait
  <2>2. kid' \in [Kids -> {"none", "recv", "check", "send", "decide",
                            "zombie", "reaped"}]
    BY <1>6 DEF PWait, Collect
  <2> QED
    BY <1>6, <2>1, <2>2 DEF PWait
<1>7. CASE PExit
  BY <1>7 DEF PExit
<1>8. ASSUME NEW k \in Kids, KRecv(k) PROVE TypeOK'
  <2>1. CASE k \in Clients /\ inbox[k] # <<>>
                /\ command' = [command EXCEPT ![k] = Command(Head(inbox[k]))]
                /\ \E n \in 1 .. Len(inbox[k]) :
                     inbox' = [inbox EXCEPT ![k] = SubSeq(@, n + 1, Len(@))]
    <3>1. inbox[k] \in Seq(Lines) /\ Head(inbox[k]) \in Lines
      BY <2>1, HeadTailProperties
    <3>2. Command(Head(inbox[k])) \in {"call", "long", "exit", "quit"}
      BY <3>1 DEF Command, Lines
    <3>3. PICK n \in 1 .. Len(inbox[k]) :
            inbox' = [inbox EXCEPT ![k] = SubSeq(@, n + 1, Len(@))]
      BY <2>1
    <3>4. SubSeq(inbox[k], n + 1, Len(inbox[k])) \in Seq(Lines)
      BY <3>1, SuffixType
    <3>5. inbox' \in [Clients -> Seq(Lines)]
      BY <3>3, <3>4
    <3> QED
      BY <1>8, <2>1, <3>2, <3>5 DEF KRecv
  <2>2. CASE command' = [command EXCEPT ![k] = "call"] /\ UNCHANGED inbox
    BY <1>8, <2>2 DEF KRecv
  <2> QED
    BY <1>8, <2>1, <2>2 DEF KRecv
<1>9. ASSUME NEW k \in Kids, KCheck(k) PROVE TypeOK'
  BY <1>9 DEF KCheck, Answer
<1>10. ASSUME NEW k \in Kids, KSend(k) PROVE TypeOK'
  <2>1. CASE k = Nobody
    BY <1>10, <2>1 DEF KSend
  <2>2. CASE k \in Clients
    <3>1. Append(outbox[k], reply[k]) \in Seq(Replies \cup {"rest"})
      BY <2>2
    <3>2. /\ outbox' = [outbox EXCEPT ![k] = Append(outbox[k], reply[k])]
          /\ longSent' = [longSent EXCEPT ![k] = @ \/ reply[k] = "long"]
      BY <1>10, <2>2, NobodyAssumption DEF KSend
    <3>3. outbox' \in [Clients -> Seq(Replies \cup {"rest"})]
      BY <2>2, <3>1, <3>2
    <3>4. longSent' \in [Clients -> BOOLEAN]
      BY <2>2, <3>2
    <3> QED
      BY <1>10, <3>3, <3>4 DEF KSend
  <2> QED
    BY <2>1, <2>2 DEF Kids
<1>11. ASSUME NEW k \in Kids, KSendLost(k) PROVE TypeOK'
  BY <1>11 DEF KSendLost
<1>12. ASSUME NEW k \in Kids, KDecide(k) \/ KAborts(k) PROVE TypeOK'
  <2>1. CASE KDecide(k)
    BY <2>1 DEF KDecide, Freed
  <2>2. CASE KAborts(k)
    BY <2>2 DEF KAborts
  <2> QED
    BY <1>12, <2>1, <2>2
<1>13. ASSUME NEW c \in Clients, CConnect(c) PROVE TypeOK'
  <2>1. Append(backlog, c) \in Seq(Clients)
    BY <1>13
  <2>2. backlog' \in Seq(Clients)
    BY <1>13, <2>1 DEF CConnect
  <2> QED
    BY <1>13, <2>2 DEF CConnect
<1>14. ASSUME NEW c \in Clients, NEW line \in Typed, CType(c, line)
       PROVE  TypeOK'
  <2>1. line \in Lines /\ Append(inbox[c], line) \in Seq(Lines)
    BY <1>14
  <2>2. /\ stage' \in [Clients -> {"away", "prompt", "awaiting", "stuck", "left",
                                  "dead"}]
        /\ typed' \in [Clients -> Lines \cup {"none"}]
        /\ inbox' \in [Clients -> Seq(Lines)]
    BY <1>14, <2>1 DEF CType
  <2>3. calls' \in [Clients -> 0 .. MaxCalls]
    BY <1>14 DEF CType
  <2> QED
    BY <1>14, <2>2, <2>3 DEF CType
<1>15. ASSUME NEW c \in Clients, CReply(c) PROVE TypeOK'
  <2>1. /\ outbox' \in [Clients -> Seq(Replies \cup {"rest"})]
        /\ stage' \in [Clients -> {"away", "prompt", "awaiting", "stuck",
                                  "left", "dead"}]
    <3>1. PICK q \in Seq(Replies \cup {"rest"}) :
            outbox' = [outbox EXCEPT ![c] = q]
      BY <1>15, RecvTakes
    <3>2. PICK st \in {"left", "prompt", "stuck"} :
            stage' = [stage EXCEPT ![c] = st]
      BY <1>15, RecvTakes
    <3> QED
      BY <3>1, <3>2
  <2>2. typed' \in [Clients -> Lines \cup {"none"}]
    BY <1>15 DEF CReply
  <2> QED
    BY <1>15, <2>1, <2>2 DEF CReply
<1>16. ASSUME NEW c \in Clients,
              CLost(c) \/ CInterrupted(c) \/ CEndOfInput(c)
       PROVE  TypeOK'
  <2>1. CASE CLost(c) \/ CEndOfInput(c)
    BY <2>1 DEF CLost, CEndOfInput
  <2>2. CASE CInterrupted(c)
    <3>1. <<>> \in Seq(Replies \cup {"rest"})
      BY EmptySeq
    <3>2. outbox' \in [Clients -> Seq(Replies \cup {"rest"})]
      BY <2>2, <3>1 DEF CInterrupted
    <3> QED
      BY <2>2, <3>2 DEF CInterrupted
  <2> QED
    BY <1>16, <2>1, <2>2
<1>17. CASE UNCHANGED vars
  BY <1>17 DEF vars
<1> QED
  BY Steps, <1>1, <1>2, <1>3, <1>4, <1>5, <1>6, <1>7, <1>8, <1>9, <1>10,
     <1>11, <1>12, <1>13, <1>14, <1>15, <1>16, <1>17

-----------------------------------------------------------------------------
(* child_num stays an upper bound of the children not waited for: an       *)
(* accept counts before the fork, a return is counted at most once, and    *)
(* the final loop counts down only with a child or without any.            *)
LEMMA StepCounted ==
  TypeOK /\ ChildrenCounted /\ [Next]_vars => ChildrenCounted'
<1> SUFFICES ASSUME TypeOK, ChildrenCounted, [Next]_vars
             PROVE  ChildrenCounted'
  OBVIOUS
<1> DEFINE Forking == IF pPc = "fork" THEN 1 ELSE 0
<1>a. childNum \in Nat /\ childNum >= Cardinality(Unreaped) + Forking
  BY DEF TypeOK, ChildrenCounted
<1>b. kid \in [Kids -> {"none", "recv", "check", "send", "decide",
                         "zombie", "reaped"}]
  BY DEF TypeOK
<1>c. ASSUME childNum' >= Cardinality(Unreaped') + Forking'
      PROVE  ChildrenCounted'
  BY <1>c DEF ChildrenCounted
<1>d. ASSUME UNCHANGED <<pPc, childNum, kid>> PROVE ChildrenCounted'
  BY <1>a, <1>d DEF ChildrenCounted, Unreaped, Running, Zombies
<1>e. ASSUME UNCHANGED <<pPc, childNum>>,
             NEW k \in Running,
             NEW v \in {"recv", "check", "send", "decide", "zombie"},
             kid' = [kid EXCEPT ![k] = v]
      PROVE  ChildrenCounted'
  <2>1. k \in Kids
    BY DEF Running
  <2>2. Unreaped' = Unreaped
    BY <1>b, <1>e, <2>1, ChildWorks
  <2> QED
    BY <1>a, <1>e, <2>2 DEF ChildrenCounted
<1> USE DEF parentVars, kidVars, clientVars, wires
<1>1. CASE PAccept
  <2>1. /\ pPc = "accept" /\ pPc' = "fork"
        /\ childNum' = childNum + 1 /\ kid' = kid
    BY <1>1 DEF PAccept
  <2>2. Unreaped' = Unreaped
    BY <2>1 DEF Unreaped, Running, Zombies
  <2>3. Forking = 0 /\ Forking' = 1
    BY <2>1
  <2> QED
    BY <1>a, <1>c, <2>1, <2>2, <2>3, UnreapedCount
<1>2. CASE PFork
  <2>1. pPc = "fork" /\ pPc' = "reap" /\ childNum' = childNum
    BY <1>2 DEF PFork
  <2>2. Forking = 1 /\ Forking' = 0
    BY <2>1
  <2>3. CASE kid' = [kid EXCEPT ![accepted] = "recv"]
    <3>1. accepted \in Kids
      BY DEF TypeOK
    <3>2. Cardinality(Unreaped') <= Cardinality(Unreaped) + 1
      BY <1>b, <2>3, <3>1, ChildForked
    <3> QED
      BY <1>a, <1>c, <2>1, <2>2, <3>2, UnreapedCount
  <2>4. CASE kid' = kid
    <3>1. Unreaped' = Unreaped
      BY <2>4 DEF Unreaped, Running, Zombies
    <3> QED
      BY <1>a, <1>c, <2>1, <2>2, <3>1, UnreapedCount
  <2> QED
    BY <1>2, <2>3, <2>4 DEF PFork
<1>3. CASE PNoReturn
  BY <1>3, <1>d DEF PNoReturn
<1>4. ASSUME NEW k \in Kids, PReturn(k) PROVE ChildrenCounted'
  <2>1. k \in Zombies /\ Collect(k)
    BY <1>4 DEF PReturn, Zombies
  <2>2. Cardinality(Unreaped') = Cardinality(Unreaped) - 1
    BY <1>b, <2>1, ChildCollected
  <2>3. /\ pPc' = pPc /\ pPc = "reap"
        /\ childNum' \in {childNum, childNum - 1}
    BY <1>4 DEF PReturn
  <2>4. Forking = 0 /\ Forking' = 0
    BY <2>3
  <2> QED
    BY <1>a, <1>c, <2>2, <2>3, <2>4, UnreapedCount
<1>5. CASE PTest
  <2>1. /\ pPc = "reap" /\ pPc' # "fork"
        /\ childNum' = childNum /\ kid' = kid
    BY <1>5 DEF PTest
  <2>2. Unreaped' = Unreaped
    BY <2>1 DEF Unreaped, Running, Zombies
  <2> QED
    BY <1>a, <1>c, <2>1, <2>2
<1>6. CASE PWait
  <2>1. /\ pPc = "wait" /\ pPc' = pPc /\ childNum # 0
        /\ childNum' = childNum - 1
    BY <1>6 DEF PWait
  <2>2. Forking = 0 /\ Forking' = 0
    BY <2>1
  <2>3. ASSUME NEW k \in Zombies, Collect(k) PROVE ChildrenCounted'
    <3>1. Cardinality(Unreaped') = Cardinality(Unreaped) - 1
      BY <1>b, <2>3, ChildCollected
    <3> QED
      BY <1>a, <1>c, <2>1, <2>2, <3>1, UnreapedCount
  <2>4. CASE Unreaped = {} /\ UNCHANGED kid
    <3>1. Unreaped' = {}
      BY <2>4 DEF Unreaped, Running, Zombies
    <3>2. Cardinality(Unreaped') = 0
      BY <3>1, FS_EmptySet
    <3>3. childNum - 1 >= 0
      BY <1>a, <2>1
    <3> QED
      BY <1>c, <2>1, <2>2, <3>2, <3>3
  <2> QED
    BY <1>6, <2>3, <2>4 DEF PWait
<1>7. CASE PExit
  <2>1. pPc = "wait" /\ pPc' = "done" /\ childNum' = childNum /\ kid' = kid
    BY <1>7 DEF PExit
  <2>2. Unreaped' = Unreaped
    BY <2>1 DEF Unreaped, Running, Zombies
  <2> QED
    BY <1>a, <1>c, <2>1, <2>2
<1>8. ASSUME NEW k \in Kids, KRecv(k) \/ KCheck(k) \/ KSend(k)
      PROVE  ChildrenCounted'
  <2>1. k \in Running
    BY <1>8 DEF KRecv, KCheck, KSend, Running
  <2>2. \E v \in {"check", "send", "decide"} : kid' = [kid EXCEPT ![k] = v]
    BY <1>8 DEF KRecv, KCheck, KSend
  <2> QED
    BY <1>8, <1>e, <2>1, <2>2 DEF KRecv, KCheck, KSend
<1>9. ASSUME NEW k \in Kids, KSendLost(k) \/ KAborts(k) \/ KDecide(k)
      PROVE  ChildrenCounted'
  <2>1. k \in Running
    BY <1>9 DEF KSendLost, KAborts, KDecide, Running
  <2>2. \E v \in {"recv", "decide", "zombie"} : kid' = [kid EXCEPT ![k] = v]
    BY <1>9 DEF KSendLost, KAborts, KDecide
  <2> QED
    BY <1>9, <1>e, <2>1, <2>2 DEF KSendLost, KAborts, KDecide
<1>10. ASSUME NEW c \in Clients,
              \/ CConnect(c) \/ CReply(c) \/ CLost(c) \/ CInterrupted(c)
              \/ CEndOfInput(c)
              \/ \E line \in Typed : CType(c, line)
       PROVE  ChildrenCounted'
  BY <1>10, <1>d DEF CConnect, CReply, CLost, CInterrupted,
     CEndOfInput, CType
<1>11. CASE UNCHANGED vars
  BY <1>11, <1>d DEF vars
<1> QED
  BY Steps, <1>1, <1>2, <1>3, <1>4, <1>5, <1>6, <1>7, <1>8, <1>9, <1>10,
     <1>11

-----------------------------------------------------------------------------
(* A child's end is recorded once and for all: only the first step of a    *)
(* fresh child and the last step of a running one change its record.       *)
LEMMA StepEnded ==
  TypeOK /\ ComesOnce /\ EndedHasStatus /\ [Next]_vars => EndedHasStatus'
<1> SUFFICES ASSUME TypeOK, ComesOnce, EndedHasStatus, [Next]_vars
             PROVE  EndedHasStatus'
  OBVIOUS
<1> USE DEF parentVars, kidVars, clientVars, wires
<1>a. /\ kid \in [Kids -> {"none", "recv", "check", "send", "decide",
                            "zombie", "reaped"}]
      /\ status \in [Kids -> {"none", "one", "four", "signal"}]
      /\ command \in [Kids -> {"none", "call", "long", "exit", "quit"}]
      /\ accepted \in Kids /\ Nobody \in Kids
  BY DEF TypeOK, Kids
<1>b. ASSUME UNCHANGED <<kid, status, command>> PROVE EndedHasStatus'
  BY <1>b DEF EndedHasStatus
<1>c. ASSUME UNCHANGED <<status, command>>,
             NEW k \in Kids, NEW v \in {"recv", "check", "send", "decide"},
             kid[k] \notin {"zombie", "reaped"}, kid' = [kid EXCEPT ![k] = v]
      PROVE  EndedHasStatus'
  BY <1>a, <1>c DEF EndedHasStatus
<1>d. ASSUME UNCHANGED <<status, command>>,
             NEW k \in Zombies, Collect(k)
      PROVE  EndedHasStatus'
  BY <1>a, <1>d DEF EndedHasStatus, Collect, Zombies
<1>e. ASSUME UNCHANGED command,
             NEW k \in Kids, NEW st \in {"one", "four", "signal"},
             k = Nobody => st # "four",
             kid[k] \notin {"zombie", "reaped"},
             kid' = [kid EXCEPT ![k] = "zombie"],
             status' = [status EXCEPT ![k] = st]
      PROVE  EndedHasStatus'
  BY <1>a, <1>e DEF EndedHasStatus
<1>1. CASE PAccept \/ PNoReturn \/ PTest \/ PExit
  BY <1>1, <1>b DEF PAccept, PNoReturn, PTest, PExit
<1>2. CASE PFork
  <2>1. kid[accepted] = "none"
    BY <1>2 DEF PFork, ComesOnce
  <2>2. \/ kid' = kid
        \/ kid' = [kid EXCEPT ![accepted] = "recv"]
    BY <1>2 DEF PFork
  <2> QED
    BY <1>2, <1>a, <1>b, <1>c, <2>1, <2>2 DEF PFork
<1>3. ASSUME NEW k \in Kids, PReturn(k) PROVE EndedHasStatus'
  BY <1>3, <1>d DEF PReturn, Zombies
<1>4. CASE PWait
  BY <1>4, <1>b, <1>d DEF PWait
<1>5. ASSUME NEW k \in Kids, KRecv(k) PROVE EndedHasStatus'
  <2>1. kid[k] = "recv" /\ kid' = [kid EXCEPT ![k] = "check"]
    BY <1>5 DEF KRecv
  <2>2. status' = status
    BY <1>5 DEF KRecv
  <2>3. command'[Nobody] \in {"none", "call"}
    BY <1>5, <1>a, NobodyAssumption DEF KRecv, EndedHasStatus
  <2> QED
    BY <1>a, <2>1, <2>2, <2>3 DEF EndedHasStatus
<1>6. ASSUME NEW k \in Kids, KCheck(k) \/ KSend(k) PROVE EndedHasStatus'
  BY <1>6, <1>c DEF KCheck, KSend
<1>7. ASSUME NEW k \in Kids, KSendLost(k) PROVE EndedHasStatus'
  <2>1. kid[k] = "send" /\ command' = command
    BY <1>7 DEF KSendLost
  <2>2. \/ kid' = [kid EXCEPT ![k] = "decide"] /\ status' = status
        \/ /\ kid' = [kid EXCEPT ![k] = "zombie"]
           /\ status' = [status EXCEPT ![k] = "signal"]
    BY <1>7 DEF KSendLost
  <2> QED
    BY <1>c, <1>e, <2>1, <2>2
<1>8. ASSUME NEW k \in Kids, KDecide(k) \/ KAborts(k) PROVE EndedHasStatus'
  <2>1. kid[k] = "decide"
    BY <1>8 DEF KDecide, KAborts
  <2>2. \/ /\ kid' = [kid EXCEPT ![k] = "recv"] /\ status' = status
           /\ command' = [command EXCEPT ![k] = "none"]
        \/ /\ kid' = [kid EXCEPT ![k] = "zombie"] /\ command' = command
           /\ \E st \in {"one", "signal"} :
                status' = [status EXCEPT ![k] = st]
        \/ /\ kid' = [kid EXCEPT ![k] = "zombie"] /\ command' = command
           /\ status' = [status EXCEPT ![k] = "four"]
           /\ command[k] = "quit"
    BY <1>8 DEF KDecide, KAborts, Freed
  <2>3. command[k] = "quit" => k # Nobody
    BY DEF EndedHasStatus
  <2>4. CASE /\ kid' = [kid EXCEPT ![k] = "recv"] /\ status' = status
             /\ command' = [command EXCEPT ![k] = "none"]
    BY <1>a, <2>1, <2>4 DEF EndedHasStatus
  <2> QED
    BY <1>e, <2>1, <2>2, <2>3, <2>4
<1>9. ASSUME NEW c \in Clients,
             \/ CConnect(c) \/ CReply(c) \/ CLost(c) \/ CInterrupted(c)
             \/ CEndOfInput(c)
             \/ \E line \in Typed : CType(c, line)
      PROVE  EndedHasStatus'
  BY <1>9, <1>b DEF CConnect, CReply, CLost, CInterrupted,
     CEndOfInput, CType
<1>10. CASE UNCHANGED vars
  BY <1>10, <1>b DEF vars
<1> QED
  BY Steps, <1>1, <1>2, <1>3, <1>4, <1>5, <1>6, <1>7, <1>8, <1>9, <1>10

(* What ended stays ended as it did.                                       *)
LEMMA StatusKept ==
  ASSUME TypeOK, EndedHasStatus, [Next]_vars,
         NEW k \in Kids, status[k] # "none"
  PROVE  status'[k] = status[k]
<1> USE DEF parentVars, kidVars, clientVars, wires
<1>1. kid[k] \in {"zombie", "reaped"}
  BY DEF EndedHasStatus
<1>2. status \in [Kids -> {"none", "one", "four", "signal"}]
  BY DEF TypeOK
<1>3. ASSUME NEW j \in Kids, KSendLost(j) \/ KAborts(j) \/ KDecide(j)
      PROVE  status'[k] = status[k]
  <2>1. j # k
    BY <1>1, <1>3 DEF KSendLost, KAborts, KDecide
  <2>2. CASE KSendLost(j)
    BY <1>2, <2>1, <2>2 DEF KSendLost
  <2>3. CASE KAborts(j) \/ KDecide(j)
    BY <1>2, <2>1, <2>3 DEF KAborts, KDecide
  <2> QED
    BY <1>3, <2>2, <2>3
<1>4. \/ status' = status
      \/ \E j \in Kids : KSendLost(j) \/ KAborts(j) \/ KDecide(j)
  BY Steps DEF PAccept, PFork, PNoReturn, PTest, PWait, PExit, PReturn,
     KRecv, KCheck, KSend, CConnect, CReply, CLost, CInterrupted,
     CEndOfInput, CType, vars
<1> QED
  BY <1>3, <1>4

(* The flag goes up on a client's quit, and then the server stops.         *)
LEMMA StepStops ==
  TypeOK /\ EndedHasStatus /\ StopOrder /\ [Next]_vars => StopOrder'
<1> SUFFICES ASSUME TypeOK, EndedHasStatus, StopOrder, [Next]_vars
             PROVE  StopOrder'
  OBVIOUS
<1> USE DEF parentVars, kidVars, clientVars, wires
<1> DEFINE AClientQuit == \E k \in Clients : status[k] = "four"
<1>a. quitFlag \in BOOLEAN
  BY DEF TypeOK
<1>b. ASSUME quitFlag PROVE AClientQuit'
  <2>1. PICK k \in Clients : status[k] = "four"
    BY <1>b DEF StopOrder
  <2>2. status'[k] = "four"
    BY <2>1, StatusKept DEF Kids
  <2> QED
    BY <2>2
<1>c. ASSUME UNCHANGED <<pPc, childNum, loopLeft, quitFlag>> PROVE StopOrder'
  <2>1. quitFlag' => AClientQuit'
    BY <1>b, <1>c
  <2> QED
    BY <1>c, <2>1 DEF StopOrder
<1>1. CASE PAccept \/ PFork
  BY <1>1 DEF PAccept, PFork, StopOrder
<1>2. CASE PNoReturn
  BY <1>2 DEF PNoReturn, StopOrder
<1>3. ASSUME NEW k \in Kids, PReturn(k) PROVE StopOrder'
  <2>1. /\ pPc = "reap" /\ pPc' = "reap" /\ loopLeft > 0
        /\ quitFlag' = (quitFlag \/ status[k] = "four") /\ status' = status
        /\ status[k] = "four" => loopLeft' = 0
    BY <1>3 DEF PReturn
  <2>2. ~quitFlag
    BY <2>1 DEF StopOrder
  <2>3. status[k] = "four" => k \in Clients
    BY DEF EndedHasStatus, Kids
  <2> QED
    BY <2>1, <2>2, <2>3 DEF StopOrder
<1>4. CASE PTest
  <2>1. /\ pPc = "reap" /\ UNCHANGED <<loopLeft, quitFlag>>
        /\ pPc' = IF quitFlag THEN "wait" ELSE "accept"
    BY <1>4 DEF PTest
  <2>2. quitFlag => AClientQuit'
    BY <1>b
  <2> QED
    BY <1>a, <2>1, <2>2 DEF StopOrder
<1>5. CASE PWait \/ PExit
  <2>1. /\ pPc = "wait" /\ UNCHANGED quitFlag
        /\ pPc' = "wait" \/ (pPc' = "done" /\ childNum' = 0)
    BY <1>5 DEF PWait, PExit
  <2>2. quitFlag => AClientQuit'
    BY <1>b
  <2> QED
    BY <2>1, <2>2 DEF StopOrder
<1>6. ASSUME NEW k \in Kids,
             \/ KRecv(k) \/ KCheck(k) \/ KSend(k) \/ KSendLost(k)
             \/ KAborts(k) \/ KDecide(k)
      PROVE  StopOrder'
  BY <1>6, <1>c DEF KRecv, KCheck, KSend, KSendLost, KAborts,
     KDecide, Freed
<1>7. ASSUME NEW c \in Clients,
             \/ CConnect(c) \/ CReply(c) \/ CLost(c) \/ CInterrupted(c)
             \/ CEndOfInput(c)
             \/ \E line \in Typed : CType(c, line)
      PROVE  StopOrder'
  BY <1>7, <1>c DEF CConnect, CReply, CLost, CInterrupted,
     CEndOfInput, CType
<1>8. CASE UNCHANGED vars
  BY <1>8, <1>c DEF vars
<1> QED
  BY Steps, <1>1, <1>2, <1>3, <1>4, <1>5, <1>6, <1>7, <1>8

(* Clients move from away to the backlog, to the connections, to a child,  *)
(* and never back.                                                         *)
LEMMA StepComes ==
  TypeOK /\ ComesOnce /\ [Next]_vars => ComesOnce'
<1> SUFFICES ASSUME TypeOK, ComesOnce, [Next]_vars PROVE ComesOnce'
  OBVIOUS
<1> USE DEF parentVars, kidVars, clientVars, wires
<1>a. /\ kid \in [Kids -> {"none", "recv", "check", "send", "decide",
                            "zombie", "reaped"}]
      /\ stage \in [Clients -> {"away", "prompt", "awaiting", "stuck", "left",
                                 "dead"}]
      /\ backlog \in Seq(Clients) /\ accepted \in Kids
      /\ conns \subseteq Kids
  BY DEF TypeOK
<1>b. ASSUME UNCHANGED <<backlog, conns>>,
             pPc' = "fork" => pPc = "fork" /\ accepted' = accepted,
             \A k \in Kids : kid[k] = "none" => kid'[k] = "none",
             \A c \in Clients : stage[c] # "away" => stage'[c] # "away"
      PROVE  ComesOnce'
  BY <1>a, <1>b DEF ComesOnce, Kids
<1>1. CASE PAccept
  <2>0. /\ pPc' = "fork" /\ UNCHANGED <<kid, stage>>
    BY <1>1 DEF PAccept
  <2>1. CASE Cardinality(conns) < FdLimit
    <3> DEFINE c == Head(backlog)
    <3>1. /\ backlog # <<>> /\ accepted' = c /\ backlog' = Tail(backlog)
          /\ conns' = conns \cup {c}
      BY <1>1, <2>1 DEF PAccept
    <3>2. /\ In(c, backlog) /\ ~In(c, Tail(backlog)) /\ c \in Clients
          /\ \A t : In(t, Tail(backlog)) <=> In(t, backlog) /\ t # c
          /\ Distinct(Tail(backlog))
      BY <1>a, <3>1, InTail, HeadTailProperties DEF ComesOnce
    <3> HIDE DEF c
    <3>3. kid[c] = "none" /\ stage[c] # "away"
      BY <3>2 DEF ComesOnce
    <3> QED
      BY <2>0, <3>1, <3>2, <3>3 DEF ComesOnce
  <2>2. CASE ~(Cardinality(conns) < FdLimit)
    <3>1. kid[Nobody] = "none" /\ accepted' = Nobody /\ UNCHANGED <<backlog, conns>>
      BY <1>1, <2>2 DEF PAccept
    <3> QED
      BY <2>0, <3>1, NobodyAssumption DEF ComesOnce
  <2> QED
    BY <2>1, <2>2
<1>2. CASE PFork
  <2>1. /\ pPc = "fork" /\ pPc' = "reap" /\ UNCHANGED <<backlog, conns, stage>>
        /\ kid' \in {kid, [kid EXCEPT ![accepted] = "recv"]}
    BY <1>2 DEF PFork
  <2>2. accepted \in Clients => accepted \in conns
    BY <2>1 DEF ComesOnce
  <2>3. \A c \in Clients : kid'[c] # "none" => c \in conns
    BY <1>a, <2>1, <2>2 DEF ComesOnce, Kids
  <2> QED
    BY <2>1, <2>3 DEF ComesOnce
<1>3. CASE PNoReturn \/ PExit
  BY <1>3, <1>b DEF PNoReturn, PExit
<1>4. ASSUME NEW k \in Kids, PReturn(k) PROVE ComesOnce'
  <2>1. \A j \in Kids : kid[j] = "none" => kid'[j] = "none"
    BY <1>a, <1>4 DEF PReturn, Collect
  <2> QED
    BY <1>4, <1>b, <2>1 DEF PReturn
<1>5. CASE PTest
  <2>1. /\ pPc' # "fork" /\ UNCHANGED <<conns, kid, stage>>
        /\ backlog' = <<>> \/ backlog' = backlog
    BY <1>5 DEF PTest
  <2>2. backlog' = <<>> => Distinct(backlog') /\ \A c : ~In(c, backlog')
    BY DEF Distinct, In
  <2>3. Distinct(backlog') /\ \A c : In(c, backlog') => In(c, backlog)
    BY <2>1, <2>2 DEF ComesOnce
  <2> QED
    BY <2>1, <2>3 DEF ComesOnce
<1>6. CASE PWait
  <2>1. \A j \in Kids : kid[j] = "none" => kid'[j] = "none"
    BY <1>a, <1>6 DEF PWait, Collect, Zombies
  <2> QED
    BY <1>6, <1>b, <2>1 DEF PWait
<1>7. ASSUME NEW k \in Kids,
             \/ KRecv(k) \/ KCheck(k) \/ KSend(k) \/ KSendLost(k)
             \/ KAborts(k) \/ KDecide(k)
      PROVE  ComesOnce'
  <2>1. \A j \in Kids : kid[j] = "none" => kid'[j] = "none"
    BY <1>a, <1>7 DEF KRecv, KCheck, KSend, KSendLost, KAborts,
     KDecide, Freed
  <2> QED
    BY <1>7, <1>b, <2>1 DEF KRecv, KCheck, KSend, KSendLost, KAborts,
     KDecide, Freed
<1>8. ASSUME NEW c \in Clients, CConnect(c) PROVE ComesOnce'
  <2>1. stage[c] = "away" /\ ~In(c, backlog) /\ c \notin conns
    BY <1>8 DEF CConnect, ComesOnce
  <2>2. UNCHANGED <<pPc, accepted, conns, kid>>
    BY <1>8 DEF CConnect
  <2>3. \A d \in Clients : stage'[d] # "away" <=> stage[d] # "away" \/ d = c
    BY <1>a, <1>8 DEF CConnect
  <2>4. CASE backlog' = Append(backlog, c)
    <3>1. /\ \A t : In(t, Append(backlog, c)) <=> In(t, backlog) \/ t = c
          /\ Distinct(Append(backlog, c))
      BY <1>a, <2>1, InAppend DEF ComesOnce
    <3> QED
      BY <2>1, <2>2, <2>3, <2>4, <3>1, <1>a DEF ComesOnce
  <2>5. CASE backlog' = backlog
    BY <1>b, <2>2, <2>3, <2>5
  <2> QED
    BY <1>8, <2>4, <2>5 DEF CConnect
<1>9. ASSUME NEW c \in Clients,
             \/ CReply(c) \/ CLost(c) \/ CInterrupted(c) \/ CEndOfInput(c)
             \/ \E line \in Typed : CType(c, line)
      PROVE  ComesOnce'
  <2>1. \A d \in Clients : stage[d] # "away" => stage'[d] # "away"
    <3>1. CASE CReply(c)
      BY <1>a, <3>1, RecvTakes
    <3> QED
      BY <1>a, <1>9, <3>1 DEF CLost, CInterrupted, CEndOfInput, CType
  <2> QED
    BY <1>9, <1>b, <2>1 DEF CReply, CLost, CInterrupted,
     CEndOfInput, CType
<1>10. CASE UNCHANGED vars
  BY <1>10, <1>b DEF vars
<1> QED
  BY Steps, <1>1, <1>2, <1>3, <1>4, <1>5, <1>6, <1>7, <1>8, <1>9, <1>10

-----------------------------------------------------------------------------
(* A step that leaves a client's call alone leaves it in its place.        *)
LEMMA CallUntouched ==
  ASSUME NEW c \in Clients, CallInPlace(c),
         \/ stage'[c] = stage[c] /\ typed'[c] = typed[c]
         \/ stage'[c] \in {"left", "dead"},
         inbox'[c] = inbox[c], outbox'[c] = outbox[c],
         \/ /\ kid'[c] = kid[c] /\ command'[c] = command[c]
            /\ reply'[c] = reply[c]
         \/ ~Busy(c) /\ kid'[c] \notin {"check", "send"}
  PROVE  CallInPlace(c)'
<1>1. CASE stage'[c] \in {"left", "dead"}
  BY <1>1 DEF CallInPlace
<1>2. CASE stage'[c] = stage[c] /\ typed'[c] = typed[c]
  <2>1. Busy(c)' <=> Busy(c)
    BY DEF Busy
  <2>2. NoCall(c) => NoCall(c)'
    BY <2>1 DEF NoCall
  <2>3. OnItsWay(c) => OnItsWay(c)'
    BY <1>2, <2>1 DEF OnItsWay
  <2>4. Answers(c)' = Answers(c)
    BY <1>2 DEF Answers
  <2>5. WithChild(c) => WithChild(c)'
    BY <1>2, <2>1, <2>4 DEF WithChild
  <2>6. Answered(c) => Answered(c)'
    BY <2>1, <2>4 DEF Answered
  <2> QED
    BY <1>2, <2>2, <2>3, <2>5, <2>6 DEF CallInPlace
<1> QED
  BY <1>1, <1>2

(* Every step of a call's own parties moves it to its next place.          *)
LEMMA StepCall ==
  TypeOK /\ ComesOnce /\ OneCall /\ [Next]_vars => OneCall'
<1> SUFFICES ASSUME TypeOK, ComesOnce, OneCall, [Next]_vars,
                    NEW c \in Clients, ~longSent'[c]
             PROVE  CallInPlace(c)'
  BY DEF OneCall
<1> USE DEF parentVars, kidVars, clientVars, wires
<1>a. /\ kid \in [Kids -> {"none", "recv", "check", "send", "decide",
                            "zombie", "reaped"}]
      /\ command \in [Kids -> {"none", "call", "long", "exit", "quit"}]
      /\ reply \in [Kids -> Replies]
      /\ stage \in [Clients -> {"away", "prompt", "awaiting", "stuck", "left",
                                 "dead"}]
      /\ typed \in [Clients -> Lines \cup {"none"}]
      /\ inbox \in [Clients -> Seq(Lines)]
      /\ outbox \in [Clients -> Seq(Replies \cup {"rest"})]
      /\ longSent \in [Clients -> BOOLEAN]
      /\ c \in Kids /\ c # Nobody
  BY NobodyAssumption DEF TypeOK, Kids
<1>b. CallInPlace(c)
  <2>1. \/ longSent' = longSent
        \/ \E k \in Clients :
             longSent' = [longSent EXCEPT ![k] = @ \/ reply[k] = "long"]
    BY Steps DEF PAccept, PFork, PNoReturn, PTest, PWait, PExit, PReturn,
       KRecv, KCheck, KSend, KSendLost, KAborts, KDecide, CConnect, CReply,
       CLost, CInterrupted, CEndOfInput, CType, vars, Kids
  <2>2. ~longSent[c]
    BY <1>a, <2>1
  <2> QED
    BY <2>2 DEF OneCall
<1>1. CASE PAccept \/ PNoReturn \/ PTest \/ PExit
  BY <1>1, <1>b, CallUntouched DEF PAccept, PNoReturn, PTest, PExit
<1>2. CASE PFork
  <2>1. kid[accepted] = "none" /\ UNCHANGED <<command, reply, clientVars, wires>>
    BY <1>2 DEF PFork, ComesOnce
  <2>2. kid'[c] = kid[c] \/ (kid[c] = "none" /\ kid'[c] = "recv")
    BY <1>2, <1>a, <2>1 DEF PFork
  <2> QED
    BY <1>b, <2>1, <2>2, CallUntouched DEF Busy
<1>3. ASSUME NEW k \in Kids, PReturn(k) PROVE CallInPlace(c)'
  <2>1. kid'[c] = kid[c] \/ (kid[c] = "zombie" /\ kid'[c] = "reaped")
    BY <1>3, <1>a DEF PReturn, Collect
  <2> QED
    BY <1>3, <1>b, <2>1, CallUntouched DEF PReturn, Busy
<1>4. CASE PWait
  <2>1. kid'[c] = kid[c] \/ (kid[c] = "zombie" /\ kid'[c] = "reaped")
    BY <1>4, <1>a DEF PWait, Collect, Zombies
  <2> QED
    BY <1>4, <1>b, <2>1, CallUntouched DEF PWait, Busy
<1>5. ASSUME NEW k \in Kids, k # c,
             \/ KRecv(k) \/ KCheck(k) \/ KSend(k) \/ KSendLost(k)
             \/ KAborts(k) \/ KDecide(k)
      PROVE  CallInPlace(c)'
  <2>1. /\ kid'[c] = kid[c] /\ command'[c] = command[c]
        /\ reply'[c] = reply[c]
    BY <1>5, <1>a DEF KRecv, KCheck, KSend, KSendLost, KAborts,
     KDecide, Freed
  <2>2. inbox'[c] = inbox[c] /\ outbox'[c] = outbox[c]
    BY <1>5, <1>a DEF KRecv, KCheck, KSend, KSendLost, KAborts,
     KDecide, Freed
  <2>3. UNCHANGED <<stage, typed>>
    BY <1>5 DEF KRecv, KCheck, KSend, KSendLost, KAborts,
     KDecide, Freed
  <2> QED
    BY <1>b, <2>1, <2>2, <2>3, CallUntouched
<1>6. CASE KRecv(c)
  <2>1. /\ kid[c] = "recv" /\ kid'[c] = "check"
        /\ UNCHANGED <<reply, stage, typed, outbox>>
    BY <1>6, <1>a DEF KRecv
  <2>2. CASE stage[c] \in {"left", "dead"}
    BY <2>1, <2>2 DEF CallInPlace
  <2>3. CASE stage[c] \notin {"left", "dead"}
    <3>1. /\ inbox[c] # <<>>
          /\ command'[c] = Command(Head(inbox[c]))
          /\ \E n \in 1 .. Len(inbox[c]) :
               inbox'[c] = SubSeq(inbox[c], n + 1, Len(inbox[c]))
      BY <1>6, <1>a, <2>3 DEF KRecv, Gone
    <3>2. stage[c] = "awaiting" /\ OnItsWay(c) /\ typed[c] \in Lines
      BY <1>a, <1>b, <2>1, <2>3, <3>1
      DEF CallInPlace, NoCall, WithChild, Answered
    <3>3. command'[c] = Command(typed[c]) /\ inbox'[c] = <<>>
      <4>1. inbox[c] = <<typed[c]>> /\ Len(inbox[c]) = 1
        BY <3>2 DEF OnItsWay
      <4>2. inbox'[c] = SubSeq(inbox[c], 2, 1)
        BY <3>1, <4>1
      <4> QED
        BY <3>1, <4>1, <4>2, SubSeqEmpty
    <3>4. WithChild(c)'
      BY <2>1, <3>2, <3>3 DEF OnItsWay, WithChild, Busy
    <3> QED
      BY <2>1, <3>2, <3>4 DEF CallInPlace
  <2> QED
    BY <2>2, <2>3
<1>7. CASE KCheck(c)
  <2>1. /\ kid[c] = "check" /\ kid'[c] = "send"
        /\ reply'[c] \in {"unavailable", Answer(command[c])}
        /\ UNCHANGED <<command, stage, typed, inbox, outbox>>
    BY <1>7, <1>a DEF KCheck
  <2>2. CASE stage[c] \in {"left", "dead"}
    BY <2>1, <2>2 DEF CallInPlace
  <2>3. CASE stage[c] \notin {"left", "dead"}
    <3>1. stage[c] = "awaiting" /\ WithChild(c) /\ typed[c] \in Lines
      BY <1>a, <1>b, <2>1, <2>3
      DEF CallInPlace, NoCall, OnItsWay, Answered, Busy
    <3>2. WithChild(c)'
      BY <2>1, <3>1 DEF WithChild, Answers, Busy
    <3> QED
      BY <2>1, <3>1, <3>2 DEF CallInPlace
  <2> QED
    BY <2>2, <2>3
<1>8. CASE KSend(c)
  <2>1. /\ kid[c] = "send" /\ kid'[c] = "decide"
        /\ outbox'[c] = Append(outbox[c], reply[c])
        /\ longSent'[c] = (longSent[c] \/ reply[c] = "long")
        /\ UNCHANGED <<command, reply, stage, typed, inbox>>
    BY <1>8, <1>a DEF KSend
  <2>2. CASE stage[c] \in {"left", "dead"}
    BY <2>1, <2>2 DEF CallInPlace
  <2>3. CASE stage[c] \notin {"left", "dead"}
    <3>1. stage[c] = "awaiting" /\ WithChild(c) /\ typed[c] \in Lines
      BY <1>a, <1>b, <2>1, <2>3
      DEF CallInPlace, NoCall, OnItsWay, Answered, Busy
    <3>2. outbox'[c] = <<reply[c]>> /\ reply[c] \in Answers(c) \ {"long"}
      <4>1. reply[c] # "long"
        BY <2>1, Zenon
      <4> QED
        BY <2>1, <3>1, <4>1 DEF WithChild
    <3>3. Answers(c)' = Answers(c)
      BY <2>1 DEF Answers
    <3>4. Answered(c)'
      BY <2>1, <3>1, <3>2, <3>3 DEF WithChild, Answered, Busy
    <3> QED
      BY <2>1, <3>1, <3>4 DEF CallInPlace
  <2> QED
    BY <2>2, <2>3
<1>9. CASE KSendLost(c)
  BY <1>9 DEF KSendLost, Gone, CallInPlace
<1>10. CASE KDecide(c) \/ KAborts(c)
  <2>1. kid[c] = "decide" /\ kid'[c] \in {"recv", "zombie"}
    BY <1>10, <1>a DEF KDecide, KAborts
  <2> QED
    BY <1>10, <1>b, <2>1, CallUntouched DEF KDecide, KAborts, Busy
<1>11. ASSUME NEW d \in Clients, d # c,
              \/ CConnect(d) \/ CReply(d) \/ CLost(d) \/ CInterrupted(d)
              \/ CEndOfInput(d)
              \/ \E line \in Typed : CType(d, line)
       PROVE  CallInPlace(c)'
  <2>0. CASE CReply(d)
    <3>1. stage'[c] = stage[c] /\ outbox'[c] = outbox[c]
      BY <1>11, <1>a, <2>0, RecvTakes
    <3> QED
      BY <1>11, <1>a, <1>b, <2>0, <3>1, CallUntouched DEF CReply
  <2>1. CASE ~CReply(d)
    <3>1. stage'[c] = stage[c] /\ typed'[c] = typed[c]
      BY <1>11, <1>a, <2>1 DEF CConnect, CLost, CInterrupted, CEndOfInput, CType
    <3>2. inbox'[c] = inbox[c] /\ outbox'[c] = outbox[c]
      BY <1>11, <1>a, <2>1 DEF CConnect, CLost, CInterrupted, CEndOfInput, CType
    <3>3. UNCHANGED <<kid, command, reply>>
      BY <1>11, <2>1 DEF CConnect, CLost, CInterrupted, CEndOfInput, CType
    <3> QED
      BY <1>b, <3>1, <3>2, <3>3, CallUntouched
  <2> QED
    BY <2>0, <2>1
<1>12. CASE CConnect(c)
  <2>1. stage[c] = "away" /\ stage'[c] \in {"prompt", "left"}
        /\ UNCHANGED <<kid, inbox, outbox>>
    BY <1>12, <1>a DEF CConnect
  <2>2. NoCall(c)'
    BY <1>b, <2>1 DEF CallInPlace, NoCall, Busy
  <2> QED
    BY <2>1, <2>2 DEF CallInPlace
<1>13. ASSUME NEW line \in Typed, CType(c, line) PROVE CallInPlace(c)'
  <2>1. stage[c] = "prompt" /\ UNCHANGED <<kid, command, reply, outbox>>
    BY <1>13 DEF CType
  <2>2. NoCall(c)
    BY <1>b, <2>1 DEF CallInPlace
  <2>3. CASE stage'[c] = "dead"
    BY <2>3 DEF CallInPlace
  <2>4. CASE /\ stage'[c] = "awaiting" /\ typed'[c] = line
             /\ inbox'[c] = Append(inbox[c], line)
    <3>1. inbox'[c] = <<line>>
      BY <2>2, <2>4 DEF NoCall
    <3>2. OnItsWay(c)'
      BY <2>1, <2>2, <2>4, <3>1 DEF NoCall, OnItsWay, Busy
    <3> QED
      BY <2>4, <3>2, TypedAssumption DEF CallInPlace
  <2> QED
    BY <1>13, <1>a, <2>3, <2>4 DEF CType
<1>14. CASE CReply(c)
  <2>1. /\ stage[c] \in {"awaiting", "stuck"}
        /\ UNCHANGED <<kid, inbox>>
    BY <1>14 DEF CReply
  <2>2. PICK n \in 0 .. Len(outbox[c]) : TakesWhole(c, n) \/ TakesPart(c, n)
    BY <1>14 DEF CReply
  <2>3. \/ n > 0 /\ GoesOn(c, SubSeq(outbox[c], n + 1, Len(outbox[c])),
                            n = 1 /\ outbox[c][1] = "unavailable")
        \/ n < Len(outbox[c]) /\ (n = 0 => outbox[c][1] = "long")
    BY <2>2, Zenon DEF TakesWhole, TakesPart
  <2>4. stage[c] = "awaiting" /\ Answered(c)
    <3>1. n > 0 \/ n < Len(outbox[c])
      BY <2>3
    <3>2. outbox[c] # <<>>
      BY <3>1
    <3> QED
      BY <1>b, <2>1, <3>2 DEF CallInPlace, OnItsWay, WithChild, NoCall
  <2>5. PICK r \in Answers(c) \ {"long"} : outbox[c] = <<r>>
    BY <2>4 DEF Answered
  <2>6. Len(outbox[c]) = 1 /\ outbox[c][1] # "long" /\ n = 1
    <3>1. n > 0 \/ (n < Len(outbox[c]) /\ (n = 0 => outbox[c][1] = "long"))
      BY <2>3
    <3>2. Len(outbox[c]) = 1 /\ outbox[c][1] = r
      BY <2>5
    <3> QED
      BY <3>1, <3>2
  <2>7. /\ GoesOn(c, SubSeq(outbox[c], 2, 1), outbox[c][1] = "unavailable")
        /\ SubSeq(outbox[c], 2, 1) = <<>>
    <3>1. ~(n < Len(outbox[c])) /\ n + 1 = 2
      BY <2>6
    <3>2. (n = 1 /\ outbox[c][1] = "unavailable") = (outbox[c][1] = "unavailable")
      BY <2>6
    <3> QED
      BY <2>3, <2>6, <3>1, <3>2, SubSeqEmpty
  <2>8. outbox'[c] = <<>> /\ stage'[c] \in {"left", "prompt"}
    BY <1>a, <2>4, <2>7 DEF GoesOn
  <2>9. NoCall(c)'
    BY <2>1, <2>4, <2>8 DEF Answered, NoCall, Busy
  <2> QED
    BY <2>8, <2>9 DEF CallInPlace
<1>15. CASE CLost(c) \/ CInterrupted(c)
  BY <1>15, <1>a DEF CLost, CInterrupted, CallInPlace
<1>16. CASE CEndOfInput(c)
  <2>1. /\ stage[c] = "prompt" /\ stage'[c] = "stuck"
        /\ UNCHANGED <<kid, inbox, outbox>>
    BY <1>16, <1>a DEF CEndOfInput
  <2> QED
    BY <1>b, <2>1 DEF CallInPlace, NoCall, Busy
<1>17. CASE UNCHANGED vars
  BY <1>17, <1>b, CallUntouched DEF vars
<1> QED
  BY Steps, <1>1, <1>2, <1>3, <1>4, <1>5, <1>6, <1>7, <1>8, <1>9, <1>10,
     <1>11, <1>12, <1>13, <1>14, <1>15, <1>16, <1>17

-----------------------------------------------------------------------------
(* What a child answered and why it ended does not change any more: the    *)
(* flag stays up and who is gone stays away.                               *)
LEMMA CauseKept ==
  ASSUME NEW k \in Kids, Caused(k), quitFlag => quitFlag', Gone(k) => Gone(k)',
         kid'[k] = kid[k] \/ (kid[k] = "zombie" /\ kid'[k] = "reaped")
                         \/ kid'[k] = "recv",
         reply'[k] = reply[k], command'[k] = command[k], status'[k] = status[k]
  PROVE  Caused(k)'
BY DEF Caused

(* No step makes a child end without a cause.                              *)
LEMMA StepCaused == TypeOK /\ EndsForCause /\ [Next]_vars => EndsForCause'
<1> SUFFICES ASSUME TypeOK, EndsForCause, [Next]_vars, NEW k \in Kids
             PROVE  Caused(k)'
  BY DEF EndsForCause
<1> USE DEF parentVars, kidVars, clientVars, wires
<1>a. /\ kid \in [Kids -> {"none", "recv", "check", "send", "decide",
                            "zombie", "reaped"}]
      /\ command \in [Kids -> {"none", "call", "long", "exit", "quit"}]
      /\ reply \in [Kids -> Replies] /\ quitFlag \in BOOLEAN
      /\ status \in [Kids -> {"none", "one", "four", "signal"}]
      /\ stage \in [Clients -> {"away", "prompt", "awaiting", "stuck", "left",
                                 "dead"}]
  BY DEF TypeOK
<1>b. Caused(k)
  BY DEF EndsForCause
<1>c. stage' = stage => (Gone(k) => Gone(k)')
  BY DEF Gone
<1>1. CASE PAccept \/ PNoReturn \/ PTest \/ PExit \/ UNCHANGED vars
  BY <1>1, <1>b, <1>c, CauseKept DEF PAccept, PNoReturn, PTest, PExit, vars
<1>2. CASE PFork
  <2>1. kid'[k] = kid[k] \/ kid'[k] = "recv"
    BY <1>2, <1>a DEF PFork
  <2> QED
    BY <1>2, <2>1, <1>b, <1>c, CauseKept DEF PFork
<1>3. ASSUME NEW j \in Kids, PReturn(j) PROVE Caused(k)'
  <2>1. kid'[k] = kid[k] \/ (kid[k] = "zombie" /\ kid'[k] = "reaped")
    BY <1>3, <1>a DEF PReturn, Collect
  <2> QED
    BY <1>3, <2>1, <1>b, <1>c, CauseKept DEF PReturn
<1>4. CASE PWait
  <2>1. kid'[k] = kid[k] \/ (kid[k] = "zombie" /\ kid'[k] = "reaped")
    BY <1>4, <1>a DEF PWait, Collect, Zombies
  <2> QED
    BY <1>4, <2>1, <1>b, <1>c, CauseKept DEF PWait
<1>5. ASSUME NEW j \in Kids,
             \/ KRecv(j) \/ KCheck(j) \/ KSend(j) \/ KSendLost(j)
             \/ KAborts(j) \/ KDecide(j)
      PROVE  Caused(k)'
  <2>0. stage' = stage /\ quitFlag' = quitFlag
    BY <1>5 DEF KRecv, KCheck, KSend, KSendLost, KAborts,
     KDecide, Freed
  <2>1. CASE j # k
    <3>1. /\ kid'[k] = kid[k] /\ reply'[k] = reply[k]
          /\ command'[k] = command[k] /\ status'[k] = status[k]
      BY <1>5, <1>a, <2>1 DEF KRecv, KCheck, KSend, KSendLost, KAborts,
     KDecide, Freed
    <3> QED
      BY <1>b, <1>c, <2>0, <3>1, CauseKept
  <2>2. CASE j = k /\ KRecv(k)
    <3>1. kid'[k] = "check"
      BY <1>a, <2>2 DEF KRecv
    <3>2. command'[k] # "none"
      <4>1. \A line \in Lines : Command(line) \in {"call", "long", "exit", "quit"}
        BY DEF Command, Lines
      <4>2. ASSUME k \in Clients, inbox[k] # <<>>
            PROVE  Head(inbox[k]) \in Lines
        <5>1. inbox[k] \in Seq(Lines)
          BY <4>2 DEF TypeOK
        <5> QED
          BY <4>2, <5>1, HeadTailProperties
      <4> QED
        BY <1>a, <2>2, <4>1, <4>2 DEF KRecv
    <3> QED
      BY <3>1, <3>2 DEF Caused
  <2>3. CASE j = k /\ KCheck(k)
    <3>1. /\ kid[k] = "check" /\ kid'[k] = "send" /\ command' = command
          /\ ~quitFlag => reply'[k] = Answer(command[k])
      BY <1>a, <2>3 DEF KCheck
    <3> QED
      BY <1>b, <2>0, <3>1 DEF Caused
  <2>4. CASE j = k /\ KSend(k)
    <3>1. /\ kid[k] = "send" /\ kid'[k] = "decide"
          /\ command' = command /\ reply' = reply
      BY <1>a, <2>4 DEF KSend
    <3> QED
      BY <1>b, <2>0, <3>1 DEF Caused
  <2>5. CASE j = k /\ KSendLost(k)
    <3>1. /\ kid[k] = "send" /\ kid'[k] \in {"decide", "zombie"} /\ Gone(k)
          /\ command' = command /\ reply' = reply
      BY <1>a, <2>5 DEF KSendLost
    <3> QED
      BY <1>b, <1>c, <2>0, <3>1 DEF Caused
  <2>6. CASE j = k /\ KDecide(k)
    <3>1. /\ kid[k] = "decide"
          /\ \/ kid'[k] = "recv"
             \/ /\ kid'[k] = "zombie" /\ command' = command /\ reply' = reply
                /\ quitFlag \/ command[k] \notin {"call", "long"}
      BY <1>a, <2>6 DEF KDecide
    <3> QED
      BY <1>a, <1>b, <2>0, <3>1 DEF Caused
  <2>7. CASE j = k /\ KAborts(k)
    <3>1. /\ kid[k] = "decide" /\ kid'[k] = "zombie"
          /\ command' = command /\ reply' = reply
          /\ status'[k] = "signal" /\ (command[k] = "long" \/ Gone(k))
      BY <1>a, <2>7 DEF KAborts
    <3> QED
      BY <1>b, <1>c, <2>0, <3>1 DEF Caused
  <2> QED
    BY <1>5, <2>1, <2>2, <2>3, <2>4, <2>5, <2>6, <2>7
<1>6. ASSUME NEW c \in Clients,
             \/ CConnect(c) \/ CReply(c) \/ CLost(c) \/ CInterrupted(c)
             \/ CEndOfInput(c)
             \/ \E line \in Typed : CType(c, line)
      PROVE  Caused(k)'
  <2>1. /\ stage[c] \notin {"left", "dead"}
        /\ \A d \in Clients : d # c => stage'[d] = stage[d]
        /\ UNCHANGED <<quitFlag, kid, reply, command, status>>
    <3>1. CASE CReply(c)
      BY <1>a, <3>1, RecvTakes DEF CReply
    <3> QED
      BY <1>6, <1>a, <3>1 DEF CConnect, CLost, CInterrupted, CEndOfInput, CType
  <2>2. Gone(k) => Gone(k)'
    BY <2>1 DEF Gone
  <2> QED
    BY <1>b, <2>1, <2>2, CauseKept
<1> QED
  BY Steps, <1>1, <1>2, <1>3, <1>4, <1>5, <1>6

-----------------------------------------------------------------------------
(* The invariant holds when main() starts.                                 *)
LEMMA InitInvariant == Init => RInv
<1> SUFFICES ASSUME Init PROVE RInv
  OBVIOUS
<1>1. TypeOK
  BY InitTypes
<1>2. Unreaped = {}
  BY DEF Init, Unreaped, Running, Zombies
<1>3. Cardinality(Unreaped) = 0
  BY <1>2, FS_EmptySet
<1>4. ChildrenCounted
  BY <1>3 DEF Init, ChildrenCounted
<1>5. StopOrder
  BY DEF Init, StopOrder
<1>6. Nobody \in Kids /\ Clients \subseteq Kids
  BY DEF Kids
<1>7. EndedHasStatus
  BY <1>6 DEF Init, EndedHasStatus
<1>8. ComesOnce
  BY <1>6, NobodyAssumption DEF Init, ComesOnce, Distinct, In
<1>9. OneCall
  BY <1>6 DEF Init, OneCall, CallInPlace, NoCall, Busy
<1>10. EndsForCause
  BY DEF Init, EndsForCause, Caused
<1> QED
  BY <1>1, <1>4, <1>5, <1>7, <1>8, <1>9, <1>10 DEF RInv

(* RInv is inductive: it holds in every reachable state, for every finite  *)
(* set of clients and every bound (backend.c:48-107, frontend.c:26-43).    *)
THEOREM Invariance == Spec => []RInv
<1>1. RInv /\ [Next]_vars => RInv'
  BY StepTypes, StepCounted, StepStops, StepEnded, StepComes, StepCall,
     StepCaused DEF RInv
<1> QED
  BY InitInvariant, <1>1, PTL DEF Spec

(* The variables keep their types (backend.c:21-46, frontend.c:17-19).     *)
THEOREM Typing == Spec => []TypeOK
<1>1. RInv => TypeOK
  BY DEF RInv
<1> QED
  BY Invariance, <1>1, PTL

(* child_num is never below the number of children (backend.c:77-89).      *)
THEOREM NoChildUncounted == Spec => []ChildrenCounted
<1>1. RInv => ChildrenCounted
  BY DEF RInv
<1> QED
  BY Invariance, <1>1, PTL

(* When child_num is 0 outside a fork no child is left.                    *)
LEMMA NoneLeft ==
  ASSUME ChildrenCounted, childNum = 0
  PROVE  Unreaped = {}
<1>1. Cardinality(Unreaped) = 0
  BY UnreapedCount DEF ChildrenCounted
<1> QED
  BY <1>1, UnreapedCount, FS_EmptySet

(* The server ends only after its last child (backend.c:94-99).            *)
THEOREM ServerLeavesLast == Spec => []ParentExitsLast
<1>1. RInv => ParentExitsLast
  BY NoneLeft DEF RInv, StopOrder, ParentExitsLast
<1> QED
  BY Invariance, <1>1, PTL

(* As long as every answer to it was shorter than its buffer, a frontend   *)
(* never takes a reply for the answer to another call, however the others  *)
(* behave and whatever they were sent (backend.c:61-67,                    *)
(* frontend.c:33-35).                                                      *)
THEOREM RepliesMatch == Spec => []RepliesInTurn
<1>1. RInv => RepliesInTurn
  <2> SUFFICES ASSUME OneCall, NEW c \in Clients, ~longSent[c]
               PROVE  /\ stage[c] = "prompt" =>
                           /\ inbox[c] = <<>> /\ outbox[c] = <<>>
                           /\ kid[c] \notin {"check", "send"}
                      /\ stage[c] = "awaiting" /\ outbox[c] # <<>> =>
                           /\ Len(outbox[c]) = 1
                           /\ Head(outbox[c]) \in Answers(c)
    BY DEF RInv, RepliesInTurn, Answers
  <2>1. CallInPlace(c)
    BY DEF OneCall
  <2>2. CASE stage[c] = "prompt"
    BY <2>1, <2>2 DEF CallInPlace, NoCall, Busy
  <2>3. CASE stage[c] = "awaiting" /\ outbox[c] # <<>>
    <3>1. Answered(c)
      BY <2>1, <2>3 DEF CallInPlace, OnItsWay, WithChild
    <3> QED
      BY <2>3, <3>1 DEF Answered
  <2> QED
    BY <2>2, <2>3
<1> QED
  BY Invariance, <1>1, PTL

(* A child that leaves a client who is still there was asked to, or was    *)
(* killed by an answer that overran its memory, or the quit flag is up     *)
(* (backend.c:62-74).                                                      *)
THEOREM NobodyCutOff == Spec => []LeavesForCause
<1>1. RInv => LeavesForCause
  <2> SUFFICES ASSUME RInv, NEW c \in Clients,
                      kid[c] \in {"zombie", "reaped"}, ~Gone(c), ~quitFlag
               PROVE  \/ command[c] \in {"exit", "quit"} /\ reply[c] = "bye"
                      \/ command[c] = "long" /\ status[c] = "signal"
    BY DEF LeavesForCause
  <2>1. Caused(c)
    BY DEF RInv, EndsForCause, Kids
  <2> QED
    BY <2>1 DEF Caused, Answer
<1> QED
  BY Invariance, <1>1, PTL
-----------------------------------------------------------------------------
(* A step that ends no child, forks none and raises no flag is a stutter   *)
(* of the service.                                                         *)
LEMMA SessionKept ==
  ASSUME NEW c \in Clients,
         \/ kid'[c] = kid[c] /\ status'[c] = status[c]
         \/ c \in Running /\ c \in Running'
         \/ kid[c] = "zombie" /\ kid'[c] = "reaped" /\ status'[c] = status[c]
  PROVE  Session(c)' = Session(c)
BY DEF Session, Running, Kids

(* When the server and every session stay, the service stutters.           *)
LEMMA ServiceStutters ==
  ASSUME UNCHANGED Server, \A c \in Clients : Session(c)' = Session(c)
  PROVE  UNCHANGED <<Server, [c \in Clients |-> Session(c)]>>
OBVIOUS

(* Only one session moves.                                                 *)
LEMMA ServiceChanges ==
  ASSUME NEW c \in Clients, NEW from, NEW to, UNCHANGED Server,
         Session(c) = from, Session(c)' = to,
         \A d \in Clients \ {c} : Session(d)' = Session(d)
  PROVE  Service!Change(c, from, to)
<1>1. [d \in Clients |-> Session(d)]' =
        [[d \in Clients |-> Session(d)] EXCEPT ![c] = to]
  OBVIOUS
<1> QED
  BY <1>1 DEF Service!Change

(* Every step of the server is a step of the service or a stutter.         *)
LEMMA StepServes ==
  RInv /\ RInv' /\ [Next]_vars
    => [Service!Next]_<<Server, [c \in Clients |-> Session(c)]>>
<1> SUFFICES ASSUME RInv, RInv', [Next]_vars
             PROVE  [Service!Next]_<<Server, [c \in Clients |-> Session(c)]>>
  OBVIOUS
<1> USE DEF parentVars, kidVars, clientVars, wires
<1>a. /\ kid \in [Kids -> {"none", "recv", "check", "send", "decide",
                            "zombie", "reaped"}]
      /\ status \in [Kids -> {"none", "one", "four", "signal"}]
      /\ command \in [Kids -> {"none", "call", "long", "exit", "quit"}]
      /\ accepted \in Kids /\ quitFlag \in BOOLEAN
      /\ Clients \subseteq Kids
  BY DEF RInv, TypeOK, Kids
<1>b. ASSUME UNCHANGED <<kid, status, quitFlag>>,
             pPc' = "done" <=> pPc = "done"
      PROVE  UNCHANGED <<Server, [c \in Clients |-> Session(c)]>>
  <2>1. UNCHANGED Server
    BY <1>b DEF Server
  <2>2. \A c \in Clients : Session(c)' = Session(c)
    BY <1>b, SessionKept
  <2> QED
    BY <2>1, <2>2, ServiceStutters
<1>1. CASE PAccept \/ PNoReturn \/ PTest
  BY <1>1, <1>b DEF PAccept, PNoReturn, PTest
<1>2. CASE PFork
  <2>1. /\ pPc = "fork" /\ pPc' = "reap" /\ UNCHANGED <<quitFlag, status>>
        /\ kid' \in {kid, [kid EXCEPT ![accepted] = "recv"]}
    BY <1>2 DEF PFork
  <2>2. ~quitFlag /\ kid[accepted] = "none"
    BY <2>1 DEF RInv, StopOrder, ComesOnce
  <2>3. Server = "up" /\ UNCHANGED Server
    BY <2>1, <2>2 DEF Server
  <2>4. CASE kid' = kid
    BY <1>b, <2>1, <2>4
  <2>5. CASE kid' = [kid EXCEPT ![accepted] = "recv"]
    <3>1. \A c \in Clients : c # accepted => Session(c)' = Session(c)
      BY <1>a, <2>1, <2>5, SessionKept
    <3>2. CASE accepted = Nobody
      <4>1. \A c \in Clients : Session(c)' = Session(c)
        BY <3>1, <3>2, NobodyAssumption
      <4> QED
        BY <2>3, <4>1, ServiceStutters
    <3>3. CASE accepted \in Clients
      <4>1. PICK c \in Clients : c = accepted
        BY <3>3
      <4>2. Session(c) = "none"
        BY <2>2, <4>1 DEF Session
      <4>3. kid'[c] = "recv"
        BY <1>a, <2>5, <4>1
      <4>4. Session(c)' = "open"
        BY <1>a, <4>3 DEF Session, Running
      <4>5. Service!Change(c, "none", "open")
        BY <2>3, <3>1, <4>1, <4>2, <4>4, ServiceChanges
      <4> QED
        BY <2>3, <4>5 DEF Service!Open, Service!Next
    <3> QED
      BY <1>a, <3>2, <3>3 DEF Kids
  <2> QED
    BY <2>1, <2>4, <2>5
<1>3. ASSUME NEW k \in Kids, PReturn(k)
      PROVE  [Service!Next]_<<Server, [c \in Clients |-> Session(c)]>>
  <2>1. /\ pPc = "reap" /\ pPc' = "reap" /\ status' = status
        /\ kid[k] = "zombie" /\ kid' = [kid EXCEPT ![k] = "reaped"]
        /\ quitFlag' = (quitFlag \/ status[k] = "four")
    BY <1>3 DEF PReturn, Collect
  <2>2. \A c \in Clients : Session(c)' = Session(c)
    BY <1>a, <2>1, SessionKept
  <2>3. CASE quitFlag' = quitFlag
    <3>1. UNCHANGED Server
      BY <2>1, <2>3 DEF Server
    <3> QED
      BY <2>2, <3>1, ServiceStutters
  <2>4. CASE ~quitFlag /\ quitFlag' /\ status[k] = "four"
    <3>1. Server = "up" /\ Server' = "stopping"
      BY <2>1, <2>4 DEF Server
    <3>2. k \in Clients
      BY <2>4 DEF RInv, EndedHasStatus, Kids
    <3>3. Session(k) = "quit"
      BY <2>1, <2>4 DEF Session, Running
    <3>4. UNCHANGED [c \in Clients |-> Session(c)]
      BY <2>2
    <3> QED
      BY <3>1, <3>2, <3>3, <3>4 DEF Service!Stop, Service!Next
  <2> QED
    BY <1>a, <2>1, <2>3, <2>4
<1>4. CASE PWait
  <2>1. pPc = "wait" /\ UNCHANGED <<pPc, quitFlag, status>>
    BY <1>4 DEF PWait
  <2>2. UNCHANGED Server
    BY <2>1 DEF Server
  <2>3. \/ kid' = kid
        \/ \E k \in Kids : kid[k] = "zombie" /\ kid' = [kid EXCEPT ![k] = "reaped"]
    BY <1>4 DEF PWait, Collect, Zombies
  <2>4. \A c \in Clients : Session(c)' = Session(c)
    BY <1>a, <2>1, <2>3, SessionKept
  <2> QED
    BY <2>2, <2>4, ServiceStutters
<1>5. CASE PExit
  <2>1. /\ pPc = "wait" /\ pPc' = "done" /\ childNum = 0
        /\ UNCHANGED <<kid, status, quitFlag>>
    BY <1>5 DEF PExit
  <2>2. quitFlag /\ Unreaped = {}
    BY <2>1, NoneLeft DEF RInv, StopOrder
  <2>3. Server = "stopping" /\ Server' = "down"
    BY <2>1, <2>2 DEF Server
  <2>4. \A c \in Clients : Session(c) # "open"
    BY <2>2 DEF Session, Unreaped
  <2>5. \A c \in Clients : Session(c)' = Session(c)
    BY <2>1, SessionKept
  <2>6. UNCHANGED [c \in Clients |-> Session(c)]
    BY <2>5
  <2> QED
    BY <2>3, <2>4, <2>6 DEF Service!Down, Service!Next
<1>6. ASSUME NEW k \in Kids,
             NEW from \in {"recv", "check", "send", "decide"},
             NEW to \in {"recv", "check", "send", "decide"},
             kid[k] = from, kid' = [kid EXCEPT ![k] = to],
             UNCHANGED <<pPc, quitFlag, status>>
      PROVE  UNCHANGED <<Server, [c \in Clients |-> Session(c)]>>
  <2>1. UNCHANGED Server
    BY <1>6 DEF Server
  <2>2. ASSUME NEW c \in Clients PROVE Session(c)' = Session(c)
    <3>1. CASE c = k
      <4>1. c \in Running /\ c \in Running'
        BY <1>a, <1>6, <3>1 DEF Running
      <4> QED
        BY <4>1, SessionKept
    <3>2. CASE c # k
      BY <1>a, <1>6, <3>2, SessionKept
    <3> QED
      BY <3>1, <3>2
  <2> QED
    BY <2>1, <2>2, ServiceStutters
<1>7. ASSUME NEW k \in Kids, NEW st \in {"one", "four", "signal"},
             kid[k] \in {"send", "decide"}, kid' = [kid EXCEPT ![k] = "zombie"],
             status' = [status EXCEPT ![k] = st],
             UNCHANGED <<pPc, quitFlag>>
      PROVE  [Service!Next]_<<Server, [c \in Clients |-> Session(c)]>>
  <2>1. UNCHANGED Server
    BY <1>7 DEF Server
  <2>2. \A c \in Clients : c # k => Session(c)' = Session(c)
    BY <1>a, <1>7, SessionKept
  <2>3. CASE k = Nobody
    <3>1. \A c \in Clients : Session(c)' = Session(c)
      BY <2>2, <2>3, NobodyAssumption
    <3> QED
      BY <2>1, <3>1, ServiceStutters
  <2>4. CASE k \in Clients
    <3>1. Session(k) = "open"
      BY <1>7, <2>4 DEF Session, Running, Kids
    <3>2. kid'[k] = "zombie" /\ status'[k] = st
      BY <1>a, <1>7
    <3>3. Session(k)' = IF st = "four" THEN "quit" ELSE "ended"
      BY <3>2 DEF Session, Running
    <3>4. Service!Change(k, "open", Session(k)')
      BY <2>1, <2>2, <2>4, <3>1, ServiceChanges
    <3>5. Service!End(k) \/ Service!Quit(k)
      BY <3>3, <3>4 DEF Service!End, Service!Quit
    <3> QED
      BY <2>4, <3>5 DEF Service!Next
  <2> QED
    BY <2>3, <2>4 DEF Kids
<1>8. ASSUME NEW k \in Kids, KRecv(k) \/ KCheck(k) \/ KSend(k)
      PROVE  UNCHANGED <<Server, [c \in Clients |-> Session(c)]>>
  <2>1. /\ kid[k] \in {"recv", "check", "send"}
        /\ \E to \in {"check", "send", "decide"} : kid' = [kid EXCEPT ![k] = to]
        /\ UNCHANGED <<pPc, quitFlag, status>>
    BY <1>8 DEF KRecv, KCheck, KSend
  <2> QED
    BY <1>6, <2>1
<1>9. ASSUME NEW k \in Kids, KSendLost(k)
      PROVE  [Service!Next]_<<Server, [c \in Clients |-> Session(c)]>>
  <2>1. kid[k] = "send" /\ UNCHANGED <<pPc, quitFlag>>
    BY <1>9 DEF KSendLost
  <2>2. \/ kid' = [kid EXCEPT ![k] = "decide"] /\ status' = status
        \/ /\ kid' = [kid EXCEPT ![k] = "zombie"]
           /\ status' = [status EXCEPT ![k] = "signal"]
    BY <1>9 DEF KSendLost
  <2> QED
    BY <1>6, <1>7, <2>1, <2>2
<1>10. ASSUME NEW k \in Kids, KDecide(k) \/ KAborts(k)
       PROVE  [Service!Next]_<<Server, [c \in Clients |-> Session(c)]>>
  <2>1. kid[k] = "decide" /\ UNCHANGED <<pPc, quitFlag>>
    BY <1>10 DEF KDecide, KAborts
  <2>2. \/ kid' = [kid EXCEPT ![k] = "recv"] /\ status' = status
        \/ \E st \in {"one", "four", "signal"} :
             /\ kid' = [kid EXCEPT ![k] = "zombie"]
             /\ status' = [status EXCEPT ![k] = st]
    BY <1>10 DEF KDecide, KAborts
  <2> QED
    BY <1>6, <1>7, <2>1, <2>2
<1>11. ASSUME NEW c \in Clients,
              \/ CConnect(c) \/ CReply(c) \/ CLost(c) \/ CInterrupted(c)
              \/ CEndOfInput(c)
              \/ \E line \in Typed : CType(c, line)
       PROVE  UNCHANGED <<Server, [d \in Clients |-> Session(d)]>>
  <2>1. UNCHANGED <<pPc, quitFlag, kid, status>>
    BY <1>11 DEF CConnect, CReply, CLost, CInterrupted,
     CEndOfInput, CType
  <2> QED
    BY <1>b, <2>1
<1>12. CASE UNCHANGED vars
  <2>1. UNCHANGED <<pPc, quitFlag, kid, status>>
    BY <1>12 DEF vars
  <2> QED
    BY <1>b, <2>1
<1> QED
  BY Steps, <1>1, <1>2, <1>3, <1>4, <1>5, <1>8, <1>9, <1>10, <1>11, <1>12

(* The server implements RPCService: sessions open only while it is up, it *)
(* stops only on a client's quit and goes down only after the last session *)
(* (backend.c:48-107).                                                     *)
THEOREM ServesAsPromised == Spec => ImplementsRPCService
<1>1. Init => Service!Init
  BY DEF Init, Service!Init, Server, Session, Kids
<1> QED
  BY Invariance, StepServes, <1>1, PTL
  DEF Spec, ImplementsRPCService, Service!Spec
=============================================================================
