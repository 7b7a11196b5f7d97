------------------------------ MODULE SUTProofs ------------------------------
(***************************************************************************)
(* Proofs about the user-level thread library, for every set of tasks and  *)
(* every bound on the calls they make.                                     *)
(***************************************************************************)
EXTENDS SUTLemmas

USE DEF Opening, Connecting

(* Requeueing a waiter keeps the queues sequences of tasks.                *)
LEMMA WakeHeadTypes ==
  ASSUME cQueue \in Seq(Tasks), waitQueue \in Seq(Tasks), WakeHead
  PROVE  /\ cQueue' \in Seq(Tasks) /\ waitQueue' \in Seq(Tasks)
         /\ fault' \in {fault, "nullWaiter"}
<1>1. CASE waitQueue = <<>>
  BY <1>1 DEF WakeHead
<1>2. CASE waitQueue # <<>>
  <2>1. Head(waitQueue) \in Tasks /\ Tail(waitQueue) \in Seq(Tasks)
    BY <1>2, HeadTailProperties
  <2>2. Append(cQueue, Head(waitQueue)) \in Seq(Tasks)
    BY <2>1
  <2>3. /\ cQueue' = Append(cQueue, Head(waitQueue))
        /\ waitQueue' = Tail(waitQueue)
        /\ fault' = fault
    BY <1>2 DEF WakeHead
  <2> QED
    BY <2>1, <2>2, <2>3
<1> QED
  BY <1>1, <1>2

(* The initial values have their types.                                    *)
LEMMA InitTypes == Init => TypeOK
<1> USE NoTaskAssumption, MaxOpsAssumption, FlagsAssumption
<1> SUFFICES ASSUME Init PROVE TypeOK
  OBVIOUS
<1>1. /\ cQueue \in Seq(Tasks) /\ waitQueue \in Seq(Tasks)
      /\ toIthread \in Seq(Request) /\ fromIthread \in Seq(Tasks)
  BY DEF Init
<1>2. /\ cPc = "getcontext" /\ next = NoTask
      /\ iPc = "pop" /\ nextIo = NoRequest
      /\ mainPc = "create" /\ fault = "none"
      /\ template \in BOOLEAN
      /\ shutdownFlag \in BOOLEAN /\ shutdownCFlag \in BOOLEAN
  BY DEF Init
<1>3. /\ host \in Destinations /\ port \in Destinations
      /\ target \in [host : Destinations, port : Destinations]
      /\ sock \in SocketStates
  BY DEF Init, SocketStates, Destinations, Nowhere, NoTarget
<1>4. /\ stage \in [Tasks -> {"unborn", "live", "finished"}]
      /\ reading \in [Tasks -> BOOLEAN] /\ saved \in [Tasks -> BOOLEAN]
      /\ ops \in [Tasks -> 0 .. MaxOps]
  BY DEF Init
<1> QED
  BY <1>1, <1>2, <1>3, <1>4
  DEF TypeOK, CLocations, ILocations, MainLocations, Faults, Opening,
      Connecting

(* Every step keeps them: TypeOK is inductive on its own.                  *)
LEMMA StepTypes == TypeOK /\ [Next]_vars => TypeOK'
<1> USE NoTaskAssumption, MaxOpsAssumption, FlagsAssumption
<1> SUFFICES ASSUME TypeOK, [Next]_vars PROVE TypeOK'
  OBVIOUS
<1> USE DEF TypeOK, CLocations, ILocations, MainLocations, SocketStates,
            Faults, Opening, Connecting, queues, flags, net, taskVars
<1>1. ASSUME NEW t \in Tasks, MainCreate(t) PROVE TypeOK'
  BY <1>1 DEF MainCreate, Create
<1>2. CASE MainShutdown
  BY <1>2 DEF MainShutdown
<1>3. CASE MainJoinC \/ MainJoinI
  BY <1>3 DEF MainJoinC, MainJoinI, MainJoin
<1>4. CASE CGetContext
  BY <1>4 DEF CGetContext
<1>5. CASE CPopTask
  <2>1. Head(cQueue) \in Tasks /\ Tail(cQueue) \in Seq(Tasks)
    BY <1>5, HeadTailProperties DEF CPopTask
  <2>2. saved' \in [Tasks -> BOOLEAN]
    BY <1>5, <2>1 DEF CPopTask
  <2> QED
    BY <1>5, <2>1, <2>2 DEF CPopTask
<1>6. CASE CPopNothing
  BY <1>6 DEF CPopNothing
<1>7. CASE CReadFlag
  BY <1>7 DEF CReadFlag
<1>8. CASE CCheckQueues
  BY <1>8 DEF CCheckQueues
<1>9. CASE CExit
  BY <1>9 DEF CExit
<1>10. ASSUME NEW t \in Tasks, TaskCreate(t) PROVE TypeOK'
  BY <1>10 DEF TaskCreate, Create, Calls, Running
<1>11. CASE TaskYield
  BY <1>11 DEF TaskYield, Calls, Running
<1>12. CASE TaskOpen \/ TaskCopied \/ TaskPort
  <2>1. next \in Tasks /\ Torn \in Destinations
    BY <1>12
    DEF TaskOpen, TaskCopied, TaskPort, Running, Torn, Destinations
  <2>2. Destination(next) \in Destinations
    <3>1. ops[next] \in Nat
      BY <2>1
    <3> QED
      BY <2>1, <3>1 DEF Destination, Destinations
  <2>3. host' \in Destinations /\ port' \in Destinations
    BY <1>12, <2>1, <2>2 DEF TaskOpen, TaskCopied, TaskPort
  <2>4. /\ next' = next /\ cPc' \in Opening /\ ops' \in [Tasks -> 0 .. MaxOps]
        /\ UNCHANGED <<cQueue, waitQueue, toIthread, fromIthread, template,
                       nextIo, iPc, mainPc, shutdownFlag, shutdownCFlag,
                       target, sock, stage, reading, saved, fault>>
    BY <1>12, <2>1 DEF TaskOpen, TaskCopied, TaskPort, Calls, Running
  <2> QED
    BY <2>1, <2>3, <2>4
<1>13. CASE TaskOpenPush
  BY <1>13 DEF TaskOpenPush, Running, Req, Request, Commands
<1>14. CASE TaskRead
  BY <1>14 DEF TaskRead, Calls, Running, Req, Request, Commands
<1>15. CASE TaskSwapOut
  BY <1>15 DEF TaskSwapOut, Running
<1>16. CASE TaskReadBack
  <2>1. fromIthread' \in Seq(Tasks)
    <3>1. fromIthread # <<>> => Tail(fromIthread) \in Seq(Tasks)
      BY HeadTailProperties
    <3> QED
      BY <1>16, <3>1 DEF TaskReadBack
  <2>2. reading' \in [Tasks -> BOOLEAN]
    BY <1>16 DEF TaskReadBack
  <2> QED
    BY <1>16, <2>1, <2>2 DEF TaskReadBack, Running
<1>17. CASE TaskWrite \/ TaskClose
  <2>1. PICK c \in Commands : TaskPost(c)
    BY <1>17 DEF TaskWrite, TaskClose, Commands
  <2>2. Req(c, next) \in Request
    BY <2>1 DEF TaskPost, Running, Req, Request
  <2> QED
    BY <2>1, <2>2 DEF TaskPost, Calls, Running
<1>18. CASE TaskExit
  BY <1>18 DEF TaskExit, Running
<1>19. CASE IPopRequest
  <2>1. Head(toIthread) \in Request /\ Tail(toIthread) \in Seq(Request)
    BY <1>19, HeadTailProperties DEF IPopRequest
  <2>2. Handler(Head(toIthread).command)
          \in {"connect", "send", "recv", "shut"}
    BY <2>1 DEF Handler, Request, Commands
  <2> QED
    BY <1>19, <2>1, <2>2 DEF IPopRequest
<1>20. CASE IPopNothing
  BY <1>20 DEF IPopNothing
<1>21. CASE IReadFlags
  BY <1>21 DEF IReadFlags
<1>22. CASE IReadHost \/ IReadPort \/ IConnect
  <2>1. target' \in [host : Destinations, port : Destinations]
    BY <1>22
    DEF IReadHost, IReadPort, IConnect, NoTarget, Nowhere, Destinations
  <2> QED
    BY <1>22, <2>1 DEF IReadHost, IReadPort, IConnect, ConnectOutcomes
<1>23. CASE IWake
  <2>1. cQueue' \in Seq(Tasks) /\ waitQueue' \in Seq(Tasks)
    BY <1>23, WakeHeadTypes DEF IWake
  <2>2. fault' \in Faults
    BY <1>23, WakeHeadTypes DEF IWake
  <2> QED
    BY <1>23, <2>1, <2>2 DEF IWake
<1>24. CASE IRecv
  BY <1>24 DEF IRecv
<1>25. CASE IDeliver
  <2>1. cQueue' \in Seq(Tasks) /\ waitQueue' \in Seq(Tasks)
    BY <1>25, WakeHeadTypes DEF IDeliver
  <2>2. fromIthread' \in Seq(Tasks)
    BY <1>25 DEF IDeliver, Request
  <2>3. fault' \in Faults /\ iPc' \in ILocations /\ nextIo' = nextIo
    BY <1>25, WakeHeadTypes DEF IDeliver
  <2> QED
    BY <1>25, <2>1, <2>2, <2>3 DEF IDeliver
<1>26. CASE ISend
  BY <1>26 DEF ISend
<1>27. CASE IShut
  BY <1>27 DEF IShut
<1>28. CASE UNCHANGED vars
  BY <1>28 DEF vars
<1> QED
  BY <1>1, <1>2, <1>3, <1>4, <1>5, <1>6, <1>7, <1>8, <1>9, <1>10, <1>11,
     <1>12, <1>13, <1>14, <1>15, <1>16, <1>17, <1>18, <1>19, <1>20, <1>21,
     <1>22, <1>23, <1>24, <1>25, <1>26, <1>27, <1>28
  DEF Next, MainCreates, MainStep, CExec, TaskStep, IExec, Stopped

(* The variables keep their types.                                         *)
THEOREM Typing == Spec => []TypeOK
  BY InitTypes, StepTypes, PTL DEF Spec
-----------------------------------------------------------------------------
(* The parts of Core, one lemma per kind of step.                          *)

(* Steps that leave the queues alone, start or end no service and keep     *)
(* every task where it is.                                                 *)
LEMMA QuietSteps ==
  ASSUME Alive, Core,
         UNCHANGED <<cQueue, waitQueue, toIthread, fromIthread, stage,
                     reading>>,
         \A t \in Tasks : OnProcessor(t)' <=> OnProcessor(t),
         IServesBlocking' <=> IServesBlocking,
         IServesBlocking => nextIo' = nextIo,
         (cPc' = "readback") <=> (cPc = "readback"),
         cPc = "readback" => next' = next,
         cPc' = "swap" => cPc = "swap" /\ next' = next
  PROVE  /\ EachTaskInOnePlace' /\ QueuedBeforeLeaving'
         /\ WaitersPaired' /\ AnswersPaired'
<1>1. EachTaskInOnePlace'
  BY DEF Core, EachTaskInOnePlace
<1>2. QueuedBeforeLeaving'
  BY DEF Core, QueuedBeforeLeaving
<1>3. WaitersPaired'
  BY DEF Core, WaitersPaired, Paired
<1>4. AnswersPaired'
  BY DEF Core, AnswersPaired, ReadersIn, Paired
<1> QED
  BY <1>1, <1>2, <1>3, <1>4

(* Where the running task and a task not yet created are not.              *)
LEMMA RunningIsNotQueued ==
  ASSUME Alive, Core, next \in Tasks, cPc \in {"task", "readback"} \cup Opening
  PROVE  /\ stage[next] = "live"
         /\ ~In(next, cQueue) /\ ~In(next, waitQueue)
  BY DEF Core, EachTaskInOnePlace, OnProcessor

(* A new task enters the ready queue.                                      *)
LEMMA CreateSteps ==
  ASSUME TypeOK, Alive, Core, NEW t \in Tasks, Create(t),
         LateCreate => template,
         mainPc = "create" \/ cPc = "task",
         UNCHANGED <<waitQueue, toIthread, fromIthread, template, next, cPc,
                     nextIo, iPc, mainPc, shutdownFlag, shutdownCFlag,
                     reading, fault>>
  PROVE  Core'
<1>0. /\ cQueue \in Seq(Tasks) /\ waitQueue \in Seq(Tasks)
      /\ stage \in [Tasks -> {"unborn", "live", "finished"}]
      /\ saved \in [Tasks -> BOOLEAN] /\ reading \in [Tasks -> BOOLEAN]
  BY DEF TypeOK
<1>1. /\ stage[t] = "unborn"
      /\ stage' = [stage EXCEPT ![t] = "live"]
      /\ saved' = [saved EXCEPT ![t] = template]
      /\ cQueue' = Append(cQueue, t)
  BY DEF Create
<1>2. /\ ~In(t, cQueue) /\ ~In(t, waitQueue) /\ ~OnProcessor(t)
      /\ ~reading[t]
  BY <1>1 DEF Core, EachTaskInOnePlace, ReadingAgrees
<1>3. /\ \A u : In(u, cQueue') <=> In(u, cQueue) \/ u = t
      /\ Distinct(cQueue) => Distinct(cQueue')
  BY <1>0, <1>1, <1>2, InAppend
<1>4. EachTaskInOnePlace'
  BY <1>0, <1>1, <1>2, <1>3 DEF Core, EachTaskInOnePlace, OnProcessor
<1>5. QueuedBeforeLeaving'
  BY <1>3 DEF Core, QueuedBeforeLeaving
<1>6. WaitersPaired'
  BY DEF Core, WaitersPaired, IServesBlocking
<1>7. AnswersPaired'
  <2>1. ReadersIn(cQueue)' = ReadersIn(cQueue)
    <3>1. ReadersIn(Append(cQueue, t)) = ReadersIn(cQueue)
      BY <1>0, <1>2, ReadersAppend
    <3> QED
      BY <1>1, <3>1 DEF ReadersIn
  <2>2. /\ ReadersIn(cQueue) \in SUBSET DOMAIN cQueue
        /\ Paired(cQueue, ReadersIn(cQueue), fromIthread,
                  cPc = "readback", next)
    BY DEF Core, AnswersPaired, ReadersIn
  <2>3. Paired(Append(cQueue, t), ReadersIn(cQueue), fromIthread,
               cPc = "readback", next)
    BY <1>0, <2>2, PairedSkip
  <2> QED
    BY <1>1, <2>1, <2>3 DEF AnswersPaired
<1>8. ReadingAgrees'
  BY <1>0, <1>1 DEF Core, ReadingAgrees, BlockingIn
<1>9. SavedUnlessLeaving'
  BY <1>0, <1>1, <1>3 DEF Core, SavedUnlessLeaving
<1>10. ShutdownOrder'
  BY <1>1 DEF Core, ShutdownOrder
<1> QED
  BY <1>4, <1>5, <1>6, <1>7, <1>8, <1>9, <1>10 DEF Core

(* The running task goes to the tail of the ready queue.                   *)
LEMMA YieldStep ==
  ASSUME TypeOK, Alive, Core, TaskYield
  PROVE  Core'
<1>0. /\ cQueue \in Seq(Tasks) /\ next \in Tasks /\ cPc = "task"
      /\ cQueue' = Append(cQueue, next) /\ cPc' = "swap"
      /\ UNCHANGED <<waitQueue, toIthread, fromIthread, template, next,
                     nextIo, iPc, mainPc, shutdownFlag, shutdownCFlag,
                     stage, reading, saved, fault>>
  BY DEF TypeOK, TaskYield, Running, flags
<1>1. /\ stage[next] = "live"
      /\ ~In(next, cQueue) /\ ~In(next, waitQueue) /\ ~reading[next]
  BY <1>0, RunningIsNotQueued DEF Core, ReadingAgrees
<1>2. /\ \A u : In(u, cQueue') <=> In(u, cQueue) \/ u = next
      /\ Distinct(cQueue) => Distinct(cQueue')
  BY <1>0, <1>1, InAppend
<1>3. EachTaskInOnePlace'
  BY <1>0, <1>1, <1>2 DEF Core, EachTaskInOnePlace, OnProcessor
<1>4. QueuedBeforeLeaving'
  BY <1>0, <1>2 DEF QueuedBeforeLeaving
<1>5. WaitersPaired'
  BY <1>0 DEF Core, WaitersPaired, IServesBlocking
<1>6. AnswersPaired'
  <2>1. ReadersIn(cQueue)' = ReadersIn(cQueue)
    <3>1. ReadersIn(Append(cQueue, next)) = ReadersIn(cQueue)
      BY <1>0, <1>1, ReadersAppend
    <3> QED
      BY <1>0, <3>1 DEF ReadersIn
  <2>2. /\ ReadersIn(cQueue) \in SUBSET DOMAIN cQueue
        /\ Paired(cQueue, ReadersIn(cQueue), fromIthread, FALSE, next)
    BY <1>0 DEF Core, AnswersPaired, ReadersIn
  <2>3. Paired(Append(cQueue, next), ReadersIn(cQueue), fromIthread,
               FALSE, next)
    BY <1>0, <2>2, PairedSkip
  <2> QED
    BY <1>0, <2>1, <2>3 DEF AnswersPaired
<1>7. ReadingAgrees'
  BY <1>0 DEF Core, ReadingAgrees, BlockingIn
<1>8. SavedUnlessLeaving'
  BY <1>0, <1>2 DEF Core, SavedUnlessLeaving
<1>9. ShutdownOrder'
  BY <1>0 DEF Core, ShutdownOrder
<1> QED
  BY <1>3, <1>4, <1>5, <1>6, <1>7, <1>8, <1>9 DEF Core

(* The running task queues a request that blocks, and itself to wait.      *)
LEMMA BlockSteps ==
  ASSUME TypeOK, Alive, Core, TaskOpenPush \/ TaskRead
  PROVE  Core'
<1> DEFINE command == IF cPc = "opening" THEN "open" ELSE "read"
<1> DEFINE r == Req(command, next)
<1>0. /\ waitQueue \in Seq(Tasks) /\ toIthread \in Seq(Request)
      /\ next \in Tasks /\ cPc \in {"opening", "task"} /\ cPc' = "swap"
      /\ reading \in [Tasks -> BOOLEAN]
      /\ toIthread' = Append(toIthread, r)
      /\ waitQueue' = Append(waitQueue, next)
      /\ UNCHANGED <<cQueue, fromIthread, template, next, nextIo, iPc, mainPc,
                     shutdownFlag, shutdownCFlag, stage, saved, fault>>
  BY DEF TypeOK, TaskOpenPush, TaskRead, Running, flags, taskVars
<1>1. /\ r \in Request /\ r.task = next /\ Blocking(r)
      /\ r.command = "read" <=> cPc = "task"
  BY <1>0 DEF Req, Request, Commands, Blocking
<1>2. \/ cPc = "opening" /\ reading' = reading
      \/ cPc = "task" /\ reading' = [reading EXCEPT ![next] = TRUE]
  BY DEF TaskOpenPush, TaskRead, Running, taskVars
<1> HIDE DEF r, command
<1>3. /\ stage[next] = "live" /\ ~reading[next]
      /\ ~In(next, cQueue) /\ ~In(next, waitQueue)
  <2>1. CASE cPc = "task"
    BY <1>0, <2>1, RunningIsNotQueued DEF Core, ReadingAgrees
  <2>2. CASE cPc = "opening"
    BY <1>0, <2>2 DEF Core, EachTaskInOnePlace, OnProcessor, ReadingAgrees
  <2> QED
    BY <1>0, <2>1, <2>2
<1>4. /\ \A u : In(u, waitQueue') <=> In(u, waitQueue) \/ u = next
      /\ Distinct(waitQueue) => Distinct(waitQueue')
  BY <1>0, <1>3, InAppend
<1>5. EachTaskInOnePlace'
  BY <1>0, <1>3, <1>4 DEF Core, EachTaskInOnePlace, OnProcessor
<1>6. QueuedBeforeLeaving'
  BY <1>0, <1>4 DEF QueuedBeforeLeaving
<1>7. /\ Owners(toIthread) \in Seq(Tasks)
      /\ Len(Owners(toIthread)) = Len(toIthread)
      /\ DOMAIN Owners(toIthread) = DOMAIN toIthread
      /\ \A i \in DOMAIN toIthread : Owners(toIthread)[i] = toIthread[i].task
      /\ BlockingIn(toIthread) \in SUBSET DOMAIN Owners(toIthread)
  BY <1>0, OwnersType
<1>8. /\ Owners(toIthread') = Append(Owners(toIthread), next)
      /\ BlockingIn(toIthread') =
             BlockingIn(toIthread) \cup {Len(Owners(toIthread)) + 1}
  BY <1>0, <1>1, <1>7, OwnersAppend
<1>9. WaitersPaired'
  <2>1. Paired(Owners(toIthread), BlockingIn(toIthread), waitQueue,
               IServesBlocking, nextIo.task)
    BY DEF Core, WaitersPaired
  <2>2. Paired(Append(Owners(toIthread), next),
               BlockingIn(toIthread) \cup {Len(Owners(toIthread)) + 1},
               Append(waitQueue, next), IServesBlocking, nextIo.task)
    <3>1. IServesBlocking \in BOOLEAN
      BY DEF IServesBlocking
    <3> QED
      BY <1>0, <1>3, <1>7, <2>1, <3>1, PairedAppend
  <2> QED
    BY <1>0, <1>8, <2>2 DEF WaitersPaired, IServesBlocking
<1>10. \A i \in BlockingIn(toIthread) : toIthread[i].task # next
  <2> SUFFICES ASSUME NEW i \in BlockingIn(toIthread)
               PROVE  toIthread[i].task # next
    OBVIOUS
  <2>1. Owners(toIthread)[i] = toIthread[i].task
    BY <1>7
  <2>2. \E k \in DOMAIN waitQueue : waitQueue[k] = Owners(toIthread)[i]
    BY DEF Core, WaitersPaired, Paired
  <2> QED
    BY <1>3, <2>1, <2>2 DEF In
<1>11. \A t \in Tasks : t # next => reading'[t] = reading[t]
  BY <1>0, <1>2
<1>12. AnswersPaired'
  <2>1. ReadersIn(cQueue)' = ReadersIn(cQueue)
    <3>1. ASSUME NEW k \in DOMAIN cQueue
          PROVE  reading'[cQueue[k]] = reading[cQueue[k]]
      <4>1. cQueue[k] \in Tasks
        BY LenProperties, ElementOfSeq DEF TypeOK
      <4> QED
        BY <1>3, <1>11, <4>1 DEF In
    <3> QED
      BY <1>0, <3>1 DEF ReadersIn
  <2> QED
    BY <1>0, <2>1 DEF Core, AnswersPaired
<1>13. ReadingAgrees'
  <2>1. \A i \in BlockingIn(toIthread') :
           reading'[toIthread'[i].task] <=> toIthread'[i].command = "read"
    <3> SUFFICES ASSUME NEW i \in BlockingIn(toIthread')
                 PROVE  reading'[toIthread'[i].task]
                          <=> toIthread'[i].command = "read"
      OBVIOUS
    <3>1. CASE i = Len(toIthread) + 1
      <4>1. toIthread'[i] = r
        BY <1>0, <1>1, <3>1, AppendElements
      <4> QED
        BY <1>0, <1>1, <1>2, <1>3, <4>1
    <3>2. CASE i \in BlockingIn(toIthread)
      <4>1. i \in 1 .. Len(toIthread)
        BY <1>0, <3>2, LenProperties DEF BlockingIn
      <4>2. toIthread'[i] = toIthread[i]
        <5>1. /\ Len(toIthread) \in Nat
              /\ \A j \in 1 .. Len(toIthread) :
                    Append(toIthread, r)[j] = toIthread[j]
          BY <1>0, <1>1, AppendElements
        <5> QED
          BY <1>0, <4>1, <5>1
      <4>3. toIthread[i].task \in Tasks
        <5>1. toIthread[i] \in Request
          BY <1>0, <4>1, ElementOfSeq
        <5> QED
          BY <5>1 DEF Request
      <4>4. reading[toIthread[i].task] <=> toIthread[i].command = "read"
        BY <3>2 DEF Core, ReadingAgrees
      <4>5. reading'[toIthread[i].task] = reading[toIthread[i].task]
        BY <1>10, <1>11, <3>2, <4>3
      <4> QED
        BY <4>2, <4>4, <4>5
    <3> QED
      BY <1>7, <1>8, <3>1, <3>2
  <2>2. IServesBlocking => nextIo.task \in Tasks /\ nextIo.task # next
    <3>1. IServesBlocking => /\ 1 \in DOMAIN waitQueue
                             /\ waitQueue[1] = nextIo.task
      BY <1>0, EmptySeq, LenProperties DEF Core, WaitersPaired, Paired
    <3>2. 1 \in DOMAIN waitQueue => waitQueue[1] \in Tasks
      BY <1>0, LenProperties, ElementOfSeq
    <3> QED
      BY <1>3, <3>1, <3>2 DEF In
  <2>3. \A t \in Tasks : reading'[t] => stage[t] = "live"
    BY <1>3, <1>11 DEF Core, ReadingAgrees
  <2> QED
    BY <1>0, <1>11, <2>1, <2>2, <2>3
    DEF Core, ReadingAgrees, IServesBlocking
<1>14. SavedUnlessLeaving'
  BY <1>0, <1>4 DEF Core, SavedUnlessLeaving
<1>15. ShutdownOrder'
  BY <1>0 DEF Core, ShutdownOrder
<1> QED
  BY <1>5, <1>6, <1>9, <1>12, <1>13, <1>14, <1>15 DEF Core

(* The running task leaves a request behind and goes on.                   *)
LEMMA PostStep ==
  ASSUME TypeOK, Alive, Core, NEW c \in {"write", "close"}, TaskPost(c)
  PROVE  Core'
<1> DEFINE r == Req(c, next)
<1>0. /\ toIthread \in Seq(Request) /\ next \in Tasks
      /\ toIthread' = Append(toIthread, r)
      /\ UNCHANGED <<cQueue, waitQueue, fromIthread, template, next, cPc,
                     nextIo, iPc, mainPc, shutdownFlag, shutdownCFlag, stage,
                     reading, saved, fault>>
  BY DEF TypeOK, TaskPost, Running, flags
<1>1. r \in Request /\ r.task = next /\ ~Blocking(r)
  BY <1>0 DEF Req, Request, Commands, Blocking
<1> HIDE DEF r
<1>2. /\ Owners(toIthread) \in Seq(Tasks)
      /\ DOMAIN Owners(toIthread) = DOMAIN toIthread
      /\ BlockingIn(toIthread) \in SUBSET DOMAIN Owners(toIthread)
  BY <1>0, OwnersType
<1>3. /\ Owners(toIthread') = Append(Owners(toIthread), next)
      /\ BlockingIn(toIthread') = BlockingIn(toIthread)
  BY <1>0, <1>1, OwnersAppend
<1>4. WaitersPaired'
  <2>1. Paired(Owners(toIthread), BlockingIn(toIthread), waitQueue,
               IServesBlocking, nextIo.task)
    BY DEF Core, WaitersPaired
  <2>2. IServesBlocking \in BOOLEAN
    BY DEF IServesBlocking
  <2>3. Paired(Append(Owners(toIthread), next), BlockingIn(toIthread),
               waitQueue, IServesBlocking, nextIo.task)
    BY <1>0, <1>2, <2>1, <2>2, PairedSkip
  <2> QED
    BY <1>0, <1>3, <2>3 DEF WaitersPaired, IServesBlocking
<1>5. ReadingAgrees'
  <2>1. ASSUME NEW i \in BlockingIn(toIthread')
        PROVE  reading[toIthread'[i].task] <=> toIthread'[i].command = "read"
    <3>1. i \in BlockingIn(toIthread) /\ i \in 1 .. Len(toIthread)
      BY <1>0, <1>3, <2>1, LenProperties DEF BlockingIn
    <3>2. toIthread'[i] = toIthread[i]
      BY <1>0, <1>1, <3>1, AppendElements
    <3> QED
      BY <3>1, <3>2 DEF Core, ReadingAgrees
  <2> QED
    BY <1>0, <2>1 DEF Core, ReadingAgrees
<1>6. EachTaskInOnePlace' /\ QueuedBeforeLeaving' /\ AnswersPaired'
  BY <1>0 DEF Core, EachTaskInOnePlace, OnProcessor, QueuedBeforeLeaving,
              AnswersPaired, ReadersIn
<1>7. SavedUnlessLeaving' /\ ShutdownOrder'
  BY <1>0 DEF Core, SavedUnlessLeaving, ShutdownOrder
<1> QED
  BY <1>4, <1>5, <1>6, <1>7 DEF Core

(* A reader finds its own answer and takes it.                             *)
LEMMA ReadBackStep ==
  ASSUME TypeOK, Alive, Core, TaskReadBack
  PROVE  Core' /\ fault' = "none"
<1>0. /\ cQueue \in Seq(Tasks) /\ waitQueue \in Seq(Tasks)
      /\ fromIthread \in Seq(Tasks) /\ next \in Tasks /\ cPc = "readback"
      /\ reading \in [Tasks -> BOOLEAN] /\ fault = "none"
      /\ toIthread \in Seq(Request)
  BY DEF TypeOK, TaskReadBack, Running, Alive
<1>1. Paired(cQueue, ReadersIn(cQueue), fromIthread, TRUE, next)
  BY <1>0 DEF Core, AnswersPaired
<1>2. /\ fromIthread' = Tail(fromIthread) /\ cPc' = "task"
      /\ reading' = [reading EXCEPT ![next] = FALSE] /\ fault' = fault
      /\ UNCHANGED <<cQueue, waitQueue, toIthread, template, next, nextIo,
                     iPc, mainPc, shutdownFlag, shutdownCFlag, stage, saved>>
  BY <1>1 DEF Paired, TaskReadBack, flags
<1>3. /\ stage[next] = "live" /\ ~In(next, cQueue) /\ ~In(next, waitQueue)
  BY <1>0, RunningIsNotQueued
<1>4. EachTaskInOnePlace' /\ QueuedBeforeLeaving' /\ WaitersPaired'
  BY <1>0, <1>2 DEF Core, EachTaskInOnePlace, OnProcessor,
                    QueuedBeforeLeaving, WaitersPaired, IServesBlocking
<1>5. \A t \in Tasks : t # next => reading'[t] = reading[t]
  BY <1>0, <1>2
<1>6. AnswersPaired'
  <2>1. ReadersIn(cQueue)' = ReadersIn(cQueue)
    <3>1. ASSUME NEW k \in DOMAIN cQueue
          PROVE  reading'[cQueue[k]] = reading[cQueue[k]]
      <4>1. cQueue[k] \in Tasks
        BY <1>0, LenProperties, ElementOfSeq
      <4> QED
        BY <1>3, <1>5, <4>1 DEF In
    <3> QED
      BY <1>2, <3>1 DEF ReadersIn
  <2>2. ReadersIn(cQueue) \in SUBSET Nat
    BY <1>0, LenProperties DEF ReadersIn
  <2>3. Paired(cQueue, ReadersIn(cQueue), Tail(fromIthread), FALSE, next)
    BY <1>0, <1>1, <2>2, PairedDone
  <2> QED
    BY <1>2, <2>1, <2>3 DEF AnswersPaired
<1>7. \A k \in DOMAIN waitQueue : /\ waitQueue[k] \in Tasks
                                 /\ waitQueue[k] # next
  BY <1>0, <1>3, LenProperties, ElementOfSeq DEF In
<1>8. ReadingAgrees'
  <2>1. ASSUME NEW i \in BlockingIn(toIthread)
        PROVE  reading'[toIthread[i].task] <=> toIthread[i].command = "read"
    <3>1. Owners(toIthread)[i] = toIthread[i].task
      BY <1>0, OwnersType DEF BlockingIn
    <3>2. \E k \in DOMAIN waitQueue : waitQueue[k] = Owners(toIthread)[i]
      BY DEF Core, WaitersPaired, Paired
    <3>3. reading'[toIthread[i].task] = reading[toIthread[i].task]
      BY <1>5, <1>7, <3>1, <3>2
    <3> QED
      BY <3>3 DEF Core, ReadingAgrees
  <2>2. IServesBlocking => reading'[nextIo.task] = reading[nextIo.task]
    <3>1. IServesBlocking => /\ 1 \in DOMAIN waitQueue
                             /\ waitQueue[1] = nextIo.task
      BY <1>0, EmptySeq, LenProperties DEF Core, WaitersPaired, Paired
    <3> QED
      BY <1>5, <1>7, <3>1
  <2>3. \A t \in Tasks : reading'[t] => stage[t] = "live"
    BY <1>3, <1>5 DEF Core, ReadingAgrees
  <2>4. ~reading'[next]
    BY <1>0, <1>2
  <2> QED
    BY <1>2, <2>1, <2>2, <2>3, <2>4
    DEF Core, ReadingAgrees, BlockingIn, IServesBlocking
<1>9. SavedUnlessLeaving' /\ ShutdownOrder'
  BY <1>0, <1>2 DEF Core, SavedUnlessLeaving, ShutdownOrder
<1> QED
  BY <1>0, <1>2, <1>4, <1>6, <1>8, <1>9 DEF Core

(* C-EXEC takes the head of the ready queue.                               *)
LEMMA PopTaskStep ==
  ASSUME TypeOK, Alive, Core, CPopTask
  PROVE  /\ Alive' => Core'
         /\ fault' \in {"none", "badContext"}
         /\ LateCreate => fault' = "none"
<1> DEFINE h == Head(cQueue)
<1>0. /\ cQueue \in Seq(Tasks) /\ cQueue # <<>> /\ fault = "none"
      /\ fromIthread \in Seq(Tasks) /\ saved \in [Tasks -> BOOLEAN]
      /\ cPc = "pop" /\ next' = h /\ cQueue' = Tail(cQueue)
      /\ UNCHANGED <<waitQueue, toIthread, fromIthread, template, nextIo, iPc,
                     mainPc, shutdownFlag, shutdownCFlag, stage, reading>>
  BY DEF TypeOK, CPopTask, Alive, flags
<1>1. \/ /\ saved[h] /\ saved' = [saved EXCEPT ![h] = FALSE]
         /\ cPc' = IF reading[h] THEN "readback" ELSE "task"
         /\ fault' = fault
      \/ ~saved[h] /\ fault' = "badContext"
  BY DEF CPopTask
<1> HIDE DEF h
<1>2. /\ In(h, cQueue) /\ ~In(h, cQueue')
      /\ \A u : In(u, cQueue') <=> In(u, cQueue) /\ u # h
      /\ Distinct(cQueue') /\ h \in Tasks
  BY <1>0, InTail, TailElements DEF h, Core, EachTaskInOnePlace
<1>3. ASSUME LateCreate PROVE fault' = "none"
  BY <1>0, <1>1, <1>2, <1>3 DEF Core, SavedUnlessLeaving
<1>4. ASSUME Alive' PROVE Core'
  <2>1. /\ saved' = [saved EXCEPT ![h] = FALSE] /\ fault' = fault
        /\ cPc' = IF reading[h] THEN "readback" ELSE "task"
    BY <1>1, <1>4 DEF Alive
  <2>2. ~In(h, waitQueue) /\ stage[h] = "live"
    BY <1>2 DEF Core, EachTaskInOnePlace
  <2>3. EachTaskInOnePlace'
    BY <1>0, <1>2, <2>1, <2>2 DEF Core, EachTaskInOnePlace, OnProcessor
  <2>4. QueuedBeforeLeaving'
    BY <2>1 DEF QueuedBeforeLeaving
  <2>5. WaitersPaired'
    BY <1>0 DEF Core, WaitersPaired, IServesBlocking
  <2>6. AnswersPaired'
    <3>1. ReadersIn(cQueue)' =
            {i \in DOMAIN Tail(cQueue) : i + 1 \in ReadersIn(cQueue)}
      <4>1. ReadersIn(cQueue)' = ReadersIn(Tail(cQueue))
        BY <1>0 DEF ReadersIn
      <4> QED
        BY <1>0, <4>1, ReadersTail
    <3>2. 1 \in ReadersIn(cQueue) <=> reading[h]
      BY <1>0, ReadersTail DEF h
    <3>3. /\ ReadersIn(cQueue) \in SUBSET DOMAIN cQueue
          /\ Paired(cQueue, ReadersIn(cQueue), fromIthread, FALSE, next)
      BY <1>0 DEF Core, AnswersPaired, ReadersIn
    <3>4. CASE reading[h]
      <4>1. Paired(Tail(cQueue), ReadersIn(cQueue)', fromIthread, TRUE, h)
        BY <1>0, <3>1, <3>2, <3>3, <3>4, PairedPop DEF h
      <4> QED
        BY <1>0, <2>1, <3>4, <4>1 DEF AnswersPaired
    <3>5. CASE ~reading[h]
      <4>1. Paired(Tail(cQueue), ReadersIn(cQueue)', fromIthread, FALSE, next)
        BY <1>0, <3>1, <3>2, <3>3, <3>5, PairedPopOther
      <4>2. Paired(Tail(cQueue), ReadersIn(cQueue)', fromIthread, FALSE, h)
        BY <4>1, PairedIdle
      <4> QED
        BY <1>0, <2>1, <3>5, <4>2 DEF AnswersPaired
    <3> QED
      BY <3>4, <3>5
  <2>7. ReadingAgrees'
    BY <1>0, <2>1 DEF Core, ReadingAgrees, BlockingIn
  <2>8. SavedUnlessLeaving'
    BY <1>0, <1>2, <2>1, <2>2 DEF Core, SavedUnlessLeaving
  <2>9. ShutdownOrder'
    BY <1>0, <2>1 DEF Core, ShutdownOrder
  <2> QED
    BY <2>3, <2>4, <2>5, <2>6, <2>7, <2>8, <2>9 DEF Core
<1> QED
  BY <1>0, <1>1, <1>3, <1>4

(* I-EXEC takes the head request.                                          *)
LEMMA PopRequestStep ==
  ASSUME TypeOK, Alive, Core, IPopRequest
  PROVE  Core'
<1> DEFINE r == Head(toIthread)
<1>0. /\ toIthread \in Seq(Request) /\ toIthread # <<>>
      /\ waitQueue \in Seq(Tasks)
      /\ iPc = "pop" /\ nextIo' = r /\ toIthread' = Tail(toIthread)
      /\ iPc' = Handler(r.command)
      /\ UNCHANGED <<cQueue, waitQueue, fromIthread, template, next, cPc,
                     mainPc, shutdownFlag, shutdownCFlag, stage, reading,
                     saved, fault>>
  BY DEF TypeOK, IPopRequest, flags, taskVars
<1>1. /\ r \in Request /\ r = toIthread[1]
      /\ 1 \in DOMAIN toIthread
      /\ toIthread' \in Seq(Request)
      /\ DOMAIN toIthread' = 1 .. Len(toIthread) - 1
      /\ DOMAIN toIthread = 1 .. Len(toIthread) /\ Len(toIthread) \in Nat
      /\ \A i \in 1 .. Len(toIthread) - 1 : toIthread'[i] = toIthread[i + 1]
  BY <1>0, TailElements
<1> HIDE DEF r
<1>2. /\ iPc' \in {"connect", "send", "recv", "shut"}
      /\ iPc' = "connect" <=> r.command = "open"
      /\ iPc' = "recv" <=> r.command = "read"
      /\ IServesBlocking' <=> Blocking(r)
  BY <1>0, <1>1 DEF Handler, Request, Commands, IServesBlocking, Blocking
<1>3. WaitersPaired'
  <2>1. /\ Owners(toIthread) \in Seq(Tasks) /\ Owners(toIthread) # <<>>
        /\ Owners(toIthread') = Tail(Owners(toIthread))
        /\ Head(Owners(toIthread)) = r.task
        /\ 1 \in BlockingIn(toIthread) <=> Blocking(r)
        /\ BlockingIn(toIthread') =
              {i \in DOMAIN Tail(Owners(toIthread)) :
                  i + 1 \in BlockingIn(toIthread)}
        /\ BlockingIn(toIthread) \in SUBSET DOMAIN Owners(toIthread)
    BY <1>0, OwnersType, OwnersTail DEF r
  <2>2. Paired(Owners(toIthread), BlockingIn(toIthread), waitQueue, FALSE,
               nextIo.task)
    BY <1>0 DEF Core, WaitersPaired, IServesBlocking, Paired
  <2>3. CASE Blocking(r)
    <3>1. Paired(Owners(toIthread'), BlockingIn(toIthread'), waitQueue, TRUE,
                 r.task)
      BY <1>0, <2>1, <2>2, <2>3, PairedPop
    <3> QED
      BY <1>0, <1>2, <2>3, <3>1 DEF WaitersPaired, Paired
  <2>4. CASE ~Blocking(r)
    <3>1. Paired(Owners(toIthread'), BlockingIn(toIthread'), waitQueue, FALSE,
                 nextIo.task)
      BY <1>0, <2>1, <2>2, <2>4, PairedPopOther
    <3> QED
      BY <1>0, <1>2, <2>4, <3>1 DEF WaitersPaired, Paired
  <2> QED
    BY <2>3, <2>4
<1>4. ReadingAgrees'
  <2>1. ASSUME NEW i \in BlockingIn(toIthread')
        PROVE  reading[toIthread'[i].task] <=> toIthread'[i].command = "read"
    <3>1. i \in 1 .. Len(toIthread) - 1 /\ Blocking(toIthread'[i])
      BY <1>1 DEF BlockingIn
    <3>2. i + 1 \in BlockingIn(toIthread) /\ toIthread'[i] = toIthread[i + 1]
      BY <1>1, <3>1 DEF BlockingIn
    <3> QED
      BY <3>2 DEF Core, ReadingAgrees
  <2>2. Blocking(r) => (reading[r.task] <=> r.command = "read")
    BY <1>1 DEF Core, ReadingAgrees, BlockingIn
  <2>3. /\ iPc' \in {"wake"} \cup Connecting => ~reading[r.task]
        /\ iPc' \in {"recv", "deliver"} => reading[r.task]
    BY <1>2, <2>2 DEF Blocking
  <2> QED
    BY <1>0, <2>1, <2>3 DEF Core, ReadingAgrees
<1>5. EachTaskInOnePlace' /\ QueuedBeforeLeaving' /\ AnswersPaired'
  BY <1>0 DEF Core, EachTaskInOnePlace, OnProcessor, QueuedBeforeLeaving,
              AnswersPaired, ReadersIn
<1>6. SavedUnlessLeaving' /\ ShutdownOrder'
  BY <1>0, <1>2 DEF Core, SavedUnlessLeaving, ShutdownOrder
<1> QED
  BY <1>3, <1>4, <1>5, <1>6 DEF Core

(* I-EXEC requeues the task it served: the waiter is there, and it is the  *)
(* task that asked.                                                        *)
LEMMA WakeSteps ==
  ASSUME TypeOK, Alive, Core, IWake \/ IDeliver
  PROVE  Core' /\ fault' = "none"
<1> DEFINE w == nextIo.task
<1>0. /\ cQueue \in Seq(Tasks) /\ waitQueue \in Seq(Tasks)
      /\ fromIthread \in Seq(Tasks) /\ toIthread \in Seq(Request)
      /\ iPc \in {"wake", "deliver"} /\ iPc' = "pop" /\ WakeHead
      /\ fault = "none"
      /\ UNCHANGED <<toIthread, template, next, cPc, nextIo, mainPc,
                     shutdownFlag, shutdownCFlag, stage, reading, saved>>
  BY DEF TypeOK, IWake, IDeliver, Alive, flags, taskVars
<1>1. Paired(Owners(toIthread), BlockingIn(toIthread), waitQueue, TRUE, w)
  BY <1>0 DEF Core, WaitersPaired, IServesBlocking, Paired
<1>2. waitQueue # <<>> /\ waitQueue[1] = w
  BY <1>1 DEF Paired
<1>3. Head(waitQueue) = w /\ w \in Tasks
  BY <1>0, <1>2, TailElements
<1>4. /\ cQueue' = Append(cQueue, w) /\ waitQueue' = Tail(waitQueue)
      /\ fault' = fault
  BY <1>0, <1>2, <1>3 DEF WakeHead
<1>5. /\ In(w, waitQueue) /\ ~In(w, waitQueue') /\ Distinct(waitQueue')
      /\ \A u : In(u, waitQueue') <=> In(u, waitQueue) /\ u # w
  BY <1>0, <1>2, <1>3, <1>4, InTail DEF Core, EachTaskInOnePlace
<1>6. ~In(w, cQueue) /\ ~OnProcessor(w) /\ stage[w] = "live"
  BY <1>3, <1>5 DEF Core, EachTaskInOnePlace
<1>7. /\ \A u : In(u, cQueue') <=> In(u, cQueue) \/ u = w
      /\ Distinct(cQueue) => Distinct(cQueue')
  BY <1>0, <1>3, <1>4, <1>6, InAppend
<1> HIDE DEF w
<1>8. EachTaskInOnePlace'
  BY <1>0, <1>3, <1>4, <1>5, <1>6, <1>7
  DEF Core, EachTaskInOnePlace, OnProcessor
<1>9. QueuedBeforeLeaving'
  BY <1>0, <1>5, <1>7 DEF Core, QueuedBeforeLeaving
<1>10. WaitersPaired'
  <2>1. BlockingIn(toIthread) \in SUBSET Nat
    BY <1>0, LenProperties DEF BlockingIn
  <2>2. Paired(Owners(toIthread), BlockingIn(toIthread), Tail(waitQueue),
               FALSE, w)
    BY <1>0, <1>1, <2>1, PairedDone
  <2>3. ~IServesBlocking'
    BY <1>0 DEF IServesBlocking
  <2> QED
    BY <1>0, <1>4, <2>2, <2>3 DEF WaitersPaired, Paired
<1>11. AnswersPaired'
  <2>1. /\ ReadersIn(cQueue) \in SUBSET DOMAIN cQueue
        /\ (cPc = "readback") \in BOOLEAN
        /\ Paired(cQueue, ReadersIn(cQueue), fromIthread,
                  cPc = "readback", next)
    BY DEF Core, AnswersPaired, ReadersIn
  <2>2. ReadersIn(cQueue)' =
          ReadersIn(cQueue) \cup IF reading[w] THEN {Len(cQueue) + 1} ELSE {}
    <3>1. ReadersIn(cQueue)' = ReadersIn(Append(cQueue, w))
      BY <1>0, <1>4 DEF ReadersIn
    <3> QED
      BY <1>0, <1>3, <3>1, ReadersAppend
  <2>3. CASE iPc = "wake"
    <3>1. ~reading[w] /\ fromIthread' = fromIthread
      BY <2>3 DEF w, Core, ReadingAgrees, IWake, IDeliver
    <3>2. Paired(Append(cQueue, w), ReadersIn(cQueue), fromIthread,
                 cPc = "readback", next)
      BY <1>0, <1>3, <2>1, PairedSkip
    <3>3. ReadersIn(cQueue)' = ReadersIn(cQueue)
      BY <2>2, <3>1
    <3> QED
      BY <1>0, <1>4, <3>1, <3>2, <3>3 DEF AnswersPaired
  <2>4. CASE iPc = "deliver"
    <3>1. reading[w] /\ fromIthread' = Append(fromIthread, w)
      BY <2>4 DEF w, Core, ReadingAgrees, IWake, IDeliver
    <3>2. ~In(w, fromIthread)
      <4>1. ASSUME NEW k \in DOMAIN fromIthread, fromIthread[k] = w
            PROVE  FALSE
        <5>1. ASSUME NEW i \in ReadersIn(cQueue), cQueue[i] = w
              PROVE  FALSE
          BY <1>6, <5>1 DEF In, ReadersIn
        <5>2. cPc = "readback" /\ k = 1
          BY <2>1, <4>1, <5>1 DEF Paired
        <5>3. next = w
          BY <2>1, <4>1, <5>2 DEF Paired
        <5> QED
          BY <1>6, <5>2, <5>3 DEF OnProcessor
      <4> QED
        BY <4>1 DEF In
    <3>3. Paired(Append(cQueue, w), ReadersIn(cQueue) \cup {Len(cQueue) + 1},
                 Append(fromIthread, w), cPc = "readback", next)
      BY <1>0, <1>3, <2>1, <3>2, PairedAppend
    <3>4. ReadersIn(cQueue)' = ReadersIn(cQueue) \cup {Len(cQueue) + 1}
      BY <2>2, <3>1
    <3> QED
      BY <1>0, <1>4, <3>1, <3>3, <3>4 DEF AnswersPaired
  <2> QED
    BY <1>0, <2>3, <2>4
<1>12. ReadingAgrees'
  BY <1>0 DEF Core, ReadingAgrees, BlockingIn
<1>13. SavedUnlessLeaving'
  BY <1>0, <1>5, <1>7 DEF Core, SavedUnlessLeaving
<1>14. ShutdownOrder'
  BY <1>0, <1>2 DEF Core, ShutdownOrder
<1> QED
  BY <1>0, <1>4, <1>8, <1>9, <1>10, <1>11, <1>12, <1>13, <1>14 DEF Core

(* The other steps of main, C-EXEC and I-EXEC.                             *)
LEMMA OtherSteps ==
  ASSUME TypeOK, Alive, Core,
         \/ MainShutdown \/ MainJoinC \/ MainJoinI
         \/ CGetContext \/ CPopNothing \/ CReadFlag \/ CCheckQueues \/ CExit
         \/ TaskOpen \/ TaskCopied \/ TaskPort \/ TaskSwapOut
         \/ IPopNothing \/ IReadFlags
         \/ IReadHost \/ IReadPort \/ IConnect \/ IRecv \/ ISend \/ IShut
  PROVE  Core'
<1> DEFINE Kept ==
      /\ UNCHANGED <<cQueue, waitQueue, toIthread, fromIthread, stage,
                     reading>>
      /\ \A t \in Tasks : OnProcessor(t)' <=> OnProcessor(t)
      /\ IServesBlocking' <=> IServesBlocking
      /\ IServesBlocking => nextIo' = nextIo
      /\ (cPc' = "readback") <=> (cPc = "readback")
      /\ cPc = "readback" => next' = next
      /\ cPc' = "swap" => cPc = "swap" /\ next' = next
<1> DEFINE Rest == ReadingAgrees' /\ SavedUnlessLeaving' /\ ShutdownOrder'
<1> USE DEF queues, flags, net, taskVars
<1>1. CASE MainShutdown
  <2>1. Kept
    BY <1>1 DEF MainShutdown, OnProcessor, IServesBlocking
  <2>2. Rest
    BY <1>1 DEF MainShutdown, Core, ReadingAgrees, BlockingIn,
                SavedUnlessLeaving, ShutdownOrder
  <2> QED
    BY <2>1, <2>2, QuietSteps DEF Core
<1>2. CASE MainJoinC \/ MainJoinI
  <2>1. Kept
    BY <1>2 DEF MainJoinC, MainJoinI, MainJoin, OnProcessor, IServesBlocking
  <2>2. Rest
    BY <1>2 DEF MainJoinC, MainJoinI, MainJoin, Core, ReadingAgrees,
                BlockingIn, SavedUnlessLeaving, ShutdownOrder
  <2> QED
    BY <2>1, <2>2, QuietSteps DEF Core
<1>3. CASE CGetContext
  <2>1. Kept
    BY <1>3 DEF CGetContext, OnProcessor, IServesBlocking
  <2>2. Rest
    BY <1>3 DEF CGetContext, Core, ReadingAgrees, BlockingIn,
                SavedUnlessLeaving, ShutdownOrder
  <2> QED
    BY <2>1, <2>2, QuietSteps DEF Core
<1>4. CASE CPopNothing
  <2>1. Kept
    BY <1>4 DEF CPopNothing, OnProcessor, IServesBlocking
  <2>2. Rest
    BY <1>4 DEF CPopNothing, Core, ReadingAgrees, BlockingIn,
                SavedUnlessLeaving, ShutdownOrder
  <2> QED
    BY <2>1, <2>2, QuietSteps DEF Core
<1>5. CASE CReadFlag
  <2>1. Kept
    BY <1>5 DEF CReadFlag, OnProcessor, IServesBlocking
  <2>2. Rest
    BY <1>5 DEF CReadFlag, Core, ReadingAgrees, BlockingIn,
                SavedUnlessLeaving, ShutdownOrder
  <2> QED
    BY <2>1, <2>2, QuietSteps DEF Core
<1>6. CASE CCheckQueues
  <2>1. Kept
    BY <1>6 DEF CCheckQueues, OnProcessor, IServesBlocking
  <2>2. Rest
    BY <1>6 DEF CCheckQueues, Core, ReadingAgrees, BlockingIn,
                SavedUnlessLeaving, ShutdownOrder
  <2> QED
    BY <2>1, <2>2, QuietSteps DEF Core
<1>7. CASE CExit
  <2>1. Kept
    BY <1>7 DEF CExit, OnProcessor, IServesBlocking
  <2>2. Rest
    BY <1>7 DEF CExit, Core, ReadingAgrees, BlockingIn, SavedUnlessLeaving,
                ShutdownOrder
  <2> QED
    BY <2>1, <2>2, QuietSteps DEF Core
<1>8. CASE TaskOpen \/ TaskCopied \/ TaskPort
  <2>1. Kept
    BY <1>8 DEF TaskOpen, TaskCopied, TaskPort, Running, OnProcessor,
                Opening, IServesBlocking
  <2>2. Rest
    BY <1>8 DEF TaskOpen, TaskCopied, TaskPort, Running, Opening, Core, ReadingAgrees, BlockingIn,
                SavedUnlessLeaving, ShutdownOrder
  <2> QED
    BY <2>1, <2>2, QuietSteps DEF Core
<1>9. CASE TaskSwapOut
  <2>0. next \in Tasks /\ saved \in [Tasks -> BOOLEAN]
    BY <1>9 DEF TaskSwapOut, Running, TypeOK
  <2>1. Kept
    BY <1>9 DEF TaskSwapOut, Running, OnProcessor, IServesBlocking
  <2>2. Rest
    BY <1>9, <2>0 DEF TaskSwapOut, Running, Core, ReadingAgrees, BlockingIn,
                      SavedUnlessLeaving, ShutdownOrder
  <2> QED
    BY <2>1, <2>2, QuietSteps DEF Core
<1>10. CASE IPopNothing
  <2>1. Kept
    BY <1>10 DEF IPopNothing, OnProcessor, IServesBlocking
  <2>2. Rest
    BY <1>10 DEF IPopNothing, Core, ReadingAgrees, BlockingIn,
                 SavedUnlessLeaving, ShutdownOrder
  <2> QED
    BY <2>1, <2>2, QuietSteps DEF Core
<1>11. CASE IReadFlags
  <2>1. Kept
    BY <1>11 DEF IReadFlags, OnProcessor, IServesBlocking
  <2>2. Rest
    BY <1>11 DEF IReadFlags, Core, ReadingAgrees, BlockingIn,
                 SavedUnlessLeaving, ShutdownOrder
  <2> QED
    BY <2>1, <2>2, QuietSteps DEF Core
<1>12. CASE IReadHost \/ IReadPort \/ IConnect
  <2>1. Kept
    BY <1>12 DEF IReadHost, IReadPort, IConnect, OnProcessor, Connecting,
                 IServesBlocking
  <2>2. Rest
    BY <1>12 DEF IReadHost, IReadPort, IConnect, Connecting, Core, ReadingAgrees, BlockingIn,
                 SavedUnlessLeaving, ShutdownOrder
  <2> QED
    BY <2>1, <2>2, QuietSteps DEF Core
<1>13. CASE IRecv
  <2>1. Kept
    BY <1>13 DEF IRecv, OnProcessor, IServesBlocking
  <2>2. Rest
    BY <1>13 DEF IRecv, Core, ReadingAgrees, BlockingIn,
                 SavedUnlessLeaving, ShutdownOrder
  <2> QED
    BY <2>1, <2>2, QuietSteps DEF Core
<1>14. CASE ISend \/ IShut
  <2>1. Kept
    BY <1>14 DEF ISend, IShut, OnProcessor, IServesBlocking
  <2>2. Rest
    BY <1>14 DEF ISend, IShut, Core, ReadingAgrees, BlockingIn,
                 SavedUnlessLeaving, ShutdownOrder
  <2> QED
    BY <2>1, <2>2, QuietSteps DEF Core
<1> QED
  BY <1>1, <1>2, <1>3, <1>4, <1>5, <1>6, <1>7, <1>8, <1>9, <1>10, <1>11,
     <1>12, <1>13, <1>14

(* The running task ends.                                                  *)
LEMMA ExitStep ==
  ASSUME TypeOK, Alive, Core, TaskExit
  PROVE  Core'
<1>0. /\ next \in Tasks /\ cPc = "task" /\ cPc' = "pop"
      /\ stage \in [Tasks -> {"unborn", "live", "finished"}]
      /\ stage' = [stage EXCEPT ![next] = "finished"]
      /\ UNCHANGED <<cQueue, waitQueue, toIthread, fromIthread, template, next,
                     nextIo, iPc, mainPc, shutdownFlag, shutdownCFlag,
                     reading, saved, fault>>
  BY DEF TypeOK, TaskExit, Running, queues, flags
<1>1. /\ stage[next] = "live" /\ ~reading[next]
      /\ ~In(next, cQueue) /\ ~In(next, waitQueue)
  BY <1>0, RunningIsNotQueued DEF Core, ReadingAgrees
<1>2. EachTaskInOnePlace'
  BY <1>0, <1>1 DEF Core, EachTaskInOnePlace, OnProcessor
<1>3. QueuedBeforeLeaving' /\ WaitersPaired'
  BY <1>0 DEF Core, QueuedBeforeLeaving, WaitersPaired, IServesBlocking
<1>4. AnswersPaired'
  BY <1>0 DEF Core, AnswersPaired, ReadersIn
<1>5. ReadingAgrees' /\ SavedUnlessLeaving' /\ ShutdownOrder'
  BY <1>0, <1>1 DEF Core, ReadingAgrees, BlockingIn, SavedUnlessLeaving,
                    ShutdownOrder
<1> QED
  BY <1>2, <1>3, <1>4, <1>5 DEF Core
-----------------------------------------------------------------------------
(* Whose destination the globals hold, and what I-EXEC has read of it.     *)

(* The task of a request to open, and the one I-EXEC connects for, wait.   *)
LEMMA AskersWait ==
  ASSUME TypeOK, Alive, Core
  PROVE  /\ \A i \in Opens : toIthread[i].task \in Tasks
                             /\ In(toIthread[i].task, waitQueue)
         /\ iPc \in Connecting => nextIo.task \in Tasks
                                  /\ In(nextIo.task, waitQueue)
<1>1. toIthread \in Seq(Request) /\ waitQueue \in Seq(Tasks)
  BY DEF TypeOK
<1>2. ASSUME NEW i \in Opens
      PROVE  toIthread[i].task \in Tasks /\ In(toIthread[i].task, waitQueue)
  <2>1. i \in DOMAIN toIthread /\ toIthread[i] \in Request
    BY <1>1, LenProperties, ElementOfSeq DEF Opens
  <2>2. i \in BlockingIn(toIthread)
    BY <2>1 DEF Opens, BlockingIn, Blocking
  <2>3. Owners(toIthread)[i] = toIthread[i].task
    BY <1>1, <2>1, OwnersType
  <2> QED
    BY <2>1, <2>2, <2>3 DEF Core, WaitersPaired, Paired, In, Request
<1>3. ASSUME iPc \in Connecting
      PROVE  nextIo.task \in Tasks /\ In(nextIo.task, waitQueue)
  <2>1. waitQueue # <<>> /\ waitQueue[1] = nextIo.task
    BY <1>3 DEF Core, WaitersPaired, Paired, IServesBlocking
  <2>2. 1 \in DOMAIN waitQueue
    BY <1>1, <2>1, EmptySeq, LenProperties
  <2> QED
    BY <1>3, <2>1, <2>2 DEF In, TypeOK, Request
<1> QED
  BY <1>2, <1>3

(* So a call of the running task leaves their destinations alone.          *)
LEMMA AskersKeepCalls ==
  ASSUME TypeOK, Alive, Core, cPc = "task",
         ops' = [ops EXCEPT ![next] = @ + 1]
  PROVE  /\ \A i \in Opens :
              ops'[toIthread[i].task] = ops[toIthread[i].task]
         /\ iPc \in Connecting => ops'[nextIo.task] = ops[nextIo.task]
<1>1. next \in Tasks /\ ~In(next, waitQueue)
  BY RunningIsNotQueued DEF TypeOK
<1> QED
  BY <1>1, AskersWait DEF TypeOK

(* A step that leaves the requests, the globals and what I-EXEC does alone.*)
LEMMA DestinationKept ==
  ASSUME StoredIsNewest, ReadIsNotOlder,
         UNCHANGED <<toIthread, host, port>>,
         iPc' \in Connecting => iPc' = iPc /\ UNCHANGED <<nextIo, target>>,
         cPc \in Opening \/ cPc' \in Opening =>
           cPc' = cPc /\ next' = next /\ ops'[next] = ops[next],
         \A i \in Opens : ops'[toIthread[i].task] = ops[toIthread[i].task],
         iPc \in Connecting => ops'[nextIo.task] = ops[nextIo.task]
  PROVE  StoredIsNewest' /\ ReadIsNotOlder'
<1>1. Opens' = Opens /\ \A i \in Opens : Newest(i)' <=> Newest(i)
  BY DEF Opens, Newest
<1>2. /\ OfNewest(host) => OfNewest(host)'
      /\ OfNewest(port) => OfNewest(port)'
  BY <1>1 DEF OfNewest, Destination
<1>3. StoredIsNewest'
  BY <1>2 DEF StoredIsNewest, Opening, Destination
<1>4. ASSUME iPc' \in Connecting
      PROVE  Later' = Later /\ NotOlder' = NotOlder
  <2>1. Later' = Later
    BY <1>1 DEF Later
  <2>2. \A t \in Later \cup {nextIo.task} : ops'[t] = ops[t]
    BY <1>4 DEF Later
  <2> QED
    BY <1>4, <2>1, <2>2 DEF NotOlder, Destination
<1>5. ReadIsNotOlder'
  BY <1>4 DEF ReadIsNotOlder, Connecting
<1> QED
  BY <1>3, <1>5

(* A task begins sut_open, or stores a part of its destination.            *)
LEMMA DestinationStored ==
  ASSUME TypeOK, Alive, Core, StoredIsNewest, ReadIsNotOlder,
         TaskOpen \/ TaskCopied \/ TaskPort
  PROVE  StoredIsNewest' /\ ReadIsNotOlder'
<1>1. /\ UNCHANGED <<toIthread, next, iPc, nextIo, target>>
      /\ \/ /\ cPc = "task" /\ cPc' = "copying"
            /\ host' = Torn /\ port' = port
            /\ ops' = [ops EXCEPT ![next] = @ + 1]
         \/ /\ cPc = "copying" /\ cPc' = "copied"
            /\ host' = Destination(next) /\ port' = port /\ ops' = ops
         \/ /\ cPc = "copied" /\ cPc' = "opening"
            /\ port' = Destination(next) /\ host' = host /\ ops' = ops
  BY DEF TaskOpen, TaskCopied, TaskPort, Calls, Running, queues, taskVars
<1>2. /\ \A i \in Opens : ops'[toIthread[i].task] = ops[toIthread[i].task]
      /\ iPc \in Connecting => ops'[nextIo.task] = ops[nextIo.task]
  BY <1>1, AskersKeepCalls
<1>3. Opens' = Opens /\ \A i \in Opens : Newest(i)' <=> Newest(i)
  BY <1>1 DEF Opens, Newest
<1>4. port' = port /\ OfNewest(port) => OfNewest(port)'
  BY <1>1, <1>2, <1>3 DEF OfNewest, Destination
<1>5. StoredIsNewest'
  BY <1>1, <1>4 DEF StoredIsNewest, Destination
<1>6. Later \subseteq Later'
  BY <1>1, <1>3 DEF Later, Opening
<1>7. ASSUME iPc \in Connecting PROVE NotOlder \subseteq NotOlder'
  <2>1. \A t \in Later \cup {nextIo.task} : ops'[t] = ops[t]
    BY <1>1, <1>2, <1>7 DEF Later, Opening
  <2> QED
    BY <1>1, <1>6, <2>1 DEF NotOlder, Destination
<1>8. ReadIsNotOlder'
  BY <1>1, <1>6, <1>7 DEF ReadIsNotOlder, Connecting
<1> QED
  BY <1>5, <1>8

(* A request enters the queue: only an open changes what the newest is.    *)
LEMMA DestinationAppend ==
  ASSUME TypeOK, Alive, Core, StoredIsNewest, ReadIsNotOlder,
         NEW r \in Request, toIthread' = Append(toIthread, r),
         UNCHANGED <<host, port, target, nextIo, iPc, next>>,
         cPc' \notin Opening,
         \/ /\ r.command = "open" /\ cPc = "opening"
            /\ r.task = next /\ ops' = ops
         \/ /\ r.command # "open" /\ cPc = "task"
            /\ ops' = [ops EXCEPT ![next] = @ + 1]
  PROVE  StoredIsNewest' /\ ReadIsNotOlder'
<1>1. /\ toIthread \in Seq(Request) /\ Len(toIthread) \in Nat
      /\ DOMAIN toIthread = 1 .. Len(toIthread)
      /\ DOMAIN toIthread' = 1 .. Len(toIthread) + 1
      /\ \A i \in 1 .. Len(toIthread) : toIthread'[i] = toIthread[i]
      /\ toIthread'[Len(toIthread) + 1] = r
  <2>1. toIthread \in Seq(Request)
    BY DEF TypeOK
  <2> QED
    BY <2>1, AppendElements
<1>2. /\ \A i \in Opens : ops'[toIthread[i].task] = ops[toIthread[i].task]
      /\ iPc \in Connecting => ops'[nextIo.task] = ops[nextIo.task]
  BY AskersKeepCalls
<1>3. Opens' = Opens \cup IF r.command = "open" THEN {Len(toIthread) + 1}
                                                ELSE {}
  BY <1>1 DEF Opens
<1>4. OfNewest(host)' /\ OfNewest(port)'
  <2>1. CASE r.command = "open"
    <3>0. PICK n \in Nat : n = Len(toIthread) + 1
      BY <1>1
    <3>1. n \in Opens' /\ Newest(n)'
      BY <1>1, <1>3, <2>1, <3>0 DEF Opens, Newest
    <3>2. /\ host' = Destination(r.task)' /\ port' = Destination(r.task)'
          /\ toIthread'[n].task = r.task
      BY <1>1, <2>1, <3>0 DEF StoredIsNewest, Destination
    <3> QED
      BY <3>1, <3>2 DEF OfNewest, Destination
  <2>2. CASE r.command # "open"
    <3>1. OfNewest(host) /\ OfNewest(port)
      BY <2>2 DEF StoredIsNewest
    <3>2. Opens' = Opens /\ \A i \in Opens : Newest(i)' <=> Newest(i)
      BY <1>3, <2>2 DEF Newest
    <3>3. \A i \in Opens : toIthread'[i].task = toIthread[i].task
      BY <1>1 DEF Opens
    <3>4. \A i \in Opens : ops'[toIthread'[i].task] = ops[toIthread[i].task]
      BY <1>2, <3>3
    <3> QED
      BY <1>2, <3>1, <3>2, <3>3, <3>4 DEF OfNewest, Destination
  <2> QED
    BY <2>1, <2>2
<1>5. StoredIsNewest'
  BY <1>4 DEF StoredIsNewest, Opening
<1>6. Later' = Later
  <2>1. {toIthread'[i].task : i \in Opens'} =
          {toIthread[i].task : i \in Opens}
            \cup IF r.command = "open" THEN {r.task} ELSE {}
    BY <1>1, <1>3 DEF Opens
  <2> QED
    BY <2>1 DEF Later, Opening
<1>7. ASSUME iPc \in Connecting PROVE NotOlder' = NotOlder
  <2>1. ASSUME NEW t \in Later PROVE ops'[t] = ops[t]
    BY <1>2, <2>1 DEF Later
  <2>2. ops'[nextIo.task] = ops[nextIo.task]
    BY <1>2, <1>7
  <2> QED
    BY <1>6, <2>1, <2>2 DEF NotOlder, Destination
<1>8. ReadIsNotOlder'
  BY <1>6, <1>7 DEF ReadIsNotOlder, Connecting
<1> QED
  BY <1>5, <1>8

(* I-EXEC takes the head request.                                          *)
LEMMA DestinationTail ==
  ASSUME TypeOK, StoredIsNewest, IPopRequest
  PROVE  StoredIsNewest' /\ ReadIsNotOlder'
<1>1. /\ Head(toIthread) = toIthread[1] /\ 1 \in DOMAIN toIthread
      /\ toIthread[1] \in Request
      /\ DOMAIN toIthread = 1 .. Len(toIthread) /\ Len(toIthread) \in Nat
      /\ DOMAIN toIthread' = 1 .. Len(toIthread) - 1
      /\ \A i \in 1 .. Len(toIthread) - 1 : toIthread'[i] = toIthread[i + 1]
  <2>1. toIthread \in Seq(Request) /\ toIthread # <<>>
    BY DEF TypeOK, IPopRequest
  <2> QED
    BY <2>1, TailElements DEF IPopRequest
<1>2. /\ nextIo' = toIthread[1] /\ iPc' = Handler(toIthread[1].command)
      /\ UNCHANGED <<host, port, cPc, next, ops>>
  BY <1>1 DEF IPopRequest, net, taskVars
<1>3. /\ iPc' \in {"connect", "send", "recv", "shut"}
      /\ iPc' = "connect" => toIthread[1].command = "open"
  BY <1>1, <1>2 DEF Handler, Request, Commands
<1>4. ASSUME NEW d, OfNewest(d)
      PROVE  IF Opens' = {}
               THEN iPc' \in Connecting => d = Destination(nextIo'.task)
               ELSE \E i \in Opens' :
                      Newest(i)' /\ d = Destination(toIthread'[i].task)
  <2>1. ASSUME NEW i \in Opens'
        PROVE  i \in Nat /\ i + 1 \in Opens /\ toIthread'[i] = toIthread[i + 1]
    BY <1>1 DEF Opens
  <2>2. ASSUME NEW j \in Opens, j # 1
        PROVE  j \in Nat /\ j - 1 \in Opens'
               /\ toIthread'[j - 1] = toIthread[j]
    BY <1>1, <2>2 DEF Opens
  <2>3. CASE Opens' = {}
    <3>1. ASSUME iPc' \in Connecting PROVE Opens = {1}
      BY <1>1, <1>3, <2>2, <2>3, <3>1 DEF Connecting, Opens
    <3> QED
      BY <1>2, <1>4, <2>3, <3>1 DEF OfNewest
  <2>4. CASE Opens' # {}
    <3>1. PICK j \in Opens : Newest(j) /\ d = Destination(toIthread[j].task)
      BY <1>4, <2>1, <2>4 DEF OfNewest
    <3>2. j # 1
      <4>1. PICK i \in Opens' : TRUE
        BY <2>4
      <4>2. i + 1 <= j /\ i >= 1
        BY <1>1, <2>1, <3>1, <4>1 DEF Newest, Opens
      <4> QED
        BY <2>1, <4>2
    <3>3. ASSUME NEW i \in Opens' PROVE i <= j - 1
      BY <2>1, <2>2, <3>1, <3>2 DEF Newest
    <3>4. Newest(j - 1)'
      BY <3>3 DEF Newest
    <3> QED
      BY <2>2, <2>4, <3>1, <3>2, <3>4
  <2> QED
    BY <2>3, <2>4
<1>5. /\ OfNewest(host) => OfNewest(host)'
      /\ OfNewest(port) => OfNewest(port)'
  BY <1>2, <1>4 DEF OfNewest, Destination
<1>6. StoredIsNewest'
  BY <1>2, <1>5 DEF StoredIsNewest, Destination
<1> QED
  BY <1>3, <1>6 DEF ReadIsNotOlder

(* I-EXEC reads the host, or the port.                                     *)
LEMMA DestinationRead ==
  ASSUME StoredIsNewest, ReadIsNotOlder, IReadHost \/ IReadPort
  PROVE  StoredIsNewest' /\ ReadIsNotOlder'
<1>1. /\ UNCHANGED <<toIthread, host, port, next, cPc, nextIo, ops>>
      /\ \/ /\ iPc = "connect" /\ iPc' = "readPort"
            /\ target' = [host |-> host, port |-> Nowhere]
         \/ /\ iPc = "readPort" /\ iPc' = "connecting"
            /\ target' = [host |-> target.host, port |-> port]
  BY DEF IReadHost, IReadPort, queues, taskVars
<1>2. iPc \in Connecting /\ iPc' \in Connecting
  BY <1>1 DEF Connecting
<1>3. /\ Opens' = Opens /\ Later' = Later /\ NotOlder' = NotOlder
      /\ \A i \in Opens : Newest(i)' <=> Newest(i)
  BY <1>1 DEF Opens, Newest, Later, NotOlder, Destination
<1>4. StoredIsNewest'
  BY <1>1, <1>2, <1>3 DEF StoredIsNewest, OfNewest, Destination
<1>5. \A d : OfNewest(d) => d \in NotOlder
  BY <1>2 DEF OfNewest, NotOlder, Later
<1>6. cPc \in Opening => next \in Later /\ Destination(next) \in NotOlder
  BY DEF Later, NotOlder
<1>7. /\ host \in NotOlder \cup (IF Later = {} THEN {} ELSE {Torn})
      /\ port \in NotOlder
  BY <1>5, <1>6 DEF StoredIsNewest, Opening
<1>8. ReadIsNotOlder'
  BY <1>1, <1>3, <1>7 DEF ReadIsNotOlder
<1> QED
  BY <1>4, <1>8

(* Every step keeps both.                                                  *)
LEMMA DestinationSteps ==
  ASSUME TypeOK, Alive => Core, StoredIsNewest, ReadIsNotOlder, [Next]_vars
  PROVE  StoredIsNewest' /\ ReadIsNotOlder'
<1> DEFINE Goal == StoredIsNewest' /\ ReadIsNotOlder'
<1> USE DEF queues, flags, net, taskVars
<1>1. CASE UNCHANGED vars
  BY <1>1, DestinationKept DEF vars
<1>2. CASE Alive /\ (MainCreates \/ MainStep \/ CExec \/ TaskStep \/ IExec)
  <2>0. Alive /\ Core
    BY <1>2
  <2>1. CASE TaskOpen \/ TaskCopied \/ TaskPort
    BY <2>0, <2>1, DestinationStored
  <2>2. CASE TaskOpenPush
    <3>1. /\ Req("open", next) \in Request /\ Req("open", next).task = next
          /\ Req("open", next).command = "open"
      BY <2>2 DEF TaskOpenPush, Running, TypeOK, Req, Request, Commands,
                  Opening
    <3> QED
      BY <2>0, <2>2, <3>1, DestinationAppend
      DEF TaskOpenPush, Running, Opening
  <2>3. CASE TaskRead \/ TaskWrite \/ TaskClose
    <3>1. PICK c \in Commands \ {"open"} :
                toIthread' = Append(toIthread, Req(c, next))
      BY <2>3 DEF TaskRead, TaskWrite, TaskClose, TaskPost, Commands
    <3>2. /\ cPc = "task" /\ cPc' \notin Opening /\ next \in Tasks
          /\ ops' = [ops EXCEPT ![next] = @ + 1]
          /\ UNCHANGED <<host, port, target, nextIo, iPc, next>>
      BY <2>3 DEF TaskRead, TaskWrite, TaskClose, TaskPost, Running, Calls,
                  TypeOK, Opening
    <3>3. Req(c, next) \in Request /\ Req(c, next).command # "open"
      BY <3>1, <3>2 DEF Req, Request
    <3> QED
      BY <2>0, <3>1, <3>2, <3>3, DestinationAppend
  <2>4. CASE TaskYield \/ \E t \in Tasks : TaskCreate(t)
    <3>1. /\ cPc = "task" /\ ops' = [ops EXCEPT ![next] = @ + 1]
          /\ cPc' \notin Opening
          /\ UNCHANGED <<toIthread, host, port, target, nextIo, iPc>>
      BY <2>4 DEF TaskYield, TaskCreate, Running, Calls, Opening
    <3>2. cPc \notin Opening
      BY <3>1 DEF Opening
    <3> QED
      BY <2>0, <3>1, <3>2, AskersKeepCalls, DestinationKept
  <2>5. CASE IPopRequest
    BY <2>5, DestinationTail
  <2>6. CASE IReadHost \/ IReadPort
    BY <2>6, DestinationRead
  <2>7. CASE CExec \/ MainStep \/ MainCreates
    <3>1. /\ UNCHANGED <<toIthread, host, port, target, nextIo, iPc, ops>>
          /\ \/ cPc' = cPc /\ next' = next
             \/ cPc \notin Opening /\ cPc' \notin Opening
      BY <2>7 DEF CExec, MainStep, MainCreates, MainCreate, Create,
         CGetContext, CPopTask, CPopNothing, CReadFlag, CCheckQueues, CExit,
         MainShutdown, MainJoin, MainJoinC, MainJoinI, Opening
    <3> QED
      BY <3>1, DestinationKept
  <2>8. CASE TaskSwapOut \/ TaskReadBack \/ TaskExit
    <3>1. /\ UNCHANGED <<toIthread, host, port, target, nextIo, iPc, ops>>
          /\ cPc \notin Opening /\ cPc' \notin Opening
      BY <2>8 DEF TaskSwapOut, TaskReadBack, TaskExit, Running, Opening
    <3> QED
      BY <3>1, DestinationKept
  <2>9. CASE \/ IPopNothing \/ IReadFlags \/ IConnect \/ IWake \/ IRecv
             \/ IDeliver \/ ISend \/ IShut
    <3>1. /\ UNCHANGED <<toIthread, host, port, next, cPc, ops>>
          /\ iPc' \notin Connecting
      BY <2>9 DEF IPopNothing, IReadFlags, IConnect, IWake, IRecv, IDeliver,
                  ISend, IShut, Connecting
    <3> QED
      BY <3>1, DestinationKept
  <2> QED
    BY <1>2, <2>1, <2>2, <2>3, <2>4, <2>5, <2>6, <2>7, <2>8, <2>9
    DEF TaskStep, IExec
<1> QED
  BY <1>1, <1>2 DEF Next, Stopped
-----------------------------------------------------------------------------
(* The inductive invariant holds at the start ...                          *)
LEMMA InitInvariant == Init => IInv
<1> SUFFICES ASSUME Init PROVE IInv
  OBVIOUS
<1>1. /\ cQueue = <<>> /\ waitQueue = <<>>
      /\ toIthread = <<>> /\ fromIthread = <<>>
      /\ cPc = "getcontext" /\ iPc = "pop" /\ mainPc = "create"
      /\ ~shutdownFlag /\ ~shutdownCFlag /\ fault = "none"
      /\ \A t \in Tasks : stage[t] = "unborn" /\ ~reading[t]
  BY DEF Init
<1>2. \A t : ~In(t, <<>>) /\ Distinct(<<>>)
  BY DEF In, Distinct
<1>3. EachTaskInOnePlace /\ QueuedBeforeLeaving
  BY <1>1, <1>2 DEF EachTaskInOnePlace, QueuedBeforeLeaving, OnProcessor
<1>4. WaitersPaired /\ AnswersPaired
  BY <1>1 DEF WaitersPaired, AnswersPaired, Paired, BlockingIn, ReadersIn,
              IServesBlocking
<1>5. ReadingAgrees /\ SavedUnlessLeaving /\ ShutdownOrder
  BY <1>1, <1>2 DEF ReadingAgrees, BlockingIn, SavedUnlessLeaving,
                    ShutdownOrder
<1>6. StoredIsNewest /\ ReadIsNotOlder
  BY <1>1 DEF StoredIsNewest, ReadIsNotOlder, OfNewest, Opens, Connecting
<1> QED
  BY <1>1, <1>3, <1>4, <1>5, <1>6, InitTypes
  DEF IInv, Core, NoNullDereference, NoSwitchToUnsaved

(* ... and every step keeps it.                                            *)
LEMMA StepInvariant == IInv /\ [Next]_vars => IInv'
<1> SUFFICES ASSUME IInv, [Next]_vars PROVE IInv'
  OBVIOUS
<1>0. TypeOK /\ TypeOK' /\ StoredIsNewest' /\ ReadIsNotOlder'
  BY StepTypes, DestinationSteps DEF IInv
<1>1. SUFFICES /\ Alive' => Core'
               /\ NoNullDereference' /\ (LateCreate => NoSwitchToUnsaved')
  BY <1>0 DEF IInv
<1>2. CASE UNCHANGED vars
  <2>1. Alive' <=> Alive
    BY <1>2 DEF Alive, vars
  <2>2. Core => Core'
    BY <1>2
    DEF vars, Core, EachTaskInOnePlace, Alive, OnProcessor,
        QueuedBeforeLeaving, WaitersPaired, AnswersPaired, ReadersIn,
        IServesBlocking, ReadingAgrees, BlockingIn, SavedUnlessLeaving,
        ShutdownOrder
  <2>3. fault' = fault
    BY <1>2 DEF vars
  <2> QED
    BY <2>1, <2>2, <2>3 DEF IInv, NoNullDereference, NoSwitchToUnsaved
<1>3. ASSUME Alive, Core' \/ ~Alive',
             fault' \in {"none", "sigpipe"} \/
               (fault' = "badContext" /\ ~LateCreate)
      PROVE  /\ Alive' => Core'
             /\ NoNullDereference' /\ (LateCreate => NoSwitchToUnsaved')
  BY <1>3 DEF NoNullDereference, NoSwitchToUnsaved
<1>4. ASSUME Alive, MainCreates \/ MainStep \/ CExec \/ TaskStep \/ IExec
      PROVE  /\ Core' \/ ~Alive'
             /\ \/ fault' \in {"none", "sigpipe"}
                \/ fault' = "badContext" /\ ~LateCreate
  <2>0. TypeOK /\ Core /\ fault = "none"
    BY <1>0, <1>4 DEF IInv, Alive
  <2>1. ASSUME NEW t \in Tasks, MainCreate(t) PROVE Core' /\ fault' = fault
    BY <1>4, <2>0, <2>1, CreateSteps DEF MainCreate, flags
  <2>2. ASSUME NEW t \in Tasks, TaskCreate(t) PROVE Core' /\ fault' = fault
    <3>1. LateCreate => template
      BY <2>0, <2>2 DEF TaskCreate, Running, Core, SavedUnlessLeaving
    <3> QED
      BY <1>4, <2>0, <2>2, <3>1, CreateSteps DEF TaskCreate, Running, flags
  <2>3. CASE \/ MainShutdown \/ MainJoinC \/ MainJoinI
             \/ CGetContext \/ CPopNothing \/ CReadFlag \/ CCheckQueues
             \/ CExit \/ TaskOpen \/ TaskCopied \/ TaskPort
             \/ TaskSwapOut \/ IPopNothing
             \/ IReadFlags \/ IReadHost \/ IReadPort \/ IConnect \/ IRecv \/ ISend \/ IShut
    <3>1. Core'
      BY <1>4, <2>0, <2>3, OtherSteps
    <3>2. fault' \in {fault, "sigpipe"}
      BY <2>3 DEF MainShutdown, MainJoinC, MainJoinI, MainJoin, CGetContext,
                  CPopNothing, CReadFlag, CCheckQueues, CExit, TaskOpen,
                  TaskCopied, TaskPort, TaskSwapOut, IPopNothing, IReadFlags,
                  IReadHost, IReadPort, IConnect, IRecv, ISend, IShut
    <3> QED
      BY <2>0, <3>1, <3>2
  <2>4. CASE CPopTask
    BY <1>4, <2>0, <2>4, PopTaskStep
  <2>5. CASE TaskYield
    BY <1>4, <2>0, <2>5, YieldStep DEF TaskYield
  <2>6. CASE TaskOpenPush \/ TaskRead
    BY <1>4, <2>0, <2>6, BlockSteps DEF TaskOpenPush, TaskRead
  <2>7. CASE TaskWrite \/ TaskClose
    <3>1. PICK c \in {"write", "close"} : TaskPost(c)
      BY <2>7 DEF TaskWrite, TaskClose
    <3> QED
      BY <1>4, <2>0, <3>1, PostStep DEF TaskPost
  <2>8. CASE TaskReadBack
    BY <1>4, <2>0, <2>8, ReadBackStep
  <2>9. CASE TaskExit
    BY <1>4, <2>0, <2>9, ExitStep DEF TaskExit
  <2>10. CASE IPopRequest
    BY <1>4, <2>0, <2>10, PopRequestStep DEF IPopRequest
  <2>11. CASE IWake \/ IDeliver
    BY <1>4, <2>0, <2>11, WakeSteps
  <2> QED
    BY <1>4, <2>0, <2>1, <2>2, <2>3, <2>4, <2>5, <2>6, <2>7, <2>8, <2>9,
       <2>10, <2>11
    DEF MainCreates, MainStep, CExec, TaskStep, IExec
<1> QED
  BY <1>2, <1>3, <1>4 DEF Next, Stopped

(* IInv is an invariant.                                                   *)
THEOREM Invariance == Spec => []IInv
  BY InitInvariant, StepInvariant, PTL DEF Spec
-----------------------------------------------------------------------------
(* Every live task is in exactly one place, whatever the interleaving of   *)
(* C-EXEC and I-EXEC.                                                      *)
THEOREM TasksInOnePlace == Spec => []EachTaskInOnePlace
<1>1. IInv => EachTaskInOnePlace
  BY DEF IInv, Core, EachTaskInOnePlace
<1> QED
  BY <1>1, Invariance, PTL

(* I-EXEC always wakes the task whose request it served.                   *)
THEOREM RightTaskWoken == Spec => []WakesTheRequester
<1>1. IInv => WakesTheRequester
  BY DEF IInv, Core, WaitersPaired, IServesBlocking, Paired,
         WakesTheRequester, TypeOK
<1> QED
  BY <1>1, Invariance, PTL

(* I-EXEC never connects to a host or to a port of a sut_open older than   *)
(* the one it serves, and to those of that one if no other has begun since *)
(* (sut.c:188-189, 261-263).                                               *)
THEOREM NoOlderDestination == Spec => []ConnectsToNoOlder
<1>1. IInv => ConnectsToNoOlder
  BY DEF IInv, ReadIsNotOlder, ConnectsToNoOlder
<1> QED
  BY <1>1, Invariance, PTL

(* A task always collects the answer to its own read.                      *)
THEOREM OwnDataRead == Spec => []ReadsOwnData
<1>1. IInv => ReadsOwnData
  BY DEF IInv, Core, AnswersPaired, Paired, ReadsOwnData, TypeOK
<1> QED
  BY <1>1, Invariance, PTL

(* The unchecked dereferences of queue_pop_head's result are safe.         *)
THEOREM NothingMissing == Spec => []NoNullDereference
<1>1. IInv => NoNullDereference
  BY DEF IInv
<1> QED
  BY <1>1, Invariance, PTL

(* Once main creates tasks only after C-EXEC is set up, C-EXEC resumes     *)
(* only contexts that were filled.                                         *)
THEOREM ContextsFilled == ASSUME LateCreate PROVE Spec => []NoSwitchToUnsaved
<1>1. IInv => NoSwitchToUnsaved
  BY DEF IInv
<1> QED
  BY <1>1, Invariance, PTL

(* C-EXEC leaves only after every created task has finished.               *)
THEOREM AllTasksFinished == Spec => []NoTaskLeftBehind
<1>1. IInv => NoTaskLeftBehind
  BY DEF IInv, Core, ShutdownOrder, EachTaskInOnePlace, OnProcessor, In,
         NoTaskLeftBehind
<1> QED
  BY <1>1, Invariance, PTL

(* I-EXEC leaves only when nobody waits for it.                            *)
THEOREM NobodyAbandoned == Spec => []NobodyWaitsAtIExit
<1>1. ASSUME IInv, Alive, iPc = "done"
      PROVE  /\ waitQueue = <<>> /\ fromIthread = <<>>
             /\ \A i \in DOMAIN toIthread : ~Blocking(toIthread[i])
  <2>1. /\ cPc = "done" /\ cQueue = <<>> /\ waitQueue = <<>>
        /\ WaitersPaired /\ AnswersPaired
        /\ fromIthread \in Seq(Tasks)
    BY <1>1 DEF IInv, Core, ShutdownOrder, TypeOK
  <2>2. \A i \in DOMAIN toIthread : ~Blocking(toIthread[i])
    BY <2>1 DEF WaitersPaired, Paired, BlockingIn
  <2>3. DOMAIN fromIthread = {}
    BY <2>1 DEF AnswersPaired, Paired, ReadersIn
  <2>4. fromIthread = <<>>
    BY <2>1, <2>3, EmptySeq, LenProperties
  <2> QED
    BY <2>1, <2>2, <2>4
<1>2. IInv => NobodyWaitsAtIExit
  BY <1>1 DEF NobodyWaitsAtIExit
<1> QED
  BY <1>2, Invariance, PTL
-----------------------------------------------------------------------------
(***************************************************************************)
(* The library implements TaskService: every step of its three threads is  *)
(* one step of the abstract service or is not seen by it.                  *)
(***************************************************************************)

(* The variables of the service under the mapping of SUTInvariant.         *)
Answers == {fromIthread[i] : i \in DOMAIN fromIthread}
Seen == <<[t \in Tasks |-> Phase(t)], cQueue, Answers>>

(* I-EXEC has done the I/O of t and has not requeued it.                   *)
IsServed(t) == iPc \in {"wake", "deliver"} /\ nextIo.task = t

(* What a phase depends on.                                                *)
LEMMA PhaseKept ==
  ASSUME NEW t \in Tasks,
         stage'[t] = stage[t],
         OnProcessor(t)' <=> OnProcessor(t),
         In(t, waitQueue)' <=> In(t, waitQueue),
         IsServed(t)' <=> IsServed(t)
  PROVE  Phase(t)' = Phase(t)
BY DEF Phase, IsServed

(* A step in which no task changes its phase.                              *)
LEMMA PhasesKept ==
  ASSUME \A t \in Tasks : Phase(t)' = Phase(t)
  PROVE  UNCHANGED [t \in Tasks |-> Phase(t)]
OBVIOUS

(* A step in which one task changes its phase.                             *)
LEMMA PhaseMoves ==
  ASSUME NEW t \in Tasks, NEW from, NEW to,
         Phase(t) = from, Phase(t)' = to,
         \A u \in Tasks \ {t} : Phase(u)' = Phase(u)
  PROVE  Service!Move(t, from, to)
<1>1. [u \in Tasks |-> Phase(u)]' =
        [[u \in Tasks |-> Phase(u)] EXCEPT ![t] = to]
  OBVIOUS
<1> QED
  BY <1>1 DEF Service!Move

(* Whose answers wait in from_ithread: tasks in the ready queue, and at    *)
(* its head the one that is about to take it.                              *)
LEMMA WhoseAnswers ==
  ASSUME Core
  PROVE  \A k \in DOMAIN fromIthread :
           \/ In(fromIthread[k], cQueue) /\ (cPc = "readback" =>
                                               fromIthread[k] # next)
           \/ cPc = "readback" /\ k = 1 /\ fromIthread[k] = next
BY DEF Core, AnswersPaired, Paired, ReadersIn, In

(* The task I-EXEC serves is blocked or served, and is nowhere else.       *)
LEMMA ServedWaits ==
  ASSUME TypeOK, Alive, Core, IServesBlocking
  PROVE  /\ nextIo.task \in Tasks
         /\ waitQueue # <<>> /\ Head(waitQueue) = nextIo.task
         /\ In(nextIo.task, waitQueue) /\ ~In(nextIo.task, cQueue)
         /\ ~OnProcessor(nextIo.task) /\ stage[nextIo.task] = "live"
         /\ nextIo.task \notin Answers
<1>1. nextIo.task \in Tasks /\ waitQueue \in Seq(Tasks)
  BY DEF TypeOK, Request, IServesBlocking
<1>2. waitQueue # <<>> /\ waitQueue[1] = nextIo.task
  BY DEF Core, WaitersPaired, Paired
<1>3. Head(waitQueue) = waitQueue[1] /\ 1 \in DOMAIN waitQueue
  BY <1>1, <1>2, TailElements
<1>4. In(nextIo.task, waitQueue)
  BY <1>2, <1>3 DEF In
<1>5. /\ ~In(nextIo.task, cQueue) /\ ~OnProcessor(nextIo.task)
      /\ stage[nextIo.task] = "live"
  BY <1>1, <1>4 DEF Core, EachTaskInOnePlace
<1>6. nextIo.task \notin Answers
  BY <1>5, <1>1, WhoseAnswers DEF Answers, OnProcessor
<1> QED
  BY <1>1, <1>2, <1>3, <1>4, <1>5, <1>6
-----------------------------------------------------------------------------
(* A task is created.                                                      *)
LEMMA CreateSpawns ==
  ASSUME TypeOK, Alive, Core, NEW t \in Tasks, MainCreate(t) \/ TaskCreate(t)
  PROVE  Service!Spawn(t)
<1>1. /\ stage[t] = "unborn" /\ stage' = [stage EXCEPT ![t] = "live"]
      /\ cQueue' = Append(cQueue, t) /\ stage \in [Tasks -> {"unborn", "live",
                                                              "finished"}]
      /\ UNCHANGED <<waitQueue, fromIthread, next, cPc, nextIo, iPc>>
  BY DEF MainCreate, TaskCreate, Create, TypeOK
<1>2. ~OnProcessor(t) /\ ~In(t, waitQueue)
  BY <1>1 DEF Core, EachTaskInOnePlace
<1>3. Phase(t) = "unborn" /\ Phase(t)' = "ready"
  BY <1>1, <1>2 DEF Phase, OnProcessor, In
<1>4. \A u \in Tasks \ {t} : Phase(u)' = Phase(u)
  BY <1>1 DEF Phase, OnProcessor, In
<1>5. Service!Move(t, "unborn", "ready")
  BY <1>3, <1>4, PhaseMoves
<1> QED
  BY <1>1, <1>5 DEF Service!Spawn, Answers

(* C-EXEC switches to the head of the ready queue.                         *)
LEMMA PopTaskDispatches ==
  ASSUME LateCreate, TypeOK, Alive, Core, CPopTask
  PROVE  \E t \in Tasks : Service!Dispatch(t)
<1>1. cPc = "pop" /\ cQueue # <<>> /\ cQueue \in Seq(Tasks)
  BY DEF CPopTask, TypeOK
<1>2. PICK t \in Tasks : t = Head(cQueue) /\ In(t, cQueue)
  BY <1>1, TailElements DEF In
<1>3. saved[t] /\ stage[t] = "live" /\ ~In(t, waitQueue)
  BY <1>1, <1>2 DEF Core, SavedUnlessLeaving, EachTaskInOnePlace
<1>4. /\ next' = t /\ cPc' \in {"readback", "task"}
      /\ cQueue' = Tail(cQueue)
      /\ UNCHANGED <<waitQueue, fromIthread, nextIo, iPc, stage>>
  BY <1>2, <1>3 DEF CPopTask
<1>5. Phase(t) = "ready" /\ Phase(t)' = "running"
  BY <1>1, <1>3, <1>4 DEF Phase, OnProcessor, In
<1>6. \A u \in Tasks \ {t} : Phase(u)' = Phase(u)
  BY <1>1, <1>4 DEF Phase, OnProcessor, In
<1>7. Service!Move(t, "ready", "running")
  BY <1>5, <1>6, PhaseMoves
<1>8. \A u \in Tasks : Phase(u) # "running"
  <2>1. \A u \in Tasks : stage[u] \in {"unborn", "live", "finished"}
    BY DEF TypeOK
  <2> QED
    BY <1>1, <2>1 DEF Phase, OnProcessor
<1>9. \A u \in Tasks : [v \in Tasks |-> Phase(v)][u] # "running"
  BY <1>8
<1> QED
  BY <1>1, <1>2, <1>4, <1>7, <1>9 DEF Service!Dispatch, Answers

(* The running task goes to the end of the ready queue.                    *)
LEMMA YieldYields ==
  ASSUME TypeOK, Alive, Core, TaskYield
  PROVE  \E t \in Tasks : Service!Yield(t)
<1>1. /\ cPc = "task" /\ next \in Tasks /\ cPc' = "swap"
      /\ cQueue' = Append(cQueue, next)
      /\ UNCHANGED <<waitQueue, fromIthread, next, nextIo, iPc, stage>>
  BY DEF TaskYield, Running, TypeOK
<1>2. PICK t \in Tasks : t = next
  BY <1>1
<1>3. stage[t] = "live" /\ ~In(t, waitQueue)
  BY <1>1, <1>2, RunningIsNotQueued
<1>4. Phase(t) = "running" /\ Phase(t)' = "ready"
  BY <1>1, <1>2, <1>3 DEF Phase, OnProcessor, In
<1>5. \A u \in Tasks \ {t} : Phase(u)' = Phase(u)
  BY <1>1, <1>2 DEF Phase, OnProcessor, In
<1>6. Service!Move(t, "running", "ready")
  BY <1>4, <1>5, PhaseMoves
<1> QED
  BY <1>1, <1>2, <1>6 DEF Service!Yield, Answers

(* The running task asks for blocking I/O.                                 *)
LEMMA BlockAsks ==
  ASSUME TypeOK, Alive, Core, TaskOpenPush \/ TaskRead
  PROVE  \E t \in Tasks : Service!Ask(t)
<1>1. /\ cPc \in {"task", "opening"} /\ next \in Tasks /\ cPc' = "swap"
      /\ waitQueue' = Append(waitQueue, next) /\ waitQueue \in Seq(Tasks)
      /\ UNCHANGED <<cQueue, fromIthread, next, nextIo, iPc, stage>>
  BY DEF TaskOpenPush, TaskRead, Running, TypeOK, taskVars
<1>2. PICK t \in Tasks : t = next
  BY <1>1
<1>3. stage[t] = "live" /\ ~In(t, waitQueue)
  BY <1>1, <1>2, RunningIsNotQueued
<1>4. ~IsServed(t)
  BY <1>3, ServedWaits DEF IsServed, IServesBlocking
<1>5. \A u \in Tasks : In(u, waitQueue)' <=> In(u, waitQueue) \/ u = t
  <2>1. \A u : In(u, Append(waitQueue, t)) <=> In(u, waitQueue) \/ u = t
    BY <1>1, InAppend
  <2> QED
    BY <1>1, <1>2, <2>1 DEF In
<1>6. Phase(t) = "running" /\ Phase(t)' = "blocked"
  BY <1>1, <1>2, <1>3, <1>4, <1>5 DEF Phase, OnProcessor, IsServed
<1>7. \A u \in Tasks \ {t} : Phase(u)' = Phase(u)
  BY <1>1, <1>2, <1>5 DEF Phase, OnProcessor
<1>8. Service!Move(t, "running", "blocked")
  BY <1>6, <1>7, PhaseMoves
<1> QED
  BY <1>1, <1>8 DEF Service!Ask, Answers
(* I-EXEC has done what a blocked task asked for.                          *)
LEMMA IOServes ==
  ASSUME TypeOK, Alive, Core, IConnect \/ IRecv
  PROVE  \E t \in Tasks : Service!Serve(t)
<1>1. /\ iPc \in {"connecting", "recv"} /\ iPc' \in {"wake", "deliver"}
      /\ UNCHANGED <<cQueue, waitQueue, fromIthread, next, nextIo, cPc, stage>>
  BY DEF IConnect, IRecv, queues, taskVars
<1>2. PICK t \in Tasks : t = nextIo.task /\ In(t, waitQueue)
                         /\ ~OnProcessor(t) /\ stage[t] = "live"
  BY <1>1, ServedWaits DEF IServesBlocking, Connecting
<1>3. Phase(t) = "blocked" /\ Phase(t)' = "served"
  BY <1>1, <1>2 DEF Phase, OnProcessor, In
<1>4. \A u \in Tasks \ {t} : Phase(u)' = Phase(u)
  BY <1>1, <1>2 DEF Phase, OnProcessor, In
<1>5. Service!Move(t, "blocked", "served")
  BY <1>3, <1>4, PhaseMoves
<1> QED
  BY <1>1, <1>5 DEF Service!Serve, Answers

(* I-EXEC requeues the task it has served, with its data after a read.     *)
LEMMA WakeResumes ==
  ASSUME TypeOK, Alive, Core, IWake \/ IDeliver
  PROVE  \E t \in Tasks : Service!Resume(t)
<1>1. IServesBlocking /\ iPc \in {"wake", "deliver"}
  BY DEF IWake, IDeliver, IServesBlocking
<1>2. PICK t \in Tasks :
        /\ t = nextIo.task /\ t = Head(waitQueue) /\ waitQueue # <<>>
        /\ In(t, waitQueue) /\ ~In(t, cQueue) /\ ~OnProcessor(t)
        /\ stage[t] = "live" /\ t \notin Answers
  BY <1>1, ServedWaits
<1>3. /\ cQueue' = Append(cQueue, t) /\ waitQueue' = Tail(waitQueue)
      /\ iPc' = "pop" /\ UNCHANGED <<next, cPc, nextIo, stage>>
      /\ fromIthread' \in {fromIthread, Append(fromIthread, t)}
  BY <1>2 DEF IWake, IDeliver, WakeHead, taskVars
<1>4. \A u \in Tasks : In(u, waitQueue)' <=> In(u, waitQueue) /\ u # t
  <2>1. waitQueue \in Seq(Tasks) /\ Distinct(waitQueue)
    BY DEF TypeOK, Core, EachTaskInOnePlace
  <2>2. \A u : In(u, Tail(waitQueue)) <=> In(u, waitQueue) /\ u # t
    BY <1>2, <2>1, InTail
  <2> QED
    BY <1>3, <2>2 DEF In
<1>5. Phase(t) = "served" /\ Phase(t)' = "ready"
  BY <1>1, <1>2, <1>3, <1>4 DEF Phase, OnProcessor
<1>6. \A u \in Tasks \ {t} : Phase(u)' = Phase(u)
  BY <1>2, <1>3, <1>4 DEF Phase, OnProcessor
<1>7. Service!Move(t, "served", "ready")
  BY <1>5, <1>6, PhaseMoves
<1>8. Answers' = Answers \/ Answers' = Answers \cup {t}
  <2>1. CASE fromIthread' = fromIthread
    BY <2>1 DEF Answers
  <2>2. CASE fromIthread' = Append(fromIthread, t)
    <3>1. fromIthread \in Seq(Tasks)
      BY DEF TypeOK
    <3>2. /\ Len(fromIthread) \in Nat
          /\ DOMAIN fromIthread = 1 .. Len(fromIthread)
          /\ DOMAIN fromIthread' = 1 .. Len(fromIthread) + 1
          /\ \A i \in 1 .. Len(fromIthread) : fromIthread'[i] = fromIthread[i]
          /\ fromIthread'[Len(fromIthread) + 1] = t
      BY <2>2, <3>1, AppendElements
    <3> QED
      BY <3>2 DEF Answers
  <2> QED
    BY <1>3, <2>1, <2>2
<1> QED
  BY <1>2, <1>3, <1>7, <1>8 DEF Service!Resume, Answers

(* A task takes its answer.                                                *)
LEMMA ReadBackCollects ==
  ASSUME TypeOK, Alive, Core, TaskReadBack
  PROVE  \E t \in Tasks : Service!Collect(t)
<1>1. cPc = "readback" /\ next \in Tasks /\ fromIthread \in Seq(Tasks)
  BY DEF TaskReadBack, Running, TypeOK
<1>2. PICK t \in Tasks : t = next
  BY <1>1
<1>3. fromIthread # <<>> /\ fromIthread[1] = t
  BY <1>1, <1>2 DEF Core, AnswersPaired, Paired
<1>4. /\ fromIthread' = Tail(fromIthread) /\ cPc' = "task"
      /\ UNCHANGED <<cQueue, waitQueue, next, nextIo, iPc, stage>>
  BY <1>3 DEF TaskReadBack
<1>5. /\ Len(fromIthread) \in Nat \ {0}
      /\ DOMAIN fromIthread = 1 .. Len(fromIthread)
      /\ DOMAIN fromIthread' = 1 .. Len(fromIthread) - 1
      /\ \A i \in 1 .. Len(fromIthread) - 1 :
            fromIthread'[i] = fromIthread[i + 1]
  BY <1>1, <1>3, <1>4, TailElements
<1>6. \A k \in DOMAIN fromIthread : k # 1 => fromIthread[k] # t
  BY <1>1, <1>2, WhoseAnswers
<1>7. Answers' = Answers \ {t} /\ t \in Answers
  <2>1. ASSUME NEW k \in DOMAIN fromIthread, fromIthread[k] # t
        PROVE  \E i \in DOMAIN fromIthread' : fromIthread'[i] = fromIthread[k]
    <3>1. k - 1 \in DOMAIN fromIthread' /\ fromIthread'[k - 1] = fromIthread[k]
      BY <1>3, <1>5, <2>1
    <3> QED
      BY <3>1
  <2>2. ASSUME NEW i \in DOMAIN fromIthread'
        PROVE  \E k \in DOMAIN fromIthread :
                 fromIthread'[i] = fromIthread[k] /\ fromIthread[k] # t
    <3>1. /\ i + 1 \in DOMAIN fromIthread /\ i + 1 # 1
          /\ fromIthread'[i] = fromIthread[i + 1]
      BY <1>5
    <3> QED
      BY <1>6, <3>1
  <2>3. 1 \in DOMAIN fromIthread
    BY <1>5
  <2>4. \A x \in Answers' : x \in Answers \ {t}
    BY <2>2 DEF Answers
  <2>5. \A x \in Answers \ {t} : x \in Answers'
    BY <2>1 DEF Answers
  <2> QED
    BY <1>3, <2>3, <2>4, <2>5 DEF Answers
<1>8. \A u \in Tasks : Phase(u)' = Phase(u)
  BY <1>1, <1>4 DEF Phase, OnProcessor, In
<1>9. Phase(t) = "running"
  BY <1>1, <1>2, RunningIsNotQueued DEF Phase, OnProcessor
<1>10. UNCHANGED [u \in Tasks |-> Phase(u)]
  BY <1>8, PhasesKept
<1> QED
  BY <1>4, <1>7, <1>9, <1>10 DEF Service!Collect, Answers

(* The running task ends, and leaves no answer behind.                     *)
LEMMA ExitFinishes ==
  ASSUME TypeOK, Alive, Core, TaskExit
  PROVE  \E t \in Tasks : Service!Finish(t)
<1>1. /\ cPc = "task" /\ next \in Tasks /\ cPc' = "pop"
      /\ stage' = [stage EXCEPT ![next] = "finished"]
      /\ stage \in [Tasks -> {"unborn", "live", "finished"}]
      /\ UNCHANGED <<cQueue, waitQueue, fromIthread, next, nextIo, iPc>>
  BY DEF TaskExit, Running, TypeOK, queues
<1>2. PICK t \in Tasks : t = next
  BY <1>1
<1>3. stage[t] = "live" /\ ~In(t, cQueue)
  BY <1>1, <1>2, RunningIsNotQueued
<1>4. t \notin Answers
  BY <1>1, <1>3, WhoseAnswers DEF Answers
<1>5. Phase(t) = "running" /\ Phase(t)' = "finished"
  BY <1>1, <1>2, <1>3 DEF Phase, OnProcessor
<1>6. \A u \in Tasks \ {t} : Phase(u)' = Phase(u)
  BY <1>1, <1>2 DEF Phase, OnProcessor, In
<1>7. Service!Move(t, "running", "finished")
  BY <1>5, <1>6, PhaseMoves
<1> QED
  BY <1>1, <1>4, <1>7 DEF Service!Finish, Answers

(* Steps the service does not see.                                         *)
LEMMA QuietStutters ==
  ASSUME UNCHANGED <<cQueue, waitQueue, fromIthread, stage>>,
         \A t \in Tasks : OnProcessor(t)' <=> OnProcessor(t),
         \A t \in Tasks : IsServed(t)' <=> IsServed(t)
  PROVE  UNCHANGED Seen
<1>1. \A t \in Tasks : Phase(t)' = Phase(t)
  BY PhaseKept DEF In
<1>2. UNCHANGED [t \in Tasks |-> Phase(t)]
  BY <1>1, PhasesKept
<1> QED
  BY <1>2 DEF Seen, Answers
-----------------------------------------------------------------------------
(* Every step of the library is a step of the service or a stutter.        *)
LEMMA StepServes ==
  ASSUME LateCreate
  PROVE  IInv /\ [Next]_vars => [Service!Next]_Seen
<1> SUFFICES ASSUME IInv, [Next]_vars
             PROVE  [Service!Next]_Seen
  OBVIOUS
<1>1. TypeOK /\ (Alive => Core)
  BY DEF IInv
<1>2. CASE UNCHANGED vars
  BY <1>2, QuietStutters DEF vars, OnProcessor, IsServed
<1>3. CASE Stopped
  BY <1>3, QuietStutters DEF Stopped, vars, OnProcessor, IsServed
<1>4. CASE Alive /\ (MainCreates \/ MainStep \/ CExec \/ TaskStep \/ IExec)
  <2>0. Alive /\ Core
    BY <1>1, <1>4
  <2>1. CASE MainCreates \/ \E t \in Tasks : TaskCreate(t)
    BY <1>1, <2>0, <2>1, CreateSpawns DEF MainCreates, Service!Next
  <2>2. CASE CPopTask
    BY <1>1, <2>0, <2>2, PopTaskDispatches DEF Service!Next
  <2>3. CASE TaskYield
    BY <1>1, <2>0, <2>3, YieldYields DEF Service!Next
  <2>4. CASE TaskOpenPush \/ TaskRead
    BY <1>1, <2>0, <2>4, BlockAsks DEF Service!Next
  <2>5. CASE IConnect \/ IRecv
    BY <1>1, <2>0, <2>5, IOServes DEF Service!Next
  <2>6. CASE IWake \/ IDeliver
    BY <1>1, <2>0, <2>6, WakeResumes DEF Service!Next
  <2>7. CASE TaskReadBack
    BY <1>1, <2>0, <2>7, ReadBackCollects DEF Service!Next
  <2>8. CASE TaskExit
    BY <1>1, <2>0, <2>8, ExitFinishes DEF Service!Next
  <2>9. CASE MainShutdown \/ MainJoinC \/ MainJoinI
    BY <2>9, QuietStutters
    DEF MainShutdown, MainJoinC, MainJoinI, MainJoin, queues, taskVars,
        OnProcessor, IsServed
  <2>10. CASE CGetContext \/ CPopNothing \/ CReadFlag \/ CCheckQueues
                \/ CExit
    BY <2>10, QuietStutters
    DEF CGetContext, CPopNothing, CReadFlag, CCheckQueues, CExit, queues,
        taskVars, OnProcessor, IsServed
  <2>11. CASE \/ TaskOpen \/ TaskCopied \/ TaskPort \/ TaskSwapOut
              \/ TaskWrite \/ TaskClose
    BY <2>11, QuietStutters
    DEF TaskOpen, TaskCopied, TaskPort, Opening, TaskSwapOut, TaskWrite, TaskClose, TaskPost, Running,
        queues, taskVars, OnProcessor, IsServed
  <2>12. CASE IPopRequest
    <3>1. iPc = "pop" /\ iPc' \in {"connect", "send", "recv", "shut"}
      <4>1. toIthread \in Seq(Request) /\ toIthread # <<>>
        BY <1>1, <2>12 DEF TypeOK, IPopRequest
      <4>2. Head(toIthread) \in Request
        BY <4>1, TailElements
      <4> QED
        BY <2>12, <4>2 DEF IPopRequest, Handler, Request, Commands
    <3> QED
      BY <2>12, <3>1, QuietStutters DEF IPopRequest, taskVars, OnProcessor,
         IsServed
  <2>13. CASE \/ IPopNothing \/ IReadFlags \/ IReadHost \/ IReadPort
              \/ ISend \/ IShut
    BY <2>13, QuietStutters
    DEF IPopNothing, IReadFlags, IReadHost, IReadPort, ISend, IShut, queues, taskVars,
        OnProcessor, IsServed
  <2> QED
    BY <1>4, <2>1, <2>2, <2>3, <2>4, <2>5, <2>6, <2>7, <2>8, <2>9, <2>10,
       <2>11, <2>12, <2>13
    DEF MainStep, CExec, TaskStep, IExec
<1> QED
  BY <1>2, <1>3, <1>4 DEF Next

(* If main creates tasks only once C-EXEC is set up, every behaviour of    *)
(* the library is one of TaskService: ready tasks run first come first     *)
(* served, none is resumed before its I/O was done, and none collects the  *)
(* answer to another's read (sut.c:57-64, 93-117, 217-224).                *)
THEOREM LibraryServesTasks ==
  ASSUME LateCreate
  PROVE  Spec => ImplementsTaskService
<1>1. Init => Service!Init
  BY DEF Init, Service!Init, Phase
<1>2. IInv /\ [Next]_vars => [Service!Next]_Seen
  BY StepServes
<1> QED
  BY <1>1, <1>2, Invariance, PTL
  DEF Spec, ImplementsTaskService, Service!Spec, Service!vars, Seen, Answers
=============================================================================
