--------------------------- MODULE TaskMemoryProofs ---------------------------
(***************************************************************************)
(* Proofs about the memory of the thread library: what a task has read and *)
(* the ucontext a task needs are kept, nothing is misused and nothing is   *)
(* lost, for every set of tasks and bound.                                 *)
(***************************************************************************)
EXTENDS TaskMemory, SUTProofs

USE DEF Opening, Connecting

(* Every step with its memory is a step of the library.                    *)
LEMMA MemoryRefines ==
  [NextM]_<<vars, memVars>> => [Next]_vars
<1> SUFFICES ASSUME [NextM]_<<vars, memVars>>
             PROVE  [Next]_vars
  OBVIOUS
<1>1. CASE Working /\ \E t \in Tasks : MCreate(t)
  BY <1>1 DEF MCreate, Working, Next, MainCreates, TaskStep
<1>2. CASE Working /\ (MPopTask \/ MPopNothing)
  BY <1>2 DEF MPopTask, MPopNothing, Working, Next, CExec
<1>3. CASE Working /\ Task
  BY <1>3 DEF Task, MYield, MOpen, MAsk, MWrite, MClose, MSwapOut, MReadBack,
              MReturn, MExit, Working, Next, TaskStep
<1>4. CASE Working /\ IO
  BY <1>4 DEF IO, MPopRequest, MConnect, MWake, MDeliver, MSend, MReadFlags,
              Working, Next, IExec
<1>5. CASE Working /\ MOther
  BY <1>5 DEF MOther, Working, Next, CExec, TaskStep, IExec
<1>6. CASE UNCHANGED <<vars, memVars>>
  BY <1>6
<1> QED
  BY <1>1, <1>2, <1>3, <1>4, <1>5, <1>6 DEF NextM

(* Hence the library's invariant holds.                                    *)
LEMMA LibraryInvariant == SpecM => []IInv
<1>1. InitM => Init
  BY DEF InitM
<1> QED
  BY <1>1, MemoryRefines, InitInvariant, StepInvariant, PTL DEF SpecM
-----------------------------------------------------------------------------
(* What is fresh was read by the task that still has the processor.        *)
FreshInv == fresh => result = next /\ cPc \in {"task"} \cup Opening

(* What is fresh stops being so before another task has the processor.     *)
LEMMA FreshStep ==
  IInv /\ FreshInv /\ [NextM]_<<vars, memVars>> => FreshInv'
<1> SUFFICES ASSUME IInv, FreshInv, [NextM]_<<vars, memVars>>
             PROVE  FreshInv'
  OBVIOUS
<1> USE DEF FreshInv, Unnumbered
<1>1. CASE \E t \in Tasks : MCreate(t)
  BY <1>1 DEF MCreate, MainCreate, TaskCreate
<1>2. CASE MPopTask \/ MPopNothing
  BY <1>2 DEF MPopTask, MPopNothing, CPopTask, CPopNothing
<1>3. CASE MYield \/ MAsk
  BY <1>3 DEF MYield, MAsk, Count
<1>4. CASE MOpen \/ MSwapOut
  BY <1>4 DEF MOpen, MSwapOut, TaskOpen, TaskCopied, TaskSwapOut, Running
<1>5. CASE MWrite \/ MClose
  BY <1>5 DEF MWrite, MClose, Count, TaskWrite, TaskClose, TaskPost
<1>6. CASE Working /\ MReadBack
  <2>1. cPc = "readback" /\ Core
    BY <1>6 DEF MReadBack, TaskReadBack, Running, Working, IInv
  <2>2. fromIthread # <<>> /\ Head(fromIthread) = next
    BY <2>1 DEF IInv, TypeOK, Core, AnswersPaired, Paired
  <2> QED
    BY <1>6, <2>1, <2>2 DEF MReadBack, TaskReadBack
<1>7. CASE MReturn \/ MExit
  BY <1>7 DEF MReturn, MExit
<1>8. CASE IO
  BY <1>8 DEF IO, MPopRequest, MConnect, MWake, MDeliver, MSend, MReadFlags,
              IPopRequest, IReadHost, IWake, IShut, IDeliver, ISend, IReadFlags
<1>9. CASE MOther
  BY <1>9 DEF MOther, memVars, MainStep, MainShutdown, MainJoinC, MainJoinI,
              MainJoin, CGetContext, CReadFlag, CCheckQueues, CExit,
              TaskPort, Running, IPopNothing, IReadPort, IConnect, IRecv
<1>10. CASE UNCHANGED <<vars, memVars>>
  BY <1>10 DEF vars, memVars
<1> QED
  BY <1>1, <1>2, <1>3, <1>4, <1>5, <1>6, <1>7, <1>8, <1>9, <1>10
  DEF NextM, Task

(* A task that has read finds its data in the buffer all tasks share, as   *)
(* long as it keeps the processor (sut.c:104-110, 219-225).                *)
THEOREM ReadDataKept == SpecM => []ResultKept
<1>1. InitM => FreshInv
  BY DEF InitM, FreshInv
<1>2. FreshInv => ResultKept
  BY DEF FreshInv, ResultKept
<1> QED
  BY <1>1, <1>2, FreshStep, LibraryInvariant, PTL DEF SpecM
-----------------------------------------------------------------------------
(* The ucontext of a live task is allocated.                               *)
ContextInv ==
  /\ swaps \in [Tasks -> Nat]
  /\ \A t \in Tasks : stage[t] = "unborn" => swaps[t] = 0
  /\ ContextKept

(* A block that is not freed stays.                                        *)
LEMMA MemoryKeeps ==
  ASSUME NEW uses, NEW frees, NEW news, NEW m,
         Memory(uses, frees, news), m \in news \/ (m \in memory /\ m \notin frees)
  PROVE  m \in memory'
BY DEF Memory

(* Blocks of the other kinds are not ucontexts.                            *)
LEMMA OtherKinds ==
  ASSUME NEW t, NEW n
  PROVE  /\ Context(t, n) \notin Popped
         /\ \A k : Context(t, n) \notin Message(k)
         /\ \A k : Context(t, n) # Text(k)
         /\ \A u : Context(t, n) # Data(u) /\ Context(t, n) # DataNode(u)
         /\ Context(t, n) # Host
<1>1. \A u, k : Context(t, n) # Node(u, k)
  BY DEF Context, Node
<1>2. Context(t, n) \notin Popped
  BY <1>1 DEF Popped
<1> QED
  BY <1>2 DEF Context, Message, Text, Data, DataNode, Host

(* Steps that neither create nor end a task and free no ucontext.          *)
LEMMA ContextQuiet ==
  ASSUME ContextInv, UNCHANGED <<stage, swaps>>,
         NEW uses, NEW frees, NEW news, Memory(uses, frees, news),
         \A t \in Tasks : Context(t, swaps[t]) \notin frees
  PROVE  ContextInv'
<1>1. \A t \in Tasks : stage[t] = "live" => Context(t, swaps[t]) \in memory'
  BY MemoryKeeps DEF ContextInv, ContextKept
<1> QED
  BY <1>1 DEF ContextInv, ContextKept, Context

(* The running task leaves with a new ucontext.                            *)
LEMMA ContextNew ==
  ASSUME ContextInv, next \in Tasks, stage[next] = "live", UNCHANGED stage,
         NEW uses, NEW news, NewContext \subseteq news,
         Memory(uses, {}, news),
         swaps' = [swaps EXCEPT ![next] = @ + 1]
  PROVE  ContextInv'
<1>1. swaps' \in [Tasks -> Nat]
  BY DEF ContextInv
<1>2. \A t \in Tasks : stage'[t] = "unborn" => swaps'[t] = 0
  BY DEF ContextInv
<1>3. ASSUME NEW t \in Tasks, stage'[t] = "live"
      PROVE  Context(t, swaps'[t]) \in memory'
  <2>1. CASE t = next
    <3>1. Context(t, swaps'[t]) \in news
      BY <2>1 DEF NewContext, ContextInv
    <3> QED
      BY <3>1, MemoryKeeps
  <2>2. CASE t # next
    <3>1. swaps'[t] = swaps[t] /\ Context(t, swaps[t]) \in memory
      BY <1>3, <2>2 DEF ContextInv, ContextKept
    <3> QED
      BY <3>1, MemoryKeeps
  <2> QED
    BY <2>1, <2>2
<1> QED
  BY <1>1, <1>2, <1>3 DEF ContextInv, ContextKept, Context

(* A task ends, and at most its own ucontext is freed.                     *)
LEMMA ContextEnd ==
  ASSUME ContextInv, next \in Tasks, stage \in [Tasks -> {"unborn", "live",
                                                         "finished"}],
         stage' = [stage EXCEPT ![next] = "finished"], UNCHANGED swaps,
         \A m : m \in memory /\ m # Context(next, swaps[next]) => m \in memory'
  PROVE  ContextInv'
<1>1. ASSUME NEW t \in Tasks, stage'[t] = "live"
      PROVE  Context(t, swaps[t]) \in memory'
  <2>1. t # next /\ stage[t] = "live"
    BY <1>1
  <2>2. Context(t, swaps[t]) # Context(next, swaps[next])
    BY <2>1 DEF Context
  <2> QED
    BY <2>1, <2>2 DEF ContextInv, ContextKept
<1>2. \A t \in Tasks : stage'[t] = "unborn" => swaps[t] = 0
  BY DEF ContextInv
<1> QED
  BY <1>1, <1>2 DEF ContextInv, ContextKept, Context

(* No step frees the ucontext of a task that has not ended.                *)
LEMMA ContextStep ==
  IInv /\ ContextInv /\ [NextM]_<<vars, memVars>> => ContextInv'
<1> SUFFICES ASSUME IInv, ContextInv, [NextM]_<<vars, memVars>>
             PROVE  ContextInv'
  OBVIOUS
<1> USE DEF Unnumbered
<1>0. TypeOK /\ (Alive => Core)
  BY DEF IInv
<1>1. ASSUME NEW t \in Tasks, MCreate(t)
      PROVE  ContextInv'
  <2>1. /\ stage[t] = "unborn" /\ stage' = [stage EXCEPT ![t] = "live"]
        /\ stage \in [Tasks -> {"unborn", "live", "finished"}]
        /\ swaps' = swaps
        /\ Memory({}, {}, {Context(t, 0), Stack(t), Node(t, 0)})
    BY <1>0, <1>1 DEF MCreate, MainCreate, TaskCreate, Create, TypeOK
  <2>2. swaps[t] = 0
    BY <2>1 DEF ContextInv
  <2>3. ASSUME NEW u \in Tasks, stage'[u] = "live"
        PROVE  Context(u, swaps[u]) \in memory'
    <3>1. u = t \/ stage[u] = "live"
      BY <2>1, <2>3
    <3>2. CASE u = t
      BY <2>1, <2>2, <3>2, MemoryKeeps
    <3>3. CASE stage[u] = "live"
      BY <2>1, <3>3, MemoryKeeps DEF ContextInv, ContextKept
    <3> QED
      BY <3>1, <3>2, <3>3
  <2>4. \A u \in Tasks : stage'[u] = "unborn" => swaps[u] = 0
    BY <2>1 DEF ContextInv
  <2> QED
    BY <2>1, <2>3, <2>4 DEF ContextInv, ContextKept, Context
<1>2. CASE MPopTask \/ MPopNothing
  <2>1. UNCHANGED <<stage, swaps>>
    BY <1>2 DEF MPopTask, MPopNothing, CPopTask, CPopNothing, taskVars
  <2>2. PICK uses : Memory(uses, Popped, {})
    BY <1>2 DEF MPopTask, MPopNothing
  <2> QED
    BY <2>1, <2>2, OtherKinds, ContextQuiet
<1>3. CASE Working /\ (MYield \/ MAsk)
  <2>1. cPc \in {"task"} \cup Opening /\ next \in Tasks /\ UNCHANGED stage
    BY <1>0, <1>3 DEF MYield, MAsk, TaskYield, TaskOpenPush, TaskRead,
                      Running, TypeOK, taskVars
  <2>2. stage[next] = "live"
    BY <1>0, <1>3, <2>1, RunningIsNotQueued DEF Working
  <2>3. swaps' = [swaps EXCEPT ![next] = @ + 1]
    BY <1>3 DEF MYield, MAsk, Count
  <2>4. PICK news : NewContext \subseteq news /\ Memory({}, {}, news)
    BY <1>3 DEF MYield, MAsk
  <2> QED
    BY <2>1, <2>2, <2>3, <2>4, ContextNew
<1>4. CASE MOpen \/ MSwapOut \/ MWrite \/ MClose
  <2>1. UNCHANGED <<stage, swaps>>
    BY <1>4 DEF MOpen, MSwapOut, MWrite, MClose, TaskOpen, TaskCopied,
                taskVars, Unnumbered, TaskSwapOut, TaskWrite, TaskClose, TaskPost, Count
  <2>2. PICK uses, news : Memory(uses, {}, news)
    BY <1>4 DEF MOpen, MSwapOut, MWrite, MClose
  <2> QED
    BY <2>1, <2>2, ContextQuiet
<1>5. CASE MReadBack
  <2>1. UNCHANGED <<stage, swaps>>
    BY <1>5 DEF MReadBack, TaskReadBack
  <2>2. PICK t : Memory({ReadBuffer}, {Data(t), DataNode(t)}, {})
    BY <1>5 DEF MReadBack
  <2> QED
    BY <2>1, <2>2, OtherKinds, ContextQuiet
<1>6. CASE MReturn \/ MExit
  <2>1. /\ next \in Tasks /\ stage' = [stage EXCEPT ![next] = "finished"]
        /\ stage \in [Tasks -> {"unborn", "live", "finished"}]
        /\ UNCHANGED swaps
    BY <1>0, <1>6 DEF MReturn, MExit, TaskExit, Running, TypeOK
  <2>2. \A m : m \in memory /\ m # Context(next, swaps[next]) => m \in memory'
    BY <1>6 DEF MReturn, MExit, Memory
  <2> QED
    BY <2>1, <2>2, ContextEnd
<1>7. CASE IO
  <2>1. UNCHANGED <<stage, swaps>>
    BY <1>7 DEF IO, MPopRequest, MConnect, MWake, MDeliver, MSend, MReadFlags,
                IPopRequest, IReadHost, IWake, IShut, IDeliver, ISend,
                IReadFlags, taskVars
  <2>2. PICK uses, frees, news :
          /\ Memory(uses, frees, news)
          /\ \A m \in frees : \/ \E k : m \in Message(k) \/ m = Text(k)
                             \/ m = Host
    <3>1. CASE MPopRequest \/ MConnect
      BY <3>1 DEF MPopRequest, MConnect
    <3>2. CASE MWake \/ MDeliver
      BY <3>2 DEF MWake, MDeliver
    <3>3. CASE MSend
      <4>1. Memory({}, Message(Serving) \cup {Text(Serving)}, {})
        BY <3>3 DEF MSend
      <4> QED
        BY <4>1
    <3>4. CASE MReadFlags
      BY <3>4 DEF MReadFlags
    <3> QED
      BY <1>7, <3>1, <3>2, <3>3, <3>4 DEF IO
  <2> QED
    BY <2>1, <2>2, OtherKinds, ContextQuiet
<1>8. CASE MOther \/ UNCHANGED <<vars, memVars>>
  <2>1. UNCHANGED <<stage, swaps, memory>>
    BY <1>8 DEF MOther, memVars, vars, MainStep, MainShutdown, MainJoinC,
                MainJoinI, MainJoin, CGetContext, CReadFlag, CCheckQueues,
                CExit, TaskPort, IPopNothing, IReadPort, IConnect, IRecv,
                taskVars
  <2> QED
    BY <2>1 DEF ContextInv, ContextKept, Context
<1> QED
  BY <1>1, <1>2, <1>3, <1>4, <1>5, <1>6, <1>7, <1>8 DEF NextM, Task

(* The ucontext a live task will be resumed from is allocated: no call and *)
(* no thread frees it before the task has ended (sut.c:64, 178, 182-183).  *)
THEOREM LiveContextsKept == SpecM => []ContextKept
<1>1. InitM => ContextInv
  BY DEF InitM, Init, ContextInv, ContextKept
<1>2. ContextInv => ContextKept
  BY DEF ContextInv
<1> QED
  BY <1>1, <1>2, ContextStep, LibraryInvariant, PTL DEF SpecM
-----------------------------------------------------------------------------
(* The blocks of one kind, and what is allocated of the kinds that the     *)
(* queues carry: NothingForgotten, one kind at a time.                     *)
OfKind(S, kind) == {m \in S : m[1] = kind}

Request_(k)    == <<"message", NoTask, k>>
RequestNode(k) == <<"messageNode", NoTask, k>>

(* The numbers of the requests in to_ithread and of the one being served,  *)
(* and whether a request is a write.                                       *)
IdleHands  == {"pop", "empty", "done"}
Oldest     == IF iPc \in IdleHands THEN Serving + 1 ELSE Serving
Pending    == Oldest .. posted
IsWrite(k) == IF k = Serving THEN iPc = "send"
                             ELSE toIthread[k - Serving].command = "write"

Queued    == {t \in Tasks : In(t, cQueue) \/ In(t, waitQueue)}
Receiving == IF iPc \in {"recv", "deliver"} THEN {nextIo.task} ELSE {}

NodesExact ==
  OfKind(memory, "node") = {Node(t, swaps[t]) : t \in Queued} \cup Popped
RequestsExact ==
  /\ OfKind(memory, "message") = {Request_(k) : k \in Pending}
  /\ OfKind(memory, "messageNode") = {RequestNode(k) : k \in Pending}
TextsExact ==
  OfKind(memory, "text") = {Text(k) : k \in {j \in Pending : IsWrite(j)}}
DataExact ==
  /\ OfKind(memory, "data") = {Data(t) : t \in Answers \cup Receiving}
  /\ OfKind(memory, "dataNode") = {DataNode(t) : t \in Answers}

(* I-EXEC between two requests holds none, and is in the branch that its   *)
(* request asks for; C-EXEC holds no task while it looks for work.         *)
HandsInv ==
  /\ iPc \in {"empty", "done"} => nextIo = NoRequest
  /\ iPc \notin IdleHands => (nextIo.command = "write" <=> iPc = "send")
  /\ next # NoTask => /\ stage[next] # "unborn"
                      /\ cPc \in {"pop", "task", "swap", "readback"} \cup Opening

(* Ucontexts and stacks are of tasks that exist, and no ucontext has a     *)
(* number not yet given; the two buffers are there.                        *)
StaysInv ==
  /\ \A m \in OfKind(memory, "context") :
       \E t \in Tasks : \E n \in 0 .. swaps[t] :
         m = Context(t, n) /\ stage[t] # "unborn"
  /\ \A m \in OfKind(memory, "stack") :
       \E t \in Tasks : m = Stack(t) /\ stage[t] # "unborn"
  /\ ReadBuffer \in memory
  /\ iPc # "done" => Host \in memory

BlocksInv == NodesExact /\ RequestsExact /\ TextsExact /\ DataExact

MInv == Working => BlocksInv /\ StaysInv /\ HandsInv /\ posted \in Nat
-----------------------------------------------------------------------------
(* A block tells its kind ...                                              *)
LEMMA KindOf ==
  /\ \A t, n : /\ Node(t, n)[1] = "node" /\ Context(t, n)[1] = "context"
               /\ Stack(t)[1] = "stack" /\ Data(t)[1] = "data"
               /\ DataNode(t)[1] = "dataNode"
  /\ \A k : /\ Request_(k)[1] = "message" /\ RequestNode(k)[1] = "messageNode"
            /\ Text(k)[1] = "text" /\ Message(k) = {Request_(k), RequestNode(k)}
  /\ Host[1] = "host" /\ ReadBuffer[1] = "readBuffer"
  /\ \A m \in Popped : m[1] = "node"
BY DEF Node, Context, Stack, Data, DataNode, Request_, RequestNode, Text,
       Message, Host, ReadBuffer, Popped

(* ... and blocks of one kind are told apart by their owner and number.    *)
LEMMA OwnerOf ==
  /\ \A t, n, u, k : /\ Node(t, n) = Node(u, k) <=> t = u /\ n = k
                     /\ Context(t, n) = Context(u, k) <=> t = u /\ n = k
  /\ \A t, u : /\ Stack(t) = Stack(u) <=> t = u
               /\ Data(t) = Data(u) <=> t = u
               /\ DataNode(t) = DataNode(u) <=> t = u
  /\ \A k, j : /\ Request_(k) = Request_(j) <=> k = j
               /\ RequestNode(k) = RequestNode(j) <=> k = j
               /\ Text(k) = Text(j) <=> k = j
BY DEF Node, Context, Stack, Data, DataNode, Request_, RequestNode, Text

(* What a step makes of the blocks of one kind.                            *)
LEMMA KindMoves ==
  ASSUME NEW uses, NEW frees, NEW news, Memory(uses, frees, news), NEW kind
  PROVE  OfKind(memory', kind) = (OfKind(memory, kind) \ frees) \cup OfKind(news, kind)
BY DEF Memory, OfKind

(* It changes nothing if it frees and allocates none of them.              *)
LEMMA KindKept ==
  ASSUME NEW uses, NEW frees, NEW news, Memory(uses, frees, news), NEW kind,
         \A m \in frees \cup news : m[1] # kind
  PROVE  OfKind(memory', kind) = OfKind(memory, kind)
BY DEF Memory, OfKind

(* A step that uses and frees what is allocated and allocates what is not  *)
(* is no misuse.                                                           *)
LEMMA ProperUse ==
  ASSUME NEW uses, NEW frees, NEW news, Memory(uses, frees, news), Working,
         uses \subseteq memory, frees \subseteq memory, \A m \in news : m \notin memory
  PROVE  NoMisuse'
BY DEF Memory, Working, NoMisuse
-----------------------------------------------------------------------------
(* The numbers of the requests, as requests come and go.                   *)
LEMMA PendingKept ==
  ASSUME UNCHANGED <<toIthread, posted>>,
         iPc' \in IdleHands <=> iPc \in IdleHands, iPc' = "send" <=> iPc = "send"
  PROVE  Pending' = Pending /\ \A k : IsWrite(k)' <=> IsWrite(k)
BY DEF Pending, Oldest, Serving, IsWrite

(* A request posted by a task takes the next number.                       *)
LEMMA PendingPosted ==
  ASSUME toIthread \in Seq(Request), posted \in Nat, NEW r \in Request,
         NEW n, n = posted + 1,
         toIthread' = Append(toIthread, r), posted' = posted + 1, UNCHANGED iPc
  PROVE  /\ n \notin Pending /\ Pending' = Pending \cup {n}
         /\ \A k \in Pending : IsWrite(k)' <=> IsWrite(k)
         /\ IsWrite(n)' <=> r.command = "write"
<1>1. /\ Len(toIthread) \in Nat /\ Len(toIthread') = Len(toIthread) + 1
      /\ \A i \in 1 .. Len(toIthread) : toIthread'[i] = toIthread[i]
      /\ toIthread'[Len(toIthread) + 1] = r
  BY AppendElements
<1>2. /\ Serving \in Int /\ Serving = posted - Len(toIthread) /\ Serving' = Serving
      /\ Serving <= posted
  BY <1>1 DEF Serving
<1>3. Oldest \in Int /\ Oldest' = Oldest /\ Serving <= Oldest /\ Oldest <= posted + 1
  BY <1>2 DEF Oldest
<1>4. n \notin Pending /\ Pending' = Pending \cup {n}
  BY <1>3 DEF Pending
<1>5. ASSUME NEW k \in Pending PROVE IsWrite(k)' <=> IsWrite(k)
  <2>1. k = Serving \/ k - Serving \in 1 .. Len(toIthread)
    BY <1>2, <1>3, <1>5 DEF Pending
  <2> QED BY <1>1, <1>2, <2>1 DEF IsWrite
<1>6. IsWrite(n)' <=> r.command = "write"
  <2>1. n # Serving /\ n - Serving = Len(toIthread) + 1
    BY <1>1, <1>2
  <2> QED BY <1>1, <1>2, <2>1 DEF IsWrite
<1> QED BY <1>4, <1>5, <1>6

(* A request popped by I-EXEC keeps its number and is still pending.       *)
LEMMA PendingPopped ==
  ASSUME toIthread \in Seq(Request), posted \in Nat, IPopRequest, UNCHANGED posted
  PROVE  /\ Serving + 1 \in Pending /\ Pending' = Pending
         /\ \A k \in Pending : IsWrite(k)' <=> IsWrite(k)
<1>1. /\ iPc = "pop" /\ toIthread # <<>> /\ toIthread' = Tail(toIthread)
      /\ iPc' = Handler(Head(toIthread).command)
  BY DEF IPopRequest
<1>2. /\ Len(toIthread) \in Nat \ {0} /\ Len(toIthread') = Len(toIthread) - 1
      /\ Head(toIthread) = toIthread[1] /\ Head(toIthread) \in Request
      /\ \A i \in 1 .. Len(toIthread) - 1 : toIthread'[i] = toIthread[i + 1]
  BY <1>1, TailElements
<1>3. iPc' \notin IdleHands /\ (iPc' = "send" <=> Head(toIthread).command = "write")
  <2>1. Head(toIthread).command \in {"open", "write", "read", "close"}
    BY <1>2 DEF Request, Commands
  <2> QED BY <1>1, <2>1, Zenon DEF Handler, IdleHands
<1>4. /\ Serving \in Int /\ Serving = posted - Len(toIthread) /\ Serving' = Serving + 1
      /\ Serving + 1 <= posted
  BY <1>2 DEF Serving
<1>5. Pending = Serving + 1 .. posted /\ Pending' = Pending
  BY <1>1, <1>3, <1>4 DEF Pending, Oldest, IdleHands
<1>6. ASSUME NEW k \in Pending PROVE IsWrite(k)' <=> IsWrite(k)
  <2>1. k \in Int /\ k # Serving /\ Serving + 1 <= k /\ k <= posted
    BY <1>4, <1>5, <1>6
  <2>2. CASE k = Serving + 1
    <3>1. k - Serving = 1 /\ k = Serving'
      BY <1>4, <2>2
    <3> QED BY <1>2, <1>3, <2>1, <3>1 DEF IsWrite
  <2>3. CASE k # Serving + 1
    <3>1. /\ k # Serving' /\ k - Serving' \in 1 .. Len(toIthread) - 1
          /\ k - Serving' + 1 = k - Serving
      BY <1>2, <1>4, <2>1, <2>3
    <3> QED BY <1>2, <2>1, <3>1 DEF IsWrite
  <2> QED BY <2>2, <2>3
<1> QED BY <1>4, <1>5, <1>6

(* A request served is pending no longer.                                  *)
LEMMA PendingServed ==
  ASSUME toIthread \in Seq(Request), posted \in Nat, UNCHANGED <<toIthread, posted>>,
         iPc \notin IdleHands, iPc' = "pop"
  PROVE  /\ Serving \in Pending /\ Pending' = Pending \ {Serving}
         /\ \A k \in Pending' : IsWrite(k)' <=> IsWrite(k)
         /\ IsWrite(Serving) <=> iPc = "send"
<1>1. Len(toIthread) \in Nat
  BY LenProperties
<1>2. Serving \in Int /\ Serving <= posted /\ Serving' = Serving
  BY <1>1 DEF Serving
<1>3. /\ Pending = Serving .. posted /\ Pending' = Serving + 1 .. posted
  BY <1>2 DEF Pending, Oldest, IdleHands
<1>4. \A k \in Pending' : k # Serving
  BY <1>2, <1>3
<1> QED BY <1>2, <1>3, <1>4 DEF IsWrite
-----------------------------------------------------------------------------
(* The hands of the two executors are as HandsInv says after every step.   *)
LEMMA HandsStep ==
  ASSUME TypeOK, Alive, Core, HandsInv, Next
  PROVE  HandsInv'
<1> USE DEF HandsInv, IdleHands
<1>1. CASE MainCreates \/ \E t \in Tasks : TaskCreate(t)
  <2>1. PICK t \in Tasks : Create(t) /\ UNCHANGED <<next, cPc, nextIo, iPc>>
    BY <1>1 DEF MainCreates, MainCreate, TaskCreate
  <2>2. next # NoTask => stage'[next] # "unborn"
    BY <2>1 DEF Create, TypeOK
  <2> QED BY <2>1, <2>2
<1>2. CASE MainStep
  BY <1>2 DEF MainStep, MainShutdown, MainJoinC, MainJoinI, MainJoin, taskVars
<1>3. CASE CPopTask
  <2>1. Head(cQueue) \in Tasks /\ In(Head(cQueue), cQueue)
    BY <1>3, TailElements DEF CPopTask, TypeOK, In
  <2>2. stage[Head(cQueue)] = "live"
    BY <2>1 DEF Core, EachTaskInOnePlace
  <2>3. /\ next' = Head(cQueue) /\ cPc' \in {"pop", "task", "readback"}
        /\ UNCHANGED <<stage, nextIo, iPc>>
    BY <1>3 DEF CPopTask
  <2> QED BY <2>2, <2>3
<1>4. CASE CGetContext \/ CPopNothing \/ CReadFlag \/ CCheckQueues \/ CExit
  BY <1>4 DEF CGetContext, CPopNothing, CReadFlag, CCheckQueues, CExit, taskVars
<1>5. CASE TaskYield \/ TaskOpen \/ TaskCopied \/ TaskPort \/ TaskOpenPush
             \/ TaskRead \/ TaskSwapOut \/ TaskReadBack \/ TaskWrite
             \/ TaskClose
  BY <1>5 DEF TaskYield, TaskOpen, TaskCopied, TaskPort, TaskOpenPush, TaskRead, TaskSwapOut,
              TaskReadBack, TaskWrite, TaskClose, TaskPost, Running, taskVars
<1>6. CASE TaskExit
  <2>1. /\ cPc' = "pop" /\ stage' = [stage EXCEPT ![next] = "finished"]
        /\ UNCHANGED <<next, nextIo, iPc>>
    BY <1>6 DEF TaskExit
  <2>2. next \in Tasks /\ stage'[next] = "finished"
    BY <2>1, <1>6 DEF TaskExit, Running, TypeOK
  <2> QED BY <2>1, <2>2
<1>7. CASE IPopRequest
  <2>0. toIthread \in Seq(Request) /\ toIthread # <<>>
    BY <1>7 DEF IPopRequest, TypeOK
  <2>1. Head(toIthread).command \in {"open", "write", "read", "close"}
    <3>1. Head(toIthread) \in Request
      BY <2>0, TailElements
    <3> QED BY <3>1 DEF Request, Commands
  <2>2. /\ nextIo' = Head(toIthread) /\ iPc' = Handler(Head(toIthread).command)
        /\ UNCHANGED <<next, cPc, stage>>
    BY <1>7 DEF IPopRequest, taskVars
  <2>3. /\ iPc' \notin {"pop", "empty", "done"}
        /\ iPc' = "send" <=> Head(toIthread).command = "write"
    BY <2>1, <2>2, Zenon DEF Handler
  <2> QED BY <2>2, <2>3
<1>8. CASE IPopNothing \/ IReadFlags \/ IReadHost \/ IReadPort \/ IConnect
             \/ IWake \/ IRecv \/ IDeliver \/ ISend \/ IShut
  BY <1>8 DEF IPopNothing, IReadFlags, IReadHost, IReadPort, IConnect, IWake, IRecv, IDeliver, ISend,
              IShut, taskVars
<1>9. CASE UNCHANGED vars
  BY <1>9 DEF vars
<1> QED
  BY <1>1, <1>2, <1>3, <1>4, <1>5, <1>6, <1>7, <1>8, <1>9
  DEF Next, CExec, TaskStep, IExec, Stopped
-----------------------------------------------------------------------------
(* Steps that leave the blocks of one kind, and what they are for.         *)
LEMMA NodesKept ==
  ASSUME NodesExact, OfKind(memory', "node") = OfKind(memory, "node"),
         UNCHANGED swaps, Queued' = Queued, Popped' = Popped
  PROVE  NodesExact'
BY DEF NodesExact

(* The popped node depends on C-EXEC and on the life of its task.          *)
LEMMA PoppedKept ==
  ASSUME UNCHANGED <<swaps, next>>, next # NoTask => stage'[next] = stage[next],
         cPc' \in {"swap", "pop"} <=> cPc \in {"swap", "pop"}
  PROVE  Popped' = Popped
BY DEF Popped, Node

(* Steps that move no request keep the blocks of the requests.             *)
LEMMA RequestsKept ==
  ASSUME RequestsExact, TextsExact,
         \A kind \in {"message", "messageNode", "text"} :
            OfKind(memory', kind) = OfKind(memory, kind),
         Pending' = Pending, \A k \in Pending : IsWrite(k)' <=> IsWrite(k)
  PROVE  RequestsExact' /\ TextsExact'
<1>1. RequestsExact'
  BY DEF RequestsExact, Request_, RequestNode
<1>2. {Text(k) : k \in {j \in Pending : IsWrite(j)}}' =
        {Text(k) : k \in {j \in Pending : IsWrite(j)}}
  BY DEF Text
<1> QED BY <1>1, <1>2 DEF TextsExact

(* Steps that move no answer keep the blocks of the answers.               *)
LEMMA DataKept ==
  ASSUME DataExact,
         \A kind \in {"data", "dataNode"} :
            OfKind(memory', kind) = OfKind(memory, kind),
         Answers' = Answers, Receiving' = Receiving
  PROVE  DataExact'
BY DEF DataExact, Data, DataNode

(* What is allocated belongs to a task that was created, and stays so.     *)
LEMMA StaysKept ==
  ASSUME StaysInv, swaps \in [Tasks -> Nat], swaps' \in [Tasks -> Nat],
         \A t \in Tasks : swaps[t] <= swaps'[t],
         \A t \in Tasks : stage[t] # "unborn" => stage'[t] # "unborn",
         NEW uses, NEW frees, NEW news, Memory(uses, frees, news),
         \A m \in news : /\ m[1] = "context" =>
                              \E t \in Tasks : \E n \in 0 .. swaps'[t] :
                                m = Context(t, n) /\ stage'[t] # "unborn"
                         /\ m[1] = "stack" =>
                              \E t \in Tasks : m = Stack(t) /\ stage'[t] # "unborn",
         ReadBuffer \notin frees, iPc' # "done" => iPc # "done" /\ Host \notin frees
  PROVE  StaysInv'
<1>1. \A m : m \in memory' => m \in news \/ m \in memory
  BY DEF Memory
<1>2. ASSUME NEW m \in OfKind(memory', "context")
      PROVE  \E t \in Tasks : \E n \in 0 .. swaps'[t] :
               m = Context(t, n) /\ stage'[t] # "unborn"
  <2>1. m[1] = "context" /\ (m \in news \/ m \in OfKind(memory, "context"))
    BY <1>1, <1>2 DEF OfKind
  <2>2. CASE m \in news
    BY <2>1, <2>2
  <2>3. CASE m \in OfKind(memory, "context")
    <3>0. PICK t \in Tasks : \E n \in 0 .. swaps[t] :
                                m = Context(t, n) /\ stage[t] # "unborn"
      BY <2>3 DEF StaysInv
    <3>1. PICK n \in 0 .. swaps[t] : m = Context(t, n) /\ stage[t] # "unborn"
      BY <3>0
    <3>2. n \in 0 .. swaps'[t]
      <4>1. swaps[t] \in Nat /\ swaps'[t] \in Nat /\ swaps[t] <= swaps'[t]
        OBVIOUS
      <4> QED BY <4>1
    <3> QED BY <3>1, <3>2
  <2> QED BY <2>1, <2>2, <2>3
<1>3. ASSUME NEW m \in OfKind(memory', "stack")
      PROVE  \E t \in Tasks : m = Stack(t) /\ stage'[t] # "unborn"
  <2>1. m[1] = "stack" /\ (m \in news \/ m \in OfKind(memory, "stack"))
    BY <1>1, <1>3 DEF OfKind
  <2> QED BY <2>1 DEF StaysInv
<1>4. ReadBuffer \in memory' /\ (iPc' # "done" => Host \in memory')
  BY DEF StaysInv, Memory
<1>5. \A t, n : Context(t, n)' = Context(t, n) /\ Stack(t)' = Stack(t)
  BY DEF Context, Stack
<1>6. ReadBuffer' = ReadBuffer /\ Host' = Host
  BY DEF ReadBuffer, Host
<1> QED BY <1>2, <1>3, <1>4, <1>5, <1>6 DEF StaysInv, Context, Stack
-----------------------------------------------------------------------------
(* Nodes of the two queues of tasks.                                       *)
LEMMA NodesGain ==
  ASSUME NodesExact, NEW t,
         OfKind(memory', "node") = OfKind(memory, "node") \cup {Node(t, swaps'[t])},
         Queued' = Queued \cup {t}, \A u \in Queued : swaps'[u] = swaps[u],
         Popped' = Popped
  PROVE  NodesExact'
<1>1. {Node(u, swaps'[u]) : u \in Queued \cup {t}} =
        {Node(u, swaps[u]) : u \in Queued} \cup {Node(t, swaps'[t])}
  OBVIOUS
<1>2. {Node(u, swaps[u]) : u \in Queued}' = {Node(u, swaps'[u]) : u \in Queued \cup {t}}
  BY DEF Node
<1> QED BY <1>1, <1>2 DEF NodesExact

(* Which nodes are allocated.                                              *)
LEMMA NodeIn ==
  ASSUME NodesExact, NEW t, NEW n, Node(t, n) \in memory
  PROVE  \/ t \in Queued /\ n = swaps[t]
         \/ next # NoTask /\ t = next
<1>1. Node(t, n) \in OfKind(memory, "node")
  BY KindOf DEF OfKind
<1>2. CASE \E u \in Queued : Node(t, n) = Node(u, swaps[u])
  BY <1>2, OwnerOf
<1>3. CASE Node(t, n) \in Popped
  BY <1>3, OwnerOf DEF Popped
<1> QED BY <1>1, <1>2, <1>3 DEF NodesExact

(* The popped node is not one of those in the queues: if its task is       *)
(* queued again it is so with a newer one.                                 *)
LEMMA PoppedApart ==
  ASSUME TypeOK, Alive, Core, HandsInv, ContextInv
  PROVE  \A u \in Queued : Node(u, swaps[u]) \notin Popped
<1>1. SUFFICES ASSUME NEW u \in Queued, Node(u, swaps[u]) \in Popped
               PROVE  FALSE
  OBVIOUS
<1>2. next # NoTask /\ u = next
  BY <1>1, OwnerOf DEF Popped
<1>3. u \in Tasks /\ stage[u] = "live" /\ ~OnProcessor(u)
  BY <1>1 DEF Queued, Core, EachTaskInOnePlace
<1>4. cPc \in {"swap", "pop"}
  BY <1>2, <1>3 DEF HandsInv, OnProcessor
<1>5. Popped = {Node(u, swaps[u] - 1)}
  BY <1>2, <1>3, <1>4 DEF Popped
<1>6. swaps[u] = swaps[u] - 1
  BY <1>1, <1>5, OwnerOf
<1> QED BY <1>3, <1>6 DEF ContextInv

(* What is popped and what is queued is allocated.                         *)
LEMMA NodesThere ==
  ASSUME NodesExact
  PROVE  Popped \subseteq memory /\ \A t \in Queued : Node(t, swaps[t]) \in memory
BY DEF NodesExact, OfKind
-----------------------------------------------------------------------------
(* What every step must uphold, given what held before.                    *)
Given == /\ IInv /\ ContextInv /\ Working
         /\ BlocksInv /\ StaysInv /\ HandsInv /\ posted \in Nat
Upheld == NoMisuse' /\ (Working' => BlocksInv' /\ StaysInv')

(* The parts of Given that the cases need.                                 *)
LEMMA GivenParts ==
  ASSUME Given
  PROVE  /\ TypeOK /\ Alive /\ Core /\ HandsInv /\ StaysInv /\ Working
         /\ NodesExact /\ RequestsExact /\ TextsExact /\ DataExact
         /\ ContextInv /\ swaps \in [Tasks -> Nat] /\ posted \in Nat
         /\ toIthread \in Seq(Request) /\ fromIthread \in Seq(Tasks)
         /\ cQueue \in Seq(Tasks) /\ waitQueue \in Seq(Tasks)
BY DEF Given, IInv, Working, BlocksInv, ContextInv, TypeOK

(* A step that makes no ucontext and no stack and frees no buffer.         *)
LEMMA StaysQuiet ==
  ASSUME Given, UNCHANGED swaps,
         \A t \in Tasks : stage[t] # "unborn" => stage'[t] # "unborn",
         NEW uses, NEW frees, NEW news, Memory(uses, frees, news),
         \A m \in news : m[1] # "context" /\ m[1] # "stack",
         \A m \in frees : m[1] # "host" /\ m[1] # "readBuffer",
         iPc' # "done" => iPc # "done"
  PROVE  StaysInv'
<1>1. StaysInv /\ swaps \in [Tasks -> Nat] /\ \A t \in Tasks : swaps[t] <= swaps'[t]
  BY GivenParts
<1>2. Host \notin frees /\ ReadBuffer \notin frees
  BY KindOf
<1> QED BY <1>1, <1>2, StaysKept

(* A request is posted ...                                                 *)
LEMMA RequestPosted ==
  ASSUME Given, NEW r \in Request, toIthread' = Append(toIthread, r),
         NEW n, n = posted + 1, posted' = n, UNCHANGED iPc,
         OfKind(memory', "message") = OfKind(memory, "message") \cup {Request_(n)},
         OfKind(memory', "messageNode") =
            OfKind(memory, "messageNode") \cup {RequestNode(n)},
         OfKind(memory', "text") =
            OfKind(memory, "text") \cup IF r.command = "write" THEN {Text(n)} ELSE {}
  PROVE  /\ RequestsExact' /\ TextsExact'
         /\ \A m \in Message(n) \cup {Text(n)} : m \notin memory
<1>1. /\ n \notin Pending /\ Pending' = Pending \cup {n}
      /\ \A k \in Pending : IsWrite(k)' <=> IsWrite(k)
      /\ IsWrite(n)' <=> r.command = "write"
  BY GivenParts, PendingPosted
<1>2. RequestsExact /\ TextsExact
  BY GivenParts
<1>3. RequestsExact'
  <2>1. /\ {Request_(k) : k \in Pending \cup {n}} =
             {Request_(k) : k \in Pending} \cup {Request_(n)}
        /\ {RequestNode(k) : k \in Pending \cup {n}} =
             {RequestNode(k) : k \in Pending} \cup {RequestNode(n)}
    OBVIOUS
  <2>2. /\ {Request_(k) : k \in Pending}' = {Request_(k) : k \in Pending'}
        /\ {RequestNode(k) : k \in Pending}' = {RequestNode(k) : k \in Pending'}
    BY DEF Request_, RequestNode
  <2> QED BY <1>1, <1>2, <2>1, <2>2 DEF RequestsExact
<1>4. TextsExact'
  <2>1. PICK W : W = {j \in Pending : IsWrite(j)}
    OBVIOUS
  <2>2. PICK V : V = {j \in Pending : IsWrite(j)}'
    OBVIOUS
  <2>3. V = W \cup IF r.command = "write" THEN {n} ELSE {}
    BY <1>1, <2>1, <2>2
  <2>4. {Text(k) : k \in V} =
          {Text(k) : k \in W} \cup IF r.command = "write" THEN {Text(n)} ELSE {}
    BY <2>3
  <2>5. {Text(k) : k \in {j \in Pending : IsWrite(j)}}' = {Text(k) : k \in V}
    BY <2>2 DEF Text
  <2> QED BY <1>2, <2>1, <2>4, <2>5 DEF TextsExact
<1>5. Request_(n) \notin memory /\ RequestNode(n) \notin memory
  <2>1. \A k \in Pending : Request_(k) # Request_(n) /\ RequestNode(k) # RequestNode(n)
    BY <1>1, OwnerOf
  <2>2. Request_(n) \notin OfKind(memory, "message")
    BY <1>2, <2>1 DEF RequestsExact
  <2>3. RequestNode(n) \notin OfKind(memory, "messageNode")
    BY <1>2, <2>1 DEF RequestsExact
  <2> QED BY <2>2, <2>3, KindOf DEF OfKind
<1>6. Text(n) \notin memory
  <2>1. \A k \in Pending : Text(k) # Text(n)
    BY <1>1, OwnerOf
  <2>2. Text(n) \notin OfKind(memory, "text")
    BY <1>2, <2>1 DEF TextsExact
  <2> QED BY <2>2, KindOf DEF OfKind
<1> QED BY <1>3, <1>4, <1>5, <1>6, KindOf

(* ... and freed once it has been served.                                  *)
LEMMA RequestServed ==
  ASSUME Given, UNCHANGED <<toIthread, posted>>, iPc \notin IdleHands, iPc' = "pop",
         NEW n, n = Serving,
         OfKind(memory', "message") = OfKind(memory, "message") \ {Request_(n)},
         OfKind(memory', "messageNode") =
            OfKind(memory, "messageNode") \ {RequestNode(n)},
         OfKind(memory', "text") =
            OfKind(memory, "text") \ IF iPc = "send" THEN {Text(n)} ELSE {}
  PROVE  RequestsExact' /\ TextsExact'
<1>1. /\ n \in Pending /\ Pending' = Pending \ {n}
      /\ \A k \in Pending' : IsWrite(k)' <=> IsWrite(k)
      /\ IsWrite(n) <=> iPc = "send"
  BY GivenParts, PendingServed
<1>2. RequestsExact /\ TextsExact
  BY GivenParts
<1>3. RequestsExact'
  <2>1. /\ {Request_(k) : k \in Pending \ {n}} =
             {Request_(k) : k \in Pending} \ {Request_(n)}
        /\ {RequestNode(k) : k \in Pending \ {n}} =
             {RequestNode(k) : k \in Pending} \ {RequestNode(n)}
    BY OwnerOf
  <2>2. /\ {Request_(k) : k \in Pending}' = {Request_(k) : k \in Pending'}
        /\ {RequestNode(k) : k \in Pending}' = {RequestNode(k) : k \in Pending'}
    BY DEF Request_, RequestNode
  <2> QED BY <1>1, <1>2, <2>1, <2>2 DEF RequestsExact
<1>4. TextsExact'
  <2>1. PICK W : W = {j \in Pending : IsWrite(j)}
    OBVIOUS
  <2>2. PICK V : V = {j \in Pending : IsWrite(j)}'
    OBVIOUS
  <2>3. V = W \ {n} /\ (n \in W <=> iPc = "send")
    BY <1>1, <2>1, <2>2
  <2>4. {Text(k) : k \in V} =
          {Text(k) : k \in W} \ IF iPc = "send" THEN {Text(n)} ELSE {}
    <3>1. CASE iPc = "send"
      BY <2>3, <3>1, OwnerOf
    <3>2. CASE iPc # "send"
      <4>1. V = W
        BY <2>3, <3>2
      <4> QED BY <4>1, <3>2
    <3> QED BY <3>1, <3>2
  <2>5. {Text(k) : k \in {j \in Pending : IsWrite(j)}}' = {Text(k) : k \in V}
    BY <2>2 DEF Text
  <2> QED BY <1>2, <2>1, <2>4, <2>5 DEF TextsExact
<1> QED BY <1>3, <1>4

(* What the request being served consists of is allocated.                 *)
LEMMA ServingThere ==
  ASSUME Given, iPc \notin IdleHands
  PROVE  /\ Message(Serving) \subseteq memory
         /\ iPc = "send" => Text(Serving) \in memory
<1>1. Serving \in Pending /\ (IsWrite(Serving) <=> iPc = "send")
  <2>1. Len(toIthread) \in Nat
    BY GivenParts, LenProperties
  <2>2. Serving \in Int /\ Serving <= posted
    BY <2>1, GivenParts DEF Serving
  <2> QED BY <2>2, GivenParts DEF Pending, Oldest, IsWrite
<1>2. RequestsExact /\ TextsExact
  BY GivenParts
<1>3. Request_(Serving) \in memory /\ RequestNode(Serving) \in memory
  BY <1>1, <1>2 DEF RequestsExact, OfKind
<1>4. iPc = "send" => Text(Serving) \in memory
  BY <1>1, <1>2 DEF TextsExact, OfKind
<1> QED BY <1>3, <1>4, KindOf
-----------------------------------------------------------------------------
(* What a step leaves that keeps the queues the blocks are in.             *)
LEMMA NodesQuiet ==
  ASSUME Given, UNCHANGED <<cQueue, waitQueue, swaps>>, Popped' = Popped,
         OfKind(memory', "node") = OfKind(memory, "node")
  PROVE  NodesExact'
<1>1. Queued' = Queued
  BY DEF Queued, In
<1> QED BY <1>1, GivenParts, NodesKept

(* Steps that post and serve nothing keep the blocks of the requests.      *)
LEMMA RequestsQuiet ==
  ASSUME Given, UNCHANGED <<toIthread, posted>>,
         iPc' \in IdleHands <=> iPc \in IdleHands, iPc' = "send" <=> iPc = "send",
         \A kind \in {"message", "messageNode", "text"} :
            OfKind(memory', kind) = OfKind(memory, kind)
  PROVE  RequestsExact' /\ TextsExact'
<1>1. Pending' = Pending /\ \A k \in Pending : IsWrite(k)' <=> IsWrite(k)
  BY PendingKept
<1> QED BY <1>1, GivenParts, RequestsKept

(* Steps that deliver and collect nothing keep the blocks of the answers.  *)
LEMMA DataQuiet ==
  ASSUME Given, UNCHANGED fromIthread, Receiving' = Receiving,
         \A kind \in {"data", "dataNode"} :
            OfKind(memory', kind) = OfKind(memory, kind)
  PROVE  DataExact'
<1>1. Answers' = Answers
  BY DEF Answers
<1> QED BY <1>1, GivenParts, DataKept

(* The tasks in the two queues, as one enters or leaves.                   *)
LEMMA QueuedGains ==
  ASSUME NEW t \in Tasks,
         \A u : In(u, cQueue') \/ In(u, waitQueue') <=>
                  In(u, cQueue) \/ In(u, waitQueue) \/ u = t
  PROVE  Queued' = Queued \cup {t}
<1>1. Queued' = {u \in Tasks : In(u, cQueue') \/ In(u, waitQueue')}
  BY DEF Queued, In
<1> QED BY <1>1 DEF Queued

(* The tasks in the two queues, as one leaves.                             *)
LEMMA QueuedLoses ==
  ASSUME NEW t \in Tasks,
         \A u : In(u, cQueue') \/ In(u, waitQueue') <=>
                  (In(u, cQueue) \/ In(u, waitQueue)) /\ u # t
  PROVE  Queued' = Queued \ {t}
<1>1. Queued' = {u \in Tasks : In(u, cQueue') \/ In(u, waitQueue')}
  BY DEF Queued, In
<1> QED BY <1>1 DEF Queued

(* A step that allocates nothing.                                          *)
LEMMA KindFreed ==
  ASSUME NEW uses, NEW frees, Memory(uses, frees, {}), NEW kind
  PROVE  OfKind(memory', kind) = OfKind(memory, kind) \ frees
BY DEF Memory, OfKind

(* Upheld, part by part.                                                   *)
LEMMA UpheldParts ==
  ASSUME NoMisuse',
         Working' => /\ NodesExact' /\ DataExact' /\ StaysInv'
                     /\ RequestsExact' /\ TextsExact'
  PROVE  Upheld
BY DEF Upheld, BlocksInv

(* sut_create.                                                             *)
LEMMA CreateUpheld ==
  ASSUME Given, NEW t \in Tasks, MCreate(t)
  PROVE  Upheld
<1>0. /\ TypeOK /\ Alive /\ Core /\ HandsInv /\ StaysInv /\ Working
      /\ NodesExact /\ ContextInv /\ swaps \in [Tasks -> Nat]
      /\ cQueue \in Seq(Tasks)
  BY GivenParts
<1>1. /\ stage[t] = "unborn" /\ stage' = [stage EXCEPT ![t] = "live"]
      /\ cQueue' = Append(cQueue, t)
      /\ UNCHANGED <<waitQueue, toIthread, fromIthread, next, cPc, nextIo, iPc,
                     swaps, posted>>
      /\ Memory({}, {}, {Context(t, 0), Stack(t), Node(t, 0)})
      /\ stage \in [Tasks -> {"unborn", "live", "finished"}]
  BY <1>0 DEF MCreate, MainCreate, TaskCreate, Create, Unnumbered, TypeOK
<1>2. swaps[t] = 0 /\ next # t
  BY <1>0, <1>1, NoTaskAssumption DEF ContextInv, HandsInv
<1>3. t \notin Queued
  BY <1>0, <1>1 DEF Queued, Core, EachTaskInOnePlace
<1>4. Node(t, 0) \notin memory
  BY <1>0, <1>2, <1>3, NodeIn
<1>5. Context(t, 0) \notin memory /\ Stack(t) \notin memory
  <2>1. Context(t, 0) \notin OfKind(memory, "context")
    BY <1>0, <1>1, OwnerOf DEF StaysInv
  <2>2. Stack(t) \notin OfKind(memory, "stack")
    <3>1. SUFFICES ASSUME Stack(t) \in OfKind(memory, "stack") PROVE FALSE
      OBVIOUS
    <3>2. PICK u \in Tasks : Stack(t) = Stack(u) /\ stage[u] # "unborn"
      BY <1>0, <3>1 DEF StaysInv
    <3> QED BY <1>1, <3>2, OwnerOf
  <2> QED BY <2>1, <2>2, KindOf DEF OfKind
<1>6. NoMisuse'
  BY <1>0, <1>1, <1>4, <1>5, ProperUse
<1>7. NodesExact'
  <2>1. OfKind(memory', "node") = OfKind(memory, "node") \cup {Node(t, swaps'[t])}
    BY <1>1, <1>2, KindMoves, KindOf DEF OfKind
  <2>2. Queued' = Queued \cup {t}
    <3>1. \A u : In(u, cQueue') <=> In(u, cQueue) \/ u = t
      BY <1>0, <1>1, InAppend
    <3>2. \A u : In(u, waitQueue') <=> In(u, waitQueue)
      BY <1>1
    <3> QED BY <3>1, <3>2, QueuedGains
  <2>3. Popped' = Popped
    <3>1. next # NoTask => stage'[next] = stage[next]
      BY <1>1, <1>2, <1>0 DEF TypeOK
    <3> QED BY <1>1, <3>1, PoppedKept
  <2>4. \A u \in Queued : swaps'[u] = swaps[u]
    BY <1>1
  <2> QED BY <1>0, <2>1, <2>2, <2>3, <2>4, NodesGain
<1>8. \A kind \in {"message", "messageNode", "text", "data", "dataNode"} :
        OfKind(memory', kind) = OfKind(memory, kind)
  BY <1>1, KindKept, KindOf
<1>9. RequestsExact' /\ TextsExact'
  BY <1>1, <1>8, RequestsQuiet
<1>10. DataExact'
  <2>1. Receiving' = Receiving
    BY <1>1 DEF Receiving
  <2> QED BY <1>1, <1>8, <2>1, DataQuiet
<1>11. StaysInv'
  <2>1. 0 \in 0 .. swaps'[t] /\ stage'[t] # "unborn" /\ swaps' = swaps
    BY <1>1, <1>2
  <2>2. \A m \in {Context(t, 0), Stack(t), Node(t, 0)} :
          /\ m[1] = "context" => m = Context(t, 0)
          /\ m[1] = "stack" => m = Stack(t)
    BY KindOf
  <2>3. \A u \in Tasks : /\ swaps[u] <= swaps'[u]
                         /\ stage[u] # "unborn" => stage'[u] # "unborn"
    BY <1>0, <1>1
  <2> QED BY <1>0, <1>1, <2>1, <2>2, <2>3, StaysKept
<1> QED BY <1>6, <1>7, <1>9, <1>10, <1>11, UpheldParts

(* cthread frees the node it popped before, and pops the next one ...      *)
LEMMA PopTaskUpheld ==
  ASSUME Given, MPopTask
  PROVE  Upheld
<1>0. /\ TypeOK /\ Alive /\ Core /\ HandsInv /\ StaysInv /\ Working
      /\ NodesExact /\ ContextInv /\ swaps \in [Tasks -> Nat]
      /\ cQueue \in Seq(Tasks)
  BY GivenParts
<1>1. PICK h : h = Head(cQueue)
  OBVIOUS
<1>2. /\ cQueue # <<>> /\ cQueue' = Tail(cQueue) /\ next' = h /\ cPc = "pop"
      /\ UNCHANGED <<waitQueue, toIthread, fromIthread, nextIo, iPc, stage,
                     swaps, posted>>
      /\ Memory({Node(h, swaps[h]), Context(h, swaps[h])}, Popped, {})
      /\ fault' # "none" \/ cPc' \in {"task", "readback"}
  BY <1>1 DEF MPopTask, CPopTask, Unnumbered
<1>3. h \in Tasks /\ In(h, cQueue) /\ \A u : In(u, cQueue') <=> In(u, cQueue) /\ u # h
  BY <1>0, <1>1, <1>2, InTail, TailElements DEF Core, EachTaskInOnePlace
<1>4. /\ h \in Queued /\ stage[h] = "live" /\ Queued' = Queued \ {h}
      /\ ~In(h, waitQueue)
  <2>1. stage[h] = "live" /\ ~In(h, waitQueue)
    BY <1>0, <1>3 DEF Core, EachTaskInOnePlace
  <2>2. \A u : In(u, waitQueue') <=> In(u, waitQueue)
    BY <1>2
  <2>3. Queued' = Queued \ {h}
    BY <1>3, <2>1, <2>2, QueuedLoses
  <2> QED BY <1>3, <2>1, <2>3 DEF Queued
<1>5. Popped \subseteq memory /\ Node(h, swaps[h]) \in memory
  BY <1>0, <1>4, NodesThere
<1>6. Context(h, swaps[h]) \in memory
  BY <1>0, <1>3, <1>4 DEF ContextInv, ContextKept
<1>7. NoMisuse'
  <2>1. {Node(h, swaps[h]), Context(h, swaps[h])} \subseteq memory
    BY <1>5, <1>6
  <2> QED BY <1>0, <1>2, <1>5, <2>1, ProperUse
<1>8. Working' => NodesExact'
  <2>1. SUFFICES ASSUME Working' PROVE NodesExact'
    OBVIOUS
  <2>2. cPc' \in {"task", "readback"} /\ h # NoTask
    BY <1>2, <1>3, <2>1, NoTaskAssumption DEF Working, Alive
  <2>3. Popped' = {Node(h, swaps[h])}
    BY <1>2, <2>2 DEF Popped, Node
  <2>4. OfKind(memory', "node") = OfKind(memory, "node") \ Popped
    BY <1>2, KindFreed
  <2>5. {Node(u, swaps[u]) : u \in Queued} \cap Popped = {}
    BY <1>0, PoppedApart
  <2>6. OfKind(memory', "node") = {Node(u, swaps[u]) : u \in Queued}
    BY <1>0, <2>4, <2>5 DEF NodesExact
  <2>7. {Node(u, swaps[u]) : u \in Queued} =
           {Node(u, swaps[u]) : u \in Queued \ {h}} \cup {Node(h, swaps[h])}
    BY <1>4
  <2>8. {Node(u, swaps[u]) : u \in Queued}' = {Node(u, swaps[u]) : u \in Queued \ {h}}
    BY <1>2, <1>4 DEF Node
  <2> QED BY <2>3, <2>6, <2>7, <2>8 DEF NodesExact
<1>9. \A kind \in {"message", "messageNode", "text", "data", "dataNode"} :
        OfKind(memory', kind) = OfKind(memory, kind)
  BY <1>2, KindKept, KindOf
<1>10. RequestsExact' /\ TextsExact'
  BY <1>2, <1>9, RequestsQuiet
<1>11. DataExact'
  <2>1. Receiving' = Receiving
    BY <1>2 DEF Receiving
  <2> QED BY <1>2, <1>9, <2>1, DataQuiet
<1>12. StaysInv'
  BY <1>2, KindOf, StaysQuiet
<1> QED BY <1>7, <1>8, <1>10, <1>11, <1>12, UpheldParts

(* ... or finds the ready queue empty.                                     *)
LEMMA PopNothingUpheld ==
  ASSUME Given, MPopNothing
  PROVE  Upheld
<1>0. /\ TypeOK /\ Alive /\ Core /\ HandsInv /\ Working /\ NodesExact /\ ContextInv
  BY GivenParts
<1>1. /\ next' = NoTask
      /\ UNCHANGED <<cQueue, waitQueue, toIthread, fromIthread, nextIo, iPc,
                     stage, swaps, posted>>
      /\ Memory({}, Popped, {})
  BY DEF MPopNothing, CPopNothing, Unnumbered, queues, taskVars
<1>2. NoMisuse'
  BY <1>0, <1>1, NodesThere, ProperUse
<1>3. NodesExact'
  <2>1. Popped' = {} /\ Queued' = Queued
    BY <1>1 DEF Popped, Queued, In
  <2>2. OfKind(memory', "node") = OfKind(memory, "node") \ Popped
    BY <1>1, KindFreed
  <2>3. {Node(u, swaps[u]) : u \in Queued} \cap Popped = {}
    BY <1>0, PoppedApart
  <2>4. OfKind(memory', "node") = {Node(u, swaps[u]) : u \in Queued}
    BY <1>0, <2>2, <2>3 DEF NodesExact
  <2>5. {Node(u, swaps[u]) : u \in Queued}' = {Node(u, swaps[u]) : u \in Queued}
    BY <1>1, <2>1 DEF Node
  <2> QED BY <2>1, <2>4, <2>5 DEF NodesExact
<1>4. \A kind \in {"message", "messageNode", "text", "data", "dataNode"} :
        OfKind(memory', kind) = OfKind(memory, kind)
  BY <1>1, KindKept, KindOf
<1>5. RequestsExact' /\ TextsExact'
  BY <1>1, <1>4, RequestsQuiet
<1>6. DataExact'
  <2>1. Receiving' = Receiving
    BY <1>1 DEF Receiving
  <2> QED BY <1>1, <1>4, <2>1, DataQuiet
<1>7. StaysInv'
  BY <1>1, KindOf, StaysQuiet
<1> QED BY <1>2, <1>3, <1>5, <1>6, <1>7, UpheldParts
-----------------------------------------------------------------------------
(* The running task leaves with a new ucontext, in a new node.             *)
LEMMA LeaverUpheld ==
  ASSUME Given, cPc \in {"task"} \cup Opening, cPc' = "swap",
         UNCHANGED <<next, stage>>, swaps' = [swaps EXCEPT ![next] = @ + 1],
         Queued' = Queued \cup {next},
         NEW uses, NEW news, Memory(uses, {}, news),
         \A m \in news : m[1] \in {"node", "context", "stack"} => m \in NewContext,
         NewContext \subseteq news, iPc' # "done" => iPc # "done"
  PROVE  NodesExact' /\ StaysInv' /\ \A m \in NewContext : m \notin memory
<1>0. /\ TypeOK /\ Alive /\ Core /\ StaysInv /\ NodesExact
      /\ swaps \in [Tasks -> Nat]
  BY GivenParts
<1>1. next \in Tasks /\ stage[next] = "live" /\ next \notin Queued /\ next # NoTask
  <2>1. next \in Tasks /\ OnProcessor(next)
    BY <1>0, RunningIsNotQueued DEF OnProcessor, TypeOK, CLocations
  <2> QED BY <1>0, <2>1, NoTaskAssumption DEF Core, EachTaskInOnePlace, Queued
<1>2. PICK n : n = swaps[next]
  OBVIOUS
<1>3. /\ n \in Nat /\ swaps' \in [Tasks -> Nat] /\ swaps'[next] = n + 1
      /\ \A t \in Tasks : t # next => swaps'[t] = swaps[t]
      /\ \A t \in Tasks : swaps[t] <= swaps'[t]
  BY <1>0, <1>1, <1>2
<1>4. NewContext = {Context(next, n + 1), Node(next, n + 1)}
  BY <1>2 DEF NewContext
<1>5. Popped = {Node(next, n)}
  BY <1>1, <1>2 DEF Popped
<1>6. Popped' = {Node(next, n)}
  <2>1. Popped' = {Node(next, swaps'[next] - 1)}
    BY <1>1 DEF Popped, Node
  <2> QED BY <1>3, <2>1
<1>7. Node(next, n + 1) \notin memory
  <2>1. Node(next, n + 1) \notin Popped
    BY <1>3, <1>5, OwnerOf
  <2>2. \A t \in Queued : Node(next, n + 1) # Node(t, swaps[t])
    BY <1>1, OwnerOf
  <2>3. Node(next, n + 1) \notin OfKind(memory, "node")
    BY <1>0, <2>1, <2>2 DEF NodesExact
  <2> QED BY <2>3, KindOf DEF OfKind
<1>8. Context(next, n + 1) \notin memory
  <2>1. SUFFICES ASSUME Context(next, n + 1) \in memory PROVE FALSE
    OBVIOUS
  <2>2. Context(next, n + 1) \in OfKind(memory, "context")
    BY <2>1, KindOf DEF OfKind
  <2>3. PICK t \in Tasks : \E k \in 0 .. swaps[t] :
                              Context(next, n + 1) = Context(t, k) /\ stage[t] # "unborn"
    BY <1>0, <2>2 DEF StaysInv
  <2>4. PICK k \in 0 .. swaps[t] : Context(next, n + 1) = Context(t, k)
    BY <2>3
  <2>5. t = next /\ k = n + 1
    BY <2>4, OwnerOf
  <2> QED BY <1>2, <1>3, <2>4, <2>5
<1>9. NodesExact'
  <2>1. OfKind(memory', "node") = OfKind(memory, "node") \cup {Node(next, n + 1)}
    <3>1. OfKind(news, "node") = {Node(next, n + 1)}
      <4>1. \A m \in news : m[1] = "node" => m = Node(next, n + 1)
        BY <1>4, KindOf
      <4> QED BY <1>4, <4>1, KindOf DEF OfKind
    <3>2. OfKind(memory', "node") = (OfKind(memory, "node") \ {}) \cup OfKind(news, "node")
      BY KindMoves
    <3> QED BY <3>1, <3>2
  <2>2. \A u \in Queued : swaps'[u] = swaps[u]
    BY <1>1, <1>3 DEF Queued
  <2> QED BY <1>0, <1>3, <1>5, <1>6, <2>1, <2>2, NodesGain
<1>10. StaysInv'
  <2>1. \A m \in news : /\ m[1] = "context" => m = Context(next, n + 1)
                        /\ m[1] # "stack"
    BY <1>4, KindOf
  <2>2. n + 1 \in 0 .. swaps'[next] /\ stage'[next] # "unborn"
    BY <1>1, <1>3
  <2>3. \A m \in news :
          /\ m[1] = "context" => \E t \in Tasks : \E k \in 0 .. swaps'[t] :
                                   m = Context(t, k) /\ stage'[t] # "unborn"
          /\ m[1] = "stack" => \E t \in Tasks : m = Stack(t) /\ stage'[t] # "unborn"
    BY <1>1, <2>1, <2>2
  <2>4. \A t \in Tasks : stage[t] # "unborn" => stage'[t] # "unborn"
    OBVIOUS
  <2> QED BY <1>0, <1>3, <2>3, <2>4, StaysKept
<1> QED BY <1>4, <1>7, <1>8, <1>9, <1>10

(* sut_yield.                                                              *)
LEMMA YieldUpheld ==
  ASSUME Given, MYield
  PROVE  Upheld
<1>0. TypeOK /\ Alive /\ Core /\ Working /\ cQueue \in Seq(Tasks)
  BY GivenParts
<1>1. /\ cPc = "task" /\ cPc' = "swap" /\ cQueue' = Append(cQueue, next)
      /\ UNCHANGED <<waitQueue, toIthread, fromIthread, next, nextIo, iPc,
                     stage, posted>>
      /\ swaps' = [swaps EXCEPT ![next] = @ + 1]
      /\ Memory({}, {}, NewContext)
  BY DEF MYield, TaskYield, Running, Count
<1>2. next \in Tasks
  BY <1>0, <1>1 DEF TypeOK
<1>3. Queued' = Queued \cup {next}
  <2>1. \A u : In(u, cQueue') <=> In(u, cQueue) \/ u = next
    BY <1>0, <1>1, <1>2, InAppend
  <2>2. \A u : In(u, waitQueue') <=> In(u, waitQueue)
    BY <1>1
  <2> QED BY <1>2, <2>1, <2>2, QueuedGains
<1>4. NodesExact' /\ StaysInv' /\ \A m \in NewContext : m \notin memory
  BY <1>1, <1>3, LeaverUpheld
<1>5. NoMisuse'
  BY <1>0, <1>1, <1>4, ProperUse
<1>6. \A kind \in {"message", "messageNode", "text", "data", "dataNode"} :
        OfKind(memory', kind) = OfKind(memory, kind)
  <2>1. \A m \in NewContext : m[1] \in {"node", "context"}
    BY KindOf DEF NewContext
  <2> QED BY <1>1, <2>1, KindKept
<1>7. RequestsExact' /\ TextsExact'
  BY <1>1, <1>6, RequestsQuiet
<1>8. DataExact'
  <2>1. Receiving' = Receiving
    BY <1>1 DEF Receiving
  <2> QED BY <1>1, <1>6, <2>1, DataQuiet
<1> QED BY <1>4, <1>5, <1>7, <1>8, UpheldParts

(* The request a task posts and leaves for.                                *)
LEMMA AskUpheld ==
  ASSUME Given, MAsk
  PROVE  Upheld
<1>0. /\ TypeOK /\ Alive /\ Core /\ Working /\ waitQueue \in Seq(Tasks)
      /\ posted \in Nat
  BY GivenParts
<1>1. PICK c \in {"open", "read"} : toIthread' = Append(toIthread, Req(c, next))
  BY DEF MAsk, TaskOpenPush, TaskRead
<1>2. /\ cPc \in {"task"} \cup Opening /\ cPc' = "swap"
      /\ waitQueue' = Append(waitQueue, next)
      /\ UNCHANGED <<cQueue, fromIthread, next, nextIo, iPc, stage>>
      /\ swaps' = [swaps EXCEPT ![next] = @ + 1] /\ posted' = posted + 1
      /\ Memory({}, {}, NewContext \cup Message(posted + 1))
  BY DEF MAsk, TaskOpenPush, TaskRead, Running, Count, taskVars
<1>3. next \in Tasks
  BY <1>0, <1>2 DEF TypeOK
<1>4. PICK n : n = posted + 1
  OBVIOUS
<1>5. PICK r : r = Req(c, next)
  OBVIOUS
<1>6. r \in Request /\ r.command # "write"
  BY <1>3, <1>5 DEF Req, Request, Commands
<1>7. Queued' = Queued \cup {next}
  <2>1. \A u : In(u, waitQueue') <=> In(u, waitQueue) \/ u = next
    BY <1>0, <1>2, <1>3, InAppend
  <2>2. \A u : In(u, cQueue') <=> In(u, cQueue)
    BY <1>2
  <2> QED BY <1>3, <2>1, <2>2, QueuedGains
<1>8. PICK news : news = NewContext \cup Message(n)
  OBVIOUS
<1>9. /\ Memory({}, {}, news) /\ NewContext \subseteq news
      /\ \A m \in news : m[1] \in {"node", "context", "stack"} => m \in NewContext
  BY <1>2, <1>4, <1>8, KindOf
<1>10. NodesExact' /\ StaysInv' /\ \A m \in NewContext : m \notin memory
  BY <1>2, <1>7, <1>9, LeaverUpheld
<1>11. /\ OfKind(news, "message") = {Request_(n)}
       /\ OfKind(news, "messageNode") = {RequestNode(n)}
       /\ OfKind(news, "text") = {}
       /\ OfKind(news, "data") = {} /\ OfKind(news, "dataNode") = {}
  <2>1. \A m \in NewContext : m[1] \in {"node", "context"}
    BY KindOf DEF NewContext
  <2>2. Message(n) = {Request_(n), RequestNode(n)}
    BY KindOf
  <2> QED BY <1>8, <2>1, <2>2, KindOf DEF OfKind
<1>12. \A kind : OfKind(memory', kind) = OfKind(memory, kind) \cup OfKind(news, kind)
  BY <1>9, KindMoves
<1>13. /\ RequestsExact' /\ TextsExact'
       /\ \A m \in Message(n) \cup {Text(n)} : m \notin memory
  <2>1. /\ OfKind(memory', "message") = OfKind(memory, "message") \cup {Request_(n)}
        /\ OfKind(memory', "messageNode") =
             OfKind(memory, "messageNode") \cup {RequestNode(n)}
    BY <1>11, <1>12
  <2>2. OfKind(memory', "text") =
          OfKind(memory, "text") \cup IF r.command = "write" THEN {Text(n)} ELSE {}
    BY <1>6, <1>11, <1>12
  <2>3. toIthread' = Append(toIthread, r) /\ posted' = n /\ UNCHANGED iPc
    BY <1>1, <1>2, <1>4, <1>5
  <2> QED BY <1>4, <1>6, <2>1, <2>2, <2>3, RequestPosted
<1>14. DataExact'
  <2>1. Receiving' = Receiving
    BY <1>2 DEF Receiving
  <2>2. \A kind \in {"data", "dataNode"} : OfKind(memory', kind) = OfKind(memory, kind)
    BY <1>11, <1>12
  <2> QED BY <1>2, <2>1, <2>2, DataQuiet
<1>15. NoMisuse'
  BY <1>0, <1>8, <1>9, <1>10, <1>13, ProperUse
<1> QED BY <1>10, <1>13, <1>14, <1>15, UpheldParts

(* The request a task posts without leaving.                               *)
LEMMA PostUpheld ==
  ASSUME Given, MWrite \/ MClose
  PROVE  Upheld
<1>0. TypeOK /\ Alive /\ Core /\ Working /\ posted \in Nat
  BY GivenParts
<1>1. PICK c \in {"write", "close"} :
        /\ TaskPost(c) /\ Count(FALSE, TRUE)
        /\ Memory({}, {}, Message(posted + 1) \cup
                            IF c = "write" THEN {Text(posted + 1)} ELSE {})
  <2>1. CASE MWrite
    BY <2>1 DEF MWrite, TaskWrite
  <2>2. CASE MClose
    <3>1. Message(posted + 1) =
            Message(posted + 1) \cup IF "close" = "write" THEN {Text(posted + 1)} ELSE {}
      OBVIOUS
    <3> QED BY <2>2, <3>1 DEF MClose, TaskClose
  <2> QED BY <2>1, <2>2
<1>2. /\ cPc = "task" /\ toIthread' = Append(toIthread, Req(c, next))
      /\ UNCHANGED <<cQueue, waitQueue, fromIthread, next, cPc, nextIo, iPc,
                     stage, swaps>>
      /\ posted' = posted + 1
  BY <1>1 DEF TaskPost, Running, Count
<1>3. next \in Tasks
  BY <1>0, <1>2 DEF TypeOK
<1>4. PICK n : n = posted + 1
  OBVIOUS
<1>5. PICK r : r = Req(c, next)
  OBVIOUS
<1>6. r \in Request /\ (r.command = "write" <=> c = "write")
  BY <1>3, <1>5 DEF Req, Request, Commands
<1>7. PICK news : news = Message(n) \cup IF c = "write" THEN {Text(n)} ELSE {}
  OBVIOUS
<1>8. /\ Memory({}, {}, news)
      /\ \A m \in news : m[1] \in {"message", "messageNode", "text"}
  BY <1>1, <1>4, <1>7, KindOf
<1>9. /\ OfKind(news, "message") = {Request_(n)}
      /\ OfKind(news, "messageNode") = {RequestNode(n)}
      /\ OfKind(news, "text") = IF c = "write" THEN {Text(n)} ELSE {}
  BY <1>7, KindOf DEF OfKind
<1>10. \A kind : OfKind(memory', kind) = OfKind(memory, kind) \cup OfKind(news, kind)
  BY <1>8, KindMoves
<1>11. /\ RequestsExact' /\ TextsExact'
       /\ \A m \in Message(n) \cup {Text(n)} : m \notin memory
  <2>1. /\ OfKind(memory', "message") = OfKind(memory, "message") \cup {Request_(n)}
        /\ OfKind(memory', "messageNode") =
             OfKind(memory, "messageNode") \cup {RequestNode(n)}
    BY <1>9, <1>10
  <2>2. OfKind(memory', "text") =
          OfKind(memory, "text") \cup IF r.command = "write" THEN {Text(n)} ELSE {}
    BY <1>6, <1>9, <1>10
  <2>3. toIthread' = Append(toIthread, r) /\ posted' = n /\ UNCHANGED iPc
    BY <1>2, <1>4, <1>5
  <2> QED BY <1>4, <1>6, <2>1, <2>2, <2>3, RequestPosted
<1>12. \A kind \in {"node", "data", "dataNode"} :
         OfKind(memory', kind) = OfKind(memory, kind)
  BY <1>8, KindKept
<1>13. NodesExact' /\ DataExact'
  <2>1. Popped' = Popped /\ Receiving' = Receiving
    BY <1>2, PoppedKept DEF Receiving
  <2> QED BY <1>2, <1>12, <2>1, NodesQuiet, DataQuiet
<1>14. StaysInv'
  BY <1>2, <1>8, StaysQuiet
<1>15. NoMisuse'
  BY <1>0, <1>7, <1>8, <1>11, ProperUse
<1> QED BY <1>11, <1>13, <1>14, <1>15, UpheldParts
-----------------------------------------------------------------------------
(* sut_open stores the host.                                               *)
LEMMA OpenUpheld ==
  ASSUME Given, MOpen
  PROVE  Upheld
<1>0. Core /\ Working /\ StaysInv
  BY GivenParts
<1>1. /\ cPc \in {"task", "copying"} /\ cPc' \in {"copying", "copied"}
      /\ UNCHANGED <<cQueue, waitQueue, toIthread, fromIthread, next, nextIo,
                     iPc, stage, swaps, posted>>
      /\ Memory({Host}, {}, {})
  BY DEF MOpen, TaskOpen, TaskCopied, Running, Unnumbered, queues, taskVars
<1>2. Host \in memory
  BY <1>0, <1>1 DEF Core, ShutdownOrder, StaysInv
<1>3. NoMisuse'
  BY <1>0, <1>1, <1>2, ProperUse
<1>4. \A kind : OfKind(memory', kind) = OfKind(memory, kind)
  BY <1>1, KindKept
<1>5. Popped' = Popped /\ Receiving' = Receiving
  BY <1>1, PoppedKept DEF Receiving
<1>6. NodesExact' /\ DataExact' /\ RequestsExact' /\ TextsExact'
  BY <1>1, <1>4, <1>5, NodesQuiet, DataQuiet, RequestsQuiet
<1>7. StaysInv'
  BY <1>1, StaysQuiet
<1> QED BY <1>3, <1>6, <1>7, UpheldParts

(* swapcontext saves into the new ucontext.                                *)
LEMMA SwapOutUpheld ==
  ASSUME Given, MSwapOut
  PROVE  Upheld
<1>0. TypeOK /\ Alive /\ Core /\ Working /\ ContextInv
  BY GivenParts
<1>1. /\ cPc = "swap" /\ cPc' = "pop"
      /\ UNCHANGED <<cQueue, waitQueue, toIthread, fromIthread, next, nextIo,
                     iPc, stage, swaps, posted>>
      /\ Memory({Context(next, swaps[next])}, {}, {})
  BY DEF MSwapOut, TaskSwapOut, Running, Unnumbered, queues
<1>2. Context(next, swaps[next]) \in memory
  <2>1. next \in Tasks /\ stage[next] = "live"
    BY <1>0, <1>1 DEF TypeOK, Core, QueuedBeforeLeaving, EachTaskInOnePlace
  <2> QED BY <1>0, <2>1 DEF ContextInv, ContextKept
<1>3. NoMisuse'
  BY <1>0, <1>1, <1>2, ProperUse
<1>4. \A kind : OfKind(memory', kind) = OfKind(memory, kind)
  BY <1>1, KindKept
<1>5. Popped' = Popped /\ Receiving' = Receiving
  BY <1>1, PoppedKept DEF Receiving
<1>6. NodesExact' /\ DataExact' /\ RequestsExact' /\ TextsExact'
  BY <1>1, <1>4, <1>5, NodesQuiet, DataQuiet, RequestsQuiet
<1>7. StaysInv'
  BY <1>1, StaysQuiet
<1> QED BY <1>3, <1>6, <1>7, UpheldParts

(* The answer at the head is that of the task that takes it, and there is  *)
(* no other for it.                                                        *)
LEMMA AnswerTaken ==
  ASSUME TypeOK, Alive, Core, cPc = "readback",
         fromIthread # <<>>, fromIthread' = Tail(fromIthread)
  PROVE  /\ Head(fromIthread) = next /\ next \in Tasks /\ next \in Answers
         /\ Answers' = Answers \ {next} /\ next \notin Receiving
<1>0. fromIthread \in Seq(Tasks) /\ next \in Tasks /\ OnProcessor(next)
  BY DEF TypeOK, OnProcessor
<1>1. /\ DOMAIN fromIthread = 1 .. Len(fromIthread)
      /\ Len(fromIthread) \in Nat \ {0}
      /\ Head(fromIthread) = fromIthread[1]
      /\ DOMAIN fromIthread' = 1 .. Len(fromIthread) - 1
      /\ \A i \in 1 .. Len(fromIthread) - 1 : fromIthread'[i] = fromIthread[i + 1]
  BY <1>0, TailElements
<1>2. fromIthread[1] = next
  BY <1>1 DEF Core, AnswersPaired, Paired
<1>3. \A k \in DOMAIN fromIthread : k # 1 => fromIthread[k] # next
  BY WhoseAnswers
<1>4. Answers' = Answers \ {next}
  <2>1. Answers' = {fromIthread'[i] : i \in DOMAIN fromIthread'}
    BY DEF Answers
  <2>2. ASSUME NEW t \in Answers' PROVE t \in Answers \ {next}
    <3>1. PICK i \in 1 .. Len(fromIthread) - 1 : t = fromIthread[i + 1]
      BY <1>1, <2>1, <2>2
    <3>2. i + 1 \in DOMAIN fromIthread /\ i + 1 # 1
      BY <1>1
    <3> QED BY <1>3, <3>1, <3>2 DEF Answers
  <2>3. ASSUME NEW t \in Answers, t # next PROVE t \in Answers'
    <3>1. PICK k \in DOMAIN fromIthread : t = fromIthread[k]
      BY <2>3 DEF Answers
    <3>2. k # 1 /\ k \in 1 .. Len(fromIthread)
      BY <1>1, <1>2, <2>3, <3>1
    <3>3. k - 1 \in DOMAIN fromIthread' /\ fromIthread'[k - 1] = t
      <4>1. k - 1 \in 1 .. Len(fromIthread) - 1 /\ (k - 1) + 1 = k
        BY <1>1, <3>2
      <4> QED BY <1>1, <3>1, <4>1
    <3> QED BY <2>1, <3>3
  <2> QED BY <2>2, <2>3
<1>5. next \in Answers
  BY <1>1, <1>2 DEF Answers
<1>6. next \notin Receiving
  BY <1>0, ServedWaits DEF Receiving, IServesBlocking
<1> QED BY <1>0, <1>1, <1>2, <1>4, <1>5, <1>6

(* sut_read takes the data.                                                *)
LEMMA ReadBackUpheld ==
  ASSUME Given, MReadBack
  PROVE  Upheld
<1>0. TypeOK /\ Alive /\ Core /\ Working /\ StaysInv /\ DataExact
  BY GivenParts
<1>1. cPc = "readback" /\ fromIthread # <<>>
  BY <1>0 DEF MReadBack, TaskReadBack, Running, TypeOK, Core, AnswersPaired, Paired
<1>2. /\ cPc' = "task" /\ fromIthread' = Tail(fromIthread)
      /\ UNCHANGED <<cQueue, waitQueue, toIthread, next, nextIo, iPc, stage,
                     swaps, posted>>
      /\ Memory({ReadBuffer}, {Data(Head(fromIthread)),
                               DataNode(Head(fromIthread))}, {})
  BY <1>1 DEF MReadBack, TaskReadBack
<1>3. /\ Head(fromIthread) = next /\ next \in Answers
      /\ Answers' = Answers \ {next} /\ next \notin Receiving
  BY <1>0, <1>1, <1>2, AnswerTaken
<1>4. Memory({ReadBuffer}, {Data(next), DataNode(next)}, {})
  BY <1>2, <1>3
<1>5. NoMisuse'
  <2>1. Data(next) \in memory /\ DataNode(next) \in memory /\ ReadBuffer \in memory
    BY <1>0, <1>3 DEF DataExact, OfKind, StaysInv
  <2> QED BY <1>0, <1>4, <2>1, ProperUse
<1>6. \A kind \in {"node", "message", "messageNode", "text"} :
        OfKind(memory', kind) = OfKind(memory, kind)
  BY <1>4, KindKept, KindOf
<1>7. Popped' = Popped /\ Receiving' = Receiving
  BY <1>1, <1>2, PoppedKept DEF Receiving
<1>8. NodesExact' /\ RequestsExact' /\ TextsExact'
  BY <1>2, <1>6, <1>7, NodesQuiet, RequestsQuiet
<1>9. DataExact'
  <2>1. /\ OfKind(memory', "data") = OfKind(memory, "data") \ {Data(next)}
        /\ OfKind(memory', "dataNode") = OfKind(memory, "dataNode") \ {DataNode(next)}
    <3>1. \A kind : OfKind(memory', kind) =
                      OfKind(memory, kind) \ {Data(next), DataNode(next)}
      BY <1>4, KindFreed
    <3>2. \A m \in OfKind(memory, "data") : m # DataNode(next)
      BY KindOf DEF OfKind
    <3>3. \A m \in OfKind(memory, "dataNode") : m # Data(next)
      BY KindOf DEF OfKind
    <3> QED BY <3>1, <3>2, <3>3
  <2>2. /\ {Data(t) : t \in Answers \cup Receiving} \ {Data(next)} =
             {Data(t) : t \in (Answers \ {next}) \cup Receiving}
        /\ {DataNode(t) : t \in Answers} \ {DataNode(next)} =
             {DataNode(t) : t \in Answers \ {next}}
    BY <1>3, OwnerOf
  <2>3. /\ {Data(t) : t \in Answers \cup Receiving}' =
             {Data(t) : t \in (Answers \ {next}) \cup Receiving}
        /\ {DataNode(t) : t \in Answers}' = {DataNode(t) : t \in Answers \ {next}}
    BY <1>3, <1>7 DEF Data, DataNode
  <2> QED BY <1>0, <2>1, <2>2, <2>3 DEF DataExact
<1>10. StaysInv'
  BY <1>2, <1>4, KindOf, StaysQuiet
<1> QED BY <1>5, <1>8, <1>9, <1>10, UpheldParts

(* A task ends ...                                                         *)
LEMMA ExitUpheld ==
  ASSUME Given, TaskExit, UNCHANGED <<swaps, posted>>,
         NEW uses, NEW frees, Memory(uses, frees, {}),
         uses \subseteq memory, frees \subseteq memory,
         \A m \in frees : m[1] = "context"
  PROVE  Upheld
<1>0. TypeOK /\ Alive /\ Core /\ Working
  BY GivenParts
<1>1. /\ cPc = "task" /\ cPc' = "pop" /\ next \in Tasks
      /\ UNCHANGED <<cQueue, waitQueue, toIthread, fromIthread, next, nextIo, iPc>>
      /\ stage' = [stage EXCEPT ![next] = "finished"]
      /\ stage \in [Tasks -> {"unborn", "live", "finished"}]
  BY <1>0 DEF TaskExit, Running, queues, TypeOK
<1>2. NoMisuse'
  BY <1>0, ProperUse
<1>3. \A kind \in {"node", "message", "messageNode", "text", "data", "dataNode"} :
        OfKind(memory', kind) = OfKind(memory, kind)
  BY KindKept
<1>4. Popped' = Popped
  <2>1. stage'[next] = "finished"
    BY <1>1
  <2> QED BY <1>1, <2>1 DEF Popped, Node
<1>5. Receiving' = Receiving
  BY <1>1 DEF Receiving
<1>6. NodesExact' /\ DataExact' /\ RequestsExact' /\ TextsExact'
  BY <1>1, <1>3, <1>4, <1>5, NodesQuiet, DataQuiet, RequestsQuiet
<1>7. StaysInv'
  <2>1. \A t \in Tasks : stage[t] # "unborn" => stage'[t] # "unborn"
    BY <1>1
  <2> QED BY <1>1, <2>1, StaysQuiet
<1> QED BY <1>2, <1>6, <1>7, UpheldParts

(* ... by returning, or by sut_exit.                                       *)
LEMMA EndUpheld ==
  ASSUME Given, MReturn \/ MExit
  PROVE  Upheld
<1>0. TypeOK /\ Alive /\ Core /\ Working /\ NodesExact /\ ContextInv
  BY GivenParts
<1>1. TaskExit /\ UNCHANGED <<swaps, posted>>
  BY DEF MReturn, MExit
<1>2. CASE MReturn
  BY <1>1, <1>2, ExitUpheld DEF MReturn
<1>3. CASE MExit /\ swaps[next] = 0
  BY <1>3 DEF MExit, Upheld, NoMisuse, Working
<1>4. CASE MExit /\ damage' = "wild"
  BY <1>4 DEF Upheld, NoMisuse, Working
<1>5. CASE MExit /\ Memory(Popped, {Context(next, swaps[next])}, {})
  <2>1. Memory(Popped, {Context(next, swaps[next])}, {})
    BY <1>5
  <2>2. Context(next, swaps[next]) \in memory
    <3>1. next \in Tasks /\ OnProcessor(next)
      BY <1>0, <1>1 DEF TaskExit, Running, TypeOK, OnProcessor
    <3>2. stage[next] = "live"
      BY <1>0, <3>1 DEF Core, EachTaskInOnePlace
    <3> QED BY <1>0, <3>1, <3>2 DEF ContextInv, ContextKept
  <2>3. Popped \subseteq memory
    BY <1>0, NodesThere
  <2>4. {Context(next, swaps[next])} \subseteq memory
    BY <2>2
  <2>5. \A m \in {Context(next, swaps[next])} : m[1] = "context"
    BY KindOf
  <2> QED BY <1>1, <2>1, <2>3, <2>4, <2>5, ExitUpheld
<1> QED BY <1>2, <1>3, <1>4, <1>5 DEF MExit
-----------------------------------------------------------------------------
(* A task whose read is about to be served has no answer yet.              *)
LEMMA ReaderWaits ==
  ASSUME TypeOK, Alive, Core, toIthread # <<>>, Head(toIthread).command = "read"
  PROVE  Head(toIthread).task \in Tasks /\ Head(toIthread).task \notin Answers
<1>1. PICK t : t = Head(toIthread).task
  OBVIOUS
<1>2. /\ Head(toIthread) = toIthread[1] /\ 1 \in DOMAIN toIthread
      /\ Head(toIthread) \in Request
  BY TailElements DEF TypeOK
<1>3. t \in Tasks
  BY <1>1, <1>2 DEF Request
<1>4. In(t, waitQueue)
  <2>1. 1 \in BlockingIn(toIthread) /\ Owners(toIthread)[1] = t
    BY <1>1, <1>2 DEF BlockingIn, Blocking, Owners
  <2> QED BY <2>1 DEF Core, WaitersPaired, Paired, In
<1>5. ~In(t, cQueue) /\ ~OnProcessor(t)
  BY <1>3, <1>4 DEF Core, EachTaskInOnePlace
<1>6. \A k \in DOMAIN fromIthread : fromIthread[k] # t
  BY <1>5, <1>3, WhoseAnswers DEF OnProcessor
<1> QED BY <1>1, <1>3, <1>6 DEF Answers

(* ithread takes a request, and makes room for what it will receive.       *)
LEMMA PopRequestUpheld ==
  ASSUME Given, MPopRequest
  PROVE  Upheld
<1>0. /\ TypeOK /\ Alive /\ Core /\ Working /\ DataExact /\ RequestsExact /\ TextsExact
      /\ toIthread \in Seq(Request) /\ posted \in Nat
  BY GivenParts
<1>1. /\ IPopRequest /\ iPc = "pop" /\ toIthread # <<>>
      /\ nextIo' = Head(toIthread)
      /\ iPc' = Handler(Head(toIthread).command)
      /\ UNCHANGED <<cQueue, waitQueue, fromIthread, next, cPc, stage, swaps, posted>>
  BY DEF MPopRequest, IPopRequest, Unnumbered, taskVars
<1>2. Head(toIthread).command \in {"open", "write", "read", "close"}
  <2>1. Head(toIthread) \in Request
    BY <1>0, <1>1, TailElements
  <2> QED BY <2>1 DEF Request, Commands
<1>3. iPc' # "done" /\ iPc' # "deliver" /\ (iPc' = "recv" <=> Head(toIthread).command = "read")
  BY <1>1, <1>2, Zenon DEF Handler
<1>4. PICK t : t = Head(toIthread).task
  OBVIOUS
<1>5. PICK news : news = IF Head(toIthread).command = "read" THEN {Data(t)} ELSE {}
  OBVIOUS
<1>6. Memory(Message(Serving + 1), {}, news)
  BY <1>1, <1>4, <1>5 DEF MPopRequest
<1>7. Head(toIthread).command = "read" => t \notin Answers
  BY <1>0, <1>1, <1>4, ReaderWaits
<1>8. Receiving = {} /\ Receiving' = IF Head(toIthread).command = "read" THEN {t} ELSE {}
  BY <1>1, <1>3, <1>4 DEF Receiving
<1>9. /\ Serving + 1 \in Pending /\ Pending' = Pending
      /\ \A k \in Pending : IsWrite(k)' <=> IsWrite(k)
  BY <1>0, <1>1, PendingPopped
<1>10. NoMisuse'
  <2>1. Message(Serving + 1) \subseteq memory
    <3>1. /\ Request_(Serving + 1) \in OfKind(memory, "message")
          /\ RequestNode(Serving + 1) \in OfKind(memory, "messageNode")
      BY <1>0, <1>9 DEF RequestsExact
    <3> QED BY <3>1, KindOf DEF OfKind
  <2>2. \A m \in news : m \notin memory
    <3>1. SUFFICES ASSUME Head(toIthread).command = "read" PROVE Data(t) \notin memory
      BY <1>5
    <3>2. \A u \in Answers \cup Receiving : Data(t) # Data(u)
      BY <1>7, <1>8, <3>1, OwnerOf
    <3>3. Data(t) \notin OfKind(memory, "data")
      BY <1>0, <3>2 DEF DataExact
    <3> QED BY <3>3, KindOf DEF OfKind
  <2> QED BY <1>0, <1>6, <2>1, <2>2, ProperUse
<1>11. \A kind \in {"node", "message", "messageNode", "text", "dataNode"} :
         OfKind(memory', kind) = OfKind(memory, kind)
  <2>1. \A m \in news : m[1] = "data"
    BY <1>5, KindOf
  <2> QED BY <1>6, <2>1, KindKept
<1>12. RequestsExact' /\ TextsExact'
  BY <1>0, <1>9, <1>11, RequestsKept
<1>13. NodesExact'
  BY <1>1, <1>11, PoppedKept, NodesQuiet
<1>14. DataExact'
  <2>1. OfKind(memory', "data") = OfKind(memory, "data") \cup news
    <3>1. OfKind(news, "data") = news
      BY <1>5, KindOf DEF OfKind
    <3>2. OfKind(memory', "data") = (OfKind(memory, "data") \ {}) \cup OfKind(news, "data")
      BY <1>6, KindMoves
    <3> QED BY <3>1, <3>2
  <2>2. PICK S : S = Receiving'
    OBVIOUS
  <2>3. {Data(u) : u \in Answers \cup S} = {Data(u) : u \in Answers \cup Receiving} \cup news
    BY <1>5, <1>8, <2>2
  <2>4. Answers' = Answers
    BY <1>1 DEF Answers
  <2>5. /\ {Data(u) : u \in Answers \cup Receiving}' = {Data(u) : u \in Answers \cup S}
        /\ {DataNode(u) : u \in Answers}' = {DataNode(u) : u \in Answers}
    BY <2>2, <2>4 DEF Data, DataNode
  <2> QED BY <1>0, <1>11, <2>1, <2>3, <2>5 DEF DataExact
<1>15. StaysInv'
  <2>1. \A m \in news : m[1] # "context" /\ m[1] # "stack"
    BY <1>5, KindOf
  <2> QED BY <1>1, <1>3, <1>6, <2>1, StaysQuiet
<1> QED BY <1>10, <1>12, <1>13, <1>14, <1>15, UpheldParts

(* ithread reads the stored host.                                          *)
LEMMA ConnectUpheld ==
  ASSUME Given, MConnect
  PROVE  Upheld
<1>0. Core /\ Working /\ StaysInv
  BY GivenParts
<1>1. /\ iPc = "connect" /\ iPc' = "readPort"
      /\ UNCHANGED <<cQueue, waitQueue, toIthread, fromIthread, next, cPc, nextIo,
                     stage, swaps, posted>>
      /\ Memory({Host}, {}, {})
  BY DEF MConnect, IReadHost, Unnumbered, queues, taskVars
<1>2. NoMisuse'
  <2>1. {Host} \subseteq memory
    BY <1>0, <1>1 DEF StaysInv
  <2> QED BY <1>0, <1>1, <2>1, ProperUse
<1>3. \A kind : OfKind(memory', kind) = OfKind(memory, kind)
  BY <1>1, KindKept
<1>4. Popped' = Popped /\ Receiving' = Receiving
  BY <1>1, PoppedKept DEF Receiving
<1>5. NodesExact' /\ DataExact'
  BY <1>1, <1>3, <1>4, NodesQuiet, DataQuiet
<1>6. RequestsExact' /\ TextsExact'
  BY <1>1, <1>3, RequestsQuiet DEF IdleHands
<1>7. StaysInv'
  BY <1>1, StaysQuiet
<1> QED BY <1>2, <1>5, <1>6, <1>7, UpheldParts

(* A node that moves from the wait queue to the ready queue is allocated,  *)
(* and stays queued.                                                       *)
LEMMA WakeKeepsQueued ==
  ASSUME Given, IServesBlocking, WakeHead
  PROVE  Queued' = Queued /\ Woken \subseteq memory
<1>0. /\ TypeOK /\ Alive /\ Core /\ NodesExact
      /\ cQueue \in Seq(Tasks) /\ waitQueue \in Seq(Tasks)
  BY GivenParts
<1>1. waitQueue # <<>>
  BY <1>0, ServedWaits
<1>2. PICK h : h = Head(waitQueue)
  OBVIOUS
<1>3. cQueue' = Append(cQueue, h) /\ waitQueue' = Tail(waitQueue)
  BY <1>1, <1>2 DEF WakeHead
<1>4. /\ h \in Tasks /\ In(h, waitQueue)
      /\ \A u : In(u, waitQueue') <=> In(u, waitQueue) /\ u # h
  BY <1>0, <1>1, <1>2, <1>3, InTail, TailElements DEF Core, EachTaskInOnePlace
<1>5. \A u : In(u, cQueue') <=> In(u, cQueue) \/ u = h
  BY <1>0, <1>3, <1>4, InAppend
<1>6. Queued' = Queued
  <2>1. Queued' = Queued \cup {h}
    BY <1>4, <1>5, QueuedGains
  <2> QED BY <1>4, <2>1 DEF Queued
<1>7. Woken \subseteq memory
  BY <1>0, <1>1, <1>2, <1>4, NodesThere DEF Woken, Queued
<1> QED BY <1>6, <1>7

(* What is left of a request when it has been served.                      *)
LEMMA ServedUpheld ==
  ASSUME Given, UNCHANGED <<toIthread, posted>>, iPc \notin IdleHands, iPc' = "pop",
         NEW uses, NEW frees, NEW news, Memory(uses, frees, news),
         frees = Message(Serving) \cup IF iPc = "send" THEN {Text(Serving)} ELSE {},
         \A m \in news : m[1] = "dataNode"
  PROVE  /\ RequestsExact' /\ TextsExact' /\ frees \subseteq memory
         /\ \A kind \in {"node", "data"} : OfKind(memory', kind) = OfKind(memory, kind)
         /\ \A m \in frees : m[1] \in {"message", "messageNode", "text"}
         /\ OfKind(memory', "dataNode") = OfKind(memory, "dataNode") \cup news
<1>1. PICK n : n = Serving
  OBVIOUS
<1>2. frees = {Request_(n), RequestNode(n)} \cup IF iPc = "send" THEN {Text(n)} ELSE {}
  BY <1>1, KindOf
<1>3. \A m \in frees : m[1] \in {"message", "messageNode", "text"}
  BY <1>2, KindOf
<1>4. frees \subseteq memory
  BY ServingThere
<1>5. /\ OfKind(memory', "message") = OfKind(memory, "message") \ frees
      /\ OfKind(memory', "messageNode") = OfKind(memory, "messageNode") \ frees
      /\ OfKind(memory', "text") = OfKind(memory, "text") \ frees
  <2>1. /\ OfKind(news, "message") = {} /\ OfKind(news, "messageNode") = {}
        /\ OfKind(news, "text") = {}
    BY DEF OfKind
  <2> QED BY <2>1, KindMoves
<1>6. /\ OfKind(memory, "message") \ frees = OfKind(memory, "message") \ {Request_(n)}
      /\ OfKind(memory, "messageNode") \ frees =
           OfKind(memory, "messageNode") \ {RequestNode(n)}
      /\ OfKind(memory, "text") \ frees =
           OfKind(memory, "text") \ IF iPc = "send" THEN {Text(n)} ELSE {}
  <2>1. /\ \A m \in OfKind(memory, "message") : m # RequestNode(n) /\ m # Text(n)
        /\ \A m \in OfKind(memory, "messageNode") : m # Request_(n) /\ m # Text(n)
        /\ \A m \in OfKind(memory, "text") : m # Request_(n) /\ m # RequestNode(n)
    BY KindOf DEF OfKind
  <2> QED BY <1>2, <2>1
<1>7. RequestsExact' /\ TextsExact'
  BY <1>1, <1>5, <1>6, RequestServed
<1>8. \A kind \in {"node", "data"} : OfKind(memory', kind) = OfKind(memory, kind)
  BY <1>3, KindKept
<1>9. OfKind(memory', "dataNode") = OfKind(memory, "dataNode") \cup news
  <2>1. OfKind(news, "dataNode") = news
    BY DEF OfKind
  <2>2. OfKind(memory, "dataNode") \ frees = OfKind(memory, "dataNode")
    BY <1>3 DEF OfKind
  <2> QED BY <2>1, <2>2, KindMoves
<1> QED BY <1>3, <1>4, <1>7, <1>8, <1>9

(* An open is done, or a close.                                            *)
LEMMA WakeUpheld ==
  ASSUME Given, MWake
  PROVE  Upheld
<1>0. Core /\ Working /\ NodesExact
  BY GivenParts
<1>1. /\ iPc \in {"wake", "shut"} /\ iPc' = "pop"
      /\ UNCHANGED <<toIthread, fromIthread, next, cPc, nextIo, stage, swaps, posted>>
      /\ Memory(IF iPc = "wake" THEN Woken ELSE {}, Message(Serving), {})
  BY DEF MWake, IWake, IShut, Unnumbered, queues, taskVars
<1>2. Queued' = Queued /\ (iPc = "wake" => Woken \subseteq memory)
  <2>1. CASE IWake
    BY <2>1, WakeKeepsQueued DEF IWake, IServesBlocking
  <2>2. CASE IShut
    BY <2>2 DEF IShut, queues, Queued, In
  <2> QED BY <2>1, <2>2 DEF MWake
<1>3. /\ RequestsExact' /\ TextsExact' /\ Message(Serving) \subseteq memory
      /\ \A kind \in {"node", "data"} : OfKind(memory', kind) = OfKind(memory, kind)
      /\ \A m \in Message(Serving) : m[1] \in {"message", "messageNode", "text"}
      /\ OfKind(memory', "dataNode") = OfKind(memory, "dataNode")
  <2>1. Message(Serving) = Message(Serving) \cup IF iPc = "send" THEN {Text(Serving)} ELSE {}
    BY <1>1
  <2>2. iPc \notin IdleHands
    BY <1>1 DEF IdleHands
  <2>3. PICK uses : Memory(uses, Message(Serving), {})
    BY <1>1
  <2>4. PICK frees : frees = Message(Serving)
    OBVIOUS
  <2>5. Memory(uses, frees, {})
    BY <2>3, <2>4
  <2>6. frees = Message(Serving) \cup IF iPc = "send" THEN {Text(Serving)} ELSE {}
    BY <2>1, <2>4
  <2>7. /\ RequestsExact' /\ TextsExact' /\ frees \subseteq memory
        /\ \A kind \in {"node", "data"} : OfKind(memory', kind) = OfKind(memory, kind)
        /\ \A m \in frees : m[1] \in {"message", "messageNode", "text"}
        /\ OfKind(memory', "dataNode") = OfKind(memory, "dataNode") \cup {}
    BY <1>1, <2>2, <2>5, <2>6, ServedUpheld
  <2> QED BY <2>4, <2>7
<1>4. NoMisuse'
  <2>1. (IF iPc = "wake" THEN Woken ELSE {}) \subseteq memory
    BY <1>2
  <2> QED BY <1>0, <1>1, <1>3, <2>1, ProperUse
<1>5. NodesExact'
  <2>1. Popped' = Popped
    BY <1>1, PoppedKept
  <2> QED BY <1>0, <1>1, <1>2, <1>3, <2>1, NodesKept
<1>6. DataExact'
  <2>1. Receiving' = Receiving
    BY <1>1 DEF Receiving
  <2> QED BY <1>1, <1>3, <2>1, DataQuiet
<1>7. StaysInv'
  BY <1>1, <1>3, StaysQuiet
<1> QED BY <1>3, <1>4, <1>5, <1>6, <1>7, UpheldParts

(* A read is done: the data is on its way back.                            *)
LEMMA DeliverUpheld ==
  ASSUME Given, MDeliver
  PROVE  Upheld
<1>0. TypeOK /\ Alive /\ Core /\ Working /\ NodesExact /\ DataExact
  BY GivenParts
<1>1. PICK t : t = nextIo.task
  OBVIOUS
<1>2. /\ iPc = "deliver" /\ iPc' = "pop" /\ WakeHead
      /\ fromIthread' = Append(fromIthread, t)
      /\ UNCHANGED <<toIthread, next, cPc, nextIo, stage, swaps, posted>>
      /\ Memory(Woken, Message(Serving), {DataNode(t)})
  BY <1>1 DEF MDeliver, IDeliver, Unnumbered, taskVars
<1>3. Queued' = Queued /\ Woken \subseteq memory
  BY <1>2, WakeKeepsQueued DEF IServesBlocking
<1>4. t \in Tasks /\ t \notin Answers
  BY <1>0, <1>1, <1>2, ServedWaits DEF IServesBlocking
<1>5. PICK frees : frees = Message(Serving)
  OBVIOUS
<1>6. Memory(Woken, frees, {DataNode(t)})
  BY <1>2, <1>5
<1>7. /\ RequestsExact' /\ TextsExact' /\ frees \subseteq memory
      /\ \A kind \in {"node", "data"} : OfKind(memory', kind) = OfKind(memory, kind)
      /\ \A m \in frees : m[1] \in {"message", "messageNode", "text"}
      /\ OfKind(memory', "dataNode") = OfKind(memory, "dataNode") \cup {DataNode(t)}
  <2>1. iPc \notin IdleHands
    BY <1>2 DEF IdleHands
  <2>2. frees = Message(Serving) \cup IF iPc = "send" THEN {Text(Serving)} ELSE {}
    BY <1>2, <1>5
  <2>3. \A m \in {DataNode(t)} : m[1] = "dataNode"
    BY KindOf
  <2> QED BY <1>2, <1>6, <2>1, <2>2, <2>3, ServedUpheld
<1>8. NoMisuse'
  <2>1. DataNode(t) \notin OfKind(memory, "dataNode")
    BY <1>0, <1>4, OwnerOf DEF DataExact
  <2>2. \A m \in {DataNode(t)} : m \notin memory
    BY <2>1, KindOf DEF OfKind
  <2> QED BY <1>0, <1>3, <1>6, <1>7, <2>2, ProperUse
<1>9. NodesExact'
  <2>1. Popped' = Popped
    BY <1>2, PoppedKept
  <2> QED BY <1>0, <1>2, <1>3, <1>7, <2>1, NodesKept
<1>10. DataExact'
  <2>1. Answers' = Answers \cup {t}
    <3>1. fromIthread \in Seq(Tasks)
      BY GivenParts
    <3>2. /\ DOMAIN fromIthread = 1 .. Len(fromIthread) /\ Len(fromIthread) \in Nat
          /\ DOMAIN fromIthread' = 1 .. Len(fromIthread) + 1
          /\ \A i \in 1 .. Len(fromIthread) : fromIthread'[i] = fromIthread[i]
          /\ fromIthread'[Len(fromIthread) + 1] = t
      BY <1>2, <1>4, <3>1, AppendElements
    <3>3. Answers' = {fromIthread'[i] : i \in DOMAIN fromIthread'}
      BY DEF Answers
    <3> QED BY <3>2, <3>3 DEF Answers
  <2>2. Receiving = {t} /\ Receiving' = {}
    BY <1>1, <1>2 DEF Receiving
  <2>3. {DataNode(u) : u \in Answers \cup {t}} = {DataNode(u) : u \in Answers} \cup {DataNode(t)}
    OBVIOUS
  <2>4. /\ {Data(u) : u \in Answers \cup Receiving}' = {Data(u) : u \in Answers \cup {t}}
        /\ {DataNode(u) : u \in Answers}' = {DataNode(u) : u \in Answers \cup {t}}
    BY <2>1, <2>2 DEF Data, DataNode
  <2> QED BY <1>0, <1>7, <2>2, <2>3, <2>4 DEF DataExact
<1>11. StaysInv'
  BY <1>2, <1>6, <1>7, KindOf, StaysQuiet
<1> QED BY <1>7, <1>8, <1>9, <1>10, <1>11, UpheldParts

(* A write is done.                                                        *)
LEMMA SendUpheld ==
  ASSUME Given, MSend
  PROVE  Upheld
<1>0. Working
  BY GivenParts
<1>1. /\ iPc = "send" /\ iPc' = "pop"
      /\ UNCHANGED <<cQueue, waitQueue, toIthread, fromIthread, next, cPc, nextIo,
                     stage, swaps, posted>>
      /\ Memory({}, Message(Serving) \cup {Text(Serving)}, {})
  BY DEF MSend, ISend, Unnumbered, queues, taskVars
<1>2. PICK frees : frees = Message(Serving) \cup {Text(Serving)}
  OBVIOUS
<1>3. Memory({}, frees, {})
  BY <1>1, <1>2
<1>4. /\ RequestsExact' /\ TextsExact' /\ frees \subseteq memory
      /\ \A kind \in {"node", "data"} : OfKind(memory', kind) = OfKind(memory, kind)
      /\ \A m \in frees : m[1] \in {"message", "messageNode", "text"}
      /\ OfKind(memory', "dataNode") = OfKind(memory, "dataNode") \cup {}
  <2>1. iPc \notin IdleHands
    BY <1>1 DEF IdleHands
  <2>2. frees = Message(Serving) \cup IF iPc = "send" THEN {Text(Serving)} ELSE {}
    BY <1>1, <1>2
  <2> QED BY <1>1, <1>3, <2>1, <2>2, ServedUpheld
<1>5. NoMisuse'
  BY <1>0, <1>3, <1>4, ProperUse
<1>6. NodesExact' /\ DataExact'
  <2>1. Popped' = Popped /\ Receiving' = Receiving
    BY <1>1, PoppedKept DEF Receiving
  <2> QED BY <1>1, <1>4, <2>1, NodesQuiet, DataQuiet
<1>7. StaysInv'
  BY <1>1, <1>3, <1>4, StaysQuiet
<1> QED BY <1>4, <1>5, <1>6, <1>7, UpheldParts

(* ithread finds nothing to do, and perhaps leaves.                        *)
LEMMA ReadFlagsUpheld ==
  ASSUME Given, MReadFlags
  PROVE  Upheld
<1>0. Working /\ StaysInv /\ swaps \in [Tasks -> Nat]
  BY GivenParts
<1>1. /\ iPc = "empty" /\ iPc' \in {"pop", "done"}
      /\ UNCHANGED <<cQueue, waitQueue, toIthread, fromIthread, next, cPc, nextIo,
                     stage, swaps, posted>>
      /\ Memory({}, IF iPc' = "done" THEN {Host} ELSE {}, {})
  BY DEF MReadFlags, IReadFlags, Unnumbered, queues, taskVars
<1>2. PICK frees : frees = IF iPc' = "done" THEN {Host} ELSE {}
  OBVIOUS
<1>3. /\ Memory({}, frees, {}) /\ frees \subseteq memory
      /\ \A m \in frees : m = Host /\ m[1] = "host"
  BY <1>0, <1>1, <1>2, KindOf DEF StaysInv
<1>4. NoMisuse'
  BY <1>0, <1>3, ProperUse
<1>5. \A kind \in {"node", "message", "messageNode", "text", "data", "dataNode"} :
        OfKind(memory', kind) = OfKind(memory, kind)
  BY <1>3, KindKept
<1>6. Popped' = Popped /\ Receiving' = Receiving
  BY <1>1, PoppedKept DEF Receiving
<1>7. NodesExact' /\ DataExact'
  BY <1>1, <1>5, <1>6, NodesQuiet, DataQuiet
<1>8. RequestsExact' /\ TextsExact'
  BY <1>1, <1>5, RequestsQuiet DEF IdleHands
<1>9. StaysInv'
  <2>1. ReadBuffer \notin frees /\ (iPc' # "done" => Host \notin frees)
    BY <1>2, <1>3, KindOf
  <2> QED BY <1>0, <1>1, <1>3, <2>1, StaysKept
<1> QED BY <1>4, <1>7, <1>8, <1>9, UpheldParts

(* Steps that touch no memory.                                             *)
LEMMA OtherUpheld ==
  ASSUME Given, MOther \/ UNCHANGED <<vars, memVars>>
  PROVE  Upheld
<1>0. Working /\ HandsInv /\ NodesExact
  BY GivenParts
<1>1. UNCHANGED <<cQueue, waitQueue, toIthread, fromIthread, next, stage, swaps,
                  posted, memory, damage>>
  BY DEF MOther, memVars, MainStep, MainShutdown, MainJoinC, MainJoinI, MainJoin,
         CGetContext, CReadFlag, CCheckQueues, CExit, TaskPort, IPopNothing, IReadPort, IConnect, IRecv,
         queues, taskVars, vars
<1>2. /\ iPc' # "done" => iPc # "done"
      /\ iPc' \in IdleHands <=> iPc \in IdleHands
      /\ iPc' = "send" <=> iPc = "send"
  BY <1>0 DEF MOther, MainStep, MainShutdown, MainJoinC, MainJoinI, MainJoin,
         CGetContext, CReadFlag, CCheckQueues, CExit, TaskPort, IPopNothing, IReadPort,
         IConnect, IRecv, Receiving, IdleHands, vars
<1>3. Popped' = Popped
  <2>1. CASE UNCHANGED cPc
    BY <1>1, <2>1, PoppedKept
  <2>2. CASE CGetContext \/ CReadFlag \/ CCheckQueues \/ CExit
    <3>1. next = NoTask
      BY <1>0, <2>2 DEF HandsInv, CGetContext, CReadFlag, CCheckQueues, CExit
    <3> QED BY <1>1, <3>1 DEF Popped
  <2>3. CASE TaskPort
    BY <1>1, <2>3 DEF Popped, TaskPort, Running
  <2> QED BY <2>1, <2>2, <2>3
          DEF MOther, MainStep, MainShutdown, MainJoinC, MainJoinI, MainJoin,
              IPopNothing, IReadPort, IConnect, IRecv, vars
<1>4. NoMisuse'
  BY <1>0, <1>1 DEF NoMisuse, Working
<1>5. \A kind : OfKind(memory', kind) = OfKind(memory, kind)
  BY <1>1
<1>6. Receiving' = Receiving
  BY <1>0 DEF MOther, MainStep, MainShutdown, MainJoinC, MainJoinI, MainJoin,
         CGetContext, CReadFlag, CCheckQueues, CExit, TaskPort, IPopNothing, IReadPort,
         IConnect, IRecv, Receiving, vars
<1>7. NodesExact' /\ DataExact'
  BY <1>1, <1>3, <1>5, <1>6, NodesQuiet, DataQuiet
<1>8. RequestsExact' /\ TextsExact'
  BY <1>1, <1>2, <1>5, RequestsQuiet
<1>9. StaysInv'
  <2>1. StaysInv /\ \A t, n : Context(t, n)' = Context(t, n) /\ Stack(t)' = Stack(t)
    BY GivenParts DEF Context, Stack
  <2> QED BY <1>1, <1>2, <2>1 DEF StaysInv, Context, Stack, ReadBuffer, Host
<1> QED BY <1>4, <1>7, <1>8, <1>9, UpheldParts
-----------------------------------------------------------------------------
(* Every step upholds the invariant.                                       *)
LEMMA MemoryStep ==
  IInv /\ ContextInv /\ MInv /\ NoMisuse /\ [NextM]_<<vars, memVars>>
    => MInv' /\ NoMisuse'
<1> SUFFICES ASSUME IInv, ContextInv, MInv, NoMisuse, [NextM]_<<vars, memVars>>
             PROVE  MInv' /\ NoMisuse'
  OBVIOUS
<1>1. CASE Working
  <2>1. Given
    BY <1>1 DEF Given, MInv
  <2>2. Upheld
    <3>1. CASE \E t \in Tasks : MCreate(t)
      BY <2>1, <3>1, CreateUpheld
    <3>2. CASE MPopTask \/ MPopNothing
      BY <2>1, <3>2, PopTaskUpheld, PopNothingUpheld
    <3>3. CASE Task
      BY <2>1, <3>3, YieldUpheld, OpenUpheld, AskUpheld, PostUpheld, SwapOutUpheld,
         ReadBackUpheld, EndUpheld DEF Task
    <3>4. CASE IO
      BY <2>1, <3>4, PopRequestUpheld, ConnectUpheld, WakeUpheld, DeliverUpheld,
         SendUpheld, ReadFlagsUpheld DEF IO
    <3>5. CASE MOther \/ UNCHANGED <<vars, memVars>>
      BY <2>1, <3>5, OtherUpheld
    <3> QED BY <3>1, <3>2, <3>3, <3>4, <3>5 DEF NextM
  <2>3. HandsInv'
    <3>1. TypeOK /\ Alive /\ Core /\ HandsInv
      BY <2>1, GivenParts
    <3>2. CASE Next
      BY <3>1, <3>2, HandsStep
    <3>3. CASE UNCHANGED vars
      BY <3>1, <3>3 DEF HandsInv, IdleHands, vars
    <3> QED BY <3>2, <3>3, MemoryRefines
  <2>4. posted' \in Nat
    <3>1. posted' \in {posted, posted + 1}
      BY DEF NextM, MCreate, MPopTask, MPopNothing, Task, MYield, MOpen, MAsk, MWrite,
             MClose, MSwapOut, MReadBack, MReturn, MExit, IO, MPopRequest, MConnect,
             MWake, MDeliver, MSend, MReadFlags, MOther, memVars, Unnumbered, Count
    <3> QED BY <2>1, <3>1, GivenParts
  <2> QED BY <2>2, <2>3, <2>4 DEF Upheld, MInv
<1>2. CASE ~Working
  <2>1. UNCHANGED <<vars, memVars>>
    BY <1>2 DEF NextM
  <2> QED BY <1>2, <2>1 DEF vars, memVars, Working, Alive, MInv, NoMisuse
<1> QED BY <1>1, <1>2

(* The invariants hold when sut_init() returns.                            *)
LEMMA MemoryInit == InitM => MInv /\ NoMisuse /\ ContextInv
<1> SUFFICES ASSUME InitM PROVE MInv /\ NoMisuse /\ ContextInv
  OBVIOUS
<1>1. /\ cQueue = <<>> /\ waitQueue = <<>> /\ toIthread = <<>> /\ fromIthread = <<>>
      /\ next = NoTask /\ nextIo = NoRequest /\ iPc = "pop" /\ cPc = "getcontext"
      /\ stage = [t \in Tasks |-> "unborn"]
      /\ swaps = [t \in Tasks |-> 0] /\ posted = 0
      /\ memory = {Host, ReadBuffer} /\ damage = "none"
  BY DEF InitM, Init
<1>2. \A kind : kind \notin {"host", "readBuffer"} => OfKind(memory, kind) = {}
  BY <1>1, KindOf DEF OfKind
<1>3. Queued = {} /\ Popped = {} /\ Receiving = {} /\ Answers = {}
  <2>1. \A t : ~In(t, <<>>)
    BY DEF In
  <2> QED BY <1>1, <2>1 DEF Queued, Popped, Receiving, Answers
<1>4. Pending = {}
  <2>1. Serving = 0
    <3>1. Len(<<>>) = 0
      BY EmptySeq
    <3>2. Serving = 0 - 0
      BY <1>1, <3>1, Zenon DEF Serving
    <3> QED BY <3>2
  <2> QED BY <1>1, <2>1 DEF Pending, Oldest, IdleHands
<1>5. BlocksInv
  BY <1>2, <1>3, <1>4 DEF BlocksInv, NodesExact, RequestsExact, TextsExact, DataExact
<1>6. StaysInv
  BY <1>1, <1>2 DEF StaysInv
<1>7. HandsInv
  BY <1>1 DEF HandsInv, IdleHands
<1>8. ContextInv
  BY <1>1 DEF ContextInv, ContextKept
<1> QED BY <1>1, <1>5, <1>6, <1>7, <1>8 DEF MInv, NoMisuse

(* The invariants of the library and of its memory, together.              *)
LEMMA MemoryInvariant == SpecM => [](IInv /\ ContextInv /\ MInv /\ NoMisuse)
<1> QED
  BY MemoryInit, MemoryStep, ContextStep, LibraryInvariant, PTL DEF SpecM

(* Whatever the order in which the two executors come to share a block, it *)
(* is used and freed while it is allocated and is allocated only once; the *)
(* one free of which this cannot be said, that of the ss_sp in sut_exit    *)
(* (sut.c:182), is excepted, and nothing is said of what follows if it     *)
(* frees garbage (sut.c:57-59, 97, 101, 111, 116-117, 183, 223-224, 275).  *)
THEOREM MemoryUsedWell == SpecM => []NoMisuse
BY MemoryInvariant, PTL
-----------------------------------------------------------------------------
(* What the queues and the threads reach is what the invariant says.       *)
LEMMA ReachableKinds ==
  ASSUME Given
  PROVE  Reachable = {Request_(k) : k \in Pending} \cup {RequestNode(k) : k \in Pending}
                       \cup {Text(k) : k \in {j \in Pending : IsWrite(j)}}
                       \cup {Data(t) : t \in Answers \cup Receiving}
                       \cup {DataNode(t) : t \in Answers}
                       \cup {Node(t, swaps[t]) : t \in Queued} \cup Popped
<1> DEFINE first == IF nextIo = NoRequest \/ iPc = "pop" THEN Serving + 1 ELSE Serving
           At(k) == IF k = Serving THEN nextIo ELSE toIthread[k - Serving]
           answers == {t \in Tasks : In(t, fromIthread)}
           received == IF iPc \in {"recv", "deliver"} THEN {nextIo.task} ELSE {}
           queued == {u \in Tasks : In(u, cQueue) \/ In(u, waitQueue)}
<1>0. /\ TypeOK /\ HandsInv /\ posted \in Nat
      /\ toIthread \in Seq(Request) /\ fromIthread \in Seq(Tasks)
  BY GivenParts
<1>1. nextIo = NoRequest \/ iPc = "pop" <=> iPc \in IdleHands
  <2>1. NoRequest \notin Request
    BY DEF NoRequest, Request, Commands
  <2>2. iPc \notin IdleHands => nextIo \in Request
    BY <1>0 DEF TypeOK, ILocations, IdleHands
  <2> QED BY <1>0, <2>1, <2>2 DEF HandsInv, IdleHands
<1>2. first = Oldest
  BY <1>1 DEF Oldest
<1>3. ASSUME NEW k \in Pending PROVE At(k).command = "write" <=> IsWrite(k)
  <2>1. CASE k = Serving
    <3>1. Serving \in Int
      BY <1>0, LenProperties DEF Serving
    <3>2. iPc \notin IdleHands
      BY <1>3, <2>1, <3>1, <1>0 DEF Pending, Oldest
    <3> QED BY <1>0, <2>1, <3>2 DEF HandsInv, IsWrite
  <2>2. CASE k # Serving
    BY <2>2 DEF IsWrite
  <2> QED BY <2>1, <2>2
<1>4. answers = Answers
  BY <1>0 DEF Answers, In
<1>5. received = Receiving /\ queued = Queued
  BY DEF Receiving, Queued
<1>6. first .. posted = Pending
  BY <1>2 DEF Pending
<1>7. PICK W : W = {j \in first .. posted : At(j).command = "write"}
  OBVIOUS
<1>8. {Text(k) : k \in W} = {Text(k) : k \in {j \in Pending : IsWrite(j)}}
  <2>1. W = {j \in Pending : IsWrite(j)}
    BY <1>3, <1>6, <1>7
  <2> QED BY <2>1
<1>9. UNION {Message(k) : k \in Pending} =
        {Request_(k) : k \in Pending} \cup {RequestNode(k) : k \in Pending}
  BY KindOf
<1>10. {Data(t) : t \in Answers} \cup {Data(t) : t \in Receiving} =
         {Data(t) : t \in Answers \cup Receiving}
  OBVIOUS
<1>11. PICK P, A, V, Q : /\ P = first .. posted /\ A = answers
                         /\ V = received /\ Q = queued
  OBVIOUS
<1>12. Reachable = (UNION {Message(k) : k \in P}) \cup {Text(k) : k \in W}
                     \cup {Data(t) : t \in A} \cup {DataNode(t) : t \in A}
                     \cup {Data(t) : t \in V}
                     \cup {Node(t, swaps[t]) : t \in Q} \cup Popped
  BY <1>7, <1>11, Zenon DEF Reachable
<1>13. P = Pending /\ A = Answers /\ V = Receiving /\ Q = Queued
  BY <1>4, <1>5, <1>6, <1>11
<1>14. PICK U, R, T, D, E, F, G, N :
         /\ U = UNION {Message(k) : k \in P} /\ R = {Request_(k) : k \in Pending}
         /\ T = {RequestNode(k) : k \in Pending} /\ D = {Data(t) : t \in A}
         /\ E = {Data(t) : t \in V} /\ F = {Data(t) : t \in Answers \cup Receiving}
         /\ G = {DataNode(t) : t \in A} /\ N = {Node(t, swaps[t]) : t \in Q}
  OBVIOUS
<1>15. /\ U = R \cup T /\ D \cup E = F
       /\ G = {DataNode(t) : t \in Answers}
       /\ N = {Node(t, swaps[t]) : t \in Queued}
  BY <1>9, <1>10, <1>13, <1>14
<1>16. Reachable = U \cup {Text(k) : k \in W} \cup D \cup G \cup E \cup N \cup Popped
  BY <1>12, <1>14
<1>17. Reachable = R \cup T \cup {Text(k) : k \in W} \cup F \cup G \cup N \cup Popped
  BY <1>15, <1>16
<1> QED BY <1>8, <1>14, <1>15, <1>17

(* What carries tasks, requests and data is allocated exactly as long as a *)
(* queue or a thread can reach it (sut.c:57-59, 97, 101, 111, 116-117,     *)
(* 223-224): nothing is lost and nothing is freed too soon, on any path    *)
(* of the two loops.                                                       *)
THEOREM NothingLost == SpecM => []NothingForgotten
<1>1. ASSUME IInv, ContextInv, MInv PROVE NothingForgotten
  <2>1. SUFFICES ASSUME Working PROVE {m \in memory : m[1] \in Kinds} = Reachable
    BY DEF NothingForgotten
  <2>2. Given
    BY <1>1, <2>1 DEF Given, MInv
  <2>3. NodesExact /\ RequestsExact /\ TextsExact /\ DataExact
    BY <2>2, GivenParts
  <2>4. {m \in memory : m[1] \in Kinds} =
          OfKind(memory, "node") \cup OfKind(memory, "message")
            \cup OfKind(memory, "messageNode") \cup OfKind(memory, "text")
            \cup OfKind(memory, "data") \cup OfKind(memory, "dataNode")
    BY DEF Kinds, OfKind
  <2>5. PICK N, M, L, T, D, E :
          /\ N = OfKind(memory, "node") /\ M = OfKind(memory, "message")
          /\ L = OfKind(memory, "messageNode") /\ T = OfKind(memory, "text")
          /\ D = OfKind(memory, "data") /\ E = OfKind(memory, "dataNode")
    OBVIOUS
  <2>6. Reachable = M \cup L \cup T \cup D \cup E \cup N
    BY <2>2, <2>3, <2>5, ReachableKinds DEF NodesExact, RequestsExact, TextsExact, DataExact
  <2> QED BY <2>4, <2>5, <2>6
<1> QED BY <1>1, MemoryInvariant, PTL
=============================================================================
