----------------------------- MODULE TaskMemory -----------------------------
(***************************************************************************)
(* The memory of the user-level thread library ("Simple User-Level         *)
(* Threads"/sut.c): which thread allocates, passes on, uses and frees the  *)
(* ucontexts and stacks of tasks, the queue nodes, the requests with the   *)
(* text they carry, the data read and the two global buffers.  Every step  *)
(* is a step of module SUT with what it does to the memory.                *)
(*                                                                         *)
(* Every yield, open and read fills a new ucontext: Context(t, n) is that  *)
(* of the n-th, Context(t, 0) the one sut_create made.  A node of the      *)
(* ready or the wait queue is numbered like the ucontext it carries.       *)
(* Requests are numbered in the order in which they were posted, which is  *)
(* the order in which they are served.                                     *)
(***************************************************************************)
EXTENDS SUT, Queues

VARIABLES
  swaps,   \* the yields, opens and reads of each task
  posted,  \* the requests posted so far
  memory,  \* what is allocated
  result,  \* whose data read_from_io holds
  fresh,   \* ghost: has the running task read, and not left C-EXEC since?
  damage   \* how the memory was corrupted, if it was: by the free of an
           \* ss_sp that is a stack ("clobbered") or garbage ("wild"), or by
           \* any other use of what is not allocated ("misused")

memVars == <<swaps, posted, memory, result, fresh, damage>>
-----------------------------------------------------------------------------
Node(t, n)    == <<"node", t, n>>
Context(t, n) == <<"context", t, n>>
Stack(t)      == <<"stack", t, 0>>
Message(k)    == {<<"message", NoTask, k>>, <<"messageNode", NoTask, k>>}
Text(k)       == <<"text", NoTask, k>>       \* selement
Data(t)       == <<"data", t, 0>>            \* from_io
DataNode(t)   == <<"dataNode", t, 0>>
Host          == <<"host", NoTask, 0>>
ReadBuffer    == <<"readBuffer", NoTask, 0>> \* read_from_io

(* The node C-EXEC popped last and has not freed; the ucontext in it is    *)
(* the one before the last if the task has asked to leave since.           *)
Popped == IF next = NoTask THEN {}
          ELSE {Node(next, IF cPc \in {"swap", "pop"} /\ stage[next] = "live"
                             THEN swaps[next] - 1 ELSE swaps[next])}

(* The request I-EXEC popped last.                                         *)
Serving == posted - Len(toIthread)

(* What a step uses and what it frees must be allocated, what it allocates *)
(* must not be.                                                            *)
Memory(uses, frees, news) ==
  /\ memory' = (memory \ frees) \cup news
  /\ damage' = IF uses \cup frees \subseteq memory /\ news \cap memory = {}
                 THEN damage ELSE "misused"

(* Bookkeeping of the numbers: the running task leaves with a new ucontext *)
(* (if swap), having posted a request (if post).                           *)
Count(swap, post) ==
  /\ swaps' = IF swap THEN [swaps EXCEPT ![next] = @ + 1] ELSE swaps
  /\ posted' = IF post THEN posted + 1 ELSE posted
  /\ fresh' = (fresh /\ ~swap)
  /\ UNCHANGED result

NewContext == {Context(next, swaps[next] + 1), Node(next, swaps[next] + 1)}
Unnumbered == UNCHANGED <<swaps, posted, result, fresh>>
-----------------------------------------------------------------------------
InitM ==
  /\ Init
  /\ swaps = [t \in Tasks |-> 0] /\ posted = 0
  /\ memory = {Host, ReadBuffer}
  /\ result = NoTask /\ fresh = FALSE /\ damage = "none"

MCreate(t) ==
  /\ MainCreate(t) \/ TaskCreate(t)
  /\ Memory({}, {}, {Context(t, 0), Stack(t), Node(t, 0)})
  /\ Unnumbered

(* cthread frees the node it popped before, and goes on with the next.     *)
MPopTask ==
  /\ CPopTask
  /\ LET t == Head(cQueue)
     IN  Memory({Node(t, swaps[t]), Context(t, swaps[t])}, Popped, {})
  /\ Unnumbered

MPopNothing == CPopNothing /\ Memory({}, Popped, {}) /\ Unnumbered

MYield == TaskYield /\ Memory({}, {}, NewContext) /\ Count(TRUE, FALSE)

MOpen == (TaskOpen \/ TaskCopied) /\ Memory({Host}, {}, {}) /\ Unnumbered

MAsk ==
  /\ TaskOpenPush \/ TaskRead
  /\ Memory({}, {}, NewContext \cup Message(posted + 1))
  /\ Count(TRUE, TRUE)

MWrite ==
  /\ TaskWrite
  /\ Memory({}, {}, Message(posted + 1) \cup {Text(posted + 1)})
  /\ Count(FALSE, TRUE)

MClose ==
  /\ TaskClose
  /\ Memory({}, {}, Message(posted + 1))
  /\ Count(FALSE, TRUE)

MSwapOut ==
  /\ TaskSwapOut
  /\ Memory({Context(next, swaps[next])}, {}, {})
  /\ Unnumbered

(* MReadBack: keep the node.                                               *)
Bug_KeepsNode ==
  /\ TaskReadBack
  /\ Memory({ReadBuffer}, {Data(Head(fromIthread))}, {})
  /\ result' = Head(fromIthread) /\ fresh' = TRUE
  /\ UNCHANGED <<swaps, posted>>

(* MReadBack: free the ucontext the task was resumed from.                 *)
Bug_FreesOwnContext ==
  /\ TaskReadBack
  /\ LET t == Head(fromIthread)
     IN  /\ Memory({ReadBuffer},
                   {Data(t), DataNode(t), Context(next, swaps[next])}, {})
         /\ result' = t
  /\ fresh' = TRUE
  /\ UNCHANGED <<swaps, posted>>

(* sut_read copies the data into the one buffer and frees it.              *)
MReadBack ==
  /\ TaskReadBack
  /\ LET t == Head(fromIthread)
     IN  /\ Memory({ReadBuffer}, {Data(t), DataNode(t)}, {})
         /\ result' = t
  /\ fresh' = TRUE
  /\ UNCHANGED <<swaps, posted>>

(* The task's function returns: nothing is freed.                          *)
MReturn ==
  /\ TaskExit
  /\ Memory({}, {}, {})
  /\ fresh' = FALSE /\ UNCHANGED <<swaps, posted, result>>

(* sut_exit frees uc_stack.ss_sp of the ucontext the task was last resumed *)
(* from, and that ucontext.  In the first ucontext it is the task's stack, *)
(* which has been given the size of a pointer: makecontext laid the first  *)
(* frame over the header that malloc keeps in front of the block, and free *)
(* ends the process.  In every later one neither malloc nor swapcontext    *)
(* sets this field: it is what the memory held before, a NULL, which free  *)
(* ignores, or a word of a block freed earlier, by the library or by a     *)
(* task, and what freeing that does is undefined.                          *)
MExit ==
  /\ TaskExit
  /\ \/ swaps[next] = 0 /\ damage' = "clobbered" /\ UNCHANGED memory
     \/ swaps[next] # 0 /\ damage' = "wild" /\ UNCHANGED memory
     \/ swaps[next] # 0 /\ Memory(Popped, {Context(next, swaps[next])}, {})
  /\ fresh' = FALSE /\ UNCHANGED <<swaps, posted, result>>

(* ithread mallocs the block for the data before it calls recv.            *)
MPopRequest ==
  /\ IPopRequest
  /\ Memory(Message(Serving + 1), {},
            IF nextIo'.command = "read" THEN {Data(nextIo'.task)} ELSE {})
  /\ Unnumbered

MConnect == IReadHost /\ Memory({Host}, {}, {}) /\ Unnumbered

(* The nodes of the wait queue move as they are; a request is freed after  *)
(* it was served.                                                          *)
Woken == IF waitQueue = <<>> THEN {}
         ELSE {Node(Head(waitQueue), swaps[Head(waitQueue)])}

MWake ==
  /\ IWake \/ IShut
  /\ Memory(IF iPc = "wake" THEN Woken ELSE {}, Message(Serving), {})
  /\ Unnumbered

(* MDeliver: ithread frees the data it has just queued.                    *)
Bug_FreesData ==
  /\ IDeliver
  /\ Memory(Woken, Message(Serving) \cup {Data(nextIo.task)},
            {DataNode(nextIo.task)})
  /\ Unnumbered

(* MDeliver: receive into read_from_io at once.                            *)
Bug_ReceivesInPlace ==
  /\ IDeliver
  /\ Memory(Woken, Message(Serving), {DataNode(nextIo.task)})
  /\ result' = nextIo.task
  /\ UNCHANGED <<swaps, posted, fresh>>

MDeliver ==
  /\ IDeliver
  /\ Memory(Woken, Message(Serving), {DataNode(nextIo.task)})
  /\ Unnumbered

MSend ==
  /\ ISend
  /\ Memory({}, Message(Serving) \cup {Text(Serving)}, {})
  /\ Unnumbered

(* clean_up, as I-EXEC leaves.                                             *)
MReadFlags ==
  /\ IReadFlags
  /\ Memory({}, IF iPc' = "done" THEN {Host} ELSE {}, {})
  /\ Unnumbered

MOther ==
  /\ MainStep \/ CGetContext \/ CReadFlag \/ CCheckQueues \/ CExit
       \/ TaskPort \/ IPopNothing \/ IReadPort \/ IConnect \/ IRecv
  /\ UNCHANGED memVars
-----------------------------------------------------------------------------
Working == Alive /\ damage = "none"

Task == \/ MYield \/ MOpen \/ MAsk \/ MWrite \/ MClose \/ MSwapOut
        \/ MReadBack \/ MReturn \/ MExit
IO == \/ MPopRequest \/ MConnect \/ MWake \/ MDeliver \/ MSend \/ MReadFlags

NextM == \/ Working /\ \E t \in Tasks : MCreate(t)
         \/ Working /\ (MPopTask \/ MPopNothing)
         \/ Working /\ Task
         \/ Working /\ IO
         \/ Working /\ MOther
         \/ (mainPc = "returned" \/ ~Working) /\ UNCHANGED <<vars, memVars>>

SpecM == InitM /\ [][NextM]_<<vars, memVars>>
-----------------------------------------------------------------------------
(* Apart from the ss_sp that sut_exit frees, of which nothing can be       *)
(* promised (sut.c:182), nothing is used or freed that is not allocated    *)
(* and nothing is allocated twice, though nodes, requests and data are     *)
(* freed by another thread than the one that allocated them, and a task's  *)
(* node while the task is queued again (sut.c:57-59, 97, 101, 111,         *)
(* 116-117, 183, 223-224, 275).                                            *)
NoMisuse == damage # "misused"

(* What carries tasks, requests and data is allocated exactly as long as   *)
(* a queue or a thread can reach it: no path of the two loops forgets a    *)
(* node, a request, a text or data, or frees it too soon.                  *)
Reachable ==
  LET numbers == (IF nextIo = NoRequest \/ iPc = "pop" THEN Serving + 1
                                                       ELSE Serving) .. posted
      At(k)   == IF k = Serving THEN nextIo ELSE toIthread[k - Serving]
      answers == {t \in Tasks : In(t, fromIthread)}
  IN  (UNION {Message(k) : k \in numbers})
        \cup {Text(k) : k \in {j \in numbers : At(j).command = "write"}}
        \cup {Data(t) : t \in answers} \cup {DataNode(t) : t \in answers}
        \cup {Data(t) : t \in IF iPc \in {"recv", "deliver"}
                                THEN {nextIo.task} ELSE {}}
        \cup {Node(t, swaps[t]) :
                t \in {u \in Tasks : In(u, cQueue) \/ In(u, waitQueue)}}
        \cup Popped

Kinds == {"node", "message", "messageNode", "text", "data", "dataNode"}

NothingForgotten ==
  Working => {m \in memory : m[1] \in Kinds} = Reachable

(* A task that has just read finds its own data in the buffer all tasks    *)
(* share, until it leaves C-EXEC, whatever I-EXEC receives meanwhile       *)
(* (sut.c:104-110, 219-225).                                               *)
ResultKept == fresh => result = next

(* The ucontext a live task will be resumed from, or has just been, is     *)
(* allocated: sut_exit frees no other one (sut.c:64, 178, 182-183).        *)
ContextKept ==
  \A t \in Tasks : stage[t] = "live" => Context(t, swaps[t]) \in memory

(* "free stack" (sut.c:182): when sut_exit has freed a task's ucontext it  *)
(* has freed the task's stack.                                             *)
StackFreed ==
  \A t \in Tasks :
    stage[t] = "finished" /\ Context(t, swaps[t]) \notin memory
      => Stack(t) \notin memory
=============================================================================
