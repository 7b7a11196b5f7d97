-------------------------------- MODULE SUT --------------------------------
(***************************************************************************)
(* The user-level thread library ("Simple User-Level Threads"/sut.c).      *)
(*                                                                         *)
(* Three kernel threads share four FIFO queues guarded by one mutex:       *)
(*   main    calls sut_init, sut_create and sut_shutdown;                  *)
(*   C-EXEC  (cthread) runs the tasks, one at a time, cooperatively;       *)
(*   I-EXEC  (ithread) performs the I/O that tasks ask for by messages.    *)
(* A critical section of c_lock holds no call that blocks, so each one is  *)
(* one atomic step; everything the code does outside the lock is a step of *)
(* its own.  A task is its ucontext: the queues hold task identifiers.     *)
(*                                                                         *)
(* Ghost data: every request and every reply carries the task it is for,   *)
(* which the C structures do not.  No guard of the code reads it, so that  *)
(* the pairing of requests, waiters and replies is a claim to establish.   *)
(*                                                                         *)
(* An operator named Bug_... is a plausible defect of the definition that  *)
(* follows it.  The specification uses none of them: they show that the    *)
(* properties of SUTProperties tell a wrong library from the real one.     *)
(***************************************************************************)
EXTENDS Naturals, Sequences

CONSTANTS
  Tasks,          \* identifiers for the tasks the program may create
  NoTask,         \* the NULL of task pointers
  MaxOps,         \* bound: library calls a task makes before it must end
  NetworkMayFail, \* may connect() fail, or the server drop a connection?
  LateCreate      \* does main create tasks only once C-EXEC is set up?

ASSUME NoTaskAssumption == NoTask \notin Tasks
ASSUME MaxOpsAssumption == MaxOps \in Nat
ASSUME FlagsAssumption == NetworkMayFail \in BOOLEAN /\ LateCreate \in BOOLEAN

VARIABLES
  cQueue,         \* ready queue
  waitQueue,      \* wait queue
  toIthread,      \* requests for I-EXEC
  fromIthread,    \* data read, on its way back to the tasks (its owner)
  template,       \* has C-EXEC filled the ucontext template?
  next,           \* the task C-EXEC popped last
  cPc,            \* where C-EXEC is
  nextIo,         \* the request I-EXEC popped last
  iPc,            \* where I-EXEC is
  mainPc,         \* where main is
  shutdownFlag,   \* shutdown_flag
  shutdownCFlag,  \* shutdown_c_flag
  host,           \* the global host: whose destination it holds
  port,           \* the global port: whose destination it belongs to
  target,         \* I-EXEC's server_address: the host and the port it has read
  sock,           \* what the global sockfd refers to
  stage,          \* life cycle of a task
  reading,        \* is the task inside sut_read?
  saved,          \* does the task's ucontext hold a context to resume?
  ops,            \* library calls a task has made
  fault           \* how the process died, if it did

queues  == <<cQueue, waitQueue, toIthread, fromIthread>>
flags   == <<shutdownFlag, shutdownCFlag>>
net     == <<host, port, target, sock>>
taskVars == <<stage, reading, saved, ops>>
vars == <<cQueue, waitQueue, toIthread, fromIthread, template, next, cPc,
          nextIo, iPc, mainPc, shutdownFlag, shutdownCFlag, host, port, target,
          sock, stage, reading, saved, ops, fault>>
-----------------------------------------------------------------------------
(* A request (struct iomessage).  open and read block their task, write    *)
(* and close do not.                                                       *)
Commands == {"open", "write", "read", "close"}
Request  == [command : Commands, task : Tasks]
NoRequest == [command |-> "none", task |-> NoTask]
Req(c, t) == [command |-> c, task |-> t]
Blocking(r) == r.command \in {"open", "read"}

(* What sockfd can refer to: no socket (the initial 0, the -1 of a failed  *)
(* socket(), a closed descriptor), a connection, a socket that failed to   *)
(* connect.                                                                *)
SocketStates == {"invalid", "connected", "failed"}

(* A destination is named by the task that asks for it and the number of   *)
(* its call.  Torn is any mix of two, as host holds while strcpy fills it. *)
Destinations   == [task : Tasks \cup {NoTask}, call : Nat]
Destination(t) == [task |-> t, call |-> ops[t]]
Nowhere        == [task |-> NoTask, call |-> 0]
Torn           == [task |-> NoTask, call |-> 1]
NoTarget       == [host |-> Nowhere, port |-> Nowhere]

(* The steps of a task in sut_open, and of I-EXEC as it serves it.         *)
Opening    == {"copying", "copied", "opening"}
Connecting == {"connect", "readPort", "connecting"}

CLocations == {"getcontext", "pop", "empty", "check", "last",
               "task", "swap", "readback", "done"} \cup Opening
ILocations == {"pop", "empty", "wake", "send", "recv", "deliver",
               "shut", "done"} \cup Connecting
MainLocations == {"create", "joinC", "joinI", "returned"}
Faults == {"none", "badContext", "nullWaiter", "nullData", "sigpipe"}

Init ==
  /\ cQueue = <<>> /\ waitQueue = <<>>
  /\ toIthread = <<>> /\ fromIthread = <<>>
  /\ template = FALSE
  /\ next = NoTask /\ cPc = "getcontext"
  /\ nextIo = NoRequest /\ iPc = "pop"
  /\ mainPc = "create"
  /\ shutdownFlag = FALSE /\ shutdownCFlag = FALSE
  /\ host = Nowhere /\ port = Nowhere /\ target = NoTarget
  /\ sock = "invalid"
  /\ stage = [t \in Tasks |-> "unborn"]
  /\ reading = [t \in Tasks |-> FALSE]
  /\ saved = [t \in Tasks |-> FALSE]
  /\ ops = [t \in Tasks |-> 0]
  /\ fault = "none"
-----------------------------------------------------------------------------
(* sut_create: copy the template, make a context for the task's function   *)
(* and put it at the tail of the ready queue.  The context is sound only   *)
(* if C-EXEC has filled the template by then.                              *)
Create(t) ==
  /\ stage[t] = "unborn"
  /\ stage' = [stage EXCEPT ![t] = "live"]
  /\ saved' = [saved EXCEPT ![t] = template]
  /\ cQueue' = Append(cQueue, t)

MainCreate(t) ==
  /\ mainPc = "create"
  /\ LateCreate => template
  /\ Create(t)
  /\ UNCHANGED <<waitQueue, toIthread, fromIthread, template, next, cPc,
                 nextIo, iPc, mainPc, flags, net, reading, ops, fault>>

(* sut_shutdown: raise the flag, join C-EXEC, join I-EXEC, return.         *)
MainShutdown ==
  /\ mainPc = "create"
  /\ shutdownFlag' = TRUE
  /\ mainPc' = "joinC"
  /\ UNCHANGED <<queues, template, next, cPc, nextIo, iPc, shutdownCFlag,
                 net, taskVars, fault>>

MainJoin(location, exited, to) ==
  /\ mainPc = location /\ exited
  /\ mainPc' = to
  /\ UNCHANGED <<queues, template, next, cPc, nextIo, iPc, flags, net,
                 taskVars, fault>>

MainJoinC == MainJoin("joinC", cPc = "done", "joinI")
MainJoinI == MainJoin("joinI", iPc = "done", "returned")
-----------------------------------------------------------------------------
(* C-EXEC outside the tasks.                                               *)
CGetContext ==
  /\ cPc = "getcontext"
  /\ template' = TRUE
  /\ cPc' = "pop"
  /\ UNCHANGED <<queues, next, nextIo, iPc, mainPc, flags, net, taskVars,
                 fault>>

(* Pop the ready queue and swap to the task; a context that was never      *)
(* filled takes the process down.                                          *)
CPopTask ==
  /\ cPc = "pop" /\ cQueue # <<>>
  /\ next' = Head(cQueue)
  /\ cQueue' = Tail(cQueue)
  /\ IF saved[Head(cQueue)]
       THEN /\ cPc' = IF reading[Head(cQueue)] THEN "readback" ELSE "task"
            /\ saved' = [saved EXCEPT ![Head(cQueue)] = FALSE]
            /\ fault' = fault
       ELSE /\ fault' = "badContext"
            /\ UNCHANGED <<cPc, saved>>
  /\ UNCHANGED <<waitQueue, toIthread, fromIthread, template, nextIo, iPc,
                 mainPc, flags, net, stage, reading, ops>>

(* CPopNothing: swap to the NULL that an empty queue yields.               *)
Bug_NoNullCheck ==
  /\ cPc = "pop" /\ cQueue = <<>>
  /\ next' = NoTask
  /\ cPc' = "task"
  /\ UNCHANGED <<queues, template, nextIo, iPc, mainPc, flags, net, taskVars,
                 fault>>

CPopNothing ==
  /\ cPc = "pop" /\ cQueue = <<>>
  /\ next' = NoTask
  /\ cPc' = "empty"
  /\ UNCHANGED <<queues, template, nextIo, iPc, mainPc, flags, net, taskVars,
                 fault>>

(* CReadFlag: leave without looking at shutdown_flag.                      *)
Bug_IgnoresShutdownFlag ==
  /\ cPc = "empty"
  /\ cPc' = "check"
  /\ UNCHANGED <<queues, template, next, nextIo, iPc, mainPc, flags, net,
                 taskVars, fault>>

(* CCheckQueues: forget the wait queue.                                    *)
Bug_ForgetsWaiters ==
  /\ cPc = "check"
  /\ cPc' = IF cQueue = <<>> THEN "last" ELSE "pop"
  /\ UNCHANGED <<queues, template, next, nextIo, iPc, mainPc, flags, net,
                 taskVars, fault>>

(* CExit: leave without raising shutdown_c_flag.                           *)
Bug_NoCFlag ==
  /\ cPc = "last"
  /\ cPc' = "done"
  /\ UNCHANGED <<queues, template, next, nextIo, iPc, mainPc, flags, net,
                 taskVars, fault>>

(* Nothing ready: read shutdown_flag without the lock, then look at both   *)
(* queues under it, and leave only if both are empty.                      *)
CReadFlag ==
  /\ cPc = "empty"
  /\ cPc' = IF shutdownFlag THEN "check" ELSE "pop"
  /\ UNCHANGED <<queues, template, next, nextIo, iPc, mainPc, flags, net,
                 taskVars, fault>>

CCheckQueues ==
  /\ cPc = "check"
  /\ cPc' = IF cQueue = <<>> /\ waitQueue = <<>> THEN "last" ELSE "pop"
  /\ UNCHANGED <<queues, template, next, nextIo, iPc, mainPc, flags, net,
                 taskVars, fault>>

CExit ==
  /\ cPc = "last"
  /\ shutdownCFlag' = TRUE
  /\ cPc' = "done"
  /\ UNCHANGED <<queues, template, next, nextIo, iPc, mainPc, shutdownFlag,
                 net, taskVars, fault>>

CExec == CGetContext \/ CPopTask \/ CPopNothing \/ CReadFlag
           \/ CCheckQueues \/ CExit
-----------------------------------------------------------------------------
(* The running task's calls into the library.                              *)
Running(location) == cPc = location
Calls == /\ ops[next] < MaxOps
         /\ ops' = [ops EXCEPT ![next] = @ + 1]

TaskCreate(t) ==
  /\ Running("task") /\ Calls
  /\ Create(t)
  /\ UNCHANGED <<waitQueue, toIthread, fromIthread, template, next, cPc,
                 nextIo, iPc, mainPc, flags, net, reading, fault>>

(* sut_yield: queue the new ucontext first, save the context into it       *)
(* afterwards (TaskSwapOut).                                               *)
TaskYield ==
  /\ Running("task") /\ Calls
  /\ cQueue' = Append(cQueue, next)
  /\ cPc' = "swap"
  /\ UNCHANGED <<waitQueue, toIthread, fromIthread, template, next, nextIo,
                 iPc, mainPc, flags, net, stage, reading, saved, fault>>

(* sut_open stores the destination in the globals before it takes the      *)
(* lock.  Its strcpy overwrites host byte by byte ...                      *)
TaskOpen ==
  /\ Running("task") /\ Calls
  /\ host' = Torn
  /\ cPc' = "copying"
  /\ UNCHANGED <<queues, template, next, nextIo, iPc, mainPc, flags, port,
                 target, sock, stage, reading, saved, fault>>

(* ... until it is complete; the port is a store of its own ...            *)
TaskCopied ==
  /\ Running("copying")
  /\ host' = Destination(next)
  /\ cPc' = "copied"
  /\ UNCHANGED <<queues, template, next, nextIo, iPc, mainPc, flags, port,
                 target, sock, taskVars, fault>>

(* TaskPort: keep a port that is already there.                            *)
Bug_KeepsPort ==
  /\ Running("copied")
  /\ port' = IF port = Nowhere THEN Destination(next) ELSE port
  /\ cPc' = "opening"
  /\ UNCHANGED <<queues, template, next, nextIo, iPc, mainPc, flags, host,
                 target, sock, taskVars, fault>>

TaskPort ==
  /\ Running("copied")
  /\ port' = Destination(next)
  /\ cPc' = "opening"
  /\ UNCHANGED <<queues, template, next, nextIo, iPc, mainPc, flags, host,
                 target, sock, taskVars, fault>>

(* ... then queues the request and itself in one critical section.         *)
TaskOpenPush ==
  /\ Running("opening")
  /\ toIthread' = Append(toIthread, Req("open", next))
  /\ waitQueue' = Append(waitQueue, next)
  /\ cPc' = "swap"
  /\ UNCHANGED <<cQueue, fromIthread, template, next, nextIo, iPc, mainPc,
                 flags, net, taskVars, fault>>

(* TaskRead: insert at the head of the wait queue.                         *)
Bug_WaitsAtHead ==
  /\ Running("task") /\ Calls
  /\ toIthread' = Append(toIthread, Req("read", next))
  /\ waitQueue' = <<next>> \o waitQueue
  /\ reading' = [reading EXCEPT ![next] = TRUE]
  /\ cPc' = "swap"
  /\ UNCHANGED <<cQueue, fromIthread, template, next, nextIo, iPc, mainPc,
                 flags, net, stage, saved, fault>>

(* sut_read up to its swapcontext.                                         *)
TaskRead ==
  /\ Running("task") /\ Calls
  /\ toIthread' = Append(toIthread, Req("read", next))
  /\ waitQueue' = Append(waitQueue, next)
  /\ reading' = [reading EXCEPT ![next] = TRUE]
  /\ cPc' = "swap"
  /\ UNCHANGED <<cQueue, fromIthread, template, next, nextIo, iPc, mainPc,
                 flags, net, stage, saved, fault>>

(* TaskSwapOut: setcontext(&parent) in place of swapcontext.               *)
Bug_ContextNotSaved ==
  /\ Running("swap")
  /\ cPc' = "pop"
  /\ UNCHANGED <<queues, template, next, nextIo, iPc, mainPc, flags, net,
                 taskVars, fault>>

(* swapcontext(cur_task, &parent): the context is saved, C-EXEC goes on.   *)
TaskSwapOut ==
  /\ Running("swap")
  /\ saved' = [saved EXCEPT ![next] = TRUE]
  /\ cPc' = "pop"
  /\ UNCHANGED <<queues, template, next, nextIo, iPc, mainPc, flags, net,
                 stage, reading, ops, fault>>

(* The rest of sut_read, once the task runs again: take the data that is   *)
(* at the head of from_ithread, whosever it is.                            *)
TaskReadBack ==
  /\ Running("readback")
  /\ IF fromIthread # <<>>
       THEN /\ fromIthread' = Tail(fromIthread)
            /\ reading' = [reading EXCEPT ![next] = FALSE]
            /\ cPc' = "task"
            /\ fault' = fault
       ELSE /\ fault' = "nullData"
            /\ UNCHANGED <<fromIthread, reading, cPc>>
  /\ UNCHANGED <<cQueue, waitQueue, toIthread, template, next, nextIo, iPc,
                 mainPc, flags, net, stage, saved, ops>>

(* sut_write and sut_close leave a request behind and go on.               *)
TaskPost(command) ==
  /\ Running("task") /\ Calls
  /\ toIthread' = Append(toIthread, Req(command, next))
  /\ UNCHANGED <<cQueue, waitQueue, fromIthread, template, next, cPc, nextIo,
                 iPc, mainPc, flags, net, stage, reading, saved, fault>>

TaskWrite == TaskPost("write")
TaskClose == TaskPost("close")

(* sut_exit, or the return of the task's function (uc_link = &parent).     *)
TaskExit ==
  /\ Running("task")
  /\ stage' = [stage EXCEPT ![next] = "finished"]
  /\ cPc' = "pop"
  /\ UNCHANGED <<queues, template, next, nextIo, iPc, mainPc, flags, net,
                 reading, saved, ops, fault>>

TaskStep == \/ \E t \in Tasks : TaskCreate(t)
            \/ TaskYield \/ TaskOpen \/ TaskCopied \/ TaskPort
            \/ TaskOpenPush \/ TaskRead \/ TaskSwapOut \/ TaskReadBack
            \/ TaskWrite \/ TaskClose \/ TaskExit
-----------------------------------------------------------------------------
(* I-EXEC.                                                                 *)

(* Handler: a write requeues a waiter, as open and read do.                *)
Bug_WriteWakes(command) == CASE command = "open"  -> "connect"
                             [] command = "write" -> "wake"
                             [] command = "read"  -> "recv"
                             [] command = "close" -> "shut"

(* The branch that serves a command.                                       *)
Handler(command) == CASE command = "open"  -> "connect"
                      [] command = "write" -> "send"
                      [] command = "read"  -> "recv"
                      [] command = "close" -> "shut"

IPopRequest ==
  /\ iPc = "pop" /\ toIthread # <<>>
  /\ nextIo' = Head(toIthread)
  /\ toIthread' = Tail(toIthread)
  /\ iPc' = Handler(Head(toIthread).command)
  /\ UNCHANGED <<cQueue, waitQueue, fromIthread, template, next, cPc, mainPc,
                 flags, net, taskVars, fault>>

IPopNothing ==
  /\ iPc = "pop" /\ toIthread = <<>>
  /\ nextIo' = NoRequest
  /\ iPc' = "empty"
  /\ UNCHANGED <<queues, template, next, cPc, mainPc, flags, net, taskVars,
                 fault>>

(* IReadFlags: forget shutdown_c_flag.                                     *)
Bug_ForgetsCFlag ==
  /\ iPc = "empty"
  /\ iPc' = IF shutdownFlag THEN "done" ELSE "pop"
  /\ UNCHANGED <<queues, template, next, cPc, nextIo, mainPc, flags, net,
                 taskVars, fault>>

(* The flags are read some time after the queue was found empty.           *)
IReadFlags ==
  /\ iPc = "empty"
  /\ iPc' = IF shutdownFlag /\ shutdownCFlag THEN "done" ELSE "pop"
  /\ UNCHANGED <<queues, template, next, cPc, nextIo, mainPc, flags, net,
                 taskVars, fault>>

(* connection_initialize reads the two globals without the lock, one after *)
(* the other ...                                                           *)
IReadHost ==
  /\ iPc = "connect"
  /\ target' = [host |-> host, port |-> Nowhere]
  /\ iPc' = "readPort"
  /\ UNCHANGED <<queues, template, next, cPc, nextIo, mainPc, flags, host,
                 port, sock, taskVars, fault>>

IReadPort ==
  /\ iPc = "readPort"
  /\ target' = [host |-> target.host, port |-> port]
  /\ iPc' = "connecting"
  /\ UNCHANGED <<queues, template, next, cPc, nextIo, mainPc, flags, host,
                 port, sock, taskVars, fault>>

(* ... and connects a new socket to what it has read.  That socket() or    *)
(* connect() failed is reported on stderr and otherwise ignored.           *)
ConnectOutcomes ==
  {"connected"} \cup IF NetworkMayFail \/ target.host # target.port
                       THEN {"failed", "invalid"} ELSE {}

IConnect ==
  /\ iPc = "connecting"
  /\ sock' \in ConnectOutcomes
  /\ target' = NoTarget
  /\ iPc' = "wake"
  /\ UNCHANGED <<queues, template, next, cPc, nextIo, mainPc, flags, host,
                 port, taskVars, fault>>

(* WakeHead: peek where the code pops, or run the waiter first.            *)
Bug_PeeksWaiter ==
  /\ waitQueue # <<>>
  /\ cQueue' = Append(cQueue, Head(waitQueue))
  /\ UNCHANGED <<waitQueue, fault>>

Bug_WaiterJumpsQueue ==
  /\ waitQueue # <<>>
  /\ cQueue' = <<Head(waitQueue)>> \o cQueue
  /\ waitQueue' = Tail(waitQueue)
  /\ UNCHANGED fault

(* Move whichever task heads the wait queue back to the ready queue;       *)
(* queue_insert_tail dereferences the NULL that an empty queue yields.     *)
WakeHead ==
  IF waitQueue # <<>>
    THEN /\ cQueue' = Append(cQueue, Head(waitQueue))
         /\ waitQueue' = Tail(waitQueue)
         /\ fault' = fault
    ELSE /\ fault' = "nullWaiter"
         /\ UNCHANGED <<cQueue, waitQueue>>

(* IWake: go on to the next request without requeueing the waiter.         *)
Bug_NoWake ==
  /\ iPc = "wake"
  /\ iPc' = "pop"
  /\ UNCHANGED <<queues, template, next, cPc, nextIo, mainPc, flags, net,
                 taskVars, fault>>

IWake ==
  /\ iPc = "wake"
  /\ WakeHead
  /\ iPc' = "pop"
  /\ UNCHANGED <<toIthread, fromIthread, template, next, cPc, nextIo, mainPc,
                 flags, net, taskVars>>

(* recv: blocks while connected, until the server sends or closes; on any  *)
(* other descriptor it fails and the loop calls it again for ever.         *)
IRecv ==
  /\ iPc = "recv"
  /\ sock = "connected"
  /\ iPc' = "deliver"
  /\ UNCHANGED <<queues, template, next, cPc, nextIo, mainPc, flags, net,
                 taskVars, fault>>

(* IDeliver: insert the data at the head.                                  *)
Bug_DataAtHead ==
  /\ iPc = "deliver"
  /\ fromIthread' = <<nextIo.task>> \o fromIthread
  /\ WakeHead
  /\ iPc' = "pop"
  /\ UNCHANGED <<toIthread, template, next, cPc, nextIo, mainPc, flags, net,
                 taskVars>>

IDeliver ==
  /\ iPc = "deliver"
  /\ fromIthread' = Append(fromIthread, nextIo.task)
  /\ WakeHead
  /\ iPc' = "pop"
  /\ UNCHANGED <<toIthread, template, next, cPc, nextIo, mainPc, flags, net,
                 taskVars>>

(* send: its result is ignored, but on a socket that never connected, or   *)
(* whose peer is gone, it raises SIGPIPE, which nothing catches.           *)
ISend ==
  /\ iPc = "send"
  /\ \/ sock # "failed" /\ fault' = fault
     \/ /\ sock = "failed" \/ (sock = "connected" /\ NetworkMayFail)
        /\ fault' = "sigpipe"
  /\ iPc' = "pop"
  /\ UNCHANGED <<queues, template, next, cPc, nextIo, mainPc, flags, net,
                 taskVars>>

(* connection_shutdown.                                                    *)
IShut ==
  /\ iPc = "shut"
  /\ sock' = "invalid"
  /\ iPc' = "pop"
  /\ UNCHANGED <<queues, template, next, cPc, nextIo, mainPc, flags, host,
                 port, target, taskVars, fault>>

IExec == IPopRequest \/ IPopNothing \/ IReadFlags \/ IReadHost \/ IReadPort
           \/ IConnect \/ IWake \/ IRecv \/ IDeliver \/ ISend \/ IShut
-----------------------------------------------------------------------------
Alive == fault = "none"
MainCreates == \E t \in Tasks : MainCreate(t)
MainStep == MainShutdown \/ MainJoinC \/ MainJoinI

(* The process has returned from sut_shutdown or has died.                 *)
Stopped == (mainPc = "returned" \/ ~Alive) /\ UNCHANGED vars

Next == \/ Alive /\ MainCreates
        \/ Alive /\ MainStep
        \/ Alive /\ CExec
        \/ Alive /\ TaskStep
        \/ Alive /\ IExec
        \/ Stopped

Spec == Init /\ [][Next]_vars

(* The kernel schedules each of the three threads; main is under no        *)
(* obligation to create a task or to shut down, but its joins return.      *)
Fairness ==
  /\ WF_vars(Alive /\ (CExec \/ TaskStep))
  /\ WF_vars(Alive /\ IExec)
  /\ WF_vars(Alive /\ (MainJoinC \/ MainJoinI))

FairSpec == Spec /\ Fairness
=============================================================================
