--------------------------- MODULE SUTProperties ---------------------------
(***************************************************************************)
(* What the user-level thread library of module SUT must satisfy.          *)
(***************************************************************************)
EXTENDS SUT, Queues

(* Every variable holds values of its declared kind (sut.c:22-52).         *)
TypeOK ==
  /\ cQueue \in Seq(Tasks) /\ waitQueue \in Seq(Tasks)
  /\ toIthread \in Seq(Request) /\ fromIthread \in Seq(Tasks)
  /\ template \in BOOLEAN
  /\ next \in Tasks \cup {NoTask} /\ cPc \in CLocations
  /\ cPc \in {"task", "swap", "readback"} \cup Opening => next \in Tasks
  /\ nextIo \in Request \cup {NoRequest} /\ iPc \in ILocations
  /\ iPc \in {"wake", "send", "recv", "deliver", "shut"} \cup Connecting
        => nextIo \in Request
  /\ mainPc \in MainLocations
  /\ shutdownFlag \in BOOLEAN /\ shutdownCFlag \in BOOLEAN
  /\ host \in Destinations /\ port \in Destinations
  /\ target \in [host : Destinations, port : Destinations]
  /\ sock \in SocketStates
  /\ stage \in [Tasks -> {"unborn", "live", "finished"}]
  /\ reading \in [Tasks -> BOOLEAN]
  /\ saved \in [Tasks -> BOOLEAN]
  /\ ops \in [Tasks -> 0 .. MaxOps]
  /\ fault \in Faults
-----------------------------------------------------------------------------
(* The task whose code C-EXEC executes.  At "swap" it is already queued.   *)
OnProcessor(t) == cPc \in {"task", "readback"} \cup Opening /\ next = t

(* No task is lost and none is queued twice: a live task is in exactly one *)
(* of the ready queue, the wait queue and the processor, although C-EXEC   *)
(* and I-EXEC both move tasks around (sut.c:61, 97, 111, 161, 176, 198,    *)
(* 213).                                                                   *)
EachTaskInOnePlace ==
  Alive =>
    /\ Distinct(cQueue) /\ Distinct(waitQueue)
    /\ \A t \in Tasks :
         /\ stage[t] = "live"
              <=> In(t, cQueue) \/ In(t, waitQueue) \/ OnProcessor(t)
         /\ ~(In(t, cQueue) /\ In(t, waitQueue))
         /\ OnProcessor(t) => ~In(t, cQueue) /\ ~In(t, waitQueue)

(* C-EXEC never swaps to a context nobody has filled, although yield, open *)
(* and read queue the new ucontext before swapcontext fills it and I-EXEC  *)
(* may requeue it in between (sut.c:64, 176-178, 198-201, 213-215).        *)
NoSwitchToUnsaved == fault # "badContext"

(* Neither a waiter nor data is missing when the code takes it off a queue *)
(* and dereferences it unchecked (sut.c:97, 111, 219-222).                 *)
NoNullDereference == fault \notin {"nullWaiter", "nullData"}

(* When I-EXEC is about to requeue the head of the wait queue on behalf of *)
(* an open or a read, that head exists and is the task that asked: the     *)
(* request does not say whom to wake, the queues' orders do (sut.c:97,     *)
(* 111).                                                                   *)
WakesTheRequester ==
  Alive /\ iPc \in {"wake", "recv", "deliver"} \cup Connecting =>
    waitQueue # <<>> /\ Head(waitQueue) = nextIo.task

(* When a task resumes in sut_read the data at the head of from_ithread    *)
(* exists and is the answer to its own request (sut.c:219-222).            *)
ReadsOwnData ==
  Alive /\ cPc = "readback" =>
    fromIthread # <<>> /\ Head(fromIthread) = next

(* C-EXEC leaves only when every task that was created has finished: a     *)
(* task in flight between the queues is never overlooked (sut.c:66-75).    *)
NoTaskLeftBehind ==
  Alive /\ cPc \in {"last", "done"} => \A t \in Tasks : stage[t] # "live"

(* When I-EXEC leaves nobody waits for it, no open or read is unserved and *)
(* no answer is unclaimed (sut.c:119-121).                                 *)
NobodyWaitsAtIExit ==
  Alive /\ iPc = "done" =>
    /\ waitQueue = <<>> /\ fromIthread = <<>>
    /\ \A i \in DOMAIN toIthread : ~Blocking(toIthread[i])

(* The destination is not in the request but in two globals that are       *)
(* written and read without the lock.  I-EXEC may connect to the host of   *)
(* one sut_open and the port of another, or to a half-written host, but    *)
(* each part belongs to the call it serves or to one made after that,      *)
(* never to an older one; and if no other task has entered sut_open since, *)
(* the destination is the one its request asked for (sut.c:188-189,        *)
(* 261-263).                                                               *)
Opens == {i \in DOMAIN toIthread : toIthread[i].command = "open"}
Later == {toIthread[i].task : i \in Opens}
           \cup IF cPc \in Opening THEN {next} ELSE {}
NotOlder == {Destination(t) : t \in Later \cup {nextIo.task}}

ConnectsToNoOlder ==
  iPc = "connecting" =>
    /\ target.host \in NotOlder \cup (IF Later = {} THEN {} ELSE {Torn})
    /\ target.port \in NotOlder
-----------------------------------------------------------------------------
(* I-EXEC calls recv for ever on a descriptor that is not connected.       *)
RecvSpins == iPc = "recv" /\ sock # "connected"

(* A task once created finishes, unless the process dies or I-EXEC spins   *)
(* on a dead socket: nothing else can hold it up (sut.c:56-82, 88-126).    *)
EveryTaskFinishes ==
  \A t \in Tasks :
    stage[t] = "live" ~> stage[t] = "finished" \/ ~Alive \/ RecvSpins

(* sut_shutdown returns, under the same two exceptions (sut.c:166-170).    *)
ShutdownReturns ==
  shutdownFlag ~> mainPc = "returned" \/ ~Alive \/ RecvSpins
-----------------------------------------------------------------------------
(* What the comments of the code say and the code does not do.             *)

(* "send message to destination" (sut.c:98): a write or a close posted     *)
(* before C-EXEC left is carried out before I-EXEC leaves.                 *)
NoRequestDropped == iPc = "done" => toIthread = <<>>
=============================================================================
