---------------------------- MODULE SUTInvariant ----------------------------
(***************************************************************************)
(* The inductive invariant behind the safety properties of SUTProperties,  *)
(* and the mapping under which SUT implements TaskService.                 *)
(***************************************************************************)
EXTENDS SUTProperties

(***************************************************************************)
(* Two queues that are served in step: the entries I of F ask on behalf of *)
(* the tasks F[i], and those tasks stand in G in the same order.  While    *)
(* busy holds, one more request has been taken off F, that of the task who *)
(* at the head of G.                                                       *)
(***************************************************************************)
Paired(F, I, G, busy, who) ==
  /\ \A i \in I : \E k \in DOMAIN G : G[k] = F[i]
  /\ \A k \in DOMAIN G : (\E i \in I : F[i] = G[k]) \/ (busy /\ k = 1)
  /\ \A i, j \in I : \A k, l \in DOMAIN G :
        F[i] = G[k] /\ F[j] = G[l] => (i < j <=> k < l)
  /\ busy => /\ G # <<>> /\ G[1] = who
             /\ \A i \in I : F[i] # who

Owners(q) == [i \in DOMAIN q |-> q[i].task]
BlockingIn(q) == {i \in DOMAIN q : Blocking(q[i])}
ReadersIn(q) == {k \in DOMAIN q : reading[q[k]]}

IServesBlocking == iPc \in {"wake", "recv", "deliver"} \cup Connecting

(* Requests that block and the tasks in the wait queue.                    *)
WaitersPaired == Paired(Owners(toIthread), BlockingIn(toIthread), waitQueue,
                        IServesBlocking, nextIo.task)

(* Ready tasks inside sut_read and the answers in from_ithread.            *)
AnswersPaired == Paired(cQueue, ReadersIn(cQueue), fromIthread,
                        cPc = "readback", next)

(* A task is inside sut_read just when its request says so.                *)
ReadingAgrees ==
  /\ \A i \in BlockingIn(toIthread) :
        reading[toIthread[i].task] <=> toIthread[i].command = "read"
  /\ iPc \in {"wake"} \cup Connecting => ~reading[nextIo.task]
  /\ iPc \in {"recv", "deliver"} => reading[nextIo.task]
  /\ cPc \in {"task"} \cup Opening => ~reading[next]
  /\ cPc = "readback" => reading[next]
  /\ \A t \in Tasks : reading[t] => stage[t] = "live"

(* Whatever is queued can be resumed, save the task that is just leaving.  *)
SavedUnlessLeaving ==
  /\ cPc # "getcontext" => template
  /\ LateCreate =>
       /\ \A t \in Tasks : stage[t] = "live" => template
       /\ \A t \in Tasks : In(t, cQueue) \/ In(t, waitQueue) =>
                              saved[t] \/ (cPc = "swap" /\ next = t)

ShutdownOrder ==
  /\ mainPc = "create" <=> ~shutdownFlag
  /\ cPc = "check" => shutdownFlag
  /\ cPc \in {"last", "done"} =>
        shutdownFlag /\ cQueue = <<>> /\ waitQueue = <<>>
  /\ shutdownCFlag => cPc = "done"
  /\ iPc = "done" => shutdownCFlag

(* A task is queued before it leaves the processor.                        *)
QueuedBeforeLeaving ==
  cPc = "swap" => In(next, cQueue) \/ In(next, waitQueue)

Core ==
  /\ EachTaskInOnePlace
  /\ QueuedBeforeLeaving
  /\ WaitersPaired /\ AnswersPaired /\ ReadingAgrees
  /\ SavedUnlessLeaving
  /\ ShutdownOrder

(* Whose destination the globals hold: that of the newest sut_open that    *)
(* I-EXEC has not served, except while a task is storing another.          *)
Newest(i) == \A j \in Opens : j <= i

OfNewest(destination) ==
  IF Opens = {}
    THEN iPc \in Connecting => destination = Destination(nextIo.task)
    ELSE \E i \in Opens : /\ Newest(i)
                          /\ destination = Destination(toIthread[i].task)

StoredIsNewest ==
  /\ cPc = "copying" => host = Torn
  /\ cPc \in {"copied", "opening"} => host = Destination(next)
  /\ cPc \notin Opening => OfNewest(host)
  /\ cPc = "opening" => port = Destination(next)
  /\ cPc # "opening" => OfNewest(port)

(* What I-EXEC has read of it.                                             *)
ReadIsNotOlder ==
  /\ iPc \in {"readPort", "connecting"} =>
        target.host \in NotOlder \cup (IF Later = {} THEN {} ELSE {Torn})
  /\ iPc = "connecting" => target.port \in NotOlder

IInv ==
  /\ TypeOK
  /\ StoredIsNewest /\ ReadIsNotOlder
  /\ Alive => Core
  /\ NoNullDereference
  /\ LateCreate => NoSwitchToUnsaved
-----------------------------------------------------------------------------
(* What each task is doing, seen from outside the library.                 *)
Phase(t) ==
  IF stage[t] # "live"        THEN stage[t]
  ELSE IF OnProcessor(t)      THEN "running"
  ELSE IF ~In(t, waitQueue)   THEN "ready"
  ELSE IF iPc \in {"wake", "deliver"} /\ nextIo.task = t
                              THEN "served"
                              ELSE "blocked"

Service == INSTANCE TaskService
             WITH phase   <- [t \in Tasks |-> Phase(t)],
                  ready   <- cQueue,
                  answers <- {fromIthread[i] : i \in DOMAIN fromIthread}

(* The library keeps the promises of TaskService: its queues and messages  *)
(* never serve one task with another's I/O and never reorder ready tasks.  *)
ImplementsTaskService == Service!Spec
=============================================================================
