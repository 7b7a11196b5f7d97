---------------------------- MODULE TaskService ----------------------------
(***************************************************************************)
(* What the user-level thread library promises its tasks, with no mention  *)
(* of kernel threads, messages or locks (sut.h): one task runs at a time   *)
(* and keeps the processor until it gives it up; tasks that are ready run  *)
(* first come first served; a task that asks for blocking I/O becomes      *)
(* ready only after that I/O was done for it; and what a task collects     *)
(* from a read is the answer to its own read.                              *)
(***************************************************************************)
EXTENDS Sequences

CONSTANTS Tasks

VARIABLES
  phase,   \* what each task is doing
  ready,   \* the tasks that are ready, in the order they will run
  answers  \* the tasks whose answer has arrived and is not collected

Init ==
  /\ phase = [t \in Tasks |-> "unborn"]
  /\ ready = <<>>
  /\ answers = {}

Move(t, from, to) ==
  /\ phase[t] = from
  /\ phase' = [phase EXCEPT ![t] = to]

Spawn(t) ==
  /\ Move(t, "unborn", "ready")
  /\ ready' = Append(ready, t)
  /\ UNCHANGED answers

Dispatch(t) ==
  /\ \A u \in Tasks : phase[u] # "running"
  /\ ready # <<>> /\ Head(ready) = t
  /\ Move(t, "ready", "running")
  /\ ready' = Tail(ready)
  /\ UNCHANGED answers

Yield(t) ==
  /\ Move(t, "running", "ready")
  /\ ready' = Append(ready, t)
  /\ UNCHANGED answers

Ask(t) ==
  /\ Move(t, "running", "blocked")
  /\ UNCHANGED <<ready, answers>>

Serve(t) ==
  /\ Move(t, "blocked", "served")
  /\ UNCHANGED <<ready, answers>>

Resume(t) ==
  /\ Move(t, "served", "ready")
  /\ ready' = Append(ready, t)
  /\ \/ UNCHANGED answers
     \/ t \notin answers /\ answers' = answers \cup {t}

Collect(t) ==
  /\ phase[t] = "running" /\ t \in answers
  /\ answers' = answers \ {t}
  /\ UNCHANGED <<phase, ready>>

Finish(t) ==
  /\ Move(t, "running", "finished")
  /\ t \notin answers
  /\ UNCHANGED <<ready, answers>>

Next == \E t \in Tasks :
          \/ Spawn(t) \/ Dispatch(t) \/ Yield(t) \/ Ask(t)
          \/ Serve(t) \/ Resume(t) \/ Collect(t) \/ Finish(t)

vars == <<phase, ready, answers>>

Spec == Init /\ [][Next]_vars
=============================================================================
