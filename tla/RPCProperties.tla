--------------------------- MODULE RPCProperties ---------------------------
(***************************************************************************)
(* What the remote procedure call service of module RPC must satisfy.      *)
(***************************************************************************)
EXTENDS RPC, Queues

Replies == {"none", "result", "long", "bye", "unavailable"}

(* Every variable holds values of its declared kind (backend.c:21-46,      *)
(* frontend.c:17-19).                                                      *)
TypeOK ==
  /\ pPc \in {"accept", "fork", "reap", "wait", "done"}
  /\ accepted \in Kids
  /\ childNum \in Nat /\ loopLeft \in Nat
  /\ quitFlag \in BOOLEAN /\ listening \in BOOLEAN
  /\ backlog \in Seq(Clients) /\ conns \in SUBSET Kids
  /\ kid \in [Kids -> {"none", "recv", "check", "send", "decide", "zombie",
                       "reaped"}]
  /\ command \in [Kids -> {"none", "call", "long", "exit", "quit"}]
  /\ reply \in [Kids -> Replies]
  /\ status \in [Kids -> {"none", "one", "four", "signal"}]
  /\ reset \in [Kids -> BOOLEAN]
  /\ stage \in [Clients -> {"away", "prompt", "awaiting", "stuck", "left",
                         "dead"}]
  /\ typed \in [Clients -> Lines \cup {"none"}]
  /\ calls \in [Clients -> 0 .. MaxCalls]
  /\ inbox \in [Clients -> Seq(Lines)]
  /\ outbox \in [Clients -> Seq(Replies \cup {"rest"})]
  /\ longSent \in [Clients -> BOOLEAN]
-----------------------------------------------------------------------------
(* child_num never falls below the number of children the parent still has *)
(* to wait for, whatever exit codes it saw, missed or could not read       *)
(* (backend.c:77-89, 94-98, 104).                                          *)
ChildrenCounted ==
  childNum >= Cardinality(Unreaped) + (IF pPc = "fork" THEN 1 ELSE 0)

(* The server ends only when no child is left, so that no client is cut    *)
(* off in the middle of a call (backend.c:94-99).                          *)
ParentExitsLast == pPc = "done" => Unreaped = {}

(* Replies carry no mark of the call they answer, yet as long as every     *)
(* answer was shorter than its buffer a frontend never takes one for the   *)
(* answer to another call: none is under way when it prompts, and one that *)
(* arrives answers the line it typed last.  After an answer of more than   *)
(* 50 bytes the rest of it is taken for the next one, and this is not      *)
(* promised any more (backend.c:61-67 and 221-223, frontend.c:33-35).      *)
RepliesInTurn ==
  \A c \in Clients : ~longSent[c] =>
    /\ stage[c] = "prompt" =>
         inbox[c] = <<>> /\ outbox[c] = <<>> /\ kid[c] \notin {"check", "send"}
    /\ stage[c] = "awaiting" /\ outbox[c] # <<>> =>
         Len(outbox[c]) = 1
           /\ Head(outbox[c]) \in {Answer(Command(typed[c])), "unavailable"}

(* A child leaves a client that is still there only because the first word *)
(* of its line said so, and then with a farewell, or because an answer     *)
(* that overran back_message killed it, or because the quit flag is up.    *)
(* The flag is read before the reply and again after it, so that it may go *)
(* up in between and nobody tell the client; without the flag that never   *)
(* happens (backend.c:62-74, 88-90 of a1_lib.c).                           *)
LeavesForCause ==
  \A c \in Clients : kid[c] \in {"zombie", "reaped"} /\ ~Gone(c) =>
    \/ quitFlag
    \/ command[c] \in {"exit", "quit"} /\ reply[c] = "bye"
    \/ command[c] = "long" /\ status[c] = "signal"
-----------------------------------------------------------------------------
(* A child that has quit by the time the parent takes a connection is      *)
(* noticed in the loop that follows, however many others ended meanwhile   *)
(* (backend.c:77-89).                                                      *)
QuitNoticedAtNextClient ==
  \A k \in Kids :
    pPc = "fork" /\ kid[k] = "zombie" /\ status[k] = "four" ~> quitFlag

(* A child waits for a user who does not type, or whose input has ended.   *)
Idles(c) == /\ kid[c] = "recv" /\ inbox[c] = <<>>
            /\ stage[c] \in {"prompt", "stuck"}

(* Once the flag is up the server ends, even if child_num is too high      *)
(* because children were killed, unless one and the same user is idle from *)
(* some time on: only that keeps a child, and so the server, waiting for   *)
(* ever.  Frontends that are interrupted do not, although the README warns *)
(* of them (backend.c:91-100, frontend.c:31-35, README.txt:9-11 of the     *)
(* service).                                                               *)
ServerStops == quitFlag ~> pPc = "done" \/ \E c \in Clients : []Idles(c)

(* No reply is on its way and nobody is there to make one: the fork for    *)
(* the connection failed, or the parent has no descriptor left to accept   *)
(* it, or its child has ended.                                             *)
Deserted(c) ==
  /\ outbox[c] = <<>>
  /\ \/ c \in conns /\ kid[c] = "none" /\ ~(pPc = "fork" /\ accepted = c)
     \/ c \notin conns /\ Cardinality(conns) >= FdLimit
     \/ kid[c] \in {"zombie", "reaped"}

(* A frontend that waits for a reply gets one unless it is deserted, and   *)
(* even then it learns that the server is gone once it has ended           *)
(* (frontend.c:33-42, backend.c:51-75 and 102).                            *)
EveryCallAnswered ==
  \A c \in Clients :
    /\ stage[c] = "awaiting" ~> stage[c] # "awaiting" \/ Deserted(c)
    /\ stage[c] = "awaiting" /\ pPc = "done" ~> stage[c] # "awaiting"
=============================================================================
