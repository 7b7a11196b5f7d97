-------------------------------- MODULE RPC --------------------------------
(***************************************************************************)
(* The remote procedure call service ("Simple Remote Procedure Call        *)
(* Service"): backend.c, frontend.c and their socket helpers a1_lib.c.     *)
(*                                                                         *)
(* The parent accepts one connection at a time and forks a child to serve  *)
(* it; it learns what its children did only from their exit codes, which   *)
(* it collects without blocking after each new connection.  The quit flag  *)
(* is shared memory that the parent writes and the children read.  Clients *)
(* type a line, send it and take what one recv of at most a bufferful      *)
(* finds for the reply.  A longer answer leaves a rest for the next recv   *)
(* to begin with, and one of a bufferful or more has overrun the memory it *)
(* was made in.                                                            *)
(*                                                                         *)
(* A child is named after the client it serves.  Lines and replies are     *)
(* abstracted to what decides the control flow.  The parent never closes a *)
(* connection, and every child inherits those opened before it, so that    *)
(* the end of a child does not close its client's connection.              *)
(*                                                                         *)
(* An operator named Bug_... is a plausible defect of the definition that  *)
(* follows it; the specification uses none of them.                        *)
(***************************************************************************)
EXTENDS Naturals, Sequences, FiniteSets

CONSTANTS
  Clients,        \* frontends that may come
  Nobody,         \* the client of a child forked after a failed accept
  Typed,          \* the kinds of line that users type
  MaxCalls,       \* bound: lines a user types before leaving
  Backlog,        \* BACKLOG_SIZE
  FdLimit,        \* descriptors the parent can hold
  ForkMayFail,    \* may fork() fail?
  ClientsMayDie,  \* may a user interrupt the frontend?
  InputMayEnd     \* may a frontend's input end before exit or quit?

(* A line runs a procedure, or is exit or quit (or shutdown), alone or     *)
(* followed by more words, or begins with an unknown word so long that the *)
(* answer fills the frontend's buffer or exceeds it.                       *)
Lines == {"call", "long", "exit", "quit", "exit+", "quit+"}
Kids  == Clients \cup {Nobody}

ASSUME NobodyAssumption == Nobody \notin Clients
ASSUME ClientsAssumption == IsFiniteSet(Clients)
ASSUME TypedAssumption == Typed \subseteq Lines
ASSUME BoundsAssumption == MaxCalls \in Nat /\ Backlog \in Nat /\ FdLimit \in Nat
ASSUME MayAssumption ==
  {ForkMayFail, ClientsMayDie, InputMayEnd} \subseteq BOOLEAN

VARIABLES
  pPc,       \* where the parent is
  accepted,  \* whose connection client_fd is
  childNum,  \* child_num
  loopLeft,  \* iterations left of the loop over the children's returns
  quitFlag,  \* *quit_flag
  listening, \* has server_fd not been shut down?
  backlog,   \* connections not accepted yet
  conns,     \* the clients whose connections the parent holds (and Nobody
             \* if it was started with one descriptor less to give away)
  kid,       \* where each child is
  command,   \* the command a child executes
  reply,     \* the reply it made of it
  status,    \* how a child ended
  reset,     \* has the child written to a connection its client closed?
  stage,     \* where each client is
  typed,     \* the line it waits for an answer to
  calls,     \* how many lines it typed
  inbox,     \* lines on their way to the child
  outbox,    \* replies, and rests of replies, on their way to the client
  longSent   \* history: was a reply of a bufferful or more sent to it?

parentVars == <<pPc, accepted, childNum, loopLeft, quitFlag, listening,
                backlog, conns>>
kidVars    == <<kid, command, reply, status, reset>>
clientVars == <<stage, typed, calls>>
wires      == <<inbox, outbox, longSent>>
vars == <<pPc, accepted, childNum, loopLeft, quitFlag, listening, backlog,
          conns, kid, command, reply, status, reset, stage, typed, calls,
          inbox, outbox, longSent>>
-----------------------------------------------------------------------------
(* The server looks at the first word, the frontend at the whole line.     *)
Command(line) == IF line = "exit+" THEN "exit"
                 ELSE IF line = "quit+" THEN "quit" ELSE line
Leaves(line)  == line \in {"exit", "quit"}
Answer(cmd)   == IF cmd = "call" THEN "result"
                 ELSE IF cmd = "long" THEN "long" ELSE "bye"

Running  == {k \in Kids : kid[k] \in {"recv", "check", "send", "decide"}}
Zombies  == {k \in Kids : kid[k] = "zombie"}
Unreaped == Running \cup Zombies

(* A client is gone once its socket is closed; there is no client at all   *)
(* behind the descriptor -1 of a failed accept.                            *)
Gone(k) == k \in Clients => stage[k] \in {"left", "dead"}

(* The server's side of a connection is closed: it was never accepted and  *)
(* the listening socket is shut down, or every server process has ended.   *)
Lost(c) == \/ ~listening /\ c \notin conns
           \/ pPc = "done" /\ Running = {}

Init ==
  /\ pPc = "accept" /\ accepted = Nobody
  /\ childNum = 0 /\ loopLeft = 0 /\ quitFlag = FALSE
  /\ listening = TRUE /\ backlog = <<>> /\ conns \in {{}, {Nobody}}
  /\ kid = [k \in Kids |-> "none"]
  /\ command = [k \in Kids |-> "none"]
  /\ reply = [k \in Kids |-> "none"]
  /\ status = [k \in Kids |-> "none"]
  /\ reset = [k \in Kids |-> FALSE]
  /\ stage = [c \in Clients |-> "away"]
  /\ typed = [c \in Clients |-> "none"]
  /\ calls = [c \in Clients |-> 0]
  /\ inbox = [c \in Clients |-> <<>>]
  /\ outbox = [c \in Clients |-> <<>>]
  /\ longSent = [c \in Clients |-> FALSE]
-----------------------------------------------------------------------------
(* The parent waits for a connection.  Without a free descriptor accept    *)
(* fails at once; its result is ignored and child_num goes up all the      *)
(* same.  Bound: the model follows one child without a client.             *)
PAccept ==
  /\ pPc = "accept"
  /\ IF Cardinality(conns) < FdLimit
       THEN /\ backlog # <<>>
            /\ accepted' = Head(backlog)
            /\ backlog' = Tail(backlog)
            /\ conns' = conns \cup {Head(backlog)}
       ELSE /\ kid[Nobody] = "none"
            /\ accepted' = Nobody
            /\ UNCHANGED <<backlog, conns>>
  /\ childNum' = childNum + 1
  /\ pPc' = "fork"
  /\ UNCHANGED <<loopLeft, quitFlag, listening, kidVars, clientVars, wires>>

(* PFork: look at one return only.                                         *)
Bug_OneReturn ==
  /\ pPc = "fork"
  /\ kid' = [kid EXCEPT ![accepted] = "recv"]
  /\ loopLeft' = 1
  /\ pPc' = "reap"
  /\ UNCHANGED <<accepted, childNum, quitFlag, listening, backlog, conns,
                 command, reply, status, reset, clientVars, wires>>

(* A failed fork returns -1, which the code takes for a child's pid.       *)
(* (Bound: the fork after a failed accept succeeds.)                       *)
PFork ==
  /\ pPc = "fork"
  /\ \/ kid' = [kid EXCEPT ![accepted] = "recv"]
     \/ ForkMayFail /\ accepted \in Clients /\ kid' = kid
  /\ loopLeft' = childNum
  /\ pPc' = "reap"
  /\ UNCHANGED <<accepted, childNum, quitFlag, listening, backlog, conns,
                 command, reply, status, reset, clientVars, wires>>

Collect(k) == kid' = [kid EXCEPT ![k] = "reaped"]

(* PNoReturn: use the r_value of the last return once more.                *)
Bug_StaleReturn ==
  /\ pPc = "reap" /\ loopLeft > 0
  /\ Zombies = {}
  /\ childNum' = IF \E k \in Kids : kid[k] = "reaped" THEN childNum - 1
                                                      ELSE childNum
  /\ loopLeft' = loopLeft - 1
  /\ UNCHANGED <<pPc, accepted, quitFlag, listening, backlog, conns,
                 kidVars, clientVars, wires>>

(* waitpid(-1, &r_value, WNOHANG), once per child: nobody has returned.    *)
PNoReturn ==
  /\ pPc = "reap" /\ loopLeft > 0
  /\ Zombies = {}
  /\ loopLeft' = loopLeft - 1
  /\ UNCHANGED <<pPc, accepted, childNum, quitFlag, listening, backlog, conns,
                 kidVars, clientVars, wires>>

(* A child has returned.  Code 1 is an exit and code 4 a quit, which ends  *)
(* the loop; the code of a child that a signal killed reads as 0.          *)
PReturn(k) ==
  /\ pPc = "reap" /\ loopLeft > 0
  /\ kid[k] = "zombie" /\ Collect(k)
  /\ childNum' = IF status[k] = "signal" THEN childNum ELSE childNum - 1
  /\ quitFlag' = (quitFlag \/ status[k] = "four")
  /\ loopLeft' = IF status[k] = "four" THEN 0 ELSE loopLeft - 1
  /\ UNCHANGED <<pPc, accepted, listening, backlog, conns, command, reply,
                 status, reset, clientVars, wires>>

(* PTest: never stop accepting.                                            *)
Bug_KeepsAccepting ==
  /\ pPc = "reap" /\ loopLeft = 0
  /\ pPc' = "accept"
  /\ UNCHANGED <<accepted, childNum, loopLeft, quitFlag, listening, backlog,
                 conns, kidVars, clientVars, wires>>

(* After the loop: go back to accept, or shut the listening socket down,   *)
(* which resets the connections that were not accepted.                    *)
PTest ==
  /\ pPc = "reap" /\ loopLeft = 0
  /\ IF quitFlag
       THEN listening' = FALSE /\ backlog' = <<>> /\ pPc' = "wait"
       ELSE pPc' = "accept" /\ UNCHANGED <<listening, backlog>>
  /\ UNCHANGED <<accepted, childNum, loopLeft, quitFlag, conns, kidVars,
                 clientVars, wires>>

(* PWait: do not count a wait that found no child.                         *)
Bug_CountsReturnsOnly ==
  /\ pPc = "wait" /\ childNum # 0
  /\ \E k \in Zombies : Collect(k)
  /\ childNum' = childNum - 1
  /\ UNCHANGED <<pPc, accepted, loopLeft, quitFlag, listening, backlog, conns,
                 command, reply, status, reset, clientVars, wires>>

(* PWait: wait before testing child_num.                                   *)
Bug_WaitsFirst ==
  /\ pPc = "wait"
  /\ (\E k \in Zombies : Collect(k)) \/ (Unreaped = {} /\ UNCHANGED kid)
  /\ childNum' = childNum - 1
  /\ UNCHANGED <<pPc, accepted, loopLeft, quitFlag, listening, backlog, conns,
                 command, reply, status, reset, clientVars, wires>>

(* waitpid(-1, NULL, 0) blocks while there are children and none has       *)
(* returned; without children it fails at once.                            *)
PWait ==
  /\ pPc = "wait" /\ childNum # 0
  /\ (\E k \in Zombies : Collect(k)) \/ (Unreaped = {} /\ UNCHANGED kid)
  /\ childNum' = childNum - 1
  /\ UNCHANGED <<pPc, accepted, loopLeft, quitFlag, listening, backlog, conns,
                 command, reply, status, reset, clientVars, wires>>

PExit ==
  /\ pPc = "wait" /\ childNum = 0
  /\ pPc' = "done"
  /\ UNCHANGED <<accepted, childNum, loopLeft, quitFlag, listening, backlog,
                 conns, kidVars, clientVars, wires>>

Parent == \/ PAccept \/ PFork \/ PNoReturn \/ (\E k \in Kids : PReturn(k))
          \/ PTest \/ PWait \/ PExit
-----------------------------------------------------------------------------
(* A child receives the lines that have arrived and executes the first;    *)
(* the others go down with its buffer (bound: together they fit it).  When *)
(* the client is gone recv returns at once and the child executes what its *)
(* buffer happens to hold, here taken for a call: no exit or quit, since   *)
(* those end the child that receives them.                                 *)
KRecv(k) ==
  /\ kid[k] = "recv"
  /\ \/ /\ k \in Clients /\ inbox[k] # <<>>
        /\ command' = [command EXCEPT ![k] = Command(Head(inbox[k]))]
        /\ \E n \in 1 .. Len(inbox[k]) :
             inbox' = [inbox EXCEPT ![k] = SubSeq(@, n + 1, Len(@))]
     \/ /\ Gone(k) /\ (k \in Clients => inbox[k] = <<>>)
        /\ command' = [command EXCEPT ![k] = "call"]
        /\ UNCHANGED inbox
  /\ kid' = [kid EXCEPT ![k] = "check"]
  /\ UNCHANGED <<parentVars, reply, status, reset, clientVars, outbox,
                 longSent>>

(* It makes a reply and replaces it if the quit flag is up.                *)
KCheck(k) ==
  /\ kid[k] = "check"
  /\ reply' = [reply EXCEPT ![k] = IF quitFlag THEN "unavailable"
                                               ELSE Answer(command[k])]
  /\ kid' = [kid EXCEPT ![k] = "send"]
  /\ UNCHANGED <<parentVars, command, status, reset, clientVars, wires>>

(* KSend: the reply is never sent.                                         *)
Bug_NoReply(k) ==
  /\ kid[k] = "send"
  /\ kid' = [kid EXCEPT ![k] = "decide"]
  /\ UNCHANGED <<parentVars, command, reply, status, reset, clientVars, wires>>

KSend(k) ==
  /\ kid[k] = "send"
  /\ ~Gone(k) \/ k = Nobody
  /\ kid' = [kid EXCEPT ![k] = "decide"]
  /\ IF k = Nobody
       THEN UNCHANGED <<outbox, longSent>>
       ELSE /\ outbox' = [outbox EXCEPT ![k] = Append(@, reply[k])]
            /\ longSent' = [longSent EXCEPT ![k] = @ \/ reply[k] = "long"]
  /\ UNCHANGED <<parentVars, command, reply, status, reset, clientVars, inbox>>

(* A send to a client that is gone is lost and resets the connection;      *)
(* after a reset it raises SIGPIPE, which kills the child.                 *)
KSendLost(k) ==
  /\ kid[k] = "send"
  /\ k \in Clients /\ Gone(k)
  /\ \/ /\ ~reset[k] /\ reset' = [reset EXCEPT ![k] = TRUE]
        /\ kid' = [kid EXCEPT ![k] = "decide"]
        /\ UNCHANGED status
     \/ /\ kid' = [kid EXCEPT ![k] = "zombie"]
        /\ status' = [status EXCEPT ![k] = "signal"]
        /\ UNCHANGED reset
  /\ UNCHANGED <<parentVars, command, reply, clientVars, wires>>

(* A long answer has been written past the end of back_message, and free   *)
(* may find the heap damaged and abort the child.  (What a child without a *)
(* client executes may be a long word as well.)                            *)
KAborts(k) ==
  /\ kid[k] = "decide" /\ (command[k] = "long" \/ Gone(k))
  /\ kid' = [kid EXCEPT ![k] = "zombie"]
  /\ status' = [status EXCEPT ![k] = "signal"]
  /\ UNCHANGED <<parentVars, command, reply, reset, clientVars, wires>>

(* What it received and its reply are freed.                               *)
Freed(k) == /\ command' = [command EXCEPT ![k] = "none"]
            /\ reply' = [reply EXCEPT ![k] = "none"]

(* KDecide: leave after any command but an exit.                           *)
Bug_ExitsOnCalls(k) ==
  /\ kid[k] = "decide"
  /\ kid' = [kid EXCEPT ![k] = IF command[k] = "exit" THEN "recv" ELSE "zombie"]
  /\ IF command[k] = "exit"
       THEN Freed(k) /\ UNCHANGED status
       ELSE /\ status' = [status EXCEPT ![k] = IF command[k] = "quit" THEN "four"
                                                                      ELSE "one"]
            /\ UNCHANGED <<command, reply>>
  /\ UNCHANGED <<parentVars, reset, clientVars, wires>>

(* It reads the flag again, and ends or goes on.                           *)
KDecide(k) ==
  /\ kid[k] = "decide"
  /\ IF command[k] \in {"call", "long"} /\ ~quitFlag
       THEN kid' = [kid EXCEPT ![k] = "recv"] /\ Freed(k) /\ UNCHANGED status
       ELSE /\ kid' = [kid EXCEPT ![k] = "zombie"]
            /\ status' = [status EXCEPT
                            ![k] = IF command[k] = "quit" THEN "four"
                                                          ELSE "one"]
            /\ UNCHANGED <<command, reply>>
  /\ UNCHANGED <<parentVars, reset, clientVars, wires>>

Child(k) == KRecv(k) \/ KCheck(k) \/ KSend(k) \/ KSendLost(k) \/ KAborts(k)
              \/ KDecide(k)
-----------------------------------------------------------------------------
(* The frontend connects; the kernel completes the connection before the   *)
(* server accepts it.                                                      *)
CConnect(c) ==
  /\ stage[c] = "away"
  /\ IF listening
       THEN /\ Len(backlog) < Backlog
            /\ backlog' = Append(backlog, c)
            /\ stage' = [stage EXCEPT ![c] = "prompt"]
       ELSE /\ stage' = [stage EXCEPT ![c] = "left"]
            /\ UNCHANGED backlog
  /\ UNCHANGED <<pPc, accepted, childNum, loopLeft, quitFlag, listening, conns,
                 kidVars, typed, calls, wires>>

(* CType: do not wait for the reply.                                       *)
Bug_NoWait(c, line) ==
  /\ stage[c] = "prompt"
  /\ calls[c] < MaxCalls
  /\ calls' = [calls EXCEPT ![c] = @ + 1]
  /\ typed' = [typed EXCEPT ![c] = line]
  /\ inbox' = [inbox EXCEPT ![c] = Append(@, line)]
  /\ UNCHANGED <<parentVars, kidVars, stage, outbox, longSent>>

(* The user types a line and the frontend sends it; on a connection that   *)
(* is lost SIGPIPE kills the frontend.                                     *)
CType(c, line) ==
  /\ stage[c] = "prompt"
  /\ Leaves(line) \/ calls[c] < MaxCalls
  /\ calls' = [calls EXCEPT ![c] = IF @ < MaxCalls THEN @ + 1 ELSE @]
  /\ IF Lost(c) THEN /\ stage' = [stage EXCEPT ![c] = "dead"]
                     /\ UNCHANGED <<typed, inbox>>
                ELSE /\ stage' = [stage EXCEPT ![c] = "awaiting"]
                     /\ typed' = [typed EXCEPT ![c] = line]
                     /\ inbox' = [inbox EXCEPT ![c] = Append(@, line)]
  /\ UNCHANGED <<parentVars, kidVars, outbox, longSent>>

(* The frontend leaves after exit, quit or a refusal, which closes its     *)
(* socket, and otherwise clears its buffers and prompts again, or finds    *)
(* the end of its input again; left is what recv left of the stream.       *)
GoesOn(c, left, refused) ==
  LET leaves == Leaves(typed[c]) \/ refused
  IN /\ outbox' = [outbox EXCEPT ![c] = IF leaves THEN <<>> ELSE left]
     /\ stage' = [stage EXCEPT ![c] = IF leaves THEN "left"
                                      ELSE IF @ = "stuck" THEN @ ELSE "prompt"]

(* recv takes n whole replies; a long one only if it just fills the buffer.*)
TakesWhole(c, n) ==
  /\ n > 0 /\ \A i \in 1 .. n : outbox[c][i] = "long" => n = 1
  /\ GoesOn(c, SubSeq(outbox[c], n + 1, Len(outbox[c])),
            n = 1 /\ outbox[c][1] = "unavailable")

(* The buffer is full before the end of reply n + 1.  Of a long one that   *)
(* was not the first to be taken, the rest may still be too long.          *)
TakesPart(c, n) ==
  /\ n < Len(outbox[c]) /\ (n = 0 => outbox[c][1] = "long")
  /\ \A i \in 1 .. n : outbox[c][i] # "long"
  /\ \E rest \in {"rest", "long"} :
       /\ rest = "long" => n > 0 /\ outbox[c][n + 1] = "long"
       /\ GoesOn(c, <<rest>> \o SubSeq(outbox[c], n + 2, Len(outbox[c])), FALSE)

(* One recv takes of the replies that have arrived what fits its buffer.   *)
CReply(c) ==
  /\ stage[c] \in {"awaiting", "stuck"}
  /\ \E n \in 0 .. Len(outbox[c]) : TakesWhole(c, n) \/ TakesPart(c, n)
  /\ typed' = [typed EXCEPT ![c] = "none"]
  /\ UNCHANGED <<parentVars, kidVars, calls, inbox, longSent>>

(* No reply can arrive any more: recv returns, and the frontend dies of    *)
(* its next send.                                                          *)
CLost(c) ==
  /\ stage[c] = "awaiting" /\ outbox[c] = <<>> /\ Lost(c)
  /\ stage' = [stage EXCEPT ![c] = "dead"]
  /\ typed' = [typed EXCEPT ![c] = "none"]
  /\ UNCHANGED <<parentVars, kidVars, calls, wires>>

(* fgets finds the end of the input and the frontend sends nothing, but    *)
(* waits for a reply all the same; if recv returns because the connection  *)
(* is lost, it goes round its loop in the same way.                        *)
CEndOfInput(c) ==
  /\ InputMayEnd
  /\ stage[c] = "prompt"
  /\ stage' = [stage EXCEPT ![c] = "stuck"]
  /\ UNCHANGED <<parentVars, kidVars, typed, calls, wires>>

CInterrupted(c) ==
  /\ ClientsMayDie
  /\ stage[c] \in {"prompt", "awaiting", "stuck"}
  /\ stage' = [stage EXCEPT ![c] = "dead"]
  /\ typed' = [typed EXCEPT ![c] = "none"]
  /\ outbox' = [outbox EXCEPT ![c] = <<>>]
  /\ UNCHANGED <<parentVars, kidVars, calls, inbox, longSent>>

ClientTypes(c) == \E line \in Typed : CType(c, line)
Client(c) == CConnect(c) \/ ClientTypes(c) \/ CReply(c) \/ CLost(c)
               \/ CEndOfInput(c) \/ CInterrupted(c)
-----------------------------------------------------------------------------
(* Without clients the server waits in accept; it may also have ended.     *)
Quiet == pPc \in {"accept", "done"} /\ UNCHANGED vars

Next == \/ Parent
        \/ \E k \in Kids : Child(k)
        \/ \E c \in Clients : Client(c)
        \/ Quiet

Spec == Init /\ [][Next]_vars

(* Every process is scheduled; nobody has to connect, and no user has to   *)
(* type.                                                                   *)
Fairness ==
  /\ WF_vars(Parent)
  /\ \A k \in Kids : WF_vars(Child(k))
  /\ \A c \in Clients : WF_vars(CReply(c) \/ CLost(c))

FairSpec == Spec /\ Fairness
=============================================================================
