---------------------------- MODULE RPCInvariant ----------------------------
(***************************************************************************)
(* The inductive invariant of the remote procedure call service and the    *)
(* mapping under which it implements RPCService.                           *)
(***************************************************************************)
EXTENDS RPCProperties

(* The flag goes up only in the loop, and then the server stops.           *)
StopOrder ==
  /\ quitFlag => (pPc \in {"wait", "done"} \/ (pPc = "reap" /\ loopLeft = 0))
  /\ pPc \in {"wait", "done"} => quitFlag
  /\ pPc = "done" => childNum = 0
  /\ quitFlag => \E k \in Clients : status[k] = "four"

(* How a child ended is recorded just when it has ended; the child of      *)
(* nobody is never told to quit.                                           *)
EndedHasStatus ==
  /\ \A k \in Kids : kid[k] \in {"zombie", "reaped"} <=> status[k] # "none"
  /\ command[Nobody] \in {"none", "call"} /\ status[Nobody] # "four"

(* A client comes once: it is away, or in the backlog, or accepted, and    *)
(* only then it gets its child.                                            *)
ComesOnce ==
  /\ Distinct(backlog)
  /\ \A c \in Clients : In(c, backlog) => c \notin conns /\ stage[c] # "away"
  /\ \A c \in conns \cap Clients : stage[c] # "away"
  /\ \A c \in Clients : kid[c] # "none" => c \in conns
  /\ pPc = "fork" => kid[accepted] = "none"
                       /\ (accepted \in Clients => accepted \in conns)

(* A call is in one place: on its way, with the child, or answered, as     *)
(* long as every reply was shorter than the frontend's buffer.             *)
Busy(c)      == kid[c] \in {"check", "send"}
NoCall(c)    == inbox[c] = <<>> /\ outbox[c] = <<>> /\ ~Busy(c)
Answers(c)   == {Answer(Command(typed[c])), "unavailable"}
OnItsWay(c)  == inbox[c] = <<typed[c]>> /\ outbox[c] = <<>> /\ ~Busy(c)
WithChild(c) == /\ inbox[c] = <<>> /\ outbox[c] = <<>> /\ Busy(c)
                /\ command[c] = Command(typed[c])
                /\ kid[c] = "send" => reply[c] \in Answers(c)
Answered(c)  == /\ inbox[c] = <<>> /\ ~Busy(c)
                /\ \E r \in Answers(c) \ {"long"} : outbox[c] = <<r>>

CallInPlace(c) ==
  /\ stage[c] \in {"away", "prompt", "stuck"} => NoCall(c)
  /\ stage[c] = "awaiting" =>
       typed[c] \in Lines /\ (OnItsWay(c) \/ WithChild(c) \/ Answered(c))

OneCall == \A c \in Clients : ~longSent[c] => CallInPlace(c)

(* What a child answered, and why it ended.                                *)
Caused(k) ==
  /\ kid[k] \in {"send", "decide", "zombie", "reaped"} /\ ~quitFlag =>
       reply[k] = Answer(command[k])
  /\ kid[k] \in {"check", "send", "decide"} => command[k] # "none"
  /\ kid[k] \in {"zombie", "reaped"} =>
       \/ quitFlag \/ Gone(k) \/ command[k] \in {"exit", "quit"}
       \/ command[k] = "long" /\ status[k] = "signal"

EndsForCause == \A k \in Kids : Caused(k)

RInv == /\ TypeOK /\ ChildrenCounted /\ StopOrder /\ EndedHasStatus
        /\ ComesOnce /\ OneCall /\ EndsForCause
-----------------------------------------------------------------------------
(* The sessions as the clients' children hold them.                        *)
Session(c) == IF kid[c] = "none" THEN "none"
              ELSE IF c \in Running THEN "open"
              ELSE IF status[c] = "four" THEN "quit" ELSE "ended"

Server == IF ~quitFlag THEN "up"
          ELSE IF pPc = "done" THEN "down" ELSE "stopping"

Service == INSTANCE RPCService
             WITH session <- [c \in Clients |-> Session(c)], server <- Server

(* The server keeps the promises of RPCService although it learns of a     *)
(* quit only from an exit code collected later.                            *)
ImplementsRPCService == Service!Spec
=============================================================================
