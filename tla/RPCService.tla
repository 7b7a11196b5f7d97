---------------------------- MODULE RPCService ----------------------------
(***************************************************************************)
(* What the server promises: sessions are opened only while it is up; it   *)
(* begins to stop only because a client asked it to quit; and it goes down *)
(* only after the last session ended.                                      *)
(***************************************************************************)
CONSTANT Clients

VARIABLES
  server,   \* "up", "stopping" or "down"
  session   \* of each client: "none", "open", "ended", "quit"

Init == server = "up" /\ session = [c \in Clients |-> "none"]

Change(c, from, to) ==
  /\ session[c] = from
  /\ session' = [session EXCEPT ![c] = to]
  /\ UNCHANGED server

Open(c) == server = "up" /\ Change(c, "none", "open")
End(c)  == Change(c, "open", "ended")
Quit(c) == Change(c, "open", "quit")

Stop ==
  /\ server = "up" /\ \E c \in Clients : session[c] = "quit"
  /\ server' = "stopping"
  /\ UNCHANGED session

Down ==
  /\ server = "stopping" /\ \A c \in Clients : session[c] # "open"
  /\ server' = "down"
  /\ UNCHANGED session

Next == \/ \E c \in Clients : Open(c) \/ End(c) \/ Quit(c)
        \/ Stop \/ Down

Spec == Init /\ [][Next]_<<server, session>>
=============================================================================
