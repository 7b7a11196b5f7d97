------------------------------ MODULE Exchange ------------------------------
(***************************************************************************)
(* One frontend and the child of the server that serves it ("Simple Remote *)
(* Procedure Call Service"/frontend.c and backend.c), down to the bytes of *)
(* the replies: the frontend shows what one recv gives it, which is the    *)
(* answer to the line just sent only as long as every answer fits into its *)
(* buffer.  The parent of the child, other frontends, lost connections and *)
(* the end of the input are in module RPC.                                 *)
(*                                                                         *)
(* A line holds a word and parameters; it may also be blank (the newline   *)
(* alone) or hold spaces only.  The lines in transit together fit into the *)
(* child's buffer.  An answer of BufSize bytes or more overruns the memory *)
(* it is made in, which may end the child when it frees it; what else that *)
(* may do to the heap is not modelled.                                     *)
(***************************************************************************)
EXTENDS Procedures, FiniteSets, Combinatorics

CONSTANTS
  Lines,     \* the lines that users type
  BufSize,   \* bytes of the frontend's buffer (50)
  MaxLines   \* bound on the lines typed

Form == {"words", "blank", "spaces"}

(* Parameters are numbers a float has room for, or no numbers at all.      *)
Token == {t \in [numeric : BOOLEAN, halves : Int] :
            Abs(t.halves) < 2^(Mantissa + LongWidth)}

ASSUME LinesAssumption ==
  /\ \A line \in Lines : /\ line.form \in Form
                         /\ line.word \in [junk : Nat, name : DOMAIN Letters]
                         /\ LettersOf(line.word) + 27 < 2 * BufSize
                         /\ line.args \in Seq(Token)
  /\ BufSize \in Nat \ {0} /\ MaxLines \in Nat

(* A factorial that is computed fits into 64 bits.                         *)
ASSUME LimitAssumption == factorial[Limit] < 2^(LongWidth - 1)

VARIABLES
  client,    \* what the frontend does
  count,     \* lines typed so far
  line,      \* user_msg, the line typed last
  up,        \* lines on their way to the child, with their numbers
  child,     \* what the child does
  message,   \* the number of the line the child serves, its word and answer
  buffer,    \* the word whose letters recv's buffer still holds
  down,      \* answers on their way to the frontend, and the bytes left of each
  shown,     \* what the frontend printed last
  quitFlag,
  longs      \* ghost: has an answer been sent that exceeds BufSize?

clientVars == <<client, count, line, shown>>
childVars  == <<child, message, buffer, longs>>
vars == <<clientVars, childVars, up, down, quitFlag>>
-----------------------------------------------------------------------------
Blank == [form |-> "blank", word |-> EmptyCommand, args |-> <<>>]

NoMessage == [no |-> 0, line |-> Blank, word |-> EmptyCommand,
              answer |-> Says(" ")]

Init ==
  /\ client = "typing" /\ count = 0 /\ line = Blank /\ shown = <<>>
  /\ child = "receiving" /\ buffer = EmptyCommand /\ longs = FALSE
  /\ message = NoMessage
  /\ up = <<>> /\ down = <<>> /\ quitFlag = FALSE

(* Another frontend quits, and the parent has noticed it.                  *)
RaiseFlag ==
  /\ ~quitFlag /\ quitFlag' = TRUE
  /\ UNCHANGED <<clientVars, childVars, up, down>>
-----------------------------------------------------------------------------
(* The frontend clears its buffers, the user types a line and it is sent.  *)
(* The parent keeps the connection of a child that has ended, so that the  *)
(* send succeeds then.                                                     *)
CType(typed) ==
  /\ client = "typing" /\ count < MaxLines
  /\ client' = "waiting" /\ count' = count + 1 /\ line' = typed
  /\ up' = Append(up, [no |-> count + 1, line |-> typed])
  /\ shown' = <<>>
  /\ UNCHANGED <<childVars, down, quitFlag>>

(* What recv(..., n, ...) takes from answers in transit and what it leaves.*)
Before(q, i) == LET b[j \in 0..Len(q)] == IF j = 0 THEN 0
                                          ELSE b[j - 1] + q[j].bytes
                IN  b[i - 1]
Least(a, b) == IF a < b THEN a ELSE b
Touched(q, n) == Cardinality({i \in 1..Len(q) : Before(q, i) < n})
Taken(q, n) == [i \in 1..Touched(q, n) |->
                  [q[i] EXCEPT !.bytes = Least(@, n - Before(q, i))]]
Left(q, n) == LET k == Touched(q, n)
                  rest == q[k].bytes - Taken(q, n)[k].bytes
                  behind == SubSeq(q, k + 1, Len(q))
              IN  IF rest = 0 THEN behind
                  ELSE <<[q[k] EXCEPT !.bytes = rest]>> \o behind

(* What printf makes of server_msg: bytes that fill it have no closing     *)
(* zero, so that what lies behind it in memory is printed as well, unless  *)
(* that is a zero.                                                         *)
Beyond == [no |-> 0, line |-> Blank, answer |-> Says("what lies behind"),
           bytes |-> 1]

Printed(pieces) == IF Before(pieces, Len(pieces) + 1) < BufSize THEN {pieces}
                   ELSE {pieces, Append(pieces, Beyond)}

(* A printed text that is one whole answer.                                *)
IsWhole(pieces) == /\ Len(pieces) = 1
                   /\ pieces[1].bytes = Size(pieces[1].answer)

(* strcmp(user_msg, "quit\n") and the like.                                *)
TypedToLeave(l) == /\ l.form = "words" /\ l.word.junk = 0
                   /\ l.word.name \in Leaving /\ l.args = <<>>

(* CShow: recv is given the size of a pointer to the buffer.               *)
Bug_PointerSize ==
  /\ client = "waiting" /\ down # <<>>
  /\ shown' = Taken(down, 8) /\ down' = Left(down, 8)
  /\ client' = IF TypedToLeave(line) THEN "left" ELSE "typing"
  /\ UNCHANGED <<count, line, childVars, up, quitFlag>>

(* The frontend shows what one recv returns, and leaves after quit,        *)
(* shutdown or exit, or when the server is no longer available.            *)
CShow ==
  /\ client = "waiting" /\ down # <<>>
  /\ shown' \in Printed(Taken(down, BufSize)) /\ down' = Left(down, BufSize)
  /\ client' = IF \/ TypedToLeave(line)
                  \/ IsWhole(shown') /\ shown'[1].answer = Unavailable
                 THEN "left" ELSE "typing"
  /\ UNCHANGED <<count, line, childVars, up, quitFlag>>
-----------------------------------------------------------------------------
(* The words a child may find in its buffer.  Of a blank line the newline  *)
(* overwrites the first letter of what is there, if the stack still has    *)
(* it; strtok skips the newline.                                           *)
Found(l) == CASE l.form = "words"  -> {l.word}
              [] l.form = "spaces" -> {EmptyCommand}
              [] l.form = "blank"  -> {EmptyCommand} \cup
                   {w \in {Behind(buffer)} : LettersOf(w) > 0}

(* recv, receive_cmd and find_command: of the lines that have arrived      *)
(* strtok leaves the first, the others are lost.                           *)
KRecv ==
  /\ child = "receiving" /\ up # <<>>
  /\ LET first == Head(up).line
     IN  \E word \in Found(first), args \in {Arguments(first.args)} :
           message' = [no |-> Head(up).no, line |-> first, word |-> word,
                       answer |-> FindCommand(word, args)]
  /\ buffer' = CASE Head(up).line.form = "words"  -> Head(up).line.word
                 [] Head(up).line.form = "spaces" -> EmptyCommand
                 [] Head(up).line.form = "blank"  -> buffer
  /\ up' = <<>> /\ child' = "answering"
  /\ UNCHANGED <<clientVars, longs, down, quitFlag>>

Reply(answer) == [no |-> message.no, line |-> message.line,
                  answer |-> answer, bytes |-> Size(answer)]

(* KSend: a sleep is answered with an empty text, of which nothing is sent.*)
Bug_EmptyText ==
  /\ child = "answering"
  /\ LET answer == IF quitFlag THEN Unavailable ELSE message.answer
     IN  /\ down' = IF answer = Slept THEN down
                    ELSE Append(down, Reply(answer))
         /\ longs' = (longs \/ Size(answer) > BufSize)
  /\ child' = "deciding"
  /\ UNCHANGED <<message, buffer, clientVars, up, quitFlag>>

(* The answer, or the refusal if the quit flag is up, is sent.             *)
KSend ==
  /\ child = "answering"
  /\ LET answer == IF quitFlag THEN Unavailable ELSE message.answer
     IN  /\ down' = Append(down, Reply(answer))
         /\ longs' = (longs \/ Size(answer) > BufSize)
  /\ child' = "deciding"
  /\ UNCHANGED <<message, buffer, clientVars, up, quitFlag>>

(* KDecide: shutdown is forgotten.                                         *)
Bug_NoShutdown ==
  /\ child = "deciding"
  /\ child' = IF \/ message.word \in {Name(n) : n \in {"quit", "exit"}}
                 \/ quitFlag
                THEN "gone" ELSE "receiving"
  /\ message' = NoMessage
  /\ UNCHANGED <<buffer, longs, clientVars, up, down, quitFlag>>

(* The child ends after quit, shutdown or exit and if the flag is up; it   *)
(* frees the message.                                                      *)
KDecide ==
  /\ child = "deciding"
  /\ child' = IF message.word \in {Name(n) : n \in Leaving} \/ quitFlag
                THEN "gone" ELSE "receiving"
  /\ message' = NoMessage
  /\ UNCHANGED <<buffer, longs, clientVars, up, down, quitFlag>>

(* free finds the heap damaged by an answer of BufSize bytes or more, and  *)
(* the child is killed.                                                    *)
KAborts ==
  /\ child = "deciding" /\ Size(message.answer) >= BufSize
  /\ child' = "gone" /\ message' = NoMessage
  /\ UNCHANGED <<buffer, longs, clientVars, up, down, quitFlag>>
-----------------------------------------------------------------------------
Client == (\E typed \in Lines : CType(typed)) \/ CShow
Child  == KRecv \/ KSend \/ KDecide \/ KAborts
Next   == Client \/ Child \/ RaiseFlag

Spec == Init /\ [][Next]_vars

(* The child is scheduled, and the frontend when an answer is there.       *)
FairSpec == Spec /\ WF_vars(Child) /\ WF_vars(CShow)
-----------------------------------------------------------------------------
Lim(w) == -(2^(w - 1)) .. (2^(w - 1) - 1)

(* Types: a child always has a message it can answer, the lines in transit *)
(* are the last ones typed, and a number sent fits the type it is printed  *)
(* as.                                                                     *)
TypeOK ==
  /\ client \in {"typing", "waiting", "left"} /\ count \in 0..MaxLines
  /\ child \in {"receiving", "answering", "deciding", "gone"}
  /\ line \in Lines \cup {Blank}
  /\ \A i \in 1..Len(up) : up[i].no = count - Len(up) + i
  /\ quitFlag \in BOOLEAN /\ longs \in BOOLEAN
  /\ \A i \in 1..Len(down) : down[i].bytes \in 1..Size(down[i].answer)
  /\ message.answer.text = "number" =>
       message.answer.value[1] \in
         Lim(IF message.word = Name("factorial") THEN LongWidth ELSE Width)

(* What the frontend prints begins with the answer to the line the user    *)
(* has just typed, all of it, and nothing follows unless that answer fills *)
(* the frontend's buffer to its last byte (an unknown command of 23        *)
(* letters), until an answer was longer than the buffer (24 letters or     *)
(* more).                                                                  *)
AnswersTheLine ==
  client # "waiting" /\ count > 0 /\ ~longs =>
    /\ shown # <<>> /\ IsWhole(<<shown[1]>>)
    /\ shown[1].no = count /\ shown[1].line = line
    /\ Len(shown) > 1 => shown[1].bytes = BufSize /\ shown = <<shown[1], Beyond>>

(* Parameters that a float can hold.                                       *)
Small(tokens) == \A i \in 1..Len(tokens) :
                   /\ tokens[i].numeric /\ tokens[i].halves % 2 = 0
                   /\ Abs(tokens[i].halves) <= 2^(Mantissa + 1)

(* As near to a / b as a float and six decimals allow: half a last place   *)
(* of the float and half a unit of the last decimal away at most, and      *)
(* exact if b divides a.                                                   *)
IsQuotient(v, a, b) ==
  LET off == 2 * (v * b - Units * a)
  IN  /\ 2^Mantissa * Abs(off) <= 2^Mantissa * Abs(b) + 2 * Units * Abs(a)
      /\ Abs(a) % Abs(b) = 0 => off = 0

(* What backend.h promises for a line with two small parameters a and b,   *)
(* or one; a sum or product that fits no int is left open.                 *)
Promised(name, a, b, answer) ==
  CASE name = "add" -> a + b \in Lim(Width) => answer = Shows(a + b)
    [] name = "multiply" -> a * b \in Lim(Width) => answer = Shows(a * b)
    [] name = "divide" -> IF b = 0 THEN answer = DivByZero
                          ELSE /\ answer.text = "quotient"
                               /\ IsQuotient(answer.value[1], a, b)
    [] name = "factorial" -> IF a \in 0..Limit THEN answer = Shows(factorial[a])
                             ELSE answer = OutOfRange
    [] name = "sleep" -> answer = IF a < 0 THEN Negative ELSE Slept

(* An answer printed for a line with as many whole parameters as its       *)
(* procedure takes, none of them too large for a float, is the exact       *)
(* result or the error that applies, if the result fits into an int; a     *)
(* quotient is the nearest that a float with six decimals can show.        *)
ResultsExact ==
  \A i \in 1..Len(shown) :
    LET l == shown[i].line
        Value(k) == l.args[k].halves \div 2
        n == Len(l.args)
    IN  /\ l.form = "words" /\ l.word.junk = 0 /\ Small(l.args)
        /\ shown[i].answer # Unavailable
        /\ \/ n = 2 /\ l.word.name \in {"add", "multiply", "divide"}
           \/ n = 1 /\ l.word.name \in {"factorial", "sleep"}
        => Promised(l.word.name, Value(1), Value(n), shown[i].answer)

(* A frontend that waits gets something to print, unless its child has     *)
(* ended before it received the line.                                      *)
EveryLineShown == client = "waiting" ~> client # "waiting" \/ child = "gone"

(* A frontend that has left after quit, shutdown or exit, or because the   *)
(* server is no longer available, leaves no child behind, unless an answer *)
(* was longer than its buffer: then its last line may be lost.             *)
NobodyLeftBehind == client = "left" /\ ~longs ~> child = "gone"
=============================================================================
