----------------------------- MODULE MCExchange -----------------------------
(***************************************************************************)
(* Model checking instance of the exchange of lines and answers.  Floats   *)
(* have three significant bits, ints six bits: 7 is the largest number     *)
(* with a factorial that fits into LongWidth, 9 is rounded to 8, 7 * 7     *)
(* overflows and 50 fits no int.                                           *)
(***************************************************************************)
EXTENDS Exchange

Words(word, args) == [form |-> "words", word |-> word, args |-> args]
Number(n) == [numeric |-> TRUE, halves |-> n]

NoNumber == [numeric |-> FALSE, halves |-> 0]
Whole(n) == Number(2 * n)

Tokens == {Whole(n) : n \in {-1, 0, 7, 8, 9, 50}} \cup {Number(1), NoNumber}

Calls ==
  {Words(Name(n), <<a, b>>) : n \in {"add", "multiply", "divide"},
                              a \in Tokens,
                              b \in {Whole(0), Whole(7), NoNumber}}
    \cup {Words(Name(n), <<a>>) : n \in {"factorial", "sleep"}, a \in Tokens}

(* Quotients that need no, one and several further digits, and one of      *)
(* 2^Mantissa or more.                                                     *)
Quotients ==
  {Words(Name("divide"), <<a, b>>) :
     a \in {Whole(-1), Whole(8), Whole(50)}, b \in {Whole(1), Whole(-3), Number(1)}}

(* Too few parameters and one too many.                                    *)
OddCounts ==
  {Words(Name("add"), <<>>), Words(Name("divide"), <<Number(2)>>),
   Words(Name("add"), <<Number(2), Number(4), Number(6)>>),
   Words(Name("sleep"), <<Number(2), Number(2)>>)}

(* The longest unknown command that is answered properly, the one whose    *)
(* answer fills the buffer and the first whose answer exceeds it; unknown  *)
(* words that end in one the server knows.                                 *)
OddWords == {Words(w, <<>>) : w \in {Unknown(22), Unknown(23), Unknown(24),
                                     [junk |-> 1, name |-> "quit"],
                                     [junk |-> 1, name |-> "add"]}}

Leaves == {Words(Name("quit"), <<>>), Words(Name("shutdown"), <<>>),
           Words(Name("exit"), <<>>), Words(Name("exit"), <<Number(2)>>)}

NoWords == {[Words(EmptyCommand, <<>>) EXCEPT !.form = f] :
              f \in {"blank", "spaces"}}

TypedLines == Calls \cup Quotients \cup OddCounts \cup OddWords \cup Leaves \cup NoWords
=============================================================================
