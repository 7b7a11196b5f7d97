----------------------------- MODULE Procedures -----------------------------
(***************************************************************************)
(* What a child of the server makes of a line ("Simple Remote Procedure    *)
(* Call Service"/backend.c): receive_cmd and find_command with the         *)
(* procedures it calls, as operators without state.                        *)
(*                                                                         *)
(* A word is a number of letters before a name the server knows: "add" is  *)
(* [junk |-> 0, name |-> "add"], "xadd" has one letter before it, and a    *)
(* word without a known ending has the name "".  Numbers are counted in    *)
(* halves, so that 3 is one and a half; floats have Mantissa significant   *)
(* bits (24 in C), ints Width bits (32) and uint64_t LongWidth bits (64),  *)
(* and factorials are computed up to Limit (20).  A quotient is printed    *)
(* with six decimals and counted in Units of the last of them (10^6).      *)
(***************************************************************************)
EXTENDS Integers, Sequences

CONSTANTS Mantissa, Width, LongWidth, Limit

ASSUME NumbersAssumption ==
  /\ Mantissa \in Nat \ {0} /\ Width \in Nat /\ LongWidth \in Nat /\ Limit \in Nat
  /\ Mantissa + 1 < Width /\ Width < LongWidth /\ Limit < 2^(Width - 1)

(* What a power of two is, as far as one is used.                          *)
ASSUME PowersAssumption ==
  \A n \in 0..(2 * Mantissa + LongWidth) : 2^(n + 1) = 2 * 2^n

Units == 1000000
-----------------------------------------------------------------------------
Letters == [n \in {"add", "multiply", "divide", "factorial", "sleep", "quit",
                   "shutdown", "exit", ""} |->
              CASE n = "add" -> 3  [] n = "multiply" -> 8  [] n = "divide" -> 6
                [] n = "factorial" -> 9  [] n = "sleep" -> 5
                [] n = "shutdown" -> 8  [] n \in {"quit", "exit"} -> 4
                [] n = "" -> 0]

Name(n)         == [junk |-> 0, name |-> n]
Unknown(n)      == [junk |-> n, name |-> ""]
LettersOf(word) == word.junk + Letters[word.name]
EmptyCommand    == Unknown(13)

(* What is left of a word in the buffer when its first letter is lost.     *)
Behind(word) == IF word.junk > 0 THEN [word EXCEPT !.junk = @ - 1]
                ELSE IF word.name = "" THEN word
                ELSE Unknown(Letters[word.name] - 1)
-----------------------------------------------------------------------------
Abs(n) == IF n < 0 THEN -n ELSE n
Sign(n) == IF n < 0 THEN -1 ELSE 1

(* The whole number nearest to n / d, of two the even one.                 *)
RoundDiv(n, d) == LET q == n \div d
                      r == 2 * (n % d)
                  IN  IF r > d \/ (r = d /\ q % 2 = 1) THEN q + 1 ELSE q

(* The last place of a float of v's size.                                  *)
Place(v) == LET Wide(k) == 2^(Mantissa + k) > Abs(v)
            IN  2^(CHOOSE k \in 0..LongWidth :
                     Wide(k) /\ \A j \in 0..(k - 1) : ~Wide(j))

(* double to float: the nearest float.                                     *)
Float(v) == Sign(v) * Place(v) * RoundDiv(Abs(v), Place(v))

(* A signed integer of w bits, after overflow.                             *)
Wrap(n, w) == ((n + 2^(w - 1)) % 2^w) - 2^(w - 1)

(* float to int: the fraction is dropped; what does not fit gives INT_MIN, *)
(* as the processor's conversion does.                                     *)
Int_(v) == LET n == Sign(v) * (Abs(v) \div 2)
           IN  IF n = Wrap(n, Width) THEN n ELSE -(2^(Width - 1))

(* atof, assigned to a float: text that is no number is 0.                 *)
Argument(token) == IF token.numeric THEN Float(token.halves) ELSE 0

(* receive_cmd keeps the first two parameters.                             *)
Arguments(tokens) == LET kept == IF Len(tokens) < 2 THEN Len(tokens) ELSE 2
                     IN  [i \in 1..kept |-> Argument(tokens[i])]
-----------------------------------------------------------------------------
(* MultiplyInts: the product is not kept to the width of an int.           *)
Bug_WideProduct(a, b) == a * b

AddInts(a, b)      == Wrap(a + b, Width)
MultiplyInts(a, b) == Wrap(a * b, Width)

(* The loop of factorial(), for the arguments find_command lets through.   *)
Factorial == LET f[x \in Nat] == IF x = 0 THEN 1
                                 ELSE (f[x - 1] * x) % 2^LongWidth
             IN  f

(* FactorialTakes: the limit is one too high.                              *)
Bug_OneMore(v) == v >= 0 /\ v <= 2 * (Limit + 1)

FactorialTakes(v) == v >= 0 /\ v <= 2 * Limit

(* divideFloats and %.6f for n and d not negative: the float nearest to    *)
(* n / d, in units of the sixth decimal.  A float of 2^Mantissa or more    *)
(* counts 2^k for the least k that makes room; a smaller one counts 2^-k   *)
(* for the greatest k that leaves room.                                    *)
Large(n, d) == 2^Mantissa * d <= n
Above(n, d) == LET Wide(k) == n < d * 2^(Mantissa + k)
               IN  CHOOSE k \in 1..(LongWidth + 1) :
                     Wide(k) /\ \A j \in 1..(k - 1) : ~Wide(j)
Below(n, d) == LET Wide(k) == n * 2^k < d * 2^Mantissa
                   Finest == 2 * Mantissa + LongWidth
               IN  CHOOSE k \in 0..Finest :
                     Wide(k) /\ \A j \in (k + 1)..Finest : ~Wide(j)

Printed6(n, d) ==
  IF Large(n, d)
    THEN LET p == 2^Above(n, d) IN Units * p * RoundDiv(n, d * p)
    ELSE LET p == 2^Below(n, d) IN RoundDiv(Units * RoundDiv(n * p, d), p)

DivideFloats(a, b) == Sign(a) * Sign(b) * Printed6(Abs(a), Abs(b))
-----------------------------------------------------------------------------
(* The texts sent back: what they say, and the value they show.            *)
Says(text)    == [text |-> text, value |-> <<>>]
Shows(n)      == [text |-> "number", value |-> <<n>>]
NotFound(word) == [text |-> "notFound", value |-> <<LettersOf(word)>>]

BadCount    == Says("Number of argument not correct")
DivByZero   == Says("Division by Zero")
OutOfRange  == Says("Input is not between 0 and 20")
Negative    == Says("Input is smaller than 0")
Bye         == Says("Bye")
Slept       == Says(" ")
Unavailable == Says("Server is no longer available")

Leaving == {"quit", "shutdown", "exit"}

(* find_command, for the first word and the parameters kept.  The sign of  *)
(* a quotient that is zero is left out.                                    *)
FindCommand(word, a) ==
  LET Counted(n, answer) == IF Len(a) # n THEN BadCount ELSE answer
      name == IF word.junk = 0 THEN word.name ELSE ""
  IN  CASE name = "add" ->
             Counted(2, Shows(AddInts(Int_(a[1]), Int_(a[2]))))
        [] name = "multiply" ->
             Counted(2, Shows(MultiplyInts(Int_(a[1]), Int_(a[2]))))
        [] name = "divide" ->
             Counted(2, IF a[2] = 0 THEN DivByZero
                        ELSE [text |-> "quotient", value |-> <<DivideFloats(a[1], a[2])>>])
        [] name = "factorial" ->
             Counted(1, IF FactorialTakes(a[1])
                          THEN Shows(Wrap(Factorial[Int_(a[1])], LongWidth))
                          ELSE OutOfRange)
        [] name = "sleep" -> Counted(1, IF a[1] < 0 THEN Negative ELSE Slept)
        [] name \in Leaving -> Bye
        [] name = "" -> NotFound(word)

(* The length of a text, for numbers that of the longest.                  *)
Size(answer) ==
  CASE answer.text = "number" -> 20  [] answer.text = "quotient" -> 47
    [] answer.text = "notFound" -> 27 + answer.value[1]
    [] answer = BadCount -> 40   [] answer = DivByZero -> 26
    [] answer = OutOfRange -> 39 [] answer = Negative -> 33
    [] answer = Bye -> 6         [] answer = Slept -> 1
    [] answer = Unavailable -> 32
=============================================================================
