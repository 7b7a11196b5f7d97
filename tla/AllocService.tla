---------------------------- MODULE AllocService ----------------------------
(***************************************************************************)
(* What an allocator promises: a block it hands out overlaps nothing that  *)
(* the program holds, and stays the program's, where it is, until the      *)
(* program gives it back or asks for another size.                         *)
(***************************************************************************)
EXTENDS Naturals

CONSTANTS Addresses, Sizes

VARIABLE held   \* the size of each block held, by address

Apart(a, n, b, m) == a + n <= b \/ b + m <= a

(* held without the blocks of S, and with n units at a.                    *)
With(S, a, n) == [b \in (DOMAIN held \ S) \cup {a} |->
                    IF b = a THEN n ELSE held[b]]

Init == held = <<>>

Malloc(n) ==
  \E a \in Addresses :
    /\ \A b \in DOMAIN held : Apart(a, n, b, held[b])
    /\ held' = With({}, a, n)

Free(b) == held' = [c \in DOMAIN held \ {b} |-> held[c]]

(* The contents are copied, so the new place must be apart from the old.   *)
Realloc(b, n) ==
  \/ /\ \A c \in DOMAIN held \ {b} : Apart(b, n, c, held[c])
     /\ held' = With({}, b, n)
  \/ \E a \in Addresses :
       /\ \A c \in DOMAIN held : Apart(a, n, c, held[c])
       /\ held' = With({b}, a, n)

Next == \/ \E n \in Sizes : Malloc(n)
        \/ \E b \in DOMAIN held : Free(b)
        \/ \E b \in DOMAIN held, n \in Sizes : Realloc(b, n)

Spec == Init /\ [][Next]_held
=============================================================================
