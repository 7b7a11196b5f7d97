------------------------------- MODULE Queues -------------------------------
(***************************************************************************)
(* The elements of a queue.                                                *)
(***************************************************************************)
EXTENDS Naturals, Sequences

In(t, q) == \E i \in DOMAIN q : q[i] = t
Distinct(q) == \A i, j \in DOMAIN q : q[i] = q[j] => i = j
=============================================================================
