------------------------------- MODULE MCSUT -------------------------------
(***************************************************************************)
(* Model checking instance of the user-level thread library.               *)
(***************************************************************************)
EXTENDS SUTInvariant, TLC

(* The tasks are interchangeable (safety runs only).                       *)
TaskSymmetry == Permutations(Tasks)
=============================================================================
