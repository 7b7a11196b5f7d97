---------------------------- MODULE MCTaskMemory ----------------------------
(***************************************************************************)
(* Model checking instance of the memory of the thread library.            *)
(***************************************************************************)
EXTENDS TaskMemory, TLC

(* The tasks are interchangeable (safety runs only).                       *)
TaskSymmetry == Permutations(Tasks)
=============================================================================
