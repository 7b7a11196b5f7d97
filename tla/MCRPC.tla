------------------------------- MODULE MCRPC -------------------------------
(***************************************************************************)
(* Model checking instance of the remote procedure call service.           *)
(***************************************************************************)
EXTENDS RPCInvariant, TLC

(* The clients are interchangeable (safety runs only).                     *)
ClientSymmetry == Permutations(Clients)
=============================================================================
