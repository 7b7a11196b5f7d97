------------------------------- MODULE MCSMA -------------------------------
(***************************************************************************)
(* Model checking instance of the memory allocator.                        *)
(***************************************************************************)
EXTENDS SMAProperties, TLC
=============================================================================
