------------------------------- MODULE MCDemo -------------------------------
(***************************************************************************)
(* The instance of Demo for TLC: its threads, objects and badges are those *)
(* of the programs.                                                        *)
(***************************************************************************)
EXTENDS Demo
=============================================================================
