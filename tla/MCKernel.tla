----------------------------- MODULE MCKernel -----------------------------
(***************************************************************************)
(* Small instances of Kernel for TLC.                                      *)
(***************************************************************************)
EXTENDS Kernel

=============================================================================
