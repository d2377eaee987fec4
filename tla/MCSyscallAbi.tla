---------------------------- MODULE MCSyscallAbi ----------------------------
(***************************************************************************)
(* An instance of SyscallAbi for TLC.                                      *)
(***************************************************************************)
EXTENDS SyscallAbi

=============================================================================
