--------------------------- MODULE MCTrapContext ----------------------------
(***************************************************************************)
(* An instance of TrapContext for TLC.  The registers are those that some  *)
(* instruction treats in its own way, and ra, which stands for all others. *)
(***************************************************************************)
EXTENDS TrapContext

MCGPR == {"ra", "sp", "tp", "t0", "t1", "a0", "a1"}

=============================================================================
