------------------------------ MODULE MCCSpace ------------------------------
(***************************************************************************)
(* Small instances of CSpace for TLC.                                      *)
(***************************************************************************)
EXTENDS CSpace

ASSUME BoundsAssumption == MaxObjects > 6 /\ MaxCaps > 9

=============================================================================
