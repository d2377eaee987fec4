------------------------------ MODULE MCVSpace ------------------------------
(***************************************************************************)
(* Small instances of VSpace for TLC.                                      *)
(***************************************************************************)
EXTENDS VSpace, TLC

\* Pages, capabilities, the entries of a table and the tables that boot does not make
\* are interchangeable.
MCSymmetry ==
    Permutations(Tables \ {BootRoot}) \cup Permutations(Pages) \cup Permutations(PageCaps)
        \cup Permutations(Vpns)

=============================================================================
