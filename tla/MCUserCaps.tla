----------------------------- MODULE MCUserCaps -----------------------------
(***************************************************************************)
(* Small instances of UserCaps for TLC.                                    *)
(***************************************************************************)
EXTENDS UserCaps

\* The root server mints into its root CNode only.
MCMintNodes == {RootPath}

=============================================================================
