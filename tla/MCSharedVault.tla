---------------------------- MODULE MCSharedVault ----------------------------
(***************************************************************************)
(* SharedVault for TLC: symmetry of the accounts that are interchangeable. *)
(***************************************************************************)
EXTENDS SharedVault, TLC

Symmetry == Permutations(Writers) \cup Permutations(Holders)
                \cup Permutations(Mints)
=============================================================================
