-------------------------- MODULE MCWriterAskVault --------------------------
(***************************************************************************)
(* WriterAskVault for TLC: symmetry of the interchangeable accounts.       *)
(***************************************************************************)
EXTENDS WriterAskVault, TLC

AskSymmetry == Permutations(Writers) \cup Permutations(Holders)
                   \cup Permutations(Mints) \cup Permutations(Orders)
=============================================================================
