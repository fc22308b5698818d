-------------------------- MODULE MCCleanScheduler --------------------------
(***************************************************************************)
(* Values of the constants of CleanScheduler for TLC.                      *)
(***************************************************************************)
EXTENDS CleanScheduler, TLC

\* all requests have the same prompt, so that they share chunks
SamePrompt == [r \in Requests |-> "p"]

BlockSymmetry == Permutations(Blocks)

=============================================================================
