------------------------ MODULE MCOffloadScheduler ------------------------
(***************************************************************************)
(* Values of the constants of OffloadScheduler for TLC.                    *)
(***************************************************************************)
EXTENDS OffloadScheduler, TLC

\* all requests have the same prompt, so that they share chunks
SamePrompt == [r \in Requests |-> "p"]

\* one request has a prompt of its own, the others share one
TwoPrompts == LET odd == CHOOSE r \in Requests : TRUE
              IN  [r \in Requests |-> IF r = odd THEN "q" ELSE "p"]

BlockSymmetry == Permutations(Blocks)

=============================================================================
