-------------------------- MODULE MCOffloadEvents --------------------------
(***************************************************************************)
(* Values of the constants of OffloadEvents for TLC.                       *)
(***************************************************************************)
EXTENDS OffloadEvents

\* two requests have one prompt of four blocks, a third shares its first block
ForkedPrompts ==
    LET odd == CHOOSE r \in Requests : TRUE
    IN  [r \in Requests |-> IF r = odd THEN <<"a", "z">> ELSE <<"a", "b", "c", "d">>]

\* one prompt of one chunk for each request
OwnPrompts == [r \in Requests |-> <<r>>]

=============================================================================
