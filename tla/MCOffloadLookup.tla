--------------------------- MODULE MCOffloadLookup ---------------------------
(***************************************************************************)
(* Values of the constants of OffloadLookup for TLC.                       *)
(***************************************************************************)
EXTENDS OffloadLookup, TLC

OneFull == <<"full">>
TwoSW   == <<"wide", "narrow">>

\* chunks of the sliding-window groups divide those of full attention
NestedBlocks == [full |-> 4, wide |-> 2, narrow |-> 2]
NestedWindow == [wide |-> 4, narrow |-> 2]

=============================================================================
