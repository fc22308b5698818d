------------------------------ MODULE Transfers ------------------------------
(***************************************************************************)
(* What the connector promises of its transfers, without steps, tables,    *)
(* reports or flushes: ids are given out once and in order, a request has  *)
(* a single load or any number of stores under way, a transfer is over     *)
(* only when every worker has copied its part, and discarding the          *)
(* transfers neither revives one nor stops a copy.                         *)
(***************************************************************************)
EXTENDS Naturals

CONSTANTS
    Ids,         \* transfer ids, an initial segment of the natural numbers
    Owners,      \* requests that transfer
    NumWorkers   \* workers that copy each transfer

VARIABLES
    issued,      \* number of ids given out
    transfer,    \* owner and direction of each transfer under way
    toCopy,      \* workers that have still to copy each transfer
    discards     \* how often all transfers were discarded

vars == <<issued, transfer, toCopy, discards>>

NotUnderWay == [req |-> "none", isStore |-> FALSE]

UnderWay == {j \in Ids : transfer[j] # NotUnderWay}

Init ==
    /\ issued = 0
    /\ transfer = [j \in Ids |-> NotUnderWay]
    /\ toCopy = [j \in Ids |-> 0]
    /\ discards = 0

\* a load is started alone, a store only beside other stores of its request
Start(r, isStore) ==
    /\ issued \in Ids
    /\ \A i \in UnderWay : transfer[i].req = r => isStore /\ transfer[i].isStore
    /\ issued' = issued + 1
    /\ transfer' = [transfer EXCEPT ![issued] = [req |-> r, isStore |-> isStore]]
    /\ toCopy' = [toCopy EXCEPT ![issued] = NumWorkers]
    /\ UNCHANGED discards

\* workers end some copies: one, or at a flush all copies of several transfers
Copy ==
    /\ toCopy' \in [Ids -> 0 .. NumWorkers]
    /\ \A j \in Ids : toCopy'[j] <= toCopy[j]
    /\ UNCHANGED <<issued, transfer, discards>>

\* a transfer is over once every worker has copied it
Finish(j) ==
    /\ j \in UnderWay
    /\ toCopy[j] = 0
    /\ transfer' = [transfer EXCEPT ![j] = NotUnderWay]
    /\ UNCHANGED <<issued, toCopy, discards>>

\* all transfers are forgotten at once, their copies go on
Discard ==
    /\ transfer' = [j \in Ids |-> NotUnderWay]
    /\ discards' = discards + 1
    /\ UNCHANGED <<issued, toCopy>>

Next ==
    \/ \E r \in Owners, isStore \in BOOLEAN : Start(r, isStore)
    \/ Copy
    \/ \E j \in Ids : Finish(j)
    \/ Discard

Spec == Init /\ [][Next]_vars

=============================================================================
