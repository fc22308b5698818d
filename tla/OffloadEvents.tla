--------------------------- MODULE OffloadEvents ---------------------------
(***************************************************************************)
(* The KV events of the offloading connector                               *)
(* (vllm-fanout-fix/fanout_scheduler.py): the payload captured when a      *)
(* chunk of a full-attention group is stored, the events the offloading    *)
(* manager (external) leaves when its pool stores or evicts chunks, what   *)
(* take_events makes of them, and a consumer that counts references per    *)
(* block hash as dynamo-e2e/decode_capture.py does.                        *)
(*                                                                         *)
(* A hash identifies a block with everything before it, so that the hash   *)
(* of block i of a prompt is the prefix of i + 1 blocks.  A chunk is Factor*)
(* blocks, and its offload key is the hash of the last of them.            *)
(*                                                                         *)
(* Transfers are only as detailed as the events need: a store is issued,   *)
(* reported with the output of a later step, or discarded by reset_cache.  *)
(* Loads send no event; what they pin only makes some evictions impossible.*)
(***************************************************************************)
EXTENDS Integers, Sequences, FiniteSetsExt

CONSTANTS
    Requests,    \* request ids
    Prompt,      \* the prompt of each request, a sequence of blocks
    Factor,      \* hash_block_size_factor: blocks in a chunk
    Capacity,    \* chunks the CPU pool holds
    Async,       \* two steps may be scheduled before an output is read
    MaxStores,   \* bound: the manager refuses stores after so many
    MaxResets    \* bound: how often reset_cache is called

ASSUME EventsAssumption ==
    /\ IsFiniteSet(Requests)
    /\ \A r \in Requests : Prompt[r] \in Seq(Range(Prompt[r]))
    /\ Factor \in Nat \ {0}
    /\ Capacity \in Nat
    /\ Async \in BOOLEAN
    /\ MaxStores \in Nat
    /\ MaxResets \in Nat

VARIABLES
    (* the engine (external) *)
    pc,          \* where the engine core is in its loop
    steps,       \* steps scheduled whose output has not been read
    toStore,     \* requests _build_store_jobs has still to visit
    (* the connector *)
    nextStored,  \* next_stored_block_idx of each request
    payloads,    \* keys of _pending_event_metadata
    (* the offloading manager (external) *)
    storing,     \* stores in flight: their keys, and the steps they are old
    ready,       \* chunks stored
    events,      \* its events not yet taken
    stores,      \* stores issued so far
    resets,      \* reset_cache calls so far
    (* the consumer *)
    live,        \* cpu_live: references to each hash
    seen,        \* cpu_seen_hashes: every hash ever announced
    parents,     \* cpu_parents without None
    (* observation only *)
    overtaken    \* a chunk was stored again before its removal was taken

engineVars   == <<pc, steps, toStore>>
poolVars     == <<storing, ready, stores, resets>>
consumerVars == <<live, seen, parents>>
vars == <<engineVars, nextStored, payloads, poolVars, events, consumerVars, overtaken>>

-----------------------------------------------------------------------------
Hashes    == UNION {{SubSeq(Prompt[r], 1, i) : i \in 1 .. Len(Prompt[r])} : r \in Requests}
Chunks(r) == Len(Prompt[r]) \div Factor
Key(r, c) == SubSeq(Prompt[r], 1, (c + 1) * Factor)
Keys      == UNION {{Key(r, c) : c \in 0 .. Chunks(r) - 1} : r \in Requests}

\* _build_event_metadata: the hashes of a chunk, and the hash before it
BlockHashes(k)     == {SubSeq(k, 1, i) : i \in Len(k) - Factor + 1 .. Len(k)}
ParentBlockHash(k) == SubSeq(k, 1, Len(k) - Factor)     \* <<>>: None

Event(removed, keys) == [removed |-> removed, keys |-> keys]
Events == [removed : BOOLEAN, keys : SUBSET Keys]

KeysInFlight  == UNION {s.keys : s \in storing}
Held          == ready \cup KeysInFlight
Awaiting(rem) == UNION {e.keys : e \in {e \in Range(events) : e.removed = rem}}

Init ==
    /\ pc = "idle" /\ steps = 0 /\ toStore = {}
    /\ nextStored = [r \in Requests |-> 0]
    /\ payloads = {}
    /\ storing = {} /\ ready = {} /\ events = <<>> /\ stores = 0 /\ resets = 0
    /\ live = [h \in Hashes |-> 0] /\ seen = {} /\ parents = {}
    /\ overtaken = FALSE

-----------------------------------------------------------------------------
(***************************************************************************)
(* A step: some requests are scheduled, and _build_store_jobs visits each. *)
(***************************************************************************)
StartStep(scheduled) ==
    /\ pc = "idle" /\ steps < (IF Async THEN 2 ELSE 1)
    /\ pc' = "store"
    /\ steps' = steps + 1
    /\ toStore' = scheduled
    /\ storing' = {[s EXCEPT !.age = IF @ < 2 THEN @ + 1 ELSE 2] : s \in storing}
    /\ UNCHANGED <<nextStored, payloads, ready, stores, resets, events, consumerVars, overtaken>>

\* update_state_after_alloc with the policy BLOCK_LEVEL: a request that loads
\* its first c chunks does not offer them again
LoadHit(r, c) ==
    /\ pc = "idle" /\ c > 0
    /\ \A i \in 0 .. c - 1 : Key(r, i) \in ready
    /\ nextStored' = [nextStored EXCEPT ![r] = c]
    /\ UNCHANGED <<engineVars, payloads, poolVars, events, consumerVars, overtaken>>

\* prepare_store: the chunks evicted for the new ones; none if it refuses
Evictions(new) ==
    LET excess == Cardinality(Held \cup new) - Capacity
    IN  IF stores = MaxStores THEN {}
        ELSE IF excess <= 0 THEN {{}} ELSE kSubset(excess, ready \ new)

PayloadsWith(new, keys) == payloads \cup keys

IssueStore(new, keys, evicted) ==
    /\ stores' = stores + 1
    /\ storing' = storing \cup {[keys |-> keys, age |-> 0]}
    /\ ready' = ready \ evicted
    /\ events' = IF evicted = {} THEN events ELSE Append(events, Event(TRUE, evicted))
    /\ payloads' = PayloadsWith(new, keys)
    /\ overtaken' = (overtaken \/ keys \cap Awaiting(TRUE) # {})

\* mutant: the index also advances over chunks that were refused
AdvancedWhenRefused(r, end) == [nextStored EXCEPT ![r] = end]

AfterRefusal(r, end) == nextStored

\* mutant: off by one
AdvancedTooLittle(r, end) == [nextStored EXCEPT ![r] = end - 1]

\* advance_stored_idx
Advanced(r, end) == [nextStored EXCEPT ![r] = end]

(***************************************************************************)
(* The iteration of _build_store_jobs for a request with `end' chunks      *)
(* computed.  A preempted request starts again from what the GPU prefix    *)
(* cache still has of it, so that `end' may also be less than before.      *)
(***************************************************************************)
StoreJobs(r, end) ==
    LET new  == {Key(r, c) : c \in nextStored[r] .. end - 1}
        keys == new \ Held
    IN  /\ pc = "store" /\ r \in toStore
        /\ toStore' = toStore \ {r}
        /\ \/ /\ keys = {}
              /\ nextStored' = Advanced(r, end)
              /\ UNCHANGED <<payloads, poolVars, events, overtaken>>
           \/ /\ keys # {} /\ Evictions(new) = {}
              /\ nextStored' = AfterRefusal(r, end)
              /\ UNCHANGED <<payloads, poolVars, events, overtaken>>
           \/ /\ keys # {}
              /\ \E evicted \in Evictions(new) : IssueStore(new, keys, evicted)
              /\ nextStored' = Advanced(r, end)
              /\ UNCHANGED resets
        /\ UNCHANGED <<pc, steps, consumerVars>>

EndConnectorMeta ==
    /\ pc = "store" /\ toStore = {}
    /\ pc' = "idle"
    /\ UNCHANGED <<steps, toStore, nextStored, payloads, poolVars, events, consumerVars, overtaken>>

-----------------------------------------------------------------------------
(***************************************************************************)
(* The output of a step: update_connector_output completes the stores it   *)
(* reports, then the engine drains take_events.  The workers start a store *)
(* with the step after the one that issued it, so that the output of a     *)
(* step reports only stores of earlier ones.                               *)
(***************************************************************************)
TakeOutput ==
    /\ pc = "idle" /\ steps > 0
    /\ pc' = "output"
    /\ UNCHANGED <<steps, toStore, nextStored, payloads, poolVars, events, consumerVars, overtaken>>

CompleteStore(s) ==
    /\ pc = "output" /\ s \in storing /\ s.age >= steps
    /\ storing' = storing \ {s}
    /\ ready' = ready \cup s.keys
    /\ events' = Append(events, Event(FALSE, s.keys))
    /\ UNCHANGED <<engineVars, nextStored, payloads, stores, resets, consumerVars, overtaken>>

BeginDrain ==
    /\ pc = "output"
    /\ pc' = "drain"
    /\ UNCHANGED <<steps, toStore, nextStored, payloads, poolVars, events, consumerVars, overtaken>>

\* _take_stored_event: a chunk without a payload is announced by a placeholder,
\* which the consumer skips
Announced(e) == e.keys \cap payloads

\* mutant: a chunk without a payload is not removed at all
RemovedIfKnown(k) == IF k \in payloads THEN BlockHashes(k) ELSE {}

\* _take_removed_event: the hashes named for a chunk
RemovedHashes(k) == IF k \in payloads THEN BlockHashes(k) ELSE {k}

\* mutant: the last hash only, as before the fan-out
TailHash(k) == {k}

\* _take_stored_event: the hashes a chunk with a payload is announced with
StoredHashes(k) == BlockHashes(k)

ConsumeStored(e) ==
    /\ live' = [h \in Hashes |-> live[h] + Cardinality({k \in Announced(e) : h \in StoredHashes(k)})]
    /\ seen' = seen \cup UNION {StoredHashes(k) : k \in Announced(e)}
    /\ parents' = parents \cup ({ParentBlockHash(k) : k \in Announced(e)} \ {<<>>})

ConsumeRemoved(e) ==
    LET named(h) == Cardinality({k \in e.keys : h \in RemovedHashes(k)})
    IN  /\ live' = [h \in Hashes |-> IF live[h] > named(h) THEN live[h] - named(h) ELSE 0]
        /\ UNCHANGED <<seen, parents>>

\* either way the payloads of the event's keys are popped
TakeEvent ==
    /\ pc = "drain" /\ events # <<>>
    /\ IF Head(events).removed THEN ConsumeRemoved(Head(events)) ELSE ConsumeStored(Head(events))
    /\ payloads' = payloads \ Head(events).keys
    /\ events' = Tail(events)
    /\ UNCHANGED <<engineVars, nextStored, poolVars, overtaken>>

EndDrain ==
    /\ pc = "drain" /\ events = <<>>
    /\ pc' = "idle"
    /\ steps' = steps - 1
    /\ UNCHANGED <<toStore, nextStored, payloads, poolVars, events, consumerVars, overtaken>>

-----------------------------------------------------------------------------
(***************************************************************************)
(* reset_cache.  Whether the manager drops its events is not in this       *)
(* repository: either.                                                     *)
(***************************************************************************)
\* mutant: reset_cache leaves the payloads
PayloadsKept == payloads

PayloadsAfterReset == {}

ResetCache ==
    /\ pc = "idle" /\ resets < MaxResets
    /\ resets' = resets + 1
    /\ storing' = {} /\ ready' = {}
    /\ events' \in {events, <<>>}
    /\ nextStored' = [r \in Requests |-> 0]
    /\ payloads' = PayloadsAfterReset
    /\ UNCHANGED <<engineVars, stores, consumerVars, overtaken>>

Next ==
    \/ \E scheduled \in SUBSET Requests : StartStep(scheduled)
    \/ \E r \in Requests : \E c \in 0 .. Chunks(r) : LoadHit(r, c) \/ StoreJobs(r, c)
    \/ EndConnectorMeta
    \/ TakeOutput
    \/ \E s \in storing : CompleteStore(s)
    \/ BeginDrain
    \/ TakeEvent
    \/ EndDrain
    \/ ResetCache

Spec == Init /\ [][Next]_vars

-----------------------------------------------------------------------------
\* Every variable keeps its type.
TypeOK ==
    /\ pc \in {"idle", "store", "output", "drain"}
    /\ steps \in 0 .. 2 /\ (pc \in {"output", "drain"} => steps > 0)
    /\ toStore \subseteq Requests
    /\ nextStored \in [Requests -> Nat]
    /\ payloads \subseteq Keys
    /\ storing \subseteq [keys : SUBSET Keys, age : 0 .. 2]
    /\ ready \subseteq Keys
    /\ events \in Seq(Events)
    /\ stores \in 0 .. MaxStores
    /\ resets \in 0 .. MaxResets
    /\ live \in [Hashes -> Nat]
    /\ seen \subseteq Hashes
    /\ parents \subseteq Hashes
    /\ overtaken \in BOOLEAN

\* The side table is bounded by the stores in flight: it holds a payload only
\* for a chunk that is being stored, or whose stored event is still to be taken.
\* No sequence of stores, evictions, reports and resets leaves one behind.
PayloadsBelongToStores == payloads \subseteq KeysInFlight \cup Awaiting(FALSE)

(***************************************************************************)
(* Unless a chunk was stored again before its removal was taken (or the    *)
(* cache was reset), the consumer has every block of every chunk that the  *)
(* pool holds and was announced: a chunk fans out into all its hashes, and *)
(* the removal of a chunk that shares blocks with another leaves the       *)
(* references of the other.                                                *)
(***************************************************************************)
ResidentChunksAreIndexed ==
    ~overtaken /\ resets = 0 =>
        \A k \in ready \ Awaiting(FALSE) : \A h \in BlockHashes(k) : live[h] > 0

\* The last hash of a chunk is credited only while the pool holds the chunk or
\* its removal is still to be taken, and is never counted twice, however often
\* the chunk was evicted and stored again and with or without its payload.
TailsNotOvercredited ==
    resets = 0 => \A k \in Keys :
        /\ live[k] <= 1
        /\ live[k] = 1 => k \in ready \cup Awaiting(TRUE)

\* Check 3 of decode_capture.py over the whole stream: the parent of every
\* announced chunk was announced, or its own store is still under way.
ParentsAreAnnounced ==
    resets = 0 => parents \subseteq seen \cup KeysInFlight \cup Awaiting(FALSE)

-----------------------------------------------------------------------------
(***************************************************************************)
(* What documents say of the events, and the code does not do.             *)
(***************************************************************************)
\* Check 4 of decode_capture.py: every removed hash was stored before and not
\* removed since.
RemovedHashesWereStored ==
    pc = "drain" /\ events # <<>> /\ Head(events).removed =>
        \A k \in Head(events).keys : \A h \in RemovedHashes(k) : live[h] > 0

=============================================================================
