---------------------------- MODULE OffloadLookup ----------------------------
(***************************************************************************)
(* How long a prefix of one request can be loaded, when its KV groups have *)
(* blocks of different sizes: get_num_new_matched_tokens and the loop of   *)
(* _lookup (vllm-fanout-fix/fanout_scheduler.py), one group per step, and  *)
(* the load that update_state_after_alloc makes of its answer.  Here       *)
(* tokens are counted one by one, a chunk is an offloaded block of its     *)
(* group, and the manager may put off an answer (lookup returns None).     *)
(*                                                                         *)
(* OffloadScheduler assumes groups of one size and takes the answer for    *)
(* granted; this module is about how the answer comes about.               *)
(***************************************************************************)
EXTENDS Integers, Sequences, FiniteSets

CONSTANTS
    FullGroups,       \* full-attention groups, in order
    SWGroups,         \* _sliding_window_groups: widest window first
    BlockTokens,      \* gpu_block_size of each group
    BlockSizeFactor,  \* GPU blocks in a chunk
    Window,           \* sliding window of each SW group, in tokens
    NumTokens,        \* possible lengths of the request
    LocalHits,        \* tokens the GPU prefix cache may hold
    MaxUnsettled      \* bound: answers put off, and chunks another request loads

InSeq(s) == {s[i] : i \in DOMAIN s}
Full     == InSeq(FullGroups)
SW       == InSeq(SWGroups)
Groups   == Full \cup SW

CDiv(a, b)    == (a + b - 1) \div b
AtLeast(m, n) == IF n < m THEN m ELSE n
AtMost(m, n)  == IF n > m THEN m ELSE n

\* the greatest member of a finite set of integers
Greatest(S) == CHOOSE x \in S : \A y \in S : y <= x

\* offloaded_block_size
ChunkTokens(g) == BlockTokens[g] * BlockSizeFactor

\* get_sliding_window_size_in_blocks
WindowChunks(g) == CDiv(Window[g], ChunkTokens(g))

ASSUME GroupsAssumption ==
    /\ FullGroups \in Seq(Full) /\ SWGroups \in Seq(SW)
    /\ Groups # {} /\ Full \cap SW = {}
    /\ BlockSizeFactor \in Nat \ {0}
    /\ BlockTokens \in [Groups -> Nat \ {0}]
    /\ Window \in [SW -> Nat \ {0}]
    /\ \A i, j \in DOMAIN SWGroups : i < j => WindowChunks(SWGroups[i]) >= WindowChunks(SWGroups[j])

ASSUME TokensAssumption ==
    /\ NumTokens \subseteq Nat \ {0}
    /\ LocalHits \subseteq Nat
    /\ MaxUnsettled \in Nat

\* a hit in the GPU prefix cache (external) ends a block of every group
ASSUME LocalHitsAssumption ==
    \A l \in LocalHits : \A g \in Groups : l = (l \div BlockTokens[g]) * BlockTokens[g]

VARIABLES
    numTokens,     \* req.num_tokens
    answer,        \* what manager.lookup answers for each chunk (external)
    loading,       \* _blocks_being_loaded, by another request
    pc,            \* where the request is
    local,         \* num_locally_computed_tokens
    maxHit,        \* max_hit_size_tokens
    numHit,        \* num_hit_tokens
    deferLookup,   \* defer_lookup
    lookedUpSW,    \* looked_up_sliding_window
    groupsLeft,    \* groups_iter: groups this pass has still to visit
    nextGroups,    \* lookup_groups: groups of the next pass
    result,        \* what get_num_new_matched_tokens returned
    touched,       \* chunks of the last manager.touch
    toLoad,        \* keys_to_load
    error          \* a failed assertion, or "none"

loopVars == <<maxHit, numHit, deferLookup, lookedUpSW, groupsLeft, nextGroups>>
vars == <<numTokens, answer, loading, pc, local, loopVars, result, touched, toLoad, error>>

-----------------------------------------------------------------------------
\* get_num_new_matched_tokens returned None
Later == -1

\* len(offload_keys) of a request of n tokens
KeysIn(g, n) == n \div ChunkTokens(g)
NumKeys(g)   == KeysIn(g, numTokens)

Chunks(n) == UNION {{g} \X (0 .. KeysIn(g, n) - 1) : g \in Groups}
Chunk     == UNION {Chunks(n) : n \in NumTokens}

Hit(g, c)  == answer[<<g, c>>] = "hit"
Miss(g, c) == answer[<<g, c>>] = "miss"

AnswerNames   == {"hit", "miss", "deferred"}
Hits          == {k \in DOMAIN answer : answer[k] = "hit"}
Deferred(ans) == {k \in DOMAIN ans : ans[k] = "deferred"}

Init ==
    /\ numTokens \in NumTokens
    /\ answer \in {a \in [Chunks(numTokens) -> AnswerNames] : Cardinality(Deferred(a)) <= MaxUnsettled}
    /\ loading \in {{}} \cup {{k} : k \in Hits}
    /\ Cardinality(Deferred(answer)) + Cardinality(loading) <= MaxUnsettled
    /\ pc = "waiting"
    /\ local = 0
    /\ maxHit = 0
    /\ numHit = 0
    /\ deferLookup = FALSE
    /\ lookedUpSW = FALSE
    /\ groupsLeft = <<>>
    /\ nextGroups = <<>>
    /\ result = Later
    /\ touched = {}
    /\ toLoad = {}
    /\ error = "none"

-----------------------------------------------------------------------------
(***************************************************************************)
(* The manager's answers for the chunks from..to-1 of a group.             *)
(***************************************************************************)
\* chunks of from..e-1 that a hit ending at chunk e needs
NeededChunks(g, from, e) == (IF g \in SW THEN AtLeast(from, e - WindowChunks(g)) ELSE from) .. e - 1

(***************************************************************************)
(* _maximal_prefix_lookup stops at the first miss; _sliding_window_lookup  *)
(* scans from the end for a run of hits as long as the window, or a        *)
(* shorter one that starts at `from'.  A deferred answer counts as a hit   *)
(* for the first and as a miss for the second.                             *)
(***************************************************************************)
\* mutant: a shorter run will do anywhere
AnyRunEnds(g, from, to) ==
    {e \in from .. to : \A c \in NeededChunks(g, from, e) : IF g \in SW THEN c = e - 1 => Hit(g, c) ELSE ~Miss(g, c)}

HitEnds(g, from, to) ==
    {e \in from .. to : \A c \in NeededChunks(g, from, e) : IF g \in SW THEN Hit(g, c) ELSE ~Miss(g, c)}

HitEnd(g, from, to) == Greatest(HitEnds(g, from, to))

\* the lookup met a deferred answer and returns None
MetDeferred(g, from, to) ==
    LET end     == HitEnd(g, from, to)
        scanned == IF g \in SW THEN AtLeast(from, end - WindowChunks(g)) .. to - 1 ELSE from .. end - 1
    IN  \E c \in scanned : ~Hit(g, c) /\ ~Miss(g, c)

-----------------------------------------------------------------------------
(***************************************************************************)
(* get_num_new_matched_tokens                                              *)
(***************************************************************************)
\* the last token is recomputed, which a sliding-window hit must allow for
HitBound == IF SWGroups = <<>> THEN numTokens ELSE numTokens - 1

LookupGroups == FullGroups \o SWGroups

\* the engine asks again after every None, with what the GPU holds by then
GetNumNewMatchedTokens ==
    /\ pc = "waiting"
    /\ \E l \in LocalHits : l < numTokens /\ local' = l
    /\ maxHit' = HitBound
    /\ numHit' = 0
    /\ deferLookup' = FALSE
    /\ lookedUpSW' = FALSE
    /\ groupsLeft' = LookupGroups
    /\ nextGroups' = <<>>
    /\ pc' = "lookup"
    /\ UNCHANGED <<numTokens, answer, loading, result, touched, toLoad, error>>

\* mutants: one chunk of the window too many; no lower bound
SkippedTooMany(g, end)   == IF g \in SW THEN AtLeast(0, end \div ChunkTokens(g) - WindowChunks(g) + 1) ELSE 0
SkippedUnbounded(g, end) == IF g \in SW THEN end \div ChunkTokens(g) - WindowChunks(g) ELSE 0

\* blocks_to_skip of _touch, with num_hit_blocks of a hit that ends at `end'
Skipped(g, end) == IF g \in SW THEN AtLeast(0, end \div ChunkTokens(g) - WindowChunks(g)) ELSE 0

Touched(end) == UNION {{g} \X (Skipped(g, end) .. NumKeys(g) - 1) : g \in Groups}

Return(tokens) ==
    /\ result' = tokens
    /\ touched' = Touched(local + AtLeast(0, tokens))
    /\ pc' = IF tokens = Later THEN "waiting" ELSE "alloc"
    /\ UNCHANGED <<numTokens, answer, loading, local, loopVars, toLoad, error>>

First(g) == local \div ChunkTokens(g)

\* max_hit_size_tokens, cut to the chunks the group has keys for
Bound(g) == AtMost(NumKeys(g) * ChunkTokens(g), maxHit)

\* mutant: the chunk at the end of the bound is not asked for
LastWholeChunk(g) == Bound(g) \div ChunkTokens(g)

LastChunk(g) == AtMost(NumKeys(g), CDiv(Bound(g), ChunkTokens(g)))

\* mutant: only the groups after this one see the tighter bound
NeverAgain(shrunk, defer) == nextGroups

\* mutant: again after every sliding-window group but the first
AlwaysAgain(shrunk, defer) == IF lookedUpSW THEN SWGroups ELSE NeverAgain(shrunk, defer)

\* groups to visit again because the hit became shorter
Again(shrunk, defer) ==
    IF shrunk /\ defer THEN LookupGroups
    ELSE IF shrunk /\ lookedUpSW /\ nextGroups = <<>> THEN SWGroups
    ELSE nextGroups

(***************************************************************************)
(* One iteration of the inner loop.                                        *)
(***************************************************************************)
LookupGroup ==
    /\ pc = "lookup" /\ groupsLeft # <<>>
    /\ LET g      == Head(groupsLeft)
           size   == ChunkTokens(g)
           end    == HitEnd(g, First(g), LastChunk(g))
           unsure == MetDeferred(g, First(g), LastChunk(g))
           bound  == IF unsure THEN Bound(g) ELSE AtMost(Bound(g), end * size)
           hit    == bound - local
           shrunk == hit < numHit
           defer  == deferLookup \/ unsure
       IN  IF Bound(g) - local < size \/ (~unsure /\ end = First(g)) \/ hit < size
           THEN Return(0)
           ELSE /\ maxHit' = bound
                /\ numHit' = hit
                /\ nextGroups' = Again(shrunk, defer)
                /\ deferLookup' = (defer /\ ~shrunk)
                /\ lookedUpSW' = (lookedUpSW \/ g \in SW)
                /\ groupsLeft' = Tail(groupsLeft)
                /\ UNCHANGED <<numTokens, answer, loading, pc, local, result, touched, toLoad, error>>

\* the next iteration of the outer loop
NextPass ==
    /\ pc = "lookup" /\ groupsLeft = <<>> /\ nextGroups # <<>>
    /\ groupsLeft' = nextGroups
    /\ nextGroups' = <<>>
    /\ lookedUpSW' = FALSE
    /\ UNCHANGED <<numTokens, answer, loading, pc, local, maxHit, numHit, deferLookup, result,
                   touched, toLoad, error>>

\* mutant: the chunk at the end of the hit is left out
HitKeysRoundedDown(end) ==
    UNION {{g} \X NeededChunks(g, First(g), end \div ChunkTokens(g)) : g \in Groups}

\* the chunks of a hit that ends after `end' tokens
HitKeys(end) ==
    UNION {{g} \X NeededChunks(g, First(g), CDiv(end, ChunkTokens(g))) : g \in Groups}

\* the loop is over: the hit is put off if an answer was, or a load of it is
\* under way
Conclude ==
    /\ pc = "lookup" /\ groupsLeft = <<>> /\ nextGroups = <<>>
    /\ IF deferLookup \/ HitKeys(local + numHit) \cap loading # {} THEN Return(Later) ELSE Return(numHit)

-----------------------------------------------------------------------------
(***************************************************************************)
(* update_state_after_alloc.  The engine (external) gives null blocks for  *)
(* positions no later token attends to, cached ones below `local', and as  *)
(* many as the cached tokens take, which is the first assertion.           *)
(***************************************************************************)
Cached == local + result

GpuBlocks(g) == CDiv(Cached, BlockTokens[g])

\* first block a sliding window of the next token reaches
FirstAttended(g) == IF g \in SW THEN AtLeast(0, Cached - Window[g] + 1) \div BlockTokens[g] ELSE 0

\* num_locally_computed_gpu_blocks
LocalBlocks(g) == AtMost(GpuBlocks(g), AtLeast(local \div BlockTokens[g], FirstAttended(g)))

PendingBlocks(g) == GpuBlocks(g) - LocalBlocks(g)

KeysToLoad ==
    UNION {{g} \X (LocalBlocks(g) \div BlockSizeFactor .. CDiv(Cached, ChunkTokens(g)) - 1) :
             g \in {h \in Groups : PendingBlocks(h) > 0}}

\* the other assertions
AllocError ==
    IF \E g \in Groups : local > LocalBlocks(g) * BlockTokens[g]
    THEN "fewer blocks than tokens on the GPU"
    ELSE IF \E g \in SW : PendingBlocks(g) > WindowChunks(g) * BlockSizeFactor
    THEN "more blocks to load than the window has"
    ELSE IF \E g \in Groups : NumKeys(g) < CDiv(Cached, ChunkTokens(g)) THEN "fewer keys than blocks"
    ELSE "none"

UpdateStateAfterAlloc ==
    /\ pc = "alloc"
    /\ error' = IF result = 0 THEN "none" ELSE AllocError
    /\ toLoad' = IF result = 0 \/ AllocError # "none" THEN {} ELSE KeysToLoad
    /\ pc' = "done"
    /\ UNCHANGED <<numTokens, answer, loading, local, loopVars, result, touched>>

-----------------------------------------------------------------------------
(***************************************************************************)
(* Meanwhile (external): the backend finds an answer it had put off, and   *)
(* the load of the other request ends.                                     *)
(***************************************************************************)
Resolve(k) ==
    /\ pc \in {"waiting", "lookup"} /\ k \in Deferred(answer)
    /\ \E a \in {"hit", "miss"} : answer' = [answer EXCEPT ![k] = a]
    /\ UNCHANGED <<numTokens, loading, pc, local, loopVars, result, touched, toLoad, error>>

LoadEnds ==
    /\ pc = "waiting" /\ loading # {}
    /\ loading' = {}
    /\ UNCHANGED <<numTokens, answer, pc, local, loopVars, result, touched, toLoad, error>>

Done == pc = "done" /\ UNCHANGED vars

Lookup == GetNumNewMatchedTokens \/ LookupGroup \/ NextPass \/ Conclude \/ UpdateStateAfterAlloc

Next == Lookup \/ LoadEnds \/ Done \/ \E k \in Chunk : Resolve(k)

Spec == Init /\ [][Next]_vars

\* the engine asks again, and what was put off or is being loaded ends
FairSpec == Spec /\ WF_vars(Lookup) /\ SF_vars(LoadEnds) /\ WF_vars(\E k \in Chunk : Resolve(k))

-----------------------------------------------------------------------------
(***************************************************************************)
(* Which chunks a store of the same prompt leaves out: alignment_tokens    *)
(* and alignment_block_count of SchedulerOffloadConfig.from_spec, and the  *)
(* selection of _build_store_jobs.                                         *)
(***************************************************************************)
Alignments == {ChunkTokens(g) : g \in Full}

\* the stores of a group leave out chunks: it has several of them, and more
\* than its window, between two ends of full-attention chunks
LeavesOut(g) ==
    /\ g \in SW /\ Cardinality(Alignments) = 1
    /\ \A a \in Alignments : a > ChunkTokens(g) /\ WindowChunks(g) < a \div ChunkTokens(g)

\* mutant: the window is kept at the start of a segment
SelectedFirst(g, c) ==
    LeavesOut(g) => \A a \in Alignments : c % (a \div ChunkTokens(g)) < WindowChunks(g)

Selected(g, c) ==
    LeavesOut(g) => \A a \in Alignments :
        LET count == a \div ChunkTokens(g) IN c % count >= count - WindowChunks(g)

\* what stores of the first n tokens of the prompt leave in the pool
StoredChunks(n) == {k \in Chunk : (k[2] + 1) * ChunkTokens(k[1]) <= n /\ Selected(k[1], k[2])}

-----------------------------------------------------------------------------
(***************************************************************************)
(* Properties.                                                             *)
(***************************************************************************)
Answered    == pc \in {"alloc", "done"}

\* Every variable keeps its type.
TypeOK ==
    /\ numTokens \in NumTokens
    /\ answer \in [Chunks(numTokens) -> AnswerNames]
    /\ loading \subseteq Chunk
    /\ pc \in {"waiting", "lookup", "alloc", "done"}
    /\ local \in Nat
    /\ maxHit \in Int
    /\ numHit \in Nat
    /\ deferLookup \in BOOLEAN
    /\ lookedUpSW \in BOOLEAN
    /\ groupsLeft \in Seq(Groups)
    /\ nextGroups \in Seq(Groups)
    /\ result \in Nat \cup {Later}
    /\ touched \subseteq Groups \X Nat
    /\ toLoad \subseteq Groups \X Nat
    /\ error \in {"none", "fewer blocks than tokens on the GPU",
                  "more blocks to load than the window has", "fewer keys than blocks"}

\* the chunks `has' contains suffice to load every group up to `end'
Servable(has, end) == HitKeys(end) \subseteq has

\* Whatever the order in which groups tighten the bound of each other, and
\* whatever answers were put off: a hit that is returned can be loaded, the
\* chunks it needs of each group are all there.
HitIsServable == Answered /\ result > 0 => Servable(Hits, local + result)

\* No longer hit was given away: a prefix longer than what is returned misses a
\* chunk of some group, whatever the answers still put off will be.
HitIsLongest ==
    Answered => \A end \in local + result + 1 .. HitBound :
        \/ \E g \in Groups : NumKeys(g) * ChunkTokens(g) < end
        \/ result = 0 /\ \E g \in Groups : end - local < ChunkTokens(g)
        \/ ~Servable(Hits \cup Deferred(answer), end)

\* The engine's blocks for a hit and the hit agree: what update_state_after_alloc
\* asserts of the blocks below the hit, of the blocks to load and of the keys
\* holds, and it asks the manager only for chunks the lookup has seen.
LoadsAreConfirmed == error = "none" /\ toLoad \subseteq Hits

\* No chunk is loaded while another load brings it in.
NoLoadTwice == toLoad \cap loading = {}

\* A chunk that is about to be loaded was touched, so that the manager evicts
\* others first.
LoadsAreTouched == toLoad \subseteq touched

\* The chunks that stores leave out are never missed: after the first n tokens
\* of the prompt were stored, a request that holds nothing on the GPU loads all
\* full-attention chunks among them.
StoredPrefixIsHit ==
    \A n \in 0 .. numTokens :
        Answered /\ local = 0 /\ answer = [k \in DOMAIN answer |-> IF k \in StoredChunks(n) THEN "hit" ELSE "miss"]
        => \A a \in Alignments : LET end == AtMost(HitBound, n - (n % a)) IN result = IF end < a THEN 0 ELSE end

\* The loop ends: no round of groups that tighten each other goes on for ever,
\* and a request whose answer is put off is in the end told one.
LookupEnds == <>Answered

=============================================================================
