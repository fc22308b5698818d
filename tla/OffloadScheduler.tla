-------------------------- MODULE OffloadScheduler --------------------------
(***************************************************************************)
(* The scheduler side of the KV offloading connector                       *)
(* (vllm-fanout-fix/fanout_scheduler.py, OffloadingConnectorScheduler),    *)
(* together with the parts it talks to: the engine that schedules          *)
(* requests and hands out GPU blocks, the workers that copy blocks between *)
(* GPU and CPU, and the offloading manager that owns the CPU pool.  Those  *)
(* three are external: only what the connector relies on is modelled.      *)
(*                                                                         *)
(* Token counts are measured in GPU blocks.  Every group has the same GPU  *)
(* block size, and a chunk (the unit that is offloaded) is                 *)
(* BlockSizeFactor consecutive GPU blocks.                                 *)
(*                                                                         *)
(* A definition marked `mutant' is not part of the specification: it is a  *)
(* plausible bug in the definition after it, and PROJECT.json names the    *)
(* property that a run finds violated when it takes that definition's      *)
(* place.                                                                  *)
(***************************************************************************)
EXTENDS Integers, Sequences, FiniteSetsExt

CONSTANTS
    Requests,         \* request ids the client may submit
    Blocks,           \* GPU block ids, the null block excluded
    NullBlock,        \* block id 0: a skipped or zeroed entry
    FullGroups,       \* KV groups with full attention
    SWGroups,         \* KV groups with a sliding window
    Prompt,           \* the token sequence of each request
    PromptLen,        \* full blocks of a prompt
    MaxLen,           \* blocks after which a request computes no more
    OffloadLimit,     \* offload_prompt_only and max_offload_tokens, in blocks
    BlockSizeFactor,  \* GPU blocks in a chunk
    Window,           \* sliding window, in GPU blocks
    MaxChunk,         \* most blocks a request computes in one step
    NumWorkers,       \* world size: workers that report each job
    Capacity,         \* chunks the CPU pool holds
    BlockLevel,       \* OffloadPolicy.BLOCK_LEVEL (else REQUEST_LEVEL)
    PrefixCaching,    \* cache_config.enable_prefix_caching
    Async,            \* async scheduling: a step is scheduled before the
                      \* output of the previous one is processed
    MaxJobs,          \* bound: the manager refuses transfers after so many
    MaxResets         \* bound: how often reset_cache is called

Groups == FullGroups \cup SWGroups

ASSUME SetsAssumption ==
    /\ NullBlock \notin Blocks
    /\ FullGroups \cap SWGroups = {}
    /\ "none" \notin Requests
    /\ IsFiniteSet(Blocks)

ASSUME CountsAssumption ==
    /\ PromptLen \in Nat \ {0}
    /\ MaxLen \in Nat /\ PromptLen < MaxLen
    /\ OffloadLimit \in Nat
    /\ BlockSizeFactor \in Nat \ {0}
    /\ Window \in Nat \ {0}
    /\ MaxChunk \in Nat \ {0}
    /\ NumWorkers \in Nat \ {0}
    /\ Capacity \in Nat
    /\ MaxJobs \in Nat
    /\ MaxResets \in Nat

ASSUME FlagsAssumption ==
    /\ BlockLevel \in BOOLEAN
    /\ PrefixCaching \in BOOLEAN
    /\ Async \in BOOLEAN

VARIABLES
    (* the engine (external) *)
    pc,            \* where the engine core is in its loop
    phase,         \* life cycle of each request
    computed,      \* num_computed_tokens of each request
    table,         \* block table the KV cache manager keeps per request
    content,       \* whose KV data each GPU block holds
    sched,         \* the SchedulerOutput under construction
    preempted,     \* its preempted_req_ids
    finishedIds,   \* TRUE: finished ids still to be sent with a next step
    (* the connector *)
    tracked,       \* keys of _req_status
    blockIds,      \* RequestGroupState.block_ids
    nextStored,    \* RequestGroupState.next_stored_block_idx
    transferJobs,  \* RequestOffloadState.transfer_jobs
    jobs,          \* keys of _jobs
    job,           \* what each job transfers, fixed when it is created
    pending,       \* TransferJobStatus.pending_count
    pendingJobs,   \* _block_id_to_pending_jobs ({} where there is no entry)
    jobCounter,    \* _job_counter
    staleJob,      \* _stale_job_threshold
    batchLoads,    \* _current_batch_load_jobs
    batchStores,   \* store_jobs of _build_store_jobs, while it runs
    toFlush,       \* _current_batch_jobs_to_flush
    allocated,     \* _current_batch_allocated_block_ids
    loading,       \* _blocks_being_loaded
    toStore,       \* requests _build_store_jobs has still to visit
    error,         \* the exception that ended the engine, or "none"
    (* the workers (external) *)
    left,          \* workers still transferring each job
    done,          \* workers done with each job and not yet reported
    outputs,       \* reports of executed steps the engine has not read
    report,        \* the report update_connector_output is reading
    (* the offloading manager (external) *)
    ready,         \* chunks stored and loadable
    stored,        \* which blocks of a chunk its last store copied
    resets         \* reset_cache calls so far

engineVars    == <<phase, computed, table, content, sched, preempted, finishedIds>>
requestVars   == <<tracked, blockIds, nextStored>>
jobVars       == <<transferJobs, jobs, job, pending, pendingJobs, jobCounter>>
batchVars     == <<batchLoads, batchStores, toFlush, allocated, toStore>>
workerVars    == <<left, done, outputs, report>>
managerVars   == <<ready, stored>>
vars == <<pc, engineVars, requestVars, jobVars, batchVars, workerVars, managerVars,
          staleJob, loading, error, resets>>

-----------------------------------------------------------------------------
(***************************************************************************)
(* Values.                                                                 *)
(***************************************************************************)
BlockId  == Blocks \cup {NullBlock}
JobIds   == 0 .. MaxJobs - 1
Prompts  == {Prompt[r] : r \in Requests}
Keys     == Prompts \X Groups \X Nat     \* OffloadKey: chain hash and group
Nothing  == <<>>                         \* content of a block never filled

Phases   == {"unborn", "waiting", "loading", "loaded", "running", "finished"}

\* make_offload_key: equal prefixes have equal keys
Key(r, g, c) == <<Prompt[r], g, c>>

\* the KV data of position p of a request in a group
Data(r, g, p) == <<Prompt[r], g, p>>

ChunkOf(p)    == p \div BlockSizeFactor
CDiv(a, b)    == (a + b - 1) \div b
AtLeast0(n)   == IF n < 0 THEN 0 ELSE n
AtLeast(m, n) == IF n < m THEN m ELSE n
AtMost(m, n)  == IF n > m THEN m ELSE n

\* get_sliding_window_size_in_blocks, in chunks
WindowChunks == CDiv(Window, BlockSizeFactor)

EmptyTable   == [g \in Groups |-> <<>>]
NotScheduled == [n |-> 0, fresh |-> FALSE, new |-> EmptyTable]
NoJob        == [req |-> "none", isStore |-> FALSE, keys |-> {}, copies |-> {}]
NoReport     == [j \in JobIds |-> 0]

Scheduled == {r \in Requests : sched[r].n > 0}
Finished(r) == phase[r] = "finished"
Live(r)   == phase[r] \notin {"unborn", "finished"}

\* TransferJobStatus.sliding_window_block_ids and non_sliding_window_block_ids:
\* a sliding-window block may be freed while its request runs, no other may
SWBlocks(j)   == {c[3] : c \in {d \in job[j].copies : d[1] \in SWGroups}}
FullBlocks(j) == {c[3] : c \in {d \in job[j].copies : d[1] \notin SWGroups}}

Init ==
    /\ pc = "idle"
    /\ phase = [r \in Requests |-> "unborn"]
    /\ computed = [r \in Requests |-> 0]
    /\ table = [r \in Requests |-> EmptyTable]
    /\ content = [b \in Blocks |-> Nothing]
    /\ sched = [r \in Requests |-> NotScheduled]
    /\ preempted = {}
    /\ finishedIds = FALSE
    /\ tracked = {}
    /\ blockIds = [r \in Requests |-> EmptyTable]
    /\ nextStored = [r \in Requests |-> [g \in Groups |-> 0]]
    /\ transferJobs = [r \in Requests |-> {}]
    /\ jobs = {}
    /\ job = [j \in JobIds |-> NoJob]
    /\ pending = [j \in JobIds |-> 0]
    /\ pendingJobs = [b \in Blocks |-> {}]
    /\ jobCounter = 0
    /\ staleJob = 0
    /\ batchLoads = {}
    /\ batchStores = {}
    /\ toFlush = {}
    /\ allocated = {}
    /\ loading = {}
    /\ toStore = {}
    /\ error = "none"
    /\ left = NoReport
    /\ done = NoReport
    /\ outputs = <<>>
    /\ report = NoReport
    /\ ready = {}
    /\ stored = {}
    /\ resets = 0

\* An exception leaves the engine core's loop: nothing runs after it.
Raise(what) ==
    /\ error' = what
    /\ pc' = "dead"
    /\ UNCHANGED <<engineVars, requestVars, jobVars, batchVars, workerVars,
                   managerVars, staleJob, loading, resets>>

-----------------------------------------------------------------------------
(***************************************************************************)
(* The KV cache manager (external): block tables, the GPU prefix cache and *)
(* the blocks a request can be given.                                      *)
(***************************************************************************)
TableBlocks(t) == {b \in Blocks : \E g \in Groups : \E i \in DOMAIN t[g] : t[g][i] = b}
Free           == Blocks \ UNION {TableBlocks(table[r]) : r \in Requests}

\* positions of group g that a request still needs once n blocks are computed
Needed(g, n) == IF g \in SWGroups THEN AtLeast0(n - Window) .. n - 1 ELSE 0 .. n - 1

Cached(r, g, p) == \E b \in Blocks : content[b] = Data(r, g, p)

\* the first n blocks of r are in the GPU prefix cache
PrefixCached(r, n) ==
    n > 0 => PrefixCaching /\ \A g \in Groups : \A p \in Needed(g, n) : Cached(r, g, p)

\* num_computed_tokens of get_num_new_matched_tokens: the longest such prefix
LocalHit(r, n) == PrefixCached(r, n) /\ \A m \in n + 1 .. PromptLen : ~PrefixCached(r, m)

(***************************************************************************)
(* The tables a request may be given: cached blocks below `local', null    *)
(* blocks where no group member needs the position, free blocks elsewhere. *)
(***************************************************************************)
TablesFor(r, local, hit, end) ==
    LET slots(g)  == (Needed(g, hit) \cup hit .. end - 1)
        used      == {s \in Groups \X (0 .. end - 1) : s[2] \in slots(s[1])}
        cachedAt  == {s \in used : s[2] < local}
        freshAt   == {s \in used : s[2] >= local}
        hitBlocks == {f \in [cachedAt -> Blocks] :
                        \A s \in cachedAt : content[f[s]] = Data(r, s[1], s[2])}
        entry(f, h, s) == CASE s \in cachedAt -> h[s]
                            [] s \in freshAt  -> f[s]
                            [] OTHER          -> NullBlock
    IN  UNION {{[g \in Groups |-> [i \in 1 .. end |-> entry(f, h, <<g, i - 1>>)]] :
                  f \in Injection(freshAt, Free \ Range(h))} : h \in hitBlocks}

\* the blocks a running request may be given for n more positions, after the
\* blocks that left the window are freed
Skipped(r) == [g \in Groups |-> [i \in DOMAIN table[r][g] |->
                 IF i - 1 \in Needed(g, computed[r]) THEN table[r][g][i] ELSE NullBlock]]

Extensions(r, n) ==
    LET free  == Blocks \ UNION {TableBlocks(IF q = r THEN Skipped(r) ELSE table[q]) : q \in Requests}
        slots == Groups \X (1 .. n)
    IN  {[g \in Groups |-> [i \in 1 .. n |-> f[<<g, i>>]]] : f \in Injection(slots, free)}

Concat(t, u) == [g \in Groups |-> t[g] \o u[g]]

\* blocks of a new table that hold no data of the request yet
Claimed(t, from) == {b \in Blocks : \E g \in Groups : \E i \in DOMAIN t[g] : i > from /\ t[g][i] = b}

Overwritten(bs) == [b \in Blocks |-> IF b \in bs THEN Nothing ELSE content[b]]

-----------------------------------------------------------------------------
(***************************************************************************)
(* The offloading manager (external): which chunks it holds, which of them *)
(* transfers pin, and what it answers.                                     *)
(***************************************************************************)
KeysOf(store) == UNION {job[j].keys : j \in {i \in jobs : job[i].isStore = store}}
Held          == ready \cup KeysOf(TRUE)
Evictable(ks) == ready \ (KeysOf(FALSE) \cup ks)

\* chunks that prepare_store evicts to make room for ks; none if it cannot
Evictions(ks) ==
    LET excess == Cardinality(Held \cup ks) - Capacity
    IN  IF jobCounter = MaxJobs THEN {}
        ELSE IF excess <= 0 THEN {{}} ELSE kSubset(excess, Evictable(ks))

(***************************************************************************)
(* _lookup: the tokens beyond `local' that can be loaded.  A full-attention*)
(* group needs every chunk of the hit, a sliding-window group only the     *)
(* last WindowChunks of it; less than one chunk is not worth a load.       *)
(***************************************************************************)
HitChunks(g, c, start) == (IF g \in SWGroups THEN AtLeast(start, c - WindowChunks) ELSE start) .. c - 1

HitKeys(r, c, local) ==
    UNION {{Key(r, g, i) : i \in HitChunks(g, c, ChunkOf(local))} : g \in Groups}

\* the first c chunks of r can be loaded
Loadable(r, local, c) ==
    /\ c * BlockSizeFactor - local >= BlockSizeFactor
    /\ HitKeys(r, c, local) \subseteq ready

LoadableChunks(r, local) == {c \in 1 .. ChunkOf(PromptLen) : Loadable(r, local, c)}

\* mutant: a hit is never delayed
NeverDelayed(r, local, c) == FALSE

\* the hit is delayed while one of its chunks is being loaded
BeingLoaded(r, local, c) == HitKeys(r, c, local) \cap loading # {}

-----------------------------------------------------------------------------
(***************************************************************************)
(* on_new_request                                                          *)
(***************************************************************************)
OnNewRequest(r) ==
    /\ pc = "idle"
    /\ phase[r] = "unborn"
    /\ phase' = [phase EXCEPT ![r] = "waiting"]
    /\ tracked' = tracked \cup {r}
    /\ UNCHANGED <<pc, computed, table, content, sched, preempted, finishedIds, blockIds,
                   nextStored, jobVars, batchVars, workerVars, managerVars, staleJob,
                   loading, error, resets>>

-----------------------------------------------------------------------------
(***************************************************************************)
(* One engine step.  The engine core is single-threaded: schedule() runs   *)
(* from StartStep to EndConnectorMeta without reading worker output.       *)
(***************************************************************************)
HasWork == finishedIds \/ \E r \in Requests : Live(r)

StartStep ==
    /\ pc = "idle"
    /\ HasWork
    /\ Len(outputs) < (IF Async THEN 2 ELSE 1)
    /\ pc' = "schedule"
    /\ finishedIds' = FALSE
    /\ UNCHANGED <<phase, computed, table, content, sched, preempted, requestVars, jobVars,
                   batchVars, workerVars, managerVars, staleJob, loading, error, resets>>

\* the engine (external) gives r the table t and lets it compute n blocks
StartOn(r, t, local, n) ==
    /\ table' = [table EXCEPT ![r] = t]
    /\ sched' = [sched EXCEPT ![r] = [n |-> n, fresh |-> TRUE, new |-> t]]
    /\ content' = Overwritten(Claimed(t, local))
    /\ computed' = [computed EXCEPT ![r] = local]
    /\ phase' = [phase EXCEPT ![r] = "running"]

\* the engine (external) gives r the table t and waits for the load of `hit' blocks
LoadInto(r, t, local, hit) ==
    /\ table' = [table EXCEPT ![r] = t]
    /\ content' = Overwritten(Claimed(t, local))
    /\ computed' = [computed EXCEPT ![r] = hit]
    /\ phase' = [phase EXCEPT ![r] = "loading"]

\* a request that has to be given a first or a new block table
Admissible(r) == pc = "schedule" /\ phase[r] = "waiting" /\ preempted = {} /\ sched[r].n = 0

(***************************************************************************)
(* get_num_new_matched_tokens answers None, or the engine has no blocks    *)
(* for the request: it stays in the queue, its block ids already cleared.  *)
(***************************************************************************)
NotAdmitted(r) ==
    /\ Admissible(r)
    /\ blockIds' = [blockIds EXCEPT ![r] = EmptyTable]
    /\ UNCHANGED <<pc, engineVars, tracked, nextStored, jobVars, batchVars, workerVars,
                   managerVars, staleJob, loading, error, resets>>

(***************************************************************************)
(* get_num_new_matched_tokens finds no external hit; the request computes  *)
(* n blocks after its GPU prefix hit.  update_state_after_alloc returns at *)
(* once: the new blocks reach the connector with the SchedulerOutput.      *)
(***************************************************************************)
AdmitWithoutLoad(r, n) ==
    \E local \in 0 .. PromptLen :
        /\ Admissible(r)
        /\ LocalHit(r, local)
        /\ LoadableChunks(r, local) = {}
        /\ local + n <= MaxLen
        /\ \E t \in TablesFor(r, local, local, local + n) : StartOn(r, t, local, n)
        /\ blockIds' = [blockIds EXCEPT ![r] = EmptyTable]
        /\ UNCHANGED <<pc, preempted, finishedIds, tracked, nextStored, jobVars, batchVars,
                       workerVars, managerVars, staleJob, loading, error, resets>>

(***************************************************************************)
(* get_num_new_matched_tokens finds a hit and update_state_after_alloc     *)
(* issues the load of everything above the GPU prefix hit.  What it        *)
(* asserts of the shape of the blocks and of the number of keys holds by   *)
(* the form of TablesFor, with groups of one block size; OffloadLookup     *)
(* models those assertions for groups of different sizes.                  *)
(***************************************************************************)
LoadCopies(t, local, hit) ==
    {<<s[1], s[2], t[s[1]][s[2] + 1]>> : s \in
        {s \in Groups \X (local .. hit - 1) : t[s[1]][s[2] + 1] \in Blocks}}

\* from the chunk of the first copied block to the end of the hit
LoadKeys(r, copies, c) ==
    {Key(r, s[1], s[2]) : s \in
        {s \in Groups \X (0 .. c - 1) : \E d \in copies : d[1] = s[1] /\ ChunkOf(d[2]) <= s[2]}}

\* mutant: the first worker's report completes a job
OneReport == 1

\* pending_count of a new job
ReportsExpected == NumWorkers

\* create a job of request r; the caller says what else changes
NewJob(r, isStore, keys, copies) ==
    /\ jobCounter' = jobCounter + 1
    /\ jobs' = jobs \cup {jobCounter}
    /\ job' = [job EXCEPT ![jobCounter] =
                 [req |-> r, isStore |-> isStore, keys |-> keys, copies |-> copies]]
    /\ pending' = [pending EXCEPT ![jobCounter] = ReportsExpected]
    /\ transferJobs' = [transferJobs EXCEPT ![r] = @ \cup {jobCounter}]

\* mutant: the job is not handed to the workers
IssueUnsentLoad(r, t, local, c) ==
    LET copies == LoadCopies(t, local, c * BlockSizeFactor)
        keys   == LoadKeys(r, copies, c)
    IN  /\ NewJob(r, FALSE, keys, copies)
        /\ loading' = IF PrefixCaching THEN loading \cup keys ELSE loading
        /\ allocated' = allocated \cup TableBlocks(t)
        /\ nextStored' = IF BlockLevel THEN [nextStored EXCEPT ![r] = [g \in Groups |-> c]]
                                       ELSE nextStored
        /\ UNCHANGED <<pendingJobs, batchLoads, batchStores, toFlush, toStore>>

IssueLoad(r, t, local, c) ==
    LET copies == LoadCopies(t, local, c * BlockSizeFactor)
        keys   == LoadKeys(r, copies, c)
    IN  /\ NewJob(r, FALSE, keys, copies)
        /\ batchLoads' = batchLoads \cup {jobCounter}
        /\ loading' = IF PrefixCaching THEN loading \cup keys ELSE loading
        /\ allocated' = allocated \cup TableBlocks(t)
        /\ nextStored' = IF BlockLevel THEN [nextStored EXCEPT ![r] = [g \in Groups |-> c]]
                                       ELSE nextStored
        /\ UNCHANGED <<pendingJobs, batchStores, toFlush, toStore>>

AdmitWithLoad(r) ==
    \E local \in 0 .. PromptLen :
      \E c \in LoadableChunks(r, local) :
        LET hit == c * BlockSizeFactor
        IN  /\ Admissible(r)
            /\ LocalHit(r, local)
            /\ \A d \in LoadableChunks(r, local) : d <= c
            /\ ~BeingLoaded(r, local, c)
            /\ jobCounter < MaxJobs
            /\ \E t \in TablesFor(r, local, hit, hit) :
                  IF transferJobs[r] # {}
                  THEN Raise("load issued while jobs are pending")
                  ELSE /\ IssueLoad(r, t, local, c)
                       /\ LoadInto(r, t, local, hit)
                       /\ blockIds' = [blockIds EXCEPT ![r] = EmptyTable]
                       /\ UNCHANGED <<pc, sched, preempted, finishedIds, tracked, workerVars,
                                      managerVars, staleJob, error, resets>>

\* a request whose load has arrived computes its first blocks; the connector
\* is told the whole table, as for a new or a resumed request
ScheduleLoaded(r, n) ==
    /\ pc = "schedule" /\ phase[r] = "loaded" /\ preempted = {}
    /\ computed[r] + n <= MaxLen
    /\ \E e \in Extensions(r, n) :
          LET t == Concat(Skipped(r), e)
          IN  /\ table' = [table EXCEPT ![r] = t]
              /\ sched' = [sched EXCEPT ![r] = [n |-> n, fresh |-> TRUE, new |-> t]]
              /\ content' = Overwritten(TableBlocks(e))
    /\ phase' = [phase EXCEPT ![r] = "running"]
    /\ UNCHANGED <<pc, computed, preempted, finishedIds, requestVars, jobVars, batchVars,
                   workerVars, managerVars, staleJob, loading, error, resets>>

\* schedule() serves the running requests before any waiting one
OnlyRunningScheduled == batchLoads = {} /\ \A q \in Requests : ~sched[q].fresh

\* a running request computes n more blocks; blocks that left its sliding
\* window are freed first
ScheduleRunning(r, n) ==
    /\ pc = "schedule" /\ phase[r] = "running" /\ sched[r].n = 0
    /\ OnlyRunningScheduled
    /\ computed[r] + n <= MaxLen
    /\ \E e \in Extensions(r, n) :
          /\ table' = [table EXCEPT ![r] = Concat(Skipped(r), e)]
          /\ sched' = [sched EXCEPT ![r] = [n |-> n, fresh |-> FALSE, new |-> e]]
          /\ content' = Overwritten(TableBlocks(e))
    /\ UNCHANGED <<pc, phase, computed, preempted, finishedIds, requestVars, jobVars, batchVars,
                   workerVars, managerVars, staleJob, loading, error, resets>>

\* a running request that finds no free block makes the engine preempt one of
\* the running requests behind it, or itself
Starved(q) == phase[q] = "running" /\ sched[q].n = 0 /\ computed[q] < MaxLen /\ Extensions(q, 1) = {}

Preempt(r) ==
    /\ pc = "schedule" /\ phase[r] = "running" /\ sched[r].n = 0
    /\ OnlyRunningScheduled
    /\ \E q \in Requests : Starved(q)
    /\ phase' = [phase EXCEPT ![r] = "waiting"]
    /\ computed' = [computed EXCEPT ![r] = 0]
    /\ table' = [table EXCEPT ![r] = EmptyTable]
    /\ preempted' = preempted \cup {r}
    /\ UNCHANGED <<pc, content, sched, finishedIds, requestVars, jobVars, batchVars, workerVars,
                   managerVars, staleJob, loading, error, resets>>

-----------------------------------------------------------------------------
(***************************************************************************)
(* build_connector_meta, before the store jobs: _update_req_states, the    *)
(* manager's on_schedule_end, and the jobs the workers must flush.         *)
(***************************************************************************)
KnownIds(r) == IF sched[r].fresh THEN EmptyTable ELSE blockIds[r]

\* mutant: the blocks of loads are not recorded
ScheduledBlocks == UNION {TableBlocks(sched[r].new) : r \in Scheduled}

AllocatedNow == allocated \cup UNION {TableBlocks(sched[r].new) : r \in Scheduled}

\* mutant: full-attention entries are zeroed too
StaleInAnyGroup(r, g, i) ==
    /\ i > nextStored[r][g] * BlockSizeFactor
    /\ i <= Len(KnownIds(r)[g])
    /\ KnownIds(r)[g][i] \in AllocatedNow

\* mutant: nothing is zeroed
NeverStale(r, g, i) == FALSE

\* A sliding-window entry that is not stored yet and whose block was handed
\* out in this step is zeroed, below the end the list had before this step.
Stale(r, g, i) ==
    /\ g \in SWGroups
    /\ i > nextStored[r][g] * BlockSizeFactor
    /\ i <= Len(KnownIds(r)[g])
    /\ KnownIds(r)[g][i] \in AllocatedNow

UpdatedIds(r) ==
    LET ids == Concat(KnownIds(r), sched[r].new)
    IN  [g \in Groups |-> [i \in 1 .. Len(KnownIds(r)[g]) + Len(sched[r].new[g]) |->
          IF Stale(r, g, i) THEN NullBlock ELSE ids[g][i]]]

\* mutant: no flush
FlushNothing == {}

FlushPreempted == UNION {transferJobs[r] : r \in preempted \cap tracked}
FlushReused    == UNION {pendingJobs[b] : b \in AllocatedNow}
FlushAll       == IF tracked # {} /\ \A r \in tracked : Finished(r) THEN jobs ELSE {}

BeginConnectorMeta ==
    /\ pc = "schedule"
    /\ IF \E r \in Scheduled : r \notin tracked
       THEN Raise("scheduled request has no status")
       ELSE IF \E j \in FlushPreempted : j \notin jobs
       THEN Raise("unknown job of a preempted request")
       ELSE IF \E j \in FlushPreempted : ~job[j].isStore
       THEN Raise("preempted request has a load")
       ELSE /\ pc' = "store"
            /\ blockIds' = [r \in Requests |-> IF r \in tracked THEN UpdatedIds(r) ELSE blockIds[r]]
            /\ allocated' = AllocatedNow
            /\ toFlush' = toFlush \cup FlushPreempted \cup FlushReused \cup FlushAll
            /\ toStore' = Scheduled
            /\ UNCHANGED <<engineVars, tracked, nextStored, jobVars, batchLoads, batchStores,
                           workerVars, managerVars, staleJob, loading, error, resets>>

(***************************************************************************)
(* _build_store_jobs, the iteration for one scheduled request.             *)
(***************************************************************************)
\* num_offloadable_tokens: with async scheduling the last tokens may be missing
Offloadable(r) ==
    {AtLeast0(AtMost(computed[r] + sched[r].n - lag, OffloadLimit)) : lag \in IF Async THEN {0, 1} ELSE {0}}

NewChunks(r, end) ==
    {s \in Groups \X (0 .. end - 1) :
       /\ s[2] >= nextStored[r][s[1]]
       /\ blockIds[r][s[1]][(s[2] + 1) * BlockSizeFactor] \in Blocks}

\* mutant: only the last block of a chunk is copied
StoreLastBlocks(r, end, keys) ==
    {<<s[2], (s[3] + 1) * BlockSizeFactor - 1, blockIds[r][s[2]][(s[3] + 1) * BlockSizeFactor]>> : s \in keys}

StoreCopies(r, end, keys) ==
    {<<s[1], s[2], blockIds[r][s[1]][s[2] + 1]>> : s \in
        {s \in Groups \X (0 .. end * BlockSizeFactor - 1) :
           /\ ChunkOf(s[2]) >= nextStored[r][s[1]]
           /\ Key(r, s[1], ChunkOf(s[2])) \in keys
           /\ blockIds[r][s[1]][s[2] + 1] \in Blocks}}

\* mutant: off by one
AdvancedTooLittle(r, end) == [nextStored EXCEPT ![r] = [g \in Groups |-> end - 1]]

Advanced(r, end) == [nextStored EXCEPT ![r] = [g \in Groups |-> end]]

StoredOf(keys) == {d \in stored : <<d[1], d[2], ChunkOf(d[3])>> \in keys}

IssueStore(r, end, keys, evicted) ==
    LET copies == StoreCopies(r, end, keys)
    IN  /\ NewJob(r, TRUE, keys, copies)
        /\ batchStores' = batchStores \cup {jobCounter}
        /\ pendingJobs' = [b \in Blocks |->
             IF \E d \in copies : d[1] \in SWGroups /\ d[3] = b
             THEN pendingJobs[b] \cup {jobCounter} ELSE pendingJobs[b]]
        /\ nextStored' = Advanced(r, end)
        /\ ready' = ready \ evicted
        /\ stored' = (stored \ StoredOf(evicted \cup keys)) \cup {Data(r, d[1], d[2]) : d \in copies}
        /\ UNCHANGED error

\* no job is issued; `next' is what becomes of next_stored_block_idx
SkipStore(next) ==
    /\ nextStored' = next
    /\ UNCHANGED <<jobVars, batchStores, managerVars, error>>

\* prepare_store: nothing new advances the index, a full pool leaves it, and
\* otherwise a job is issued behind the stores the request may have pending
StoreChunks(r, end) ==
    LET new  == {Key(r, s[1], s[2]) : s \in NewChunks(r, end)}
        keys == new \ Held
    IN  IF keys = {} THEN SkipStore(Advanced(r, end))
        ELSE IF Evictions(new) = {} THEN SkipStore(nextStored)
        ELSE \E evicted \in Evictions(new) : IssueStore(r, end, keys, evicted)

Refused(r, end) ==
    IF \E g \in Groups : end > nextStored[r][g] /\ Len(blockIds[r][g]) < end * BlockSizeFactor
    THEN "fewer block ids than offload keys"
    ELSE LET new == {Key(r, s[1], s[2]) : s \in NewChunks(r, end)}
         IN  IF new \ Held = {} \/ Evictions(new) = {} THEN "none"
             ELSE IF ~(transferJobs[r] \subseteq jobs) THEN "unknown job of a storing request"
             ELSE IF \E j \in transferJobs[r] : ~job[j].isStore THEN "store issued while a load is pending"
             ELSE "none"

StoreJobs(r) ==
    /\ pc = "store" /\ r \in toStore
    /\ \E tokens \in Offloadable(r) :
         LET end == ChunkOf(tokens)
         IN  IF r \in tracked /\ Refused(r, end) # "none"
             THEN Raise(Refused(r, end))
             ELSE /\ IF r \in tracked THEN StoreChunks(r, end) ELSE SkipStore(nextStored)
                  /\ toStore' = toStore \ {r}
                  /\ UNCHANGED <<pc, engineVars, tracked, blockIds, batchLoads, toFlush, allocated,
                                 workerVars, staleJob, loading, resets>>

(***************************************************************************)
(* build_connector_meta returns, the engine advances num_computed_tokens,  *)
(* and the workers execute the step: they wait for the jobs to flush, run  *)
(* the forward pass that fills the scheduled blocks, start the new         *)
(* transfers and report what has finished so far.  The execution is merged *)
(* into this action: the scheduler sees of it only the report.             *)
(***************************************************************************)
EndConnectorMeta ==
    LET filled(b) == {f \in Scheduled \X Groups \X (0 .. MaxLen - 1) :
                        /\ f[3] \in computed[f[1]] .. computed[f[1]] + sched[f[1]].n - 1
                        /\ table[f[1]][f[2]][f[3] + 1] = b}
    IN  /\ pc = "store" /\ toStore = {}
        /\ pc' = "idle"
        /\ content' = [b \in Blocks |->
             IF filled(b) = {} THEN content[b]
             ELSE LET f == CHOOSE f \in filled(b) : TRUE IN Data(f[1], f[2], f[3])]
        /\ computed' = [r \in Requests |-> computed[r] + sched[r].n]
        /\ sched' = [r \in Requests |-> NotScheduled]
        /\ preempted' = {}
        /\ batchLoads' = {}
        /\ batchStores' = {}
        /\ toFlush' = {}
        /\ allocated' = {}
        /\ outputs' = Append(outputs, [j \in JobIds |->
             IF j \in toFlush THEN done[j] + left[j] ELSE done[j]])
        /\ left' = [j \in JobIds |-> IF j \in batchLoads \cup batchStores THEN NumWorkers
                                     ELSE IF j \in toFlush THEN 0 ELSE left[j]]
        /\ done' = NoReport
        /\ UNCHANGED <<phase, table, finishedIds, requestVars, jobVars, report, managerVars,
                       staleJob, loading, toStore, error, resets>>

\* one worker finishes one transfer; schedule() reads no worker state, so a
\* transfer that ends during it is counted before it
WorkerDone(j) ==
    /\ pc = "idle" /\ left[j] > 0
    /\ left' = [left EXCEPT ![j] = @ - 1]
    /\ done' = [done EXCEPT ![j] = @ + 1]
    /\ UNCHANGED <<pc, engineVars, requestVars, jobVars, batchVars, outputs, report,
                   managerVars, staleJob, loading, error, resets>>

-----------------------------------------------------------------------------
(***************************************************************************)
(* update_from_output: the engine reads the report of the oldest step and  *)
(* update_connector_output goes through the jobs it names.                 *)
(***************************************************************************)
AfterReport(rep) == IF rep = NoReport THEN "idle" ELSE "output"

TakeOutput ==
    /\ pc = "idle" /\ outputs # <<>>
    /\ report' = Head(outputs)
    /\ outputs' = Tail(outputs)
    /\ pc' = AfterReport(Head(outputs))
    /\ UNCHANGED <<engineVars, requestVars, jobVars, batchVars, left, done, managerVars,
                   staleJob, loading, error, resets>>

\* reports of the job in the outputs the engine has not read: at most two
\* steps are outstanding
Unread(j) == (IF Len(outputs) >= 1 THEN outputs[1][j] ELSE 0) + (IF Len(outputs) >= 2 THEN outputs[2][j] ELSE 0)

\* every worker has reported the job
Drained(j) == left[j] = 0 /\ done[j] = 0 /\ Unread(j) = 0

\* the engine learns that a load is over: the request goes back to the queue,
\* or gives up its blocks if it was aborted meanwhile
LoadArrived(j) ==
    LET r == job[j].req
        data(b) == {d \in job[j].copies : d[3] = b}
    IN  IF ~job[j].isStore /\ Drained(j)
        THEN /\ phase' = [phase EXCEPT ![r] = IF @ = "loading" THEN "loaded" ELSE @]
             /\ table' = [table EXCEPT ![r] = IF Finished(r) THEN EmptyTable ELSE @]
             /\ content' = [b \in Blocks |->
                  IF data(b) = {} \/ Finished(r) THEN content[b]
                  ELSE LET d == CHOOSE d \in data(b) : TRUE IN Data(r, d[1], d[2])]
        ELSE UNCHANGED <<phase, table, content>>

\* mutant: completion leaves the entries of full-attention blocks
RegisteredWindow(j) == SWBlocks(j)

\* mutant: completion leaves the entries of a running request's blocks
RegisteredIfFinished(j) ==
    IF Finished(job[j].req) THEN SWBlocks(j) \cup FullBlocks(j) ELSE {}

\* _remove_pending_job: the entries a completed job must have
Registered(j) ==
    IF Finished(job[j].req) THEN SWBlocks(j) \cup FullBlocks(j) ELSE SWBlocks(j)

Repeated(j) == \E c, d \in job[j].copies : c # d /\ c[3] = d[3]

TableInUse == \E b \in Blocks : pendingJobs[b] # {}

CompletionError(j) ==
    LET r == job[j].req
    IN  IF j \notin jobs THEN "unknown job reported"
        ELSE IF report[j] > pending[j] THEN "job reported too often"
        ELSE IF report[j] < pending[j] THEN "none"
        ELSE IF r \notin tracked THEN "completed job has no request"
        ELSE IF job[j].isStore /\ TableInUse /\ (Repeated(j) \/ \E b \in Registered(j) : j \notin pendingJobs[b])
             THEN "completed job is not registered"
        ELSE IF j \notin transferJobs[r] THEN "completed job is not the request's"
        ELSE "none"

\* mutant: the status is kept
KeepStatus(r) == UNCHANGED requestVars

Forget(r) ==
    /\ tracked' = tracked \ {r}
    /\ blockIds' = [blockIds EXCEPT ![r] = EmptyTable]
    /\ nextStored' = [nextStored EXCEPT ![r] = [g \in Groups |-> 0]]

\* mutant: the job stays in transfer_jobs
AllTransferJobs(j) == transferJobs[job[j].req]

\* transfer_jobs of its request once a job is over
OtherTransferJobs(j) == transferJobs[job[j].req] \ {j}

\* complete_store or complete_load, and the end of the job's bookkeeping
CompleteJob(j) ==
    LET r == job[j].req
        rest == OtherTransferJobs(j)
    IN  /\ ready' = IF job[j].isStore THEN ready \cup job[j].keys ELSE ready
        /\ loading' = IF job[j].isStore THEN loading ELSE loading \ job[j].keys
        /\ pendingJobs' = IF job[j].isStore
                            THEN [b \in Blocks |-> IF b \in Registered(j) THEN pendingJobs[b] \ {j}
                                                   ELSE pendingJobs[b]]
                            ELSE pendingJobs
        /\ jobs' = jobs \ {j}
        /\ transferJobs' = [transferJobs EXCEPT ![r] = rest]
        /\ IF rest = {} /\ Finished(r) THEN Forget(r) ELSE UNCHANGED requestVars

UpdateConnectorOutput(j) ==
    /\ pc = "output" /\ report[j] > 0
    /\ IF j >= staleJob /\ CompletionError(j) # "none"
       THEN Raise(CompletionError(j))
       ELSE /\ IF j < staleJob                        \* issued before reset_cache
               THEN UNCHANGED <<requestVars, transferJobs, jobs, pending, pendingJobs, ready, loading>>
               ELSE /\ pending' = [pending EXCEPT ![j] = @ - report[j]]
                    /\ IF report[j] < pending[j]
                       THEN UNCHANGED <<requestVars, transferJobs, jobs, pendingJobs, ready, loading>>
                       ELSE CompleteJob(j)
            /\ LoadArrived(j)
            /\ job' = IF Drained(j) THEN [job EXCEPT ![j] = NoJob] ELSE job
            /\ report' = [report EXCEPT ![j] = 0]
            /\ pc' = AfterReport([report EXCEPT ![j] = 0])
            /\ UNCHANGED <<computed, sched, preempted, finishedIds, jobCounter, batchVars, left, done,
                           outputs, stored, staleJob, error, resets>>

-----------------------------------------------------------------------------
(***************************************************************************)
(* request_finished: the engine calls it before it frees the blocks of a   *)
(* request that ended or was aborted.  Blocks a load is still filling are  *)
(* freed when it is over.                                                  *)
(***************************************************************************)
RequestFinished(r) ==
    /\ pc = "idle" /\ Live(r)
    /\ IF r \in tracked /\ ~(transferJobs[r] \subseteq jobs)
       THEN Raise("unknown job of a finished request")
       ELSE /\ phase' = [phase EXCEPT ![r] = "finished"]
            /\ computed' = [computed EXCEPT ![r] = 0]
            /\ table' = IF phase[r] = "loading" THEN table ELSE [table EXCEPT ![r] = EmptyTable]
            /\ finishedIds' = TRUE
            /\ IF r \in tracked /\ transferJobs[r] = {} THEN Forget(r) ELSE UNCHANGED requestVars
            /\ pendingJobs' = [b \in Blocks |->
                 pendingJobs[b] \cup {j \in transferJobs[r] : job[j].isStore /\ b \in FullBlocks(j)}]
            /\ UNCHANGED <<pc, content, sched, preempted, transferJobs, jobs, job, pending, jobCounter,
                           batchVars, workerVars, managerVars, staleJob, loading, error, resets>>

(***************************************************************************)
(* reset_cache                                                             *)
(***************************************************************************)
\* mutant: reset_cache flushes no job
FlushedByNoReset == {}

\* reset_cache flushes every job it discards
FlushedByReset == jobs

\* mutant: the threshold is not raised
StaleBelowKept == staleJob

\* jobs below the threshold were discarded
StaleBelow == jobCounter

ResetCache ==
    /\ pc = "idle" /\ resets < MaxResets
    /\ IF batchLoads # {} \/ toFlush # {} \/ allocated # {}
       THEN Raise("reset_cache in the middle of a step")
       ELSE /\ resets' = resets + 1
            /\ toFlush' = FlushedByReset
            /\ ready' = {}
            /\ stored' = {}
            /\ nextStored' = [r \in Requests |-> [g \in Groups |-> 0]]
            /\ staleJob' = StaleBelow
            /\ jobs' = {}
            /\ pendingJobs' = [b \in Blocks |-> {}]
            /\ loading' = {}
            /\ UNCHANGED <<pc, engineVars, tracked, blockIds, transferJobs, job, pending, jobCounter,
                           batchLoads, batchStores, allocated, toStore, workerVars, error>>

-----------------------------------------------------------------------------
EngineLoop ==
    \/ StartStep
    \/ BeginConnectorMeta
    \/ \E r \in Requests : StoreJobs(r)
    \/ EndConnectorMeta
    \/ TakeOutput
    \/ \E j \in JobIds : UpdateConnectorOutput(j)

Scheduling(r) ==
    \/ NotAdmitted(r)
    \/ AdmitWithLoad(r)
    \/ Preempt(r)
    \/ \E n \in 1 .. MaxChunk : AdmitWithoutLoad(r, n) \/ ScheduleLoaded(r, n) \/ ScheduleRunning(r, n)

Calls(r) == OnNewRequest(r) \/ RequestFinished(r)

\* every request is over, or an exception ended the engine
Stopped ==
    /\ \/ pc = "dead"
       \/ pc = "idle" /\ ~HasWork /\ outputs = <<>> /\ \A r \in Requests : Finished(r)
    /\ UNCHANGED vars

Next ==
    \/ EngineLoop
    \/ \E r \in Requests : Scheduling(r) \/ Calls(r)
    \/ \E j \in JobIds : WorkerDone(j)
    \/ ResetCache
    \/ Stopped

Spec == Init /\ [][Next]_vars

(***************************************************************************)
(* Fairness: the engine core's loop goes on while it has work, and a copy  *)
(* that has been started ends.  The copy goes on while the scheduler runs, *)
(* but its end is only modelled between two steps (see WorkerDone), so     *)
(* that its weak fairness becomes strong fairness of the action.  Nothing  *)
(* forces a request to be scheduled, to end, or to arrive.                 *)
(***************************************************************************)
FairSpec ==
    /\ Spec
    /\ WF_vars(EngineLoop)
    /\ \A j \in JobIds : SF_vars(WorkerDone(j))

-----------------------------------------------------------------------------
(***************************************************************************)
(* Type correctness.                                                       *)
(***************************************************************************)
Tables == [Groups -> Seq(BlockId)]
Datum  == Prompts \X Groups \X Nat
Copy   == Groups \X Nat \X Blocks
Errors == {"none",
           "load issued while jobs are pending",
           "scheduled request has no status", "unknown job of a preempted request",
           "preempted request has a load",
           "fewer block ids than offload keys", "unknown job of a storing request",
           "store issued while a load is pending",
           "unknown job reported", "job reported too often", "completed job has no request",
           "completed job is not registered", "completed job is not the request's",
           "unknown job of a finished request", "reset_cache in the middle of a step"}
Job    == [req : Requests, isStore : BOOLEAN, keys : SUBSET Keys, copies : SUBSET Copy] \cup {NoJob}
Counts == [JobIds -> Nat]

\* Every variable keeps its type.
TypeOK ==
    /\ pc \in {"idle", "schedule", "store", "output", "dead"}
    /\ phase \in [Requests -> Phases]
    /\ computed \in [Requests -> Nat]
    /\ table \in [Requests -> Tables]
    /\ content \in [Blocks -> Datum \cup {Nothing}]
    /\ sched \in [Requests -> [n : Nat, fresh : BOOLEAN, new : Tables]]
    /\ preempted \subseteq Requests
    /\ finishedIds \in BOOLEAN
    /\ tracked \subseteq Requests
    /\ blockIds \in [Requests -> Tables]
    /\ nextStored \in [Requests -> [Groups -> Nat]]
    /\ transferJobs \in [Requests -> SUBSET JobIds]
    /\ jobs \subseteq JobIds
    /\ job \in [JobIds -> Job]
    /\ pending \in Counts
    /\ pendingJobs \in [Blocks -> SUBSET JobIds]
    /\ jobCounter \in 0 .. MaxJobs
    /\ staleJob \in 0 .. MaxJobs
    /\ batchLoads \subseteq JobIds
    /\ batchStores \subseteq JobIds
    /\ toFlush \subseteq JobIds
    /\ allocated \subseteq Blocks
    /\ loading \subseteq Keys
    /\ toStore \subseteq Requests
    /\ error \in Errors
    /\ left \in Counts
    /\ done \in Counts
    /\ outputs \in Seq(Counts)
    /\ report \in Counts
    /\ ready \subseteq Keys
    /\ stored \subseteq Datum
    /\ resets \in Nat

-----------------------------------------------------------------------------
(***************************************************************************)
(* Safety.                                                                 *)
(***************************************************************************)
InFlight(j) == left[j] > 0

\* reports of a job that the scheduler has still to read
Outstanding(j) == left[j] + done[j] + Unread(j) + report[j]

\* The connector's assertions hold and none of its dictionary accesses fails:
\* no interleaving of calls and reports makes it raise.
NoException == error = "none"

\* Reports are expected, also the late ones of transfers that reset_cache discarded:
\* none names an unknown job or one that another request owns, none comes after
\* the last, and the request of a job that ends has kept its status until then.
ReportsAreExpected ==
    error \notin {"scheduled request has no status", "unknown job reported", "job reported too often",
                  "completed job has no request", "completed job is not the request's"}

\* what store j copies is its request's data
ReadsItsData(j) == \A d \in job[j].copies : content[d[3]] = Data(job[j].req, d[1], d[2])

\* While a worker may still read a block for a store, the block holds the data
\* the store is to save: a block that is freed by a finished or a preempted
\* request, or leaves a sliding window, is not refilled before the store that
\* reads it was flushed, and a store picks up no block id that is stale.  This is
\* so until reset_cache: it sets next_stored_block_idx back over ids that went
\* stale when their chunks had been dealt with and were never zeroed, and TLC
\* refutes the property where a reset and such a block are possible (README, 8).
StoresReadTheirData ==
    pc = "idle" => \A j \in JobIds : InFlight(j) /\ job[j].isStore => ReadsItsData(j)

\* reset_cache forgets the stores under way while workers still read blocks for
\* them, and empties the table by which reused blocks are recognised: the step
\* that follows waits for those stores before it fills a block they read.
DiscardedStoresReadTheirData ==
    pc = "idle" => \A j \in JobIds : j < staleJob /\ InFlight(j) /\ job[j].isStore => ReadsItsData(j)

\* The connector's copy of a block table follows the engine's: while store jobs
\* are built, every block that a scheduled request holds is known at its position,
\* although requests share blocks, are preempted, resumed and loaded.  Only the
\* entry of a sliding-window block may be missing: a block that another request
\* is given through the GPU prefix cache counts as reallocated, and its entry is
\* zeroed in every request whose store of it is outstanding.
HeldBlocksKnown ==
    pc = "store" => \A r \in Scheduled \cap tracked : \A g \in Groups : \A i \in DOMAIN table[r][g] :
        table[r][g][i] \in Blocks =>
            /\ i \in DOMAIN blockIds[r][g]
            /\ \/ blockIds[r][g][i] = table[r][g][i]
               \/ g \in SWGroups /\ blockIds[r][g][i] = NullBlock

\* While a worker may still write a block for a load, only the request that
\* loads holds the block, and no store in flight reads it.
LoadsOwnTheirBlocks ==
    pc = "idle" => \A j \in JobIds : InFlight(j) /\ ~job[j].isStore =>
        \A d \in job[j].copies :
           /\ \A r \in Requests : d[3] \in TableBlocks(table[r]) <=> r = job[j].req
           /\ \A i \in JobIds : InFlight(i) /\ job[i].isStore => \A e \in job[i].copies : e[3] # d[3]

\* Every block a load copies to the GPU was copied to the CPU by the store
\* that made its chunk loadable.
LoadsReadStoredData ==
    \A j \in jobs : ~job[j].isStore =>
        \A d \in job[j].copies : Data(job[j].req, d[1], d[2]) \in stored

\* transfer_jobs of a request holds exactly its jobs in _jobs, and is either a
\* single load or any number of stores.
JobsMatchRequests ==
    \A r \in Requests :
        /\ transferJobs[r] = {j \in jobs : job[j].req = r}
        /\ \/ \A j \in transferJobs[r] : job[j].isStore
           \/ \E j \in transferJobs[r] : transferJobs[r] = {j}

\* _block_id_to_pending_jobs names exactly the pending stores that read a block
\* their request may not hold any more.
PendingTableExact ==
    \A b \in Blocks :
        pendingJobs[b] = {j \in jobs : job[j].isStore /\ b \in Registered(j)}

\* A request has a status from its arrival until it is over and its last
\* transfer is reported, and no longer.
StatusKept ==
    \A r \in Requests : r \in tracked <=> Live(r) \/ (Finished(r) /\ transferJobs[r] # {})

\* _blocks_being_loaded is what the pending loads are loading, so no two loads
\* bring in the same chunk.
LoadingExact ==
    /\ PrefixCaching => loading = KeysOf(FALSE)
    /\ PrefixCaching => \A i, j \in jobs : i # j /\ ~job[i].isStore /\ ~job[j].isStore
                                        => job[i].keys \cap job[j].keys = {}

\* Workers and scheduler agree on what is outstanding: between steps,
\* pending_count of a job is the number of reports still to be read.
CountsAgree ==
    pc \in {"idle", "output"} => \A j \in jobs : pending[j] = Outstanding(j)

-----------------------------------------------------------------------------
(***************************************************************************)
(* The bookkeeping of jobs: an invariant that is inductive together with   *)
(* TypeOK.  What reset_cache leaves of it is the first half; the tables    *)
(* that reset_cache empties and the ones it keeps only agree before it.    *)
(***************************************************************************)
Issued == batchLoads \cup batchStores

\* job ids are given out in order, reset_cache forgets those below its threshold,
\* and nothing is known of those not given out yet
JobsAreIssued ==
    /\ staleJob <= jobCounter
    /\ \A j \in jobs : staleJob <= j /\ j < jobCounter /\ job[j].req \in Requests
    /\ \A j \in JobIds : j >= jobCounter => Outstanding(j) = 0

\* the jobs of a step reach the workers at its end; no report precedes it
IssuedAreUnsent ==
    /\ Issued \subseteq jobs
    /\ pc \in {"idle", "output"} => Issued = {}
    /\ \A j \in Issued : pending[j] = NumWorkers /\ Outstanding(j) = 0

\* every report of any other job is accounted for
SentAreCounted == \A j \in jobs \ Issued : pending[j] = Outstanding(j)

\* a job is one of its request's, and shares it with stores only if it is one
JobsAreOwned ==
    /\ \A j \in jobs : j \in transferJobs[job[j].req]
    /\ \A i, j \in jobs : i # j /\ job[i].req = job[j].req => job[i].isStore

\* where the engine is in its loop
EngineInStep ==
    /\ Len(outputs) <= 2
    /\ pc \in {"schedule", "store"} => Len(outputs) <= 1
    /\ pc \in {"idle", "schedule", "store"} => report = NoReport
    /\ pc \in {"idle", "output"} => Scheduled = {}
    /\ pc \in {"schedule", "store"} => \A r \in Scheduled : phase[r] = "running"
    /\ pc = "store" => toStore \subseteq Scheduled

\* The scheduler's tables of jobs, the workers' progress and the engine's loop
\* agree with each other.
Bookkeeping ==
    /\ JobsAreIssued
    /\ IssuedAreUnsent
    /\ SentAreCounted
    /\ JobsAreOwned
    /\ EngineInStep
    /\ resets = 0 => JobsMatchRequests /\ PendingTableExact /\ StatusKept

-----------------------------------------------------------------------------
(***************************************************************************)
(* The connector implements Transfers.  A transfer is under way from the   *)
(* call that creates its job to the report that ends it, whatever the      *)
(* tables say; a job of the current batch has not reached the workers yet. *)
(***************************************************************************)
UnderWay == [j \in JobIds |->
    IF j \in jobs THEN [req |-> job[j].req, isStore |-> job[j].isStore]
                  ELSE [req |-> "none", isStore |-> FALSE]]

ToCopy == [j \in JobIds |-> IF j \in batchLoads \cup batchStores THEN NumWorkers ELSE left[j]]

Promise == INSTANCE Transfers WITH
    Ids <- JobIds, Owners <- Requests, issued <- jobCounter,
    transfer <- UnderWay, toCopy <- ToCopy, discards <- resets

\* However steps, reports, flushes, aborts and preemptions interleave, a transfer
\* is over only when every worker has copied its part, a load of a request never
\* meets another transfer of it, and reset_cache alone discards transfers.
ImplementsTransfers == Promise!Spec

-----------------------------------------------------------------------------
(***************************************************************************)
(* What comments of the code say of reset_cache and of loads, and the code *)
(* does not do: each is refuted by a run of its own.                       *)
(***************************************************************************)
\* Requests that are active when reset_cache is called go on: they offload again
\* from block 0 (fanout_scheduler.py, comment in reset_cache), and neither their
\* next store, their preemption nor their end trips over a discarded job.
ActiveRequestsSurviveReset ==
    error \notin {"unknown job of a storing request", "unknown job of a finished request",
                  "unknown job of a preempted request"}

\* A load is only issued for a request that has no other job pending
\* (fanout_scheduler.py, comment and assertion in update_state_after_alloc).
LoadsIssuedAlone == error # "load issued while jobs are pending"

-----------------------------------------------------------------------------
(***************************************************************************)
(* Liveness.                                                               *)
(***************************************************************************)
\* The status of a request that is over is deleted: even if no request is left
\* to schedule, the last step flushes what is pending.
FinishedAreForgotten == \A r \in Requests : Finished(r) ~> r \notin tracked

\* A request that waits for its load is eventually given its blocks, and no chunk
\* is being loaded for ever, so that a request put off because another one loads
\* its hit, even one that was aborted, can be looked up again.
LoadsEnd ==
    /\ \A r \in Requests : phase[r] = "loading" ~> phase[r] # "loading"
    /\ \A k \in Prompts \X Groups \X (0 .. ChunkOf(PromptLen) - 1) : k \in loading ~> k \notin loading

=============================================================================
