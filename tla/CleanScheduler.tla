--------------------------- MODULE CleanScheduler ---------------------------
(***************************************************************************)
(* The scheduler of instrumented_clean_scheduler.py: the release that      *)
(* fanout_scheduler.py was developed from, with log lines added.  Its      *)
(* update_connector_output, request_finished and reset_cache do what those *)
(* of OffloadScheduler do, and so do engine, workers and manager: their    *)
(* actions and the state are taken from there.  What differs is below:     *)
(*   - a request has no status before it is first asked for a hit;         *)
(*   - blocks handed out in a step are not collected in a set (`allocated' *)
(*     stays empty): each caller flushes the stores that still read them;  *)
(*   - the block ids of a request are taken over in the iteration of       *)
(*     _build_store_jobs that stores it, and none is ever zeroed;          *)
(*   - nothing limits how far a request is offloaded, and BlockLevel is    *)
(*     the absence of do_remote_decode.                                    *)
(* Requests are visited in any order; the code takes the order of the      *)
(* SchedulerOutput.                                                        *)
(***************************************************************************)
EXTENDS OffloadScheduler

\* a new request reaches the engine alone
Arrive(r) ==
    /\ pc = "idle" /\ phase[r] = "unborn"
    /\ phase' = [phase EXCEPT ![r] = "waiting"]
    /\ UNCHANGED <<pc, computed, table, content, sched, preempted, finishedIds, requestVars,
                   jobVars, batchVars, workerVars, managerVars, staleJob, loading, error, resets>>

(***************************************************************************)
(* get_num_new_matched_tokens creates the status of a request it does not  *)
(* know, and clears the block ids of one it does.                          *)
(***************************************************************************)
\* mutant: a request without a hit gets no status
AskedForHit(r) ==
    /\ tracked' = tracked
    /\ blockIds' = [blockIds EXCEPT ![r] = EmptyTable]

Asked(r) ==
    /\ tracked' = tracked \cup {r}
    /\ blockIds' = [blockIds EXCEPT ![r] = EmptyTable]

CleanNotAdmitted(r) ==
    /\ Admissible(r)
    /\ Asked(r)
    /\ UNCHANGED <<pc, engineVars, nextStored, jobVars, batchVars, workerVars, managerVars,
                   staleJob, loading, error, resets>>

\* no hit: update_state_after_alloc returns at once
CleanAdmitWithoutLoad(r, n) ==
    \E local \in 0 .. PromptLen :
        /\ Admissible(r)
        /\ LocalHit(r, local)
        /\ LoadableChunks(r, local) = {}
        /\ local + n <= MaxLen
        /\ \E t \in TablesFor(r, local, local, local + n) : StartOn(r, t, local, n)
        /\ Asked(r)
        /\ UNCHANGED <<pc, preempted, finishedIds, nextStored, jobVars, batchVars, workerVars,
                       managerVars, staleJob, loading, error, resets>>

(***************************************************************************)
(* update_state_after_alloc of a hit: pending stores that read a block the *)
(* load will fill are flushed, and the load is issued.                     *)
(***************************************************************************)
\* mutant: a block handed out is not fenced
NotFenced(bs) == {}

\* jobs that still read one of the blocks
Fenced(bs) == UNION {pendingJobs[b] : b \in bs}

CleanIssueLoad(r, t, local, c) ==
    LET copies == LoadCopies(t, local, c * BlockSizeFactor)
        keys   == LoadKeys(r, copies, c)
    IN  /\ NewJob(r, FALSE, keys, copies)
        /\ batchLoads' = batchLoads \cup {jobCounter}
        /\ toFlush' = toFlush \cup Fenced({d[3] : d \in copies})
        /\ loading' = IF PrefixCaching THEN loading \cup keys ELSE loading
        /\ nextStored' = IF BlockLevel THEN [nextStored EXCEPT ![r] = [g \in Groups |-> c]]
                                       ELSE nextStored
        /\ UNCHANGED <<pendingJobs, batchStores, allocated, toStore>>

CleanAdmitWithLoad(r) ==
    \E local \in 0 .. PromptLen :
      \E c \in LoadableChunks(r, local) :
        LET hit == c * BlockSizeFactor
        IN  /\ Admissible(r)
            /\ LocalHit(r, local)
            /\ \A d \in LoadableChunks(r, local) : d <= c
            /\ ~BeingLoaded(r, local, c)
            /\ jobCounter < MaxJobs
            /\ \E t \in TablesFor(r, local, hit, hit) :
                  IF transferJobs[r] # {}
                  THEN Raise("load issued while jobs are pending")
                  ELSE /\ CleanIssueLoad(r, t, local, c)
                       /\ LoadInto(r, t, local, hit)
                       /\ Asked(r)
                       /\ UNCHANGED <<pc, sched, preempted, finishedIds, workerVars, managerVars,
                                      staleJob, error, resets>>

-----------------------------------------------------------------------------
(***************************************************************************)
(* build_connector_meta: the stores of preempted requests are flushed, all *)
(* jobs if every request it knows is over; then _build_store_jobs runs.    *)
(***************************************************************************)
\* mutant: the stores of a preempted request go on
FlushNotPreempted == {}

FlushOfPreempted == UNION {transferJobs[r] : r \in preempted \cap tracked}

CleanBeginConnectorMeta ==
    /\ pc = "schedule"
    /\ IF \E j \in FlushOfPreempted : j \notin jobs
       THEN Raise("unknown job of a preempted request")
       ELSE IF \E j \in FlushOfPreempted : ~job[j].isStore
       THEN Raise("preempted request has a load")
       ELSE /\ pc' = "store"
            /\ toFlush' = toFlush \cup FlushOfPreempted \cup FlushAll
            /\ toStore' = Scheduled
            /\ UNCHANGED <<engineVars, requestVars, jobVars, batchLoads, batchStores, allocated,
                           workerVars, managerVars, staleJob, loading, error, resets>>

\* update_block_id_groups, after the ids of a resumed request are cleared
IdsNow(r) == Concat(KnownIds(r), sched[r].new)

\* num_offloadable_tokens, in blocks
OffloadableNow(r) == {AtLeast0(computed[r] + sched[r].n - lag) : lag \in IF Async THEN {0, 1} ELSE {0}}

\* chunks whose last block is not skipped
ChunksNow(r, end) ==
    {s \in Groups \X (0 .. end - 1) :
       s[2] >= nextStored[r][s[1]] /\ IdsNow(r)[s[1]][(s[2] + 1) * BlockSizeFactor] \in Blocks}

KeysNow(r, end) == {Key(r, s[1], s[2]) : s \in ChunksNow(r, end)}

\* positions of the chunks to store
Positions(r, end, keys) ==
    {s \in Groups \X (0 .. end * BlockSizeFactor - 1) :
       ChunkOf(s[2]) >= nextStored[r][s[1]] /\ Key(r, s[1], ChunkOf(s[2])) \in keys}

BlockAt(r, s) == IdsNow(r)[s[1]][s[2] + 1]

CopiesNow(r, end, keys) ==
    {<<s[1], s[2], BlockAt(r, s)>> : s \in {p \in Positions(r, end, keys) : BlockAt(r, p) \in Blocks}}

CleanIssueStore(r, end, keys, evicted) ==
    LET copies == CopiesNow(r, end, keys)
    IN  /\ NewJob(r, TRUE, keys, copies)
        /\ batchStores' = batchStores \cup {jobCounter}
        /\ pendingJobs' = [b \in Blocks |->
             IF \E d \in copies : d[1] \in SWGroups /\ d[3] = b
             THEN pendingJobs[b] \cup {jobCounter} ELSE pendingJobs[b]]
        /\ nextStored' = Advanced(r, end)
        /\ ready' = ready \ evicted
        /\ stored' = (stored \ StoredOf(evicted \cup keys)) \cup {Data(r, d[1], d[2]) : d \in copies}
        /\ UNCHANGED error

\* prepare_store and what follows from its answer, as in OffloadScheduler
CleanStoreChunks(r, end) ==
    LET new  == KeysNow(r, end)
        keys == new \ Held
    IN  IF keys = {} THEN SkipStore(Advanced(r, end))
        ELSE IF Evictions(new) = {} THEN SkipStore(nextStored)
        ELSE \E evicted \in Evictions(new) : CleanIssueStore(r, end, keys, evicted)

CleanRefused(r, end) ==
    IF \E g \in Groups : end > nextStored[r][g] /\ Len(IdsNow(r)[g]) < end * BlockSizeFactor
    THEN "fewer block ids than offload keys"
    ELSE LET new == KeysNow(r, end)
             at  == Positions(r, end, new \ Held)
         IN  IF new \ Held = {} \/ Evictions(new) = {} THEN "none"
             ELSE IF \E p, q \in at : p[1] = q[1] /\ p[2] < q[2] /\ BlockAt(r, p) \in Blocks /\ BlockAt(r, q) \notin Blocks
             THEN "skipped block after a stored one"
             ELSE IF ~(transferJobs[r] \subseteq jobs) THEN "unknown job of a storing request"
             ELSE IF \E j \in transferJobs[r] : ~job[j].isStore THEN "store issued while a load is pending"
             ELSE "none"

\* one iteration of _build_store_jobs: the fence sees what earlier iterations
\* registered
CleanStoreJobs(r) ==
    /\ pc = "store" /\ r \in toStore
    /\ IF r \notin tracked THEN Raise("scheduled request has no status")
       ELSE \E tokens \in OffloadableNow(r) :
         LET end == ChunkOf(tokens)
         IN  IF CleanRefused(r, end) # "none"
             THEN Raise(CleanRefused(r, end))
             ELSE /\ blockIds' = [blockIds EXCEPT ![r] = IdsNow(r)]
                  /\ toFlush' = toFlush \cup Fenced(TableBlocks(sched[r].new))
                  /\ CleanStoreChunks(r, end)
                  /\ toStore' = toStore \ {r}
                  /\ UNCHANGED <<pc, engineVars, tracked, batchLoads, allocated, workerVars,
                                 staleJob, loading, resets>>

-----------------------------------------------------------------------------
CleanLoop ==
    \/ StartStep
    \/ CleanBeginConnectorMeta
    \/ \E r \in Requests : CleanStoreJobs(r)
    \/ EndConnectorMeta
    \/ TakeOutput
    \/ \E j \in JobIds : UpdateConnectorOutput(j)

CleanScheduling(r) ==
    \/ CleanNotAdmitted(r)
    \/ CleanAdmitWithLoad(r)
    \/ Preempt(r)
    \/ \E n \in 1 .. MaxChunk : CleanAdmitWithoutLoad(r, n) \/ ScheduleLoaded(r, n) \/ ScheduleRunning(r, n)

CleanNext ==
    \/ CleanLoop
    \/ \E r \in Requests : CleanScheduling(r) \/ Arrive(r) \/ RequestFinished(r)
    \/ \E j \in JobIds : WorkerDone(j)
    \/ ResetCache
    \/ Stopped

CleanSpec == Init /\ [][CleanNext]_vars

-----------------------------------------------------------------------------
(***************************************************************************)
(* Properties, beside those of OffloadScheduler that this scheduler keeps. *)
(***************************************************************************)
\* A request has a status while it is scheduled or has a transfer, and never
\* one after it is over and its last transfer is reported: requests that are
\* aborted before anything asked for them leave nothing behind.
StatusFollowsRequest ==
    \A r \in Requests :
        /\ phase[r] \in {"running", "loading", "loaded"} \/ transferJobs[r] # {} => r \in tracked
        /\ r \in tracked => Live(r) \/ transferJobs[r] # {}

=============================================================================
