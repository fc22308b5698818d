# Verification of the KV offloading connector and what surrounds it

TLA+ modules, TLC configurations and TLAPS proofs for the program in `src/`: the
scheduler side of vLLM's native KV offloading connector with chunked blocks and
self-describing KV events (`phase2-chunk-offloading/`), and the scripts that
benchmark it. Paths below are relative to `src/phase2-chunk-offloading/` unless they
start with `src/`; `FS` stands for `vllm-fanout-fix/fanout_scheduler.py`.

## 1. Inventory

| Component | Code | State it keeps | Operations | Status |
|---|---|---|---|---|
| Offloading connector, scheduler side | `FS` | per request: `block_ids`, `next_stored_block_idx`, `transfer_jobs`; per job: `_jobs` with `pending_count`; `_block_id_to_pending_jobs`, `_blocks_being_loaded`, the batch sets of the step being built, `_stale_job_threshold` | `on_new_request`, `get_num_new_matched_tokens`, `update_state_after_alloc`, `build_connector_meta`, `update_connector_output`, `request_finished`, `reset_cache` | modelled (`OffloadScheduler`) |
| External lookup | `FS` 365-556 | none of its own; reads the manager and `_blocks_being_loaded` | `_lookup`, `_maximal_prefix_lookup`, `_sliding_window_lookup`, `_touch` | modelled (`OffloadLookup`; its result in `OffloadScheduler`) |
| KV event emission | `FS` 274-294, 884-889, 1084-1229 | `_pending_event_metadata` | `_build_event_metadata`, `take_events` | modelled (`OffloadEvents`) |
| Event consumers | `dynamo-e2e/decode_capture.py`, `llm-d-chunk-match/chunk_probe.go`, `4way-benchmark/chunk_replay.go` | an index of block hashes per tier, reference counts | add, remove, match | `decode_capture.py` modelled in `OffloadEvents`; the index library behind the others is not here |
| Unpatched scheduler | `instrumented_clean_scheduler.py` | as the first, without the set of allocated blocks and event payloads | as the first | what differs: `CleanScheduler`; the rest is the code of the first |
| Engine core, KV cache manager, workers, offloading manager | not in this repository | block tables, free list, GPU prefix cache; progress of copies; CPU pool | modelled from how the connector uses them | external part of `OffloadScheduler` |
| Benchmark orchestrator | `src/orchestrator/*.sh` | results directories, summary, log files; the deployment and the benchmark processes it leaves behind | `cold_restart`, `wait_ready`, `run_multi_turn`, `run_multi_turn_nocold`, `run_lmbench`, `dump_artifacts`, `collect_metrics` | common functions modelled (`BenchOrchestrator`) |
| Capture and launch scripts | `4way-benchmark/capture.py`, `*.sh`, `run_offline.py` | none | straight-line I/O | not modelled |
| Deployment manifests, plots, data | `src/deploy`, `src/workloads`, `src/data`, `src/images` | none | none | not modelled |

How they interact. The engine core is one thread. In a step its `schedule()` asks the
connector for external hits (`get_num_new_matched_tokens`), tells it what was allocated
(`update_state_after_alloc`), and at the end calls `build_connector_meta`, which issues
store jobs, collects the load jobs of the step and names the jobs the workers must
flush. The workers run the step, copy blocks on streams of their own meanwhile, and
each reports each finished job with the output of some later step. The engine feeds the
aggregated report to `update_connector_output`, drains `take_events`, and between steps
receives `on_new_request`, `request_finished` (end or abort) and `reset_cache`. With
asynchronous scheduling a step is scheduled before the output of the step before it is
processed.

What is hard. Every store reads GPU blocks after the step that issued it, while the
engine, which knows nothing of the copy, frees those blocks: at the end of a request, at
preemption, and, silently, when they leave a sliding window. The connector protects the
copy only by finding the job again from the ids of reused blocks or of preempted
requests and having the workers wait for it. For that it keeps a private copy of every
block table, which is stale by design for sliding-window groups. Around it: one job is
reported by several workers in different steps; a request may end before, between or
after the reports of its jobs; `reset_cache` discards jobs whose reports are on their
way; a chunk is one key but several blocks; a store the full pool refused is tried again
later; a request whose hit is being loaded for another must be put off and come back.
The list with lines is in `PROJECT.json` under `hazards`.

What makes each component correct:

* connector: stores read and loads write the right blocks; nothing is loaded that was
  not stored; the tables agree with each other and with the reports still to come; no
  assertion fails; statuses are deleted, loads end;
* lookup: the loop finds the longest hit all groups support, never one that a group
  cannot load;
* events: after every drain the index of a consumer holds the blocks of the chunks in
  the pool, no more and no less;
* orchestrator: a row of the summary is made of the log of its own benchmark and of the
  metrics of a deployment that nothing else was using.

## 2. Plan

| Module | What | Composes or extends | State |
|---|---|---|---|
| `OffloadScheduler` | the connector with engine, workers and manager around it | `INSTANCE Transfers` | done |
| `Transfers` | what the connector promises of a transfer | | done |
| `CleanScheduler` | the unpatched connector in the same surroundings | `OffloadScheduler` | done |
| `OffloadLookup` | how the length of a hit is found | | done |
| `OffloadEvents` | side table and event stream with the consumer of `decode_capture.py` | | done |
| `BenchOrchestrator` | a sweep with failing calls, timeouts and restarts | | done |
| `Offload*Proofs`, `CleanSchedulerProofs`, `BenchOrchestratorProofs` | the theorems, section 9 | the modules they are about | done as listed there |

Each has an `MC...` module with the values of its constants. What the plan has left:

1. The theorems of `OffloadScheduler` for `CleanScheduler`: `Bookkeeping` without
   `StatusKept` (statuses come later there), so that the lemmas about the actions the two
   share can be used for both; then `ImplementsTransfers` and `StoresReadTheirData` with
   fences in the place of the set of allocated blocks.
2. An abstract index ("what is in the pool") that the event stream implements as long as
   no chunk is overtaken; `TurnsTaken` and `AllUndisturbed` are what it would rest on.

## 3. `OffloadScheduler`

Token counts are in GPU blocks; a chunk is `BlockSizeFactor` of them. All groups have the
same GPU block size (then `alignment_block_count` is `None`). A prompt is one value:
requests with equal `Prompt` have equal keys and KV data. KV data is the triple (prompt,
group, position); `content` says which a GPU block holds, `stored` which were copied to
the CPU. That is what makes "the store read the right data" and "the load brought what
was stored" statements about the model.

| Code | Action or operator |
|---|---|
| `on_new_request` | `OnNewRequest` |
| `get_num_new_matched_tokens` answers `None`, or allocation fails | `NotAdmitted` (clears `block_ids` as the code does) |
| `get_num_new_matched_tokens` with no hit, `update_state_after_alloc` returning at once | `AdmitWithoutLoad` |
| both with a hit | `AdmitWithLoad`, `IssueLoad`, `NewJob` |
| `_update_req_states`, the flush sets of `build_connector_meta` | `BeginConnectorMeta`, `UpdatedIds`, `Stale`, `FlushPreempted`, `FlushReused`, `FlushAll` |
| one iteration of `_build_store_jobs` | `StoreJobs`, `Refused`, `StoreChunks`, `IssueStore` |
| rest of `build_connector_meta` and execution of the step | `EndConnectorMeta` |
| `update_connector_output`, one job of the report | `UpdateConnectorOutput`, `CompletionError`, `CompleteJob`, `Forget` |
| `request_finished` | `RequestFinished` |
| `reset_cache` | `ResetCache` |
| engine (external) | `StartStep`, `ScheduleLoaded`, `ScheduleRunning`, `Preempt`, `TakeOutput`, `LoadArrived` |
| workers (external) | `WorkerDone`, and the flush and report in `EndConnectorMeta` |
| manager (external) | `Held`, `Evictable`, `Evictions`; any unpinned chunks may be evicted |

An assertion that fails or a dictionary access with a missing key ends the engine:
`Raise` records which one in `error` and leaves `pc = "dead"`. `schedule()` runs without
reading worker output, so worker progress is only interleaved between steps
(`pc = "idle"`): a copy that ends during a step is counted before it. The iterations of
`_build_store_jobs` and of `update_connector_output` are separate actions in any order,
since neither loop promises one.

`job` keeps what a transfer copies after it left `_jobs` until its last report, because a
worker still reads the blocks of a job that `reset_cache` discarded; the connector itself
reads it only for ids in `jobs`.

### Properties

`StoresReadTheirData`, `LoadsOwnTheirBlocks`, `LoadsReadStoredData` speak of data (the
first until a `reset_cache`, `DiscardedStoresReadTheirData` of the stores it discards);
`HeldBlocksKnown` of the private block tables, in which only window entries may be zeroed; `JobsMatchRequests`, `PendingTableExact`,
`StatusKept`, `LoadingExact`, `CountsAgree` of the tables among each other and against the
workers; `NoException` of every assertion and access; `ReportsAreExpected` of those a
report can fail, which a reset must not make happen; `FinishedAreForgotten` and
`LoadsEnd` of progress. `Bookkeeping` is the inductive invariant of section 9.

`ImplementsTransfers` is the refinement. `Transfers` knows ids, owners and workers and
nothing of steps, tables, reports or flushes: ids are given out once and in order, a load
is alone among the transfers of its request, a transfer is over only when every worker has
copied its part, and discarding transfers stops no copy. The mapping: `issued` is
`_job_counter`, `transfer` the owner and direction of the ids in `_jobs`, `toCopy` the
copies that workers have still to do (`WorkersLeft`), `discards` the calls of `reset_cache`.
Flushes, refusals, reports of a part and everything the engine does are stuttering.

### Runs and bounds

| Run | Instance | Shows |
|---|---|---|
| `Core` | 3 requests (two with one prompt), 4 blocks, a full-attention and a sliding-window group, pool of 2 chunks, 2 workers, GPU prefix cache | `NoException` and the agreement of all tables under preemption, abort, sharing, refusal and eviction; the private block tables follow the engine's, shared blocks and zeroed window entries included; the refinement of `Transfers` |
| `Window` | 2 requests, sliding window of 1 block, requests of 4, offloading limited to the first 2 | stale block ids, early freed blocks, window lookups: stores read and loads write what they should |
| `Async` | asynchronous scheduling, one `reset_cache`, a full-attention and a sliding-window group, chunks of 2 blocks, steps of up to 2 | partial chunks, both kinds of pending entries, hits that all groups must support, flushes and late reports of discarded jobs, which read their data to the end; `Bookkeeping` |
| `Live` | 3 requests (two with one prompt), 2 blocks, pool of 1 chunk, GPU prefix cache, fair | progress, also of a request put off while its hit is loaded for another |
| `ResetActive`, `AsyncLoad`, `Retry` | see section 8 | violations |

Fewer blocks than the requests need together (`Core`: four for three requests of up to
two blocks in each of two groups; `Window`: three for two of up to four) make
preemption, reuse of a block with a store in flight and failure to allocate all happen.
In `Window` requests run past a window of one block, so that blocks leave it and are
given away; in `Core` and `Async` requests end before that, but in `Core` window entries
are zeroed because requests share their blocks. A pool of one to three chunks makes
refusal and eviction happen; two workers separate a job's first from its last report; at
most two step outputs are unread because the engine keeps at most two steps in flight.
`MaxJobs` bounds the job ids: after that many the manager answers every store as a full
pool does, so behaviours are cut short only in that no further job is created.
`MaxResets` bounds the calls of `reset_cache`. The other bounds are the sizes in the
configurations. `BlockSymmetry` permutes GPU blocks, which no definition tells apart;
the liveness run uses no symmetry, and the refinement does not look at blocks. The
mutants in `PROJECT.json` name, for every property of every passing run, a plausible bug
that the run finds.

Fairness. `FairSpec` assumes weak fairness of the engine core's loop (`EngineLoop`: it
runs `step()` while it has requests or finished ids to send) and that a started copy ends
(strong fairness of `WorkerDone(j)`, because the model shows its end only between steps
while the real copy runs on during them). Nothing forces a request to be scheduled, to
arrive or to end.

## 4. `OffloadLookup`

How `get_num_new_matched_tokens` finds the length of a hit when groups have blocks of
different sizes: one request, tokens counted one by one, one group of the loop per step.
The manager's `answer` for every chunk is any assignment of hit, miss and "deferred"
(`lookup` returns `None`); `loading` is what another request is bringing in.

| Code | Action or operator |
|---|---|
| `get_num_new_matched_tokens` up to the loop | `GetNumNewMatchedTokens`, `HitBound`, `LookupGroups` |
| `_maximal_prefix_lookup`, `_sliding_window_lookup` | `HitEnds`, `HitEnd`, `MetDeferred` |
| one iteration of the inner loop of `_lookup` | `LookupGroup`, `Bound`, `LastChunk`, `Again` |
| the next iteration of the outer loop | `NextPass` |
| after the loop: deferred, or being loaded | `Conclude`, `HitKeys`, `Return` |
| `_touch` | `Touched`, `Skipped` |
| `update_state_after_alloc` | `UpdateStateAfterAlloc`, `KeysToLoad`, `AllocError`, with `LocalBlocks` for the null and cached blocks of the engine |
| chunks that `_build_store_jobs` leaves out (`alignment_block_count`) | `LeavesOut`, `Selected`, `StoredChunks` |
| backend, other request (external) | `Resolve`, `LoadEnds` |

The two lookups are given by what they return (the greatest end whose needed chunks are
there), not by their scans; the reference for the whole loop is `Servable`: every group
has the chunks a hit of that length needs. Properties: `HitIsServable` and `HitIsLongest`
(sound and complete against the reference, with answers deferred and resolved on the way),
`LoadsAreConfirmed` (the assertions of `update_state_after_alloc` at `FS` 653-656, 659-664
and 667 hold and it asks only for chunks the lookup has seen; the one at `FS:645` is a
promise of the engine, which is external here: it allocates a block for every token), `NoLoadTwice`, `LoadsAreTouched`, `StoredPrefixIsHit` (the
chunks that stores leave out are never missed), `LookupEnds` (the loop ends and a request
put off is in the end told).

Run `Lookup`: a full-attention group with chunks of 4 tokens and two sliding-window groups
with chunks of 2 and windows of 4 and 2, prompts of 6 and 8 tokens, 0 or 4 tokens on the
GPU, and every set of chunks in the pool. That is the smallest instance in which a group
visited later shortens the hit of one visited earlier, in both orders of the two windows,
and in which a chunk of full attention has several of the others. `MaxUnsettled` is 1: one
deferred answer or one load of another request. `FairSpec`: the engine asks again after
every "put off" (the request stays in its queue), deferred answers resolve, and a load
under way ends however often the request was asked for meanwhile (strong fairness).

What the constants must be. A hit of the GPU prefix cache ends a block of every group
(`LocalHitsAssumption`; external: the cache holds full blocks). `LoadsAreConfirmed` and
`NoLoadTwice` need that the chunks of sliding-window groups divide those of every group
(`SWChunksDivide`; two sliding-window groups then have chunks of one size), as in the
models this connector is used with. With a sliding-window chunk larger than the
full-attention chunk (say 4 and 2 tokens, a window of 4 and a hit that ends at 6) the
last chunk of a window may begin before it, and the assertion at `FS:659-664` has no
place for its blocks; the comment at `FS:110-114` that hits are always aligned does not
hold for hits cut to `num_tokens - 1`. `StoredPrefixIsHit` needs besides that
full-attention groups have chunks of one size (`OneAlignment`; stores are aligned to all
of them, hits found one by one) and that a sliding-window chunk has more than one token
(`ChunksOfTokens`; a hit cut to `num_tokens - 1` then still ends in the last chunk that
was stored).

## 5. `CleanScheduler`

`instrumented_clean_scheduler.py` is the release `FS` was developed from, with log lines.
Its `update_connector_output`, `request_finished` and `reset_cache` do what those of `FS` do
(the stale-job threshold included), so their actions, the state and engine, workers and
manager are those of `OffloadScheduler`. The module holds what differs:

| Code | Action or operator |
|---|---|
| `get_num_new_matched_tokens` creates the status of a request | `Asked`, `Arrive`, `CleanNotAdmitted`, `CleanAdmitWithoutLoad` |
| `update_state_after_alloc` flushes the stores that read the blocks of the load | `CleanAdmitWithLoad`, `CleanIssueLoad`, `Fenced` |
| `build_connector_meta` | `CleanBeginConnectorMeta`, `FlushOfPreempted` |
| one iteration of `_build_store_jobs`, block ids and fence included | `CleanStoreJobs`, `IdsNow`, `ChunksNow`, `Positions`, `CopiesNow`, `CleanIssueStore`, `CleanRefused` |

Run `Clean`: two requests with one prompt, chunks of two blocks, five GPU blocks, two
workers. It shows that fences in the callers protect stores and loads as the set of
allocated blocks does in `FS` (`StoresReadTheirData`, `LoadsOwnTheirBlocks`, `NoException`),
that statuses created on demand come and go with their requests (`StatusFollowsRequest`),
and that this variant keeps the promise of `Transfers` too. The instance has a
full-attention group only: with a sliding-window group `StoresReadTheirData` is violated,
since this variant never zeroes the ids of blocks that left the window and stores from
them after reuse. That is what `_update_req_states` of `FS` was added for.

## 6. `OffloadEvents`

What the connector tells the outside about its CPU pool. Transfers are only as detailed
as the events need; which chunks a step computes is free, as is which ready chunk the
manager evicts (its policy and the pins of loads only make some choices impossible). A
block hash covers everything before the block, so it is the prefix of the prompt that
ends with the block; a chunk is `Factor` blocks and its key the hash of the last. Two
prompts that fork inside a chunk therefore share the hashes before the fork and no key.
Only full-attention groups carry a payload; a chunk of another group behaves like one
whose payload is gone.

| Code | Action or operator |
|---|---|
| `_build_event_metadata` | `BlockHashes`, `ParentBlockHash` |
| `update_state_after_alloc` with `BLOCK_LEVEL` | `LoadHit` |
| one iteration of `_build_store_jobs` | `StoreJobs`, `IssueStore`, `PayloadsWith`, `Advanced`, `AfterRefusal` |
| end of `build_connector_meta` | `EndConnectorMeta` |
| `update_connector_output` for one store | `CompleteStore` |
| `take_events` for one event | `TakeEvent`, with `Announced` for `_take_stored_event` and `RemovedHashes` for `_take_removed_event` |
| `reset_cache` | `ResetCache` |
| `decode_capture.py` | `ConsumeStored` (with `StoredHashes`), `ConsumeRemoved` |
| engine, manager (external) | `StartStep`, `TakeOutput`, `BeginDrain`, `EndDrain`; `Held`, `Evictions`, `events` |

The output of a step can report only stores issued before that step (`age >= steps`): the
workers start the copies of a step with the next one. `reset_cache` may or may not empty
the manager's list of events, since the manager is not in this repository. `overtaken` is
a ghost: it records that a chunk was stored again while its removal was not yet taken.

Properties. `PayloadsBelongToStores`: the side table leaks nothing.
`ResidentChunksAreIndexed`: while nothing was overtaken, a consumer knows every block of
every announced chunk in the pool, also when another chunk with some of the same hashes
was removed. `TailsNotOvercredited`: the last hash of a chunk is never counted twice, nor
credited after its removal was taken. `ParentsAreAnnounced`: no chunk hangs below a parent
that was neither announced nor is on its way.

| Run | Instance | Shows |
|---|---|---|
| `Events` | 3 requests, two with one prompt of two chunks and one that forks inside its first chunk; chunks of 2 blocks, pool of 2, asynchronous, one `reset_cache` | the four properties |
| `EventsRestore` | synchronous, no reset; each prompt is one chunk of one block | violation, section 8 |

`MaxStores` is 5: a chunk can be stored, evicted, stored again and evicted again beside
another one. Afterwards the manager refuses every store, as a full pool does.

## 7. `BenchOrchestrator`

The sweep scripts share their functions; the model follows `src/orchestrator/run-phase5.sh`
and takes `run_lmbench` without a row for a deployment that is not ready from
`run-sweep.sh`. A cycle is a position in `Plan`, an execution of it a number; deployments
and benchmark processes carry the number of the execution that made them. A log or metrics
are a row's own if they are of any execution of its cycle, since the directory of a cycle
is kept when the script is started again; a log that was launched and copied has to be of
the row's execution.

| Code | Action or operator |
|---|---|
| `cold_restart` | `ColdRestart`, `Deployed` |
| `wait_ready` | `WaitReady` (returns 0), `NotReady` (gives up), `AllReady` |
| `kubectl exec` of the benchmark | `Launch`, `LaunchLost`, `NewLog` |
| the polling loops | `PollEnds`, `PollTimesOut`, `SeenInLog` |
| `dump_artifacts`, `collect_metrics` | `DumpArtifacts`, `CollectMetrics`, `Row` |
| `run_multi_turn_nocold` | `StartWarm`, then as above |
| the script's pod created again | `Restart` |
| cluster, client pod (external) | `PodsReady`, `PodsGone`, `RunEnds` |

Every `kubectl` call may fail, since no script looks at its result. Pods of a deleted
deployment keep showing 1/1 for as long as they like. A benchmark process runs until it
completes or crashes, also after its polling gave up, and meanwhile sends requests to every
deployment that is up, since they share one name. The number of workers is abstracted to
"all of a deployment's pods are ready"; mixtures of old and new pods that add up are left
out, as are `_stats.json` and the CSV of LMBench, which no row is made of.

Properties. `LogsAreOwn`: a row never holds the log of another cycle unless a launch was
lost. `MetricsAreOwn` and `TrafficIsOwn`: whose deployments were measured and whom these
served. `WarmRunsAreWarm`: a warm run uses the deployment of its warm-up. The conditions
in them are what the scripts do not check themselves; without any one of them the property
is violated. They say where a row can be trusted, and leave out what happens elsewhere:

| Condition | Not covered by it |
|---|---|
| `lost` (`LogsAreOwn`) | a launch that fails leaves the log of the cycle before to be read |
| `clean` (`MetricsAreOwn`, `TrafficIsOwn`) | `wait_ready` returns on the pods of a deleted deployment, or a call failed |
| `alone` (`TrafficIsOwn`) | a benchmark that outlived its polling sends requests to the next deployment; its log is covered by `LogsAreOwn` |
| `warm` (`WarmRunsAreWarm`) | a warm run follows whatever became of its warm-up |

`MetricsAreOwn` also permits that the files of two executions of a cycle are added up after
the script was started again, which `collect_metrics` does. The hazards in `PROJECT.json`
that are of this kind name no property and say so.

`Sweep` runs a cycle, a warm run and an LMBench cycle with at most two faults
(`MaxFaults`) and four executions (`MaxExecs`), so that the script can be started again
during its first cycle. Three cycles are enough for each kind to follow another that left
something behind, two faults for one failure to meet the trace of another.

## 8. Disagreements between the code and what it says

* `ResetActive`: `reset_cache` clears `_jobs` but not `transfer_jobs`; a request with a
  transfer in flight at that moment later looks its id up in `_jobs` and fails with
  `KeyError` (`FS` 918, 963, 1079), where the comment at `FS:1245` promises that active
  requests offload again. Two more consequences of the same lines: ids of discarded jobs
  are never removed from `transfer_jobs`, so the status of a request that got past that
  is never deleted; and with a sliding-window group stores copy other data (below).
* `AsyncLoad`: with asynchronous scheduling a preempted request can be resumed with an
  external hit while its flushed stores are still unreported; the assertion at `FS:700`
  fails.
* `Retry`: only the last entry of a chunk is looked at when deciding whether it can be
  stored; a retried chunk may be stored without its first block and later be loaded
  whole.
* `EventsRestore`: a removal pops the payload under its key without asking whose it is. A
  chunk evicted and stored again before the removal is taken is then announced by a
  placeholder, and its next removal names a hash that was not stored since, against check
  4 of `decode_capture.py:201`.

Seen while modelling, without a run of its own:

* `reset_cache` sets `next_stored_block_idx` to 0 (`FS` 1246-1248). In a sliding-window
  group the positions below it were no longer checked for stale ids ("earlier positions
  were already offloaded", `FS` 745-748), so the list still names blocks that left the
  window and were given away; the request then stores what they hold now under the keys
  of its own chunks. `StoresReadTheirData` is therefore a property of behaviours without
  a reset: `MCWindow.cfg` with `MaxResets = 1` refutes it in seconds.
  `DiscardedStoresReadTheirData` is what is left of it after a reset; it holds in that
  instance too.
* Blocks shared through the GPU prefix cache count as allocated in this step and zero
  entries of a sliding-window group whose blocks were neither freed nor reallocated
  (`FS:737`, comment at `FS:743`): a chunk is then not stored although it could be.
  `HeldBlocksKnown` permits such an entry, and no other difference.
* The alignment of hits and the stale ids of the unpatched scheduler (sections 4 and 5).
* A payload is popped when the stored event of its chunk is taken, so a removal names
  only the last hash of the chunk, where `step5-final-design.md:20,82` wants the same
  hashes in both events (the TODO in `vllm-fanout-fix/README.md:66-69` knows of it).
* `wait_ready` (`src/orchestrator/run-phase5.sh:118`) counts the pods that show 1/1 by a
  label that those of the deleted deployment have too, so that a cycle may be measured on
  the deployment before it, where `src/README.md:95-96` promises "a fresh cold start".
  Without the condition `clean`, `MetricsAreOwn` and `TrafficIsOwn` are refuted with
  `MaxFaults = 0` and no restart.
* The sweep scripts write status OK whatever ended the polling, where
  `src/orchestrator/run-sweep.sh:4` promises that failures are marked.

## 9. Proofs

Every theorem holds for all values of the constants that satisfy the named assumptions of
its module; the runs above check the same definitions on small instances.

| Module | Theorems |
|---|---|
| `OffloadSchedulerProofs` | `TypeCorrect` |
| `OffloadBookkeepingProofs` | `BookkeepingCorrect`, `CountsAgreeCorrect`, `JobsMatchUntilReset`, `PendingTableExactUntilReset`, `StatusKeptUntilReset`, `ExpectedCorrect`, `ReportsExpectedCorrect`, `TransfersImplemented` |
| `OffloadDataProofs` | `PlacedCorrect`, `StoresReadUntilReset`, `LoadsOwnUntilReset`, `OnlyPendingLoadRaises`, `NoExceptionUntilReset` |
| `OffloadLoadingProofs` | `LoadingIsExact`, `FullTablesCorrect`, `HeldBlocksKnownCorrect`, `PoolCorrect`, `LoadsReadStored` |
| `OffloadLookupProofs` | `LookupTypeCorrect`, `HitServableCorrect`, `HitLongestCorrect`, `LoadsTouchedCorrect`, `LoadsConfirmedCorrect`, `NoLoadTwiceCorrect`, `StoredPrefixCorrect` |
| `OffloadEventsProofs` | `EventsTypeCorrect`, `SideTableBounded`, `TurnsCorrect`, `TailsCorrect`, `KnownCorrect`, `ParentsCorrect`, `UndisturbedCorrect`, `ResidentCorrect` |
| `CleanSchedulerProofs` | `StatusFollowsCorrect` |
| `BenchOrchestratorProofs` | `SweepTypeCorrect`, `LogsCorrect`, `MetricsCorrect`, `TrafficCorrect`, `WarmRunsCorrect` |

**Scheduler.** The assumptions: the block sets are disjoint and finite, no request is
the string that stands for "no owner" (`"none"`), counts are natural numbers, the ones
divided by are positive. `TypeCorrect` shows, besides the shapes of the tables, that no
count of reports goes below zero and that only the exceptions written in the code occur.

`Bookkeeping` has two halves. Job ids, owners, reports in transit and the rhythm of the
engine (`JobsAreIssued`, `JobsAreOwned`, `IssuedAreUnsent`, `SentAreCounted`,
`EngineInStep`) hold in every state, after resets too: a reset raises the threshold to
every id given out, so a late report is below it. What ties jobs to requests
(`JobsMatchRequests`, `PendingTableExact`, `StatusKept`) holds until the first reset;
after it, it is false (section 8). None of its parts is inductive alone. That a report
completes the right job needs the counts; these need that the jobs of the step under
construction are not sent yet, that ids not given out have no report on the way, and
that at most two outputs are unread, since reports are counted over them. That a new
store is registered exactly by its sliding-window blocks needs that its request runs;
that a load is alone needs the assertion the code raises otherwise. There is one lemma
per action; `QuietStep` and `KeptTables` serve those that create and end no job.

`ReportsExpectedCorrect` adds that an outstanding report is of a job `_jobs` has or
below the threshold, and that a job in `_jobs` has a status. `TransfersImplemented` maps
every action to a step of `Transfers` or a stutter; it needs `CountsAgree` (a job that
completes has no copy left) and `JobsMatchRequests` through the assertions before a load
or a store. `LoadingIsExact` rests on arithmetic: `_lookup` computes the chunks of a hit
from token counts, `update_state_after_alloc` from the blocks it was given, and the
second are among the first, so that no chunk can be loaded twice.

**Data.** `Placed` follows a GPU block through its life, and each part is there because
another fails without it. `TablesFit` and `ScheduleFits`: what the engine holds and what
it tells the connector agree, so that an index into `block_ids` means a position of the
request. `Slots`: a block in a table holds the data of its position, or it is new and
has one owner, so that computing it disturbs nobody. A load in flight writes only such
blocks, of a request that is loading or was aborted while it did; hence
`LoadsOwnTheirBlocks`. A store in flight reads the data it is to save: its
full-attention blocks leave the table only with the request, which puts the job in
`toFlush` or the blocks in the pending table, and its sliding-window blocks are in that
table from the start, so that the step that hands the block out waits for the job before
anything is written; hence `StoresReadTheirData`. Last, the block lists (`Lists`): an
entry above `next_stored_block_idx` is the block the table has there, or one that left
the window and still holds its data, or one that is zeroed before stores are built,
which is what the check for stale ids does.

`reset_cache` breaks this: the jobs it discards are still being copied and no longer in
the tables that later flushes are made from, and their requests may load again. The
theorems speak of behaviours up to its first call. With a sliding-window group
`StoresReadTheirData` is false after it (section 8).

**Block tables.** `HeldBlocksKnownCorrect` holds for groups of both kinds and across
resets. Its invariant is `Following`: the list of a request that the engine still follows
(`ListsFollow`) is as long as its table is filled and has at every position that holds a
block that block, or, in a sliding-window group, 0; and the output of a schedule brings a
new request's whole table and of any other exactly the blocks appended (`OutputBrings`).
It rests on `Bookkeeping` and on the lengths of tables (`FullTables`, `TableLengths`): a
block that is overwritten, appended at the wrong place or lost in a preemption would show
as a list of another length or an entry of another block.

`OnlyPendingLoadRaises` goes through the exceptions of the code one by one: until the
first reset each assertion follows from `Bookkeeping`, `Expected` and `Placed`, except
the one at `FS:700` under asynchronous scheduling, which does fail (finding
`AsyncLoad`). Without asynchronous scheduling a step's output is read before the next
step, and a preempted request's stores, flushed in the step that preempted it, are
reported by then.

**Pool.** `PoolAgrees` and `FullTables` hold across resets, since they speak of the
manager's chunks and the engine's tables and of no transfer that was discarded.
`LoadsReadStored` adds that every chunk in the pool or being stored was copied whole. It
assumes `ChunksHaveNoGap` (chunks of one block, or full attention only): otherwise a
chunk of a sliding-window group may be stored in part, which is finding `Retry`.

**Lookup.** The invariant of the loop (`VisitedAreBacked`): unless the answer is going
to be put off, every group that is not to be visited again can be loaded up to the
present bound. It needs the order of passes (`PassOrder`): a pass that has not met a
sliding-window group has all of them ahead, and a pass to come has all of them, so that
a bound that shrinks always sends the loop back to the groups it matters to; for a
full-attention group a shorter hit needs a part of the same chunks. `HitLongestCorrect`
has the opposite invariant: beyond the present bound every end misses a chunk of some
group, which a deferred answer cannot change since it cuts no bound.
`LoadsTouchedCorrect` compares the two computations of where a window starts.

`LoadsConfirmedCorrect` is about numbers. The engine counts the blocks of a window back
from the next token, the lookup counts chunks back from the end of the hit. The bound is
at any time as far as the request allows or the end of a chunk of every sliding-window
group, up to the token that is computed again (`ConfirmInv`); then the two agree
(`WindowOfHit`), and the chunks that `update_state_after_alloc` takes are among those
the lookup asked about and have a block for every place. `StoredPrefixCorrect` follows
from `HitLongestCorrect`: what the stores leave out is in no window of the aligned hit,
so that hit is servable, and it would be found unless a group has no room for a chunk
within the bound, which `RoomInv` excludes. Each of the assumptions on groups is needed;
section 4 says what goes wrong without it.

**Events.** `PayloadsBelongToStores` is inductive given the types: a payload enters with
its store, the report of the store moves its keys from the store to a stored event, and
taking that event pops them.

`TurnsTaken` says that the events of one chunk alternate: the announcements and removals
in the stream, the membership of the pool, and the consumer's count of its last hash are
one sequence of turns. It needs that stores in flight have no key in common, and that a
hash is a key of one chunk only. `AllKnown` adds that the first announcement of a chunk
always has its payload, so that the consumer learns its parent. `AllUndisturbed` is the
argument for shared hashes: a chunk has its payload exactly until it is announced,
therefore a removal has none and names the last hash of its chunk only, and a hash is
last in one chunk only; so a removal takes a reference from no other chunk. This is what
being overtaken breaks (finding `EventsRestore`), and the theorem is for the time
before.

**Unpatched scheduler.** `StatusFollowsCorrect` needs one strengthening: what has a
status has arrived. It holds across resets, since transfers and statuses are only
compared with each other there.

**Sweep.** `Traced` says whose each thing is that a row is later made of: directories,
log files, pods, the requests a deployment has served, over all executions so far.

Only model-checked: the liveness properties `FinishedAreForgotten`, `LoadsEnd` and
`LookupEnds` (fairness is out of the prover's reach); the properties of run `Clean`
other than `StatusFollowsRequest`, which are proved of `OffloadScheduler` and not of the
variant; `DiscardedStoresReadTheirData`. Section 2 has what is worth
proving next.

## 10. Not modelled

The manager's scheduling hints, which change no state of the connector; the objects that
count lookups for metrics; logging; failed transfers, which the connector asserts away.
`take_events` of the unpatched scheduler, which only passes placeholders on. Of the
scripts, the numbers in a row, `_stats.json` and the CSV of LMBench, and the particular
plans. The index library behind `chunk_probe.go` and `chunk_replay.go` is not in this
repository. The capture scripts and manifests have no behaviour beyond their commands.
