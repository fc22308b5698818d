------------------------- MODULE OffloadDataProofs -------------------------
(***************************************************************************)
(* What the GPU blocks hold while transfers, frees and reuses interleave.  *)
(* Placed is the inductive invariant.  Its parts follow a block through    *)
(* its life: the tables of the engine and the schedule it builds agree; a  *)
(* block in a table holds that position's data or is still to be filled,   *)
(* and then nobody else holds it; a load in flight writes only such blocks *)
(* of its own request; a store in flight reads the data it is to save,     *)
(* because a block that leaves its table before the store ended is flushed *)
(* in the step that hands it out again; and the connector's block lists    *)
(* name no block that was handed out meanwhile.                            *)
(*                                                                         *)
(* reset_cache breaks it (the jobs it discards are still being copied, and *)
(* a request may load again), so that the theorems hold until its first    *)
(* call.                                                                   *)
(***************************************************************************)
EXTENDS OffloadBookkeepingProofs

\* entry i of the table of r in group g is b
Holds(r, g, i, b) == i \in DOMAIN table[r][g] /\ table[r][g][i] = b

\* a table covers what its request has computed and computes in this step; only
\* a sliding window leaves positions without a block
TablesFit ==
    /\ \A r \in Requests : phase[r] \in {"unborn", "waiting"} => table[r] = EmptyTable
    /\ \A r \in Requests, g \in Groups :
          phase[r] \in {"loading", "loaded", "running"} => Len(table[r][g]) = computed[r] + sched[r].n
    /\ \A r \in Requests, g \in FullGroups : \A i \in DOMAIN table[r][g] : table[r][g][i] \in Blocks
    /\ \A r \in Requests : sched[r].n > 0 => computed[r] + sched[r].n <= MaxLen

\* the blocks of the SchedulerOutput: the whole table, or what was added to it
ScheduleFits ==
    \A r \in Requests :
        /\ sched[r].n = 0 => sched[r] = NotScheduled
        /\ sched[r].n > 0 /\ sched[r].fresh => sched[r].new = table[r]
        /\ sched[r].n > 0 /\ ~sched[r].fresh => \A g \in Groups :
              /\ Len(sched[r].new[g]) = sched[r].n
              /\ \A k \in 1 .. sched[r].n : sched[r].new[g][k] = table[r][g][computed[r] + k]

\* what one step collects is gone at its end
BatchFits ==
    /\ pc \in {"idle", "output"} => allocated = {} /\ preempted = {}
    /\ pc # "store" => toFlush = {} /\ toStore = {} /\ batchStores = {}
    /\ \A r \in preempted : phase[r] = "waiting"
    /\ pc = "schedule" /\ ~Async => outputs = <<>>
    /\ staleJob = 0

\* a block in a table holds the data of its position, or nothing yet
SlotsAgree ==
    \A r \in Requests, g \in Groups, i \in Nat, b \in Blocks :
        Holds(r, g, i, b) => content[b] \in {Data(r, g, i - 1), Nothing}

\* a block that is still to be filled is in one table, at one position
SlotsExclusive ==
    \A r, q \in Requests, g, h \in Groups, i, k \in Nat, b \in Blocks :
        content[b] = Nothing /\ Holds(r, g, i, b) /\ Holds(q, h, k, b) => q = r /\ h = g /\ k = i

\* a position that counts as computed is filled
ComputedFilled ==
    \A r \in Requests, g \in Groups, i \in Nat, b \in Blocks :
        /\ phase[r] = "loaded" \/ (phase[r] = "running" /\ i <= computed[r])
        /\ Holds(r, g, i, b)
        => content[b] = Data(r, g, i - 1)

\* a load fills the blocks of its request that are still to be filled, and no other
LoadsHold ==
    \A j \in jobs : ~job[j].isStore =>
        /\ phase[job[j].req] \in {"loading", "finished"}
        /\ \A d \in job[j].copies : Holds(job[j].req, d[1], d[2] + 1, d[3]) /\ content[d[3]] = Nothing
        /\ \A g \in Groups, i \in Nat, b \in Blocks :
              Holds(job[j].req, g, i, b) /\ content[b] = Nothing => <<g, i - 1, b>> \in job[j].copies

\* stores under way of a request that still runs: it holds their full-attention blocks
StoresHold ==
    \A j \in jobs :
        /\ job[j].isStore /\ (left[j] + done[j] > 0 \/ j \in batchStores)
        /\ ~Finished(job[j].req) /\ job[j].req \notin preempted
        => /\ phase[job[j].req] = "running"
           /\ \A d \in job[j].copies : d[1] \notin SWGroups => Holds(job[j].req, d[1], d[2] + 1, d[3])

\* the flush of this step will wait for store j before block b is filled
Flushing(j, b) ==
    \/ pc = "schedule" /\ (job[j].req \in preempted \/ (j \in pendingJobs[b] /\ b \in AllocatedNow))
    \/ pc = "store" /\ j \in toFlush

\* a store in flight reads its data, unless it is flushed before the blocks are filled
StoresRead ==
    \A j \in jobs : job[j].isStore /\ left[j] > 0 =>
        \A d \in job[j].copies : content[d[3]] = Data(job[j].req, d[1], d[2]) \/ Flushing(j, d[3])

\* a new store reads blocks that hold its data when the step has been executed
StoresIssued ==
    \A j \in batchStores : \A d \in job[j].copies :
        \/ content[d[3]] = Data(job[j].req, d[1], d[2])
        \/ /\ Holds(job[j].req, d[1], d[2] + 1, d[3])
           /\ sched[job[j].req].n > 0
           /\ d[2] < computed[job[j].req] + sched[job[j].req].n

\* a store copies no block twice
StoresDistinct == \A j \in jobs : job[j].isStore => ~Repeated(j)

\* a pending job waits for a report
JobsPend == \A j \in jobs : pending[j] > 0

\* _build_store_jobs has gone through r
Visited(r) == pc = "store" /\ r \notin toStore

\* what r has computed when its next stores are built
ComputedNow(r) == IF Visited(r) THEN computed[r] + sched[r].n ELSE computed[r]

\* next_stored_block_idx is the same in all groups and, once a request was
\* visited since it was admitted, not ahead of what it has computed
IndexFits ==
    /\ \A r \in Requests, g, h \in Groups : nextStored[r][g] = nextStored[r][h]
    /\ \A r \in Requests, g \in Groups :
          phase[r] = "running" /\ (sched[r].fresh => Visited(r))
          => nextStored[r][g] <= ChunkOf(AtMost(ComputedNow(r), OffloadLimit))

\* the connector has taken over the block list of r
Listed(r) == phase[r] = "running" /\ (pc = "schedule" => ~sched[r].fresh)

\* a sliding-window block that left the table of r: its chunk was dealt with, or
\* it still holds its data, or the entry is zeroed before stores are built
Abandoned(r, g, i, b) ==
    /\ g \in SWGroups
    /\ ~sched[r].fresh
    /\ \/ i <= nextStored[r][g] * BlockSizeFactor
       \/ content[b] = Data(r, g, i - 1)
       \/ pc = "schedule" /\ b \in AllocatedNow

\* block_ids is as long as the table and names, for each position, the block in
\* it, a null block of a sliding window, or a block that was abandoned harmlessly
ListsFit ==
    \A r \in Requests, g \in Groups : Listed(r) =>
        /\ Len(blockIds[r][g]) = (IF pc = "store" THEN computed[r] + sched[r].n ELSE computed[r])
        /\ \A i \in DOMAIN blockIds[r][g] :
              \/ blockIds[r][g][i] = NullBlock /\ g \in SWGroups
              \/ blockIds[r][g][i] \in Blocks /\ Holds(r, g, i, blockIds[r][g][i])
              \/ blockIds[r][g][i] \in Blocks /\ Abandoned(r, g, i, blockIds[r][g][i])

Engine == TablesFit /\ ScheduleFits /\ BatchFits
Slots  == SlotsAgree /\ SlotsExclusive /\ ComputedFilled /\ LoadsHold
Stores == StoresHold /\ StoresRead /\ StoresIssued /\ StoresDistinct /\ JobsPend
Lists  == IndexFits /\ ListsFit

Placed == Engine /\ Slots /\ Stores /\ Lists

\* What a step collects of its jobs: the batch's loads are loads, and the jobs of a
\* preempted request are flushed before its blocks are filled
Collected ==
    /\ \A j \in batchLoads : ~job[j].isStore
    /\ pc = "store" => \A j \in jobs : job[j].req \in preempted => j \in toFlush \ batchStores

\* The invariants that the steps rest on, before reset_cache and any exception.
InOrder == TypeOK /\ Bookkeeping /\ Expected /\ resets = 0 /\ pc # "dead"

-----------------------------------------------------------------------------
(***************************************************************************)
(* Data and tables.                                                        *)
(***************************************************************************)
\* The data of a position says which group and which position it is, and is
\* never nothing.
LEMMA DataParts ==
  /\ \A r, q, g, h, p, m : Data(r, g, p) = Data(q, h, m) => g = h /\ p = m
  /\ \A r, g, p : Data(r, g, p) # Nothing
  BY DEF Data, Nothing

\* The blocks of a table are the ones its entries hold.
LEMMA HeldBlocks ==
  ASSUME TypeOK, NEW r \in Requests, NEW b \in Blocks
  PROVE  /\ b \in TableBlocks(table[r]) <=> \E g \in Groups, i \in Nat : Holds(r, g, i, b)
         /\ \A g \in Groups : DOMAIN table[r][g] = 1 .. Len(table[r][g])
  <1>1. \A g \in Groups : DOMAIN table[r][g] \subseteq Nat /\ DOMAIN table[r][g] = 1 .. Len(table[r][g])
    BY DEF TypeOK, Tables
  <1> QED BY <1>1 DEF TableBlocks, Holds

\* What a pending job transfers.
LEMMA JobTypes ==
  ASSUME InOrder, NEW j \in jobs
  PROVE  /\ j \in JobIds /\ job[j].req \in Requests /\ job[j].isStore \in BOOLEAN
         /\ pending[j] \in Nat /\ left[j] \in Nat /\ done[j] \in Nat
         /\ \A d \in job[j].copies : d[1] \in Groups /\ d[2] \in Nat /\ d[3] \in Blocks
  <1>1. j \in JobIds /\ job[j].req \in Requests
    BY DEF InOrder, TypeOK, Bookkeeping, JobsAreIssued
  <1>2. job[j] \in Job
    BY <1>1 DEF InOrder, TypeOK
  <1>3. job[j] \in [req : Requests, isStore : BOOLEAN, keys : SUBSET Keys, copies : SUBSET Copy]
    BY <1>1, <1>2, SetsAssumption DEF Job, NoJob
  <1>4. \A d \in Copy : d[1] \in Groups /\ d[2] \in Nat /\ d[3] \in Blocks
    BY DEF Copy
  <1>5. pending[j] \in Nat /\ left[j] \in Nat /\ done[j] \in Nat
    BY <1>1 DEF InOrder, TypeOK, Counts
  <1> QED BY <1>1, <1>3, <1>4, <1>5

-----------------------------------------------------------------------------
(***************************************************************************)
(* Steps that move no block.                                               *)
(***************************************************************************)
\* A step that neither gives nor frees nor fills a block keeps the invariant if
\* it creates no job: calls and reports may arrive and jobs may end.
LEMMA KeptPlaced ==
  ASSUME InOrder, TypeOK', Placed, BatchFits',
         UNCHANGED <<computed, table, content, sched, preempted, batchStores, toFlush, allocated, toStore>>,
         pc' = pc \/ (pc \in {"idle", "output"} /\ pc' \in {"idle", "output", "schedule"}),
         \A r \in Requests : phase'[r] = phase[r] \/ (phase[r] = "unborn" /\ phase'[r] = "waiting"),
         \A r \in Requests : phase[r] = "running" => blockIds'[r] = blockIds[r] /\ nextStored'[r] = nextStored[r],
         \A r \in Requests, g, h \in Groups : nextStored'[r][g] = nextStored'[r][h],
         jobs' \subseteq jobs, \A j \in jobs' \cup batchStores : job'[j] = job[j],
         \A j \in jobs' : pending'[j] > 0 /\ left'[j] <= left[j] /\ left'[j] + done'[j] <= left[j] + done[j],
         \A j \in jobs', b \in Blocks : j \in pendingJobs[b] => j \in pendingJobs'[b]
  PROVE  Placed'
  <1>1. \A r \in Requests, g \in Groups : \A i, b : Holds(r, g, i, b)' <=> Holds(r, g, i, b)
    BY DEF Holds
  <1>2. AllocatedNow' = AllocatedNow
    BY DEF AllocatedNow, Scheduled, TableBlocks
  <1>3. \A r \in Requests : /\ phase'[r] = "running" <=> phase[r] = "running"
                            /\ phase'[r] = "finished" <=> phase[r] = "finished"
                            /\ phase'[r] \in {"loading", "loaded"} => phase'[r] = phase[r]
                            /\ phase[r] \in {"loading", "loaded"} => phase'[r] = phase[r]
    OBVIOUS
  <1>4. \A j \in jobs : j \in JobIds /\ job[j].req \in Requests
    BY JobTypes
  <1>5. \A j \in jobs : \A d \in job[j].copies : d[1] \in Groups /\ d[2] \in Nat /\ d[3] \in Blocks
    BY JobTypes
  <1>6. Engine'
    <2>1. TablesFit'
      BY <1>3 DEF Placed, Engine, TablesFit
    <2>2. ScheduleFits'
      BY DEF Placed, Engine, ScheduleFits
    <2> QED BY <2>1, <2>2 DEF Engine
  <1>7. Slots'
    <2>1. SlotsAgree' /\ SlotsExclusive'
      BY <1>1 DEF Placed, Slots, SlotsAgree, SlotsExclusive
    <2>2. ComputedFilled'
      BY <1>1, <1>3 DEF Placed, Slots, ComputedFilled
    <2>3. LoadsHold'
      BY <1>1, <1>3, <1>4, <1>5 DEF Placed, Slots, LoadsHold
    <2> QED BY <2>1, <2>2, <2>3 DEF Slots
  <1>8. Stores'
    <2>1. StoresHold'
      <3> SUFFICES ASSUME NEW j \in jobs', job'[j].isStore, left'[j] + done'[j] > 0 \/ j \in batchStores',
                          ~Finished(job[j].req)', job'[j].req \notin preempted'
                   PROVE  /\ phase'[job'[j].req] = "running"
                          /\ \A d \in job'[j].copies : d[1] \notin SWGroups
                                => Holds(job[j].req, d[1], d[2] + 1, d[3])'
        BY DEF StoresHold
      <3>1. left[j] + done[j] > 0 \/ j \in batchStores
        BY <1>4 DEF InOrder, TypeOK, Counts
      <3>2. ~Finished(job[j].req) /\ job[j].isStore /\ job[j].req \notin preempted /\ job'[j] = job[j]
        BY <1>3, <1>4 DEF Finished
      <3>3. /\ phase[job[j].req] = "running"
            /\ \A d \in job[j].copies : d[1] \notin SWGroups => Holds(job[j].req, d[1], d[2] + 1, d[3])
        BY <3>1, <3>2 DEF Placed, Stores, StoresHold
      <3> QED BY <3>2, <3>3, <1>1, <1>3, <1>4, <1>5
    <2>2. StoresRead'
      <3> SUFFICES ASSUME NEW j \in jobs', job'[j].isStore, left'[j] > 0, NEW d \in job'[j].copies
                   PROVE  content'[d[3]] = Data(job'[j].req, d[1], d[2]) \/ Flushing(j, d[3])'
        BY DEF StoresRead
      <3>1. job'[j] = job[j] /\ left[j] > 0
        BY <1>4 DEF InOrder, TypeOK, Counts
      <3>2. content[d[3]] = Data(job[j].req, d[1], d[2]) \/ Flushing(j, d[3])
        BY <3>1 DEF Placed, Stores, StoresRead
      <3>3. Flushing(j, d[3]) => Flushing(j, d[3])'
        BY <3>1, <1>2, <1>5 DEF Flushing
      <3> QED BY <3>1, <3>2, <3>3
    <2>3. StoresIssued'
      <3>1. \A j \in batchStores : job'[j] = job[j] /\ job[j].req \in Requests
                /\ \A d \in job[j].copies : d[1] \in Groups
        BY <1>4, <1>5 DEF InOrder, Bookkeeping, IssuedAreUnsent, Issued
      <3> QED BY <1>1, <3>1 DEF Placed, Stores, StoresIssued
    <2>4. StoresDistinct' /\ JobsPend'
      BY DEF Placed, Stores, StoresDistinct, JobsPend, Repeated
    <2> QED BY <2>1, <2>2, <2>3, <2>4 DEF Stores
  <1>9. Lists'
    <2>1. pc' = "store" <=> pc = "store"
      OBVIOUS
    <2>2. IndexFits'
      <3>1. \A r \in Requests : (Visited(r)' <=> Visited(r)) /\ ComputedNow(r)' = ComputedNow(r)
        BY <2>1 DEF Visited, ComputedNow
      <3> QED BY <1>3, <3>1 DEF Placed, Lists, IndexFits
    <2>3. ListsFit'
      <3>1. \A r \in Requests : Listed(r)' => Listed(r) /\ blockIds'[r] = blockIds[r]
        BY <1>3 DEF Listed
      <3>2. \A r \in Requests, g \in Groups : \A i, b : Listed(r)' /\ Abandoned(r, g, i, b) => Abandoned(r, g, i, b)'
        BY <1>2, <1>3 DEF Abandoned, Listed
      <3> QED BY <1>1, <2>1, <3>1, <3>2 DEF Placed, Lists, ListsFit
    <2> QED BY <2>2, <2>3 DEF Lists
  <1> QED BY <1>6, <1>7, <1>8, <1>9 DEF Placed

\* Arrivals, the start of a step, requests left in the queue, and the workers'
\* progress as long as no job ends.
LEMMA QuietPlaced ==
  ASSUME InOrder, TypeOK', Placed,
         \/ \E r \in Requests : OnNewRequest(r) \/ NotAdmitted(r)
         \/ StartStep \/ TakeOutput \/ UNCHANGED vars
         \/ \E j \in JobIds : WorkerDone(j)
  PROVE  Placed'
  <1>1. BatchFits /\ JobsPend /\ IndexFits
    BY DEF Placed, Engine, Stores, Lists
  <1>2. \A j \in jobs : j \in JobIds /\ left[j] \in Nat /\ done[j] \in Nat
    BY JobTypes
  <1>3. ASSUME NEW r \in Requests, OnNewRequest(r)
        PROVE  Placed'
    <2>1. /\ phase[r] = "unborn" /\ phase' = [phase EXCEPT ![r] = "waiting"]
          /\ UNCHANGED <<pc, computed, table, content, sched, preempted, batchStores, toFlush, allocated,
                         toStore, blockIds, nextStored, jobs, job, pending, left, done, pendingJobs,
                         outputs, staleJob>>
      BY <1>3 DEF OnNewRequest, jobVars, batchVars, workerVars
    <2>2. \A q \in Requests : phase'[q] = phase[q] \/ (phase[q] = "unborn" /\ phase'[q] = "waiting")
      BY <2>1 DEF InOrder, TypeOK
    <2>3. BatchFits'
      BY <1>1, <2>1, <2>2 DEF BatchFits
    <2> QED BY <1>1, <1>2, <2>1, <2>2, <2>3, KeptPlaced DEF JobsPend, IndexFits
  <1>4. ASSUME NEW r \in Requests, NotAdmitted(r)
        PROVE  Placed'
    <2>1. /\ phase[r] = "waiting" /\ blockIds' = [blockIds EXCEPT ![r] = EmptyTable]
          /\ UNCHANGED <<pc, phase, computed, table, content, sched, preempted, batchStores, toFlush,
                         allocated, toStore, nextStored, jobs, job, pending, left, done, pendingJobs,
                         outputs, staleJob>>
      BY <1>4 DEF NotAdmitted, Admissible, engineVars, jobVars, batchVars, workerVars
    <2>2. \A q \in Requests : phase[q] = "running" => blockIds'[q] = blockIds[q]
      BY <2>1 DEF InOrder, TypeOK
    <2>3. BatchFits'
      BY <1>1, <2>1 DEF BatchFits
    <2> QED BY <1>1, <1>2, <2>1, <2>2, <2>3, KeptPlaced DEF JobsPend, IndexFits
  <1>5. CASE StartStep
    <2>1. /\ pc = "idle" /\ pc' = "schedule" /\ Len(outputs) < (IF Async THEN 2 ELSE 1)
          /\ UNCHANGED <<phase, computed, table, content, sched, preempted, batchStores, toFlush,
                         allocated, toStore, blockIds, nextStored, jobs, job, pending, left, done,
                         pendingJobs, outputs, staleJob>>
      BY <1>5 DEF StartStep, requestVars, jobVars, batchVars, workerVars
    <2>2. ~Async => outputs = <<>>
      BY <2>1 DEF InOrder, TypeOK
    <2>3. BatchFits'
      BY <1>1, <2>1, <2>2 DEF BatchFits
    <2> QED BY <1>1, <1>2, <2>1, <2>3, KeptPlaced DEF JobsPend, IndexFits
  <1>6. CASE TakeOutput \/ UNCHANGED vars
    <2>1. /\ pc' = pc \/ (pc = "idle" /\ pc' \in {"idle", "output"})
          /\ pc' = "schedule" => outputs' = outputs
          /\ UNCHANGED <<phase, computed, table, content, sched, preempted, batchStores, toFlush,
                         allocated, toStore, blockIds, nextStored, jobs, job, pending, left, done,
                         pendingJobs, staleJob>>
      BY <1>6 DEF TakeOutput, AfterReport, vars, engineVars, requestVars, jobVars, batchVars, workerVars
    <2>2. BatchFits'
      BY <1>1, <2>1 DEF BatchFits
    <2> QED BY <1>1, <1>2, <2>1, <2>2, KeptPlaced DEF JobsPend, IndexFits
  <1>7. ASSUME NEW i \in JobIds, WorkerDone(i)
        PROVE  Placed'
    <2>1. /\ left' = [left EXCEPT ![i] = @ - 1] /\ done' = [done EXCEPT ![i] = @ + 1]
          /\ UNCHANGED <<pc, phase, computed, table, content, sched, preempted, batchStores, toFlush,
                         allocated, toStore, blockIds, nextStored, jobs, job, pending,
                         pendingJobs, outputs, staleJob>>
      BY <1>7 DEF WorkerDone, engineVars, requestVars, jobVars, batchVars
    <2>2. \A j \in jobs : left'[j] <= left[j] /\ left'[j] + done'[j] <= left[j] + done[j]
      <3>1. left \in [JobIds -> Nat] /\ done \in [JobIds -> Nat]
        BY DEF InOrder, TypeOK, Counts
      <3>2. \A j \in JobIds : left'[j] <= left[j] /\ left'[j] + done'[j] <= left[j] + done[j]
        BY <2>1, <3>1
      <3> QED BY <1>2, <3>2
    <2>3. BatchFits'
      BY <1>1, <2>1 DEF BatchFits
    <2> QED BY <1>1, <2>1, <2>2, <2>3, KeptPlaced DEF JobsPend, IndexFits
  <1> QED BY <1>3, <1>4, <1>5, <1>6, <1>7

-----------------------------------------------------------------------------
(***************************************************************************)
(* Steps of schedule() that give blocks.                                   *)
(***************************************************************************)
\* r gets the table t, in which the blocks in B are still to be filled; nobody
\* holds those, except r itself where its sliding window has gone past them
Given(r, t, B) ==
    /\ pc = "schedule" /\ pc' = "schedule"
    /\ phase[r] \in {"waiting", "loaded", "running"} /\ phase'[r] \in {"loading", "running"}
    /\ sched[r].n = 0
    /\ phase[r] = "waiting" => preempted = {}
    /\ table' = [table EXCEPT ![r] = t]
    /\ content' = Overwritten(B)
    /\ B \subseteq Blocks /\ B \subseteq AllocatedNow' /\ AllocatedNow \subseteq AllocatedNow'
    /\ \A q \in Requests \ {r} :
          /\ phase'[q] = phase[q] /\ computed'[q] = computed[q] /\ sched'[q] = sched[q]
          /\ blockIds'[q] = blockIds[q] /\ nextStored'[q] = nextStored[q]
    /\ UNCHANGED <<preempted, pendingJobs, left, done, batchStores, toFlush, toStore>>
    /\ \A q \in Requests, g \in Groups, i \in Nat, b \in B : Holds(q, g, i, b) => q = r /\ g \in SWGroups
    /\ \A g \in Groups : \A i \in DOMAIN t[g] : t[g][i] \in B =>
          /\ \A h \in Groups : \A k \in DOMAIN t[h] : t[h][k] = t[g][i] => h = g /\ k = i
          /\ phase'[r] = "running" => computed'[r] < i
    /\ \A g \in Groups : \A i \in DOMAIN t[g] :
          t[g][i] \in Blocks /\ t[g][i] \notin B => content[t[g][i]] = Data(r, g, i - 1)

\* r was running: it keeps its full-attention blocks and its place
GivenMore(r, t) ==
    /\ phase'[r] = "running" /\ ~sched'[r].fresh
    /\ computed'[r] = computed[r] /\ blockIds'[r] = blockIds[r] /\ nextStored'[r] = nextStored[r]
    /\ \A g \in FullGroups : \A i \in DOMAIN table[r][g] : i \in DOMAIN t[g] /\ t[g][i] = table[r][g][i]

\* Blocks may be given to a request if the ones to be filled are free.
LEMMA GivenPlaced ==
  ASSUME InOrder, TypeOK', Placed, Engine', NEW r \in Requests, NEW t, NEW B, Given(r, t, B),
         phase[r] = "running" => GivenMore(r, t), phase[r] # "running" /\ phase'[r] = "running" => sched'[r].fresh,
         \A q \in Requests, g, h \in Groups : nextStored'[q][g] = nextStored'[q][h],
         jobs \subseteq jobs', \A j \in jobs : job'[j] = job[j], JobsPend',
         \A j \in jobs' : job'[j].isStore => j \in jobs,
         \A j \in jobs' \ jobs :
            /\ job'[j].req \in Requests /\ phase'[job'[j].req] \in {"loading", "finished"}
            /\ \A d \in job'[j].copies : Holds(job[j].req, d[1], d[2] + 1, d[3])' /\ content'[d[3]] = Nothing
            /\ \A g \in Groups, i \in Nat, b \in Blocks :
                  Holds(job[j].req, g, i, b)' /\ content'[b] = Nothing => <<g, i - 1, b>> \in job'[j].copies
  PROVE  Placed'
  <1>1. /\ \A q \in Requests \ {r} : table'[q] = table[q]
        /\ table'[r] = t
    BY DEF Given, InOrder, TypeOK
  <1>2. /\ \A q \in Requests \ {r} : \A g, i, b : Holds(q, g, i, b)' <=> Holds(q, g, i, b)
        /\ \A g, i, b : Holds(r, g, i, b)' <=> i \in DOMAIN t[g] /\ t[g][i] = b
    BY <1>1 DEF Holds
  <1>3. \A b \in Blocks : content'[b] = IF b \in B THEN Nothing ELSE content[b]
    BY DEF Given, Overwritten
  <1>4. \A q \in Requests \ {r} : \A g \in Groups, i \in Nat, b \in Blocks :
          Holds(q, g, i, b) => b \notin B /\ content'[b] = content[b]
    BY <1>3 DEF Given
  <1>5. \A g \in Groups, i \in Nat, b \in Blocks : Holds(r, g, i, b)' =>
          /\ b \in B => /\ content'[b] = Nothing
                        /\ \A h \in Groups, k \in Nat : Holds(r, h, k, b)' => h = g /\ k = i
                        /\ phase'[r] = "running" => computed'[r] < i
          /\ b \notin B => content'[b] = Data(r, g, i - 1) /\ content[b] = content'[b]
    BY <1>2, <1>3 DEF Given
  <1>6. SlotsAgree'
    BY <1>2, <1>4, <1>5 DEF Placed, Slots, SlotsAgree
  <1>7. SlotsExclusive'
    <2> SUFFICES ASSUME NEW p \in Requests, NEW q \in Requests, NEW g \in Groups, NEW h \in Groups,
                        NEW i \in Nat, NEW k \in Nat, NEW b \in Blocks,
                        content'[b] = Nothing, Holds(p, g, i, b)', Holds(q, h, k, b)'
                 PROVE  q = p /\ h = g /\ k = i
      BY DEF SlotsExclusive
    <2>1. CASE p = r \/ q = r
      <3>1. b \in B
        BY <2>1, <1>5, DataParts
      <3>2. p = r /\ q = r
        BY <3>1, <1>2, <1>4
      <3> QED BY <3>1, <3>2, <1>5
    <2>2. CASE p # r /\ q # r
      <3>1. Holds(p, g, i, b) /\ Holds(q, h, k, b) /\ content[b] = Nothing
        BY <2>2, <1>2, <1>4
      <3> QED BY <3>1 DEF Placed, Slots, SlotsExclusive
    <2> QED BY <2>1, <2>2
  <1>8. ComputedFilled'
    <2> SUFFICES ASSUME NEW q \in Requests, NEW g \in Groups, NEW i \in Nat, NEW b \in Blocks,
                        phase'[q] = "loaded" \/ (phase'[q] = "running" /\ i <= computed'[q]),
                        Holds(q, g, i, b)'
                 PROVE  content'[b] = Data(q, g, i - 1)
      BY DEF ComputedFilled
    <2>1. CASE q = r
      <3>1. phase'[r] = "running" /\ computed'[r] \in Nat
        BY <2>1 DEF Given, TypeOK
      <3>2. b \notin B
        BY <2>1, <3>1, <1>5
      <3> QED BY <2>1, <3>2, <1>5
    <2>2. CASE q # r
      <3>1. phase'[q] = phase[q] /\ computed'[q] = computed[q]
        BY <2>2 DEF Given
      <3> QED BY <2>2, <3>1, <1>2, <1>4 DEF Placed, Slots, ComputedFilled
    <2> QED BY <2>1, <2>2
  <1>9. LoadsHold'
    <2>1. ASSUME NEW j \in jobs, ~job[j].isStore
          PROVE  /\ phase'[job'[j].req] \in {"loading", "finished"}
                 /\ \A d \in job'[j].copies : Holds(job[j].req, d[1], d[2] + 1, d[3])' /\ content'[d[3]] = Nothing
                 /\ \A g \in Groups, i \in Nat, b \in Blocks :
                      Holds(job[j].req, g, i, b)' /\ content'[b] = Nothing => <<g, i - 1, b>> \in job'[j].copies
      <3>1. job'[j] = job[j] /\ job[j].req \in Requests
        BY JobTypes
      <3>2. /\ phase[job[j].req] \in {"loading", "finished"}
            /\ \A d \in job[j].copies : Holds(job[j].req, d[1], d[2] + 1, d[3]) /\ content[d[3]] = Nothing
            /\ \A g \in Groups, i \in Nat, b \in Blocks :
                 Holds(job[j].req, g, i, b) /\ content[b] = Nothing => <<g, i - 1, b>> \in job[j].copies
        BY <2>1 DEF Placed, Slots, LoadsHold
      <3>3. job[j].req # r
        BY <3>2 DEF Given
      <3>4. \A d \in job[j].copies : content'[d[3]] = Nothing /\ Holds(job[j].req, d[1], d[2] + 1, d[3])'
        <4> SUFFICES ASSUME NEW d \in job[j].copies
                     PROVE  content'[d[3]] = Nothing /\ Holds(job[j].req, d[1], d[2] + 1, d[3])'
          OBVIOUS
        <4>1. d[1] \in Groups /\ d[2] + 1 \in Nat /\ d[3] \in Blocks
          BY JobTypes
        <4>2. Holds(job[j].req, d[1], d[2] + 1, d[3]) /\ content[d[3]] = Nothing
          BY <3>2
        <4>3. content'[d[3]] = Nothing
          BY <4>1, <4>2, <1>3
        <4>4. Holds(job[j].req, d[1], d[2] + 1, d[3])'
          BY <3>1, <3>3, <4>2, <1>1 DEF Holds
        <4> QED BY <4>3, <4>4
      <3>5. phase'[job[j].req] = phase[job[j].req]
        BY <3>1, <3>3 DEF Given
      <3>6. ASSUME NEW g \in Groups, NEW i \in Nat, NEW b \in Blocks,
                   Holds(job[j].req, g, i, b)', content'[b] = Nothing
            PROVE  <<g, i - 1, b>> \in job[j].copies
        <4>1. Holds(job[j].req, g, i, b)
          BY <3>1, <3>3, <3>6, <1>1 DEF Holds
        <4>2. content[b] = Nothing
          BY <3>1, <3>3, <3>6, <4>1, <1>4
        <4> QED BY <4>1, <4>2, <3>2
      <3> QED BY <3>1, <3>2, <3>4, <3>5, <3>6
    <2> QED BY <2>1 DEF LoadsHold
  <1>10. \A q \in Requests : q # r => phase'[q] = phase[q] /\ sched'[q] = sched[q] /\ computed'[q] = computed[q]
                                       /\ blockIds'[q] = blockIds[q] /\ nextStored'[q] = nextStored[q]
    BY DEF Given
  <1>11. ~Finished(r) /\ ~Finished(r)'
    BY DEF Given, Finished
  <1>12. \A j \in jobs' : job'[j].isStore => /\ j \in jobs /\ job'[j] = job[j] /\ job[j].req \in Requests
                                             /\ \A d \in job[j].copies : d[1] \in Groups /\ d[2] + 1 \in Nat
                                                                          /\ d[3] \in Blocks
    BY JobTypes
  <1>13. UNCHANGED <<preempted, pendingJobs, left, done, batchStores>> /\ pc = "schedule" /\ pc' = "schedule"
    BY DEF Given
  <1>14. batchStores = {}
    BY <1>13 DEF Placed, Engine, BatchFits
  <1>15. StoresHold'
    <2> SUFFICES ASSUME NEW j \in jobs', job'[j].isStore, left'[j] + done'[j] > 0 \/ j \in batchStores',
                        ~Finished(job[j].req)', job'[j].req \notin preempted'
                 PROVE  /\ phase'[job'[j].req] = "running"
                        /\ \A d \in job'[j].copies : d[1] \notin SWGroups
                              => Holds(job[j].req, d[1], d[2] + 1, d[3])'
      BY DEF StoresHold
    <2>1. j \in jobs /\ job'[j] = job[j] /\ job[j].req \in Requests
      BY <1>12
    <2>2. ~Finished(job[j].req) /\ job[j].req \notin preempted /\ left[j] + done[j] > 0
      BY <2>1, <1>10, <1>11, <1>13, <1>14 DEF Finished
    <2>3. /\ phase[job[j].req] = "running"
          /\ \A d \in job[j].copies : d[1] \notin SWGroups => Holds(job[j].req, d[1], d[2] + 1, d[3])
      BY <2>1, <2>2 DEF Placed, Stores, StoresHold
    <2>4. CASE job[j].req # r
      <3>1. \A d \in job[j].copies : d[1] \notin SWGroups => Holds(job[j].req, d[1], d[2] + 1, d[3])'
        BY <2>1, <2>3, <2>4, <1>1 DEF Holds
      <3> QED BY <2>1, <2>3, <2>4, <3>1, <1>10
    <2>5. CASE job[j].req = r
      <3>1. GivenMore(r, t)
        BY <2>3, <2>5
      <3>2. ASSUME NEW d \in job[j].copies, d[1] \notin SWGroups
            PROVE  Holds(job[j].req, d[1], d[2] + 1, d[3])'
        <4>1. d[1] \in FullGroups
          BY <3>2, <2>1, <1>12 DEF Groups
        <4>2. Holds(r, d[1], d[2] + 1, d[3])
          BY <2>3, <2>5, <3>2
        <4>3. d[2] + 1 \in DOMAIN t[d[1]] /\ t[d[1]][d[2] + 1] = d[3]
          BY <3>1, <4>1, <4>2 DEF GivenMore, Holds
        <4> QED BY <2>1, <2>5, <4>3, <1>1 DEF Holds
      <3> QED BY <2>1, <2>5, <3>1, <3>2 DEF GivenMore
    <2> QED BY <2>4, <2>5
  <1>16. StoresRead'
    <2> SUFFICES ASSUME NEW j \in jobs', job'[j].isStore, left'[j] > 0, NEW d \in job'[j].copies
                 PROVE  content'[d[3]] = Data(job'[j].req, d[1], d[2]) \/ Flushing(j, d[3])'
      BY DEF StoresRead
    <2>1. /\ j \in jobs /\ job'[j] = job[j] /\ job[j].req \in Requests /\ left[j] > 0
          /\ d[1] \in Groups /\ d[2] + 1 \in Nat /\ d[3] \in Blocks
      BY <1>12, <1>13
    <2>2. CASE Flushing(j, d[3])
      <3>1. Flushing(j, d[3])'
        BY <2>1, <2>2, <1>13 DEF Flushing, Given
      <3> QED BY <3>1
    <2>3. CASE content[d[3]] = Data(job[j].req, d[1], d[2]) /\ d[3] \notin B
      BY <2>1, <2>3, <1>3
    <2>4. CASE d[3] \in B /\ job[j].req \in preempted
      BY <2>1, <2>4, <1>13 DEF Flushing
    <2>5. CASE d[3] \in B /\ job[j].req \notin preempted
      <3>1. d[3] \in AllocatedNow'
        BY <2>5 DEF Given
      <3>2. CASE j \in pendingJobs[d[3]]
        BY <3>1, <3>2, <2>1, <1>13 DEF Flushing
      <3>3. CASE j \notin pendingJobs[d[3]]
        <4>1. d[3] \notin Registered(j)
          BY <3>3, <2>1 DEF InOrder, Bookkeeping, PendingTableExact
        <4>2. ~Finished(job[j].req) /\ d[1] \notin SWGroups
          BY <4>1 DEF Registered, SWBlocks, FullBlocks
        <4>3. Holds(job[j].req, d[1], d[2] + 1, d[3])
          <5>1. left[j] + done[j] > 0
            BY <2>1, JobTypes
          <5> QED BY <5>1, <2>1, <2>5, <4>2 DEF Placed, Stores, StoresHold
        <4>4. FALSE
          BY <4>2, <4>3, <2>1, <2>5 DEF Given
        <4> QED BY <4>4
      <3> QED BY <3>2, <3>3
    <2> QED BY <2>1, <2>2, <2>3, <2>4, <2>5 DEF Placed, Stores, StoresRead
  <1>17. StoresIssued' /\ StoresDistinct'
    <2>1. StoresIssued'
      BY <1>13, <1>14 DEF StoresIssued
    <2>2. StoresDistinct'
      BY <1>12 DEF Placed, Stores, StoresDistinct, Repeated
    <2> QED BY <2>1, <2>2
  <1>18. IndexFits'
    <2> SUFFICES ASSUME NEW q \in Requests, NEW g \in Groups,
                        phase'[q] = "running", sched'[q].fresh => Visited(q)'
                 PROVE  nextStored'[q][g] <= ChunkOf(AtMost(ComputedNow(q)', OffloadLimit))
      BY DEF IndexFits
    <2>1. ~Visited(q) /\ ~Visited(q)' /\ ComputedNow(q) = computed[q] /\ ComputedNow(q)' = computed'[q]
      BY <1>13 DEF Visited, ComputedNow
    <2>2. phase[q] = "running" /\ ~sched[q].fresh /\ computed'[q] = computed[q] /\ nextStored'[q] = nextStored[q]
      <3>1. CASE q # r
        BY <3>1, <2>1, <1>10
      <3>2. CASE q = r
        <4>1. phase[r] = "running" /\ GivenMore(r, t)
          BY <3>2, <2>1
        <4>2. ~sched[r].fresh
          BY DEF Given, Placed, Engine, ScheduleFits, NotScheduled
        <4> QED BY <3>2, <4>1, <4>2 DEF GivenMore
      <3> QED BY <3>1, <3>2
    <2> QED BY <2>1, <2>2 DEF Placed, Lists, IndexFits
  <1>19. ListsFit'
    <2> SUFFICES ASSUME NEW q \in Requests, NEW g \in Groups, Listed(q)'
                 PROVE  /\ Len(blockIds'[q][g]) = computed'[q]
                        /\ \A i \in DOMAIN blockIds'[q][g] :
                              \/ blockIds'[q][g][i] = NullBlock /\ g \in SWGroups
                              \/ blockIds'[q][g][i] \in Blocks /\ Holds(q, g, i, blockIds[q][g][i])'
                              \/ blockIds'[q][g][i] \in Blocks /\ Abandoned(q, g, i, blockIds[q][g][i])'
      BY <1>13 DEF ListsFit
    <2>1. /\ phase[q] = "running" /\ ~sched[q].fresh /\ ~sched'[q].fresh
          /\ computed'[q] = computed[q] /\ nextStored'[q] = nextStored[q] /\ blockIds'[q] = blockIds[q]
          /\ q = r => GivenMore(r, t)
      <3>1. CASE q # r
        BY <3>1, <1>10, <1>13 DEF Listed
      <3>2. CASE q = r
        <4>1. phase[r] = "running" /\ GivenMore(r, t)
          BY <3>2, <1>13 DEF Listed
        <4>2. ~sched[r].fresh
          BY DEF Given, Placed, Engine, ScheduleFits, NotScheduled
        <4> QED BY <3>2, <4>1, <4>2 DEF GivenMore
      <3> QED BY <3>1, <3>2
    <2>2. /\ Len(blockIds[q][g]) = computed[q]
          /\ \A i \in DOMAIN blockIds[q][g] :
                \/ blockIds[q][g][i] = NullBlock /\ g \in SWGroups
                \/ blockIds[q][g][i] \in Blocks /\ Holds(q, g, i, blockIds[q][g][i])
                \/ blockIds[q][g][i] \in Blocks /\ Abandoned(q, g, i, blockIds[q][g][i])
      BY <2>1, <1>13 DEF Placed, Lists, ListsFit, Listed
    <2>3. ASSUME NEW i \in DOMAIN blockIds[q][g], blockIds[q][g][i] \in Blocks,
                 g \in SWGroups, content[blockIds[q][g][i]] = Data(q, g, i - 1)
          PROVE  Abandoned(q, g, i, blockIds[q][g][i])'
      <3>1. CASE blockIds[q][g][i] \in B
        BY <2>1, <2>3, <3>1, <1>13 DEF Given, Abandoned
      <3>2. CASE blockIds[q][g][i] \notin B
        BY <2>1, <2>3, <3>2, <1>3 DEF Abandoned
      <3> QED BY <3>1, <3>2
    <2>4. ASSUME NEW i \in DOMAIN blockIds[q][g], blockIds[q][g][i] \in Blocks, Holds(q, g, i, blockIds[q][g][i])
          PROVE  Holds(q, g, i, blockIds[q][g][i])' \/ Abandoned(q, g, i, blockIds[q][g][i])'
      <3>1. CASE q # r
        BY <2>1, <2>4, <3>1, <1>1 DEF Holds
      <3>2. CASE q = r /\ g \in FullGroups
        BY <2>1, <2>4, <3>2, <1>1 DEF Holds, GivenMore
      <3>3. CASE q = r /\ g \in SWGroups
        <4>1. i \in Nat /\ i <= computed[q]
          <5>1. blockIds[q][g] \in Seq(BlockId)
            BY DEF InOrder, TypeOK, Tables
          <5> QED BY <5>1, <2>2, <2>4
        <4>2. content[blockIds[q][g][i]] = Data(q, g, i - 1)
          BY <4>1, <2>1, <2>4 DEF Placed, Slots, ComputedFilled
        <4> QED BY <4>2, <3>3, <2>3, <2>4
      <3> QED BY <3>1, <3>2, <3>3 DEF Groups
    <2>5. ASSUME NEW i \in DOMAIN blockIds[q][g], blockIds[q][g][i] \in Blocks, Abandoned(q, g, i, blockIds[q][g][i])
          PROVE  Abandoned(q, g, i, blockIds[q][g][i])'
      <3>1. CASE i <= nextStored[q][g] * BlockSizeFactor
        BY <2>1, <2>5, <3>1 DEF Abandoned
      <3>2. CASE blockIds[q][g][i] \in AllocatedNow
        BY <2>1, <2>5, <3>2, <1>13 DEF Abandoned, Given
      <3> QED BY <2>3, <2>5, <3>1, <3>2 DEF Abandoned
    <2> QED BY <2>1, <2>2, <2>4, <2>5
  <1> QED
    BY <1>6, <1>7, <1>8, <1>9, <1>15, <1>16, <1>17, <1>18, <1>19
    DEF Placed, Slots, Stores, Lists

\* The tables of the engine still fit when r is given the table t.
LEMMA GivenEngine ==
  ASSUME InOrder, TypeOK', Placed, NEW r \in Requests, NEW t,
         pc = "schedule", pc' = "schedule", r \notin preempted,
         UNCHANGED <<preempted, toFlush, toStore, batchStores, staleJob, outputs>>,
         table' = [table EXCEPT ![r] = t], phase'[r] \in {"loading", "running"},
         \A q \in Requests \ {r} : phase'[q] = phase[q] /\ computed'[q] = computed[q] /\ sched'[q] = sched[q],
         \A g \in Groups : Len(t[g]) = computed'[r] + sched'[r].n,
         \A g \in FullGroups : \A i \in DOMAIN t[g] : t[g][i] \in Blocks,
         sched'[r].n > 0 => computed'[r] + sched'[r].n <= MaxLen,
         sched'[r].n = 0 => sched'[r] = NotScheduled,
         sched'[r].n > 0 /\ sched'[r].fresh => sched'[r].new = t,
         sched'[r].n > 0 /\ ~sched'[r].fresh => \A g \in Groups :
            /\ Len(sched'[r].new[g]) = sched'[r].n
            /\ \A k \in 1 .. sched'[r].n : sched'[r].new[g][k] = t[g][computed'[r] + k]
  PROVE  Engine'
  <1>1. table'[r] = t /\ \A q \in Requests \ {r} : table'[q] = table[q]
    BY DEF InOrder, TypeOK
  <1>2. TablesFit'
    <2>1. \A q \in Requests : phase'[q] \in {"unborn", "waiting"} => table'[q] = EmptyTable
      BY <1>1 DEF Placed, Engine, TablesFit
    <2>2. \A q \in Requests, g \in Groups : phase'[q] \in {"loading", "loaded", "running"}
            => Len(table'[q][g]) = computed'[q] + sched'[q].n
      BY <1>1 DEF Placed, Engine, TablesFit
    <2>3. \A q \in Requests, g \in FullGroups : \A i \in DOMAIN table'[q][g] : table'[q][g][i] \in Blocks
      BY <1>1 DEF Placed, Engine, TablesFit
    <2>4. \A q \in Requests : sched'[q].n > 0 => computed'[q] + sched'[q].n <= MaxLen
      BY DEF Placed, Engine, TablesFit
    <2> QED BY <2>1, <2>2, <2>3, <2>4 DEF TablesFit
  <1>3. ScheduleFits'
    <2>1. ASSUME NEW q \in Requests
          PROVE  /\ sched'[q].n = 0 => sched'[q] = NotScheduled
                 /\ sched'[q].n > 0 /\ sched'[q].fresh => sched'[q].new = table'[q]
                 /\ sched'[q].n > 0 /\ ~sched'[q].fresh => \A g \in Groups :
                       /\ Len(sched'[q].new[g]) = sched'[q].n
                       /\ \A k \in 1 .. sched'[q].n : sched'[q].new[g][k] = table'[q][g][computed'[q] + k]
      <3>1. CASE q = r
        BY <3>1, <1>1
      <3>2. CASE q # r
        <4>1. sched'[q] = sched[q] /\ table'[q] = table[q] /\ computed'[q] = computed[q]
          BY <3>2, <1>1
        <4> QED BY <4>1 DEF Placed, Engine, ScheduleFits
      <3> QED BY <3>1, <3>2
    <2> QED BY <2>1 DEF ScheduleFits, NotScheduled, EmptyTable
  <1>4. BatchFits'
    <2>1. \A q \in preempted : phase'[q] = phase[q]
      BY DEF InOrder, TypeOK
    <2> QED BY <2>1 DEF Placed, Engine, BatchFits
  <1> QED BY <1>2, <1>3, <1>4 DEF Engine

\* What is handed out in a step only grows.
LEMMA AllocatedGrows ==
  ASSUME NEW r \in Requests, allocated \subseteq allocated', sched[r].n = 0,
         \A q \in Requests \ {r} : sched'[q] = sched[q]
  PROVE  /\ AllocatedNow \subseteq AllocatedNow'
         /\ sched'[r].n > 0 => TableBlocks(sched'[r].new) \subseteq AllocatedNow'
  <1>1. \A q \in Scheduled : q \in Scheduled' /\ TableBlocks(sched[q].new) = TableBlocks(sched'[q].new)
    BY DEF Scheduled
  <1>2. sched'[r].n > 0 => r \in Scheduled'
    BY DEF Scheduled
  <1>3. \A t : TableBlocks(t)' = TableBlocks(t)
    BY DEF TableBlocks
  <1> QED BY <1>1, <1>2, <1>3 DEF AllocatedNow, TableBlocks

\* The table of a request that goes on: the blocks it still needs hold its data,
\* and behind them come the blocks it was given.
LEMMA ExtendedEntries ==
  ASSUME InOrder, Placed, NEW r \in Requests, phase[r] \in {"loaded", "running"}, sched[r].n = 0,
         NEW n \in Nat, NEW e \in Extensions(r, n), NEW t, t = Concat(Skipped(r), e)
  PROVE  /\ \A g \in Groups : Len(t[g]) = computed[r] + n /\ DOMAIN t[g] = 1 .. computed[r] + n
         /\ \A g \in Groups : \A k \in 1 .. n : t[g][computed[r] + k] = e[g][k]
         /\ \A g \in FullGroups : \A i \in DOMAIN table[r][g] : i \in DOMAIN t[g] /\ t[g][i] = table[r][g][i]
         /\ \A g \in FullGroups : \A i \in DOMAIN t[g] : t[g][i] \in Blocks
         /\ \A g \in Groups : \A i \in DOMAIN t[g] : t[g][i] \in TableBlocks(e) =>
               /\ \A h \in Groups : \A k \in DOMAIN t[h] : t[h][k] = t[g][i] => h = g /\ k = i
               /\ computed[r] < i
         /\ \A g \in Groups : \A i \in DOMAIN t[g] :
               t[g][i] \in Blocks /\ t[g][i] \notin TableBlocks(e) => content[t[g][i]] = Data(r, g, i - 1)
         /\ \A q \in Requests, g \in Groups, i \in Nat, b \in TableBlocks(e) :
               Holds(q, g, i, b) => q = r /\ g \in SWGroups
  <1> DEFINE c == computed[r]
  <1>1. c \in Nat /\ table[r] \in Tables /\ e \in Tables /\ Skipped(r) \in Tables
    BY ExtensionsType, SkippedType DEF InOrder, TypeOK
  <1>2. \A g \in Groups : Len(table[r][g]) = c /\ DOMAIN table[r][g] = 1 .. c
    BY <1>1 DEF Placed, Engine, TablesFit, Tables
  <1>3. \A g \in Groups : \A i \in 1 .. c :
          Skipped(r)[g][i] = (IF i - 1 \in Needed(g, c) THEN table[r][g][i] ELSE NullBlock)
    BY <1>2 DEF Skipped
  <1>4. \A g \in Groups : Len(Skipped(r)[g]) = c /\ DOMAIN Skipped(r)[g] = 1 .. c
    <2>1. \A g \in Groups : Skipped(r)[g] \in Seq(BlockId) /\ DOMAIN Skipped(r)[g] = DOMAIN table[r][g]
      BY <1>1 DEF Tables, Skipped
    <2> QED BY <1>1, <1>2, <2>1
  <1>5. \A g \in Groups : Len(e[g]) = n /\ DOMAIN e[g] = 1 .. n
    BY ExtensionsShape
  <1>6. \A g \in Groups : /\ Len(t[g]) = c + n /\ DOMAIN t[g] = 1 .. c + n
                          /\ \A i \in 1 .. c : t[g][i] = Skipped(r)[g][i]
                          /\ \A k \in 1 .. n : t[g][c + k] = e[g][k]
    <2> SUFFICES ASSUME NEW g \in Groups
                 PROVE  /\ Len(t[g]) = c + n /\ DOMAIN t[g] = 1 .. c + n
                        /\ \A i \in 1 .. c : t[g][i] = Skipped(r)[g][i]
                        /\ \A k \in 1 .. n : t[g][c + k] = e[g][k]
      OBVIOUS
    <2>1. t[g] = Skipped(r)[g] \o e[g]
      BY DEF Concat
    <2>2. Skipped(r)[g] \in Seq(BlockId) /\ e[g] \in Seq(BlockId)
      BY <1>1 DEF Tables
    <2>3. Len(Skipped(r)[g]) = c /\ Len(e[g]) = n /\ c \in Nat
      BY <1>1, <1>4, <1>5
    <2> HIDE DEF c
    <2> DEFINE s == Skipped(r)[g]
    <2>4. t[g] = s \o e[g] /\ s \in Seq(BlockId) /\ Len(s) = c
      BY <2>1, <2>2, <2>3
    <2>5. Len(t[g]) = c + n /\ DOMAIN t[g] = 1 .. c + n
      <3> HIDE DEF s
      <3>1. Len(s \o e[g]) = Len(s) + Len(e[g])
        BY <2>2, <2>4, ConcatProperties, Zenon
      <3>2. t[g] \in Seq(BlockId)
        BY <2>2, <2>4
      <3>3. DOMAIN t[g] = 1 .. Len(t[g])
        BY <3>2
      <3> QED BY <2>3, <2>4, <3>1, <3>3
    <2>6. \A i \in 1 .. c : t[g][i] = s[i]
      <3> HIDE DEF s
      <3> QED BY <2>2, <2>3, <2>4
    <2>7. \A k \in 1 .. n : t[g][c + k] = e[g][k]
      <3> HIDE DEF s
      <3> QED BY <2>2, <2>3, <2>4
    <2> QED BY <2>5, <2>6, <2>7
  <1>7. \A g \in FullGroups : \A i \in 1 .. c : i - 1 \in Needed(g, c)
    BY <1>1, SetsAssumption DEF Needed
  <1> HIDE DEF c
  <1>8. \A g \in FullGroups : \A i \in 1 .. c : t[g][i] = table[r][g][i] /\ t[g][i] \in Blocks
    <2>1. \A g \in FullGroups : \A i \in 1 .. c : table[r][g][i] \in Blocks
      BY <1>2 DEF Placed, Engine, TablesFit, Groups
    <2> QED BY <1>3, <1>6, <1>7, <2>1 DEF Groups
  <1>9. \A g \in Groups : \A i \in 1 .. c : t[g][i] \in Blocks => t[g][i] = table[r][g][i] /\ i - 1 \in Needed(g, c)
    BY <1>3, <1>6, SetsAssumption
  <1>10. \A g \in Groups : \A i \in 1 .. c + n : i \in 1 .. c \/ (i - c \in 1 .. n /\ i = c + (i - c))
    BY <1>1
  <1>11. \A b \in TableBlocks(e) : b \in Blocks /\ \E g \in Groups : \E k \in 1 .. n : e[g][k] = b
    BY <1>5 DEF TableBlocks
  <1>12. \A g \in Groups : \A i \in 1 .. c : t[g][i] \notin TableBlocks(e)
    <2> SUFFICES ASSUME NEW g \in Groups, NEW i \in 1 .. c, t[g][i] \in TableBlocks(e) PROVE FALSE
      OBVIOUS
    <2>1. PICK h \in Groups, k \in 1 .. n : e[h][k] = t[g][i]
      BY <1>11
    <2>2. e[h][k] \in Blocks /\ e[h][k] \notin TableBlocks(Skipped(r))
      BY ExtensionsEntries
    <2>3. Skipped(r)[g][i] = e[h][k]
      BY <1>6, <2>1
    <2> QED BY <2>2, <2>3, <1>4 DEF TableBlocks
  <1>13. ASSUME NEW g \in Groups, NEW i \in 1 .. c + n, t[g][i] \in TableBlocks(e)
         PROVE  /\ \A h \in Groups : \A k \in 1 .. c + n : t[h][k] = t[g][i] => h = g /\ k = i
                /\ c < i
    <2>1. PICK m \in 1 .. n : i = c + m /\ t[g][i] = e[g][m]
      BY <1>6, <1>10, <1>12, <1>13
    <2>2. ASSUME NEW h \in Groups, NEW k \in 1 .. c + n, t[h][k] = t[g][i]
          PROVE  h = g /\ k = i
      <3>1. PICK l \in 1 .. n : k = c + l /\ t[h][k] = e[h][l]
        BY <1>6, <1>10, <1>12, <1>13, <2>2
      <3>2. h = g /\ l = m
        BY <2>1, <2>2, <3>1, ExtensionsEntries
      <3> QED BY <2>1, <3>1, <3>2
    <2>3. c < i
      BY <1>1, <2>1
    <2> QED BY <2>2, <2>3
  <1>14. ASSUME NEW g \in Groups, NEW i \in 1 .. c + n, t[g][i] \in Blocks, t[g][i] \notin TableBlocks(e)
         PROVE  content[t[g][i]] = Data(r, g, i - 1)
    <2>1. i \in 1 .. c
      <3>1. i - c \in 1 .. n /\ i = c + (i - c) => t[g][i] = e[g][i - c] /\ i - c \in DOMAIN e[g]
        BY <1>5, <1>6
      <3>2. i - c \in 1 .. n /\ i = c + (i - c) => t[g][i] \in TableBlocks(e)
        BY <1>14, <3>1 DEF TableBlocks
      <3> QED BY <3>2, <1>10, <1>14
    <2>2. Holds(r, g, i, t[g][i]) /\ i <= c /\ i \in Nat
      BY <1>1, <1>2, <1>9, <1>14, <2>1 DEF Holds
    <2> QED BY <2>2, <1>14 DEF Placed, Slots, ComputedFilled, c
  <1>15. ASSUME NEW q \in Requests, NEW g \in Groups, NEW i \in Nat, NEW b \in TableBlocks(e), Holds(q, g, i, b)
         PROVE  q = r /\ g \in SWGroups
    <2>1. PICK h \in Groups, k \in 1 .. n : e[h][k] = b
      BY <1>11
    <2>2. /\ b \in Blocks /\ b \notin TableBlocks(Skipped(r))
          /\ \A p \in Requests \ {r} : b \notin TableBlocks(table[p])
      BY <2>1, ExtensionsEntries
    <2>3. b \in TableBlocks(table[q])
      BY <1>15, <2>2 DEF Holds, TableBlocks
    <2>4. q = r
      BY <2>2, <2>3
    <2>5. ASSUME g \in FullGroups PROVE FALSE
      <3>1. i \in 1 .. c /\ table[r][g][i] = b
        BY <1>2, <1>15, <2>4 DEF Holds
      <3>2. Skipped(r)[g][i] = b
        BY <3>1, <2>5, <1>3, <1>7
      <3> QED BY <3>1, <3>2, <2>2, <1>4 DEF TableBlocks
    <2> QED BY <2>4, <2>5 DEF Groups
  <1>16. \A g \in FullGroups : \A i \in 1 .. c + n : t[g][i] \in Blocks
    <2> SUFFICES ASSUME NEW g \in FullGroups, NEW i \in 1 .. c + n PROVE t[g][i] \in Blocks
      OBVIOUS
    <2>1. g \in Groups
      BY DEF Groups
    <2>2. i - c \in 1 .. n => e[g][i - c] \in Blocks
      BY <2>1, ExtensionsEntries
    <2> QED BY <2>1, <2>2, <1>6, <1>8, <1>10
  <1>17. \A g \in FullGroups : \A i \in DOMAIN table[r][g] : i \in DOMAIN t[g] /\ t[g][i] = table[r][g][i]
    BY <1>1, <1>2, <1>6, <1>8 DEF Groups
  <1> QED BY <1>6, <1>13, <1>14, <1>15, <1>16, <1>17 DEF c, Groups

\* The table of a request that is admitted: the blocks above its GPU prefix hit
\* were free, the others hold its data.
LEMMA AdmittedEntries ==
  ASSUME TypeOK, NEW r \in Requests, NEW local \in Nat, NEW hit \in Nat, NEW end \in Nat, hit <= end,
         NEW t \in TablesFor(r, local, hit, end), NEW B, B = Claimed(t, local)
  PROVE  /\ t \in Tables
         /\ \A g \in Groups : Len(t[g]) = end /\ DOMAIN t[g] = 1 .. end
         /\ \A g \in FullGroups : \A i \in DOMAIN t[g] : t[g][i] \in Blocks
         /\ B \subseteq TableBlocks(t) /\ TableBlocks(t) \subseteq Blocks
         /\ \A g \in Groups : \A i \in DOMAIN t[g] : t[g][i] \in B =>
               /\ \A h \in Groups : \A k \in DOMAIN t[h] : t[h][k] = t[g][i] => h = g /\ k = i
               /\ local < i
         /\ \A g \in Groups : \A i \in DOMAIN t[g] :
               t[g][i] \in Blocks /\ t[g][i] \notin B => content[t[g][i]] = Data(r, g, i - 1)
         /\ \A q \in Requests, g \in Groups, i \in Nat, b \in B : ~Holds(q, g, i, b)
  <1>1. \A g \in Groups : Len(t[g]) = end /\ DOMAIN t[g] = 1 .. end
    BY TablesForShape
  <1>2. \A g \in FullGroups : \A i \in 1 .. end : t[g][i] \in Blocks
    <2>1. \A g \in FullGroups : g \in Groups
      BY DEF Groups
    <2> QED BY <2>1, TablesForEntries, Zenon
  <1>3. t \in Tables
    BY TablesForType
  <1>4. B \subseteq TableBlocks(t) /\ TableBlocks(t) \subseteq Blocks
    BY DEF Claimed, TableBlocks
  <1>5. ASSUME NEW g \in Groups, NEW i \in 1 .. end, i > local, t[g][i] \in Blocks
        PROVE  /\ t[g][i] \in Free
               /\ \A h \in Groups : \A k \in 1 .. end : t[h][k] = t[g][i] => h = g /\ k = i
    BY <1>5, TablesForEntries
  <1>6. \A b \in B : b \in Blocks /\ \E g \in Groups : \E i \in 1 .. end : i > local /\ t[g][i] = b
    BY <1>1 DEF Claimed
  <1>7. ASSUME NEW g \in Groups, NEW i \in 1 .. end, t[g][i] \in B
        PROVE  /\ \A h \in Groups : \A k \in 1 .. end : t[h][k] = t[g][i] => h = g /\ k = i
               /\ local < i
    <2>1. PICK h \in Groups, k \in 1 .. end : k > local /\ t[h][k] = t[g][i] /\ t[g][i] \in Blocks
      BY <1>6, <1>7
    <2>2. h = g /\ k = i
      BY <2>1, <1>5
    <2> QED BY <2>1, <2>2, <1>5
  <1>8. ASSUME NEW g \in Groups, NEW i \in 1 .. end, t[g][i] \in Blocks, t[g][i] \notin B
        PROVE  content[t[g][i]] = Data(r, g, i - 1)
    <2>1. i <= local
      BY <1>1, <1>8 DEF Claimed
    <2>2. i <= local /\ t[g][i] \in Blocks => content[t[g][i]] = Data(r, g, i - 1)
      BY TablesForEntries
    <2> QED BY <2>1, <2>2, <1>8
  <1>9. ASSUME NEW q \in Requests, NEW g \in Groups, NEW i \in Nat, NEW b \in B, Holds(q, g, i, b)
        PROVE  FALSE
    <2>1. b \in Free
      BY <1>5, <1>6
    <2>2. b \in TableBlocks(table[q])
      BY <2>1, <1>9, HeldBlocks DEF Free
    <2> QED BY <2>1, <2>2 DEF Free
  <1> QED BY <1>1, <1>2, <1>3, <1>4, <1>7, <1>8, <1>9 DEF Groups

\* A request is admitted without a load.
LEMMA AdmitWithoutLoadPlaced ==
  ASSUME InOrder, TypeOK', Placed, NEW r \in Requests, NEW n \in 1 .. MaxChunk, AdmitWithoutLoad(r, n)
  PROVE  Placed'
  <1>1. PICK local \in 0 .. PromptLen :
          /\ Admissible(r)
          /\ local + n <= MaxLen
          /\ \E t \in TablesFor(r, local, local, local + n) : StartOn(r, t, local, n)
          /\ blockIds' = [blockIds EXCEPT ![r] = EmptyTable]
          /\ UNCHANGED <<pc, preempted, finishedIds, tracked, nextStored, jobVars, batchVars,
                         workerVars, managerVars, staleJob, loading, error, resets>>
    BY DEF AdmitWithoutLoad
  <1>2. PICK t \in TablesFor(r, local, local, local + n) : StartOn(r, t, local, n)
    BY <1>1
  <1>3. local \in Nat /\ n \in Nat /\ n > 0
    BY CountsAssumption
  <1> DEFINE B == Claimed(t, local)
  <1>4. /\ pc = "schedule" /\ phase[r] = "waiting" /\ preempted = {} /\ sched[r].n = 0
        /\ UNCHANGED <<pc, preempted, nextStored, jobs, job, pending, pendingJobs, allocated, toFlush, toStore,
                       batchStores, staleJob, outputs, left, done>>
    BY <1>1 DEF Admissible, jobVars, batchVars, workerVars
  <1>5. /\ table' = [table EXCEPT ![r] = t] /\ content' = Overwritten(B)
        /\ sched'[r] = [n |-> n, fresh |-> TRUE, new |-> t] /\ computed'[r] = local /\ phase'[r] = "running"
        /\ \A q \in Requests \ {r} : /\ phase'[q] = phase[q] /\ computed'[q] = computed[q] /\ sched'[q] = sched[q]
                                     /\ blockIds'[q] = blockIds[q]
    BY <1>1, <1>2 DEF StartOn, InOrder, TypeOK
  <1> DEFINE e == local + n
  <1>6. e \in Nat /\ local <= e
    BY <1>3
  <1>7. t \in TablesFor(r, local, local, e)
    OBVIOUS
  <1>a. B = Claimed(t, local)
    OBVIOUS
  <1> HIDE DEF e, B
  <1>8. /\ \A g \in Groups : Len(t[g]) = e /\ DOMAIN t[g] = 1 .. e
        /\ \A g \in FullGroups : \A i \in DOMAIN t[g] : t[g][i] \in Blocks
        /\ B \subseteq TableBlocks(t) /\ TableBlocks(t) \subseteq Blocks
        /\ \A g \in Groups : \A i \in DOMAIN t[g] : t[g][i] \in B =>
              /\ \A h \in Groups : \A k \in DOMAIN t[h] : t[h][k] = t[g][i] => h = g /\ k = i
              /\ local < i
        /\ \A g \in Groups : \A i \in DOMAIN t[g] :
              t[g][i] \in Blocks /\ t[g][i] \notin B => content[t[g][i]] = Data(r, g, i - 1)
        /\ \A q \in Requests, g \in Groups, i \in Nat, b \in B : ~Holds(q, g, i, b)
    BY <1>3, <1>6, <1>7, <1>a, AdmittedEntries DEF InOrder
  <1>9. Engine'
    <2>1. \A g \in Groups : Len(t[g]) = computed'[r] + sched'[r].n
      BY <1>5, <1>8 DEF e
    <2>2. /\ sched'[r].n > 0 => computed'[r] + sched'[r].n <= MaxLen
          /\ sched'[r].n = 0 => sched'[r] = NotScheduled
          /\ sched'[r].n > 0 /\ sched'[r].fresh => sched'[r].new = t
          /\ sched'[r].fresh
      BY <1>1, <1>3, <1>5
    <2>3. /\ pc = "schedule" /\ pc' = "schedule" /\ r \notin preempted
          /\ UNCHANGED <<preempted, toFlush, toStore, batchStores, staleJob, outputs>>
          /\ table' = [table EXCEPT ![r] = t] /\ phase'[r] \in {"loading", "running"}
      BY <1>4, <1>5
    <2>4. \A q \in Requests \ {r} : phase'[q] = phase[q] /\ computed'[q] = computed[q] /\ sched'[q] = sched[q]
      BY <1>5
    <2>5. \A g \in FullGroups : \A i \in DOMAIN t[g] : t[g][i] \in Blocks
      BY <1>8
    <2> QED BY <2>1, <2>2, <2>3, <2>4, <2>5, GivenEngine, Zenon
  <1>10. AllocatedNow \subseteq AllocatedNow' /\ B \subseteq AllocatedNow'
    BY <1>3, <1>4, <1>5, <1>8, AllocatedGrows
  <1>11. Given(r, t, B)
    BY <1>4, <1>5, <1>8, <1>10 DEF Given
  <1>12. JobsPend' /\ \A q \in Requests, g, h \in Groups : nextStored'[q][g] = nextStored'[q][h]
    BY <1>4 DEF Placed, Stores, Lists, JobsPend, IndexFits
  <1> QED BY <1>4, <1>5, <1>9, <1>11, <1>12, GivenPlaced

\* A request goes on, after its load arrived or in the middle of its run.
LEMMA SchedulePlaced ==
  ASSUME InOrder, TypeOK', Placed, NEW r \in Requests, NEW n \in 1 .. MaxChunk,
         ScheduleLoaded(r, n) \/ ScheduleRunning(r, n)
  PROVE  Placed'
  <1>1. /\ pc = "schedule" /\ phase[r] \in {"loaded", "running"} /\ computed[r] + n <= MaxLen
        /\ phase[r] = "running" => sched[r].n = 0
        /\ UNCHANGED <<pc, computed, preempted, blockIds, nextStored, jobs, job, pending, pendingJobs, allocated,
                       toFlush, toStore, batchStores, staleJob, outputs, left, done>>
        /\ phase'[r] = "running" /\ \A q \in Requests \ {r} : phase'[q] = phase[q]
    BY DEF ScheduleLoaded, ScheduleRunning, requestVars, jobVars, batchVars, workerVars, InOrder, TypeOK
  <1>2. PICK e \in Extensions(r, n) :
          /\ table' = [table EXCEPT ![r] = Concat(Skipped(r), e)]
          /\ content' = Overwritten(TableBlocks(e))
          /\ \/ phase[r] = "loaded"
                /\ sched' = [sched EXCEPT ![r] = [n |-> n, fresh |-> TRUE, new |-> Concat(Skipped(r), e)]]
             \/ phase[r] = "running" /\ sched' = [sched EXCEPT ![r] = [n |-> n, fresh |-> FALSE, new |-> e]]
    BY DEF ScheduleLoaded, ScheduleRunning
  <1> DEFINE t == Concat(Skipped(r), e)
             B == TableBlocks(e)
  <1>3. n \in Nat /\ n > 0 /\ sched[r].n = 0 /\ r \notin preempted
    <2>1. phase[r] = "loaded" => r \notin Scheduled
      BY <1>1 DEF InOrder, Bookkeeping, EngineInStep
    <2>2. sched[r].n \in Nat
      BY DEF InOrder, TypeOK
    <2> QED BY <1>1, <2>1, <2>2, CountsAssumption DEF Scheduled, Placed, Engine, BatchFits
  <1>4. /\ sched'[r].n = n /\ (sched'[r].fresh <=> phase[r] = "loaded")
        /\ sched'[r].new = (IF phase[r] = "loaded" THEN t ELSE e)
        /\ \A q \in Requests \ {r} : sched'[q] = sched[q]
    BY <1>2 DEF InOrder, TypeOK
  <1>5. t = Concat(Skipped(r), e)
    OBVIOUS
  <1> HIDE DEF t
  <1>6. /\ \A g \in Groups : Len(t[g]) = computed[r] + n /\ DOMAIN t[g] = 1 .. computed[r] + n
        /\ \A g \in Groups : \A k \in 1 .. n : t[g][computed[r] + k] = e[g][k]
        /\ \A g \in FullGroups : \A i \in DOMAIN table[r][g] : i \in DOMAIN t[g] /\ t[g][i] = table[r][g][i]
        /\ \A g \in FullGroups : \A i \in DOMAIN t[g] : t[g][i] \in Blocks
        /\ \A g \in Groups : \A i \in DOMAIN t[g] : t[g][i] \in B =>
              /\ \A h \in Groups : \A k \in DOMAIN t[h] : t[h][k] = t[g][i] => h = g /\ k = i
              /\ computed[r] < i
        /\ \A g \in Groups : \A i \in DOMAIN t[g] :
              t[g][i] \in Blocks /\ t[g][i] \notin B => content[t[g][i]] = Data(r, g, i - 1)
        /\ \A q \in Requests, g \in Groups, i \in Nat, b \in B : Holds(q, g, i, b) => q = r /\ g \in SWGroups
    BY <1>1, <1>3, <1>5, ExtendedEntries
  <1>7. \A g \in Groups : Len(e[g]) = n /\ DOMAIN e[g] = 1 .. n
    BY <1>3, ExtensionsShape
  <1>8. B \subseteq Blocks /\ B \subseteq TableBlocks(sched'[r].new)
    <2>1. ASSUME NEW b \in B PROVE b \in TableBlocks(t)
      <3>1. PICK g \in Groups, k \in 1 .. n : e[g][k] = b /\ b \in Blocks
        BY <1>3, <1>7, ExtensionsEntries DEF TableBlocks
      <3>2. computed[r] + k \in DOMAIN t[g] /\ t[g][computed[r] + k] = b
        <4>1. computed[r] \in Nat
          BY DEF InOrder, TypeOK
        <4>2. computed[r] + k \in 1 .. computed[r] + n
          BY <4>1, <1>3
        <4> QED BY <4>2, <3>1, <1>6
      <3> QED BY <3>1, <3>2 DEF TableBlocks
    <2>2. B \subseteq Blocks
      BY DEF TableBlocks
    <2> QED BY <2>1, <2>2, <1>4
  <1>9. Engine'
    <2>1. \A g \in Groups : Len(t[g]) = computed'[r] + sched'[r].n
      BY <1>1, <1>4, <1>6
    <2>2. /\ sched'[r].n > 0 => computed'[r] + sched'[r].n <= MaxLen
          /\ sched'[r].n = 0 => sched'[r] = NotScheduled
      BY <1>1, <1>3, <1>4
    <2>3. /\ sched'[r].n > 0 /\ sched'[r].fresh => sched'[r].new = t
          /\ sched'[r].n > 0 /\ ~sched'[r].fresh => \A g \in Groups :
                /\ Len(sched'[r].new[g]) = sched'[r].n
                /\ \A k \in 1 .. sched'[r].n : sched'[r].new[g][k] = t[g][computed'[r] + k]
      BY <1>1, <1>4, <1>6, <1>7
    <2>4. /\ pc = "schedule" /\ pc' = "schedule" /\ r \notin preempted
          /\ UNCHANGED <<preempted, toFlush, toStore, batchStores, staleJob, outputs>>
          /\ table' = [table EXCEPT ![r] = t] /\ phase'[r] \in {"loading", "running"}
      BY <1>1, <1>2, <1>3, <1>5
    <2>5. \A q \in Requests \ {r} : phase'[q] = phase[q] /\ computed'[q] = computed[q] /\ sched'[q] = sched[q]
      BY <1>1, <1>4
    <2>6. \A g \in FullGroups : \A i \in DOMAIN t[g] : t[g][i] \in Blocks
      BY <1>6
    <2> QED BY <2>1, <2>2, <2>3, <2>4, <2>5, <2>6, GivenEngine, Zenon
  <1>10. AllocatedNow \subseteq AllocatedNow' /\ B \subseteq AllocatedNow'
    BY <1>1, <1>3, <1>4, <1>8, AllocatedGrows
  <1> HIDE DEF B
  <1>11. Given(r, t, B)
    BY <1>1, <1>2, <1>3, <1>4, <1>5, <1>6, <1>8, <1>10 DEF Given, B
  <1>12. phase[r] = "running" => GivenMore(r, t)
    BY <1>1, <1>4, <1>6 DEF GivenMore
  <1>13. JobsPend' /\ \A q \in Requests, g, h \in Groups : nextStored'[q][g] = nextStored'[q][h]
    BY <1>1 DEF Placed, Stores, Lists, JobsPend, IndexFits
  <1> QED BY <1>1, <1>4, <1>9, <1>11, <1>12, <1>13, GivenPlaced

\* A request is admitted with a load, which is to fill what its table lacks.
LEMMA AdmitWithLoadPlaced ==
  ASSUME InOrder, TypeOK', Placed, NEW r \in Requests, AdmitWithLoad(r), pc' # "dead"
  PROVE  Placed'
  <1>1. PICK local \in 0 .. PromptLen : \E c \in LoadableChunks(r, local) :
          /\ Admissible(r)
          /\ jobCounter < MaxJobs
          /\ \E t \in TablesFor(r, local, c * BlockSizeFactor, c * BlockSizeFactor) :
               /\ IssueLoad(r, t, local, c)
               /\ LoadInto(r, t, local, c * BlockSizeFactor)
               /\ blockIds' = [blockIds EXCEPT ![r] = EmptyTable]
               /\ UNCHANGED <<pc, sched, preempted, finishedIds, tracked, workerVars,
                              managerVars, staleJob, error, resets>>
    BY DEF AdmitWithLoad, Raise
  <1>2. PICK c \in LoadableChunks(r, local) :
          /\ Admissible(r)
          /\ jobCounter < MaxJobs
          /\ \E t \in TablesFor(r, local, c * BlockSizeFactor, c * BlockSizeFactor) :
               /\ IssueLoad(r, t, local, c)
               /\ LoadInto(r, t, local, c * BlockSizeFactor)
               /\ blockIds' = [blockIds EXCEPT ![r] = EmptyTable]
               /\ UNCHANGED <<pc, sched, preempted, finishedIds, tracked, workerVars,
                              managerVars, staleJob, error, resets>>
    BY <1>1
  <1> DEFINE hit == c * BlockSizeFactor
  <1>3. local \in Nat /\ c \in Nat /\ hit \in Nat /\ local <= hit
    <2>1. local \in Nat /\ c \in Nat /\ hit \in Nat
      BY CountsAssumption DEF LoadableChunks
    <2>2. hit - local >= BlockSizeFactor
      BY DEF LoadableChunks, Loadable
    <2> HIDE DEF hit
    <2> QED BY <2>1, <2>2, CountsAssumption
  <1>4. PICK t \in TablesFor(r, local, hit, hit) : IssueLoad(r, t, local, c) /\ LoadInto(r, t, local, hit)
    BY <1>2
  <1> DEFINE B == Claimed(t, local)
             copies == LoadCopies(t, local, hit)
  <1>5. /\ pc = "schedule" /\ phase[r] = "waiting" /\ preempted = {} /\ sched[r].n = 0
        /\ UNCHANGED <<pc, sched, preempted, left, done, outputs, staleJob>>
        /\ \A q \in Requests \ {r} : blockIds'[q] = blockIds[q]
    BY <1>2 DEF Admissible, workerVars, InOrder, TypeOK
  <1>6. /\ table' = [table EXCEPT ![r] = t] /\ content' = Overwritten(B)
        /\ computed'[r] = hit /\ phase'[r] = "loading"
        /\ \A q \in Requests \ {r} : phase'[q] = phase[q] /\ computed'[q] = computed[q]
    BY <1>4 DEF LoadInto, InOrder, TypeOK
  <1>7. /\ allocated' = allocated \cup TableBlocks(t)
        /\ nextStored' = IF BlockLevel THEN [nextStored EXCEPT ![r] = [g \in Groups |-> c]] ELSE nextStored
        /\ UNCHANGED <<pendingJobs, batchStores, toFlush, toStore>>
        /\ jobs' = jobs \cup {jobCounter}
        /\ job' = [job EXCEPT ![jobCounter] =
                     [req |-> r, isStore |-> FALSE, keys |-> LoadKeys(r, copies, c), copies |-> copies]]
        /\ pending' = [pending EXCEPT ![jobCounter] = NumWorkers]
    BY <1>4 DEF IssueLoad, NewJob, ReportsExpected
  <1>8. t \in TablesFor(r, local, hit, hit) /\ B = Claimed(t, local)
    OBVIOUS
  <1>9. copies = {<<s[1], s[2], t[s[1]][s[2] + 1]>> : s \in
                    {s \in Groups \X (local .. hit - 1) : t[s[1]][s[2] + 1] \in Blocks}}
    BY DEF LoadCopies
  <1> HIDE DEF hit, B, copies
  <1>10. /\ \A g \in Groups : Len(t[g]) = hit /\ DOMAIN t[g] = 1 .. hit
         /\ \A g \in FullGroups : \A i \in DOMAIN t[g] : t[g][i] \in Blocks
         /\ B \subseteq TableBlocks(t) /\ TableBlocks(t) \subseteq Blocks
         /\ \A g \in Groups : \A i \in DOMAIN t[g] : t[g][i] \in B =>
               /\ \A h \in Groups : \A k \in DOMAIN t[h] : t[h][k] = t[g][i] => h = g /\ k = i
               /\ local < i
         /\ \A g \in Groups : \A i \in DOMAIN t[g] :
               t[g][i] \in Blocks /\ t[g][i] \notin B => content[t[g][i]] = Data(r, g, i - 1)
         /\ \A q \in Requests, g \in Groups, i \in Nat, b \in B : ~Holds(q, g, i, b)
    <2>1. TypeOK /\ hit \in Nat /\ hit <= hit
      BY <1>3 DEF InOrder
    <2> QED BY <1>3, <1>8, <2>1, AdmittedEntries, SMTT(60)
  <1>11. Engine'
    <2>1. \A g \in Groups : Len(t[g]) = computed'[r] + sched'[r].n
      BY <1>3, <1>5, <1>6, <1>10
    <2>2. /\ sched'[r].n > 0 => computed'[r] + sched'[r].n <= MaxLen
          /\ sched'[r].n = 0 => sched'[r] = NotScheduled
          /\ sched'[r].n = 0 /\ ~(sched'[r].n > 0)
      BY <1>5 DEF Placed, Engine, ScheduleFits
    <2>3. /\ pc = "schedule" /\ pc' = "schedule" /\ r \notin preempted
          /\ UNCHANGED <<preempted, toFlush, toStore, batchStores, staleJob, outputs>>
          /\ table' = [table EXCEPT ![r] = t] /\ phase'[r] \in {"loading", "running"}
      BY <1>5, <1>6, <1>7
    <2>4. \A q \in Requests \ {r} : phase'[q] = phase[q] /\ computed'[q] = computed[q] /\ sched'[q] = sched[q]
      BY <1>5, <1>6
    <2>5. \A g \in FullGroups : \A i \in DOMAIN t[g] : t[g][i] \in Blocks
      BY <1>10
    <2> QED BY <2>1, <2>2, <2>3, <2>4, <2>5, GivenEngine, ZenonT(60)
  <1>12. AllocatedNow \subseteq AllocatedNow' /\ B \subseteq AllocatedNow'
    <2>1. B \subseteq allocated'
      BY <1>7, <1>10
    <2> QED BY <2>1, <1>5, <1>7, AllocatedGrows DEF AllocatedNow
  <1>13. \A q \in Requests \ {r} : nextStored'[q] = nextStored[q]
    BY <1>7 DEF InOrder, TypeOK
  <1>14. Given(r, t, B)
    <2>1. /\ pc = "schedule" /\ pc' = "schedule"
          /\ phase[r] \in {"waiting", "loaded", "running"} /\ phase'[r] \in {"loading", "running"}
          /\ sched[r].n = 0 /\ preempted = {} /\ phase'[r] # "running"
      BY <1>5, <1>6
    <2>2. \A q \in Requests \ {r} :
             /\ phase'[q] = phase[q] /\ computed'[q] = computed[q] /\ sched'[q] = sched[q]
             /\ blockIds'[q] = blockIds[q] /\ nextStored'[q] = nextStored[q]
      BY <1>5, <1>6, <1>13
    <2>3. /\ table' = [table EXCEPT ![r] = t] /\ content' = Overwritten(B) /\ B \subseteq Blocks
          /\ UNCHANGED <<preempted, pendingJobs, left, done, batchStores, toFlush, toStore>>
      BY <1>5, <1>6, <1>7, <1>10
    <2>4. /\ \A q \in Requests, g \in Groups, i \in Nat, b \in B : ~Holds(q, g, i, b)
          /\ \A g \in Groups : \A i \in DOMAIN t[g] : t[g][i] \in B =>
                \A h \in Groups : \A k \in DOMAIN t[h] : t[h][k] = t[g][i] => h = g /\ k = i
          /\ \A g \in Groups : \A i \in DOMAIN t[g] :
                t[g][i] \in Blocks /\ t[g][i] \notin B => content[t[g][i]] = Data(r, g, i - 1)
      BY <1>10, Zenon
    <2> QED BY <2>1, <2>2, <2>3, <2>4, <1>12, Zenon DEF Given
  <1>15. jobCounter \in JobIds /\ jobCounter \notin jobs
    BY <1>2, CountsAssumption DEF InOrder, TypeOK, Bookkeeping, JobsAreIssued, JobIds
  <1>16. \A j \in jobs : job'[j] = job[j] /\ pending'[j] = pending[j]
    BY <1>7, <1>15 DEF InOrder, TypeOK
  <1>17. /\ job'[jobCounter].req = r /\ ~job'[jobCounter].isStore /\ job'[jobCounter].copies = copies
         /\ pending'[jobCounter] = NumWorkers
    BY <1>7, <1>15 DEF InOrder, TypeOK, Counts
  <1>18. JobsPend'
    BY <1>7, <1>16, <1>17, CountsAssumption DEF Placed, Stores, JobsPend
  <1>19. \A q \in Requests, g, h \in Groups : nextStored'[q][g] = nextStored'[q][h]
    BY <1>7 DEF InOrder, TypeOK, Placed, Lists, IndexFits
  <1>20. table'[r] = t /\ \A b \in Blocks : content'[b] = IF b \in B THEN Nothing ELSE content[b]
    BY <1>6 DEF InOrder, TypeOK, Overwritten
  <1>21. ASSUME NEW d \in copies
         PROVE  Holds(r, d[1], d[2] + 1, d[3])' /\ content'[d[3]] = Nothing
    <2>1. PICK s \in Groups \X (local .. hit - 1) :
             t[s[1]][s[2] + 1] \in Blocks /\ d = <<s[1], s[2], t[s[1]][s[2] + 1]>>
      BY <1>9
    <2>2. s[1] \in Groups /\ s[2] + 1 \in 1 .. hit /\ s[2] + 1 > local
      BY <2>1, <1>3
    <2>3. d[3] \in B
      BY <2>1, <2>2, <1>8, <1>10 DEF Claimed
    <2> QED BY <2>1, <2>2, <2>3, <1>10, <1>20 DEF Holds
  <1>22. ASSUME NEW g \in Groups, NEW i \in Nat, NEW b \in Blocks, Holds(r, g, i, b)', content'[b] = Nothing
         PROVE  <<g, i - 1, b>> \in copies
    <2>1. i \in DOMAIN t[g] /\ t[g][i] = b
      BY <1>20, <1>22 DEF Holds
    <2>2. b \in B
      BY <2>1, <1>10, <1>20, <1>22, DataParts
    <2>3. i - 1 \in local .. hit - 1 /\ (i - 1) + 1 = i
      BY <2>1, <2>2, <1>3, <1>10
    <2> DEFINE s == <<g, i - 1>>
    <2>4. s \in Groups \X (local .. hit - 1) /\ t[s[1]][s[2] + 1] = b
      BY <2>1, <2>3
    <2>5. <<g, i - 1, b>> = <<s[1], s[2], t[s[1]][s[2] + 1]>>
      BY <2>4
    <2> HIDE DEF s
    <2> QED BY <2>4, <2>5, <1>9
  <1>23. ASSUME NEW j \in jobs' \ jobs
         PROVE  /\ job'[j].req \in Requests /\ phase'[job'[j].req] \in {"loading", "finished"}
                /\ \A d \in job'[j].copies : Holds(job[j].req, d[1], d[2] + 1, d[3])' /\ content'[d[3]] = Nothing
                /\ \A g \in Groups, i \in Nat, b \in Blocks :
                      Holds(job[j].req, g, i, b)' /\ content'[b] = Nothing => <<g, i - 1, b>> \in job'[j].copies
    <2>1. j = jobCounter
      BY <1>7
    <2>2. job'[j].req = r /\ job'[j].copies = copies
      BY <2>1, <1>17
    <2>3. \A g, i, b : Holds(job[j].req, g, i, b)' <=> Holds(r, g, i, b)'
      BY <2>2 DEF Holds
    <2> QED BY <2>2, <2>3, <1>6, <1>21, <1>22
  <1>24. \A j \in jobs' : job'[j].isStore => j \in jobs
    BY <1>7, <1>17
  <1>25. jobs \subseteq jobs' /\ phase[r] # "running" /\ phase'[r] # "running"
    BY <1>5, <1>6, <1>7
  <1> QED BY <1>11, <1>14, <1>16, <1>18, <1>19, <1>23, <1>24, <1>25, GivenPlaced

-----------------------------------------------------------------------------
(***************************************************************************)
(* Steps that free blocks.                                                 *)
(***************************************************************************)
\* A request that is preempted or ends gives up its blocks, unless a load still
\* fills them: their content stays, and the stores that read them are flushed or
\* registered.
LEMMA FreedPlaced ==
  ASSUME InOrder, TypeOK', Placed, BatchFits', NEW r \in Requests,
         pc \in {"idle", "schedule"}, pc' = pc, sched[r].n = 0, phase[r] \in {"waiting", "loading", "loaded", "running"},
         phase'[r] \in {"waiting", "finished"}, phase[r] = "loading" => phase'[r] = "finished",
         phase'[r] = "waiting" => r \in preempted',
         preempted \subseteq preempted', preempted' \subseteq preempted \cup {r},
         table' = IF phase[r] = "loading" THEN table ELSE [table EXCEPT ![r] = EmptyTable],
         UNCHANGED <<content, sched, jobs, job, pending, left, done, batchStores, toFlush, allocated, toStore>>,
         \A q \in Requests \ {r} : /\ phase'[q] = phase[q] /\ computed'[q] = computed[q]
                                   /\ blockIds'[q] = blockIds[q] /\ nextStored'[q] = nextStored[q],
         \A q \in Requests, g, h \in Groups : nextStored'[q][g] = nextStored'[q][h],
         \A b \in Blocks : pendingJobs[b] \subseteq pendingJobs'[b]
  PROVE  Placed'
  <1>1. /\ \A q \in Requests \ {r} : table'[q] = table[q]
        /\ table'[r] = (IF phase[r] = "loading" THEN table[r] ELSE EmptyTable)
    BY DEF InOrder, TypeOK
  <1>2. /\ \A q \in Requests, g \in Groups : \A i, b : Holds(q, g, i, b)' => Holds(q, g, i, b)
        /\ \A q \in Requests, g \in Groups : \A i, b : q # r \/ phase[r] = "loading"
              => (Holds(q, g, i, b)' <=> Holds(q, g, i, b))
        /\ phase[r] # "loading" => \A g \in Groups : \A i, b : ~Holds(r, g, i, b)'
    BY <1>1 DEF Holds, EmptyTable
  <1>3. AllocatedNow' = AllocatedNow
    BY DEF AllocatedNow, Scheduled, TableBlocks
  <1>4. Engine'
    <2>1. TablesFit'
      <3>1. \A q \in Requests : phase'[q] \in {"unborn", "waiting"} => table'[q] = EmptyTable
        BY <1>1 DEF Placed, Engine, TablesFit
      <3>2. \A q \in Requests, g \in Groups : phase'[q] \in {"loading", "loaded", "running"}
              => Len(table'[q][g]) = computed'[q] + sched'[q].n
        BY <1>1 DEF Placed, Engine, TablesFit
      <3>3. \A q \in Requests, g \in FullGroups : \A i \in DOMAIN table'[q][g] : table'[q][g][i] \in Blocks
        BY <1>1 DEF Placed, Engine, TablesFit, EmptyTable, Groups
      <3>4. \A q \in Requests : sched'[q].n > 0 => computed'[q] + sched'[q].n <= MaxLen
        BY DEF Placed, Engine, TablesFit
      <3> QED BY <3>1, <3>2, <3>3, <3>4 DEF TablesFit
    <2>2. ScheduleFits'
      <3>1. \A q \in Requests : sched[q].n > 0 => table'[q] = table[q] /\ computed'[q] = computed[q]
        BY <1>1
      <3>2. ASSUME NEW q \in Requests
            PROVE  /\ sched[q].n = 0 => sched[q] = NotScheduled
                   /\ sched[q].n > 0 /\ sched[q].fresh => sched[q].new = table'[q]
                   /\ sched[q].n > 0 /\ ~sched[q].fresh => \A g \in Groups :
                         /\ Len(sched[q].new[g]) = sched[q].n
                         /\ \A k \in 1 .. sched[q].n : sched[q].new[g][k] = table'[q][g][computed'[q] + k]
        BY <3>1 DEF Placed, Engine, ScheduleFits
      <3> QED BY <3>2 DEF ScheduleFits
    <2> QED BY <2>1, <2>2 DEF Engine
  <1>5. Slots'
    <2>1. SlotsAgree' /\ SlotsExclusive'
      BY <1>2 DEF Placed, Slots, SlotsAgree, SlotsExclusive
    <2>2. ComputedFilled'
      <3>1. \A q \in Requests : phase'[q] \in {"loaded", "running"}
              => phase'[q] = phase[q] /\ computed'[q] = computed[q]
        OBVIOUS
      <3> QED BY <1>2, <3>1 DEF Placed, Slots, ComputedFilled
    <2>3. LoadsHold'
      <3> SUFFICES ASSUME NEW j \in jobs, ~job[j].isStore
                   PROVE  /\ phase'[job[j].req] \in {"loading", "finished"}
                          /\ \A d \in job[j].copies :
                                Holds(job[j].req, d[1], d[2] + 1, d[3])' /\ content[d[3]] = Nothing
                          /\ \A g \in Groups, i \in Nat, b \in Blocks :
                                Holds(job[j].req, g, i, b)' /\ content[b] = Nothing
                                => <<g, i - 1, b>> \in job[j].copies
        BY DEF LoadsHold
      <3>1. job[j].req \in Requests /\ \A d \in job[j].copies : d[1] \in Groups
        BY JobTypes
      <3>2. /\ phase[job[j].req] \in {"loading", "finished"}
            /\ \A d \in job[j].copies : Holds(job[j].req, d[1], d[2] + 1, d[3]) /\ content[d[3]] = Nothing
            /\ \A g \in Groups, i \in Nat, b \in Blocks :
                 Holds(job[j].req, g, i, b) /\ content[b] = Nothing => <<g, i - 1, b>> \in job[j].copies
        BY DEF Placed, Slots, LoadsHold
      <3>3. job[j].req # r \/ phase[r] = "loading"
        BY <3>2
      <3>4. \A g \in Groups : \A i, b : Holds(job[j].req, g, i, b)' <=> Holds(job[j].req, g, i, b)
        BY <3>1, <3>3, <1>1 DEF Holds
      <3>5. phase'[job[j].req] \in {"loading", "finished"}
        BY <3>1, <3>2, <3>3
      <3> QED BY <3>1, <3>2, <3>4, <3>5
    <2> QED BY <2>1, <2>2, <2>3 DEF Slots
  <1>6. batchStores = {}
    BY DEF Placed, Engine, BatchFits
  <1>7. Stores'
    <2>1. StoresHold'
      <3> SUFFICES ASSUME NEW j \in jobs, job[j].isStore, left[j] + done[j] > 0,
                          ~Finished(job[j].req)', job[j].req \notin preempted'
                   PROVE  /\ phase'[job[j].req] = "running"
                          /\ \A d \in job[j].copies : d[1] \notin SWGroups
                                => Holds(job[j].req, d[1], d[2] + 1, d[3])'
        BY <1>6 DEF StoresHold
      <3>1. job[j].req \in Requests
        BY JobTypes
      <3>2. job[j].req # r
        BY <3>1 DEF Finished
      <3>3. ~Finished(job[j].req) /\ job[j].req \notin preempted /\ phase'[job[j].req] = phase[job[j].req]
        BY <3>1, <3>2 DEF Finished
      <3>4. /\ phase[job[j].req] = "running"
            /\ \A d \in job[j].copies : d[1] \notin SWGroups => Holds(job[j].req, d[1], d[2] + 1, d[3])
        BY <3>3 DEF Placed, Stores, StoresHold
      <3> QED BY <3>1, <3>2, <3>3, <3>4, <1>1 DEF Holds
    <2>2. StoresRead'
      <3> SUFFICES ASSUME NEW j \in jobs, job[j].isStore, left[j] > 0, NEW d \in job[j].copies
                   PROVE  content[d[3]] = Data(job[j].req, d[1], d[2]) \/ Flushing(j, d[3])'
        BY DEF StoresRead
      <3>1. content[d[3]] = Data(job[j].req, d[1], d[2]) \/ Flushing(j, d[3])
        BY DEF Placed, Stores, StoresRead
      <3>2. d[3] \in Blocks
        BY JobTypes
      <3>3. Flushing(j, d[3]) => Flushing(j, d[3])'
        BY <3>2, <1>3 DEF Flushing
      <3> QED BY <3>1, <3>3
    <2>3. StoresIssued' /\ StoresDistinct' /\ JobsPend'
      BY <1>6 DEF Placed, Stores, StoresIssued, StoresDistinct, JobsPend, Repeated
    <2> QED BY <2>1, <2>2, <2>3 DEF Stores
  <1>8. Lists'
    <2>1. \A q \in Requests : phase'[q] = "running" =>
            /\ q # r /\ phase[q] = "running" /\ table'[q] = table[q] /\ computed'[q] = computed[q]
            /\ blockIds'[q] = blockIds[q] /\ nextStored'[q] = nextStored[q]
      BY <1>1
    <2>2. IndexFits'
      <3>1. \A q \in Requests : phase'[q] = "running"
              => (Visited(q)' <=> Visited(q)) /\ ComputedNow(q)' = ComputedNow(q)
        BY <2>1 DEF Visited, ComputedNow
      <3> QED BY <2>1, <3>1 DEF Placed, Lists, IndexFits
    <2>3. ListsFit'
      <3>1. \A q \in Requests : Listed(q)' => Listed(q) /\ phase'[q] = "running"
        BY <2>1 DEF Listed
      <3>2. \A q \in Requests, g \in Groups : \A i, b : Listed(q)' /\ Abandoned(q, g, i, b) => Abandoned(q, g, i, b)'
        BY <2>1, <3>1, <1>3 DEF Abandoned
      <3> QED BY <1>2, <2>1, <3>1, <3>2 DEF Placed, Lists, ListsFit
    <2> QED BY <2>2, <2>3 DEF Lists
  <1> QED BY <1>4, <1>5, <1>7, <1>8 DEF Placed

\* A request is preempted.
LEMMA PreemptPlaced ==
  ASSUME InOrder, TypeOK', Placed, NEW r \in Requests, Preempt(r)
  PROVE  Placed'
  <1>1. /\ pc = "schedule" /\ pc' = pc /\ phase[r] = "running" /\ sched[r].n = 0
        /\ phase'[r] = "waiting" /\ \A q \in Requests \ {r} : phase'[q] = phase[q] /\ computed'[q] = computed[q]
        /\ table' = [table EXCEPT ![r] = EmptyTable] /\ preempted' = preempted \cup {r}
        /\ UNCHANGED <<content, sched, jobs, job, pending, pendingJobs, left, done, batchStores, toFlush, allocated,
                       toStore, blockIds, nextStored, outputs, staleJob>>
    BY DEF Preempt, InOrder, TypeOK, requestVars, jobVars, batchVars, workerVars
  <1>2. BatchFits'
    <2>1. \A q \in preempted' : phase'[q] = "waiting"
      BY <1>1 DEF InOrder, TypeOK, Placed, Engine, BatchFits
    <2> QED BY <1>1, <2>1 DEF Placed, Engine, BatchFits
  <1>3. IndexFits
    BY DEF Placed, Lists
  <1> QED BY <1>1, <1>2, <1>3, FreedPlaced DEF IndexFits

\* A request ends or is aborted.
LEMMA RequestFinishedPlaced ==
  ASSUME InOrder, TypeOK', Placed, NEW r \in Requests, RequestFinished(r), pc' # "dead"
  PROVE  Placed'
  <1>1. /\ pc = "idle" /\ Live(r)
        /\ phase' = [phase EXCEPT ![r] = "finished"]
        /\ computed' = [computed EXCEPT ![r] = 0]
        /\ table' = IF phase[r] = "loading" THEN table ELSE [table EXCEPT ![r] = EmptyTable]
        /\ IF r \in tracked /\ transferJobs[r] = {} THEN Forget(r) ELSE UNCHANGED requestVars
        /\ pendingJobs' = [b \in Blocks |->
             pendingJobs[b] \cup {j \in transferJobs[r] : job[j].isStore /\ b \in FullBlocks(j)}]
        /\ UNCHANGED <<pc, content, sched, preempted, transferJobs, jobs, job, pending, jobCounter,
                       batchVars, workerVars, managerVars, staleJob, loading, error, resets>>
    BY DEF RequestFinished, Raise
  <1>2. /\ phase'[r] = "finished"
        /\ \A q \in Requests \ {r} : /\ phase'[q] = phase[q] /\ computed'[q] = computed[q]
                                     /\ blockIds'[q] = blockIds[q] /\ nextStored'[q] = nextStored[q]
    BY <1>1 DEF InOrder, TypeOK, Forget, requestVars
  <1>3. \A q \in Requests, g, h \in Groups : nextStored'[q][g] = nextStored'[q][h]
    <2>1. nextStored' = nextStored \/ nextStored' = [nextStored EXCEPT ![r] = [g \in Groups |-> 0]]
      BY <1>1 DEF Forget, requestVars
    <2>2. nextStored \in [Requests -> [Groups -> Nat]] /\ IndexFits
      BY DEF InOrder, TypeOK, Placed, Lists
    <2> QED BY <2>1, <2>2 DEF IndexFits
  <1>4. sched[r].n = 0
    <2>1. r \notin Scheduled
      BY <1>1 DEF InOrder, Bookkeeping, EngineInStep
    <2> QED BY <2>1 DEF Scheduled, InOrder, TypeOK
  <1>5. phase[r] \in {"waiting", "loading", "loaded", "running"}
    BY <1>1 DEF Live, InOrder, TypeOK, Phases
  <1>6. BatchFits'
    BY <1>1 DEF Placed, Engine, BatchFits, batchVars, workerVars
  <1>7. \A b \in Blocks : pendingJobs[b] \subseteq pendingJobs'[b]
    BY <1>1
  <1>8. UNCHANGED <<pc, content, sched, preempted, jobs, job, pending, left, done, batchStores, toFlush, allocated,
                    toStore>>
    BY <1>1 DEF batchVars, workerVars
  <1> QED BY <1>1, <1>2, <1>3, <1>4, <1>5, <1>6, <1>7, <1>8, FreedPlaced

-----------------------------------------------------------------------------
(***************************************************************************)
(* Reports.                                                                *)
(***************************************************************************)
\* The request of a load has no other job, and no other load writes its blocks.
LEMMA LoadIsAlone ==
  ASSUME InOrder, Placed, NEW j \in jobs, ~job[j].isStore, NEW i \in jobs, i # j
  PROVE  job[i].req # job[j].req
  BY DEF InOrder, Bookkeeping, JobsAreOwned

\* A load that is over has filled its blocks; if its request was aborted, they
\* are freed as they are.
LEMMA LoadArrivedPlaced ==
  ASSUME InOrder, TypeOK', Placed, BatchFits', NEW j \in jobs, ~job[j].isStore, Drained(j), LoadArrived(j),
         pc = "output", pc' \in {"idle", "output"}, jobs' = jobs \ {j},
         \A i \in jobs' : job'[i] = job[i] /\ pending'[i] = pending[i],
         \A q \in Requests : phase[q] = "running" => blockIds'[q] = blockIds[q] /\ nextStored'[q] = nextStored[q],
         \A q \in Requests, g, h \in Groups : nextStored'[q][g] = nextStored'[q][h],
         UNCHANGED <<computed, sched, preempted, left, done, batchStores, toFlush, allocated, toStore, pendingJobs>>
  PROVE  Placed'
  <1>1. job[j].req \in Requests
    BY JobTypes
  <1> SUFFICES ASSUME NEW r \in Requests, r = job[j].req PROVE Placed'
    BY <1>1
  <1> DEFINE copies == job[j].copies
             data(b) == {d \in copies : d[3] = b}
  <1>2. /\ phase' = [phase EXCEPT ![r] = IF @ = "loading" THEN "loaded" ELSE @]
        /\ table' = [table EXCEPT ![r] = IF Finished(r) THEN EmptyTable ELSE @]
        /\ content' = [b \in Blocks |->
             IF data(b) = {} \/ Finished(r) THEN content[b]
             ELSE LET d == CHOOSE d \in data(b) : TRUE IN Data(r, d[1], d[2])]
    BY DEF LoadArrived
  <1>3. /\ r \in Requests
        /\ \A d \in copies : d[1] \in Groups /\ d[2] \in Nat /\ d[2] + 1 \in Nat /\ (d[2] + 1) - 1 = d[2] /\ d[3] \in Blocks
    BY JobTypes
  <1>4. /\ phase[r] \in {"loading", "finished"}
        /\ \A d \in copies : Holds(r, d[1], d[2] + 1, d[3]) /\ content[d[3]] = Nothing
        /\ \A g \in Groups, i \in Nat, b \in Blocks :
              Holds(r, g, i, b) /\ content[b] = Nothing => <<g, i - 1, b>> \in copies
    BY DEF Placed, Slots, LoadsHold
  <1>5. \A b \in Blocks : \/ content'[b] = content[b] /\ (data(b) = {} \/ Finished(r))
                          \/ ~Finished(r) /\ \E d \in data(b) : content'[b] = Data(r, d[1], d[2])
    <2> SUFFICES ASSUME NEW b \in Blocks, data(b) # {}, ~Finished(r)
                 PROVE  \E d \in data(b) : content'[b] = Data(r, d[1], d[2])
      BY <1>2
    <2> DEFINE d == CHOOSE d \in data(b) : TRUE
    <2>1. d \in data(b)
      OBVIOUS
    <2>2. content'[b] = Data(r, d[1], d[2])
      BY <1>2
    <2> HIDE DEF d
    <2> QED BY <2>1, <2>2
  <1>6. \A b \in Blocks : \A d \in data(b) : d \in copies /\ d[3] = b
    OBVIOUS
  <1>7. \A b \in Blocks, g \in Groups, i \in Nat : <<g, i - 1, b>> \in copies => <<g, i - 1, b>> \in data(b)
    OBVIOUS
  <1> HIDE DEF data, copies
  <1>8. /\ \A q \in Requests \ {r} : phase'[q] = phase[q] /\ table'[q] = table[q]
        /\ phase'[r] = (IF phase[r] = "loading" THEN "loaded" ELSE phase[r])
        /\ table'[r] = (IF Finished(r) THEN EmptyTable ELSE table[r])
    BY <1>2, <1>3 DEF InOrder, TypeOK
  <1>9. /\ \A q \in Requests, g \in Groups : \A i, b : Holds(q, g, i, b)' => Holds(q, g, i, b)
        /\ \A q \in Requests \ {r} : \A g \in Groups : \A i, b : Holds(q, g, i, b)' <=> Holds(q, g, i, b)
        /\ Finished(r) => \A g \in Groups : \A i, b : ~Holds(r, g, i, b)'
    <2>1. \A q \in Requests \ {r} : \A g \in Groups : \A i, b : Holds(q, g, i, b)' <=> Holds(q, g, i, b)
      BY <1>8 DEF Holds
    <2>2. Finished(r) => \A g \in Groups : \A i, b : ~Holds(r, g, i, b)'
      <3>1. \A g \in Groups : DOMAIN EmptyTable[g] = {}
        BY DEF EmptyTable
      <3> QED BY <3>1, <1>8 DEF Holds
    <2>3. ~Finished(r) => \A g \in Groups : \A i, b : Holds(r, g, i, b)' <=> Holds(r, g, i, b)
      BY <1>8 DEF Holds
    <2>4. \A g \in Groups : \A i, b : Holds(r, g, i, b)' => Holds(r, g, i, b)
      BY <2>2, <2>3
    <2> QED BY <2>1, <2>2, <2>4
  <1>10. \A b \in Blocks : content[b] # Nothing => content'[b] = content[b]
    <2> SUFFICES ASSUME NEW b \in Blocks, content[b] # Nothing PROVE content'[b] = content[b]
      OBVIOUS
    <2>1. ASSUME NEW d \in data(b) PROVE FALSE
      BY <1>4, <1>6
    <2> QED BY <2>1, <1>5
  <1>11. \A q \in Requests, g \in Groups, i \in Nat, b \in Blocks : Holds(q, g, i, b) =>
           \/ content'[b] = content[b]
           \/ content'[b] = Data(q, g, i - 1) /\ q = r
    <2> SUFFICES ASSUME NEW q \in Requests, NEW g \in Groups, NEW i \in Nat, NEW b \in Blocks, Holds(q, g, i, b),
                        NEW d \in data(b), content'[b] = Data(r, d[1], d[2])
                 PROVE  content'[b] = Data(q, g, i - 1) /\ q = r
      BY <1>5
    <2>1. d \in copies /\ d[3] = b
      BY <1>6
    <2>2. Holds(r, d[1], d[2] + 1, b) /\ content[b] = Nothing
      BY <2>1, <1>4
    <2>3. q = r /\ g = d[1] /\ i = d[2] + 1
      BY <2>1, <2>2, <1>3 DEF Placed, Slots, SlotsExclusive
    <2> QED BY <2>1, <2>3, <1>3
  <1>12. \A g \in Groups, i \in Nat, b \in Blocks : Holds(r, g, i, b) /\ ~Finished(r) => content'[b] = Data(r, g, i - 1)
    <2> SUFFICES ASSUME NEW g \in Groups, NEW i \in Nat, NEW b \in Blocks, Holds(r, g, i, b), ~Finished(r)
                 PROVE  content'[b] = Data(r, g, i - 1)
      OBVIOUS
    <2>1. CASE content[b] = Nothing
      <3>1. <<g, i - 1, b>> \in data(b)
        BY <2>1, <1>4, <1>7
      <3>2. PICK d \in data(b) : content'[b] = Data(r, d[1], d[2])
        BY <3>1, <1>5
      <3>3. content'[b] # Nothing
        BY <3>2, DataParts
      <3> QED BY <2>1, <3>3, <1>3, <1>11
    <2>2. CASE content[b] # Nothing
      BY <2>2, <1>3, <1>10 DEF Placed, Slots, SlotsAgree
    <2> QED BY <2>1, <2>2
  <1>13. Engine'
    <2>1. TablesFit'
      <3>1. \A q \in Requests : phase'[q] \in {"unborn", "waiting"} => table'[q] = EmptyTable
        BY <1>4, <1>8 DEF Placed, Engine, TablesFit, Finished
      <3>2. \A q \in Requests, g \in Groups : phase'[q] \in {"loading", "loaded", "running"}
              => Len(table'[q][g]) = computed'[q] + sched'[q].n
        BY <1>4, <1>8 DEF Placed, Engine, TablesFit, Finished
      <3>3. \A q \in Requests, g \in FullGroups : \A i \in DOMAIN table'[q][g] : table'[q][g][i] \in Blocks
        BY <1>8 DEF Placed, Engine, TablesFit, EmptyTable, Groups
      <3>4. \A q \in Requests : sched'[q].n > 0 => computed'[q] + sched'[q].n <= MaxLen
        BY DEF Placed, Engine, TablesFit
      <3> QED BY <3>1, <3>2, <3>3, <3>4 DEF TablesFit
    <2>2. ScheduleFits'
      <3>1. \A q \in Requests : sched[q] = NotScheduled /\ ~(sched[q].n > 0)
        <4>1. \A q \in Requests : sched[q].n = 0
          BY DEF InOrder, TypeOK, Bookkeeping, EngineInStep, Scheduled
        <4> QED BY <4>1 DEF Placed, Engine, ScheduleFits
      <3> QED BY <3>1 DEF ScheduleFits
    <2> QED BY <2>1, <2>2 DEF Engine
  <1>14. Slots'
    <2>1. SlotsAgree'
      BY <1>9, <1>11 DEF Placed, Slots, SlotsAgree
    <2>2. SlotsExclusive'
      <3>1. \A b \in Blocks : content'[b] = Nothing => content[b] = Nothing
        BY <1>10
      <3> QED BY <1>9, <3>1 DEF Placed, Slots, SlotsExclusive
    <2>3. ComputedFilled'
      <3> SUFFICES ASSUME NEW q \in Requests, NEW g \in Groups, NEW i \in Nat, NEW b \in Blocks,
                          phase'[q] = "loaded" \/ (phase'[q] = "running" /\ i <= computed[q]), Holds(q, g, i, b)'
                   PROVE  content'[b] = Data(q, g, i - 1)
        BY DEF ComputedFilled
      <3>1. CASE q = r
        <4>1. ~Finished(r)
          BY <3>1, <1>9
        <4>2. Holds(r, g, i, b)
          BY <3>1, <1>9
        <4> QED BY <3>1, <4>1, <4>2, <1>12
      <3>2. CASE q # r
        <4>1. content[b] = Data(q, g, i - 1)
          BY <3>2, <1>8, <1>9 DEF Placed, Slots, ComputedFilled
        <4> QED BY <4>1, <1>10, DataParts
      <3> QED BY <3>1, <3>2
    <2>4. LoadsHold'
      <3> SUFFICES ASSUME NEW i \in jobs', ~job[i].isStore
                   PROVE  /\ phase'[job[i].req] \in {"loading", "finished"}
                          /\ \A d \in job[i].copies :
                                Holds(job[i].req, d[1], d[2] + 1, d[3])' /\ content'[d[3]] = Nothing
                          /\ \A g \in Groups, k \in Nat, b \in Blocks :
                                Holds(job[i].req, g, k, b)' /\ content'[b] = Nothing
                                => <<g, k - 1, b>> \in job[i].copies
        <4>1. \A i \in jobs' : job'[i] = job[i]
          OBVIOUS
        <4>2. \A i \in jobs' : \A g, k, b : Holds(job[i].req, g, k, b)' <=> k \in DOMAIN table'[job[i].req][g]
                                                                            /\ table'[job[i].req][g][k] = b
          BY <4>1 DEF Holds
        <4> QED BY <4>1, <4>2 DEF LoadsHold, Holds
      <3>1. i \in jobs /\ job'[i] = job[i] /\ job[i].req \in Requests \ {r}
        BY LoadIsAlone, JobTypes
      <3>2. /\ phase[job[i].req] \in {"loading", "finished"}
            /\ \A d \in job[i].copies : Holds(job[i].req, d[1], d[2] + 1, d[3]) /\ content[d[3]] = Nothing
            /\ \A g \in Groups, k \in Nat, b \in Blocks :
                 Holds(job[i].req, g, k, b) /\ content[b] = Nothing => <<g, k - 1, b>> \in job[i].copies
        BY <3>1 DEF Placed, Slots, LoadsHold
      <3>3. \A g \in Groups : \A k, b : Holds(job[i].req, g, k, b)' <=> Holds(job[i].req, g, k, b)
        BY <3>1, <1>8 DEF Holds
      <3>4. \A d \in job[i].copies : d[1] \in Groups /\ d[2] + 1 \in Nat /\ d[3] \in Blocks
        BY <3>1, JobTypes
      <3>5. \A d \in job[i].copies : content'[d[3]] = Nothing
        BY <3>1, <3>2, <3>4, <1>11
      <3>6. \A b \in Blocks : content'[b] = Nothing => content[b] = Nothing
        BY <1>10
      <3> QED BY <3>1, <3>2, <3>3, <3>4, <3>5, <3>6, <1>8
    <2> QED BY <2>1, <2>2, <2>3, <2>4 DEF Slots
  <1>15. Stores'
    <2>1. \A i \in jobs' : i \in jobs /\ job'[i] = job[i] /\ job[i].req \in Requests \ {r}
      BY LoadIsAlone, JobTypes
    <2>2. batchStores = {}
      BY DEF Placed, Engine, BatchFits
    <2>3. StoresHold'
      <3> SUFFICES ASSUME NEW i \in jobs', job[i].isStore, left[i] + done[i] > 0,
                          ~Finished(job[i].req)', job[i].req \notin preempted
                   PROVE  /\ phase'[job[i].req] = "running"
                          /\ \A d \in job[i].copies : d[1] \notin SWGroups
                                => Holds(job[i].req, d[1], d[2] + 1, d[3])'
        BY <2>1, <2>2 DEF StoresHold
      <3>1. phase'[job[i].req] = phase[job[i].req] /\ table'[job[i].req] = table[job[i].req]
        BY <2>1, <1>8
      <3>2. /\ phase[job[i].req] = "running"
            /\ \A d \in job[i].copies : d[1] \notin SWGroups => Holds(job[i].req, d[1], d[2] + 1, d[3])
        BY <2>1, <3>1 DEF Placed, Stores, StoresHold, Finished
      <3> QED BY <2>1, <3>1, <3>2 DEF Holds
    <2>4. StoresRead'
      <3> SUFFICES ASSUME NEW i \in jobs', job[i].isStore, left[i] > 0, NEW d \in job[i].copies
                   PROVE  content'[d[3]] = Data(job[i].req, d[1], d[2])
        BY <2>1 DEF StoresRead
      <3>1. content[d[3]] = Data(job[i].req, d[1], d[2])
        BY <2>1 DEF Placed, Stores, StoresRead, Flushing
      <3>2. d[3] \in Blocks
        BY <2>1, JobTypes
      <3> QED BY <3>1, <3>2, <1>10, DataParts
    <2>5. StoresIssued'
      BY <2>2 DEF StoresIssued
    <2>6. StoresDistinct' /\ JobsPend'
      BY <2>1 DEF Placed, Stores, StoresDistinct, JobsPend, Repeated
    <2> QED BY <2>3, <2>4, <2>5, <2>6 DEF Stores
  <1>16. Lists'
    <2>1. \A q \in Requests : phase'[q] = "running" =>
            /\ q # r /\ phase[q] = "running" /\ table'[q] = table[q]
            /\ blockIds'[q] = blockIds[q] /\ nextStored'[q] = nextStored[q]
      BY <1>4, <1>8
    <2>2. IndexFits'
      <3>1. \A q \in Requests : (Visited(q)' <=> Visited(q)) /\ ComputedNow(q)' = ComputedNow(q)
        BY DEF Visited, ComputedNow
      <3> QED BY <2>1, <3>1 DEF Placed, Lists, IndexFits
    <2>3. ListsFit'
      <3> SUFFICES ASSUME NEW q \in Requests, NEW g \in Groups, Listed(q)'
                   PROVE  /\ Len(blockIds'[q][g]) = computed[q]
                          /\ \A i \in DOMAIN blockIds'[q][g] :
                                \/ blockIds'[q][g][i] = NullBlock /\ g \in SWGroups
                                \/ blockIds'[q][g][i] \in Blocks /\ Holds(q, g, i, blockIds[q][g][i])'
                                \/ blockIds'[q][g][i] \in Blocks /\ Abandoned(q, g, i, blockIds[q][g][i])'
        BY DEF ListsFit
      <3>1. /\ q # r /\ phase[q] = "running" /\ blockIds'[q] = blockIds[q] /\ nextStored'[q] = nextStored[q]
            /\ Listed(q)
        BY <2>1 DEF Listed
      <3>2. /\ Len(blockIds[q][g]) = computed[q]
            /\ \A i \in DOMAIN blockIds[q][g] :
                  \/ blockIds[q][g][i] = NullBlock /\ g \in SWGroups
                  \/ blockIds[q][g][i] \in Blocks /\ Holds(q, g, i, blockIds[q][g][i])
                  \/ blockIds[q][g][i] \in Blocks /\ Abandoned(q, g, i, blockIds[q][g][i])
        BY <3>1 DEF Placed, Lists, ListsFit
      <3>3. \A i \in DOMAIN blockIds[q][g] : Holds(q, g, i, blockIds[q][g][i])
              => Holds(q, g, i, blockIds[q][g][i])'
        BY <3>1, <1>8 DEF Holds
      <3>4. \A i \in DOMAIN blockIds[q][g] : blockIds[q][g][i] \in Blocks /\ Abandoned(q, g, i, blockIds[q][g][i])
              => Abandoned(q, g, i, blockIds[q][g][i])'
        BY <3>1, <1>10, DataParts DEF Abandoned
      <3> QED BY <3>1, <3>2, <3>3, <3>4
    <2> QED BY <2>2, <2>3 DEF Lists
  <1> QED BY <1>13, <1>14, <1>15, <1>16 DEF Placed

\* The engine reads one job's reports.
LEMMA UpdateConnectorOutputPlaced ==
  ASSUME InOrder, TypeOK', Placed, NEW j \in JobIds, UpdateConnectorOutput(j), pc' # "dead"
  PROVE  Placed'
  <1>1. /\ staleJob = 0 /\ j >= staleJob /\ BatchFits /\ JobsPend /\ IndexFits
        /\ TypeOK /\ Bookkeeping /\ Expected
    BY DEF Placed, Engine, Stores, Lists, BatchFits, InOrder, JobIds
  <1>2. j \in jobs /\ job[j].req \in Requests
    BY <1>1, ReportExpected
  <1>3. /\ pc = "output" /\ report[j] > 0 /\ CompletionError(j) = "none"
        /\ pending' = [pending EXCEPT ![j] = @ - report[j]]
        /\ IF report[j] < pending[j]
             THEN UNCHANGED <<requestVars, transferJobs, jobs, pendingJobs, ready, loading>>
             ELSE CompleteJob(j)
        /\ LoadArrived(j)
        /\ job' = (IF Drained(j) THEN [job EXCEPT ![j] = NoJob] ELSE job)
        /\ pc' = AfterReport([report EXCEPT ![j] = 0])
        /\ UNCHANGED <<computed, sched, preempted, batchVars, left, done, staleJob>>
    <2>1. ~(j < staleJob)
      BY <1>1 DEF JobIds
    <2>2. pc = "output" /\ report[j] > 0 /\ CompletionError(j) = "none"
      BY <1>1 DEF UpdateConnectorOutput, Raise
    <2> QED BY <2>1, <2>2 DEF UpdateConnectorOutput
  <1>4. UNCHANGED <<batchStores, toFlush, allocated, toStore>> /\ batchStores = {} /\ allocated = {} /\ preempted = {}
    BY <1>1, <1>3 DEF batchVars, BatchFits
  <1>5. pc' \in {"idle", "output"}
    BY <1>3 DEF AfterReport
  <1>6. BatchFits'
    BY <1>1, <1>3, <1>4, <1>5 DEF BatchFits
  <1>7. pending[j] = left[j] + done[j] + Unread(j) + report[j]
    BY <1>1, <1>2, <1>3 DEF Bookkeeping, IssuedAreUnsent, SentAreCounted, Outstanding
  <1>8. left[j] \in Nat /\ done[j] \in Nat /\ report[j] \in Nat /\ pending[j] \in Nat /\ Unread(j) \in Nat
    BY <1>1, ReportTypes
  <1>9. report[j] < pending[j] <=> ~Drained(j)
    BY <1>7, <1>8 DEF Drained
  <1>10. pending \in [JobIds -> Nat] /\ \A i \in jobs : i \in JobIds /\ left[i] \in Nat /\ done[i] \in Nat
    <2>1. pending \in [JobIds -> Nat]
      BY <1>1 DEF TypeOK, Counts
    <2> QED BY <2>1, JobTypes
  <1>11. \A i \in JobIds \ {j} : pending'[i] = pending[i] /\ job'[i] = job[i]
    BY <1>1, <1>3, <1>10 DEF TypeOK
  <1>12. CASE ~Drained(j)
    <2>1. /\ UNCHANGED <<table, content, phase, blockIds, nextStored, jobs, job, pendingJobs>>
      BY <1>3, <1>9, <1>12 DEF LoadArrived, requestVars
    <2>2. pending'[j] > 0
      BY <1>3, <1>8, <1>9, <1>10, <1>12
    <2>3. \A i \in jobs' : pending'[i] > 0 /\ left'[i] <= left[i] /\ left'[i] + done'[i] <= left[i] + done[i]
      BY <1>1, <1>3, <1>10, <1>11, <2>1, <2>2 DEF JobsPend
    <2> QED BY <1>1, <1>3, <1>4, <1>5, <1>6, <2>1, <2>3, KeptPlaced DEF IndexFits
  <1>13. CASE Drained(j)
    <2>1. CompleteJob(j)
      BY <1>3, <1>9, <1>13
    <2>2. jobs' = jobs \ {j} /\ \A i \in jobs' : i \in JobIds \ {j}
      BY <1>10, <2>1 DEF CompleteJob
    <2>3. /\ \A q \in Requests : ~Finished(q) => blockIds'[q] = blockIds[q] /\ nextStored'[q] = nextStored[q]
          /\ \A q \in Requests, g, h \in Groups : nextStored'[q][g] = nextStored'[q][h]
      <3>1. \/ Finished(job[j].req) /\ Forget(job[j].req)
            \/ UNCHANGED requestVars
        BY <2>1 DEF CompleteJob
      <3>2. blockIds \in [Requests -> Tables] /\ nextStored \in [Requests -> [Groups -> Nat]]
        BY <1>1 DEF TypeOK
      <3>3. CASE Finished(job[j].req) /\ Forget(job[j].req)
        BY <1>1, <1>2, <3>2, <3>3 DEF Forget, IndexFits
      <3>4. CASE UNCHANGED requestVars
        BY <1>1, <3>4 DEF requestVars, IndexFits
      <3> QED BY <3>1, <3>3, <3>4
    <2>4. \A q \in Requests : phase[q] = "running" => blockIds'[q] = blockIds[q] /\ nextStored'[q] = nextStored[q]
      BY <2>3 DEF Finished
    <2>5. \A i \in jobs' : job'[i] = job[i] /\ pending'[i] = pending[i]
      BY <1>11, <2>2
    <2>6. CASE job[j].isStore
      <3>1. UNCHANGED <<table, content, phase>>
        BY <1>3, <2>6 DEF LoadArrived
      <3>2. \A i \in jobs', b \in Blocks : i \in pendingJobs[b] => i \in pendingJobs'[b]
        BY <2>1, <2>2, <2>6 DEF CompleteJob
      <3>3. \A i \in jobs' : pending'[i] > 0 /\ left'[i] <= left[i] /\ left'[i] + done'[i] <= left[i] + done[i]
        BY <1>1, <1>3, <1>10, <2>2, <2>5 DEF JobsPend
      <3> QED BY <1>3, <1>4, <1>5, <1>6, <2>2, <2>3, <2>4, <2>5, <3>1, <3>2, <3>3, KeptPlaced
    <2>7. CASE ~job[j].isStore
      <3>1. pendingJobs' = pendingJobs
        BY <2>1, <2>7 DEF CompleteJob
      <3> QED BY <1>2, <1>3, <1>4, <1>5, <1>6, <1>13, <2>2, <2>3, <2>4, <2>5, <2>7, <3>1, LoadArrivedPlaced
    <2> QED BY <2>6, <2>7
  <1> QED BY <1>12, <1>13

-----------------------------------------------------------------------------
(***************************************************************************)
(* build_connector_meta.                                                   *)
(***************************************************************************)
\* The list of a request that is scheduled or runs on follows its table.
LEMMA UpdatedFits ==
  ASSUME InOrder, Placed, pc = "schedule", NEW r \in Requests, phase[r] = "running", NEW g \in Groups,
         NEW ids, ids = UpdatedIds(r)[g]
  PROVE  /\ Len(ids) = computed[r] + sched[r].n
         /\ \A i \in DOMAIN ids :
               \/ ids[i] = NullBlock /\ g \in SWGroups
               \/ ids[i] \in Blocks /\ Holds(r, g, i, ids[i])
               \/ /\ ids[i] \in Blocks /\ g \in SWGroups /\ ~sched[r].fresh
                  /\ \/ i <= nextStored[r][g] * BlockSizeFactor
                     \/ content[ids[i]] = Data(r, g, i - 1)
  <1> DEFINE known == KnownIds(r)[g]
             new   == sched[r].new[g]
             c     == computed[r]
             n     == sched[r].n
  <1>1. /\ known \in Seq(BlockId) /\ new \in Seq(BlockId) /\ Len(known) \in Nat /\ Len(new) \in Nat
        /\ Len(ids) = Len(known) + Len(new) /\ DOMAIN ids = 1 .. Len(known) + Len(new)
        /\ \A i \in 1 .. Len(known) : ids[i] = (IF Stale(r, g, i) THEN NullBlock ELSE known[i])
        /\ \A k \in 1 .. Len(new) : ids[Len(known) + k] = new[k]
    BY UpdatedEntries DEF InOrder
  <1>2. /\ c \in Nat /\ n \in Nat /\ sched[r].fresh \in BOOLEAN
        /\ table[r][g] \in Seq(BlockId) /\ nextStored[r][g] \in Nat
    BY DEF InOrder, TypeOK, Tables
  <1>3. Len(table[r][g]) = c + n /\ DOMAIN table[r][g] = 1 .. c + n
    BY <1>2 DEF Placed, Engine, TablesFit
  <1>4. \A i \in 1 .. c + n : \/ table[r][g][i] = NullBlock /\ g \in SWGroups
                              \/ table[r][g][i] \in Blocks /\ Holds(r, g, i, table[r][g][i])
    BY <1>2, <1>3 DEF Placed, Engine, TablesFit, Groups, Holds, BlockId
  <1>5. CASE sched[r].fresh
    <2>1. n > 0 /\ new = table[r][g] /\ Len(known) = 0
      BY <1>2, <1>5 DEF Placed, Engine, ScheduleFits, NotScheduled, KnownIds, EmptyTable
    <2>2. \A i \in DOMAIN ids : i \in 1 .. Len(new) /\ ids[i] = table[r][g][i]
      <3> SUFFICES ASSUME NEW i \in DOMAIN ids PROVE i \in 1 .. Len(new) /\ ids[i] = table[r][g][i]
        OBVIOUS
      <3> HIDE DEF known, new
      <3>1. i \in 1 .. Len(new) /\ Len(known) + i = i
        BY <1>1, <2>1
      <3> QED BY <3>1, <1>1, <2>1
    <2> HIDE DEF known, new, c, n
    <2>3. \A i \in DOMAIN ids : i \in 1 .. c + n
      BY <2>1, <2>2, <1>3
    <2>4. Len(ids) = c + n
      BY <1>1, <1>3, <2>1
    <2> QED BY <2>2, <2>3, <2>4, <1>4 DEF c, n
  <1>6. CASE ~sched[r].fresh
    <2>1. Len(new) = n
      <3>1. CASE n > 0
        BY <1>6, <3>1 DEF Placed, Engine, ScheduleFits
      <3>2. CASE n = 0
        BY <3>2 DEF Placed, Engine, ScheduleFits, NotScheduled, EmptyTable
      <3> QED BY <3>1, <3>2, <1>2
    <2>2. \A k \in 1 .. n : new[k] = table[r][g][c + k]
      <3>1. CASE n > 0
        BY <1>6, <3>1 DEF Placed, Engine, ScheduleFits
      <3>2. CASE ~(n > 0)
        BY <3>2, <1>2
      <3> QED BY <3>1, <3>2
    <2>3. known = blockIds[r][g]
      BY <1>6 DEF KnownIds
    <2>4. Listed(r)
      BY <1>6 DEF Listed
    <2>5. /\ Len(known) = c
          /\ \A i \in DOMAIN known :
              \/ known[i] = NullBlock /\ g \in SWGroups
              \/ known[i] \in Blocks /\ Holds(r, g, i, known[i])
              \/ known[i] \in Blocks /\ Abandoned(r, g, i, known[i])
      BY <2>3, <2>4 DEF Placed, Lists, ListsFit
    <2>6. \A i \in 1 .. c :
            /\ g \in SWGroups /\ i > nextStored[r][g] * BlockSizeFactor /\ known[i] \in AllocatedNow => Stale(r, g, i)
            /\ Stale(r, g, i) => g \in SWGroups
      BY <2>5 DEF Stale
    <2>7. nextStored[r][g] * BlockSizeFactor \in Int
      BY <1>2, CountsAssumption
    <2> HIDE DEF known, new, c, n
    <2>8. ASSUME NEW i \in 1 .. c
          PROVE  \/ ids[i] = NullBlock /\ g \in SWGroups
                 \/ ids[i] \in Blocks /\ Holds(r, g, i, ids[i])
                 \/ /\ ids[i] \in Blocks /\ g \in SWGroups /\ ~sched[r].fresh
                    /\ \/ i <= nextStored[r][g] * BlockSizeFactor
                       \/ content[ids[i]] = Data(r, g, i - 1)
      <3>1. i \in DOMAIN known /\ ids[i] = (IF Stale(r, g, i) THEN NullBlock ELSE known[i])
        BY <1>1, <2>5
      <3>2. CASE Stale(r, g, i)
        BY <3>1, <3>2, <2>6
      <3>3. CASE ~Stale(r, g, i) /\ ~Abandoned(r, g, i, known[i])
        BY <3>1, <3>3, <2>5
      <3>4. CASE ~Stale(r, g, i) /\ Abandoned(r, g, i, known[i])
        <4>1. g \in SWGroups /\ ~sched[r].fresh
          BY <3>4 DEF Abandoned
        <4>2. i <= nextStored[r][g] * BlockSizeFactor \/ content[known[i]] = Data(r, g, i - 1)
          BY <3>4, <4>1, <2>6, <2>7 DEF Abandoned
        <4> QED BY <3>1, <3>4, <4>1, <4>2, <2>5
      <3> QED BY <3>2, <3>3, <3>4
    <2>9. ASSUME NEW i \in 1 .. c + n, i > c
          PROVE  \/ ids[i] = NullBlock /\ g \in SWGroups
                 \/ ids[i] \in Blocks /\ Holds(r, g, i, ids[i])
      <3>1. PICK k \in 1 .. n : i = c + k
        <4>1. i - c \in 1 .. n /\ i = c + (i - c)
          BY <1>2, <2>9
        <4> QED BY <4>1
      <3>2. ids[i] = table[r][g][i]
        BY <3>1, <1>1, <2>1, <2>2, <2>5
      <3> QED BY <3>2, <1>4
    <2>10. DOMAIN ids = 1 .. c + n /\ Len(ids) = c + n
      BY <1>1, <2>1, <2>5
    <2>11. \A i \in DOMAIN ids : i \in 1 .. c \/ (i \in 1 .. c + n /\ i > c)
      BY <2>10, <1>2
    <2> QED BY <2>8, <2>9, <2>10, <2>11 DEF c, n
  <1> QED BY <1>5, <1>6

\* The block lists are brought up to date, and the stores that read a block that
\* was handed out, or was held by a preempted request, are to be flushed.
LEMMA BeginConnectorMetaPlaced ==
  ASSUME InOrder, TypeOK', Placed, BeginConnectorMeta, pc' # "dead"
  PROVE  Placed'
  <1>1. /\ pc = "schedule" /\ pc' = "store"
        /\ blockIds' = [r \in Requests |-> IF r \in tracked THEN UpdatedIds(r) ELSE blockIds[r]]
        /\ toFlush' = toFlush \cup FlushPreempted \cup FlushReused \cup FlushAll
        /\ toStore' = Scheduled
        /\ UNCHANGED <<engineVars, tracked, nextStored, jobVars, batchLoads, batchStores,
                       workerVars, managerVars, staleJob, loading, error, resets>>
    BY DEF BeginConnectorMeta, Raise
  <1>2. UNCHANGED <<phase, computed, table, content, sched, preempted, nextStored, transferJobs, jobs, job,
                    pending, pendingJobs, batchStores, left, done, outputs, staleJob>>
    BY <1>1 DEF engineVars, jobVars, workerVars
  <1>3. \A j \in jobs : j \in JobIds /\ job[j].req \in Requests
            /\ \A d \in job[j].copies : d[1] \in Groups /\ d[2] \in Nat /\ d[3] \in Blocks
    BY JobTypes
  <1>4. \A r \in Requests : \A g, i, b : Holds(r, g, i, b)' <=> Holds(r, g, i, b)
    BY <1>2 DEF Holds
  <1>5. batchStores = {}
    BY <1>1 DEF Placed, Engine, BatchFits
  <1>6. Engine'
    <2>1. TablesFit'
      BY <1>2 DEF Placed, Engine, TablesFit
    <2>2. ScheduleFits'
      BY <1>2 DEF Placed, Engine, ScheduleFits
    <2>3. BatchFits'
      BY <1>1, <1>2 DEF Placed, Engine, BatchFits
    <2> QED BY <2>1, <2>2, <2>3 DEF Engine
  <1>7. Slots'
    <2>1. SlotsAgree' /\ SlotsExclusive'
      BY <1>2, <1>4 DEF Placed, Slots, SlotsAgree, SlotsExclusive
    <2>2. ComputedFilled'
      BY <1>2, <1>4 DEF Placed, Slots, ComputedFilled
    <2>3. LoadsHold'
      BY <1>2, <1>3, <1>4 DEF Placed, Slots, LoadsHold
    <2> QED BY <2>1, <2>2, <2>3 DEF Slots
  <1>8. Stores'
    <2>1. StoresHold'
      <3> SUFFICES ASSUME NEW j \in jobs, job[j].isStore, left[j] + done[j] > 0 \/ j \in batchStores,
                          ~Finished(job[j].req), job[j].req \notin preempted
                   PROVE  /\ phase[job[j].req] = "running"
                          /\ \A d \in job[j].copies : d[1] \notin SWGroups
                                => Holds(job[j].req, d[1], d[2] + 1, d[3])'
        BY <1>2 DEF StoresHold, Finished
      <3>1. /\ phase[job[j].req] = "running"
            /\ \A d \in job[j].copies : d[1] \notin SWGroups => Holds(job[j].req, d[1], d[2] + 1, d[3])
        BY DEF Placed, Stores, StoresHold
      <3> QED BY <3>1, <1>2 DEF Holds
    <2>2. StoresRead'
      <3> SUFFICES ASSUME NEW j \in jobs, job[j].isStore, left[j] > 0, NEW d \in job[j].copies
                   PROVE  content[d[3]] = Data(job[j].req, d[1], d[2]) \/ j \in toFlush'
        BY <1>1, <1>2 DEF StoresRead, Flushing
      <3>1. content[d[3]] = Data(job[j].req, d[1], d[2]) \/ Flushing(j, d[3])
        BY DEF Placed, Stores, StoresRead
      <3>2. CASE job[j].req \in preempted
        <4>1. job[j].req \in tracked /\ j \in transferJobs[job[j].req]
          BY DEF InOrder, Expected, StatusOfActive, Bookkeeping, JobsAreOwned
        <4>2. j \in FlushPreempted
          BY <3>2, <4>1 DEF FlushPreempted
        <4> QED BY <4>2, <1>1
      <3>3. CASE j \in pendingJobs[d[3]] /\ d[3] \in AllocatedNow
        <4>1. j \in FlushReused
          BY <3>3 DEF FlushReused
        <4> QED BY <4>1, <1>1
      <3> QED BY <3>1, <3>2, <3>3, <1>1 DEF Flushing
    <2>3. StoresIssued'
      BY <1>2, <1>5 DEF StoresIssued
    <2>4. StoresDistinct' /\ JobsPend'
      BY <1>2 DEF Placed, Stores, StoresDistinct, JobsPend, Repeated
    <2> QED BY <2>1, <2>2, <2>3, <2>4 DEF Stores
  <1>9. \A r \in Requests : /\ r \in Scheduled <=> sched[r].n > 0
                            /\ computed[r] \in Nat /\ sched[r].n \in Nat
                            /\ r \notin Scheduled => sched[r].n = 0 /\ ~sched[r].fresh
    <2>1. \A r \in Requests : computed[r] \in Nat /\ sched[r].n \in Nat
      BY DEF InOrder, TypeOK
    <2> QED BY <2>1 DEF Scheduled, Placed, Engine, ScheduleFits, NotScheduled
  <1>10. Lists'
    <2>1. IndexFits'
      <3>1. \A r \in Requests, g, h \in Groups : nextStored'[r][g] = nextStored'[r][h]
        BY <1>2 DEF Placed, Lists, IndexFits
      <3>2. ASSUME NEW r \in Requests, NEW g \in Groups, phase'[r] = "running", sched'[r].fresh => Visited(r)'
            PROVE  nextStored'[r][g] <= ChunkOf(AtMost(ComputedNow(r)', OffloadLimit))
        <4>1. ~sched[r].fresh
          BY <3>2, <1>1, <1>2, <1>9 DEF Visited
        <4>2. ComputedNow(r)' = computed[r] /\ ComputedNow(r) = computed[r]
          BY <1>1, <1>2, <1>9 DEF ComputedNow, Visited
        <4>3. nextStored[r][g] <= ChunkOf(AtMost(ComputedNow(r), OffloadLimit))
          BY <3>2, <4>1, <1>2 DEF Placed, Lists, IndexFits
        <4> QED BY <4>2, <4>3, <1>2
      <3> QED BY <3>1, <3>2 DEF IndexFits, ChunkOf, AtMost
    <2>2. ListsFit'
      <3> SUFFICES ASSUME NEW r \in Requests, NEW g \in Groups, Listed(r)'
                   PROVE  /\ Len(blockIds'[r][g]) = computed'[r] + sched'[r].n
                          /\ \A i \in DOMAIN blockIds'[r][g] :
                                \/ blockIds'[r][g][i] = NullBlock /\ g \in SWGroups
                                \/ blockIds'[r][g][i] \in Blocks /\ Holds(r, g, i, blockIds[r][g][i])'
                                \/ blockIds'[r][g][i] \in Blocks /\ Abandoned(r, g, i, blockIds[r][g][i])'
        BY <1>1 DEF ListsFit
      <3>1. phase[r] = "running"
        BY <1>2 DEF Listed
      <3>2. r \in tracked
        BY <3>1 DEF InOrder, Expected, StatusOfActive, Live
      <3>3. blockIds'[r][g] = UpdatedIds(r)[g]
        BY <1>1, <3>2
      <3> SUFFICES ASSUME NEW ids, ids = UpdatedIds(r)[g]
                   PROVE  /\ Len(ids) = computed[r] + sched[r].n
                          /\ \A i \in DOMAIN ids :
                                \/ ids[i] = NullBlock /\ g \in SWGroups
                                \/ ids[i] \in Blocks /\ Holds(r, g, i, blockIds[r][g][i])'
                                \/ ids[i] \in Blocks /\ Abandoned(r, g, i, blockIds[r][g][i])'
        BY <1>2, <3>3
      <3>4. /\ Len(ids) = computed[r] + sched[r].n
            /\ \A i \in DOMAIN ids :
                 \/ ids[i] = NullBlock /\ g \in SWGroups
                 \/ ids[i] \in Blocks /\ Holds(r, g, i, ids[i])
                 \/ /\ ids[i] \in Blocks /\ g \in SWGroups /\ ~sched[r].fresh
                    /\ \/ i <= nextStored[r][g] * BlockSizeFactor
                       \/ content[ids[i]] = Data(r, g, i - 1)
        BY <1>1, <3>1, UpdatedFits
      <3>5. \A i \in DOMAIN ids : Holds(r, g, i, ids[i]) => Holds(r, g, i, blockIds[r][g][i])'
        BY <3>3, <1>2 DEF Holds
      <3>6. \A i \in DOMAIN ids :
              /\ g \in SWGroups /\ ~sched[r].fresh
              /\ \/ i <= nextStored[r][g] * BlockSizeFactor
                 \/ content[ids[i]] = Data(r, g, i - 1)
              => Abandoned(r, g, i, blockIds[r][g][i])'
        BY <3>3, <1>2 DEF Abandoned, Data
      <3> QED BY <3>4, <3>5, <3>6
    <2> QED BY <2>1, <2>2 DEF Lists
  <1> QED BY <1>6, <1>7, <1>8, <1>10 DEF Placed

-----------------------------------------------------------------------------
(***************************************************************************)
(* _build_store_jobs.                                                      *)
(***************************************************************************)
\* A request whose stores are built runs, and what is offloaded of it ends within
\* what the step computes; unless it was just admitted, it never shrinks.
LEMMA StoreRange ==
  ASSUME InOrder, Placed, pc = "store", NEW r \in toStore, NEW tokens \in Offloadable(r),
         NEW end, end = ChunkOf(tokens)
  PROVE  /\ r \in Requests /\ phase[r] = "running" /\ r \in tracked /\ Listed(r)
         /\ computed[r] \in Nat /\ sched[r].n \in Nat /\ sched[r].n > 0
         /\ end \in Nat /\ end * BlockSizeFactor \in Nat /\ end * BlockSizeFactor <= computed[r] + sched[r].n
         /\ end <= ChunkOf(AtMost(computed[r] + sched[r].n, OffloadLimit))
         /\ ~sched[r].fresh => \A g \in Groups : nextStored[r][g] <= end
  <1>1. r \in Requests /\ phase[r] = "running" /\ sched[r].n > 0
    BY DEF InOrder, Bookkeeping, EngineInStep, Scheduled
  <1>2. r \in tracked
    BY <1>1 DEF InOrder, Expected, StatusOfActive, Live
  <1>3. Listed(r)
    BY <1>1 DEF Listed
  <1>4. computed[r] \in Nat /\ sched[r].n \in Nat /\ \A g \in Groups : nextStored[r][g] \in Nat
    BY <1>1 DEF InOrder, TypeOK
  <1> DEFINE c == computed[r]
             n == sched[r].n
  <1>5. PICK lag \in {0, 1} : tokens = AtLeast0(AtMost(c + n - lag, OffloadLimit))
    BY DEF Offloadable
  <1> HIDE DEF c, n
  <1>6. c \in Nat /\ n \in Nat /\ n > 0
    BY <1>1, <1>4 DEF c, n
  <1>7. /\ tokens \in Nat /\ tokens <= c + n /\ tokens <= AtMost(c + n, OffloadLimit)
        /\ AtMost(c + n, OffloadLimit) \in Nat /\ AtMost(c, OffloadLimit) \in Nat
        /\ AtMost(c, OffloadLimit) <= tokens
    BY <1>5, <1>6, CountsAssumption DEF AtLeast0, AtMost
  <1>8. end \in Nat /\ end <= ChunkOf(AtMost(c + n, OffloadLimit)) /\ ChunkOf(AtMost(c, OffloadLimit)) <= end
    BY <1>7, ChunkOrder
  <1>9. end * BlockSizeFactor \in Nat /\ end * BlockSizeFactor <= c + n
    <2>1. BlockSizeFactor * end <= tokens
      BY <1>7, Quotient, CountsAssumption DEF ChunkOf
    <2>2. BlockSizeFactor * end = end * BlockSizeFactor /\ end * BlockSizeFactor \in Nat
      BY <1>8, CountsAssumption
    <2> QED BY <2>1, <2>2, <1>6, <1>7
  <1>10. ASSUME ~sched[r].fresh, NEW g \in Groups
         PROVE  nextStored[r][g] <= end
    <2>1. nextStored[r][g] <= ChunkOf(AtMost(ComputedNow(r), OffloadLimit))
      BY <1>1, <1>10 DEF Placed, Lists, IndexFits
    <2>2. ComputedNow(r) = c
      BY DEF ComputedNow, Visited, c
    <2>3. nextStored[r][g] \in Nat /\ ChunkOf(AtMost(c, OffloadLimit)) \in Nat
      BY <1>4, <1>7, ChunkOrder
    <2> QED BY <2>1, <2>2, <2>3, <1>8
  <1> QED BY <1>1, <1>2, <1>3, <1>4, <1>8, <1>9, <1>10 DEF c, n

\* What a new store copies: positions that the step has computed at its end, read
\* from the block of the table or from one that still holds the data.
LEMMA StoredCopies ==
  ASSUME InOrder, Placed, pc = "store", NEW r \in toStore, NEW tokens \in Offloadable(r),
         NEW end, end = ChunkOf(tokens), NEW keys, NEW d \in StoreCopies(r, end, keys)
  PROVE  /\ d[1] \in Groups /\ d[2] \in Nat /\ d[2] + 1 \in Nat /\ d[3] \in Blocks /\ d = <<d[1], d[2], d[3]>>
         /\ (d[2] + 1) - 1 = d[2]
         /\ d[2] < computed[r] + sched[r].n
         /\ \/ Holds(r, d[1], d[2] + 1, d[3])
            \/ d[1] \in SWGroups /\ content[d[3]] = Data(r, d[1], d[2])
  <1>1. /\ r \in Requests /\ Listed(r) /\ computed[r] \in Nat /\ sched[r].n \in Nat
        /\ end \in Nat /\ end * BlockSizeFactor \in Nat /\ end * BlockSizeFactor <= computed[r] + sched[r].n
    BY StoreRange
  <1>2. PICK s \in Groups \X (0 .. end * BlockSizeFactor - 1) :
          /\ ChunkOf(s[2]) >= nextStored[r][s[1]]
          /\ blockIds[r][s[1]][s[2] + 1] \in Blocks
          /\ d = <<s[1], s[2], blockIds[r][s[1]][s[2] + 1]>>
    BY DEF StoreCopies
  <1> DEFINE g == d[1]
             p == d[2]
             b == d[3]
  <1>3. /\ g \in Groups /\ p \in Nat /\ p + 1 \in Nat /\ (p + 1) - 1 = p /\ b \in Blocks /\ d = <<g, p, b>>
        /\ p + 1 <= computed[r] + sched[r].n /\ p < computed[r] + sched[r].n
        /\ b = blockIds[r][g][p + 1] /\ ChunkOf(p) >= nextStored[r][g]
    BY <1>1, <1>2
  <1> HIDE DEF g, p, b
  <1>4. Len(blockIds[r][g]) = computed[r] + sched[r].n /\ DOMAIN blockIds[r][g] = 1 .. computed[r] + sched[r].n
    <2>1. blockIds[r][g] \in Seq(BlockId)
      BY <1>1, <1>3 DEF InOrder, TypeOK, Tables
    <2>2. Len(blockIds[r][g]) = computed[r] + sched[r].n
      BY <1>1, <1>3 DEF Placed, Lists, ListsFit
    <2> QED BY <2>1, <2>2
  <1>5. \/ blockIds[r][g][p + 1] = NullBlock
        \/ Holds(r, g, p + 1, blockIds[r][g][p + 1])
        \/ Abandoned(r, g, p + 1, blockIds[r][g][p + 1])
    <2>1. p + 1 \in DOMAIN blockIds[r][g]
      BY <1>1, <1>3, <1>4
    <2> QED BY <2>1, <1>1, <1>3 DEF Placed, Lists, ListsFit
  <1>6. ASSUME Abandoned(r, g, p + 1, b)
        PROVE  g \in SWGroups /\ content[b] = Data(r, g, p)
    <2>1. p + 1 > nextStored[r][g] * BlockSizeFactor
      <3>1. BlockSizeFactor * ChunkOf(p) <= p /\ ChunkOf(p) \in Nat
        BY <1>3, Quotient, CountsAssumption DEF ChunkOf
      <3>2. nextStored[r][g] \in Nat
        BY <1>1, <1>3 DEF InOrder, TypeOK
      <3>3. CASE nextStored[r][g] = ChunkOf(p)
        BY <3>1, <3>2, <3>3, <1>3, CountsAssumption
      <3>4. CASE nextStored[r][g] < ChunkOf(p)
        <4>1. BlockSizeFactor * nextStored[r][g] + BlockSizeFactor <= BlockSizeFactor * ChunkOf(p)
          BY <3>1, <3>2, <3>4, ProductOrder, CountsAssumption
        <4> QED BY <3>1, <3>2, <4>1, <1>3, CountsAssumption
      <3> QED BY <3>1, <3>2, <3>3, <3>4, <1>3
    <2>2. nextStored[r][g] * BlockSizeFactor \in Int
      BY <1>1, <1>3, CountsAssumption DEF InOrder, TypeOK
    <2> QED BY <2>1, <2>2, <1>3, <1>6 DEF Abandoned
  <1>7. \/ Holds(r, g, p + 1, b)
        \/ g \in SWGroups /\ content[b] = Data(r, g, p)
    BY <1>3, <1>5, <1>6, SetsAssumption
  <1> QED BY <1>3, <1>7 DEF g, p, b

\* No block is read for two positions.
LEMMA DistinctCopies ==
  ASSUME InOrder, Placed, pc = "store", NEW r \in toStore, NEW tokens \in Offloadable(r),
         NEW end, end = ChunkOf(tokens), NEW keys,
         NEW c \in StoreCopies(r, end, keys), NEW d \in StoreCopies(r, end, keys), c[3] = d[3]
  PROVE  c = d
  <1>1. r \in Requests
    BY StoreRange
  <1>2. /\ c[1] \in Groups /\ c[2] \in Nat /\ c[2] + 1 \in Nat /\ c[3] \in Blocks /\ c = <<c[1], c[2], c[3]>>
        /\ (c[2] + 1) - 1 = c[2]
        /\ Holds(r, c[1], c[2] + 1, c[3]) \/ content[c[3]] = Data(r, c[1], c[2])
    BY StoredCopies
  <1>3. /\ d[1] \in Groups /\ d[2] \in Nat /\ d[2] + 1 \in Nat /\ d[3] \in Blocks /\ d = <<d[1], d[2], d[3]>>
        /\ (d[2] + 1) - 1 = d[2]
        /\ Holds(r, d[1], d[2] + 1, d[3]) \/ content[d[3]] = Data(r, d[1], d[2])
    BY StoredCopies
  <1>4. content[c[3]] = Data(r, c[1], c[2]) \/ (content[c[3]] = Nothing /\ Holds(r, c[1], c[2] + 1, c[3]))
    BY <1>1, <1>2 DEF Placed, Slots, SlotsAgree
  <1>5. content[d[3]] = Data(r, d[1], d[2]) \/ (content[d[3]] = Nothing /\ Holds(r, d[1], d[2] + 1, d[3]))
    BY <1>1, <1>3 DEF Placed, Slots, SlotsAgree
  <1>6. CASE content[c[3]] = Nothing
    <2>1. Holds(r, c[1], c[2] + 1, c[3]) /\ Holds(r, d[1], d[2] + 1, c[3])
      BY <1>4, <1>5, <1>6, DataParts
    <2>2. d[1] = c[1] /\ d[2] + 1 = c[2] + 1
      BY <1>1, <1>2, <1>3, <1>6, <2>1 DEF Placed, Slots, SlotsExclusive
    <2> QED BY <2>2, <1>2, <1>3
  <1>7. CASE content[c[3]] # Nothing
    <2>1. Data(r, c[1], c[2]) = Data(r, d[1], d[2])
      BY <1>4, <1>5, <1>7
    <2> QED BY <2>1, <1>2, <1>3, DataParts
  <1> QED BY <1>6, <1>7

\* A request is visited; jobs issued for it are stores that read the right blocks.
LEMMA VisitedPlaced ==
  ASSUME InOrder, TypeOK', Placed, pc = "store", pc' = pc, NEW r \in toStore, toStore' = toStore \ {r},
         UNCHANGED <<phase, computed, table, content, sched, preempted, blockIds, toFlush, left, done, staleJob>>,
         \A q \in Requests, g, h \in Groups : nextStored'[q][g] = nextStored'[q][h],
         \A q \in Requests \ {r} : nextStored'[q] = nextStored[q],
         \A g \in Groups : nextStored'[r][g] <= ChunkOf(AtMost(computed[r] + sched[r].n, OffloadLimit)),
         ~sched[r].fresh => \A g \in Groups : nextStored[r][g] <= nextStored'[r][g],
         jobs \subseteq jobs', batchStores \subseteq batchStores', batchStores' \subseteq batchStores \cup (jobs' \ jobs),
         \A j \in jobs : job'[j] = job[j] /\ pending'[j] = pending[j],
         \A j \in jobs' \ jobs :
            /\ job'[j].req = r /\ job'[j].isStore /\ pending'[j] > 0 /\ left[j] = 0
            /\ \A d \in job'[j].copies :
                  /\ d[1] \in Groups /\ d[2] \in Nat /\ d[3] \in Blocks
                  /\ d[2] < computed[r] + sched[r].n
                  /\ \/ Holds(r, d[1], d[2] + 1, d[3])
                     \/ d[1] \in SWGroups /\ content[d[3]] = Data(r, d[1], d[2])
            /\ \A c, d \in job'[j].copies : c[3] = d[3] => c = d
  PROVE  Placed'
  <1>1. \A q \in Requests : \A g, i, b : Holds(q, g, i, b)' <=> Holds(q, g, i, b)
    BY DEF Holds
  <1>2. \A j \in jobs : j \in JobIds /\ job[j].req \in Requests
            /\ \A d \in job[j].copies : d[1] \in Groups /\ d[2] \in Nat /\ d[3] \in Blocks
    BY JobTypes
  <1>3. r \in Requests /\ phase[r] = "running" /\ sched[r].n > 0
    BY DEF InOrder, Bookkeeping, EngineInStep, Scheduled
  <1>4. batchStores \subseteq jobs
    BY DEF InOrder, Bookkeeping, IssuedAreUnsent, Issued
  <1>5. Engine'
    <2>1. TablesFit'
      BY DEF Placed, Engine, TablesFit
    <2>2. ScheduleFits'
      BY DEF Placed, Engine, ScheduleFits
    <2>3. BatchFits'
      BY DEF Placed, Engine, BatchFits
    <2> QED BY <2>1, <2>2, <2>3 DEF Engine
  <1>6. Slots'
    <2>1. SlotsAgree' /\ SlotsExclusive'
      BY <1>1 DEF Placed, Slots, SlotsAgree, SlotsExclusive
    <2>2. ComputedFilled'
      BY <1>1 DEF Placed, Slots, ComputedFilled
    <2>3. LoadsHold'
      BY <1>1, <1>2 DEF Placed, Slots, LoadsHold
    <2> QED BY <2>1, <2>2, <2>3 DEF Slots
  <1>7. Stores'
    <2>1. StoresHold'
      <3> SUFFICES ASSUME NEW j \in jobs', job'[j].isStore, left[j] + done[j] > 0 \/ j \in batchStores',
                          ~Finished(job[j].req)', job'[j].req \notin preempted
                   PROVE  /\ phase[job'[j].req] = "running"
                          /\ \A d \in job'[j].copies : d[1] \notin SWGroups
                                => Holds(job[j].req, d[1], d[2] + 1, d[3])'
        BY DEF StoresHold
      <3>1. CASE j \in jobs
        <4>1. job'[j] = job[j] /\ job[j].req \in Requests /\ ~Finished(job[j].req)
          BY <3>1, <1>2 DEF Finished
        <4>2. left[j] + done[j] > 0 \/ j \in batchStores
          BY <3>1
        <4>3. /\ phase[job[j].req] = "running"
              /\ \A d \in job[j].copies : d[1] \notin SWGroups => Holds(job[j].req, d[1], d[2] + 1, d[3])
          BY <3>1, <4>1, <4>2 DEF Placed, Stores, StoresHold
        <4> QED BY <4>1, <4>3 DEF Holds
      <3>2. CASE j \notin jobs
        <4>1. job'[j].req = r /\ \A d \in job'[j].copies : d[1] \notin SWGroups => Holds(r, d[1], d[2] + 1, d[3])
          BY <3>2
        <4> QED BY <4>1, <1>3 DEF Holds
      <3> QED BY <3>1, <3>2
    <2>2. StoresRead'
      <3> SUFFICES ASSUME NEW j \in jobs', job'[j].isStore, left[j] > 0, NEW d \in job'[j].copies
                   PROVE  content[d[3]] = Data(job'[j].req, d[1], d[2]) \/ j \in toFlush
        BY DEF StoresRead, Flushing
      <3>1. j \in jobs /\ job'[j] = job[j]
        OBVIOUS
      <3> QED BY <3>1 DEF Placed, Stores, StoresRead, Flushing
    <2>3. StoresIssued'
      <3> SUFFICES ASSUME NEW j \in batchStores', NEW d \in job'[j].copies
                   PROVE  \/ content[d[3]] = Data(job'[j].req, d[1], d[2])
                          \/ /\ Holds(job[j].req, d[1], d[2] + 1, d[3])'
                             /\ sched[job'[j].req].n > 0
                             /\ d[2] < computed[job'[j].req] + sched[job'[j].req].n
        BY DEF StoresIssued
      <3>1. CASE j \in batchStores
        <4>1. j \in jobs /\ job'[j] = job[j]
          BY <3>1, <1>4
        <4>2. \/ content[d[3]] = Data(job[j].req, d[1], d[2])
              \/ /\ Holds(job[j].req, d[1], d[2] + 1, d[3])
                 /\ sched[job[j].req].n > 0
                 /\ d[2] < computed[job[j].req] + sched[job[j].req].n
          BY <3>1, <4>1 DEF Placed, Stores, StoresIssued
        <4> QED BY <4>1, <4>2 DEF Holds
      <3>2. CASE j \notin batchStores
        <4>1. /\ job'[j].req = r /\ d[2] < computed[r] + sched[r].n
              /\ Holds(r, d[1], d[2] + 1, d[3]) \/ content[d[3]] = Data(r, d[1], d[2])
          BY <3>2
        <4> QED BY <4>1, <1>3 DEF Holds
      <3> QED BY <3>1, <3>2
    <2>4. StoresDistinct'
      <3> SUFFICES ASSUME NEW j \in jobs', job'[j].isStore, NEW c \in job'[j].copies, NEW d \in job'[j].copies,
                          c # d, c[3] = d[3]
                   PROVE  FALSE
        BY DEF StoresDistinct, Repeated
      <3>1. j \in jobs /\ job'[j] = job[j]
        OBVIOUS
      <3> QED BY <3>1 DEF Placed, Stores, StoresDistinct, Repeated
    <2>5. JobsPend'
      BY DEF Placed, Stores, JobsPend
    <2> QED BY <2>1, <2>2, <2>3, <2>4, <2>5 DEF Stores
  <1>8. \A q \in Requests, g \in Groups :
          /\ nextStored[q][g] \in Nat /\ nextStored'[q][g] \in Nat
          /\ ~sched[q].fresh => nextStored[q][g] * BlockSizeFactor <= nextStored'[q][g] * BlockSizeFactor
    <2>1. \A q \in Requests, g \in Groups : nextStored[q][g] \in Nat /\ nextStored'[q][g] \in Nat
      BY DEF InOrder, TypeOK
    <2>2. ASSUME NEW x \in Nat, NEW y \in Nat, x <= y
          PROVE  x * BlockSizeFactor <= y * BlockSizeFactor
      <3>1. CASE x = y
        BY <3>1, CountsAssumption
      <3>2. CASE x < y
        <4>1. BlockSizeFactor * x + BlockSizeFactor <= BlockSizeFactor * y
          BY <3>2, ProductOrder, CountsAssumption
        <4> QED BY <4>1, CountsAssumption
      <3> QED BY <2>2, <3>1, <3>2
    <2>3. \A q \in Requests, g \in Groups : ~sched[q].fresh => nextStored[q][g] <= nextStored'[q][g]
      BY <2>1
    <2> QED BY <2>1, <2>2, <2>3
  <1>9. Lists'
    <2>1. IndexFits'
      <3> SUFFICES ASSUME NEW q \in Requests, NEW g \in Groups, phase[q] = "running", sched[q].fresh => Visited(q)'
                   PROVE  nextStored'[q][g] <= ChunkOf(AtMost(ComputedNow(q)', OffloadLimit))
        BY DEF IndexFits, ChunkOf, AtMost
      <3>1. CASE q = r
        <4>1. ComputedNow(q)' = computed[r] + sched[r].n
          BY <3>1 DEF ComputedNow, Visited
        <4> QED BY <3>1, <4>1
      <3>2. CASE q # r
        <4>1. (Visited(q)' <=> Visited(q)) /\ ComputedNow(q)' = ComputedNow(q)
          BY <3>2 DEF Visited, ComputedNow
        <4>2. nextStored[q][g] <= ChunkOf(AtMost(ComputedNow(q), OffloadLimit))
          BY <4>1 DEF Placed, Lists, IndexFits
        <4> QED BY <3>2, <4>1, <4>2
      <3> QED BY <3>1, <3>2
    <2>2. ListsFit'
      <3>1. \A q \in Requests : Listed(q)' <=> Listed(q)
        BY DEF Listed
      <3>2. ASSUME NEW q \in Requests, NEW g \in Groups, NEW i \in Nat, NEW b, Abandoned(q, g, i, b)
            PROVE  Abandoned(q, g, i, b)'
        <4>1. CASE i <= nextStored[q][g] * BlockSizeFactor
          <5>1. i <= nextStored'[q][g] * BlockSizeFactor
            <6>1. ~sched[q].fresh
              BY <3>2 DEF Abandoned
            <6>2. nextStored[q][g] * BlockSizeFactor \in Int /\ nextStored'[q][g] * BlockSizeFactor \in Int
              BY <1>8, CountsAssumption
            <6> QED BY <4>1, <6>1, <6>2, <1>8
          <5> QED BY <3>2, <5>1 DEF Abandoned
        <4>2. CASE content[b] = Data(q, g, i - 1)
          BY <3>2, <4>2 DEF Abandoned
        <4> QED BY <3>2, <4>1, <4>2 DEF Abandoned
      <3>3. ASSUME NEW q \in Requests, NEW g \in Groups
            PROVE  DOMAIN blockIds[q][g] \subseteq Nat
        <4>1. blockIds[q][g] \in Seq(BlockId)
          BY DEF InOrder, TypeOK, Tables
        <4> QED BY <4>1
      <3> SUFFICES ASSUME NEW q \in Requests, NEW g \in Groups, Listed(q)'
                   PROVE  /\ Len(blockIds[q][g]) = computed[q] + sched[q].n
                          /\ \A i \in DOMAIN blockIds[q][g] :
                                \/ blockIds[q][g][i] = NullBlock /\ g \in SWGroups
                                \/ blockIds[q][g][i] \in Blocks /\ Holds(q, g, i, blockIds[q][g][i])'
                                \/ blockIds[q][g][i] \in Blocks /\ Abandoned(q, g, i, blockIds[q][g][i])'
        BY DEF ListsFit
      <3>4. /\ Len(blockIds[q][g]) = computed[q] + sched[q].n
            /\ \A i \in DOMAIN blockIds[q][g] :
                  \/ blockIds[q][g][i] = NullBlock /\ g \in SWGroups
                  \/ blockIds[q][g][i] \in Blocks /\ Holds(q, g, i, blockIds[q][g][i])
                  \/ blockIds[q][g][i] \in Blocks /\ Abandoned(q, g, i, blockIds[q][g][i])
        BY <3>1 DEF Placed, Lists, ListsFit
      <3>5. \A i \in DOMAIN blockIds[q][g] :
              /\ Holds(q, g, i, blockIds[q][g][i]) => Holds(q, g, i, blockIds[q][g][i])'
              /\ Abandoned(q, g, i, blockIds[q][g][i]) => Abandoned(q, g, i, blockIds[q][g][i])'
        <4> SUFFICES ASSUME NEW i \in DOMAIN blockIds[q][g], NEW b, b = blockIds[q][g][i]
                     PROVE  /\ Holds(q, g, i, b) => Holds(q, g, i, b)'
                            /\ Abandoned(q, g, i, b) => Abandoned(q, g, i, b)'
          BY DEF Holds, Abandoned
        <4> QED BY <1>1, <3>2, <3>3
      <3> QED BY <3>4, <3>5
    <2> QED BY <2>1, <2>2 DEF Lists
  <1> QED BY <1>5, <1>6, <1>7, <1>9 DEF Placed

\* The stores of one request are built.
LEMMA StoreJobsPlaced ==
  ASSUME InOrder, TypeOK', Placed, NEW r \in Requests, StoreJobs(r), pc' # "dead"
  PROVE  Placed'
  <1>1. pc = "store" /\ r \in toStore
    BY DEF StoreJobs
  <1>2. PICK tokens \in Offloadable(r) :
          IF r \in tracked /\ Refused(r, ChunkOf(tokens)) # "none"
          THEN Raise(Refused(r, ChunkOf(tokens)))
          ELSE /\ IF r \in tracked THEN StoreChunks(r, ChunkOf(tokens)) ELSE SkipStore(nextStored)
               /\ toStore' = toStore \ {r}
               /\ UNCHANGED <<pc, engineVars, tracked, blockIds, batchLoads, toFlush, allocated,
                              workerVars, staleJob, loading, resets>>
    BY DEF StoreJobs
  <1> SUFFICES ASSUME NEW end, end = ChunkOf(tokens) PROVE Placed'
    OBVIOUS
  <1>3. /\ phase[r] = "running" /\ r \in tracked
        /\ end \in Nat /\ end <= ChunkOf(AtMost(computed[r] + sched[r].n, OffloadLimit))
        /\ ~sched[r].fresh => \A g \in Groups : nextStored[r][g] <= end
        /\ computed[r] \in Nat /\ sched[r].n \in Nat
    BY <1>1, StoreRange
  <1>4. /\ StoreChunks(r, end)
        /\ toStore' = toStore \ {r}
        /\ UNCHANGED <<pc, engineVars, tracked, blockIds, batchLoads, toFlush, allocated,
                       workerVars, staleJob, loading, resets>>
    BY <1>2, <1>3 DEF Raise
  <1>5. UNCHANGED <<pc, phase, computed, table, content, sched, preempted, blockIds, toFlush, left, done, staleJob>>
    BY <1>4 DEF engineVars, workerVars
  <1>6. IndexFits /\ nextStored \in [Requests -> [Groups -> Nat]]
    BY DEF Placed, Lists, InOrder, TypeOK
  <1>7. Advanced(r, end) = [nextStored EXCEPT ![r] = [g \in Groups |-> end]]
    BY DEF Advanced
  <1>8. nextStored' = Advanced(r, end) =>
          /\ \A q \in Requests, g, h \in Groups : nextStored'[q][g] = nextStored'[q][h]
          /\ \A q \in Requests \ {r} : nextStored'[q] = nextStored[q]
          /\ \A g \in Groups : nextStored'[r][g] <= ChunkOf(AtMost(computed[r] + sched[r].n, OffloadLimit))
          /\ ~sched[r].fresh => \A g \in Groups : nextStored[r][g] <= nextStored'[r][g]
    <2> SUFFICES ASSUME nextStored' = [nextStored EXCEPT ![r] = [g \in Groups |-> end]]
                 PROVE  /\ \A q \in Requests, g, h \in Groups : nextStored'[q][g] = nextStored'[q][h]
                        /\ \A q \in Requests \ {r} : nextStored'[q] = nextStored[q]
                        /\ \A g \in Groups : nextStored'[r][g] <= ChunkOf(AtMost(computed[r] + sched[r].n, OffloadLimit))
                        /\ ~sched[r].fresh => \A g \in Groups : nextStored[r][g] <= nextStored'[r][g]
      BY <1>7
    <2>1. (\A g \in Groups : nextStored'[r][g] = end) /\ \A q \in Requests \ {r} : nextStored'[q] = nextStored[q]
      BY <1>6
    <2>2. \A q \in Requests, g, h \in Groups : nextStored'[q][g] = nextStored'[q][h]
      BY <1>6, <2>1 DEF IndexFits
    <2> QED BY <1>3, <2>1, <2>2
  <1> DEFINE new  == {Key(r, s[1], s[2]) : s \in NewChunks(r, end)}
             keys == new \ Held
  <1>9. CASE keys = {}
    <2>1. SkipStore(Advanced(r, end))
      BY <1>4, <1>9 DEF StoreChunks
    <2>2. nextStored' = Advanced(r, end) /\ UNCHANGED <<jobs, job, pending, batchStores>>
      BY <2>1 DEF SkipStore, jobVars
    <2>3. JobsPend
      BY DEF Placed, Stores
    <2> QED BY <1>1, <1>4, <1>5, <1>8, <2>2, <2>3, VisitedPlaced
  <1>10. CASE keys # {} /\ Evictions(new) = {}
    <2>1. SkipStore(nextStored)
      BY <1>4, <1>10 DEF StoreChunks
    <2>2. UNCHANGED <<nextStored, jobs, job, pending, batchStores>>
      BY <2>1 DEF SkipStore, jobVars
    <2>3. NewChunks(r, end) # {}
      BY <1>10
    <2>4. PICK s \in Groups \X (0 .. end - 1) : s[2] >= nextStored[r][s[1]]
      BY <2>3 DEF NewChunks
    <2>5. \A g \in Groups : nextStored[r][g] = nextStored[r][s[1]] /\ nextStored[r][g] \in Nat
      BY <1>6, <2>4 DEF IndexFits
    <2>6. ChunkOf(AtMost(computed[r] + sched[r].n, OffloadLimit)) \in Nat
      <3>1. AtMost(computed[r] + sched[r].n, OffloadLimit) \in Nat
        BY <1>3, CountsAssumption DEF AtMost
      <3> QED BY <3>1, ChunkOrder
    <2>7. \A g \in Groups : nextStored[r][g] <= ChunkOf(AtMost(computed[r] + sched[r].n, OffloadLimit))
      BY <1>3, <2>4, <2>5, <2>6
    <2>8. \A g \in Groups : nextStored[r][g] <= nextStored[r][g]
      BY <2>5
    <2>9. \A q \in Requests, g, h \in Groups : nextStored'[q][g] = nextStored'[q][h]
      BY <1>6, <2>2 DEF IndexFits
    <2> QED BY <1>1, <1>4, <1>5, <2>2, <2>7, <2>8, <2>9, VisitedPlaced
  <1>11. CASE keys # {} /\ Evictions(new) # {}
    <2> DEFINE copies == StoreCopies(r, end, keys)
    <2>1. PICK evicted \in Evictions(new) : IssueStore(r, end, keys, evicted)
      BY <1>4, <1>11 DEF StoreChunks
    <2>2. jobCounter < MaxJobs /\ jobCounter \in JobIds
      <3>1. jobCounter # MaxJobs
        BY <2>1 DEF Evictions
      <3>2. jobCounter \in 0 .. MaxJobs
        BY DEF InOrder, TypeOK
      <3> QED BY <3>1, <3>2, CountsAssumption DEF JobIds
    <2> SUFFICES ASSUME NEW i, i = jobCounter PROVE Placed'
      OBVIOUS
    <2>3. /\ jobs' = jobs \cup {i} /\ batchStores' = batchStores \cup {i}
          /\ job' = [job EXCEPT ![i] = [req |-> r, isStore |-> TRUE, keys |-> keys, copies |-> copies]]
          /\ pending' = [pending EXCEPT ![i] = NumWorkers]
          /\ nextStored' = Advanced(r, end)
      BY <2>1 DEF IssueStore, NewJob, ReportsExpected
    <2>4. i \notin jobs /\ \A j \in jobs : j \in JobIds
      BY DEF InOrder, TypeOK, Bookkeeping, JobsAreIssued
    <2>5. left[i] = 0
      <3>1. Outstanding(i) = 0
        BY <2>2 DEF InOrder, TypeOK, Bookkeeping, JobsAreIssued
      <3>2. left[i] \in Nat /\ done[i] \in Nat /\ Unread(i) \in Nat /\ report[i] \in Nat
        BY <2>2, ReportTypes DEF InOrder
      <3> QED BY <3>1, <3>2, ZeroSum DEF Outstanding
    <2>6. \A j \in jobs : job'[j] = job[j] /\ pending'[j] = pending[j]
      BY <2>3, <2>4 DEF InOrder, TypeOK, Counts
    <2>7. job'[i].req = r /\ job'[i].isStore /\ job'[i].copies = copies /\ pending'[i] > 0
      <3>1. job \in [JobIds -> Job] /\ pending \in [JobIds -> Nat]
        BY DEF InOrder, TypeOK, Counts
      <3> HIDE DEF copies, keys
      <3>2. job'[i] = [req |-> r, isStore |-> TRUE, keys |-> keys, copies |-> copies] /\ pending'[i] = NumWorkers
        BY <2>2, <2>3, <3>1
      <3> QED BY <3>2, CountsAssumption
    <2> HIDE DEF keys
    <2>8. \A d \in copies : /\ d[1] \in Groups /\ d[2] \in Nat /\ d[3] \in Blocks
                            /\ d[2] < computed[r] + sched[r].n
                            /\ \/ Holds(r, d[1], d[2] + 1, d[3])
                               \/ d[1] \in SWGroups /\ content[d[3]] = Data(r, d[1], d[2])
      BY <1>1, StoredCopies
    <2>9. \A c, d \in copies : c[3] = d[3] => c = d
      BY <1>1, DistinctCopies
    <2> HIDE DEF copies
    <2>10. /\ jobs \subseteq jobs' /\ batchStores \subseteq batchStores' /\ batchStores' \subseteq batchStores \cup (jobs' \ jobs)
           /\ jobs' \ jobs = {i}
      BY <2>3, <2>4
    <2>11. \A j \in jobs' \ jobs :
             /\ job'[j].req = r /\ job'[j].isStore /\ pending'[j] > 0 /\ left[j] = 0
             /\ \A d \in job'[j].copies :
                   /\ d[1] \in Groups /\ d[2] \in Nat /\ d[3] \in Blocks
                   /\ d[2] < computed[r] + sched[r].n
                   /\ \/ Holds(r, d[1], d[2] + 1, d[3])
                      \/ d[1] \in SWGroups /\ content[d[3]] = Data(r, d[1], d[2])
             /\ \A c, d \in job'[j].copies : c[3] = d[3] => c = d
      BY <2>5, <2>7, <2>8, <2>9, <2>10
    <2> QED BY <1>1, <1>4, <1>5, <1>8, <2>3, <2>6, <2>10, <2>11, VisitedPlaced
  <1> QED BY <1>9, <1>10, <1>11

-----------------------------------------------------------------------------
(***************************************************************************)
(* The step is executed.                                                   *)
(***************************************************************************)
\* The forward pass fills what was still to be filled of the positions of the
\* step, and changes no block that holds data.
LEMMA StepFills ==
  ASSUME InOrder, Placed, EndConnectorMeta
  PROVE  /\ \A b \in Blocks : content[b] # Nothing => content'[b] = content[b]
         /\ \A q \in Requests, g \in Groups, i \in Nat, b \in Blocks : Holds(q, g, i, b) =>
               /\ content'[b] \in {Data(q, g, i - 1), Nothing}
               /\ phase[q] = "running" /\ i <= computed[q] + sched[q].n => content'[b] = Data(q, g, i - 1)
               /\ phase[q] # "running" => content'[b] = content[b]
  <1> DEFINE filled(b) == {f \in Scheduled \X Groups \X (0 .. MaxLen - 1) :
                             /\ f[3] \in computed[f[1]] .. computed[f[1]] + sched[f[1]].n - 1
                             /\ table[f[1]][f[2]][f[3] + 1] = b}
  <1>1. pc = "store" /\ content' = [b \in Blocks |->
          IF filled(b) = {} THEN content[b]
          ELSE LET f == CHOOSE f \in filled(b) : TRUE IN Data(f[1], f[2], f[3])]
    BY DEF EndConnectorMeta
  <1>2. \A b \in Blocks : \/ content'[b] = content[b] /\ filled(b) = {}
                          \/ \E f \in filled(b) : content'[b] = Data(f[1], f[2], f[3])
    <2> SUFFICES ASSUME NEW b \in Blocks, filled(b) # {}
                 PROVE  \E f \in filled(b) : content'[b] = Data(f[1], f[2], f[3])
      BY <1>1
    <2> DEFINE f == CHOOSE f \in filled(b) : TRUE
    <2>1. f \in filled(b)
      OBVIOUS
    <2>2. content'[b] = Data(f[1], f[2], f[3])
      BY <1>1
    <2> HIDE DEF f
    <2> QED BY <2>1, <2>2
  <1>3. \A q \in Requests, g \in Groups : /\ computed[q] \in Nat /\ sched[q].n \in Nat
                                          /\ table[q][g] \in Seq(BlockId)
    BY DEF InOrder, TypeOK, Tables
  <1>4. \A q \in Scheduled : /\ q \in Requests /\ phase[q] = "running" /\ sched[q].n > 0
                             /\ computed[q] + sched[q].n <= MaxLen
    BY <1>1 DEF InOrder, Bookkeeping, EngineInStep, Scheduled, Placed, Engine, TablesFit
  <1>5. ASSUME NEW b \in Blocks, NEW f \in filled(b)
        PROVE  /\ f[1] \in Requests /\ f[2] \in Groups /\ f[3] \in Nat /\ f[3] + 1 \in Nat /\ (f[3] + 1) - 1 = f[3]
               /\ phase[f[1]] = "running" /\ Holds(f[1], f[2], f[3] + 1, b)
    <2>1. /\ f[1] \in Scheduled /\ f[2] \in Groups /\ f[3] \in Nat
          /\ f[3] \in computed[f[1]] .. computed[f[1]] + sched[f[1]].n - 1
          /\ table[f[1]][f[2]][f[3] + 1] = b
      OBVIOUS
    <2>2. f[1] \in Requests /\ phase[f[1]] = "running"
      BY <2>1, <1>4
    <2>3. Len(table[f[1]][f[2]]) = computed[f[1]] + sched[f[1]].n
      BY <2>1, <2>2 DEF Placed, Engine, TablesFit
    <2>4. f[3] + 1 \in 1 .. Len(table[f[1]][f[2]])
      BY <2>1, <2>2, <2>3, <1>3
    <2>5. f[3] + 1 \in DOMAIN table[f[1]][f[2]]
      BY <2>1, <2>2, <2>4, <1>3
    <2> QED BY <2>1, <2>2, <2>5 DEF Holds
  <1>6. ASSUME NEW q \in Scheduled, NEW g \in Groups, NEW i \in Nat, NEW b \in Blocks, Holds(q, g, i, b),
               computed[q] < i, i <= computed[q] + sched[q].n
        PROVE  <<q, g, i - 1>> \in filled(b)
    <2>1. i - 1 \in 0 .. MaxLen - 1 /\ i - 1 \in computed[q] .. computed[q] + sched[q].n - 1 /\ (i - 1) + 1 = i
      BY <1>3, <1>4, <1>6, CountsAssumption
    <2>2. table[q][g][i] = b
      BY <1>6 DEF Holds
    <2> QED BY <2>1, <2>2
  <1> HIDE DEF filled
  <1>7. ASSUME NEW b \in Blocks, content[b] # Nothing
        PROVE  content'[b] = content[b]
    <2> SUFFICES ASSUME NEW f \in filled(b), content'[b] = Data(f[1], f[2], f[3])
                 PROVE  content'[b] = content[b]
      BY <1>2
    <2>1. content[b] \in {Data(f[1], f[2], (f[3] + 1) - 1), Nothing}
      BY <1>5 DEF Placed, Slots, SlotsAgree
    <2> QED BY <2>1, <1>5, <1>7
  <1>8. ASSUME NEW q \in Requests, NEW g \in Groups, NEW i \in Nat, NEW b \in Blocks, Holds(q, g, i, b)
        PROVE  /\ content'[b] \in {Data(q, g, i - 1), Nothing}
               /\ phase[q] = "running" /\ i <= computed[q] + sched[q].n => content'[b] = Data(q, g, i - 1)
               /\ phase[q] # "running" => content'[b] = content[b]
    <2>1. content[b] \in {Data(q, g, i - 1), Nothing}
      BY <1>8 DEF Placed, Slots, SlotsAgree
    <2>2. CASE content[b] # Nothing
      BY <2>1, <2>2, <1>7
    <2>3. CASE content[b] = Nothing
      <3>1. ASSUME NEW f \in filled(b)
            PROVE  f[1] = q /\ f[2] = g /\ f[3] = i - 1 /\ phase[q] = "running"
        <4>1. f[1] = q /\ f[2] = g /\ f[3] + 1 = i
          BY <1>5, <1>8, <2>3 DEF Placed, Slots, SlotsExclusive
        <4> QED BY <4>1, <1>5
      <3>2. content'[b] = content[b] \/ (content'[b] = Data(q, g, i - 1) /\ phase[q] = "running")
        BY <3>1, <1>2
      <3>3. ASSUME phase[q] = "running", i <= computed[q] + sched[q].n
            PROVE  content'[b] = Data(q, g, i - 1)
        <4>1. computed[q] < i
          <5>1. ~(i <= computed[q])
            BY <1>8, <2>3, <3>3, DataParts DEF Placed, Slots, ComputedFilled
          <5> QED BY <5>1, <1>3
        <4>2. q \in Scheduled
          BY <4>1, <3>3, <1>3 DEF Scheduled
        <4>3. filled(b) # {}
          BY <4>1, <4>2, <1>6, <1>8, <3>3
        <4>4. PICK f \in filled(b) : content'[b] = Data(f[1], f[2], f[3])
          BY <4>3, <1>2
        <4> QED BY <4>4, <3>1 DEF Data
      <3> QED BY <2>3, <3>2, <3>3
    <2> QED BY <2>2, <2>3
  <1> QED BY <1>7, <1>8

\* The step ends: what was flushed is over, and the new stores find their data.
LEMMA EndConnectorMetaPlaced ==
  ASSUME InOrder, TypeOK', Placed, Collected, EndConnectorMeta
  PROVE  Placed'
  <1>1. /\ pc = "store" /\ toStore = {} /\ toStore' = {} /\ pc' = "idle"
        /\ computed' = [r \in Requests |-> computed[r] + sched[r].n]
        /\ sched' = [r \in Requests |-> NotScheduled]
        /\ preempted' = {} /\ batchStores' = {} /\ toFlush' = {} /\ allocated' = {}
        /\ left' = [j \in JobIds |-> IF j \in batchLoads \cup batchStores THEN NumWorkers
                                     ELSE IF j \in toFlush THEN 0 ELSE left[j]]
        /\ done' = NoReport
        /\ UNCHANGED <<phase, table, blockIds, nextStored, jobs, job, pending, pendingJobs, staleJob>>
    BY DEF EndConnectorMeta, requestVars, jobVars
  <1>2. /\ \A b \in Blocks : content[b] # Nothing => content'[b] = content[b]
        /\ \A q \in Requests, g \in Groups, i \in Nat, b \in Blocks : Holds(q, g, i, b) =>
              /\ content'[b] \in {Data(q, g, i - 1), Nothing}
              /\ phase[q] = "running" /\ i <= computed[q] + sched[q].n => content'[b] = Data(q, g, i - 1)
              /\ phase[q] # "running" => content'[b] = content[b]
    BY StepFills
  <1>3. \A q \in Requests : \A g, i, b : Holds(q, g, i, b)' <=> Holds(q, g, i, b)
    BY <1>1 DEF Holds
  <1>4. \A q \in Requests : /\ computed[q] \in Nat /\ sched[q].n \in Nat
                            /\ computed'[q] = computed[q] + sched[q].n
                            /\ sched'[q] = NotScheduled /\ sched'[q].n = 0 /\ ~sched'[q].fresh
    BY <1>1 DEF InOrder, TypeOK, NotScheduled
  <1>5. \A j \in jobs : j \in JobIds /\ job[j].req \in Requests /\ left[j] \in Nat /\ done[j] \in Nat
            /\ \A d \in job[j].copies : d[1] \in Groups /\ d[2] \in Nat /\ d[2] + 1 \in Nat
                                        /\ (d[2] + 1) - 1 = d[2] /\ d[3] \in Blocks
    BY JobTypes
  <1>6. Engine'
    <2>1. TablesFit'
      <3>1. \A q \in Requests : phase'[q] \in {"unborn", "waiting"} => table'[q] = EmptyTable
        BY <1>1 DEF Placed, Engine, TablesFit
      <3>2. \A q \in Requests, g \in Groups :
              phase'[q] \in {"loading", "loaded", "running"} => Len(table'[q][g]) = computed'[q] + sched'[q].n
        BY <1>1, <1>4 DEF Placed, Engine, TablesFit
      <3>3. \A q \in Requests, g \in FullGroups : \A i \in DOMAIN table'[q][g] : table'[q][g][i] \in Blocks
        BY <1>1 DEF Placed, Engine, TablesFit
      <3>4. \A q \in Requests : sched'[q].n > 0 => computed'[q] + sched'[q].n <= MaxLen
        BY <1>4
      <3> QED BY <3>1, <3>2, <3>3, <3>4 DEF TablesFit
    <2>2. ScheduleFits'
      <3>1. \A q \in Requests : sched'[q] = NotScheduled /\ ~(sched'[q].n > 0)
        BY <1>4
      <3> QED BY <3>1 DEF ScheduleFits
    <2>3. BatchFits'
      BY <1>1 DEF Placed, Engine, BatchFits
    <2> QED BY <2>1, <2>2, <2>3 DEF Engine
  <1>7. Slots'
    <2>1. SlotsAgree'
      BY <1>2, <1>3 DEF SlotsAgree, Data, Nothing
    <2>2. SlotsExclusive'
      <3>1. \A b \in Blocks : content'[b] = Nothing => content[b] = Nothing
        BY <1>2
      <3> QED BY <1>3, <3>1 DEF Placed, Slots, SlotsExclusive
    <2>3. ComputedFilled'
      <3> SUFFICES ASSUME NEW q \in Requests, NEW g \in Groups, NEW i \in Nat, NEW b \in Blocks,
                          phase[q] = "loaded" \/ (phase[q] = "running" /\ i <= computed'[q]), Holds(q, g, i, b)
                   PROVE  content'[b] = Data(q, g, i - 1)
        BY <1>1, <1>3 DEF ComputedFilled
      <3>1. CASE phase[q] = "loaded"
        <4>1. content[b] = Data(q, g, i - 1)
          BY <3>1 DEF Placed, Slots, ComputedFilled
        <4> QED BY <4>1, <1>2, DataParts
      <3>2. CASE phase[q] = "running" /\ i <= computed'[q]
        BY <3>2, <1>2, <1>4
      <3> QED BY <3>1, <3>2
    <2>4. LoadsHold'
      <3> SUFFICES ASSUME NEW j \in jobs, ~job[j].isStore, NEW q, q = job[j].req
                   PROVE  /\ phase[q] \in {"loading", "finished"}
                          /\ \A d \in job[j].copies : Holds(q, d[1], d[2] + 1, d[3]) /\ content'[d[3]] = Nothing
                          /\ \A g \in Groups, i \in Nat, b \in Blocks :
                                Holds(q, g, i, b) /\ content'[b] = Nothing => <<g, i - 1, b>> \in job[j].copies
        BY <1>1 DEF LoadsHold, Holds
      <3>1. /\ phase[q] \in {"loading", "finished"}
            /\ \A d \in job[j].copies : Holds(q, d[1], d[2] + 1, d[3]) /\ content[d[3]] = Nothing
            /\ \A g \in Groups, i \in Nat, b \in Blocks :
                  Holds(q, g, i, b) /\ content[b] = Nothing => <<g, i - 1, b>> \in job[j].copies
        BY DEF Placed, Slots, LoadsHold
      <3>2. \A g \in Groups, i \in Nat, b \in Blocks : Holds(q, g, i, b) => content'[b] = content[b]
        BY <1>2, <1>5, <3>1
      <3> QED BY <1>5, <3>1, <3>2
    <2> QED BY <2>1, <2>2, <2>3, <2>4 DEF Slots
  <1>8. ASSUME NEW j \in jobs, job[j].isStore, left'[j] > 0
        PROVE  j \in batchStores \/ (left'[j] = left[j] /\ j \notin toFlush)
    <2>1. j \notin batchLoads
      BY <1>8 DEF Collected
    <2> QED BY <2>1, <1>1, <1>5, <1>8
  <1>9. Stores'
    <2>1. StoresHold'
      <3> SUFFICES ASSUME NEW j \in jobs, job[j].isStore, left'[j] + done'[j] > 0, ~Finished(job[j].req)
                   PROVE  /\ phase[job[j].req] = "running"
                          /\ \A d \in job[j].copies : d[1] \notin SWGroups
                                => Holds(job[j].req, d[1], d[2] + 1, d[3])'
        BY <1>1 DEF StoresHold, Finished
      <3>1. left'[j] > 0
        <4>1. done'[j] = 0
          BY <1>1, <1>5 DEF NoReport
        <4>2. left'[j] \in Nat
          BY <1>5 DEF TypeOK, Counts
        <4> QED BY <4>1, <4>2
      <3>2. job[j].req \notin preempted /\ (left[j] + done[j] > 0 \/ j \in batchStores)
        BY <3>1, <1>1, <1>5, <1>8 DEF Collected
      <3>3. /\ phase[job[j].req] = "running"
            /\ \A d \in job[j].copies : d[1] \notin SWGroups => Holds(job[j].req, d[1], d[2] + 1, d[3])
        BY <3>2 DEF Placed, Stores, StoresHold
      <3> QED BY <3>3, <1>1 DEF Holds
    <2>2. StoresRead'
      <3> SUFFICES ASSUME NEW j \in jobs, job[j].isStore, left'[j] > 0, NEW d \in job[j].copies
                   PROVE  content'[d[3]] = Data(job[j].req, d[1], d[2])
        BY <1>1 DEF StoresRead, Data
      <3> SUFFICES ASSUME NEW q \in Requests, q = job[j].req
                   PROVE  content'[d[3]] = Data(q, d[1], d[2])
        BY <1>5
      <3>1. CASE content[d[3]] = Data(q, d[1], d[2])
        BY <3>1, <1>2, <1>5, DataParts
      <3>2. CASE j \in batchStores /\ content[d[3]] # Data(q, d[1], d[2])
        <4>1. Holds(q, d[1], d[2] + 1, d[3]) /\ sched[q].n > 0 /\ d[2] < computed[q] + sched[q].n
          BY <3>2 DEF Placed, Stores, StoresIssued
        <4>2. phase[q] = "running"
          BY <4>1, <1>1 DEF InOrder, Bookkeeping, EngineInStep, Scheduled
        <4>3. d[2] + 1 <= computed[q] + sched[q].n
          BY <4>1, <1>4, <1>5
        <4> QED BY <4>1, <4>2, <4>3, <1>2, <1>5
      <3>3. CASE j \notin batchStores
        <4>1. left[j] > 0 /\ j \notin toFlush
          BY <3>3, <1>8
        <4> QED BY <4>1, <3>1, <1>1 DEF Placed, Stores, StoresRead, Flushing
      <3> QED BY <3>1, <3>2, <3>3
    <2>3. StoresIssued'
      BY <1>1 DEF StoresIssued
    <2>4. StoresDistinct' /\ JobsPend'
      BY <1>1 DEF Placed, Stores, StoresDistinct, JobsPend, Repeated
    <2> QED BY <2>1, <2>2, <2>3, <2>4 DEF Stores
  <1>10. Lists'
    <2>1. IndexFits'
      <3>1. \A q \in Requests, g, h \in Groups : nextStored'[q][g] = nextStored'[q][h]
        BY <1>1 DEF Placed, Lists, IndexFits
      <3>2. ASSUME NEW q \in Requests, NEW g \in Groups, phase'[q] = "running"
            PROVE  nextStored'[q][g] <= ChunkOf(AtMost(ComputedNow(q)', OffloadLimit))
        <4>1. ComputedNow(q) = computed[q] + sched[q].n /\ Visited(q)
          BY <1>1 DEF ComputedNow, Visited
        <4>2. ComputedNow(q)' = computed[q] + sched[q].n
          BY <1>1, <1>4 DEF ComputedNow, Visited
        <4>3. nextStored[q][g] <= ChunkOf(AtMost(ComputedNow(q), OffloadLimit))
          BY <3>2, <4>1, <1>1 DEF Placed, Lists, IndexFits
        <4> QED BY <4>1, <4>2, <4>3, <1>1
      <3> QED BY <3>1, <3>2 DEF IndexFits, ChunkOf, AtMost
    <2>2. ListsFit'
      <3> SUFFICES ASSUME NEW q \in Requests, NEW g \in Groups, phase[q] = "running"
                   PROVE  /\ Len(blockIds[q][g]) = computed'[q]
                          /\ \A i \in DOMAIN blockIds[q][g] :
                                \/ blockIds[q][g][i] = NullBlock /\ g \in SWGroups
                                \/ blockIds[q][g][i] \in Blocks /\ Holds(q, g, i, blockIds[q][g][i])'
                                \/ blockIds[q][g][i] \in Blocks /\ Abandoned(q, g, i, blockIds[q][g][i])'
        BY <1>1 DEF ListsFit, Listed
      <3>1. Listed(q)
        BY <1>1 DEF Listed
      <3>2. /\ Len(blockIds[q][g]) = computed[q] + sched[q].n
            /\ \A i \in DOMAIN blockIds[q][g] :
                  \/ blockIds[q][g][i] = NullBlock /\ g \in SWGroups
                  \/ blockIds[q][g][i] \in Blocks /\ Holds(q, g, i, blockIds[q][g][i])
                  \/ blockIds[q][g][i] \in Blocks /\ Abandoned(q, g, i, blockIds[q][g][i])
        BY <1>1, <3>1 DEF Placed, Lists, ListsFit
      <3>3. \A i \in DOMAIN blockIds[q][g] :
              Holds(q, g, i, blockIds[q][g][i]) => Holds(q, g, i, blockIds[q][g][i])'
        BY <1>1 DEF Holds
      <3>4. \A i \in DOMAIN blockIds[q][g] :
              blockIds[q][g][i] \in Blocks /\ Abandoned(q, g, i, blockIds[q][g][i])
              => Abandoned(q, g, i, blockIds[q][g][i])'
        <4> SUFFICES ASSUME NEW i \in DOMAIN blockIds[q][g], NEW b \in Blocks, b = blockIds[q][g][i],
                            Abandoned(q, g, i, b)
                     PROVE  Abandoned(q, g, i, b)'
          BY <1>1 DEF Abandoned
        <4>1. content[b] = Data(q, g, i - 1) => content'[b] = Data(q, g, i - 1)
          BY <1>2, DataParts
        <4> QED BY <4>1, <1>1, <1>4 DEF Abandoned, Data
      <3> QED BY <3>2, <3>3, <3>4, <1>4
    <2> QED BY <2>1, <2>2 DEF Lists
  <1> QED BY <1>6, <1>7, <1>9, <1>10 DEF Placed

-----------------------------------------------------------------------------
(***************************************************************************)
(* Every step, and every state.                                            *)
(***************************************************************************)
\* What a step collects is right when its stores are built and at its end.
LEMMA NextCollected ==
  ASSUME InOrder, Placed, Collected, [Next]_vars, resets' = 0, pc' # "dead"
  PROVE  Collected'
  <1>1. TypeOK /\ Bookkeeping /\ Expected /\ resets = 0 /\ pc # "dead"
    BY DEF InOrder
  <1>2. Issued \subseteq jobs /\ jobCounter \notin jobs
    BY <1>1 DEF TypeOK, Bookkeeping, IssuedAreUnsent, JobsAreIssued
  <1>3. ASSUME pc' # "store", batchLoads' \subseteq batchLoads, \A j \in batchLoads' : job'[j] = job[j]
        PROVE  Collected'
    BY <1>3 DEF Collected
  <1>4. ASSUME NEW r \in Requests, OnNewRequest(r) \/ NotAdmitted(r) \/ Preempt(r) \/ RequestFinished(r)
        PROVE  Collected'
    <2>1. pc' # "store" /\ UNCHANGED <<batchLoads, job>>
      BY <1>4 DEF OnNewRequest, NotAdmitted, Admissible, Preempt, RequestFinished, Raise, jobVars, batchVars
    <2> QED BY <2>1, <1>3
  <1>5. ASSUME NEW r \in Requests, NEW n \in 1 .. MaxChunk,
               AdmitWithoutLoad(r, n) \/ ScheduleLoaded(r, n) \/ ScheduleRunning(r, n)
        PROVE  Collected'
    <2>1. pc' # "store" /\ UNCHANGED <<batchLoads, job>>
      BY <1>5 DEF AdmitWithoutLoad, Admissible, ScheduleLoaded, ScheduleRunning, jobVars, batchVars
    <2> QED BY <2>1, <1>3
  <1>6. ASSUME NEW r \in Requests, AdmitWithLoad(r)
        PROVE  Collected'
    <2>1. PICK local \in 0 .. PromptLen : \E c \in LoadableChunks(r, local) :
            /\ Admissible(r) /\ jobCounter < MaxJobs
            /\ \E t \in TablesFor(r, local, c * BlockSizeFactor, c * BlockSizeFactor) :
                  IF transferJobs[r] # {}
                  THEN Raise("load issued while jobs are pending")
                  ELSE IssueLoad(r, t, local, c) /\ UNCHANGED pc
      BY <1>6 DEF AdmitWithLoad
    <2>2. PICK c \in LoadableChunks(r, local) :
            /\ Admissible(r) /\ jobCounter < MaxJobs
            /\ \E t \in TablesFor(r, local, c * BlockSizeFactor, c * BlockSizeFactor) :
                  IF transferJobs[r] # {}
                  THEN Raise("load issued while jobs are pending")
                  ELSE IssueLoad(r, t, local, c) /\ UNCHANGED pc
      BY <2>1
    <2>3. PICK t : IssueLoad(r, t, local, c) /\ UNCHANGED pc
      BY <2>2 DEF Raise
    <2>4. pc' # "store"
      BY <2>2, <2>3 DEF Admissible
    <2> SUFFICES ASSUME NEW i, i = jobCounter PROVE Collected'
      OBVIOUS
    <2>5. i \in JobIds
      <3>1. jobCounter < MaxJobs /\ jobCounter \in 0 .. MaxJobs
        BY <2>2, <1>1 DEF TypeOK
      <3> QED BY <3>1, CountsAssumption DEF JobIds
    <2>6. /\ batchLoads' = batchLoads \cup {i}
          /\ \E keys, copies : job' = [job EXCEPT ![i] =
                [req |-> r, isStore |-> FALSE, keys |-> keys, copies |-> copies]]
      BY <2>3 DEF IssueLoad, NewJob
    <2>7. ~job'[i].isStore /\ \A j \in JobIds \ {i} : job'[j] = job[j]
      BY <2>5, <2>6, <1>1 DEF TypeOK
    <2>8. batchLoads \subseteq JobIds
      BY <1>1 DEF TypeOK
    <2> QED BY <2>4, <2>6, <2>7, <2>8 DEF Collected
  <1>7. CASE BeginConnectorMeta
    <2>1. /\ toFlush' = toFlush \cup FlushPreempted \cup FlushReused \cup FlushAll /\ pc = "schedule"
          /\ UNCHANGED <<batchLoads, batchStores, job, jobs, preempted>>
      BY <1>7 DEF BeginConnectorMeta, Raise, engineVars, jobVars
    <2>2. batchStores = {}
      BY <2>1 DEF Placed, Engine, BatchFits
    <2>3. ASSUME NEW j \in jobs, job[j].req \in preempted
          PROVE  j \in toFlush'
      <3>1. job[j].req \in tracked /\ j \in transferJobs[job[j].req]
        BY <1>1 DEF Expected, StatusOfActive, Bookkeeping, JobsAreOwned
      <3>2. j \in FlushPreempted
        BY <2>3, <3>1 DEF FlushPreempted
      <3> QED BY <2>1, <3>2
    <2> QED BY <2>1, <2>2, <2>3 DEF Collected
  <1>8. ASSUME NEW r \in Requests, StoreJobs(r)
        PROVE  Collected'
    <2>1. pc = "store" /\ r \in toStore
      BY <1>8 DEF StoreJobs
    <2>2. phase[r] = "running" /\ r \in tracked /\ r \notin preempted
      BY <1>1, <2>1 DEF Bookkeeping, EngineInStep, Placed, Engine, BatchFits, Expected, StatusOfActive, Live
    <2>3. PICK tokens \in Offloadable(r) : /\ StoreChunks(r, ChunkOf(tokens))
                                           /\ UNCHANGED <<pc, engineVars, batchLoads, toFlush>>
      BY <1>8, <2>2 DEF StoreJobs, Raise
    <2>4. UNCHANGED <<pc, preempted, batchLoads, toFlush>>
      BY <2>3 DEF engineVars
    <2>5. CASE UNCHANGED <<jobVars, batchStores>>
      BY <2>4, <2>5 DEF Collected, jobVars
    <2>6. ASSUME NEW end, NEW keys, NEW evicted, IssueStore(r, end, keys, evicted), jobCounter # MaxJobs
          PROVE  Collected'
      <3> SUFFICES ASSUME NEW i, i = jobCounter PROVE Collected'
        OBVIOUS
      <3>1. i \in JobIds
        BY <2>6, <1>1, CountsAssumption DEF TypeOK, JobIds
      <3>2. /\ jobs' = jobs \cup {i} /\ batchStores' = batchStores \cup {i}
            /\ \E copies : job' = [job EXCEPT ![i] =
                  [req |-> r, isStore |-> TRUE, keys |-> keys, copies |-> copies]]
        BY <2>6 DEF IssueStore, NewJob
      <3>3. job'[i].req = r /\ \A j \in JobIds \ {i} : job'[j] = job[j]
        BY <3>1, <3>2, <1>1 DEF TypeOK
      <3>4. i \notin jobs /\ i \notin batchLoads /\ jobs \subseteq JobIds /\ batchLoads \subseteq JobIds
        BY <1>1, <1>2 DEF TypeOK, Issued
      <3>5. \A j \in batchLoads' : ~job'[j].isStore
        BY <3>3, <3>4, <2>4 DEF Collected
      <3>6. \A j \in jobs' : job'[j].req \in preempted => j \in toFlush \ batchStores'
        BY <3>2, <3>3, <3>4, <2>1, <2>2 DEF Collected
      <3> QED BY <3>5, <3>6, <2>4 DEF Collected
    <2> QED BY <2>3, <2>5, <2>6 DEF StoreChunks, SkipStore, Evictions
  <1>9. CASE EndConnectorMeta
    <2>1. pc' = "idle" /\ batchLoads' = {}
      BY <1>9 DEF EndConnectorMeta
    <2> QED BY <2>1, <1>3
  <1>10. ASSUME NEW j \in JobIds, UpdateConnectorOutput(j)
         PROVE  Collected'
    <2>1. /\ pc = "output" /\ batchLoads' = batchLoads
          /\ pc' = AfterReport([report EXCEPT ![j] = 0])
      BY <1>10 DEF UpdateConnectorOutput, Raise, batchVars
    <2>2. batchLoads = {} /\ pc' # "store"
      BY <2>1, <1>1 DEF Bookkeeping, IssuedAreUnsent, Issued, AfterReport
    <2> QED BY <2>1, <2>2, <1>3
  <1>11. CASE StartStep \/ TakeOutput \/ \E j \in JobIds : WorkerDone(j)
    <2>1. pc' # "store" /\ UNCHANGED <<batchLoads, job>>
      BY <1>11 DEF StartStep, TakeOutput, WorkerDone, AfterReport, jobVars, batchVars
    <2> QED BY <2>1, <1>3
  <1>12. CASE UNCHANGED vars
    BY <1>12 DEF Collected, vars, engineVars, jobVars, batchVars
  <1>13. ~ResetCache
    <2>1. ResetCache => (\E what : Raise(what)) \/ resets' = resets + 1
      BY Zenon DEF ResetCache
    <2> QED BY <2>1, <1>1 DEF Raise
  <1> QED BY <1>4, <1>5, <1>6, <1>7, <1>8, <1>9, <1>10, <1>11, <1>12, <1>13
          DEF Next, EngineLoop, Scheduling, Calls, Stopped

\* Every step before reset_cache keeps the invariant.
LEMMA NextPlaced ==
  ASSUME InOrder, TypeOK', Placed, Collected, [Next]_vars, resets' = 0, pc' # "dead"
  PROVE  Placed'
  <1>1. ASSUME NEW r \in Requests, Scheduling(r)
        PROVE  Placed'
    <2>1. CASE NotAdmitted(r) \/ Preempt(r)
      BY <2>1, QuietPlaced, PreemptPlaced
    <2>2. CASE AdmitWithLoad(r)
      BY <2>2, AdmitWithLoadPlaced
    <2>3. ASSUME NEW n \in 1 .. MaxChunk, AdmitWithoutLoad(r, n) \/ ScheduleLoaded(r, n) \/ ScheduleRunning(r, n)
          PROVE  Placed'
      BY <2>3, AdmitWithoutLoadPlaced, SchedulePlaced
    <2> QED BY <1>1, <2>1, <2>2, <2>3 DEF Scheduling
  <1>2. ASSUME NEW r \in Requests, Calls(r)
        PROVE  Placed'
    BY <1>2, QuietPlaced, RequestFinishedPlaced DEF Calls
  <1>3. ASSUME EngineLoop
        PROVE  Placed'
    <2>1. CASE StartStep \/ TakeOutput
      BY <2>1, QuietPlaced
    <2>2. CASE BeginConnectorMeta
      BY <2>2, BeginConnectorMetaPlaced
    <2>3. CASE \E r \in Requests : StoreJobs(r)
      BY <2>3, StoreJobsPlaced
    <2>4. CASE EndConnectorMeta
      BY <2>4, EndConnectorMetaPlaced
    <2>5. CASE \E j \in JobIds : UpdateConnectorOutput(j)
      BY <2>5, UpdateConnectorOutputPlaced
    <2> QED BY <1>3, <2>1, <2>2, <2>3, <2>4, <2>5 DEF EngineLoop
  <1>4. CASE UNCHANGED vars \/ \E j \in JobIds : WorkerDone(j)
    BY <1>4, QuietPlaced
  <1>5. ~ResetCache
    <2>1. ResetCache => (\E what : Raise(what)) \/ resets' = resets + 1
      BY Zenon DEF ResetCache
    <2> QED BY <2>1 DEF Raise, InOrder
  <1> QED BY <1>1, <1>2, <1>3, <1>4, <1>5 DEF Next, Stopped

\* No exception is recovered from.
LEMMA NothingAfterException ==
  ASSUME [Next]_vars, pc = "dead"
  PROVE  UNCHANGED vars
  <1>1. \A r \in Requests : ~Scheduling(r) /\ ~Calls(r)
    BY DEF Scheduling, Calls, NotAdmitted, Admissible, AdmitWithLoad, Preempt, AdmitWithoutLoad,
           ScheduleLoaded, ScheduleRunning, OnNewRequest, RequestFinished
  <1>2. ~EngineLoop
    BY DEF EngineLoop, StartStep, BeginConnectorMeta, StoreJobs, EndConnectorMeta, TakeOutput,
           UpdateConnectorOutput
  <1>3. ~ResetCache /\ \A j \in JobIds : ~WorkerDone(j)
    BY DEF ResetCache, WorkerDone
  <1> QED BY <1>1, <1>2, <1>3 DEF Next, Stopped

\* reset_cache is not undone and no exception is recovered from.
LEMMA NoWayBack ==
  ASSUME TypeOK, [Next]_vars
  PROVE  /\ resets' = 0 => resets = 0
         /\ pc = "dead" => pc' = "dead"
  <1>1. ASSUME resets' = 0
        PROVE  resets = 0
    <2>1. resets' = resets \/ resets' = resets + 1
      <3>1. ASSUME NEW r \in Requests, Scheduling(r) \/ Calls(r)
            PROVE  resets' = resets
        BY <3>1 DEF Scheduling, Calls, NotAdmitted, AdmitWithLoad, Preempt, AdmitWithoutLoad, ScheduleLoaded,
                    ScheduleRunning, OnNewRequest, RequestFinished, Raise
      <3>2. ASSUME EngineLoop
            PROVE  resets' = resets
        BY <3>2 DEF EngineLoop, StartStep, BeginConnectorMeta, StoreJobs, EndConnectorMeta, TakeOutput,
                    UpdateConnectorOutput, Raise
      <3>3. CASE UNCHANGED vars \/ \E j \in JobIds : WorkerDone(j)
        BY <3>3 DEF vars, WorkerDone
      <3>4. ResetCache => (\E what : Raise(what)) \/ resets' = resets + 1
        BY Zenon DEF ResetCache
      <3> QED BY <3>1, <3>2, <3>3, <3>4 DEF Next, Stopped, Raise
    <2>2. resets \in Nat
      BY DEF TypeOK
    <2> QED BY <1>1, <2>1, <2>2
  <1>2. pc = "dead" => pc' = "dead"
    BY NothingAfterException DEF vars
  <1> QED BY <1>1, <1>2

\* Nothing is held, computed, loaded or stored when the engine starts.
LEMMA InitPlaced == Init => Placed /\ Collected
  <1> SUFFICES ASSUME Init PROVE Placed /\ Collected
    OBVIOUS
  <1>1. \A r \in Requests : phase[r] = "unborn" /\ table[r] = EmptyTable /\ computed[r] = 0
                            /\ sched[r] = NotScheduled /\ sched[r].n = 0 /\ nextStored[r] = [g \in Groups |-> 0]
    BY DEF Init, NotScheduled
  <1>2. \A r \in Requests, g \in Groups : \A i, b : ~Holds(r, g, i, b)
    BY <1>1 DEF Holds, EmptyTable
  <1>3. TablesFit
    <2>1. \A g \in FullGroups : DOMAIN EmptyTable[g] = {}
      BY DEF EmptyTable, Groups
    <2>2. \A r \in Requests : phase[r] \notin {"loading", "loaded", "running"} /\ ~(sched[r].n > 0)
      BY <1>1
    <2> QED BY <1>1, <2>1, <2>2 DEF TablesFit
  <1>4. ScheduleFits
    BY <1>1 DEF ScheduleFits
  <1>5. BatchFits
    BY DEF Init, BatchFits
  <1>6. SlotsAgree /\ SlotsExclusive /\ ComputedFilled /\ LoadsHold
    BY <1>2 DEF Init, SlotsAgree, SlotsExclusive, ComputedFilled, LoadsHold
  <1>7. StoresHold /\ StoresRead /\ StoresIssued /\ StoresDistinct /\ JobsPend
    BY DEF Init, StoresHold, StoresRead, StoresIssued, StoresDistinct, JobsPend
  <1>8. IndexFits
    BY <1>1 DEF IndexFits
  <1>9. ListsFit
    BY <1>1 DEF ListsFit, Listed
  <1>10. Collected
    BY DEF Init, Collected
  <1> QED BY <1>3, <1>4, <1>5, <1>6, <1>7, <1>8, <1>9, <1>10 DEF Placed, Engine, Slots, Stores, Lists

\* the inductive invariant, together with TypeOK, Bookkeeping and Expected
PlacedUntilReset == resets = 0 /\ pc # "dead" => Placed /\ Collected

\* What the blocks hold, and what is in flight to and from them, agrees with the
\* tables of the engine and of the connector until the first reset_cache.
THEOREM PlacedCorrect == Spec => []PlacedUntilReset
  <1>1. Init => PlacedUntilReset
    BY InitPlaced DEF PlacedUntilReset
  <1>2. TypeOK /\ TypeOK' /\ Bookkeeping /\ Expected /\ PlacedUntilReset /\ [Next]_vars => PlacedUntilReset'
    <2> SUFFICES ASSUME TypeOK, TypeOK', Bookkeeping, Expected, PlacedUntilReset, [Next]_vars,
                        resets' = 0, pc' # "dead"
                 PROVE  Placed' /\ Collected'
      BY DEF PlacedUntilReset
    <2>1. resets = 0 /\ pc # "dead"
      BY NoWayBack
    <2>2. InOrder /\ Placed /\ Collected
      BY <2>1 DEF InOrder, PlacedUntilReset
    <2> QED BY <2>2, NextPlaced, NextCollected
  <1> QED BY <1>1, <1>2, TypeCorrect, BookkeepingCorrect, ExpectedCorrect, PTL DEF Spec

-----------------------------------------------------------------------------
(***************************************************************************)
(* What follows for the blocks in flight.                                  *)
(***************************************************************************)
\* A job in flight before reset_cache is known.
LEMMA InFlightKnown ==
  ASSUME InOrder, Placed, NEW j \in JobIds, InFlight(j)
  PROVE  j \in jobs
  <1>1. left[j] \in Nat /\ done[j] \in Nat /\ Unread(j) \in Nat /\ report[j] \in Nat
    BY ReportTypes DEF InOrder
  <1>2. Outstanding(j) > 0
    BY <1>1 DEF InFlight, Outstanding
  <1>3. j >= staleJob
    BY DEF Placed, Engine, BatchFits, JobIds
  <1> QED BY <1>2, <1>3 DEF InOrder, Expected, OutstandingAreKnown

\* A store never reads a block that was refilled, for any number of requests,
\* blocks and groups: what a worker may still read for it is its request's data,
\* although the request may have ended, been preempted or left the block behind.
THEOREM StoresReadUntilReset == Spec => [](resets = 0 => StoresReadTheirData)
  <1>1. TypeOK /\ Bookkeeping /\ Expected /\ PlacedUntilReset => (resets = 0 => StoresReadTheirData)
    <2> SUFFICES ASSUME TypeOK, Bookkeeping, Expected, PlacedUntilReset, resets = 0, pc = "idle",
                        NEW j \in JobIds, InFlight(j), job[j].isStore, NEW d \in job[j].copies
                 PROVE  content[d[3]] = Data(job[j].req, d[1], d[2])
      BY DEF StoresReadTheirData, ReadsItsData
    <2>1. InOrder /\ Placed
      BY DEF InOrder, PlacedUntilReset
    <2>2. j \in jobs
      BY <2>1, InFlightKnown
    <2> QED BY <2>1, <2>2 DEF Placed, Stores, StoresRead, Flushing, InFlight
  <1> QED BY <1>1, PlacedCorrect, TypeCorrect, BookkeepingCorrect, ExpectedCorrect, PTL

\* A load never writes a block that anybody else holds or that a store still
\* reads, also when its request is aborted while the load is under way.
THEOREM LoadsOwnUntilReset == Spec => [](resets = 0 => LoadsOwnTheirBlocks)
  <1>1. TypeOK /\ Bookkeeping /\ Expected /\ PlacedUntilReset => (resets = 0 => LoadsOwnTheirBlocks)
    <2> SUFFICES ASSUME TypeOK, Bookkeeping, Expected, PlacedUntilReset, resets = 0, pc = "idle",
                        NEW j \in JobIds, InFlight(j), ~job[j].isStore, NEW d \in job[j].copies
                 PROVE  /\ \A r \in Requests : d[3] \in TableBlocks(table[r]) <=> r = job[j].req
                        /\ \A i \in JobIds : InFlight(i) /\ job[i].isStore => \A e \in job[i].copies : e[3] # d[3]
      BY DEF LoadsOwnTheirBlocks
    <2>1. InOrder /\ Placed
      BY DEF InOrder, PlacedUntilReset
    <2>2. j \in jobs
      BY <2>1, InFlightKnown
    <2>3. /\ job[j].req \in Requests /\ d[1] \in Groups /\ d[2] + 1 \in Nat /\ d[3] \in Blocks
          /\ Holds(job[j].req, d[1], d[2] + 1, d[3]) /\ content[d[3]] = Nothing
      BY <2>1, <2>2, JobTypes DEF Placed, Slots, LoadsHold
    <2>4. ASSUME NEW r \in Requests
          PROVE  d[3] \in TableBlocks(table[r]) <=> r = job[j].req
      <3>1. d[3] \in TableBlocks(table[r]) <=> \E g \in Groups, i \in Nat : Holds(r, g, i, d[3])
        BY <2>3, HeldBlocks
      <3>2. (\E g \in Groups, i \in Nat : Holds(r, g, i, d[3])) => r = job[j].req
        BY <2>1, <2>3 DEF Placed, Slots, SlotsExclusive
      <3> QED BY <2>3, <3>1, <3>2
    <2>5. ASSUME NEW i \in JobIds, InFlight(i), job[i].isStore, NEW e \in job[i].copies
          PROVE  e[3] # d[3]
      <3>1. i \in jobs
        BY <2>1, <2>5, InFlightKnown
      <3>2. content[e[3]] = Data(job[i].req, e[1], e[2])
        BY <2>1, <2>5, <3>1 DEF Placed, Stores, StoresRead, Flushing, InFlight
      <3> QED BY <2>3, <3>2, DataParts
    <2> QED BY <2>4, <2>5
  <1> QED BY <1>1, PlacedCorrect, TypeCorrect, BookkeepingCorrect, ExpectedCorrect, PTL

-----------------------------------------------------------------------------
(***************************************************************************)
(* Exceptions.  The assertions of the connector and its dictionary         *)
(* accesses are guards of Raise; each one is excluded by a part of the     *)
(* invariant, except that a load may meet a job of its request that the    *)
(* engine has not heard the end of.                                        *)
(***************************************************************************)
\* the only exception before reset_cache
PendingLoadRaised == error' = "load issued while jobs are pending"

\* An actual request never fails the checks of _build_store_jobs.
LEMMA NothingRefused ==
  ASSUME InOrder, Placed, pc = "store", NEW r \in toStore, NEW tokens \in Offloadable(r)
  PROVE  Refused(r, ChunkOf(tokens)) = "none"
  <1> SUFFICES ASSUME NEW end, end = ChunkOf(tokens) PROVE Refused(r, end) = "none"
    OBVIOUS
  <1>1. /\ r \in Requests /\ phase[r] = "running" /\ Listed(r)
        /\ computed[r] \in Nat /\ sched[r].n \in Nat
        /\ end * BlockSizeFactor \in Nat /\ end * BlockSizeFactor <= computed[r] + sched[r].n
    BY StoreRange
  <1>2. \A g \in Groups : ~(Len(blockIds[r][g]) < end * BlockSizeFactor)
    BY <1>1 DEF Placed, Lists, ListsFit
  <1>3. transferJobs[r] \subseteq jobs /\ \A j \in transferJobs[r] : job[j].req = r
    BY <1>1 DEF InOrder, Bookkeeping, JobsMatchRequests
  <1>4. \A j \in transferJobs[r] : job[j].isStore
    BY <1>1, <1>3 DEF Placed, Slots, LoadsHold
  <1> QED BY <1>2, <1>3, <1>4 DEF Refused

\* What a step flushes for a preempted request are stores it knows.
LEMMA PreemptedAreStores ==
  ASSUME InOrder, Placed
  PROVE  \A j \in FlushPreempted : j \in jobs /\ job[j].isStore
  <1> SUFFICES ASSUME NEW r \in preempted, NEW j \in transferJobs[r]
               PROVE  j \in jobs /\ job[j].isStore
    BY DEF FlushPreempted
  <1>1. r \in Requests /\ phase[r] = "waiting"
    BY DEF InOrder, TypeOK, Placed, Engine, BatchFits
  <1>2. j \in jobs /\ job[j].req = r
    BY <1>1 DEF InOrder, Bookkeeping, JobsMatchRequests
  <1> QED BY <1>1, <1>2 DEF Placed, Slots, LoadsHold

\* A job that ends is registered wherever its completion looks for it.
LEMMA CompletionIsRegistered ==
  ASSUME InOrder, Placed, NEW j \in JobIds, UpdateConnectorOutput(j), j >= staleJob
  PROVE  CompletionError(j) = "none"
  <1>1. j \in jobs /\ CompletionError(j) \in {"none", "completed job is not registered"}
    BY ReportExpected DEF InOrder
  <1>2. SWBlocks(j) \subseteq Blocks /\ FullBlocks(j) \subseteq Blocks
    BY <1>1, JobTypes DEF SWBlocks, FullBlocks
  <1>3. Registered(j) \subseteq Blocks
    BY <1>2 DEF Registered
  <1>4. job[j].isStore => \A b \in Registered(j) : j \in pendingJobs[b]
    BY <1>1, <1>3 DEF InOrder, Bookkeeping, PendingTableExact
  <1>5. job[j].isStore => ~Repeated(j)
    BY <1>1 DEF Placed, Stores, StoresDistinct
  <1> QED BY <1>1, <1>4, <1>5 DEF CompletionError

\* Without async scheduling a request that waits has no job: its stores were flushed
\* when it was preempted, and their reports read before the next step is scheduled.
LEMMA WaitingHasNoJob ==
  ASSUME InOrder, Placed, Collected, ~Async, NEW r \in Requests, Admissible(r)
  PROVE  transferJobs[r] = {}
  <1> SUFFICES ASSUME NEW j \in transferJobs[r] PROVE FALSE
    OBVIOUS
  <1>1. pc = "schedule" /\ phase[r] = "waiting" /\ preempted = {}
    BY DEF Admissible
  <1>2. j \in jobs /\ job[j].req = r
    BY DEF InOrder, Bookkeeping, JobsMatchRequests
  <1>3. job[j].isStore
    BY <1>1, <1>2 DEF Placed, Slots, LoadsHold
  <1>4. batchStores = {} /\ outputs = <<>>
    BY <1>1 DEF Placed, Engine, BatchFits
  <1>5. ~(left[j] + done[j] > 0)
    BY <1>1, <1>2, <1>3 DEF Placed, Stores, StoresHold, Finished
  <1>6. j \notin Issued
    BY <1>3, <1>4 DEF Issued, Collected
  <1>7. j \in JobIds /\ left[j] \in Nat /\ done[j] \in Nat /\ report[j] \in Nat /\ Unread(j) \in Nat
    BY <1>2, JobTypes, ReportTypes DEF InOrder
  <1>8. Unread(j) = 0
    BY <1>4 DEF Unread
  <1>9. report[j] = 0
    BY <1>1, <1>7 DEF InOrder, Bookkeeping, EngineInStep, NoReport
  <1>10. pending[j] = Outstanding(j)
    BY <1>2, <1>6 DEF InOrder, Bookkeeping, SentAreCounted
  <1>11. Outstanding(j) = 0
    BY <1>5, <1>7, <1>8, <1>9 DEF Outstanding
  <1> QED BY <1>2, <1>10, <1>11 DEF Placed, Stores, JobsPend

\* No step raises, except that a load may find jobs pending under async scheduling.
LEMMA NextRaises ==
  ASSUME InOrder, Placed, Collected, [Next]_vars
  PROVE  error' = error \/ (Async /\ PendingLoadRaised)
  <1>1. ASSUME NEW r \in Requests, Scheduling(r)
        PROVE  error' = error \/ (Async /\ PendingLoadRaised)
    <2>1. CASE AdmitWithLoad(r)
      <3>1. Admissible(r)
        BY <2>1 DEF AdmitWithLoad
      <3>2. error' = error \/ (transferJobs[r] # {} /\ PendingLoadRaised)
        BY <2>1 DEF AdmitWithLoad, Raise, PendingLoadRaised
      <3> QED BY <3>1, <3>2, WaitingHasNoJob
    <2>2. CASE NotAdmitted(r) \/ Preempt(r)
      BY <2>2 DEF NotAdmitted, Preempt
    <2>3. ASSUME NEW n \in 1 .. MaxChunk, AdmitWithoutLoad(r, n) \/ ScheduleLoaded(r, n) \/ ScheduleRunning(r, n)
          PROVE  error' = error
      BY <2>3 DEF AdmitWithoutLoad, ScheduleLoaded, ScheduleRunning
    <2> QED BY <1>1, <2>1, <2>2, <2>3 DEF Scheduling
  <1>2. ASSUME NEW r \in Requests, Calls(r)
        PROVE  error' = error
    <2>1. transferJobs[r] \subseteq jobs
      BY DEF InOrder, Bookkeeping, JobsMatchRequests
    <2> QED BY <1>2, <2>1 DEF Calls, OnNewRequest, RequestFinished
  <1>3. CASE BeginConnectorMeta
    <2>1. pc = "schedule"
      BY <1>3 DEF BeginConnectorMeta
    <2>2. ~ \E r \in Scheduled : r \notin tracked
      BY <2>1 DEF InOrder, Bookkeeping, EngineInStep, Expected, StatusOfActive, Live, Scheduled
    <2>3. /\ ~ \E j \in FlushPreempted : j \notin jobs
          /\ ~ \E j \in FlushPreempted : ~job[j].isStore
      BY PreemptedAreStores
    <2> QED BY <1>3, <2>2, <2>3 DEF BeginConnectorMeta
  <1>4. ASSUME NEW r \in Requests, StoreJobs(r)
        PROVE  error' = error
    <2>1. pc = "store" /\ r \in toStore
      BY <1>4 DEF StoreJobs
    <2>2. PICK tokens \in Offloadable(r) :
            IF r \in tracked /\ Refused(r, ChunkOf(tokens)) # "none"
            THEN Raise(Refused(r, ChunkOf(tokens)))
            ELSE IF r \in tracked THEN StoreChunks(r, ChunkOf(tokens)) ELSE SkipStore(nextStored)
      BY <1>4 DEF StoreJobs
    <2>3. Refused(r, ChunkOf(tokens)) = "none"
      BY <2>1, NothingRefused
    <2> QED BY <2>2, <2>3 DEF StoreChunks, SkipStore, IssueStore
  <1>5. ASSUME NEW j \in JobIds, UpdateConnectorOutput(j)
        PROVE  error' = error
    <2>1. j >= staleJob => CompletionError(j) = "none"
      BY <1>5, CompletionIsRegistered
    <2> QED BY <1>5, <2>1 DEF UpdateConnectorOutput
  <1>6. CASE ResetCache
    <2>1. pc = "idle"
      BY <1>6 DEF ResetCache
    <2>2. ~(batchLoads # {} \/ toFlush # {} \/ allocated # {})
      BY <2>1 DEF InOrder, Bookkeeping, IssuedAreUnsent, Issued, Placed, Engine, BatchFits
    <2> QED BY <1>6, <2>2 DEF ResetCache
  <1>7. CASE StartStep \/ EndConnectorMeta \/ TakeOutput \/ Stopped \/ UNCHANGED vars
    BY <1>7 DEF StartStep, EndConnectorMeta, TakeOutput, Stopped, vars
  <1>8. CASE \E j \in JobIds : WorkerDone(j)
    BY <1>8 DEF WorkerDone
  <1> QED BY <1>1, <1>2, <1>3, <1>4, <1>5, <1>6, <1>7, <1>8 DEF Next, EngineLoop


\* the inductive invariant: what may have been raised before reset_cache
RaisedUntilReset ==
    resets = 0 => error = "none" \/ (Async /\ error = "load issued while jobs are pending")

\* Before reset_cache no call of the engine and no report of the workers makes the
\* connector raise, in whatever order they come, except that under async scheduling
\* a load can be issued for a preempted request whose flushed stores are not yet
\* reported.
THEOREM OnlyPendingLoadRaises == Spec => []RaisedUntilReset
  <1>1. Init => RaisedUntilReset
    BY DEF Init, RaisedUntilReset
  <1>2. TypeOK /\ Bookkeeping /\ Expected /\ PlacedUntilReset /\ RaisedUntilReset /\ [Next]_vars => RaisedUntilReset'
    <2> SUFFICES ASSUME TypeOK, Bookkeeping, Expected, PlacedUntilReset, RaisedUntilReset, [Next]_vars,
                        resets' = 0
                 PROVE  error' = "none" \/ (Async /\ error' = "load issued while jobs are pending")
      BY DEF RaisedUntilReset
    <2>1. resets = 0
      BY NoWayBack
    <2>2. CASE pc = "dead"
      BY <2>1, <2>2, NothingAfterException DEF RaisedUntilReset, vars
    <2>3. CASE pc # "dead"
      <3>1. InOrder /\ Placed /\ Collected
        BY <2>1, <2>3 DEF InOrder, PlacedUntilReset
      <3> QED BY <2>1, <3>1, NextRaises DEF PendingLoadRaised, RaisedUntilReset
    <2> QED BY <2>2, <2>3
  <1> QED BY <1>1, <1>2, TypeCorrect, BookkeepingCorrect, ExpectedCorrect, PlacedCorrect, PTL DEF Spec

\* With synchronous scheduling nothing raises before reset_cache: every assertion
\* of the connector holds and every dictionary access finds its key.
THEOREM NoExceptionUntilReset ==
  ASSUME ~Async
  PROVE  Spec => [](resets = 0 => NoException)
  <1>1. RaisedUntilReset => (resets = 0 => NoException)
    BY DEF RaisedUntilReset, NoException
  <1> QED BY <1>1, OnlyPendingLoadRaises, PTL

=============================================================================
