---------------------- MODULE OffloadBookkeepingProofs ----------------------
(***************************************************************************)
(* The scheduler's tables of jobs agree with each other, with the life of  *)
(* the requests and with the reports of the workers.  Bookkeeping is the   *)
(* inductive invariant.  That pending_count counts the reports still to    *)
(* come follows from it whether or not reset_cache is called; that the     *)
(* tables are exact, until reset_cache is called.  That no report is       *)
(* unexpected, and that the scheduler implements Transfers, follows too.   *)
(***************************************************************************)
EXTENDS OffloadSchedulerProofs

-----------------------------------------------------------------------------
(***************************************************************************)
(* Steps that create no job and end none.                                  *)
(***************************************************************************)
\* A step that leaves the jobs, their counts and their tables alone keeps the
\* bookkeeping if no request ends, reports only move and the engine's loop and
\* the statuses stay in order.
LEMMA KeptTables ==
  ASSUME TypeOK, Bookkeeping,
         UNCHANGED <<transferJobs, jobs, job, pending, pendingJobs, jobCounter,
                     batchLoads, batchStores, staleJob, resets>>,
         \A r \in Requests : Finished(r)' <=> Finished(r),
         pc' \in {"idle", "output"} => pc \in {"idle", "output"},
         \A j \in JobIds : Outstanding(j)' = Outstanding(j),
         EngineInStep', resets = 0 => StatusKept'
  PROVE  Bookkeeping'
  <1>1. JobsAreIssued' /\ JobsAreOwned'
    BY DEF Bookkeeping, JobsAreIssued, JobsAreOwned
  <1>2. IssuedAreUnsent' /\ SentAreCounted'
    BY DEF Bookkeeping, IssuedAreUnsent, SentAreCounted, Issued, TypeOK
  <1>3. resets = 0 => JobsMatchRequests'
    BY DEF Bookkeeping, JobsMatchRequests
  <1>4. ASSUME resets = 0 PROVE PendingTableExact'
    <2>1. \A j \in jobs : Registered(j)' = Registered(j)
      <3> TAKE j \in jobs
      <3>1. job[j].req \in Requests
        BY DEF Bookkeeping, JobsAreIssued
      <3>2. SWBlocks(j)' = SWBlocks(j) /\ FullBlocks(j)' = FullBlocks(j)
        BY DEF SWBlocks, FullBlocks
      <3>3. Finished(job[j].req)' <=> Finished(job[j].req)
        BY <3>1 DEF Finished
      <3> QED BY <3>2, <3>3 DEF Registered
    <2> QED BY <1>4, <2>1 DEF Bookkeeping, PendingTableExact
  <1> QED BY <1>1, <1>2, <1>3, <1>4 DEF Bookkeeping

\* A step that neither starts nor ends a job, a request or a report.
LEMMA QuietStep ==
  ASSUME TypeOK, Bookkeeping,
         UNCHANGED <<tracked, transferJobs, jobs, job, pending, pendingJobs, jobCounter,
                     batchLoads, batchStores, workerVars, staleJob, resets>>,
         \A r \in Requests : (Finished(r)' <=> Finished(r)) /\ (Live(r)' <=> Live(r)),
         pc' \in {"idle", "output"} => pc \in {"idle", "output"},
         EngineInStep'
  PROVE  Bookkeeping'
  <1>1. \A j \in JobIds : Outstanding(j)' = Outstanding(j)
    BY DEF Outstanding, Unread, workerVars
  <1>2. resets = 0 => StatusKept'
    BY DEF Bookkeeping, StatusKept
  <1> QED BY <1>1, <1>2, KeptTables

\* An exception stops the engine and changes nothing else.
LEMMA RaiseBookkeeping ==
  ASSUME TypeOK, Bookkeeping, pc' = "dead",
         UNCHANGED <<engineVars, requestVars, jobVars, batchVars, workerVars, managerVars,
                     staleJob, loading, resets>>
  PROVE  Bookkeeping'
  <1>1. EngineInStep'
    BY DEF Bookkeeping, EngineInStep, batchVars, workerVars
  <1>2. \A r \in Requests : (Finished(r)' <=> Finished(r)) /\ (Live(r)' <=> Live(r))
    BY DEF Finished, Live, engineVars
  <1> QED
    BY <1>1, <1>2, QuietStep DEF engineVars, requestVars, jobVars, batchVars, workerVars

\* The steps of schedule() that only move blocks.
LEMMA SchedulingBookkeeping ==
  ASSUME TypeOK, Bookkeeping, NEW r \in Requests,
         pc = "schedule", pc' = "schedule", phase[r] \in Phases \ {"unborn", "finished"},
         \/ phase' = phase
         \/ \E p \in {"waiting", "running"} : phase' = [phase EXCEPT ![r] = p],
         \/ sched' = sched /\ (phase' = phase \/ sched[r].n = 0)
         \/ \E n \in Nat, fresh \in BOOLEAN, t \in Tables :
               /\ sched' = [sched EXCEPT ![r] = [n |-> n, fresh |-> fresh, new |-> t]]
               /\ phase'[r] = "running",
         UNCHANGED <<tracked, transferJobs, jobs, job, pending, pendingJobs, jobCounter,
                     batchLoads, batchStores, workerVars, staleJob, resets>>
  PROVE  Bookkeeping'
  <1>1. \A q \in Requests : (Finished(q)' <=> Finished(q)) /\ (Live(q)' <=> Live(q))
    BY DEF Finished, Live, TypeOK, Phases
  <1>2. EngineInStep'
    <2>1. \A q \in Scheduled' : phase'[q] = "running"
      <3>1. \A q \in Scheduled : phase[q] = "running"
        BY DEF Bookkeeping, EngineInStep
      <3>2. CASE sched' = sched /\ (phase' = phase \/ sched[r].n = 0)
        BY <3>1, <3>2 DEF Scheduled, TypeOK
      <3>3. CASE \E n \in Nat, fresh \in BOOLEAN, t \in Tables :
                   /\ sched' = [sched EXCEPT ![r] = [n |-> n, fresh |-> fresh, new |-> t]]
                   /\ phase'[r] = "running"
        BY <3>1, <3>3 DEF Scheduled, TypeOK
      <3> QED BY <3>2, <3>3
    <2> QED
      BY <2>1 DEF Bookkeeping, EngineInStep, workerVars
  <1> QED
    BY <1>1, <1>2, QuietStep

\* Admitting a request without a load touches no job.
LEMMA AdmitWithoutLoadBookkeeping ==
  ASSUME TypeOK, Bookkeeping, NEW r \in Requests, NEW n \in 1 .. MaxChunk, AdmitWithoutLoad(r, n)
  PROVE  Bookkeeping'
  <1>1. PICK local \in 0 .. PromptLen : AdmitWithoutLoad(r, n)!(local)
    BY DEF AdmitWithoutLoad
  <1>2. PICK t \in TablesFor(r, local, local, local + n) : StartOn(r, t, local, n)
    BY <1>1
  <1>3. t \in Tables /\ sched' = [sched EXCEPT ![r] = [n |-> n, fresh |-> TRUE, new |-> t]]
    BY <1>2, TablesForType, CountsAssumption DEF StartOn
  <1>4. phase' = [phase EXCEPT ![r] = "running"] /\ phase[r] = "waiting" /\ pc = "schedule"
    BY <1>1, <1>2 DEF Admissible, StartOn
  <1>5. /\ pc' = pc
        /\ UNCHANGED <<tracked, transferJobs, jobs, job, pending, pendingJobs, jobCounter,
                       batchLoads, batchStores, workerVars, staleJob, resets>>
    BY <1>1 DEF jobVars, batchVars
  <1>6. phase'[r] = "running" /\ n \in Nat /\ phase[r] \in Phases \ {"unborn", "finished"}
    BY <1>4, CountsAssumption DEF TypeOK, Phases
  <1> QED
    BY <1>2, <1>3, <1>4, <1>5, <1>6, SchedulingBookkeeping

\* Scheduling a request whose load arrived touches no job.
LEMMA ScheduleLoadedBookkeeping ==
  ASSUME TypeOK, Bookkeeping, NEW r \in Requests, NEW n \in 1 .. MaxChunk, ScheduleLoaded(r, n)
  PROVE  Bookkeeping'
  <1>1. PICK e \in Extensions(r, n) :
          sched' = [sched EXCEPT ![r] = [n |-> n, fresh |-> TRUE, new |-> Concat(Skipped(r), e)]]
    BY DEF ScheduleLoaded
  <1>2. Concat(Skipped(r), e) \in Tables
    BY ExtensionsType, SkippedType, ConcatType, CountsAssumption DEF TypeOK
  <1>3. phase' = [phase EXCEPT ![r] = "running"] /\ phase[r] = "loaded" /\ pc = "schedule"
    BY DEF ScheduleLoaded
  <1>4. /\ pc' = pc
        /\ UNCHANGED <<tracked, transferJobs, jobs, job, pending, pendingJobs, jobCounter,
                       batchLoads, batchStores, workerVars, staleJob, resets>>
    BY DEF ScheduleLoaded, requestVars, jobVars, batchVars
  <1>5. phase'[r] = "running" /\ n \in Nat /\ phase[r] \in Phases \ {"unborn", "finished"}
    BY <1>3, CountsAssumption DEF TypeOK, Phases
  <1> QED
    BY <1>1, <1>2, <1>3, <1>4, <1>5, SchedulingBookkeeping

\* Scheduling a running request touches no job.
LEMMA ScheduleRunningBookkeeping ==
  ASSUME TypeOK, Bookkeeping, NEW r \in Requests, NEW n \in 1 .. MaxChunk, ScheduleRunning(r, n)
  PROVE  Bookkeeping'
  <1>1. PICK e \in Extensions(r, n) :
          sched' = [sched EXCEPT ![r] = [n |-> n, fresh |-> FALSE, new |-> e]]
    BY DEF ScheduleRunning
  <1>2. e \in Tables
    BY ExtensionsType, CountsAssumption DEF TypeOK
  <1>3. phase' = phase /\ phase[r] = "running" /\ pc = "schedule"
    BY DEF ScheduleRunning
  <1>4. /\ pc' = pc
        /\ UNCHANGED <<tracked, transferJobs, jobs, job, pending, pendingJobs, jobCounter,
                       batchLoads, batchStores, workerVars, staleJob, resets>>
    BY DEF ScheduleRunning, requestVars, jobVars, batchVars
  <1>5. phase'[r] = "running" /\ n \in Nat /\ phase[r] \in Phases \ {"unborn", "finished"}
    BY <1>3, CountsAssumption DEF TypeOK, Phases
  <1> QED
    BY <1>1, <1>2, <1>3, <1>4, <1>5, SchedulingBookkeeping

\* A preempted request keeps its jobs.
LEMMA PreemptBookkeeping ==
  ASSUME TypeOK, Bookkeeping, NEW r \in Requests, Preempt(r)
  PROVE  Bookkeeping'
  <1>1. /\ phase' = [phase EXCEPT ![r] = "waiting"] /\ phase[r] = "running"
        /\ sched' = sched /\ sched[r].n = 0
        /\ pc = "schedule" /\ pc' = "schedule"
        /\ UNCHANGED <<tracked, transferJobs, jobs, job, pending, pendingJobs, jobCounter,
                       batchLoads, batchStores, toStore, workerVars, staleJob, resets>>
    BY DEF Preempt, requestVars, jobVars, batchVars
  <1>2. phase[r] \in Phases \ {"unborn", "finished"}
    BY <1>1 DEF TypeOK, Phases
  <1> QED
    BY <1>1, <1>2, SchedulingBookkeeping

\* A step only begins when at most one earlier report is unread.
LEMMA StartStepBookkeeping ==
  ASSUME TypeOK, Bookkeeping, StartStep
  PROVE  Bookkeeping'
  <1>1. /\ pc = "idle" /\ pc' = "schedule"
        /\ Len(outputs) < 2
        /\ UNCHANGED <<phase, sched, outputs, report, toStore>>
        /\ UNCHANGED <<tracked, transferJobs, jobs, job, pending, pendingJobs, jobCounter,
                       batchLoads, batchStores, workerVars, staleJob, resets>>
    BY DEF StartStep, TypeOK, requestVars, jobVars, batchVars, workerVars
  <1>2. EngineInStep'
    BY <1>1 DEF Bookkeeping, EngineInStep, Scheduled, TypeOK
  <1>3. \A q \in Requests : (Finished(q)' <=> Finished(q)) /\ (Live(q)' <=> Live(q))
    BY <1>1 DEF Finished, Live
  <1> QED
    BY <1>1, <1>2, <1>3, QuietStep

\* A request that is put off keeps its jobs.
LEMMA NotAdmittedBookkeeping ==
  ASSUME TypeOK, Bookkeeping, NEW r \in Requests, NotAdmitted(r)
  PROVE  Bookkeeping'
  <1>1. /\ UNCHANGED <<pc, phase, sched, outputs, report, toStore>>
        /\ UNCHANGED <<tracked, transferJobs, jobs, job, pending, pendingJobs, jobCounter,
                       batchLoads, batchStores, workerVars, staleJob, resets>>
    BY DEF NotAdmitted, engineVars, jobVars, batchVars, workerVars
  <1>2. EngineInStep'
    BY <1>1 DEF Bookkeeping, EngineInStep, Scheduled
  <1>3. \A q \in Requests : (Finished(q)' <=> Finished(q)) /\ (Live(q)' <=> Live(q))
    BY <1>1 DEF Finished, Live
  <1> QED
    BY <1>1, <1>2, <1>3, QuietStep

\* _update_req_states leaves the jobs alone.
LEMMA BeginConnectorMetaBookkeeping ==
  ASSUME TypeOK, Bookkeeping, BeginConnectorMeta
  PROVE  Bookkeeping'
  <1>1. CASE pc' = "dead"
    BY <1>1, RaiseBookkeeping DEF BeginConnectorMeta, Raise
  <1>2. CASE pc' # "dead"
    <2>1. /\ pc = "schedule" /\ pc' = "store"
          /\ toStore' = Scheduled
          /\ UNCHANGED <<phase, sched, outputs, report>>
          /\ UNCHANGED <<tracked, transferJobs, jobs, job, pending, pendingJobs, jobCounter,
                         batchLoads, batchStores, workerVars, staleJob, resets>>
      BY <1>2 DEF BeginConnectorMeta, Raise, engineVars, jobVars, workerVars
    <2>2. EngineInStep'
      BY <2>1 DEF Bookkeeping, EngineInStep, Scheduled
    <2>3. \A q \in Requests : (Finished(q)' <=> Finished(q)) /\ (Live(q)' <=> Live(q))
      BY <2>1 DEF Finished, Live
    <2> QED
      BY <2>1, <2>2, <2>3, QuietStep
  <1> QED BY <1>1, <1>2

-----------------------------------------------------------------------------
(***************************************************************************)
(* Steps that create a job.                                                *)
(***************************************************************************)
\* A new job of a live request keeps the bookkeeping if it is handed to the
\* workers with this step, is alone or a store among stores, and if its
\* sliding-window blocks are registered.
LEMMA NewJobBookkeeping ==
  ASSUME TypeOK, Bookkeeping, NEW r \in Requests, NEW isStore \in BOOLEAN,
         NEW keys \in SUBSET Keys, NEW copies \in SUBSET Copy,
         jobCounter < MaxJobs, NewJob(r, isStore, keys, copies), Live(r),
         IF isStore THEN \A j \in transferJobs[r] : job[j].isStore ELSE transferJobs[r] = {},
         pc \in {"schedule", "store"}, pc' = pc, Issued' = Issued \cup {jobCounter},
         \A b \in Blocks : pendingJobs'[b] =
           IF isStore /\ \E d \in copies : d[1] \in SWGroups /\ d[3] = b
           THEN pendingJobs[b] \cup {jobCounter} ELSE pendingJobs[b],
         \A q \in Requests : (Finished(q)' <=> Finished(q)) /\ (Live(q)' <=> Live(q)),
         UNCHANGED <<tracked, workerVars, staleJob, resets>>, EngineInStep'
  PROVE  Bookkeeping'
  <1>1. PICK n \in JobIds : n = jobCounter
    BY CountsAssumption DEF TypeOK, JobIds
  <1>2. n \in JobIds /\ n \in Nat /\ n \notin jobs
    BY <1>1, CountsAssumption DEF TypeOK, JobIds, Bookkeeping, JobsAreIssued
  <1>3. /\ jobCounter' = n + 1
        /\ jobs' = jobs \cup {n}
        /\ pending' = [pending EXCEPT ![n] = NumWorkers]
        /\ transferJobs' = [transferJobs EXCEPT ![r] = @ \cup {n}]
    BY <1>1 DEF NewJob, ReportsExpected
  <1>4. /\ job'[n].req = r /\ job'[n].isStore = isStore /\ job'[n].copies = copies
        /\ \A j \in JobIds \ {n} : job'[j] = job[j]
    BY <1>1, <1>2 DEF NewJob, TypeOK
  <1>5. \A j \in JobIds : Outstanding(j)' = Outstanding(j)
    BY DEF Outstanding, Unread, workerVars
  <1>6. Outstanding(n) = 0
    BY <1>1, <1>2 DEF Bookkeeping, JobsAreIssued
  <1>7. \A j \in jobs : j \in JobIds /\ j \in Nat /\ j < n /\ job'[j] = job[j] /\ pending'[j] = pending[j]
    BY <1>1, <1>2, <1>3, <1>4 DEF TypeOK, JobIds, Counts, Bookkeeping, JobsAreIssued
  <1>8. pending'[n] = NumWorkers
    BY <1>2, <1>3 DEF TypeOK, Counts
  <1>9. JobsAreIssued'
    <2>1. \A j \in jobs : staleJob <= j /\ j < n + 1 /\ job'[j].req \in Requests
      BY <1>2, <1>7 DEF Bookkeeping, JobsAreIssued
    <2>2. staleJob <= n /\ n < n + 1 /\ job'[n].req \in Requests
      BY <1>1, <1>2, <1>4 DEF Bookkeeping, JobsAreIssued
    <2>3. \A j \in JobIds : j >= n + 1 => Outstanding(j) = 0
      BY <1>1, <1>2 DEF Bookkeeping, JobsAreIssued, JobIds
    <2>4. staleJob <= n + 1
      BY <1>1, <1>2 DEF Bookkeeping, JobsAreIssued, TypeOK
    <2> QED BY <1>3, <1>5, <2>1, <2>3, <2>2, <2>4 DEF JobsAreIssued
  <1>10. IssuedAreUnsent'
    <2>1. \A j \in Issued : j \in jobs /\ pending[j] = NumWorkers /\ Outstanding(j) = 0
      BY DEF Bookkeeping, IssuedAreUnsent
    <2> QED
      BY <1>1, <1>2, <1>3, <1>5, <1>6, <1>7, <1>8, <2>1 DEF IssuedAreUnsent
  <1>11. SentAreCounted'
    <2>1. \A j \in jobs' \ Issued' : j \in jobs \ Issued
      BY <1>1, <1>3
    <2> QED
      BY <1>5, <1>7, <2>1 DEF Bookkeeping, SentAreCounted
  <1>12. JobsAreOwned'
    <2>1. \A j \in jobs' : j \in transferJobs'[job'[j].req]
      <3>1. n \in transferJobs'[r]
        BY <1>3 DEF TypeOK
      <3>2. \A q \in Requests : transferJobs[q] \subseteq transferJobs'[q]
        BY <1>3 DEF TypeOK
      <3>3. \A j \in jobs : job'[j].req = job[j].req /\ job[j].req \in Requests /\ j \in transferJobs[job[j].req]
        BY <1>7 DEF Bookkeeping, JobsAreOwned, JobsAreIssued
      <3>4. \A j \in jobs : j \in transferJobs'[job'[j].req]
        BY <3>2, <3>3
      <3> QED BY <1>3, <1>4, <3>1, <3>4
    <2>2. \A j \in jobs : job[j].req = r => isStore /\ job[j].isStore
      BY DEF Bookkeeping, JobsAreOwned
    <2>3. \A i, j \in jobs : i # j /\ job'[i].req = job'[j].req => job'[i].isStore
      BY <1>7 DEF Bookkeeping, JobsAreOwned
    <2>4. \A i, j \in jobs' : i # j /\ job'[i].req = job'[j].req => job'[i].isStore
      BY <1>3, <1>4, <1>7, <2>2, <2>3
    <2> QED BY <2>1, <2>4 DEF JobsAreOwned
  <1>13. ASSUME resets = 0 PROVE JobsMatchRequests'
    <2> SUFFICES ASSUME NEW q \in Requests
                 PROVE  /\ transferJobs'[q] = {j \in jobs' : job'[j].req = q}
                        /\ \/ \A j \in transferJobs'[q] : job'[j].isStore
                           \/ \E j \in transferJobs'[q] : transferJobs'[q] = {j}
      BY DEF JobsMatchRequests
    <2>1. /\ transferJobs[q] = {j \in jobs : job[j].req = q}
          /\ \/ \A j \in transferJobs[q] : job[j].isStore
             \/ \E j \in transferJobs[q] : transferJobs[q] = {j}
      BY <1>13 DEF Bookkeeping, JobsMatchRequests
    <2>2. CASE q = r
      <3>1. transferJobs'[r] = transferJobs[r] \cup {n}
        BY <1>3 DEF TypeOK
      <3> QED BY <1>2, <1>3, <1>4, <1>7, <2>1, <2>2, <3>1
    <2>3. CASE q # r
      <3>1. transferJobs'[q] = transferJobs[q]
        BY <1>3, <2>3 DEF TypeOK
      <3> QED BY <1>2, <1>3, <1>4, <1>7, <2>1, <2>3, <3>1
    <2> QED BY <2>2, <2>3
  <1>14. ASSUME resets = 0 PROVE PendingTableExact'
    <2>1. \A j \in jobs : Registered(j)' = Registered(j)
      <3> TAKE j \in jobs
      <3>1. job'[j] = job[j] /\ job[j].req \in Requests
        BY <1>7 DEF Bookkeeping, JobsAreIssued
      <3> QED BY <3>1 DEF Registered, SWBlocks, FullBlocks
    <2>2. \A b : b \in Registered(n)' <=> \E d \in copies : d[1] \in SWGroups /\ d[3] = b
      <3>1. ~Finished(r)'
        BY DEF Finished, Live
      <3>2. Registered(n)' = SWBlocks(n)'
        BY <1>4, <3>1 DEF Registered, Finished
      <3>3. SWBlocks(n)' = {c[3] : c \in {d \in copies : d[1] \in SWGroups}}
        BY <1>4 DEF SWBlocks
      <3> QED BY <3>2, <3>3
    <2>3. \A j \in jobs : job'[j].isStore = job[j].isStore
      BY <1>7
    <2> SUFFICES ASSUME NEW b \in Blocks
                 PROVE  pendingJobs'[b] = {j \in jobs' : job'[j].isStore /\ b \in Registered(j)'}
      BY DEF PendingTableExact
    <2>4. pendingJobs[b] = {j \in jobs : job[j].isStore /\ b \in Registered(j)}
      BY <1>14 DEF Bookkeeping, PendingTableExact
    <2>5. {j \in jobs : job'[j].isStore /\ b \in Registered(j)'} = pendingJobs[b]
      BY <2>1, <2>3, <2>4
    <2>6. {j \in jobs' : job'[j].isStore /\ b \in Registered(j)'} =
            pendingJobs[b] \cup {j \in {n} : job'[j].isStore /\ b \in Registered(j)'}
      BY <1>3, <2>5
    <2>7. {j \in {n} : job'[j].isStore /\ b \in Registered(j)'} =
            IF isStore /\ \E d \in copies : d[1] \in SWGroups /\ d[3] = b THEN {n} ELSE {}
      BY <1>4, <2>2
    <2> QED BY <1>1, <2>6, <2>7
  <1>15. ASSUME resets = 0 PROVE StatusKept'
    <2> SUFFICES ASSUME NEW q \in Requests
                 PROVE  q \in tracked' <=> Live(q)' \/ (Finished(q)' /\ transferJobs'[q] # {})
      BY DEF StatusKept
    <2>1. q \in tracked <=> Live(q) \/ (Finished(q) /\ transferJobs[q] # {})
      BY <1>15 DEF Bookkeeping, StatusKept
    <2>2. q # r => transferJobs'[q] = transferJobs[q]
      BY <1>3 DEF TypeOK
    <2> QED BY <2>1, <2>2
  <1> QED
    BY <1>9, <1>10, <1>11, <1>13, <1>14, <1>15, <1>12 DEF Bookkeeping

\* update_state_after_alloc issues a load that is alone, or raises.
LEMMA AdmitWithLoadBookkeeping ==
  ASSUME TypeOK, Bookkeeping, NEW r \in Requests, AdmitWithLoad(r)
  PROVE  Bookkeeping'
  <1>1. PICK local \in 0 .. PromptLen : \E c \in LoadableChunks(r, local) : AdmitWithLoad(r)!(local)!(c)
    BY DEF AdmitWithLoad
  <1>2. PICK c \in LoadableChunks(r, local) : AdmitWithLoad(r)!(local)!(c)
    BY <1>1
  <1> DEFINE hit == c * BlockSizeFactor
  <1>3. c \in Nat /\ hit \in Nat /\ local \in Nat
    BY CountsAssumption DEF LoadableChunks
  <1>4. PICK t \in TablesFor(r, local, hit, hit) :
           IF transferJobs[r] # {}
           THEN Raise("load issued while jobs are pending")
           ELSE /\ IssueLoad(r, t, local, c)
                /\ phase' = [phase EXCEPT ![r] = "loading"]
                /\ UNCHANGED <<pc, sched, tracked, workerVars, staleJob, resets>>
    BY <1>2 DEF LoadInto
  <1>5. CASE transferJobs[r] # {}
    BY <1>4, <1>5, RaiseBookkeeping DEF Raise
  <1>6. CASE transferJobs[r] = {}
    <2> DEFINE copies == LoadCopies(t, local, hit)
               keys   == LoadKeys(r, copies, c)
    <2>1. copies \in SUBSET Copy /\ keys \in SUBSET Keys
      BY <1>3, LoadCopiesType, LoadKeysType
    <2>2. /\ NewJob(r, FALSE, keys, copies) /\ jobCounter < MaxJobs
          /\ batchLoads' = batchLoads \cup {jobCounter}
          /\ UNCHANGED <<pendingJobs, batchStores, toStore>>
      BY <1>2, <1>4, <1>6 DEF IssueLoad
    <2>3. phase' = [phase EXCEPT ![r] = "loading"] /\ phase[r] = "waiting"
          /\ pc = "schedule" /\ sched[r].n = 0
      BY <1>2, <1>4, <1>6 DEF Admissible
    <2>4. UNCHANGED <<pc, sched, tracked, workerVars, staleJob, resets>>
      BY <1>4, <1>6
    <2> HIDE DEF copies, keys, hit
    <2>5. \A q \in Requests : (Finished(q)' <=> Finished(q)) /\ (Live(q)' <=> Live(q))
      BY <2>3 DEF Finished, Live, TypeOK
    <2>6. EngineInStep'
      <3>1. r \notin Scheduled
        BY <2>3 DEF Scheduled
      <3>2. Scheduled' = Scheduled
        BY <2>4 DEF Scheduled
      <3>3. \A q \in Scheduled : phase'[q] = phase[q]
        BY <2>3, <3>1 DEF TypeOK, Scheduled
      <3> QED
        BY <2>2, <2>3, <2>4, <3>2, <3>3 DEF Bookkeeping, EngineInStep, workerVars
    <2>7. Issued' = Issued \cup {jobCounter} /\ Live(r)
      BY <2>2, <2>3 DEF Issued, Live
    <2> QED
      BY <1>6, <2>1, <2>2, <2>3, <2>4, <2>5, <2>6, <2>7, NewJobBookkeeping
  <1> QED BY <1>5, <1>6

\* The store jobs of one request, once its checks are passed.
LEMMA StoreChunksBookkeeping ==
  ASSUME TypeOK, Bookkeeping, NEW r \in Requests, NEW end \in Nat, r \in toStore, pc = "store",
         StoreChunks(r, end), Refused(r, end) = "none",
         UNCHANGED <<pc, engineVars, tracked, blockIds, batchLoads, toFlush, allocated,
                     workerVars, staleJob, loading, resets>>,
         toStore' = toStore \ {r}
  PROVE  Bookkeeping'
  <1> DEFINE new  == {Key(r, s[1], s[2]) : s \in NewChunks(r, end)}
             keys == new \ Held
             copies == StoreCopies(r, end, keys)
  <1>1. \A q \in Requests : (Finished(q)' <=> Finished(q)) /\ (Live(q)' <=> Live(q))
    BY DEF Finished, Live, engineVars
  <1>2. EngineInStep'
    BY DEF Bookkeeping, EngineInStep, Scheduled, engineVars, workerVars
  <1>3. ASSUME NEW next, SkipStore(next) PROVE Bookkeeping'
    BY <1>1, <1>2, <1>3, QuietStep DEF SkipStore, jobVars
  <1>4. ASSUME keys # {}, Evictions(new) # {}, NEW evicted \in Evictions(new),
               IssueStore(r, end, keys, evicted)
        PROVE  Bookkeeping'
    <2>1. keys \in SUBSET Keys /\ copies \in SUBSET Copy
      BY StoreCopiesType DEF NewChunks, Key, Keys, Prompts
    <2>2. jobCounter < MaxJobs
      BY <1>4, CountsAssumption DEF Evictions, TypeOK
    <2>3. \A j \in transferJobs[r] : job[j].isStore
      BY <1>4 DEF Refused
    <2> HIDE DEF new, keys
    <2>4. /\ NewJob(r, TRUE, keys, copies)
          /\ batchStores' = batchStores \cup {jobCounter}
          /\ pendingJobs' = [b \in Blocks |->
               IF \E d \in copies : d[1] \in SWGroups /\ d[3] = b
               THEN pendingJobs[b] \cup {jobCounter} ELSE pendingJobs[b]]
      BY <1>4 DEF IssueStore
    <2> HIDE DEF copies
    <2>5. Issued' = Issued \cup {jobCounter}
      BY <2>4 DEF Issued
    <2>6. Live(r)
      BY DEF Bookkeeping, EngineInStep, Live
    <2> QED
      BY <1>1, <1>2, <2>1, <2>2, <2>3, <2>4, <2>5, <2>6, NewJobBookkeeping
  <1> QED BY <1>3, <1>4 DEF StoreChunks

\* An iteration of _build_store_jobs issues a store among stores, or raises.
LEMMA StoreJobsBookkeeping ==
  ASSUME TypeOK, Bookkeeping, NEW r \in Requests, StoreJobs(r)
  PROVE  Bookkeeping'
  <1>1. PICK tokens \in Offloadable(r) : StoreJobs(r)!2!(tokens)
    BY DEF StoreJobs
  <1> DEFINE end == ChunkOf(tokens)
  <1>2. CASE r \in tracked /\ Refused(r, end) # "none"
    BY <1>1, <1>2, RaiseBookkeeping DEF Raise
  <1>3. CASE ~(r \in tracked /\ Refused(r, end) # "none")
    <2>1. /\ IF r \in tracked THEN StoreChunks(r, end) ELSE SkipStore(nextStored)
          /\ toStore' = toStore \ {r}
          /\ UNCHANGED <<pc, engineVars, tracked, blockIds, batchLoads, toFlush, allocated,
                         workerVars, staleJob, loading, resets>>
      BY <1>1, <1>3
    <2>2. end \in Nat
      <3>1. tokens \in Nat
        BY CountsAssumption DEF Offloadable, TypeOK, AtMost, AtLeast0
      <3> QED BY <3>1, CountsAssumption DEF ChunkOf
    <2>3. pc = "store" /\ r \in toStore
      BY DEF StoreJobs
    <2>4. CASE r \in tracked
      BY <1>3, <2>1, <2>2, <2>3, <2>4, StoreChunksBookkeeping
    <2>5. CASE r \notin tracked
      <3>1. \A q \in Requests : (Finished(q)' <=> Finished(q)) /\ (Live(q)' <=> Live(q))
        BY <2>1 DEF Finished, Live, engineVars
      <3>2. EngineInStep'
        BY <2>1, <2>3 DEF Bookkeeping, EngineInStep, Scheduled, engineVars, workerVars
      <3> QED
        BY <2>1, <2>5, <3>1, <3>2, QuietStep DEF SkipStore, jobVars
    <2> QED BY <2>4, <2>5
  <1> QED BY <1>2, <1>3

-----------------------------------------------------------------------------
(***************************************************************************)
(* Reports: the workers', the engine's, and the end of jobs.               *)
(***************************************************************************)
\* Counts that add up to nothing are all zero.
LEMMA ZeroSum ==
  \A a, b, c, d \in Nat : a + b + c + d = 0 => a = 0 /\ b = 0 /\ c = 0 /\ d = 0
  OBVIOUS

\* The lengths outputs can have.
LEMMA UpToTwo ==
  \A n \in Nat : (n <= 1 => n = 0 \/ n = 1) /\ (n <= 2 /\ n # 0 => n = 1 \/ n = 2)
  OBVIOUS

\* The second of two reports is the first of the rest.
LEMMA TailOfTwo ==
  ASSUME NEW s \in Seq(Counts), Len(s) = 2
  PROVE  Len(Tail(s)) = 1 /\ Tail(s)[1] = s[2] /\ s[2] \in Counts
  OBVIOUS

\* A step's report joins the unread ones.
LEMMA UnreadAppend ==
  ASSUME TypeOK, Len(outputs) <= 1, NEW rep \in Counts, outputs' = Append(outputs, rep)
  PROVE  Len(outputs') <= 2 /\ \A j \in JobIds : Unread(j)' = Unread(j) + rep[j]
  <1>1. outputs \in Seq(Counts)
    BY DEF TypeOK
  <1>2. Len(outputs') = Len(outputs) + 1
    BY <1>1
  <1>3. Len(outputs) \in Nat
    BY <1>1
  <1>4. \A j \in JobIds : rep[j] \in Nat
    BY DEF Counts
  <1>5. CASE Len(outputs) = 0
    <2>1. Len(outputs') = 1 /\ outputs'[1] = rep
      BY <1>1, <1>2, <1>5
    <2>2. \A j \in JobIds : Unread(j) = 0
      BY <1>5 DEF Unread
    <2>3. \A j \in JobIds : Unread(j)' = rep[j]
      BY <1>4, <2>1 DEF Unread
    <2> QED BY <1>4, <2>1, <2>2, <2>3
  <1>6. CASE Len(outputs) = 1
    <2>1. Len(outputs') = 2 /\ outputs'[1] = outputs[1] /\ outputs'[2] = rep
      BY <1>1, <1>2, <1>6
    <2>2. \A j \in JobIds : outputs[1][j] \in Nat
      BY <1>1, <1>6 DEF Counts
    <2>3. \A j \in JobIds : Unread(j) = outputs[1][j]
      BY <1>6, <2>2 DEF Unread
    <2>4. \A j \in JobIds : Unread(j)' = outputs[1][j] + rep[j]
      BY <2>1 DEF Unread
    <2> QED BY <2>1, <2>3, <2>4
  <1>7. Len(outputs) = 0 \/ Len(outputs) = 1
    BY <1>3, UpToTwo
  <1> QED BY <1>5, <1>6, <1>7

\* Reading the oldest report takes it from the unread ones.
LEMMA UnreadTail ==
  ASSUME TypeOK, Len(outputs) <= 2, outputs # <<>>, outputs' = Tail(outputs)
  PROVE  Len(outputs') <= 2 /\ \A j \in JobIds : Unread(j) = Unread(j)' + Head(outputs)[j]
  <1>1. outputs \in Seq(Counts)
    BY DEF TypeOK
  <1>2. Len(outputs) \in Nat /\ Len(outputs) # 0
    BY <1>1
  <1>3. Head(outputs) = outputs[1] /\ \A j \in JobIds : outputs[1][j] \in Nat
    BY <1>1, <1>2 DEF Counts
  <1>4. CASE Len(outputs) = 1
    <2>1. Len(outputs') = 0
      BY <1>1, <1>4
    <2>2. \A j \in JobIds : Unread(j) = outputs[1][j]
      BY <1>3, <1>4 DEF Unread
    <2>3. \A j \in JobIds : Unread(j)' = 0
      BY <2>1 DEF Unread
    <2> QED BY <1>3, <2>1, <2>2, <2>3
  <1>5. CASE Len(outputs) = 2
    <2>1. Len(outputs') = 1 /\ outputs'[1] = outputs[2]
      BY <1>1, <1>5, TailOfTwo
    <2>2. \A j \in JobIds : outputs[2][j] \in Nat
      <3>1. outputs[2] \in Counts
        BY <1>1, <1>5, TailOfTwo
      <3> QED BY <3>1 DEF Counts
    <2>3. \A j \in JobIds : Unread(j) = outputs[1][j] + outputs[2][j]
      BY <1>5 DEF Unread
    <2>4. \A j \in JobIds : Unread(j)' = outputs[2][j]
      BY <2>1, <2>2 DEF Unread
    <2> QED BY <1>3, <2>1, <2>2, <2>3, <2>4
  <1>6. Len(outputs) = 1 \/ Len(outputs) = 2
    BY <1>2, UpToTwo
  <1> QED BY <1>4, <1>5, <1>6

\* The sums of reports are natural numbers.
LEMMA ReportTypes ==
  ASSUME TypeOK, NEW j \in JobIds
  PROVE  left[j] \in Nat /\ done[j] \in Nat /\ report[j] \in Nat /\ pending[j] \in Nat /\ Unread(j) \in Nat
  <1>1. left[j] \in Nat /\ done[j] \in Nat /\ report[j] \in Nat /\ pending[j] \in Nat
    BY DEF TypeOK, Counts
  <1>2. Len(outputs) >= 1 => outputs[1][j] \in Nat
    BY DEF TypeOK, Counts
  <1>3. Len(outputs) >= 2 => outputs[2][j] \in Nat
    BY DEF TypeOK, Counts
  <1> QED BY <1>1, <1>2, <1>3 DEF Unread

\* The end of a step starts the reports of its own jobs and moves the others.
LEMMA EndConnectorMetaReports ==
  ASSUME TypeOK, Bookkeeping, EndConnectorMeta
  PROVE  /\ Len(outputs') <= 2
         /\ \A j \in JobIds \ Issued : Outstanding(j)' = Outstanding(j)
         /\ \A j \in Issued : Outstanding(j)' = NumWorkers
  <1> DEFINE rep == [j \in JobIds |-> IF j \in toFlush THEN done[j] + left[j] ELSE done[j]]
  <1>1. /\ pc = "store" /\ pc' = "idle"
        /\ outputs' = Append(outputs, rep)
        /\ left' = [j \in JobIds |-> IF j \in Issued THEN NumWorkers
                                     ELSE IF j \in toFlush THEN 0 ELSE left[j]]
        /\ done' = NoReport
        /\ report' = report
    BY DEF EndConnectorMeta, Issued
  <1>2. \A j \in JobIds : /\ rep[j] = IF j \in toFlush THEN done[j] + left[j] ELSE done[j]
                          /\ rep[j] \in Nat
    BY ReportTypes
  <1>3. rep \in Counts
    BY <1>2 DEF Counts
  <1> HIDE DEF rep
  <1>4. Len(outputs) <= 1 /\ report = NoReport
    BY <1>1 DEF Bookkeeping, EngineInStep
  <1>5. Len(outputs') <= 2 /\ \A j \in JobIds : Unread(j)' = Unread(j) + rep[j]
    BY <1>1, <1>3, <1>4, UnreadAppend
  <1>6. \A j \in JobIds \ Issued : Outstanding(j)' = Outstanding(j)
    <2> TAKE j \in JobIds \ Issued
    <2>1. left'[j] = (IF j \in toFlush THEN 0 ELSE left[j]) /\ done'[j] = 0 /\ report'[j] = report[j]
      BY <1>1 DEF NoReport
    <2> QED BY <1>2, <1>5, <2>1, ReportTypes DEF Outstanding
  <1>7. \A j \in Issued : Outstanding(j)' = NumWorkers
    <2> TAKE j \in Issued
    <2>1. j \in JobIds /\ Outstanding(j) = 0
      BY DEF Bookkeeping, IssuedAreUnsent, TypeOK
    <2>2. left[j] = 0 /\ done[j] = 0 /\ Unread(j) = 0 /\ report[j] = 0
      <3>1. left[j] \in Nat /\ done[j] \in Nat /\ report[j] \in Nat /\ Unread(j) \in Nat
        BY <2>1, ReportTypes
      <3>2. left[j] + done[j] + Unread(j) + report[j] = 0
        BY <2>1 DEF Outstanding
      <3> QED BY <3>1, <3>2, ZeroSum
    <2>3. rep[j] = 0
      BY <1>2, <2>1, <2>2
    <2>4. left'[j] = NumWorkers /\ done'[j] = 0 /\ report'[j] = 0
      <3>1. left'[j] = NumWorkers
        BY <1>1, <2>1
      <3>2. done'[j] = 0
        BY <1>1, <2>1 DEF NoReport
      <3> QED BY <1>1, <2>2, <3>1, <3>2
    <2> QED BY <1>5, <2>1, <2>2, <2>3, <2>4, CountsAssumption DEF Outstanding
  <1> QED BY <1>5, <1>6, <1>7

\* The end of a step hands its jobs to the workers and takes their reports.
LEMMA EndConnectorMetaBookkeeping ==
  ASSUME TypeOK, Bookkeeping, EndConnectorMeta
  PROVE  Bookkeeping'
  <1>1. /\ pc = "store" /\ pc' = "idle"
        /\ sched' = [r \in Requests |-> NotScheduled]
        /\ batchLoads' = {} /\ batchStores' = {}
        /\ UNCHANGED <<phase, tracked, transferJobs, jobs, job, pending, pendingJobs,
                       jobCounter, report, staleJob, resets>>
    BY DEF EndConnectorMeta, requestVars, jobVars
  <1>2. report = NoReport
    BY <1>1 DEF Bookkeeping, EngineInStep
  <1>3. Len(outputs') <= 2
    BY EndConnectorMetaReports
  <1>4. \A j \in JobIds \ Issued : Outstanding(j)' = Outstanding(j)
    BY EndConnectorMetaReports
  <1>5. \A j \in Issued : Outstanding(j)' = NumWorkers
    BY EndConnectorMetaReports
  <1>6. Issued' = {}
    BY <1>1 DEF Issued
  <1>7. JobsAreIssued'
    <2>1. \A j \in JobIds : j >= jobCounter => j \notin Issued
      BY CountsAssumption DEF Bookkeeping, JobsAreIssued, IssuedAreUnsent, JobIds, TypeOK
    <2> QED BY <1>1, <1>4, <2>1 DEF Bookkeeping, JobsAreIssued
  <1>8. IssuedAreUnsent'
    BY <1>6 DEF IssuedAreUnsent
  <1>9. SentAreCounted'
    <2>1. \A j \in jobs : pending[j] = Outstanding(j)'
      <3> TAKE j \in jobs
      <3>1. CASE j \in Issued
        BY <1>5, <3>1 DEF Bookkeeping, IssuedAreUnsent
      <3>2. CASE j \notin Issued
        BY <1>4, <3>2 DEF Bookkeeping, SentAreCounted, TypeOK
      <3> QED BY <3>1, <3>2
    <2> QED BY <1>1, <2>1 DEF Bookkeeping, SentAreCounted
  <1>10. EngineInStep'
    <2>1. Scheduled' = {}
      BY <1>1 DEF Scheduled, NotScheduled
    <2>2. report' = NoReport
      BY <1>1, <1>2
    <2> QED BY <1>1, <1>3, <2>1, <2>2 DEF EngineInStep, NoReport
  <1>11. JobsAreOwned'
    BY <1>1 DEF Bookkeeping, JobsAreOwned
  <1>12. resets = 0 => JobsMatchRequests' /\ StatusKept'
    BY <1>1 DEF Bookkeeping, JobsMatchRequests, StatusKept, Live, Finished
  <1>13. resets = 0 => PendingTableExact'
    BY <1>1 DEF Bookkeeping, PendingTableExact, Registered, SWBlocks, FullBlocks, Finished
  <1> QED
    BY <1>1, <1>7, <1>8, <1>9, <1>10, <1>11, <1>12, <1>13 DEF Bookkeeping

\* A worker that is done with a transfer has still to report it.
LEMMA WorkerDoneReports ==
  ASSUME TypeOK, NEW j \in JobIds, WorkerDone(j)
  PROVE  \A i \in JobIds : Outstanding(i)' = Outstanding(i)
  <1>1. /\ left[j] > 0 /\ left' = [left EXCEPT ![j] = @ - 1] /\ done' = [done EXCEPT ![j] = @ + 1]
        /\ UNCHANGED <<outputs, report>>
    BY DEF WorkerDone
  <1> TAKE i \in JobIds
  <1>2. left'[i] + done'[i] = left[i] + done[i]
    BY <1>1 DEF TypeOK, Counts
  <1>3. Unread(i)' = Unread(i) /\ report'[i] = report[i]
    BY <1>1 DEF Unread
  <1>4. left'[i] \in Int /\ done'[i] \in Int
    BY <1>1 DEF TypeOK, Counts
  <1> QED BY <1>2, <1>3, <1>4, ReportTypes DEF Outstanding

\* A worker ends its part of a transfer: one more report is on its way.
LEMMA WorkerDoneBookkeeping ==
  ASSUME TypeOK, Bookkeeping, NEW j \in JobIds, WorkerDone(j)
  PROVE  Bookkeeping'
  <1>1. /\ pc = "idle" /\ pc' = "idle" /\ left[j] > 0
        /\ left' = [left EXCEPT ![j] = @ - 1] /\ done' = [done EXCEPT ![j] = @ + 1]
        /\ UNCHANGED <<phase, sched, outputs, report, toStore, tracked, transferJobs, jobs, job,
                       pending, pendingJobs, jobCounter, batchLoads, batchStores, staleJob, resets>>
    BY DEF WorkerDone, engineVars, requestVars, jobVars, batchVars
  <1>2. \A i \in JobIds : Outstanding(i)' = Outstanding(i)
    BY WorkerDoneReports
  <1>3. EngineInStep' /\ (resets = 0 => StatusKept')
    BY <1>1 DEF Bookkeeping, EngineInStep, StatusKept, Scheduled, Live, Finished
  <1>4. \A r \in Requests : Finished(r)' <=> Finished(r)
    BY <1>1 DEF Finished
  <1> QED BY <1>1, <1>2, <1>3, <1>4, KeptTables

\* A report that is being read is still outstanding.
LEMMA TakeOutputReports ==
  ASSUME TypeOK, Bookkeeping, TakeOutput
  PROVE  Len(outputs') <= 2 /\ \A j \in JobIds : Outstanding(j)' = Outstanding(j)
  <1>1. /\ pc = "idle" /\ outputs # <<>>
        /\ outputs' = Tail(outputs) /\ report' = Head(outputs)
        /\ UNCHANGED <<left, done>>
    BY DEF TakeOutput
  <1>2. Len(outputs) <= 2 /\ report = NoReport
    BY <1>1 DEF Bookkeeping, EngineInStep
  <1>3. Len(outputs') <= 2 /\ \A j \in JobIds : Unread(j) = Unread(j)' + report'[j]
    BY <1>1, <1>2, UnreadTail
  <1>4. \A j \in JobIds : Outstanding(j)' = Outstanding(j)
    <2> TAKE j \in JobIds
    <2>1. report[j] = 0
      BY <1>2 DEF NoReport
    <2>2. report'[j] \in Nat
      BY <1>1 DEF TypeOK, Counts
    <2>3. Unread(j)' \in Nat
      <3>1. outputs' \in Seq(Counts)
        BY <1>1 DEF TypeOK
      <3>2. Len(outputs') >= 1 => outputs'[1][j] \in Nat
        BY <3>1 DEF Counts
      <3>3. Len(outputs') >= 2 => outputs'[2][j] \in Nat
        BY <3>1 DEF Counts
      <3> QED BY <3>2, <3>3 DEF Unread
    <2>4. left[j] \in Nat /\ done[j] \in Nat
      BY ReportTypes
    <2>5. left'[j] = left[j] /\ done'[j] = done[j] /\ Unread(j) = Unread(j)' + report'[j]
      BY <1>1, <1>3
    <2> HIDE DEF Unread
    <2> QED BY <2>1, <2>2, <2>3, <2>4, <2>5 DEF Outstanding
  <1> QED BY <1>3, <1>4

\* The engine takes the oldest report to read it.
LEMMA TakeOutputBookkeeping ==
  ASSUME TypeOK, Bookkeeping, TakeOutput
  PROVE  Bookkeeping'
  <1>1. /\ pc = "idle" /\ pc' = AfterReport(report')
        /\ UNCHANGED <<phase, sched, toStore, tracked, transferJobs, jobs, job, pending,
                       pendingJobs, jobCounter, batchLoads, batchStores, staleJob, resets>>
    BY DEF TakeOutput, engineVars, requestVars, jobVars, batchVars
  <1>2. Len(outputs') <= 2 /\ \A j \in JobIds : Outstanding(j)' = Outstanding(j)
    BY TakeOutputReports
  <1>3. EngineInStep'
    BY <1>1, <1>2 DEF Bookkeeping, EngineInStep, Scheduled, AfterReport
  <1>4. resets = 0 => StatusKept'
    BY <1>1 DEF Bookkeeping, StatusKept, Live, Finished
  <1>5. \A r \in Requests : Finished(r)' <=> Finished(r)
    BY <1>1 DEF Finished
  <1> QED BY <1>1, <1>2, <1>3, <1>4, <1>5, KeptTables

\* The report of a load starts or frees its request, and ends none.
LEMMA LoadArrivedLife ==
  ASSUME TypeOK, NEW j \in JobIds, LoadArrived(j)
  PROVE  \A r \in Requests : (Finished(r)' <=> Finished(r)) /\ (Live(r)' <=> Live(r))
  <1>1. CASE phase' = phase
    BY <1>1 DEF Finished, Live
  <1>2. CASE phase' = [phase EXCEPT ![job[j].req] = IF @ = "loading" THEN "loaded" ELSE @]
    BY <1>2 DEF Finished, Live, TypeOK
  <1> QED BY <1>1, <1>2 DEF LoadArrived

\* A job whose reports are all in leaves every table it is in.
LEMMA CompleteJobBookkeeping ==
  ASSUME TypeOK, Bookkeeping, NEW j \in jobs,
         CompleteJob(j), Issued = {}, Issued' = {}, EngineInStep',
         pending' = [pending EXCEPT ![j] = 0],
         \A i \in JobIds : Outstanding(i)' = IF i = j THEN 0 ELSE Outstanding(i),
         \A i \in JobIds \ {j} : job'[i] = job[i],
         \A r \in Requests : (Finished(r)' <=> Finished(r)) /\ (Live(r)' <=> Live(r)),
         UNCHANGED <<jobCounter, staleJob, resets>>
  PROVE  Bookkeeping'
  <1>1. PICK r \in Requests : r = job[j].req
    BY DEF Bookkeeping, JobsAreIssued
  <1>2. /\ jobs' = jobs \ {j}
        /\ transferJobs' = [transferJobs EXCEPT ![r] = transferJobs[r] \ {j}]
        /\ pendingJobs' = IF job[j].isStore
                            THEN [b \in Blocks |-> IF b \in Registered(j) THEN pendingJobs[b] \ {j}
                                                   ELSE pendingJobs[b]]
                            ELSE pendingJobs
        /\ IF transferJobs[r] \ {j} = {} /\ Finished(r) THEN tracked' = tracked \ {r} ELSE tracked' = tracked
    BY <1>1 DEF CompleteJob, OtherTransferJobs, Forget, requestVars
  <1>3. \A i \in jobs' : i \in jobs /\ i \in JobIds /\ i # j /\ job'[i] = job[i] /\ pending'[i] = pending[i]
    BY <1>2 DEF TypeOK, Counts
  <1>4. JobsAreIssued'
    <2>1. \A i \in jobs' : staleJob <= i /\ i < jobCounter /\ job'[i].req \in Requests
      BY <1>3 DEF Bookkeeping, JobsAreIssued
    <2>2. \A i \in JobIds : i >= jobCounter => Outstanding(i)' = 0
      BY DEF Bookkeeping, JobsAreIssued
    <2> QED BY <2>1, <2>2 DEF Bookkeeping, JobsAreIssued
  <1>5. IssuedAreUnsent'
    BY DEF IssuedAreUnsent
  <1>6. SentAreCounted'
    BY <1>3 DEF Bookkeeping, SentAreCounted
  <1>7. ASSUME resets = 0 PROVE JobsMatchRequests'
    <2> SUFFICES ASSUME NEW q \in Requests
                 PROVE  /\ transferJobs'[q] = {i \in jobs' : job'[i].req = q}
                        /\ \/ \A i \in transferJobs'[q] : job'[i].isStore
                           \/ \E i \in transferJobs'[q] : transferJobs'[q] = {i}
      BY DEF JobsMatchRequests
    <2>1. /\ transferJobs[q] = {i \in jobs : job[i].req = q}
          /\ \/ \A i \in transferJobs[q] : job[i].isStore
             \/ \E i \in transferJobs[q] : transferJobs[q] = {i}
      BY <1>7 DEF Bookkeeping, JobsMatchRequests
    <2>2. transferJobs'[q] = transferJobs[q] \ {j}
      BY <1>1, <1>2, <2>1 DEF TypeOK
    <2>3. transferJobs'[q] = {i \in jobs' : job'[i].req = q}
      BY <1>2, <1>3, <2>1, <2>2
    <2>4. \A i \in transferJobs'[q] : job'[i].isStore = job[i].isStore
      BY <1>3, <2>3
    <2> QED BY <2>1, <2>2, <2>3, <2>4
  <1>8. ASSUME resets = 0 PROVE PendingTableExact'
    <2>1. \A i \in jobs' : Registered(i)' = Registered(i) /\ job'[i].isStore = job[i].isStore
      <3> TAKE i \in jobs'
      <3>1. job'[i] = job[i] /\ job[i].req \in Requests
        BY <1>3 DEF Bookkeeping, JobsAreIssued
      <3>2. SWBlocks(i)' = SWBlocks(i) /\ FullBlocks(i)' = FullBlocks(i)
        BY <3>1 DEF SWBlocks, FullBlocks
      <3>3. Finished(job[i].req)' <=> Finished(job[i].req)
        BY <3>1 DEF Finished
      <3>4. Finished(job[i].req)' <=> (phase'[job'[i].req] = "finished")
        BY <3>1 DEF Finished
      <3> QED BY <3>1, <3>2, <3>3, <3>4 DEF Registered, Finished
    <2> SUFFICES ASSUME NEW b \in Blocks
                 PROVE  pendingJobs'[b] = {i \in jobs' : job'[i].isStore /\ b \in Registered(i)'}
      BY DEF PendingTableExact
    <2>2. pendingJobs[b] = {i \in jobs : job[i].isStore /\ b \in Registered(i)}
      BY <1>8 DEF Bookkeeping, PendingTableExact
    <2>3. pendingJobs'[b] = pendingJobs[b] \ {j}
      BY <1>2, <2>2
    <2> QED BY <1>2, <1>3, <2>1, <2>2, <2>3
  <1>9. ASSUME resets = 0 PROVE StatusKept'
    <2> SUFFICES ASSUME NEW q \in Requests
                 PROVE  q \in tracked' <=> Live(q)' \/ (Finished(q)' /\ transferJobs'[q] # {})
      BY DEF StatusKept
    <2>1. q \in tracked <=> Live(q) \/ (Finished(q) /\ transferJobs[q] # {})
      BY <1>9 DEF Bookkeeping, StatusKept
    <2>2. ~(Live(q) /\ Finished(q))
      BY DEF Live, Finished
    <2>3. CASE q # r
      <3>1. transferJobs'[q] = transferJobs[q] /\ (q \in tracked' <=> q \in tracked)
        BY <1>2, <2>3 DEF TypeOK
      <3> QED BY <2>1, <3>1
    <2>4. CASE q = r
      <3>1. transferJobs'[r] = transferJobs[r] \ {j}
        BY <1>2 DEF TypeOK
      <3>2. j \in transferJobs[r]
        BY <1>1 DEF Bookkeeping, JobsAreOwned
      <3> QED BY <1>2, <2>1, <2>2, <2>4, <3>1, <3>2
    <2> QED BY <2>3, <2>4
  <1>10. JobsAreOwned'
    <2>1. \A i \in jobs' : i \in transferJobs'[job'[i].req]
      <3> TAKE i \in jobs'
      <3>1. i \in jobs /\ i # j /\ job'[i] = job[i] /\ job[i].req \in Requests
        BY <1>3 DEF Bookkeeping, JobsAreIssued
      <3>2. i \in transferJobs[job[i].req]
        BY <3>1 DEF Bookkeeping, JobsAreOwned
      <3> QED BY <1>2, <3>1, <3>2 DEF TypeOK
    <2> QED BY <1>3, <2>1 DEF Bookkeeping, JobsAreOwned
  <1> QED
    BY <1>4, <1>5, <1>6, <1>7, <1>8, <1>9, <1>10 DEF Bookkeeping

\* A report that is read is not outstanding any more.
LEMMA ReadReport ==
  ASSUME TypeOK, NEW j \in JobIds, report' = [report EXCEPT ![j] = 0],
         UNCHANGED <<left, done, outputs>>
  PROVE  /\ \A i \in JobIds \ {j} : Outstanding(i)' = Outstanding(i)
         /\ Outstanding(j)' = Outstanding(j) - report[j]
  <1>1. \A i \in JobIds \ {j} : Outstanding(i)' = Outstanding(i)
    BY DEF Outstanding, Unread, TypeOK, Counts
  <1>2. left'[j] = left[j] /\ done'[j] = done[j] /\ Unread(j)' = Unread(j) /\ report'[j] = 0
    BY DEF Unread, TypeOK, Counts
  <1>3. left[j] \in Nat /\ done[j] \in Nat /\ report[j] \in Nat /\ Unread(j) \in Nat
    BY ReportTypes
  <1> QED BY <1>1, <1>2, <1>3 DEF Outstanding

\* A report of a job that reset_cache discarded is dropped.
LEMMA StaleReportBookkeeping ==
  ASSUME TypeOK, Bookkeeping, NEW j \in JobIds, j < staleJob, report[j] > 0,
         Issued = {}, Issued' = {}, EngineInStep',
         Outstanding(j)' = Outstanding(j) - report[j],
         \A i \in JobIds \ {j} : Outstanding(i)' = Outstanding(i),
         \A i \in JobIds \ {j} : job'[i] = job[i],
         \A r \in Requests : (Finished(r)' <=> Finished(r)) /\ (Live(r)' <=> Live(r)),
         UNCHANGED <<tracked, transferJobs, jobs, pending, pendingJobs, jobCounter, staleJob, resets>>
  PROVE  Bookkeeping'
  <1>1. j \notin jobs /\ \A i \in jobs : i \in JobIds \ {j} /\ job'[i] = job[i] /\ Outstanding(i)' = Outstanding(i)
    BY DEF Bookkeeping, JobsAreIssued, TypeOK, JobIds
  <1>2. JobsAreIssued'
    <2>1. Outstanding(j) # 0
      <3>1. left[j] \in Nat /\ done[j] \in Nat /\ report[j] \in Nat /\ Unread(j) \in Nat
        BY ReportTypes
      <3> QED BY <3>1 DEF Outstanding
    <2>2. \A i \in JobIds : i >= jobCounter => Outstanding(i)' = 0
      BY <2>1 DEF Bookkeeping, JobsAreIssued
    <2>3. \A i \in jobs : staleJob <= i /\ i < jobCounter /\ job'[i].req \in Requests
      BY <1>1 DEF Bookkeeping, JobsAreIssued
    <2> QED BY <2>2, <2>3 DEF Bookkeeping, JobsAreIssued
  <1>3. IssuedAreUnsent' /\ SentAreCounted' /\ JobsAreOwned'
    BY <1>1 DEF Bookkeeping, IssuedAreUnsent, SentAreCounted, JobsAreOwned
  <1>4. resets = 0 => JobsMatchRequests' /\ StatusKept'
    BY <1>1 DEF Bookkeeping, JobsMatchRequests, StatusKept
  <1>5. ASSUME resets = 0 PROVE PendingTableExact'
    <2>1. \A i \in jobs : Registered(i)' = Registered(i)
      BY <1>1 DEF Bookkeeping, JobsAreIssued, Registered, SWBlocks, FullBlocks, Finished
    <2> QED BY <1>1, <1>5, <2>1 DEF Bookkeeping, PendingTableExact
  <1> QED BY <1>2, <1>3, <1>4, <1>5 DEF Bookkeeping

\* A report of a job in _jobs is not the last of it, or ends it.
LEMMA ReportBookkeeping ==
  ASSUME TypeOK, Bookkeeping, NEW j \in JobIds, report[j] > 0, CompletionError(j) = "none",
         Issued = {}, Issued' = {}, EngineInStep', LoadArrived(j),
         Outstanding(j)' = Outstanding(j) - report[j],
         \A i \in JobIds \ {j} : Outstanding(i)' = Outstanding(i),
         \A r \in Requests : (Finished(r)' <=> Finished(r)) /\ (Live(r)' <=> Live(r)),
         job' = (IF Drained(j) THEN [job EXCEPT ![j] = NoJob] ELSE job),
         pending' = [pending EXCEPT ![j] = @ - report[j]],
         IF report[j] < pending[j]
           THEN UNCHANGED <<tracked, transferJobs, jobs, pendingJobs>>
           ELSE CompleteJob(j),
         UNCHANGED <<jobCounter, staleJob, resets>>
  PROVE  Bookkeeping'
  <1>1. j \in jobs /\ report[j] <= pending[j]
    <2>1. j \in jobs /\ ~(report[j] > pending[j])
      BY DEF CompletionError
    <2> QED BY <2>1, ReportTypes
  <1>2. pending[j] = Outstanding(j)
    BY <1>1 DEF Bookkeeping, SentAreCounted
  <1>3. /\ \A i \in JobIds \ {j} : pending'[i] = pending[i]
        /\ pending'[j] = pending[j] - report[j]
    BY DEF TypeOK, Counts
  <1>4. CASE report[j] < pending[j]
    <2>1. ~Drained(j)
      <3>1. Outstanding(j) # report[j]
        BY <1>2, <1>4, ReportTypes
      <3>2. report[j] \in Nat
        BY ReportTypes
      <3> QED BY <3>1, <3>2 DEF Drained, Outstanding
    <2>2. UNCHANGED <<tracked, transferJobs, jobs, job, pendingJobs, phase>>
      BY <1>4, <2>1 DEF LoadArrived
    <2>3. JobsAreIssued' /\ JobsAreOwned'
      <3>1. \A i \in JobIds : i >= jobCounter => i # j
        BY <1>1, CountsAssumption DEF Bookkeeping, JobsAreIssued, JobIds, TypeOK
      <3>2. \A i \in JobIds : i >= jobCounter => Outstanding(i)' = 0
        BY <3>1 DEF Bookkeeping, JobsAreIssued
      <3> QED BY <2>2, <3>2 DEF Bookkeeping, JobsAreIssued, JobsAreOwned
    <2>4. IssuedAreUnsent'
      BY DEF IssuedAreUnsent
    <2>5. SentAreCounted'
      <3>1. \A i \in jobs : pending'[i] = Outstanding(i)'
        BY <1>2, <1>3 DEF Bookkeeping, SentAreCounted, TypeOK
      <3> QED BY <2>2, <3>1 DEF SentAreCounted
    <2>6. resets = 0 => JobsMatchRequests' /\ StatusKept'
      BY <2>2 DEF Bookkeeping, JobsMatchRequests, StatusKept, Live, Finished
    <2>7. resets = 0 => PendingTableExact'
      BY <2>2 DEF Bookkeeping, PendingTableExact, Registered, SWBlocks, FullBlocks, Finished
    <2> QED
      BY <2>3, <2>4, <2>5, <2>6, <2>7 DEF Bookkeeping
  <1>5. CASE ~(report[j] < pending[j])
    <2>1. report[j] = pending[j] /\ pending[j] - report[j] = 0
      BY <1>1, <1>5, ReportTypes
    <2>2. pending' = [pending EXCEPT ![j] = 0]
      BY <2>1
    <2>3. \A i \in JobIds : Outstanding(i)' = IF i = j THEN 0 ELSE Outstanding(i)
      BY <1>2, <2>1
    <2>4. \A i \in JobIds \ {j} : job'[i] = job[i]
      BY DEF TypeOK
    <2> QED
      BY <1>1, <1>5, <2>2, <2>3, <2>4, CompleteJobBookkeeping
  <1> QED BY <1>4, <1>5

\* A report is read: it raises, is not the last of its job, or ends it.
LEMMA UpdateConnectorOutputBookkeeping ==
  ASSUME TypeOK, Bookkeeping, NEW j \in JobIds, UpdateConnectorOutput(j)
  PROVE  Bookkeeping'
  <1>1. CASE j >= staleJob /\ CompletionError(j) # "none"
    BY <1>1, RaiseBookkeeping DEF UpdateConnectorOutput, Raise
  <1>2. /\ jobCounter' = jobCounter /\ staleJob' = staleJob /\ resets' = resets
        /\ pc = "output" /\ report[j] > 0 /\ Issued = {} /\ Scheduled = {}
    BY DEF UpdateConnectorOutput, Raise, Bookkeeping, IssuedAreUnsent, EngineInStep, Issued,
           jobVars, batchVars
  <1>3. CASE ~(j >= staleJob /\ CompletionError(j) # "none")
    <2>1. /\ report' = [report EXCEPT ![j] = 0]
          /\ pc' = AfterReport(report')
          /\ job' = IF Drained(j) THEN [job EXCEPT ![j] = NoJob] ELSE job
          /\ LoadArrived(j)
          /\ UNCHANGED <<sched, toStore, batchLoads, batchStores, left, done, outputs>>
      BY <1>3 DEF UpdateConnectorOutput, batchVars
    <2>2. Issued' = {}
      BY <1>2, <2>1 DEF Issued
    <2>3. \A r \in Requests : (Finished(r)' <=> Finished(r)) /\ (Live(r)' <=> Live(r))
      BY <2>1, LoadArrivedLife
    <2>4. EngineInStep'
      BY <1>2, <2>1 DEF Bookkeeping, EngineInStep, AfterReport, Scheduled
    <2>5. \A i \in JobIds \ {j} : Outstanding(i)' = Outstanding(i)
      BY <2>1, ReadReport
    <2>6. Outstanding(j)' = Outstanding(j) - report[j]
      BY <2>1, ReadReport
    <2>7. \A i \in JobIds \ {j} : job'[i] = job[i]
      BY <2>1 DEF TypeOK
    <2>8. CASE j < staleJob
      BY <1>2, <1>3, <2>1, <2>2, <2>3, <2>4, <2>5, <2>6, <2>7, <2>8, StaleReportBookkeeping
         DEF UpdateConnectorOutput, requestVars
    <2>9. CASE ~(j < staleJob)
      <3>1. CompletionError(j) = "none"
        <4>1. j >= staleJob
          BY <2>9 DEF JobIds, TypeOK
        <4> QED BY <1>3, <4>1
      <3>2. /\ pending' = [pending EXCEPT ![j] = @ - report[j]]
            /\ IF report[j] < pending[j]
               THEN UNCHANGED <<tracked, transferJobs, jobs, pendingJobs>>
               ELSE CompleteJob(j)
        BY <1>3, <2>9 DEF UpdateConnectorOutput, requestVars
      <3> QED
        BY <1>2, <2>1, <2>2, <2>3, <2>4, <2>5, <2>6, <3>1, <3>2, ReportBookkeeping
    <2> QED BY <2>8, <2>9
  <1> QED BY <1>1, <1>3

-----------------------------------------------------------------------------
(***************************************************************************)
(* The calls of the engine.                                                *)
(***************************************************************************)
\* A new request has a status and no job.
LEMMA OnNewRequestBookkeeping ==
  ASSUME TypeOK, Bookkeeping, NEW r \in Requests, OnNewRequest(r)
  PROVE  Bookkeeping'
  <1>1. /\ pc = "idle" /\ pc' = "idle"
        /\ phase[r] = "unborn" /\ phase' = [phase EXCEPT ![r] = "waiting"]
        /\ tracked' = tracked \cup {r}
        /\ UNCHANGED <<sched, toStore, transferJobs, jobs, job, pending, pendingJobs, jobCounter,
                       batchLoads, batchStores, left, done, outputs, report, staleJob, resets>>
    BY DEF OnNewRequest, jobVars, batchVars, workerVars
  <1>2. \A q \in Requests : Finished(q)' <=> Finished(q)
    BY <1>1 DEF Finished, TypeOK
  <1>3. /\ \A j \in JobIds : Outstanding(j)' = Outstanding(j)
        /\ EngineInStep' /\ (resets = 0 => StatusKept')
    <2>1. \A j \in JobIds : Outstanding(j)' = Outstanding(j)
      BY <1>1 DEF Outstanding, Unread
    <2>2. EngineInStep'
      BY <1>1 DEF Bookkeeping, EngineInStep, Scheduled
    <2>3. ASSUME resets = 0 PROVE StatusKept'
      <3> SUFFICES ASSUME NEW q \in Requests
                   PROVE  q \in tracked' <=> Live(q)' \/ (Finished(q)' /\ transferJobs'[q] # {})
        BY DEF StatusKept
      <3>1. q \in tracked <=> Live(q) \/ (Finished(q) /\ transferJobs[q] # {})
        BY <2>3 DEF Bookkeeping, StatusKept
      <3> QED BY <1>1, <1>2, <3>1 DEF Live, TypeOK
    <2> QED BY <2>1, <2>2, <2>3
  <1> QED BY <1>1, <1>2, <1>3, KeptTables

\* The end of a request registers every block its stores read.
LEMMA RequestFinishedBookkeeping ==
  ASSUME TypeOK, Bookkeeping, NEW r \in Requests, RequestFinished(r)
  PROVE  Bookkeeping'
  <1>1. CASE r \in tracked /\ ~(transferJobs[r] \subseteq jobs)
    BY <1>1, RaiseBookkeeping DEF RequestFinished, Raise
  <1>2. CASE ~(r \in tracked /\ ~(transferJobs[r] \subseteq jobs))
    <2>1. /\ pc = "idle" /\ pc' = "idle" /\ Live(r)
          /\ phase' = [phase EXCEPT ![r] = "finished"]
          /\ tracked' = IF r \in tracked /\ transferJobs[r] = {} THEN tracked \ {r} ELSE tracked
          /\ pendingJobs' = [b \in Blocks |->
               pendingJobs[b] \cup {j \in transferJobs[r] : job[j].isStore /\ b \in FullBlocks(j)}]
          /\ UNCHANGED <<sched, toStore, transferJobs, jobs, job, pending, jobCounter, batchLoads,
                         batchStores, left, done, outputs, report, staleJob, resets>>
      BY <1>2 DEF RequestFinished, Forget, requestVars, batchVars, workerVars
    <2>2. \A j \in JobIds : Outstanding(j)' = Outstanding(j)
      BY <2>1 DEF Outstanding, Unread
    <2>3. JobsAreIssued' /\ IssuedAreUnsent' /\ SentAreCounted' /\ JobsAreOwned'
      BY <2>1, <2>2 DEF Bookkeeping, JobsAreIssued, IssuedAreUnsent, SentAreCounted, JobsAreOwned, Issued, TypeOK
    <2>4. EngineInStep' /\ (resets = 0 => JobsMatchRequests')
      BY <2>1 DEF Bookkeeping, EngineInStep, JobsMatchRequests, Scheduled
    <2>5. \A q \in Requests \ {r} : (Finished(q)' <=> Finished(q)) /\ (Live(q)' <=> Live(q))
      BY <2>1 DEF Finished, Live, TypeOK
    <2>6. Finished(r)' /\ ~Live(r)' /\ ~Finished(r)
      BY <2>1 DEF Finished, Live, TypeOK
    <2>7. ASSUME resets = 0 PROVE StatusKept'
      <3> SUFFICES ASSUME NEW q \in Requests
                   PROVE  q \in tracked' <=> Live(q)' \/ (Finished(q)' /\ transferJobs'[q] # {})
        BY DEF StatusKept
      <3>1. q \in tracked <=> Live(q) \/ (Finished(q) /\ transferJobs[q] # {})
        BY <2>7 DEF Bookkeeping, StatusKept
      <3> QED BY <2>1, <2>5, <2>6, <3>1
    <2>8. ASSUME resets = 0 PROVE PendingTableExact'
      <3> SUFFICES ASSUME NEW b \in Blocks
                   PROVE  pendingJobs'[b] = {j \in jobs : job[j].isStore /\ b \in Registered(j)'}
        BY <2>1 DEF PendingTableExact
      <3>1. pendingJobs[b] = {j \in jobs : job[j].isStore /\ b \in Registered(j)}
        BY <2>8 DEF Bookkeeping, PendingTableExact
      <3>2. transferJobs[r] = {j \in jobs : job[j].req = r}
        BY <2>8 DEF Bookkeeping, JobsMatchRequests
      <3>3. pendingJobs'[b] = pendingJobs[b] \cup {j \in transferJobs[r] : job[j].isStore /\ b \in FullBlocks(j)}
        BY <2>1
      <3>4. \A j \in jobs : b \in Registered(j)' <=>
               b \in Registered(j) \/ (job[j].req = r /\ b \in FullBlocks(j))
        <4> TAKE j \in jobs
        <4>1. job[j].req \in Requests
          BY DEF Bookkeeping, JobsAreIssued
        <4>2. SWBlocks(j)' = SWBlocks(j) /\ FullBlocks(j)' = FullBlocks(j)
          BY <2>1 DEF SWBlocks, FullBlocks
        <4>3. Finished(job[j].req)' <=> Finished(job[j].req) \/ job[j].req = r
          BY <2>1, <2>5, <2>6, <4>1 DEF Finished
        <4> QED BY <4>2, <4>3 DEF Registered
      <3> QED BY <3>1, <3>2, <3>3, <3>4
    <2> QED
      BY <2>1, <2>3, <2>4, <2>7, <2>8 DEF Bookkeeping
  <1> QED BY <1>1, <1>2

\* reset_cache leaves no job in _jobs and starts no transfer again.
LEMMA ResetCacheBookkeeping ==
  ASSUME TypeOK, Bookkeeping, ResetCache
  PROVE  Bookkeeping'
  <1>1. CASE batchLoads # {} \/ toFlush # {} \/ allocated # {}
    BY <1>1, RaiseBookkeeping DEF ResetCache, Raise
  <1>2. CASE ~(batchLoads # {} \/ toFlush # {} \/ allocated # {})
    <2>1. /\ pc = "idle" /\ jobs' = {} /\ staleJob' = jobCounter /\ resets' = resets + 1 /\ resets \in Nat
          /\ UNCHANGED <<pc, phase, sched, toStore, jobCounter, batchLoads, batchStores, left, done,
                         outputs, report>>
      BY <1>2 DEF ResetCache, StaleBelow, TypeOK, engineVars, workerVars
    <2>2. \A j \in JobIds : Outstanding(j)' = Outstanding(j)
      BY <2>1 DEF Outstanding, Unread
    <2>3. Issued' = {}
      BY <2>1 DEF Bookkeeping, IssuedAreUnsent, Issued
    <2>4. jobCounter <= jobCounter
      BY CountsAssumption DEF TypeOK
    <2>5. JobsAreIssued'
      BY <2>1, <2>2, <2>4 DEF Bookkeeping, JobsAreIssued
    <2>6. IssuedAreUnsent' /\ SentAreCounted' /\ JobsAreOwned'
      BY <2>1, <2>3 DEF IssuedAreUnsent, SentAreCounted, JobsAreOwned
    <2>7. EngineInStep'
      BY <2>1 DEF Bookkeeping, EngineInStep, Scheduled
    <2> QED BY <2>1, <2>6, <2>7, <2>5 DEF Bookkeeping
  <1> QED BY <1>1, <1>2

-----------------------------------------------------------------------------
(***************************************************************************)
(* The invariant.                                                          *)
(***************************************************************************)
\* No step breaks the bookkeeping.
LEMMA NextBookkeeping ==
  ASSUME TypeOK, Bookkeeping, [Next]_vars
  PROVE  Bookkeeping'
  <1>1. CASE EngineLoop
    BY <1>1, StartStepBookkeeping, BeginConnectorMetaBookkeeping, StoreJobsBookkeeping,
       EndConnectorMetaBookkeeping, TakeOutputBookkeeping, UpdateConnectorOutputBookkeeping
       DEF EngineLoop
  <1>2. ASSUME NEW r \in Requests, Scheduling(r)
        PROVE  Bookkeeping'
    BY <1>2, NotAdmittedBookkeeping, AdmitWithLoadBookkeeping, AdmitWithoutLoadBookkeeping,
       ScheduleLoadedBookkeeping, ScheduleRunningBookkeeping, PreemptBookkeeping
       DEF Scheduling
  <1>3. ASSUME NEW r \in Requests, Calls(r)
        PROVE  Bookkeeping'
    BY <1>3, OnNewRequestBookkeeping, RequestFinishedBookkeeping DEF Calls
  <1>4. ASSUME NEW j \in JobIds, WorkerDone(j)
        PROVE  Bookkeeping'
    BY <1>4, WorkerDoneBookkeeping
  <1>5. CASE ResetCache
    BY <1>5, ResetCacheBookkeeping
  <1>6. CASE UNCHANGED vars
    <2>1. /\ UNCHANGED <<pc, phase, sched, outputs, report, toStore>>
          /\ UNCHANGED <<tracked, transferJobs, jobs, job, pending, pendingJobs, jobCounter,
                         batchLoads, batchStores, workerVars, staleJob, resets>>
      BY <1>6 DEF vars, engineVars, requestVars, jobVars, batchVars, workerVars
    <2>2. EngineInStep'
      BY <2>1 DEF Bookkeeping, EngineInStep, Scheduled
    <2>3. \A q \in Requests : (Finished(q)' <=> Finished(q)) /\ (Live(q)' <=> Live(q))
      BY <2>1 DEF Finished, Live
    <2> QED
      BY <2>1, <2>2, <2>3, QuietStep
  <1> QED
    BY <1>1, <1>2, <1>3, <1>4, <1>5, <1>6 DEF Next, Stopped

\* Nothing is known of any job, and nothing outstanding, when the engine starts.
LEMMA InitBookkeeping == Init => Bookkeeping
  <1> SUFFICES ASSUME Init PROVE Bookkeeping
    OBVIOUS
  <1>1. \A j \in JobIds : Outstanding(j) = 0
    BY DEF Init, Outstanding, Unread, NoReport
  <1>2. JobsAreIssued /\ IssuedAreUnsent /\ SentAreCounted
    BY <1>1 DEF Init, JobsAreIssued, IssuedAreUnsent, SentAreCounted, Issued
  <1>3. EngineInStep
    BY DEF Init, EngineInStep, Scheduled, NotScheduled
  <1>4. JobsMatchRequests /\ PendingTableExact /\ StatusKept
    BY DEF Init, JobsMatchRequests, PendingTableExact, StatusKept, Live, Finished
  <1>5. JobsAreOwned
    BY DEF Init, JobsAreOwned
  <1> QED BY <1>2, <1>3, <1>4, <1>5 DEF Bookkeeping

\* Job ids, ownership of jobs and the counts of reports agree in every state, and
\* the tables of jobs and the statuses of requests until the first reset_cache,
\* whatever is scheduled, preempted, aborted, loaded or stored, however many
\* workers report, and also under async scheduling.
THEOREM BookkeepingCorrect == Spec => []Bookkeeping
  <1>1. Init => Bookkeeping
    BY InitBookkeeping
  <1>2. TypeOK /\ Bookkeeping /\ [Next]_vars => Bookkeeping'
    BY NextBookkeeping
  <1>3. Spec => []TypeOK
    BY TypeCorrect
  <1> QED BY <1>1, <1>2, <1>3, PTL DEF Spec

\* A request's transfer_jobs holds exactly its jobs in _jobs, a single load or
\* any number of stores, until the first reset_cache.
THEOREM JobsMatchUntilReset == Spec => [](resets = 0 => JobsMatchRequests)
  <1>1. Bookkeeping => (resets = 0 => JobsMatchRequests)
    BY DEF Bookkeeping
  <1> QED BY <1>1, BookkeepingCorrect, PTL

\* Every pending store is found by the blocks it reads that may be given away,
\* until the first reset_cache.
THEOREM PendingTableExactUntilReset == Spec => [](resets = 0 => PendingTableExact)
  <1>1. Bookkeeping => (resets = 0 => PendingTableExact)
    BY DEF Bookkeeping
  <1> QED BY <1>1, BookkeepingCorrect, PTL

\* A status lives as long as its request and its transfers, until the first
\* reset_cache.
THEOREM StatusKeptUntilReset == Spec => [](resets = 0 => StatusKept)
  <1>1. Bookkeeping => (resets = 0 => StatusKept)
    BY DEF Bookkeeping
  <1> QED BY <1>1, BookkeepingCorrect, PTL

\* pending_count of a job is the number of reports still to be read, between the
\* steps: a job ends neither before its last worker has reported it nor after, and
\* a discarded job's late report is never taken for another's.
THEOREM CountsAgreeCorrect == Spec => []CountsAgree
  <1>1. Bookkeeping => CountsAgree
    BY DEF Bookkeeping, IssuedAreUnsent, SentAreCounted, CountsAgree
  <1> QED BY <1>1, BookkeepingCorrect, PTL

-----------------------------------------------------------------------------
(***************************************************************************)
(* update_connector_output meets no report that it does not expect, also   *)
(* after reset_cache, when reports of discarded jobs are still to come:    *)
(* whatever is outstanding and not below the threshold belongs to a job in *)
(* _jobs, and the request of a job in _jobs has its status.                *)
(***************************************************************************)
\* what is still to be reported, and not discarded, is known
OutstandingAreKnown == \A j \in JobIds : j >= staleJob /\ Outstanding(j) > 0 => j \in jobs

\* live requests and requests with a transfer have a status
StatusOfActive ==
    /\ \A r \in Requests : Live(r) => r \in tracked
    /\ \A j \in jobs : job[j].req \in tracked

\* the inductive invariant, together with TypeOK and Bookkeeping
Expected == OutstandingAreKnown /\ StatusOfActive /\ ReportsAreExpected

-----------------------------------------------------------------------------
(***************************************************************************)
(* Steps that end no request and no transfer.                              *)
(***************************************************************************)
\* Nothing new is outstanding, and nothing that had a status loses it.
LEMMA KeptExpected ==
  ASSUME TypeOK, Bookkeeping, Expected, UNCHANGED <<staleJob, jobs>>, ReportsAreExpected',
         tracked \subseteq tracked', \A r \in Requests : Live(r)' => r \in tracked',
         \A j \in jobs : job'[j] = job[j],
         \A j \in JobIds : Outstanding(j)' = Outstanding(j)
  PROVE  Expected'
  <1>1. OutstandingAreKnown'
    BY DEF Expected, OutstandingAreKnown
  <1>2. StatusOfActive'
    BY DEF Expected, StatusOfActive
  <1> QED BY <1>1, <1>2 DEF Expected

\* A step that moves no report and changes no life.
LEMMA QuietExpected ==
  ASSUME TypeOK, Bookkeeping, Expected,
         UNCHANGED <<staleJob, jobs, job, tracked, left, done, outputs, report, error>>,
         \A r \in Requests : Live(r)' => Live(r)
  PROVE  Expected'
  <1>1. \A j \in JobIds : Outstanding(j)' = Outstanding(j)
    BY DEF Outstanding, Unread
  <1>2. ReportsAreExpected'
    BY DEF Expected, ReportsAreExpected
  <1>3. \A r \in Requests : Live(r)' => r \in tracked'
    BY DEF Expected, StatusOfActive
  <1> QED BY <1>1, <1>2, <1>3, KeptExpected

\* An exception that names none of the unexpected reports.
LEMMA RaiseExpected ==
  ASSUME TypeOK, Bookkeeping, Expected, NEW what, Raise(what),
         what \notin {"scheduled request has no status", "unknown job reported",
                      "job reported too often", "completed job has no request",
                      "completed job is not the request's"}
  PROVE  Expected'
  <1>1. \A j \in JobIds : Outstanding(j)' = Outstanding(j)
    BY DEF Raise, workerVars, Outstanding, Unread
  <1>2. ReportsAreExpected'
    BY DEF Raise, ReportsAreExpected
  <1>3. UNCHANGED <<phase, tracked, staleJob, jobs, job>>
    BY DEF Raise, engineVars, requestVars, jobVars
  <1>4. \A r \in Requests : Live(r)' => r \in tracked'
    BY <1>3 DEF Live, Expected, StatusOfActive
  <1> QED BY <1>1, <1>2, <1>3, <1>4, KeptExpected

\* A new job of a live request: it is outstanding only once it is sent.
LEMMA NewJobExpected ==
  ASSUME TypeOK, Bookkeeping, Expected, NEW r \in Requests, Live(r), NEW isStore, NEW keys,
         NEW copies, jobCounter < MaxJobs, NewJob(r, isStore, keys, copies),
         UNCHANGED <<staleJob, tracked, left, done, outputs, report, error>>,
         \A q \in Requests : Live(q)' => Live(q)
  PROVE  Expected'
  <1>1. PICK n \in JobIds : n = jobCounter
    BY CountsAssumption DEF TypeOK, JobIds
  <1>2. jobs' = jobs \cup {n} /\ job'[n].req = r /\ \A j \in JobIds \ {n} : job'[j] = job[j]
    BY <1>1 DEF NewJob, TypeOK
  <1>3. \A j \in jobs : j # n /\ job'[j] = job[j]
    BY <1>1, <1>2 DEF Bookkeeping, JobsAreIssued, TypeOK, JobIds
  <1>4. \A j \in JobIds : Outstanding(j)' = Outstanding(j)
    BY DEF Outstanding, Unread
  <1>5. OutstandingAreKnown'
    BY <1>2, <1>4 DEF Expected, OutstandingAreKnown
  <1>6. StatusOfActive'
    BY <1>2, <1>3 DEF Expected, StatusOfActive
  <1> QED BY <1>5, <1>6 DEF Expected, ReportsAreExpected

-----------------------------------------------------------------------------
(***************************************************************************)
(* The engine's step.                                                      *)
(***************************************************************************)
\* A load is issued for a request that has a status.
LEMMA AdmitWithLoadExpected ==
  ASSUME TypeOK, Bookkeeping, Expected, NEW r \in Requests, AdmitWithLoad(r)
  PROVE  Expected'
  <1>1. PICK local \in 0 .. PromptLen : \E c \in LoadableChunks(r, local) : AdmitWithLoad(r)!(local)!(c)
    BY DEF AdmitWithLoad
  <1>2. PICK c \in LoadableChunks(r, local) : AdmitWithLoad(r)!(local)!(c)
    BY <1>1
  <1>3. PICK t \in TablesFor(r, local, c * BlockSizeFactor, c * BlockSizeFactor) :
           IF transferJobs[r] # {}
           THEN Raise("load issued while jobs are pending")
           ELSE /\ IssueLoad(r, t, local, c)
                /\ phase' = [phase EXCEPT ![r] = "loading"]
                /\ UNCHANGED <<tracked, left, done, outputs, report, staleJob, error>>
    BY <1>2 DEF LoadInto, workerVars
  <1>4. CASE transferJobs[r] # {}
    BY <1>3, <1>4, RaiseExpected
  <1>5. CASE transferJobs[r] = {}
    <2>1. jobCounter < MaxJobs
      BY <1>2
    <2>2. phase[r] = "waiting"
      BY <1>2 DEF Admissible
    <2>3. Live(r) /\ \A q \in Requests : Live(q)' => Live(q)
      BY <1>3, <1>5, <2>2 DEF Live, TypeOK
    <2> DEFINE copies == LoadCopies(t, local, c * BlockSizeFactor)
               keys   == LoadKeys(r, copies, c)
    <2>4. NewJob(r, FALSE, keys, copies)
      BY <1>3, <1>5 DEF IssueLoad
    <2> HIDE DEF copies, keys
    <2> QED BY <1>3, <1>5, <2>1, <2>3, <2>4, NewJobExpected
  <1> QED BY <1>4, <1>5

\* The steps of schedule() that only move blocks.
LEMMA SchedulingExpected ==
  ASSUME TypeOK, Bookkeeping, Expected, NEW r \in Requests, Scheduling(r)
  PROVE  Expected'
  <1>1. CASE AdmitWithLoad(r)
    BY <1>1, AdmitWithLoadExpected
  <1>2. CASE ~AdmitWithLoad(r)
    <2>1. UNCHANGED <<staleJob, jobs, job, tracked, left, done, outputs, report, error>>
      BY <1>2 DEF Scheduling, NotAdmitted, AdmitWithoutLoad, ScheduleLoaded, ScheduleRunning,
                  Preempt, requestVars, jobVars, workerVars
    <2>2. \/ phase' = phase
          \/ \E p \in {"waiting", "running"} :
                phase' = [phase EXCEPT ![r] = p] /\ phase[r] \in {"waiting", "loaded", "running"}
      BY <1>2 DEF Scheduling, NotAdmitted, AdmitWithoutLoad, ScheduleLoaded, ScheduleRunning,
                  Preempt, Admissible, StartOn, engineVars
    <2>3. \A q \in Requests : Live(q)' => Live(q)
      BY <2>2 DEF Live, TypeOK
    <2> QED BY <2>1, <2>3, QuietExpected
  <1> QED BY <1>1, <1>2

\* Every scheduled request has a status.
LEMMA BeginConnectorMetaExpected ==
  ASSUME TypeOK, Bookkeeping, Expected, BeginConnectorMeta
  PROVE  Expected'
  <1>1. \A r \in Scheduled : r \in tracked
    <2>1. pc = "schedule" /\ Scheduled \subseteq Requests
      BY DEF BeginConnectorMeta, Scheduled
    <2>2. \A r \in Scheduled : Live(r)
      BY <2>1 DEF Bookkeeping, EngineInStep, Live
    <2> QED BY <2>1, <2>2 DEF Expected, StatusOfActive
  <1>2. CASE \E what \in {"unknown job of a preempted request", "preempted request has a load"} : Raise(what)
    BY <1>2, RaiseExpected
  <1>3. CASE ~\E what \in {"unknown job of a preempted request", "preempted request has a load"} : Raise(what)
    <2>1. UNCHANGED <<staleJob, jobs, job, tracked, left, done, outputs, report, error, phase>>
      BY <1>1, <1>3 DEF BeginConnectorMeta, engineVars, jobVars, workerVars
    <2>2. \A r \in Requests : Live(r)' => Live(r)
      BY <2>1 DEF Live
    <2> QED BY <2>1, <2>2, QuietExpected
  <1> QED BY <1>2, <1>3

\* A store is issued for a request that has a status.
LEMMA StoreJobsExpected ==
  ASSUME TypeOK, Bookkeeping, Expected, NEW r \in Requests, StoreJobs(r)
  PROVE  Expected'
  <1>1. PICK tokens \in Offloadable(r) : StoreJobs(r)!2!(tokens)
    BY DEF StoreJobs
  <1> DEFINE end  == ChunkOf(tokens)
             new  == {Key(r, s[1], s[2]) : s \in NewChunks(r, end)}
             keys == new \ Held
             copies == StoreCopies(r, end, keys)
  <1>2. CASE r \in tracked /\ Refused(r, end) # "none"
    <2>1. Raise(Refused(r, end))
      BY <1>1, <1>2
    <2>2. Refused(r, end) \in {"fewer block ids than offload keys", "none",
                               "unknown job of a storing request", "store issued while a load is pending"}
      BY DEF Refused
    <2> HIDE DEF end
    <2> QED BY <2>1, <2>2, RaiseExpected
  <1>3. CASE ~(r \in tracked /\ Refused(r, end) # "none")
    <2>1. /\ IF r \in tracked THEN StoreChunks(r, end) ELSE SkipStore(nextStored)
          /\ UNCHANGED <<phase, tracked, left, done, outputs, report, staleJob>>
      BY <1>1, <1>3 DEF engineVars, workerVars
    <2>2. \A q \in Requests : Live(q)' => Live(q)
      BY <2>1 DEF Live
    <2>3. ASSUME NEW next, SkipStore(next)
          PROVE  Expected'
      BY <2>1, <2>2, <2>3, QuietExpected DEF SkipStore, jobVars
    <2>4. ASSUME Evictions(new) # {}, NEW evicted \in Evictions(new),
                 IssueStore(r, end, keys, evicted)
          PROVE  Expected'
      <3>1. jobCounter < MaxJobs
        BY <2>4, CountsAssumption DEF Evictions, TypeOK
      <3> HIDE DEF keys, new
      <3>2. NewJob(r, TRUE, keys, copies) /\ error' = error
        BY <2>4 DEF IssueStore
      <3> HIDE DEF copies
      <3>3. Live(r)
        BY DEF StoreJobs, Bookkeeping, EngineInStep, Live
      <3> QED BY <2>1, <2>2, <3>1, <3>2, <3>3, NewJobExpected
    <2> QED BY <2>1, <2>3, <2>4 DEF StoreChunks
  <1> QED BY <1>2, <1>3

\* The jobs of the step are outstanding now, and known.
LEMMA EndConnectorMetaExpected ==
  ASSUME TypeOK, Bookkeeping, Expected, EndConnectorMeta
  PROVE  Expected'
  <1>1. UNCHANGED <<phase, tracked, jobs, job, staleJob, error>>
    BY DEF EndConnectorMeta, requestVars, jobVars
  <1>2. OutstandingAreKnown'
    <2>1. \A j \in JobIds \ Issued : Outstanding(j)' = Outstanding(j)
      BY EndConnectorMetaReports
    <2>2. Issued \subseteq jobs
      BY DEF Bookkeeping, IssuedAreUnsent
    <2> QED BY <1>1, <2>1, <2>2 DEF Expected, OutstandingAreKnown
  <1>3. StatusOfActive'
    BY <1>1 DEF Expected, StatusOfActive, Live
  <1> QED BY <1>1, <1>2, <1>3 DEF Expected, ReportsAreExpected

-----------------------------------------------------------------------------
(***************************************************************************)
(* Reports.                                                                *)
(***************************************************************************)
\* The report that is read belongs to a job that expects it, or is dropped.
LEMMA ReportExpected ==
  ASSUME TypeOK, Bookkeeping, Expected, NEW j \in JobIds, UpdateConnectorOutput(j), j >= staleJob
  PROVE  /\ j \in jobs /\ job[j].req \in Requests
         /\ CompletionError(j) \in {"none", "completed job is not registered"}
  <1>1. pc = "output" /\ report[j] > 0
    BY DEF UpdateConnectorOutput
  <1>2. left[j] \in Nat /\ done[j] \in Nat /\ report[j] \in Nat /\ Unread(j) \in Nat
    BY ReportTypes
  <1>3. Outstanding(j) > 0 /\ report[j] <= Outstanding(j)
    BY <1>1, <1>2 DEF Outstanding
  <1>4. j \in jobs
    BY <1>3 DEF Expected, OutstandingAreKnown
  <1>5. pending[j] = Outstanding(j)
    BY <1>1, <1>4 DEF Bookkeeping, IssuedAreUnsent, SentAreCounted
  <1>6. ~(report[j] > pending[j])
    BY <1>2, <1>3, <1>5, ReportTypes
  <1>7. job[j].req \in tracked /\ job[j].req \in Requests /\ j \in transferJobs[job[j].req]
    BY <1>4 DEF Expected, StatusOfActive, Bookkeeping, JobsAreOwned, JobsAreIssued
  <1> QED BY <1>4, <1>6, <1>7 DEF CompletionError

\* The end of a job keeps the status of the requests that have others.
LEMMA UpdateConnectorOutputExpected ==
  ASSUME TypeOK, Bookkeeping, Expected, NEW j \in JobIds, UpdateConnectorOutput(j)
  PROVE  Expected'
  <1>1. CASE j >= staleJob /\ CompletionError(j) # "none"
    <2>1. Raise("completed job is not registered")
      BY <1>1, ReportExpected DEF UpdateConnectorOutput
    <2> QED BY <2>1, RaiseExpected
  <1>2. CASE ~(j >= staleJob /\ CompletionError(j) # "none")
    <2>1. /\ pc = "output" /\ report[j] > 0
          /\ report' = [report EXCEPT ![j] = 0]
          /\ job' = IF Drained(j) THEN [job EXCEPT ![j] = NoJob] ELSE job
          /\ LoadArrived(j)
          /\ UNCHANGED <<left, done, outputs, staleJob, error>>
      BY <1>2 DEF UpdateConnectorOutput
    <2>2. \A i \in JobIds \ {j} : job'[i] = job[i]
      BY <2>1 DEF TypeOK
    <2>3. \A r \in Requests : (Live(r)' <=> Live(r)) /\ (Finished(r)' <=> Finished(r))
      BY <2>1, LoadArrivedLife
    <2>4. /\ \A i \in JobIds \ {j} : Outstanding(i)' = Outstanding(i)
          /\ Outstanding(j)' = Outstanding(j) - report[j]
      BY <2>1, ReadReport
    <2>5. ReportsAreExpected'
      BY <2>1 DEF Expected, ReportsAreExpected
    <2>6. CASE j < staleJob
      <3>1. UNCHANGED <<jobs, tracked>>
        BY <1>2, <2>6 DEF UpdateConnectorOutput, requestVars
      <3>2. \A i \in jobs : i \in JobIds \ {j} /\ job'[i] = job[i]
        BY <2>2, <2>6 DEF Bookkeeping, JobsAreIssued, JobIds, TypeOK
      <3>3. OutstandingAreKnown'
        BY <2>1, <2>4, <2>6, <3>1 DEF Expected, OutstandingAreKnown, JobIds, TypeOK
      <3>4. StatusOfActive'
        BY <2>3, <3>1, <3>2 DEF Expected, StatusOfActive
      <3> QED BY <2>5, <3>3, <3>4 DEF Expected
    <2>7. CASE ~(j < staleJob)
      <3>1. j >= staleJob
        BY <2>7 DEF JobIds, TypeOK
      <3>2. j \in jobs /\ job[j].req \in Requests /\ CompletionError(j) = "none"
        BY <1>2, <3>1, ReportExpected
      <3>3. pending[j] = Outstanding(j)
        BY <2>1, <3>2 DEF Bookkeeping, IssuedAreUnsent, SentAreCounted
      <3>4. CASE report[j] < pending[j]
        <4>1. UNCHANGED <<jobs, tracked>>
          BY <1>2, <2>7, <3>4 DEF UpdateConnectorOutput, requestVars
        <4>2. ~Drained(j)
          <5>1. Outstanding(j) # report[j] /\ report[j] \in Nat
            BY <3>3, <3>4, ReportTypes
          <5> QED BY <5>1 DEF Drained, Outstanding
        <4>3. OutstandingAreKnown'
          BY <2>1, <2>4, <3>2, <4>1 DEF Expected, OutstandingAreKnown
        <4>4. StatusOfActive'
          BY <2>1, <2>3, <4>1, <4>2 DEF Expected, StatusOfActive
        <4> QED BY <2>5, <4>3, <4>4 DEF Expected
      <3>5. CASE ~(report[j] < pending[j])
        <4> DEFINE r == job[j].req
        <4>1. /\ jobs' = jobs \ {j}
              /\ tracked' = IF transferJobs[r] \ {j} = {} /\ Finished(r) THEN tracked \ {r} ELSE tracked
          BY <1>2, <2>7, <3>5 DEF UpdateConnectorOutput, CompleteJob, OtherTransferJobs, Forget, requestVars
        <4>2. Outstanding(j)' = 0
          <5>1. report[j] = pending[j]
            <6>1. ~(report[j] > pending[j])
              BY <3>2 DEF CompletionError
            <6> QED BY <3>5, <6>1, ReportTypes
          <5> QED BY <2>4, <3>3, <5>1, ReportTypes
        <4>3. OutstandingAreKnown'
          BY <2>1, <2>4, <4>1, <4>2 DEF Expected, OutstandingAreKnown
        <4>4. \A i \in jobs' : i \in jobs /\ i # j /\ job'[i] = job[i]
          BY <2>2, <4>1 DEF TypeOK
        <4>5. \A i \in jobs' : job[i].req = r => i \in transferJobs[r] \ {j}
          BY <4>4 DEF Bookkeeping, JobsAreOwned
        <4>6. StatusOfActive'
          <5>1. \A q \in Requests : Live(q)' => q \in tracked'
            <6>1. ~(Live(r) /\ Finished(r))
              BY DEF Live, Finished
            <6> QED BY <2>3, <4>1, <6>1 DEF Expected, StatusOfActive
          <5>2. \A i \in jobs' : job[i].req \in tracked'
            BY <4>1, <4>4, <4>5 DEF Expected, StatusOfActive
          <5> QED BY <4>4, <5>1, <5>2 DEF StatusOfActive
        <4> QED BY <2>5, <4>3, <4>6 DEF Expected
      <3> QED BY <3>4, <3>5
    <2> QED BY <2>6, <2>7
  <1> QED BY <1>1, <1>2

-----------------------------------------------------------------------------
(***************************************************************************)
(* The calls of the engine.                                                *)
(***************************************************************************)
\* A request that ends keeps its status while it has transfers.
LEMMA RequestFinishedExpected ==
  ASSUME TypeOK, Bookkeeping, Expected, NEW r \in Requests, RequestFinished(r)
  PROVE  Expected'
  <1>1. CASE r \in tracked /\ ~(transferJobs[r] \subseteq jobs)
    BY <1>1, RaiseExpected DEF RequestFinished
  <1>2. CASE ~(r \in tracked /\ ~(transferJobs[r] \subseteq jobs))
    <2>1. /\ phase' = [phase EXCEPT ![r] = "finished"]
          /\ tracked' = IF r \in tracked /\ transferJobs[r] = {} THEN tracked \ {r} ELSE tracked
          /\ UNCHANGED <<jobs, job, left, done, outputs, report, staleJob, error>>
      BY <1>2 DEF RequestFinished, Forget, requestVars, workerVars
    <2>2. \A j \in JobIds : Outstanding(j)' = Outstanding(j)
      BY <2>1 DEF Outstanding, Unread
    <2>3. \A q \in Requests : Live(q)' => Live(q) /\ q # r
      BY <2>1 DEF Live, TypeOK
    <2>4. \A j \in jobs : job[j].req = r => transferJobs[r] # {}
      BY DEF Bookkeeping, JobsAreOwned
    <2>5. OutstandingAreKnown'
      BY <2>1, <2>2 DEF Expected, OutstandingAreKnown
    <2>6. StatusOfActive'
      BY <2>1, <2>3, <2>4 DEF Expected, StatusOfActive
    <2> QED BY <2>1, <2>5, <2>6 DEF Expected, ReportsAreExpected
  <1> QED BY <1>1, <1>2

\* A new request gets its status.
LEMMA OnNewRequestExpected ==
  ASSUME TypeOK, Bookkeeping, Expected, NEW r \in Requests, OnNewRequest(r)
  PROVE  Expected'
  <1>1. /\ phase' = [phase EXCEPT ![r] = "waiting"] /\ tracked' = tracked \cup {r}
        /\ UNCHANGED <<jobs, job, left, done, outputs, report, staleJob, error>>
    BY DEF OnNewRequest, jobVars, workerVars
  <1>2. \A j \in JobIds : Outstanding(j)' = Outstanding(j)
    BY <1>1 DEF Outstanding, Unread
  <1>3. \A q \in Requests : Live(q)' => q \in tracked'
    BY <1>1 DEF Live, TypeOK, Expected, StatusOfActive
  <1>4. ReportsAreExpected'
    BY <1>1 DEF Expected, ReportsAreExpected
  <1> QED BY <1>1, <1>2, <1>3, <1>4, KeptExpected

\* What reset_cache discards is below its threshold.
LEMMA ResetCacheExpected ==
  ASSUME TypeOK, Bookkeeping, Expected, ResetCache
  PROVE  Expected'
  <1>1. CASE batchLoads # {} \/ toFlush # {} \/ allocated # {}
    BY <1>1, RaiseExpected DEF ResetCache
  <1>2. CASE ~(batchLoads # {} \/ toFlush # {} \/ allocated # {})
    <2>1. /\ jobs' = {} /\ staleJob' = jobCounter
          /\ UNCHANGED <<phase, tracked, left, done, outputs, report, error>>
      BY <1>2 DEF ResetCache, StaleBelow, engineVars, workerVars
    <2>2. \A j \in JobIds : Outstanding(j)' = Outstanding(j)
      BY <2>1 DEF Outstanding, Unread
    <2>3. OutstandingAreKnown'
      BY <2>1, <2>2 DEF OutstandingAreKnown, Bookkeeping, JobsAreIssued
    <2>4. StatusOfActive'
      BY <2>1 DEF Expected, StatusOfActive, Live
    <2> QED BY <2>1, <2>3, <2>4 DEF Expected, ReportsAreExpected
  <1> QED BY <1>1, <1>2

-----------------------------------------------------------------------------
\* No step breaks it.
LEMMA NextExpected ==
  ASSUME TypeOK, Bookkeeping, Expected, [Next]_vars
  PROVE  Expected'
  <1>1. CASE StartStep \/ UNCHANGED vars
    <2>1. UNCHANGED <<staleJob, jobs, job, tracked, left, done, outputs, report, error, phase>>
      BY <1>1 DEF StartStep, vars, engineVars, requestVars, jobVars, workerVars
    <2>2. \A r \in Requests : Live(r)' => Live(r)
      BY <2>1 DEF Live
    <2> QED BY <2>1, <2>2, QuietExpected
  <1>2. ASSUME TakeOutput \/ \E j \in JobIds : WorkerDone(j)
        PROVE  Expected'
    <2>1. \A j \in JobIds : Outstanding(j)' = Outstanding(j)
      BY <1>2, TakeOutputReports, WorkerDoneReports
    <2>2. UNCHANGED <<staleJob, jobs, job, tracked, error, phase>>
      BY <1>2 DEF TakeOutput, WorkerDone, engineVars, requestVars, jobVars
    <2>3. ReportsAreExpected' /\ \A r \in Requests : Live(r)' => r \in tracked'
      BY <2>2 DEF Expected, ReportsAreExpected, StatusOfActive, Live
    <2> QED BY <2>1, <2>2, <2>3, KeptExpected
  <1>3. ASSUME NEW r \in Requests, Scheduling(r) \/ Calls(r)
        PROVE  Expected'
    BY <1>3, SchedulingExpected, OnNewRequestExpected, RequestFinishedExpected DEF Calls
  <1> QED
    BY <1>1, <1>2, <1>3, BeginConnectorMetaExpected, StoreJobsExpected, EndConnectorMetaExpected,
       UpdateConnectorOutputExpected, ResetCacheExpected DEF Next, EngineLoop, Stopped

\* Whatever is outstanding is known and whoever waits for it has a status, always.
THEOREM ExpectedCorrect == Spec => []Expected
  <1>1. Init => Expected
    <2> SUFFICES ASSUME Init PROVE Expected
      OBVIOUS
    <2>1. \A j \in JobIds : Outstanding(j) = 0
      BY DEF Init, Outstanding, Unread, NoReport
    <2>2. OutstandingAreKnown /\ StatusOfActive
      BY <2>1 DEF Init, OutstandingAreKnown, StatusOfActive, Live
    <2> QED BY <2>2 DEF Init, Expected, ReportsAreExpected
  <1>2. TypeOK /\ Bookkeeping /\ Expected /\ [Next]_vars => Expected'
    BY NextExpected
  <1> QED BY <1>1, <1>2, TypeCorrect, BookkeepingCorrect, PTL DEF Spec

\* No report is unexpected: none names an unknown job, none comes after the last
\* one of its job, and the request of the job still has its status, however often
\* reset_cache is called while transfers are under way.
THEOREM ReportsExpectedCorrect == Spec => []ReportsAreExpected
  <1>1. Expected => ReportsAreExpected
    BY DEF Expected
  <1> QED BY <1>1, ExpectedCorrect, PTL

-----------------------------------------------------------------------------
(***************************************************************************)
(* The scheduler implements Transfers: the mapping is the one of           *)
(* OffloadScheduler, a job in _jobs is a transfer under way and a job of   *)
(* the current batch has all its copies to come.  A job is created by a    *)
(* Start, reports that end one are a Finish, a flush and a worker's work   *)
(* are a Copy, reset_cache is a Discard, and every other step a stutter.   *)
(* Bookkeeping gives what Transfers asks: a new transfer is alone or a     *)
(* store among stores, and the one that ends has been copied by everyone.  *)
(***************************************************************************)
\* no transfer has more copies to come than there are workers
LeftBounded == \A j \in JobIds : left[j] <= NumWorkers

-----------------------------------------------------------------------------
(***************************************************************************)
(* The bound on the copies to come.                                        *)
(***************************************************************************)
\* Only the end of a step and a worker change how much is left to copy.
LEMMA NextLeftBounded ==
  ASSUME TypeOK, LeftBounded, [Next]_vars
  PROVE  LeftBounded'
  <1>1. CASE left' = left
    BY <1>1 DEF LeftBounded
  <1>2. CASE EndConnectorMeta
    <2>1. left' = [j \in JobIds |-> IF j \in batchLoads \cup batchStores THEN NumWorkers
                                    ELSE IF j \in toFlush THEN 0 ELSE left[j]]
      BY <1>2 DEF EndConnectorMeta
    <2>2. NumWorkers \in Nat
      BY CountsAssumption
    <2> QED BY <2>1, <2>2 DEF LeftBounded
  <1>3. ASSUME NEW j \in JobIds, WorkerDone(j)
        PROVE  LeftBounded'
    BY <1>3, CountsAssumption DEF WorkerDone, LeftBounded, TypeOK, Counts
  <1>4. CASE EngineLoop /\ ~EndConnectorMeta
    <2>1. left' = left
      BY <1>4 DEF EngineLoop, StartStep, BeginConnectorMeta, StoreJobs, TakeOutput,
                  UpdateConnectorOutput, Raise, workerVars
    <2> QED BY <1>1, <2>1
  <1>5. ASSUME NEW r \in Requests, Scheduling(r) \/ Calls(r)
        PROVE  LeftBounded'
    <2>1. left' = left
      BY <1>5 DEF Scheduling, Calls, NotAdmitted, AdmitWithLoad, AdmitWithoutLoad, ScheduleLoaded,
                  ScheduleRunning, Preempt, OnNewRequest, RequestFinished, Raise, workerVars
    <2> QED BY <1>1, <2>1
  <1>6. CASE ResetCache \/ UNCHANGED vars
    <2>1. left' = left
      BY <1>6 DEF ResetCache, Raise, workerVars, vars
    <2> QED BY <1>1, <2>1
  <1> QED
    BY <1>2, <1>3, <1>4, <1>5, <1>6 DEF Next, Stopped

-----------------------------------------------------------------------------
(***************************************************************************)
(* The steps of Transfers that the scheduler's steps are.                  *)
(***************************************************************************)
\* Steps that touch no job are a stutter.
LEMMA Stutter ==
  ASSUME UNCHANGED <<jobs, jobCounter, batchLoads, batchStores, left, resets>>,
         \A j \in jobs : job'[j] = job[j]
  PROVE  UNCHANGED Promise!vars
  BY DEF Promise!vars, UnderWay, ToCopy

\* An exception is a stutter.
LEMMA RaiseStutter ==
  ASSUME UNCHANGED <<engineVars, requestVars, jobVars, batchVars, workerVars, resets>>
  PROVE  UNCHANGED Promise!vars
  BY Stutter DEF jobVars, batchVars, workerVars

\* Steps that only take copies off are a Copy.
LEMMA CopyStep ==
  ASSUME UNCHANGED <<jobs, job, jobCounter, resets>>, TypeOK,
         \A j \in JobIds : ToCopy'[j] \in Nat /\ ToCopy'[j] <= ToCopy[j] /\ ToCopy[j] <= NumWorkers
  PROVE  Promise!Copy
  <1>1. UnderWay' = UnderWay
    BY DEF UnderWay
  <1>2. ToCopy' = [j \in JobIds |-> ToCopy'[j]]
    BY DEF ToCopy
  <1>3. \A j \in JobIds : ToCopy'[j] \in 0 .. NumWorkers
    <2> TAKE j \in JobIds
    <2>1. ToCopy[j] \in Nat
      BY CountsAssumption DEF ToCopy, TypeOK, Counts
    <2>2. \A a, b, c \in Nat : a <= b /\ b <= c => a \in 0 .. c
      OBVIOUS
    <2> QED BY <2>1, <2>2, CountsAssumption
  <1>4. ToCopy' \in [JobIds -> 0 .. NumWorkers]
    BY <1>2, <1>3
  <1> QED BY <1>1, <1>4 DEF Promise!Copy

\* A new job is a Start.
LEMMA StartTransfer ==
  ASSUME TypeOK, Bookkeeping, NEW r \in Requests, NEW isStore \in BOOLEAN,
         NEW keys, NEW copies, jobCounter < MaxJobs, NewJob(r, isStore, keys, copies),
         IF isStore THEN \A j \in transferJobs[r] : job[j].isStore ELSE transferJobs[r] = {},
         Issued' = Issued \cup {jobCounter}, UNCHANGED <<left, resets>>
  PROVE  Promise!Start(r, isStore)
  <1>1. jobCounter \in JobIds
    BY CountsAssumption DEF TypeOK, JobIds
  <1>2. jobs' = jobs \cup {jobCounter} /\ jobCounter' = jobCounter + 1
    BY DEF NewJob
  <1>3. /\ job'[jobCounter].req = r /\ job'[jobCounter].isStore = isStore
        /\ \A j \in JobIds \ {jobCounter} : job'[j] = job[j]
    BY <1>1 DEF NewJob, TypeOK
  <1>4. UnderWay' = [UnderWay EXCEPT ![jobCounter] = [req |-> r, isStore |-> isStore]]
    BY <1>1, <1>2, <1>3 DEF UnderWay
  <1>5. ToCopy' = [ToCopy EXCEPT ![jobCounter] = NumWorkers]
    BY <1>1 DEF ToCopy, Issued
  <1>6. \A i \in Promise!UnderWay : UnderWay[i].req = r => isStore /\ UnderWay[i].isStore
    <2> TAKE i \in Promise!UnderWay
    <2> HAVE UnderWay[i].req = r
    <2>1. i \in jobs /\ job[i].req = r /\ UnderWay[i].isStore = job[i].isStore
      BY DEF Promise!UnderWay, Promise!NotUnderWay, UnderWay
    <2>2. i \in transferJobs[r]
      BY <2>1 DEF Bookkeeping, JobsAreOwned
    <2> QED BY <2>1, <2>2
  <1> QED BY <1>1, <1>2, <1>4, <1>5, <1>6 DEF Promise!Start

\* The end of a job is a Finish: every worker has copied its part.
LEMMA FinishTransfer ==
  ASSUME TypeOK, Bookkeeping, NEW j \in jobs, pc = "output", pending[j] = report[j],
         jobs' = jobs \ {j}, \A i \in JobIds \ {j} : job'[i] = job[i],
         UNCHANGED <<jobCounter, batchLoads, batchStores, left, resets>>
  PROVE  Promise!Finish(j)
  <1>1. j \in JobIds /\ Issued = {} /\ job[j].req \in Requests
    BY DEF Bookkeeping, IssuedAreUnsent, JobsAreIssued, TypeOK
  <1>2. j \in Promise!UnderWay
    <2>1. UnderWay[j].req # "none"
      BY <1>1, SetsAssumption DEF UnderWay
    <2> QED BY <1>1, <2>1 DEF Promise!UnderWay, Promise!NotUnderWay
  <1>3. left[j] = 0
    <2>1. pending[j] = Outstanding(j)
      BY <1>1 DEF Bookkeeping, SentAreCounted
    <2> QED BY <1>1, <2>1, ReportTypes DEF Outstanding
  <1>4. ToCopy[j] = 0
    BY <1>1, <1>3 DEF ToCopy, Issued
  <1>5. UnderWay' = [UnderWay EXCEPT ![j] = Promise!NotUnderWay]
    BY <1>1 DEF UnderWay, Promise!NotUnderWay
  <1>6. ToCopy' = ToCopy
    BY DEF ToCopy
  <1> QED BY <1>1, <1>2, <1>4, <1>5, <1>6 DEF Promise!Finish

-----------------------------------------------------------------------------
(***************************************************************************)
(* The steps of the scheduler.                                             *)
(***************************************************************************)
\* A load is started alone.
LEMMA AdmitWithLoadStarts ==
  ASSUME TypeOK, Bookkeeping, NEW r \in Requests, AdmitWithLoad(r)
  PROVE  Promise!Next \/ UNCHANGED Promise!vars
  <1>1. PICK local \in 0 .. PromptLen : \E c \in LoadableChunks(r, local) : AdmitWithLoad(r)!(local)!(c)
    BY DEF AdmitWithLoad
  <1>2. PICK c \in LoadableChunks(r, local) : AdmitWithLoad(r)!(local)!(c)
    BY <1>1
  <1>3. PICK t \in TablesFor(r, local, c * BlockSizeFactor, c * BlockSizeFactor) :
           IF transferJobs[r] # {}
           THEN Raise("load issued while jobs are pending")
           ELSE /\ IssueLoad(r, t, local, c)
                /\ UNCHANGED <<left, resets>>
    BY <1>2 DEF workerVars
  <1>4. CASE transferJobs[r] # {}
    BY <1>3, <1>4, RaiseStutter DEF Raise
  <1>5. CASE transferJobs[r] = {}
    <2> DEFINE copies == LoadCopies(t, local, c * BlockSizeFactor)
               keys   == LoadKeys(r, copies, c)
    <2>1. /\ NewJob(r, FALSE, keys, copies)
          /\ batchLoads' = batchLoads \cup {jobCounter} /\ batchStores' = batchStores
      BY <1>3, <1>5 DEF IssueLoad
    <2>2. Issued' = Issued \cup {jobCounter} /\ UNCHANGED <<left, resets>>
      BY <1>3, <1>5, <2>1 DEF Issued
    <2> HIDE DEF copies, keys
    <2>3. Promise!Start(r, FALSE)
      BY <1>2, <1>5, <2>1, <2>2, StartTransfer
    <2> QED BY <2>3 DEF Promise!Next
  <1> QED BY <1>4, <1>5

\* A store is started among the stores of its request.
LEMMA StoreJobsStart ==
  ASSUME TypeOK, Bookkeeping, NEW r \in Requests, StoreJobs(r)
  PROVE  Promise!Next \/ UNCHANGED Promise!vars
  <1>1. PICK tokens \in Offloadable(r) : StoreJobs(r)!2!(tokens)
    BY DEF StoreJobs
  <1> DEFINE end  == ChunkOf(tokens)
             new  == {Key(r, s[1], s[2]) : s \in NewChunks(r, end)}
             keys == new \ Held
             copies == StoreCopies(r, end, keys)
  <1>2. CASE r \in tracked /\ Refused(r, end) # "none"
    BY <1>1, <1>2, RaiseStutter DEF Raise
  <1>3. CASE ~(r \in tracked /\ Refused(r, end) # "none")
    <2>1. /\ IF r \in tracked THEN StoreChunks(r, end) ELSE SkipStore(nextStored)
          /\ UNCHANGED <<batchLoads, left, resets>>
      BY <1>1, <1>3 DEF workerVars
    <2>2. ASSUME NEW next, SkipStore(next)
          PROVE  UNCHANGED Promise!vars
      BY <2>1, <2>2, Stutter DEF SkipStore, jobVars
    <2>3. ASSUME r \in tracked, keys # {}, Evictions(new) # {},
                 NEW evicted \in Evictions(new), IssueStore(r, end, keys, evicted)
          PROVE  Promise!Next
      <3>1. jobCounter < MaxJobs
        BY <2>3, CountsAssumption DEF Evictions, TypeOK
      <3>2. \A j \in transferJobs[r] : job[j].isStore
        BY <1>3, <2>3 DEF Refused
      <3> HIDE DEF new, keys
      <3>3. NewJob(r, TRUE, keys, copies) /\ batchStores' = batchStores \cup {jobCounter}
        BY <2>3 DEF IssueStore
      <3>4. Issued' = Issued \cup {jobCounter}
        BY <2>1, <3>3 DEF Issued
      <3> HIDE DEF copies
      <3>5. Promise!Start(r, TRUE)
        BY <2>1, <3>1, <3>2, <3>3, <3>4, StartTransfer
      <3> QED BY <3>5 DEF Promise!Next
    <2> QED BY <2>1, <2>2, <2>3 DEF StoreChunks
  <1> QED BY <1>2, <1>3

\* A flush ends the copies that it waits for; the step's own jobs begin.
LEMMA EndConnectorMetaCopies ==
  ASSUME TypeOK, Bookkeeping, LeftBounded, EndConnectorMeta
  PROVE  Promise!Copy
  <1>1. /\ left' = [j \in JobIds |-> IF j \in batchLoads \cup batchStores THEN NumWorkers
                                     ELSE IF j \in toFlush THEN 0 ELSE left[j]]
        /\ batchLoads' = {} /\ batchStores' = {}
        /\ UNCHANGED <<jobs, job, jobCounter, resets>>
    BY DEF EndConnectorMeta, jobVars
  <1>2. \A j \in JobIds : left[j] \in Nat /\ left[j] <= NumWorkers
    BY DEF TypeOK, Counts, LeftBounded
  <1>3. \A j \in JobIds : ToCopy'[j] \in Nat /\ ToCopy'[j] <= ToCopy[j] /\ ToCopy[j] <= NumWorkers
    BY <1>1, <1>2, CountsAssumption DEF ToCopy
  <1> QED BY <1>1, <1>3, CopyStep

\* A worker's part of a transfer is one copy less.
LEMMA WorkerDoneCopies ==
  ASSUME TypeOK, Bookkeeping, LeftBounded, NEW j \in JobIds, WorkerDone(j)
  PROVE  Promise!Copy
  <1>1. /\ left' = [left EXCEPT ![j] = @ - 1] /\ left[j] > 0
        /\ UNCHANGED <<jobs, job, jobCounter, batchLoads, batchStores, resets>>
    BY DEF WorkerDone, jobVars, batchVars
  <1>2. \A i \in JobIds : left[i] \in Nat /\ left[i] <= NumWorkers
    BY DEF TypeOK, Counts, LeftBounded
  <1>3. \A i \in JobIds : left'[i] = IF i = j THEN left[i] - 1 ELSE left[i]
    BY <1>1 DEF TypeOK, Counts
  <1>4. \A i \in JobIds : ToCopy'[i] \in Nat /\ ToCopy'[i] <= ToCopy[i] /\ ToCopy[i] <= NumWorkers
    BY <1>1, <1>2, <1>3, CountsAssumption DEF ToCopy
  <1> QED BY <1>1, <1>4, CopyStep

\* A report ends its job or leaves it under way; a discarded job's report does nothing.
LEMMA UpdateConnectorOutputFinishes ==
  ASSUME TypeOK, Bookkeeping, NEW j \in JobIds, UpdateConnectorOutput(j)
  PROVE  Promise!Next \/ UNCHANGED Promise!vars
  <1>1. CASE j >= staleJob /\ CompletionError(j) # "none"
    BY <1>1, RaiseStutter DEF UpdateConnectorOutput, Raise
  <1>2. CASE ~(j >= staleJob /\ CompletionError(j) # "none")
    <2>1. /\ pc = "output" /\ report[j] > 0
          /\ job' = IF Drained(j) THEN [job EXCEPT ![j] = NoJob] ELSE job
          /\ UNCHANGED <<jobCounter, batchLoads, batchStores, left, resets>>
      BY <1>2 DEF UpdateConnectorOutput, batchVars
    <2>2. \A i \in JobIds \ {j} : job'[i] = job[i]
      BY <2>1 DEF TypeOK
    <2>3. CASE j < staleJob
      <3>1. jobs' = jobs
        BY <1>2, <2>3 DEF UpdateConnectorOutput
      <3>2. j \notin jobs
        BY <2>3 DEF Bookkeeping, JobsAreIssued, JobIds, TypeOK
      <3>3. \A i \in jobs : job'[i] = job[i]
        BY <2>2, <3>2 DEF TypeOK
      <3> QED BY <2>1, <3>1, <3>3, Stutter
    <2>4. CASE ~(j < staleJob)
      <3>1. CompletionError(j) = "none"
        <4>1. j >= staleJob
          BY <2>4 DEF JobIds, TypeOK
        <4> QED BY <1>2, <4>1
      <3>2. j \in jobs /\ ~(report[j] > pending[j])
        BY <3>1 DEF CompletionError
      <3>3. CASE report[j] < pending[j]
        <4>1. jobs' = jobs
          BY <1>2, <2>4, <3>3 DEF UpdateConnectorOutput
        <4>2. ~Drained(j)
          <5>1. pending[j] = Outstanding(j)
            BY <2>1, <3>2 DEF Bookkeeping, IssuedAreUnsent, SentAreCounted
          <5>2. Outstanding(j) # report[j]
            BY <3>3, <5>1, ReportTypes
          <5>3. report[j] \in Nat
            BY ReportTypes
          <5> QED BY <5>2, <5>3 DEF Drained, Outstanding
        <4>3. job' = job
          BY <2>1, <4>2
        <4> QED BY <2>1, <4>1, <4>3, Stutter
      <3>4. CASE ~(report[j] < pending[j])
        <4>1. pending[j] = report[j]
          BY <3>2, <3>4, ReportTypes
        <4>2. jobs' = jobs \ {j}
          BY <1>2, <2>4, <3>4 DEF UpdateConnectorOutput, CompleteJob
        <4>3. Promise!Finish(j)
          BY <2>1, <2>2, <3>2, <4>1, <4>2, FinishTransfer
        <4> QED BY <4>3 DEF Promise!Next
      <3> QED BY <3>3, <3>4
    <2> QED BY <2>3, <2>4
  <1> QED BY <1>1, <1>2

\* reset_cache is a Discard.
LEMMA ResetCacheDiscards ==
  ASSUME TypeOK, Bookkeeping, ResetCache
  PROVE  Promise!Next \/ UNCHANGED Promise!vars
  <1>1. CASE batchLoads # {} \/ toFlush # {} \/ allocated # {}
    BY <1>1, RaiseStutter DEF ResetCache, Raise
  <1>2. CASE ~(batchLoads # {} \/ toFlush # {} \/ allocated # {})
    <2>1. /\ jobs' = {} /\ resets' = resets + 1
          /\ UNCHANGED <<jobCounter, batchLoads, batchStores, left>>
      BY <1>2 DEF ResetCache, workerVars
    <2>2. UnderWay' = [j \in JobIds |-> Promise!NotUnderWay]
      BY <2>1 DEF UnderWay, Promise!NotUnderWay
    <2>3. ToCopy' = ToCopy
      BY <2>1 DEF ToCopy
    <2> QED BY <2>1, <2>2, <2>3 DEF Promise!Next, Promise!Discard
  <1> QED BY <1>1, <1>2

-----------------------------------------------------------------------------
\* Every step of the scheduler is a step of Transfers or a stutter.
LEMMA NextImplements ==
  ASSUME TypeOK, Bookkeeping, LeftBounded, [Next]_vars
  PROVE  [Promise!Next]_(Promise!vars)
  <1>1. CASE StartStep \/ TakeOutput \/ UNCHANGED vars
    <2>1. UNCHANGED <<jobs, job, jobCounter, batchLoads, batchStores, left, resets>>
      BY <1>1 DEF StartStep, TakeOutput, vars, jobVars, batchVars, workerVars
    <2> QED BY <2>1, Stutter
  <1>2. CASE BeginConnectorMeta
    <2>1. UNCHANGED <<jobs, job, jobCounter, batchLoads, batchStores, left, resets>>
      BY <1>2 DEF BeginConnectorMeta, Raise, jobVars, batchVars, workerVars
    <2> QED BY <2>1, Stutter
  <1>3. ASSUME NEW r \in Requests, StoreJobs(r)
        PROVE  [Promise!Next]_(Promise!vars)
    BY <1>3, StoreJobsStart
  <1>4. CASE EndConnectorMeta
    BY <1>4, EndConnectorMetaCopies DEF Promise!Next
  <1>5. ASSUME NEW j \in JobIds, UpdateConnectorOutput(j)
        PROVE  [Promise!Next]_(Promise!vars)
    BY <1>5, UpdateConnectorOutputFinishes
  <1>6. ASSUME NEW r \in Requests, Scheduling(r)
        PROVE  [Promise!Next]_(Promise!vars)
    <2>1. CASE AdmitWithLoad(r)
      BY <2>1, AdmitWithLoadStarts
    <2>2. CASE ~AdmitWithLoad(r)
      <3>1. UNCHANGED <<jobs, job, jobCounter, batchLoads, batchStores, left, resets>>
        BY <1>6, <2>2 DEF Scheduling, NotAdmitted, AdmitWithoutLoad, ScheduleLoaded,
                          ScheduleRunning, Preempt, jobVars, batchVars, workerVars
      <3> QED BY <3>1, Stutter
    <2> QED BY <2>1, <2>2
  <1>7. ASSUME NEW r \in Requests, Calls(r)
        PROVE  [Promise!Next]_(Promise!vars)
    <2>1. UNCHANGED <<jobs, job, jobCounter, batchLoads, batchStores, left, resets>>
      BY <1>7 DEF Calls, OnNewRequest, RequestFinished, Raise, jobVars, batchVars, workerVars
    <2> QED BY <2>1, Stutter
  <1>8. ASSUME NEW j \in JobIds, WorkerDone(j)
        PROVE  [Promise!Next]_(Promise!vars)
    BY <1>8, WorkerDoneCopies DEF Promise!Next
  <1>9. CASE ResetCache
    BY <1>9, ResetCacheDiscards
  <1> QED
    BY <1>1, <1>2, <1>3, <1>4, <1>5, <1>6, <1>7, <1>8, <1>9 DEF Next, EngineLoop, Stopped

\* No transfer has been started when the engine starts.
LEMMA InitImplements == Init => Promise!Init
  <1> SUFFICES ASSUME Init PROVE Promise!Init
    OBVIOUS
  <1>1. UnderWay = [j \in JobIds |-> Promise!NotUnderWay]
    BY DEF Init, UnderWay, Promise!NotUnderWay
  <1>2. ToCopy = [j \in JobIds |-> 0]
    BY DEF Init, ToCopy, NoReport
  <1> QED BY <1>1, <1>2 DEF Init, Promise!Init

\* The connector implements Transfers: however steps, reports, flushes, aborts,
\* preemptions and resets interleave, ids are given out once, a load of a request
\* never meets another transfer of it, a transfer is over only when every worker
\* has copied its part, and reset_cache alone discards transfers.
THEOREM TransfersImplemented == Spec => ImplementsTransfers
  <1>1. Init => LeftBounded
    BY CountsAssumption DEF Init, LeftBounded, NoReport
  <1>2. TypeOK /\ LeftBounded /\ [Next]_vars => LeftBounded'
    BY NextLeftBounded
  <1>3. TypeOK /\ Bookkeeping /\ LeftBounded /\ [Next]_vars => [Promise!Next]_(Promise!vars)
    BY NextImplements
  <1> QED
    BY <1>1, <1>2, <1>3, InitImplements, TypeCorrect, BookkeepingCorrect, PTL
       DEF Spec, ImplementsTransfers, Promise!Spec

=============================================================================
