------------------------ MODULE CleanSchedulerProofs ------------------------
(***************************************************************************)
(* A theorem about CleanScheduler.  Statuses are created by the first      *)
(* question for a hit and deleted in two places, request_finished and      *)
(* update_connector_output, whichever comes last.                          *)
(***************************************************************************)
EXTENDS CleanScheduler, TLAPS

\* What has a status has been asked for, so that it has arrived.
StatusInv ==
    /\ phase \in [Requests -> Phases]
    /\ transferJobs \in [Requests -> SUBSET Nat]
    /\ jobCounter \in Nat /\ staleJob \in Nat
    /\ tracked \subseteq Requests
    /\ \A r \in tracked : phase[r] # "unborn"
    /\ StatusFollowsRequest

\* A request that has its status may start, be preempted, and begin transfers.
LEMMA ActiveStatus ==
  ASSUME StatusInv, NEW r \in Requests, r \in tracked',
         tracked' = tracked \cup {r},
         UNCHANGED jobCounter \/ jobCounter' = jobCounter + 1, UNCHANGED staleJob,
         \/ UNCHANGED transferJobs
         \/ transferJobs' = [transferJobs EXCEPT ![r] = @ \cup {jobCounter}],
         \/ UNCHANGED phase /\ (phase[r] = "waiting" \/ r \in tracked)
         \/ /\ phase[r] \in {"waiting", "loaded", "running"}
            /\ \E p \in {"waiting", "loading", "running"} : phase' = [phase EXCEPT ![r] = p]
  PROVE  StatusInv'
  <1>1. /\ phase' \in [Requests -> Phases] /\ transferJobs' \in [Requests -> SUBSET Nat]
        /\ jobCounter' \in Nat /\ staleJob' \in Nat /\ tracked' \subseteq Requests
    BY DEF StatusInv, Phases
  <1>2. ASSUME NEW q \in Requests
        PROVE  /\ phase'[q] \in {"running", "loading", "loaded"} \/ transferJobs'[q] # {} => q \in tracked'
               /\ q \in tracked' => phase'[q] # "unborn"
               /\ q \in tracked' => phase'[q] \notin {"unborn", "finished"} \/ transferJobs'[q] # {}
    <2>1. CASE q = r
      BY <2>1 DEF StatusInv, StatusFollowsRequest, Live
    <2>2. CASE q # r
      <3>1. phase'[q] = phase[q] /\ transferJobs'[q] = transferJobs[q] /\ (q \in tracked' <=> q \in tracked)
        BY <2>2 DEF StatusInv
      <3> QED BY <3>1 DEF StatusInv, StatusFollowsRequest, Live
    <2> QED BY <2>1, <2>2
  <1> QED BY <1>1, <1>2 DEF StatusInv, StatusFollowsRequest, Live

\* Steps that touch neither statuses nor jobs nor the life of a request.
LEMMA SameStatus ==
  ASSUME StatusInv, UNCHANGED <<phase, transferJobs, jobCounter, tracked>>, staleJob' \in {staleJob, jobCounter}
  PROVE  StatusInv'
  BY DEF StatusInv, StatusFollowsRequest, Live

\* The engine schedules requests.
LEMMA SchedulingStatus ==
  ASSUME StatusInv, NEW r \in Requests, CleanScheduling(r)
  PROVE  StatusInv'
  <1>1. CASE CleanNotAdmitted(r)
    BY <1>1, ActiveStatus DEF CleanNotAdmitted, Admissible, Asked, engineVars, jobVars
  <1>2. CASE CleanAdmitWithLoad(r)
    <2>1. phase[r] = "waiting"
      BY <1>2 DEF CleanAdmitWithLoad, Admissible
    <2>2. CASE \E e : Raise(e)
      BY <2>2, SameStatus DEF Raise, engineVars, requestVars, jobVars
    <2>3. ASSUME NEW local \in 0 .. PromptLen, NEW c \in LoadableChunks(r, local),
                 NEW t \in TablesFor(r, local, c * BlockSizeFactor, c * BlockSizeFactor),
                 CleanIssueLoad(r, t, local, c), LoadInto(r, t, local, c * BlockSizeFactor), Asked(r),
                 UNCHANGED staleJob
          PROVE  StatusInv'
      <3>1. /\ jobCounter' = jobCounter + 1 /\ transferJobs' = [transferJobs EXCEPT ![r] = @ \cup {jobCounter}]
            /\ phase' = [phase EXCEPT ![r] = "loading"] /\ tracked' = tracked \cup {r}
        BY <2>3 DEF CleanIssueLoad, NewJob, LoadInto, Asked
      <3> QED BY <2>1, <2>3, <3>1, ActiveStatus
    <2> QED BY <1>2, <2>2, <2>3 DEF CleanAdmitWithLoad
  <1>3. CASE Preempt(r)
    <2>1. r \in tracked
      BY <1>3 DEF Preempt, StatusInv, StatusFollowsRequest
    <2> QED BY <1>3, <2>1, ActiveStatus DEF Preempt, requestVars, jobVars
  <1>4. ASSUME NEW n \in 1 .. MaxChunk, CleanAdmitWithoutLoad(r, n)
        PROVE  StatusInv'
    <2>1. /\ phase[r] = "waiting" /\ phase' = [phase EXCEPT ![r] = "running"] /\ tracked' = tracked \cup {r}
          /\ UNCHANGED <<transferJobs, jobCounter, staleJob>>
      BY <1>4 DEF CleanAdmitWithoutLoad, Admissible, StartOn, Asked, jobVars
    <2> QED BY <2>1, ActiveStatus
  <1>5. ASSUME NEW n \in 1 .. MaxChunk, ScheduleLoaded(r, n)
        PROVE  StatusInv'
    <2>1. r \in tracked
      BY <1>5 DEF ScheduleLoaded, StatusInv, StatusFollowsRequest
    <2> QED BY <1>5, <2>1, ActiveStatus DEF ScheduleLoaded, requestVars, jobVars
  <1>6. ASSUME NEW n \in 1 .. MaxChunk, ScheduleRunning(r, n)
        PROVE  StatusInv'
    BY <1>6, SameStatus DEF ScheduleRunning, requestVars, jobVars
  <1> QED BY <1>1, <1>2, <1>3, <1>4, <1>5, <1>6 DEF CleanScheduling

\* One iteration of _build_store_jobs: only a request with a status stores.
LEMMA StoreStatus ==
  ASSUME StatusInv, NEW r \in Requests, CleanStoreJobs(r)
  PROVE  StatusInv'
  <1>1. CASE \E e : Raise(e)
    BY <1>1, SameStatus DEF Raise, engineVars, requestVars, jobVars
  <1>2. ASSUME NEW end, r \in tracked, CleanStoreChunks(r, end), UNCHANGED <<phase, tracked, staleJob>>
        PROVE  StatusInv'
    <2>1. CASE \E next : SkipStore(next)
      BY <1>2, <2>1, SameStatus DEF SkipStore, jobVars
    <2>2. ASSUME NEW keys, NEW evicted, CleanIssueStore(r, end, keys, evicted)
          PROVE  StatusInv'
      <3>1. jobCounter' = jobCounter + 1 /\ transferJobs' = [transferJobs EXCEPT ![r] = @ \cup {jobCounter}]
        BY <2>2 DEF CleanIssueStore, NewJob
      <3>2. tracked' = tracked \cup {r} /\ r \in tracked'
        BY <1>2
      <3> QED BY <1>2, <3>1, <3>2, ActiveStatus
    <2> QED BY <1>2, <2>1, <2>2 DEF CleanStoreChunks
  <1> QED BY <1>1, <1>2 DEF CleanStoreJobs, engineVars

\* A report: the status of a request that is over goes with its last transfer.
LEMMA ReportStatus ==
  ASSUME StatusInv, NEW j \in JobIds, UpdateConnectorOutput(j)
  PROVE  StatusInv'
  <1> DEFINE q == job[j].req
  <1>1. CASE \E e : Raise(e)
    BY <1>1, SameStatus DEF Raise, engineVars, requestVars, jobVars
  <1>2. CASE ~\E e : Raise(e)
    <2>1. /\ LoadArrived(j) /\ jobCounter' = jobCounter /\ staleJob' = staleJob
          /\ \/ UNCHANGED <<requestVars, transferJobs>>
             \/ q \in tracked /\ CompleteJob(j)
      <3>1. CASE j < staleJob
        BY <1>2, <3>1 DEF UpdateConnectorOutput
      <3>2. CASE ~(j < staleJob) /\ report[j] < pending[j]
        BY <1>2, <3>2 DEF UpdateConnectorOutput
      <3>3. CASE ~(j < staleJob) /\ ~(report[j] < pending[j])
        <4>1. CompleteJob(j) /\ LoadArrived(j) /\ UNCHANGED <<jobCounter, staleJob>>
          BY <1>2, <3>3 DEF UpdateConnectorOutput
        <4>2. CompletionError(j) = "none"
          <5>1. j \in Int /\ staleJob \in Int
            BY CountsAssumption DEF JobIds, StatusInv
          <5> QED BY <1>2, <3>3, <5>1 DEF UpdateConnectorOutput
        <4>3. q \in tracked
          BY <3>3, <4>2 DEF CompletionError
        <4> QED BY <4>1, <4>3
      <3> QED BY <3>1, <3>2, <3>3
    <2>2. /\ phase' \in [Requests -> Phases]
          /\ \A r \in Requests : phase'[r] = phase[r] \/ (phase[r] = "loading" /\ phase'[r] = "loaded")
      BY <2>1 DEF LoadArrived, StatusInv, Phases
    <2>3. CASE UNCHANGED <<requestVars, transferJobs>>
      BY <2>1, <2>2, <2>3 DEF requestVars, StatusInv, StatusFollowsRequest, Live
    <2>4. CASE q \in tracked /\ CompleteJob(j)
      <3>1. /\ transferJobs' = [transferJobs EXCEPT ![q] = transferJobs[q] \ {j}]
            /\ IF transferJobs[q] \ {j} = {} /\ Finished(q) THEN tracked' = tracked \ {q} ELSE tracked' = tracked
        BY <2>4 DEF CompleteJob, OtherTransferJobs, Forget, requestVars
      <3>2. q \in Requests /\ transferJobs' \in [Requests -> SUBSET Nat] /\ tracked' \subseteq Requests
        BY <2>4, <3>1 DEF StatusInv
      <3>3. ASSUME NEW r \in Requests
            PROVE  /\ phase'[r] \in {"running", "loading", "loaded"} \/ transferJobs'[r] # {} => r \in tracked'
                   /\ r \in tracked' => phase'[r] # "unborn"
                   /\ r \in tracked' => phase'[r] \notin {"unborn", "finished"} \/ transferJobs'[r] # {}
        <4>1. CASE r = q
          BY <2>2, <2>4, <3>1, <3>2, <4>1 DEF StatusInv, Finished
        <4>2. CASE r # q
          <5>1. transferJobs'[r] = transferJobs[r] /\ (r \in tracked' <=> r \in tracked)
            BY <3>1, <3>2, <4>2 DEF StatusInv
          <5> QED BY <2>2, <5>1 DEF StatusInv, StatusFollowsRequest, Live
        <4> QED BY <4>1, <4>2
      <3> QED BY <2>1, <2>2, <3>2, <3>3 DEF StatusInv, StatusFollowsRequest, Live
    <2> QED BY <2>1, <2>3, <2>4
  <1> QED BY <1>1, <1>2

\* A request ends: its status goes now, or with its last transfer.
LEMMA FinishedStatus ==
  ASSUME StatusInv, NEW r \in Requests, RequestFinished(r)
  PROVE  StatusInv'
  <1>1. CASE \E e : Raise(e)
    BY <1>1, SameStatus DEF Raise, engineVars, requestVars, jobVars
  <1>2. CASE ~\E e : Raise(e)
    <2>1. /\ phase' = [phase EXCEPT ![r] = "finished"] /\ UNCHANGED <<transferJobs, jobCounter, staleJob>>
          /\ IF r \in tracked /\ transferJobs[r] = {} THEN tracked' = tracked \ {r} ELSE tracked' = tracked
      BY <1>2 DEF RequestFinished, Forget, requestVars
    <2> QED BY <2>1 DEF StatusInv, StatusFollowsRequest, Live, Phases
  <1> QED BY <1>1, <1>2

\* Every step keeps the invariant.
LEMMA NextStatus ==
  ASSUME StatusInv, [CleanNext]_vars
  PROVE  StatusInv'
  <1>1. CASE StartStep \/ EndConnectorMeta \/ TakeOutput
    BY <1>1, SameStatus DEF StartStep, EndConnectorMeta, TakeOutput, engineVars, requestVars, jobVars
  <1>2. CASE CleanBeginConnectorMeta
    <2>1. (\E e : Raise(e)) \/ UNCHANGED <<engineVars, requestVars, jobVars, staleJob>>
      BY <1>2 DEF CleanBeginConnectorMeta
    <2> QED BY <2>1, SameStatus DEF Raise, engineVars, requestVars, jobVars
  <1>3. CASE \E r \in Requests : CleanStoreJobs(r)
    BY <1>3, StoreStatus
  <1>4. CASE \E j \in JobIds : UpdateConnectorOutput(j)
    BY <1>4, ReportStatus
  <1>5. CASE \E r \in Requests : CleanScheduling(r)
    BY <1>5, SchedulingStatus
  <1>6. ASSUME NEW r \in Requests, Arrive(r) PROVE StatusInv'
    <2>1. /\ phase[r] = "unborn" /\ phase' = [phase EXCEPT ![r] = "waiting"]
          /\ UNCHANGED <<transferJobs, jobCounter, staleJob, tracked>>
      BY <1>6 DEF Arrive, requestVars, jobVars
    <2> QED BY <2>1 DEF StatusInv, StatusFollowsRequest, Live, Phases
  <1>7. CASE \E r \in Requests : RequestFinished(r)
    BY <1>7, FinishedStatus
  <1>8. CASE \E j \in JobIds : WorkerDone(j)
    BY <1>8, SameStatus DEF WorkerDone, engineVars, requestVars, jobVars
  <1>9. CASE ResetCache
    <2>1. (\E e : Raise(e)) \/ (UNCHANGED <<phase, transferJobs, jobCounter, tracked>> /\ staleJob' = jobCounter)
      BY <1>9 DEF ResetCache, StaleBelow, engineVars
    <2> QED BY <2>1, SameStatus DEF Raise, engineVars, requestVars, jobVars
  <1>10. CASE Stopped \/ UNCHANGED vars
    BY <1>10, SameStatus DEF Stopped, vars, engineVars, requestVars, jobVars
  <1> QED BY <1>1, <1>2, <1>3, <1>4, <1>5, <1>6, <1>7, <1>8, <1>9, <1>10 DEF CleanNext, CleanLoop

\* Whatever the order in which a request is asked for, aborted, preempted and
\* reported, it has a status while it needs one, and none is left behind, also
\* when reset_cache is called meanwhile.
THEOREM StatusFollowsCorrect == CleanSpec => []StatusFollowsRequest
  <1>1. Init => StatusInv
    BY DEF Init, StatusInv, StatusFollowsRequest, Live, Phases
  <1>2. StatusInv => StatusFollowsRequest
    BY DEF StatusInv
  <1> QED BY <1>1, <1>2, NextStatus, PTL DEF CleanSpec

=============================================================================
