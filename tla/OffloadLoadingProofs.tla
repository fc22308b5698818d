------------------------ MODULE OffloadLoadingProofs ------------------------
(***************************************************************************)
(* What loads read, and what the connector knows of block tables.          *)
(*                                                                         *)
(* _blocks_being_loaded is exact: it holds the keys of the pending loads,  *)
(* and no chunk is brought in by two of them.  A load takes only keys of   *)
(* the hit that _lookup checked against _blocks_being_loaded, although it  *)
(* computes them anew from the blocks it was given; that is the arithmetic *)
(* of the first section.                                                   *)
(*                                                                         *)
(* Then the block lists: they have no gap in full-attention groups, and    *)
(* the connector's copy of a request's table follows the engine's.         *)
(*                                                                         *)
(* Then the pool: a chunk is stored once, pinned while it is loaded, and,  *)
(* where no chunk can be stored in part, a load finds every block that it  *)
(* reads.  All of this holds across reset_cache.                           *)
(***************************************************************************)
EXTENDS OffloadBookkeepingProofs

-----------------------------------------------------------------------------
(***************************************************************************)
(* The keys of a load are among the keys of its hit.                       *)
(***************************************************************************)
\* A request is only given blocks for the positions that its groups still need.
LEMMA TablesForNeeded ==
  ASSUME NEW r \in Requests, NEW local \in Nat, NEW hit \in Nat,
         NEW t \in TablesFor(r, local, hit, hit), NEW g \in Groups, NEW p \in 0 .. hit - 1,
         t[g][p + 1] \in Blocks
  PROVE  p \in Needed(g, hit)
  <1> DEFINE slots(h)  == (Needed(h, hit) \cup hit .. hit - 1)
             used      == {s \in Groups \X (0 .. hit - 1) : s[2] \in slots(s[1])}
             cachedAt  == {s \in used : s[2] < local}
             freshAt   == {s \in used : s[2] >= local}
             hitBlocks == {f \in [cachedAt -> Blocks] :
                             \A s \in cachedAt : content[f[s]] = Data(r, s[1], s[2])}
             entry(f, h, s) == CASE s \in cachedAt -> h[s]
                                 [] s \in freshAt  -> f[s]
                                 [] OTHER          -> NullBlock
             with(h) == {[q \in Groups |-> [i \in 1 .. hit |-> entry(f, h, <<q, i - 1>>)]] :
                           f \in Injection(freshAt, Free \ Range(h))}
  <1>1. TablesFor(r, local, hit, hit) = UNION {with(h) : h \in hitBlocks}
    BY Zenon DEF TablesFor
  <1>2. PICK h \in hitBlocks : t \in with(h)
    <2> HIDE DEF with, hitBlocks
    <2> QED BY <1>1
  <1>3. PICK f \in Injection(freshAt, Free \ Range(h)) :
          t = [q \in Groups |-> [i \in 1 .. hit |-> entry(f, h, <<q, i - 1>>)]]
    BY <1>2
  <1>4. t[g][p + 1] = entry(f, h, <<g, p>>)
    <2> HIDE DEF entry
    <2>1. p + 1 \in 1 .. hit /\ (p + 1) - 1 = p
      OBVIOUS
    <2> QED BY <1>3, <2>1
  <1>5. entry(f, h, <<g, p>>) # NullBlock
    BY <1>4, SetsAssumption
  <1>6. <<g, p>> \in cachedAt \/ <<g, p>> \in freshAt
    <2> HIDE DEF cachedAt, freshAt
    <2> QED BY <1>5
  <1>7. <<g, p>> \in used
    <2> HIDE DEF used
    <2> QED BY <1>6
  <1>8. p \in slots(g)
    BY <1>7
  <1> QED BY <1>8

\* A load takes only keys that _lookup found and checked.
LEMMA LoadKeysHit ==
  ASSUME TypeOK, NEW r \in Requests, NEW local \in Nat, NEW c \in Nat,
         NEW t \in TablesFor(r, local, c * BlockSizeFactor, c * BlockSizeFactor)
  PROVE  LoadKeys(r, LoadCopies(t, local, c * BlockSizeFactor), c) \subseteq HitKeys(r, c, local)
  <1> DEFINE hit == c * BlockSizeFactor
             copies == LoadCopies(t, local, hit)
  <1>1. hit \in Nat /\ BlockSizeFactor \in Nat \ {0} /\ Window \in Nat
    BY CountsAssumption
  <1> SUFFICES ASSUME NEW g \in Groups, NEW i \in 0 .. c - 1,
                      NEW d \in copies, d[1] = g, ChunkOf(d[2]) <= i
               PROVE  Key(r, g, i) \in HitKeys(r, c, local)
    BY DEF LoadKeys
  <1>2. PICK p \in local .. hit - 1 : d = <<g, p, t[g][p + 1]>> /\ t[g][p + 1] \in Blocks
    BY DEF LoadCopies
  <1> HIDE DEF hit
  <1>3. p \in Nat /\ local <= p /\ p \in 0 .. hit - 1 /\ d[2] = p
    BY <1>1, <1>2
  <1>4. ChunkOf(local) <= ChunkOf(p) /\ ChunkOf(local) \in Nat /\ ChunkOf(p) \in Nat
    BY <1>3, ChunkOrder
  <1>5. p \in Needed(g, hit)
    BY <1>1, <1>2, <1>3, TablesForNeeded DEF hit
  <1>6. WindowChunks \in Nat
    <2>1. Window + BlockSizeFactor - 1 \in Nat
      BY <1>1
    <2> QED BY <1>1, <2>1, Quotient DEF WindowChunks, CDiv
  <1>7. i \in HitChunks(g, c, ChunkOf(local))
    <2>1. CASE g \in SWGroups
      <3>1. hit - Window <= p
        BY <1>1, <1>3, <1>5, <2>1 DEF Needed, AtLeast0
      <3>2. c - WindowChunks <= ChunkOf(p)
        BY <1>3, <3>1, WindowInChunks DEF hit
      <3> QED BY <1>3, <1>4, <1>6, <2>1, <3>2 DEF HitChunks, AtLeast
    <2>2. CASE g \notin SWGroups
      BY <1>3, <1>4, <2>2 DEF HitChunks
    <2> QED BY <2>1, <2>2
  <1> QED BY <1>7 DEF HitKeys

-----------------------------------------------------------------------------
(***************************************************************************)
(* The steps.                                                              *)
(***************************************************************************)
\* A step that changes neither the jobs nor the keys being loaded.
LEMMA KeptLoading ==
  ASSUME LoadingExact, UNCHANGED <<jobs, loading>>, \A j \in jobs : job'[j] = job[j]
  PROVE  LoadingExact'
  BY DEF LoadingExact, KeysOf

\* A job is a load or a store.
LEMMA LoadOrStore ==
  ASSUME TypeOK, NEW j \in jobs
  PROVE  job[j].isStore \in BOOLEAN
  <1>1. job[j] \in Job
    BY DEF TypeOK
  <1>2. CASE job[j] = NoJob
    <2>1. job[j].isStore = FALSE
      BY <1>2 DEF NoJob
    <2> QED BY <2>1
  <1>3. CASE job[j] # NoJob
    <2>1. job[j] \in [req : Requests, isStore : BOOLEAN, keys : SUBSET Keys, copies : SUBSET Copy]
      BY <1>1, <1>3 DEF Job
    <2> QED BY <2>1
  <1> QED BY <1>2, <1>3

\* A load brings in chunks that no other load does.
LEMMA AdmitWithLoadLoading ==
  ASSUME TypeOK, Bookkeeping, LoadingExact, NEW r \in Requests, AdmitWithLoad(r)
  PROVE  LoadingExact'
  <1>1. PICK local \in 0 .. PromptLen : \E c \in LoadableChunks(r, local) : AdmitWithLoad(r)!(local)!(c)
    BY DEF AdmitWithLoad
  <1>2. PICK c \in LoadableChunks(r, local) : AdmitWithLoad(r)!(local)!(c)
    BY <1>1
  <1>3. PICK t \in TablesFor(r, local, c * BlockSizeFactor, c * BlockSizeFactor) :
           IF transferJobs[r] # {}
           THEN Raise("load issued while jobs are pending")
           ELSE IssueLoad(r, t, local, c)
    BY <1>2
  <1>4. CASE transferJobs[r] # {}
    BY <1>3, <1>4, KeptLoading DEF Raise, jobVars
  <1>5. CASE transferJobs[r] = {}
    <2> DEFINE copies == LoadCopies(t, local, c * BlockSizeFactor)
               keys   == LoadKeys(r, copies, c)
    <2>1. /\ NewJob(r, FALSE, keys, copies)
          /\ loading' = IF PrefixCaching THEN loading \cup keys ELSE loading
      BY <1>3, <1>5 DEF IssueLoad
    <2>2. keys \cap loading = {}
      <3>1. c \in Nat /\ local \in Nat
        BY CountsAssumption DEF LoadableChunks
      <3>2. keys \subseteq HitKeys(r, c, local)
        BY <3>1, LoadKeysHit
      <3>3. HitKeys(r, c, local) \cap loading = {}
        BY <1>2 DEF BeingLoaded
      <3> HIDE DEF keys
      <3> QED BY <3>2, <3>3
    <2> HIDE DEF keys, copies
    <2>3. PICK n \in JobIds : n = jobCounter
      <3>1. jobCounter < MaxJobs
        BY <1>2
      <3> QED BY <3>1, CountsAssumption DEF TypeOK, JobIds
    <2>4. /\ jobs' = jobs \cup {n}
          /\ job'[n].keys = keys /\ job'[n].isStore = FALSE
          /\ \A j \in JobIds \ {n} : job'[j] = job[j]
      BY <2>1, <2>3 DEF NewJob, TypeOK
    <2>5. \A j \in jobs : j # n /\ job'[j] = job[j]
      BY <2>3, <2>4 DEF Bookkeeping, JobsAreIssued, TypeOK, JobIds
    <2> SUFFICES ASSUME PrefixCaching
                 PROVE  /\ loading' = KeysOf(FALSE)'
                        /\ \A i, j \in jobs' : i # j /\ ~job'[i].isStore /\ ~job'[j].isStore
                                                 => job'[i].keys \cap job'[j].keys = {}
      BY DEF LoadingExact
    <2>6. KeysOf(FALSE)' = KeysOf(FALSE) \cup keys
      <3>1. {job'[j].keys : j \in {i \in jobs' : job'[i].isStore = FALSE}} =
              {job[j].keys : j \in {i \in jobs : job[i].isStore = FALSE}} \cup {keys}
        BY <2>4, <2>5
      <3> QED BY <3>1 DEF KeysOf
    <2>7. \A j \in jobs : ~job[j].isStore => job[j].keys \subseteq loading
      <3>1. \A j \in jobs : job[j].isStore \in BOOLEAN
        BY LoadOrStore
      <3> QED BY <3>1 DEF LoadingExact, KeysOf
    <2>8. \A j \in jobs : ~job[j].isStore => job[j].keys \cap keys = {}
      BY <2>2, <2>7
    <2> QED BY <2>1, <2>4, <2>5, <2>6, <2>8 DEF LoadingExact
  <1> QED BY <1>4, <1>5

\* A store loads nothing.
LEMMA StoreJobsLoading ==
  ASSUME TypeOK, Bookkeeping, LoadingExact, NEW r \in Requests, StoreJobs(r)
  PROVE  LoadingExact'
  <1>1. PICK tokens \in Offloadable(r) : StoreJobs(r)!2!(tokens)
    BY DEF StoreJobs
  <1> DEFINE end  == ChunkOf(tokens)
             new  == {Key(r, s[1], s[2]) : s \in NewChunks(r, end)}
             keys == new \ Held
             copies == StoreCopies(r, end, keys)
  <1>2. CASE r \in tracked /\ Refused(r, end) # "none"
    BY <1>1, <1>2, KeptLoading DEF Raise, jobVars
  <1>3. CASE ~(r \in tracked /\ Refused(r, end) # "none")
    <2>1. /\ IF r \in tracked THEN StoreChunks(r, end) ELSE SkipStore(nextStored)
          /\ loading' = loading
      BY <1>1, <1>3
    <2>2. ASSUME NEW next, SkipStore(next)
          PROVE  LoadingExact'
      BY <2>1, <2>2, KeptLoading DEF SkipStore, jobVars
    <2>3. ASSUME keys # {}, Evictions(new) # {},
                 NEW evicted \in Evictions(new), IssueStore(r, end, keys, evicted)
          PROVE  LoadingExact'
      <3> HIDE DEF keys
      <3>1. NewJob(r, TRUE, keys, copies)
        BY <2>3 DEF IssueStore
      <3>2. jobCounter < MaxJobs
        BY <2>3, CountsAssumption DEF Evictions, TypeOK
      <3> HIDE DEF copies
      <3>3. PICK n \in JobIds : n = jobCounter
        BY <3>2, CountsAssumption DEF TypeOK, JobIds
      <3>4. jobs' = jobs \cup {n} /\ job'[n].isStore /\ \A j \in JobIds \ {n} : job'[j] = job[j]
        BY <3>1, <3>3 DEF NewJob, TypeOK
      <3>5. \A j \in jobs : j # n /\ job'[j] = job[j]
        BY <3>3, <3>4 DEF Bookkeeping, JobsAreIssued, TypeOK, JobIds
      <3>6. KeysOf(FALSE)' = KeysOf(FALSE)
        <4>1. {i \in jobs' : job'[i].isStore = FALSE} = {i \in jobs : job[i].isStore = FALSE}
          BY <3>4, <3>5
        <4> QED BY <3>5, <4>1 DEF KeysOf
      <3> QED BY <2>1, <3>4, <3>5, <3>6 DEF LoadingExact
    <2> QED BY <2>1, <2>2, <2>3 DEF StoreChunks
  <1> QED BY <1>2, <1>3

\* The end of a load takes exactly its keys away.
LEMMA UpdateConnectorOutputLoading ==
  ASSUME TypeOK, Bookkeeping, LoadingExact, NEW j \in JobIds, UpdateConnectorOutput(j)
  PROVE  LoadingExact'
  <1>1. CASE j >= staleJob /\ CompletionError(j) # "none"
    BY <1>1, KeptLoading DEF UpdateConnectorOutput, Raise, jobVars
  <1>2. CASE ~(j >= staleJob /\ CompletionError(j) # "none")
    <2>1. pc = "output" /\ job' = IF Drained(j) THEN [job EXCEPT ![j] = NoJob] ELSE job
      BY <1>2 DEF UpdateConnectorOutput
    <2>2. \A i \in JobIds \ {j} : job'[i] = job[i]
      BY <2>1 DEF TypeOK
    <2>3. CASE j < staleJob
      <3>1. UNCHANGED <<jobs, loading>>
        BY <1>2, <2>3 DEF UpdateConnectorOutput
      <3>2. \A i \in jobs : i \in JobIds \ {j}
        BY <2>3 DEF Bookkeeping, JobsAreIssued, JobIds, TypeOK
      <3> QED BY <2>2, <3>1, <3>2, KeptLoading
    <2>4. CASE ~(j < staleJob)
      <3>1. CompletionError(j) = "none"
        <4>1. j >= staleJob
          BY <2>4 DEF JobIds, TypeOK
        <4> QED BY <1>2, <4>1
      <3>2. j \in jobs
        BY <3>1 DEF CompletionError
      <3>3. CASE report[j] < pending[j]
        <4>1. UNCHANGED <<jobs, loading>>
          BY <1>2, <2>4, <3>3 DEF UpdateConnectorOutput
        <4>2. ~Drained(j)
          <5>1. pending[j] = Outstanding(j)
            BY <2>1, <3>2 DEF Bookkeeping, IssuedAreUnsent, SentAreCounted
          <5>2. Outstanding(j) # report[j]
            BY <3>3, <5>1, ReportTypes
          <5>3. report[j] \in Nat
            BY ReportTypes
          <5> QED BY <5>2, <5>3 DEF Drained, Outstanding
        <4> QED BY <2>1, <4>1, <4>2, KeptLoading
      <3>4. CASE ~(report[j] < pending[j])
        <4>1. /\ loading' = IF job[j].isStore THEN loading ELSE loading \ job[j].keys
              /\ jobs' = jobs \ {j}
          BY <1>2, <2>4, <3>4 DEF UpdateConnectorOutput, CompleteJob
        <4>2. \A i \in jobs' : i \in jobs /\ i # j /\ job'[i] = job[i]
          BY <2>2, <4>1 DEF TypeOK
        <4>3. \A i \in jobs : job[i].isStore \in BOOLEAN
          BY LoadOrStore
        <4> SUFFICES ASSUME PrefixCaching
                     PROVE  loading' = KeysOf(FALSE)'
          BY <4>2 DEF LoadingExact
        <4>4. loading = UNION {job[i].keys : i \in {k \in jobs : ~job[k].isStore}}
          BY <4>3 DEF LoadingExact, KeysOf
        <4>5. KeysOf(FALSE)' = UNION {job[i].keys : i \in {k \in jobs \ {j} : ~job[k].isStore}}
          <5>1. {k \in jobs' : job'[k].isStore = FALSE} = {k \in jobs \ {j} : ~job[k].isStore}
            BY <4>1, <4>2, <4>3
          <5>2. \A k \in jobs \ {j} : job'[k].keys = job[k].keys
            BY <4>1, <4>2
          <5> QED BY <5>1, <5>2 DEF KeysOf
        <4>6. CASE job[j].isStore
          BY <4>1, <4>4, <4>5, <4>6
        <4>7. CASE ~job[j].isStore
          <5>1. \A i \in jobs \ {j} : ~job[i].isStore => job[i].keys \cap job[j].keys = {}
            BY <3>2, <4>7 DEF LoadingExact
          <5> QED BY <3>2, <4>1, <4>4, <4>5, <4>7, <5>1
        <4> QED BY <4>6, <4>7
      <3> QED BY <3>3, <3>4
    <2> QED BY <2>3, <2>4
  <1> QED BY <1>1, <1>2

\* No step breaks it.
LEMMA NextLoading ==
  ASSUME TypeOK, Bookkeeping, LoadingExact, [Next]_vars
  PROVE  LoadingExact'
  <1>1. CASE StartStep \/ BeginConnectorMeta \/ EndConnectorMeta \/ TakeOutput \/ UNCHANGED vars
    <2>1. UNCHANGED <<jobs, job, loading>>
      BY <1>1 DEF StartStep, BeginConnectorMeta, EndConnectorMeta, TakeOutput, Raise, vars, jobVars
    <2> QED BY <2>1, KeptLoading
  <1>2. ASSUME NEW r \in Requests, Scheduling(r)
        PROVE  LoadingExact'
    <2>1. CASE AdmitWithLoad(r)
      BY <2>1, AdmitWithLoadLoading
    <2>2. CASE ~AdmitWithLoad(r)
      <3>1. UNCHANGED <<jobs, job, loading>>
        BY <1>2, <2>2 DEF Scheduling, NotAdmitted, AdmitWithoutLoad, ScheduleLoaded,
                          ScheduleRunning, Preempt, jobVars
      <3> QED BY <3>1, KeptLoading
    <2> QED BY <2>1, <2>2
  <1>3. ASSUME NEW r \in Requests, Calls(r)
        PROVE  LoadingExact'
    <2>1. UNCHANGED <<jobs, job, loading>>
      BY <1>3 DEF Calls, OnNewRequest, RequestFinished, Raise, jobVars
    <2> QED BY <2>1, KeptLoading
  <1>4. ASSUME NEW j \in JobIds, WorkerDone(j)
        PROVE  LoadingExact'
    <2>1. UNCHANGED <<jobs, job, loading>>
      BY <1>4 DEF WorkerDone, jobVars
    <2> QED BY <2>1, KeptLoading
  <1>5. CASE ResetCache
    <2>1. CASE UNCHANGED <<jobs, job, loading>>
      BY <2>1, KeptLoading
    <2>2. CASE jobs' = {} /\ loading' = {}
      BY <2>2 DEF LoadingExact, KeysOf
    <2> QED BY <1>5, <2>1, <2>2 DEF ResetCache, Raise, jobVars
  <1> QED
    BY <1>1, <1>2, <1>3, <1>4, <1>5, StoreJobsLoading, UpdateConnectorOutputLoading
       DEF Next, EngineLoop, Stopped

\* _blocks_being_loaded holds the keys of the pending loads and nothing else, and
\* no two pending loads bring in the same chunk: across delayed hits, aborted and
\* preempted requests, reports of discarded loads and resets.
THEOREM LoadingIsExact == Spec => []LoadingExact
  <1>1. Init => LoadingExact
    BY DEF Init, LoadingExact, KeysOf
  <1>2. TypeOK /\ Bookkeeping /\ LoadingExact /\ [Next]_vars => LoadingExact'
    BY NextLoading
  <1> QED BY <1>1, <1>2, TypeCorrect, BookkeepingCorrect, PTL DEF Spec


-----------------------------------------------------------------------------
(***************************************************************************)
(* The block lists of a full-attention group have no gap: neither the      *)
(* table of a request, nor what is added to it in a step, nor the          *)
(* connector's list ever names the null block.                             *)
(***************************************************************************)
FullTables ==
    \A r \in Requests, g \in FullGroups :
        table[r][g] \in Seq(Blocks) /\ sched[r].new[g] \in Seq(Blocks) /\ blockIds[r][g] \in Seq(Blocks)

\* the table of an admitted request is as long as what it has computed, or computes
TableLengths ==
    \A r \in Requests, g \in Groups :
        phase[r] \in {"loading", "loaded", "running"} => Len(table[r][g]) = computed[r] + sched[r].n

\* A sequence is one of its elements.
LEMMA SequenceOf ==
  ASSUME NEW S, NEW T, NEW s \in Seq(T), \A i \in 1 .. Len(s) : s[i] \in S
  PROVE  s \in Seq(S)
  OBVIOUS

\* A concatenation.
LEMMA Joined ==
  ASSUME NEW S, NEW s \in Seq(S), NEW u \in Seq(S)
  PROVE  s \o u \in Seq(S) /\ Len(s \o u) = Len(s) + Len(u)
  OBVIOUS

\* A step that gives and frees nothing.
LEMMA KeptFull ==
  ASSUME FullTables, TableLengths, UNCHANGED <<phase, table, computed, sched, blockIds>>
  PROVE  FullTables' /\ TableLengths'
  BY DEF FullTables, TableLengths

\* Nobody's blocks are given up or zeroed in a full-attention group while it runs.
LEMMA SkippedFull ==
  ASSUME TypeOK, FullTables, TableLengths, NEW r \in Requests, sched[r].n = 0,
         phase[r] \in {"loaded", "running"}
  PROVE  /\ \A g \in Groups : Len(Skipped(r)[g]) = computed[r]
         /\ \A g \in FullGroups : Skipped(r)[g] \in Seq(Blocks)
  <1>1. computed[r] \in Nat /\ table[r] \in Tables
    BY DEF TypeOK
  <1>2. \A g \in Groups : Len(table[r][g]) = computed[r] /\ DOMAIN table[r][g] = 1 .. computed[r]
    <2> SUFFICES ASSUME NEW g \in Groups
                 PROVE  Len(table[r][g]) = computed[r] /\ DOMAIN table[r][g] = 1 .. computed[r]
      OBVIOUS
    <2>1. Len(table[r][g]) = computed[r] /\ table[r][g] \in Seq(BlockId)
      BY <1>1 DEF TableLengths, Tables
    <2> QED BY <2>1
  <1>3. \A g \in Groups : Skipped(r)[g] = [i \in 1 .. computed[r] |->
           IF i - 1 \in Needed(g, computed[r]) THEN table[r][g][i] ELSE NullBlock]
    BY <1>2 DEF Skipped
  <1>4. ASSUME NEW g \in Groups
        PROVE  Len(Skipped(r)[g]) = computed[r]
    <2>1. Skipped(r)[g] = [i \in 1 .. computed[r] |->
            IF i - 1 \in Needed(g, computed[r]) THEN table[r][g][i] ELSE NullBlock]
      BY <1>3
    <2> QED BY <1>1, <2>1
  <1>5. ASSUME NEW g \in FullGroups
        PROVE  Skipped(r)[g] \in Seq(Blocks)
    <2>1. g \in Groups /\ g \notin SWGroups
      BY SetsAssumption DEF Groups
    <2>2. \A i \in 1 .. computed[r] : i - 1 \in Needed(g, computed[r]) /\ table[r][g][i] \in Blocks
      BY <1>1, <1>2, <2>1 DEF Needed, FullTables
    <2>3. Skipped(r)[g] = [i \in 1 .. computed[r] |-> table[r][g][i]]
      BY <1>3, <2>1, <2>2
    <2> QED BY <1>1, <2>2, <2>3
  <1> QED BY <1>4, <1>5

\* A running request, or one whose load has arrived, is given more blocks.
LEMMA ExtendedFull ==
  ASSUME TypeOK, Bookkeeping, FullTables, TableLengths, NEW r \in Requests, NEW n \in Nat,
         NEW e \in Extensions(r, n), sched[r].n = 0, phase[r] \in {"loaded", "running"}
  PROVE  /\ \A g \in Groups : Len(Concat(Skipped(r), e)[g]) = computed[r] + n
         /\ \A g \in FullGroups : e[g] \in Seq(Blocks) /\ Concat(Skipped(r), e)[g] \in Seq(Blocks)
  <1> SUFFICES ASSUME NEW g \in Groups
               PROVE  /\ Len(Concat(Skipped(r), e)[g]) = computed[r] + n
                      /\ g \in FullGroups => e[g] \in Seq(Blocks) /\ Concat(Skipped(r), e)[g] \in Seq(Blocks)
    BY DEF Groups
  <1>1. Skipped(r) \in Tables /\ e \in Tables
    BY SkippedType, ExtensionsType DEF TypeOK
  <1>2. Skipped(r)[g] \in Seq(BlockId) /\ e[g] \in Seq(BlockId) /\ Len(e[g]) = n
    BY <1>1, ExtensionsShape DEF Tables
  <1>3. Len(Skipped(r)[g]) = computed[r]
    BY SkippedFull
  <1>4. Concat(Skipped(r), e)[g] = Skipped(r)[g] \o e[g]
    BY DEF Concat
  <1>5. Len(Concat(Skipped(r), e)[g]) = computed[r] + n
    BY <1>2, <1>3, <1>4, Joined
  <1>6. ASSUME g \in FullGroups
        PROVE  e[g] \in Seq(Blocks) /\ Concat(Skipped(r), e)[g] \in Seq(Blocks)
    <2>1. \A i \in 1 .. Len(e[g]) : e[g][i] \in Blocks
      BY <1>2, ExtensionsEntries
    <2>2. e[g] \in Seq(Blocks)
      BY <1>2, <2>1, SequenceOf
    <2>3. Skipped(r)[g] \in Seq(Blocks)
      BY <1>6, SkippedFull
    <2> QED BY <1>4, <2>2, <2>3, Joined
  <1> QED BY <1>5, <1>6

\* An admitted request is given a block everywhere in a full-attention group.
LEMMA AdmittedFull ==
  ASSUME NEW r \in Requests, NEW local \in Nat, NEW hit \in Nat, NEW end \in Nat, hit <= end,
         NEW t \in TablesFor(r, local, hit, end)
  PROVE  /\ \A g \in Groups : Len(t[g]) = end
         /\ \A g \in FullGroups : t[g] \in Seq(Blocks)
  <1>1. \A g \in Groups : Len(t[g]) = end /\ DOMAIN t[g] = 1 .. end
    BY TablesForShape
  <1>2. ASSUME NEW g \in FullGroups
        PROVE  t[g] \in Seq(Blocks)
    <2>1. g \in Groups
      BY DEF Groups
    <2>2. \A i \in 1 .. end : t[g][i] \in Blocks
      BY <2>1, TablesForEntries
    <2>3. t[g] \in Seq(BlockId)
      BY <2>1, TablesForType DEF Tables
    <2> QED BY <1>1, <2>1, <2>2, <2>3
  <1> QED BY <1>1, <1>2


\* A step that concerns the blocks of one request.
LEMMA OneFull ==
  ASSUME FullTables, TableLengths, NEW r \in Requests,
         \A q \in Requests \ {r} :
            /\ table'[q] = table[q] /\ sched'[q] = sched[q] /\ blockIds'[q] = blockIds[q]
            /\ computed'[q] = computed[q] /\ phase'[q] = phase[q],
         \A g \in FullGroups :
            /\ table'[r][g] \in Seq(Blocks)
            /\ sched'[r].new[g] \in Seq(Blocks)
            /\ blockIds'[r][g] \in Seq(Blocks),
         phase'[r] \in {"loading", "loaded", "running"} =>
            \A g \in Groups : Len(table'[r][g]) = computed'[r] + sched'[r].n
  PROVE  FullTables' /\ TableLengths'
  BY DEF FullTables, TableLengths

\* An empty table has no gap either.
LEMMA EmptyFull == \A g \in FullGroups : EmptyTable[g] \in Seq(Blocks)
  BY DEF EmptyTable, Groups

\* schedule() gives and takes blocks.
LEMMA SchedulingFull ==
  ASSUME TypeOK, Bookkeeping, FullTables, TableLengths, NEW r \in Requests, Scheduling(r)
  PROVE  FullTables' /\ TableLengths'
  <1>1. /\ table \in [Requests -> Tables] /\ blockIds \in [Requests -> Tables]
        /\ sched \in [Requests -> [n : Nat, fresh : BOOLEAN, new : Tables]]
        /\ computed \in [Requests -> Nat] /\ phase \in [Requests -> Phases]
    BY DEF TypeOK
  <1>2. \A g \in FullGroups : table[r][g] \in Seq(Blocks) /\ sched[r].new[g] \in Seq(Blocks)
                              /\ blockIds[r][g] \in Seq(Blocks) /\ EmptyTable[g] \in Seq(Blocks)
    BY EmptyFull DEF FullTables
  <1>3. CASE NotAdmitted(r)
    <2>1. UNCHANGED <<phase, table, computed, sched>> /\ blockIds' = [blockIds EXCEPT ![r] = EmptyTable]
      BY <1>3 DEF NotAdmitted, engineVars
    <2>2. phase'[r] \notin {"loading", "loaded", "running"}
      BY <1>3, <2>1 DEF NotAdmitted, Admissible
    <2> QED BY <1>1, <1>2, <2>1, <2>2, OneFull
  <1>4. CASE AdmitWithLoad(r)
    <2>1. CASE error' = "load issued while jobs are pending" /\ UNCHANGED <<phase, table, computed, sched, blockIds>>
      BY <2>1, KeptFull
    <2>2. CASE \E local \in 0 .. PromptLen : \E c \in LoadableChunks(r, local) :
                  \E t \in TablesFor(r, local, c * BlockSizeFactor, c * BlockSizeFactor) :
                     /\ LoadInto(r, t, local, c * BlockSizeFactor)
                     /\ blockIds' = [blockIds EXCEPT ![r] = EmptyTable]
                     /\ UNCHANGED sched /\ sched[r].n = 0
      <3>1. PICK local \in 0 .. PromptLen, c \in 1 .. ChunkOf(PromptLen) :
                  \E t \in TablesFor(r, local, c * BlockSizeFactor, c * BlockSizeFactor) :
                     /\ LoadInto(r, t, local, c * BlockSizeFactor)
                     /\ blockIds' = [blockIds EXCEPT ![r] = EmptyTable]
                     /\ UNCHANGED sched /\ sched[r].n = 0
        BY <2>2 DEF LoadableChunks
      <3>2. local \in Nat /\ c * BlockSizeFactor \in Nat
        BY CountsAssumption
      <3> SUFFICES ASSUME NEW hit \in Nat, hit = c * BlockSizeFactor,
                          NEW t \in TablesFor(r, local, hit, hit), LoadInto(r, t, local, hit),
                          blockIds' = [blockIds EXCEPT ![r] = EmptyTable], UNCHANGED sched, sched[r].n = 0
                   PROVE  FullTables' /\ TableLengths'
        BY <3>1, <3>2
      <3>3. /\ table' = [table EXCEPT ![r] = t] /\ computed' = [computed EXCEPT ![r] = hit]
            /\ phase' = [phase EXCEPT ![r] = "loading"]
        BY DEF LoadInto
      <3>4. (\A g \in Groups : Len(t[g]) = hit) /\ \A g \in FullGroups : t[g] \in Seq(Blocks)
        BY <3>2, AdmittedFull
      <3>5. table'[r] = t /\ computed'[r] = hit /\ sched'[r] = sched[r] /\ blockIds'[r] = EmptyTable
        BY <1>1, <3>3
      <3>6. \A q \in Requests \ {r} :
              /\ table'[q] = table[q] /\ sched'[q] = sched[q] /\ blockIds'[q] = blockIds[q]
              /\ computed'[q] = computed[q] /\ phase'[q] = phase[q]
        BY <1>1, <3>3
      <3> QED BY <1>2, <3>4, <3>5, <3>6, OneFull
    <2> QED BY <1>4, <2>1, <2>2 DEF AdmitWithLoad, Admissible, Raise, engineVars, requestVars
  <1>5. ASSUME NEW n \in 1 .. MaxChunk, AdmitWithoutLoad(r, n)
        PROVE  FullTables' /\ TableLengths'
    <2>1. PICK local \in 0 .. PromptLen : \E t \in TablesFor(r, local, local, local + n) :
             /\ StartOn(r, t, local, n)
             /\ blockIds' = [blockIds EXCEPT ![r] = EmptyTable]
      BY <1>5 DEF AdmitWithoutLoad
    <2>2. PICK t \in TablesFor(r, local, local, local + n) : StartOn(r, t, local, n)
      BY <2>1
    <2>3. local \in Nat /\ n \in Nat /\ local + n \in Nat /\ local <= local + n
      BY CountsAssumption
    <2>4. (\A g \in Groups : Len(t[g]) = local + n) /\ \A g \in FullGroups : t[g] \in Seq(Blocks)
      BY <2>3, AdmittedFull
    <2>5. /\ table' = [table EXCEPT ![r] = t] /\ computed' = [computed EXCEPT ![r] = local]
          /\ sched' = [sched EXCEPT ![r] = [n |-> n, fresh |-> TRUE, new |-> t]]
          /\ phase' = [phase EXCEPT ![r] = "running"]
      BY <2>2 DEF StartOn
    <2>6. table'[r] = t /\ computed'[r] = local /\ sched'[r].n = n /\ sched'[r].new = t /\ blockIds'[r] = EmptyTable
      BY <1>1, <2>1, <2>5
    <2>7. \A q \in Requests \ {r} :
            /\ table'[q] = table[q] /\ sched'[q] = sched[q] /\ blockIds'[q] = blockIds[q]
            /\ computed'[q] = computed[q] /\ phase'[q] = phase[q]
      BY <1>1, <2>1, <2>5
    <2> QED BY <1>2, <2>4, <2>6, <2>7, OneFull
  <1>6. ASSUME NEW n \in 1 .. MaxChunk, ScheduleLoaded(r, n) \/ ScheduleRunning(r, n)
        PROVE  FullTables' /\ TableLengths'
    <2>1. sched[r].n = 0 /\ phase[r] \in {"loaded", "running"} /\ n \in Nat
      <3>1. pc = "schedule"
        BY <1>6 DEF ScheduleLoaded, ScheduleRunning
      <3>2. phase[r] = "loaded" => ~(sched[r].n > 0)
        BY <3>1 DEF Bookkeeping, EngineInStep, Scheduled
      <3> QED BY <1>1, <1>6, <3>2, CountsAssumption DEF ScheduleLoaded, ScheduleRunning
    <2>2. PICK e \in Extensions(r, n) :
            /\ table' = [table EXCEPT ![r] = Concat(Skipped(r), e)]
            /\ \/ sched' = [sched EXCEPT ![r] = [n |-> n, fresh |-> TRUE, new |-> Concat(Skipped(r), e)]]
               \/ sched' = [sched EXCEPT ![r] = [n |-> n, fresh |-> FALSE, new |-> e]]
      BY <1>6 DEF ScheduleLoaded, ScheduleRunning
    <2>3. phase' = [phase EXCEPT ![r] = "running"] /\ UNCHANGED <<computed, blockIds>>
      BY <1>1, <1>6 DEF ScheduleLoaded, ScheduleRunning, requestVars
    <2>4. /\ \A g \in Groups : Len(Concat(Skipped(r), e)[g]) = computed[r] + n
          /\ \A g \in FullGroups : e[g] \in Seq(Blocks) /\ Concat(Skipped(r), e)[g] \in Seq(Blocks)
      BY <2>1, ExtendedFull
    <2> SUFFICES ASSUME NEW t, t = Concat(Skipped(r), e)
                 PROVE  FullTables' /\ TableLengths'
      OBVIOUS
    <2>5. table'[r] = t /\ sched'[r].n = n /\ (sched'[r].new = t \/ sched'[r].new = e)
      BY <1>1, <2>2
    <2>6. \A q \in Requests \ {r} : table'[q] = table[q] /\ sched'[q] = sched[q] /\ phase'[q] = phase[q]
      BY <1>1, <2>2, <2>3
    <2> QED BY <1>2, <2>3, <2>4, <2>5, <2>6, OneFull
  <1>7. CASE Preempt(r)
    <2>1. /\ table' = [table EXCEPT ![r] = EmptyTable] /\ computed' = [computed EXCEPT ![r] = 0]
          /\ phase' = [phase EXCEPT ![r] = "waiting"]
          /\ UNCHANGED <<sched, blockIds>>
      BY <1>7 DEF Preempt, requestVars
    <2> QED BY <1>1, <1>2, <2>1, OneFull
  <1> QED BY <1>3, <1>4, <1>5, <1>6, <1>7 DEF Scheduling


\* _update_req_states appends without a gap and zeroes only sliding-window entries.
LEMMA BeginConnectorMetaFull ==
  ASSUME TypeOK, Bookkeeping, FullTables, TableLengths, BeginConnectorMeta
  PROVE  FullTables' /\ TableLengths'
  <1>1. CASE UNCHANGED <<phase, table, computed, sched, blockIds>>
    BY <1>1, KeptFull
  <1>2. CASE /\ UNCHANGED <<phase, table, computed, sched>>
             /\ blockIds' = [r \in Requests |-> IF r \in tracked THEN UpdatedIds(r) ELSE blockIds[r]]
    <2>1. ASSUME NEW r \in Requests, NEW g \in FullGroups
          PROVE  UpdatedIds(r)[g] \in Seq(Blocks)
      <3> DEFINE known == KnownIds(r)[g]
                 new   == sched[r].new[g]
      <3>1. g \in Groups /\ g \notin SWGroups
        BY SetsAssumption DEF Groups
      <3>2. known \in Seq(Blocks) /\ new \in Seq(Blocks)
        BY EmptyFull DEF FullTables, KnownIds
      <3>3. UpdatedIds(r)[g] = [i \in 1 .. Len(known) + Len(new) |-> (known \o new)[i]]
        BY <3>1 DEF UpdatedIds, Concat, Stale
      <3> HIDE DEF known, new
      <3>4. known \o new \in Seq(Blocks) /\ Len(known \o new) = Len(known) + Len(new)
        BY <3>2, Joined
      <3> DEFINE w == known \o new
                 n == Len(known) + Len(new)
      <3>5. w \in Seq(Blocks) /\ Len(w) = n /\ UpdatedIds(r)[g] = [i \in 1 .. n |-> w[i]]
        BY <3>3, <3>4
      <3> HIDE DEF w, n
      <3> QED BY <3>5
    <2> QED BY <1>2, <2>1 DEF FullTables, TableLengths
  <1> QED BY <1>1, <1>2 DEF BeginConnectorMeta, Raise, engineVars, requestVars

\* What a step computed counts as computed.
LEMMA EndConnectorMetaFull ==
  ASSUME TypeOK, FullTables, TableLengths, EndConnectorMeta
  PROVE  FullTables' /\ TableLengths'
  <1>1. /\ UNCHANGED <<phase, table, blockIds>>
        /\ computed' = [r \in Requests |-> computed[r] + sched[r].n]
        /\ sched' = [r \in Requests |-> NotScheduled]
    BY DEF EndConnectorMeta, requestVars
  <1>2. NotScheduled.n = 0 /\ NotScheduled.new = EmptyTable
    BY DEF NotScheduled
  <1>3. \A r \in Requests : computed[r] + sched[r].n + 0 = computed[r] + sched[r].n
    BY DEF TypeOK
  <1> QED BY <1>1, <1>2, <1>3, EmptyFull DEF FullTables, TableLengths

\* The end of a load changes no block list, or frees all of an aborted request.
LEMMA UpdateConnectorOutputFull ==
  ASSUME TypeOK, Bookkeeping, FullTables, TableLengths, NEW j \in JobIds, UpdateConnectorOutput(j)
  PROVE  FullTables' /\ TableLengths'
  <1>1. CASE UNCHANGED <<phase, table, computed, sched, blockIds>>
    BY <1>1, KeptFull
  <1>2. CASE /\ LoadArrived(j) /\ UNCHANGED <<computed, sched>>
             /\ \/ UNCHANGED blockIds
                \/ blockIds' = [blockIds EXCEPT ![job[j].req] = EmptyTable]
    <2> DEFINE r == job[j].req
    <2>1. \A q \in Requests : /\ table'[q] = table[q] \/ (q = r /\ Finished(r) /\ table'[q] = EmptyTable)
                              /\ phase'[q] = phase[q] \/ (phase[q] = "loading" /\ phase'[q] = "loaded")
      BY <1>2 DEF LoadArrived, TypeOK
    <2>2. \A q \in Requests : blockIds'[q] \in {blockIds[q], EmptyTable}
      BY <1>2 DEF TypeOK
    <2>3. FullTables'
      BY <1>2, <2>1, <2>2, EmptyFull DEF FullTables
    <2>4. TableLengths'
      <3> SUFFICES ASSUME NEW q \in Requests, NEW g \in Groups, phase'[q] \in {"loading", "loaded", "running"}
                   PROVE  Len(table'[q][g]) = computed[q] + sched[q].n
        BY <1>2 DEF TableLengths
      <3>1. phase[q] \in {"loading", "loaded", "running"}
        BY <2>1
      <3>2. table'[q] = table[q]
        BY <2>1, <3>1 DEF Finished
      <3> QED BY <3>1, <3>2 DEF TableLengths
    <2> QED BY <2>3, <2>4
  <1> QED BY <1>1, <1>2 DEF UpdateConnectorOutput, CompleteJob, Forget, Raise, engineVars, requestVars

\* No step leaves a gap in a full-attention list.
LEMMA NextFull ==
  ASSUME TypeOK, Bookkeeping, FullTables, TableLengths, [Next]_vars
  PROVE  FullTables' /\ TableLengths'
  <1>1. CASE StartStep \/ TakeOutput \/ ResetCache \/ UNCHANGED vars \/ \E j \in JobIds : WorkerDone(j)
    <2>1. UNCHANGED <<phase, table, computed, sched, blockIds>>
      BY <1>1 DEF StartStep, TakeOutput, ResetCache, Raise, WorkerDone, vars, engineVars, requestVars
    <2> QED BY <2>1, KeptFull
  <1>2. ASSUME NEW r \in Requests, StoreJobs(r)
        PROVE  FullTables' /\ TableLengths'
    <2>1. UNCHANGED <<phase, table, computed, sched, blockIds>>
      BY <1>2 DEF StoreJobs, Raise, engineVars, requestVars
    <2> QED BY <2>1, KeptFull
  <1>3. ASSUME NEW r \in Requests, OnNewRequest(r)
        PROVE  FullTables' /\ TableLengths'
    <2>1. phase' = [phase EXCEPT ![r] = "waiting"] /\ UNCHANGED <<table, computed, sched, blockIds>>
      BY <1>3 DEF OnNewRequest
    <2> QED BY <2>1 DEF TypeOK, FullTables, TableLengths
  <1>4. ASSUME NEW r \in Requests, RequestFinished(r)
        PROVE  FullTables' /\ TableLengths'
    <2>1. CASE UNCHANGED <<phase, table, computed, sched, blockIds>>
      BY <2>1, KeptFull
    <2>2. CASE /\ phase' = [phase EXCEPT ![r] = "finished"]
               /\ computed' = [computed EXCEPT ![r] = 0]
               /\ \/ UNCHANGED table
                  \/ table' = [table EXCEPT ![r] = EmptyTable]
               /\ \/ UNCHANGED blockIds
                  \/ blockIds' = [blockIds EXCEPT ![r] = EmptyTable]
               /\ UNCHANGED sched
      <3>1. \A g \in FullGroups : table'[r][g] \in Seq(Blocks) /\ blockIds'[r][g] \in Seq(Blocks)
        <4>1. table'[r] \in {table[r], EmptyTable} /\ blockIds'[r] \in {blockIds[r], EmptyTable}
          BY <2>2 DEF TypeOK
        <4> QED BY <4>1, EmptyFull DEF FullTables
      <3>2. \A g \in FullGroups : sched'[r].new[g] \in Seq(Blocks)
        BY <2>2 DEF FullTables
      <3>3. phase'[r] = "finished"
        BY <2>2 DEF TypeOK
      <3>4. \A q \in Requests \ {r} :
              /\ table'[q] = table[q] /\ sched'[q] = sched[q] /\ blockIds'[q] = blockIds[q]
              /\ computed'[q] = computed[q] /\ phase'[q] = phase[q]
        BY <2>2 DEF TypeOK
      <3> QED BY <3>1, <3>2, <3>3, <3>4, OneFull
    <2> QED BY <1>4, <2>1, <2>2 DEF RequestFinished, Forget, Raise, engineVars, requestVars
  <1>5. ASSUME NEW j \in JobIds, UpdateConnectorOutput(j)
        PROVE  FullTables' /\ TableLengths'
    BY <1>5, UpdateConnectorOutputFull
  <1>6. ASSUME NEW r \in Requests, Scheduling(r)
        PROVE  FullTables' /\ TableLengths'
    BY <1>6, SchedulingFull
  <1> QED
    BY <1>1, <1>2, <1>3, <1>4, <1>5, <1>6, BeginConnectorMetaFull, EndConnectorMetaFull
       DEF Next, EngineLoop, Stopped, Calls

\* The block lists of a full-attention group never have a gap, whatever is reset,
\* aborted or preempted.
THEOREM FullTablesCorrect == Spec => [](FullTables /\ TableLengths)
  <1>1. Init => FullTables /\ TableLengths
    <2> SUFFICES ASSUME Init PROVE FullTables /\ TableLengths
      OBVIOUS
    <2>1. \A r \in Requests : /\ phase[r] = "unborn" /\ table[r] = EmptyTable /\ blockIds[r] = EmptyTable
                              /\ sched[r].new = EmptyTable
      BY DEF Init, NotScheduled
    <2> QED BY <2>1, EmptyFull DEF FullTables, TableLengths
  <1>2. TypeOK /\ Bookkeeping /\ (FullTables /\ TableLengths) /\ [Next]_vars => (FullTables /\ TableLengths)'
    BY NextFull
  <1> QED BY <1>1, <1>2, TypeCorrect, BookkeepingCorrect, PTL DEF Spec

-----------------------------------------------------------------------------
(***************************************************************************)
(* The connector's copy of a block table.  It follows the table of a       *)
(* running request entry by entry, one step behind while schedule() runs   *)
(* and level with it once _update_req_states has appended what the         *)
(* SchedulerOutput brought.  Only a sliding-window entry may be zeroed.    *)
(***************************************************************************)
\* the connector has the list of r: a request whose whole table is on its way
\* with the SchedulerOutput is listed when that arrives
Followed(r) ==
    /\ r \in tracked
    /\ phase[r] = "running"
    /\ pc # "dead"
    /\ pc = "schedule" => ~sched[r].fresh

\* how far the list of r reaches
Reach(r) == IF pc = "store" THEN computed[r] + sched[r].n ELSE computed[r]

\* entry i of the list of r
SameEntry(r, g, i) ==
    \/ blockIds[r][g][i] = table[r][g][i]
    \/ g \in SWGroups /\ blockIds[r][g][i] = NullBlock

ListsFollow ==
    \A r \in Requests, g \in Groups : Followed(r) =>
        /\ Len(blockIds[r][g]) = Reach(r)
        /\ \A i \in DOMAIN blockIds[r][g] : table[r][g][i] \in Blocks => SameEntry(r, g, i)

\* the SchedulerOutput brings the table of r, or what was added behind its end
Brings(r, g) ==
    IF sched[r].fresh THEN sched[r].new[g] = table[r][g]
    ELSE /\ Len(sched[r].new[g]) = sched[r].n
         /\ \A k \in 1 .. sched[r].n : sched[r].new[g][k] = table[r][g][computed[r] + k]

OutputBrings ==
    /\ \A r \in Requests : sched[r].n = 0 => sched[r] = NotScheduled
    /\ pc = "schedule" => \A r \in Requests, g \in Groups : sched[r].n > 0 => Brings(r, g)

Following == ListsFollow /\ OutputBrings

\* what is known of the tables already
Grounds == TypeOK /\ Bookkeeping /\ FullTables /\ TableLengths

\* A step that leaves the lists of the requests it still follows alone, and the
\* engine's loop where it was or between two steps.
LEMMA KeptFollowing ==
  ASSUME Following, pc' = pc \/ pc' = "dead" \/ {pc, pc'} \subseteq {"idle", "output"}, UNCHANGED sched,
         \A r \in Requests : Followed(r)' =>
            /\ Followed(r)
            /\ table'[r] = table[r] /\ blockIds'[r] = blockIds[r] /\ computed'[r] = computed[r],
         pc' = "schedule" => UNCHANGED <<table, computed>>
  PROVE  Following'
  <1>1. OutputBrings'
    BY DEF Following, OutputBrings, Brings
  <1>2. ASSUME NEW r \in Requests, NEW g \in Groups, Followed(r)'
        PROVE  /\ Len(blockIds'[r][g]) = Reach(r)'
               /\ \A i \in DOMAIN blockIds'[r][g] : table'[r][g][i] \in Blocks => SameEntry(r, g, i)'
    <2>1. Followed(r) /\ table'[r] = table[r] /\ blockIds'[r] = blockIds[r] /\ computed'[r] = computed[r]
      BY <1>2
    <2>2. pc' # "dead"
      BY <1>2 DEF Followed
    <2>3. Reach(r)' = Reach(r)
      BY <2>1, <2>2 DEF Reach
    <2> QED BY <2>1, <2>3 DEF Following, ListsFollow, SameEntry
  <1> QED BY <1>1, <1>2 DEF Following, ListsFollow

\* schedule() gives r blocks, or takes them: everything else stays.
LEMMA OneFollowing ==
  ASSUME Following, NEW r \in Requests, pc = "schedule", pc' = "schedule", UNCHANGED tracked,
         \A q \in Requests \ {r} :
            /\ table'[q] = table[q] /\ sched'[q] = sched[q] /\ blockIds'[q] = blockIds[q]
            /\ computed'[q] = computed[q] /\ phase'[q] = phase[q],
         sched'[r].n = 0 => sched'[r] = NotScheduled,
         sched'[r].n > 0 => \A g \in Groups : Brings(r, g)',
         Followed(r)' => \A g \in Groups :
            /\ Len(blockIds'[r][g]) = computed'[r]
            /\ \A i \in DOMAIN blockIds'[r][g] : table'[r][g][i] \in Blocks => SameEntry(r, g, i)'
  PROVE  Following'
  <1>1. ASSUME NEW q \in Requests \ {r}, NEW g \in Groups
        PROVE  /\ sched'[q].n > 0 => Brings(q, g)'
               /\ Followed(q)' => /\ Len(blockIds'[q][g]) = Reach(q)'
                                  /\ \A i \in DOMAIN blockIds'[q][g] :
                                        table'[q][g][i] \in Blocks => SameEntry(q, g, i)'
    <2>1. sched'[q].n > 0 => Brings(q, g)'
      <3>1. sched[q].n > 0 => Brings(q, g)
        BY DEF Following, OutputBrings
      <3>2. Brings(q, g)' <=> Brings(q, g)
        BY DEF Brings
      <3> QED BY <3>1, <3>2
    <2>2. (Followed(q)' => Followed(q)) /\ Reach(q)' = Reach(q)
      BY DEF Followed, Reach
    <2>3. \A i : SameEntry(q, g, i)' <=> SameEntry(q, g, i)
      BY DEF SameEntry
    <2> QED BY <2>1, <2>2, <2>3 DEF Following, ListsFollow
  <1>2. Reach(r)' = computed'[r]
    BY DEF Reach
  <1>3. ListsFollow'
    BY <1>1, <1>2 DEF ListsFollow
  <1>4. OutputBrings'
    BY <1>1 DEF Following, OutputBrings
  <1> QED BY <1>3, <1>4 DEF Following

\* A request that is given its table has no list yet.
LEMMA AdmissionFollowing ==
  ASSUME Grounds, Following, NEW r \in Requests,
         NotAdmitted(r) \/ AdmitWithLoad(r) \/ \E n \in 1 .. MaxChunk : AdmitWithoutLoad(r, n)
  PROVE  Following'
  <1>1. /\ table \in [Requests -> Tables] /\ blockIds \in [Requests -> Tables]
        /\ sched \in [Requests -> [n : Nat, fresh : BOOLEAN, new : Tables]]
        /\ computed \in [Requests -> Nat] /\ phase \in [Requests -> Phases]
    BY DEF Grounds, TypeOK
  <1>2. pc = "schedule" /\ phase[r] = "waiting" /\ sched[r].n = 0 /\ UNCHANGED tracked
    BY DEF NotAdmitted, AdmitWithLoad, AdmitWithoutLoad, Admissible, Raise, requestVars
  <1>3. sched[r] = NotScheduled
    BY <1>2 DEF Following, OutputBrings
  <1>4. CASE NotAdmitted(r)
    <2>1. UNCHANGED <<pc, phase, table, computed, sched>> /\ blockIds' = [blockIds EXCEPT ![r] = EmptyTable]
      BY <1>4 DEF NotAdmitted, engineVars
    <2>2. ~Followed(r)'
      BY <1>2, <2>1 DEF Followed
    <2> QED BY <1>1, <1>2, <1>3, <2>1, <2>2, OneFollowing
  <1>5. CASE AdmitWithLoad(r)
    <2>1. CASE pc' = "dead" /\ UNCHANGED sched
      <3>1. \A q \in Requests : ~Followed(q)'
        BY <2>1 DEF Followed
      <3> QED BY <2>1, <3>1, KeptFollowing
    <2>2. CASE \E local, hit, t : LoadInto(r, t, local, hit) /\ blockIds' = [blockIds EXCEPT ![r] = EmptyTable]
                                  /\ UNCHANGED <<pc, sched>>
      <3>1. PICK local, hit, t : /\ table' = [table EXCEPT ![r] = t]
                                 /\ computed' = [computed EXCEPT ![r] = hit]
                                 /\ phase' = [phase EXCEPT ![r] = "loading"]
                                 /\ blockIds' = [blockIds EXCEPT ![r] = EmptyTable]
                                 /\ UNCHANGED <<pc, sched>>
        BY <2>2 DEF LoadInto
      <3>2. ~Followed(r)'
        BY <1>1, <3>1 DEF Followed
      <3>3. \A q \in Requests \ {r} :
              /\ table'[q] = table[q] /\ sched'[q] = sched[q] /\ blockIds'[q] = blockIds[q]
              /\ computed'[q] = computed[q] /\ phase'[q] = phase[q]
        BY <1>1, <3>1
      <3>4. sched'[r] = NotScheduled /\ ~(sched'[r].n > 0)
        BY <1>3, <3>1 DEF NotScheduled
      <3> QED BY <1>2, <3>1, <3>2, <3>3, <3>4, OneFollowing
    <2> QED BY <1>5, <2>1, <2>2 DEF AdmitWithLoad, Raise, engineVars
  <1>6. ASSUME NEW n \in 1 .. MaxChunk, AdmitWithoutLoad(r, n)
        PROVE  Following'
    <2>1. PICK local, t : StartOn(r, t, local, n)
      BY <1>6 DEF AdmitWithoutLoad
    <2>2. blockIds' = [blockIds EXCEPT ![r] = EmptyTable] /\ UNCHANGED pc
      BY <1>6 DEF AdmitWithoutLoad
    <2>3. /\ table' = [table EXCEPT ![r] = t] /\ computed' = [computed EXCEPT ![r] = local]
          /\ sched' = [sched EXCEPT ![r] = [n |-> n, fresh |-> TRUE, new |-> t]]
          /\ phase' = [phase EXCEPT ![r] = "running"]
      BY <2>1 DEF StartOn
    <2>4. table'[r] = t /\ sched'[r] = [n |-> n, fresh |-> TRUE, new |-> t]
      BY <1>1, <2>3
    <2>5. ~Followed(r)' /\ (\A g \in Groups : Brings(r, g)') /\ sched'[r].n # 0
      BY <1>2, <2>2, <2>4 DEF Followed, Brings
    <2>6. \A q \in Requests \ {r} :
            /\ table'[q] = table[q] /\ sched'[q] = sched[q] /\ blockIds'[q] = blockIds[q]
            /\ computed'[q] = computed[q] /\ phase'[q] = phase[q]
      BY <1>1, <2>2, <2>3
    <2> QED BY <1>2, <2>2, <2>5, <2>6, OneFollowing
  <1> QED BY <1>4, <1>5, <1>6

\* A table of a running request, its window passed by and its end extended.
LEMMA ExtendedEntry ==
  ASSUME Grounds, NEW r \in Requests, NEW n \in Nat, NEW e \in Extensions(r, n), NEW g \in Groups,
         sched[r].n = 0, phase[r] \in {"loaded", "running"}
  PROVE  /\ \A i \in 1 .. computed[r] : Concat(Skipped(r), e)[g][i] \in {table[r][g][i], NullBlock}
         /\ Len(e[g]) = n
         /\ \A k \in 1 .. n : Concat(Skipped(r), e)[g][computed[r] + k] = e[g][k]
  <1> DEFINE s == Skipped(r)[g]
             u == e[g]
  <1>1. Skipped(r) \in Tables /\ e \in Tables
    BY SkippedType, ExtensionsType DEF Grounds, TypeOK
  <1>2. s \in Seq(BlockId) /\ u \in Seq(BlockId) /\ Len(u) = n /\ computed[r] \in Nat
    BY <1>1, ExtensionsShape DEF Tables, Grounds, TypeOK
  <1>3. Len(s) = computed[r]
    BY SkippedFull DEF Grounds
  <1>4. Concat(Skipped(r), e)[g] = s \o u
    BY DEF Concat
  <1>5. Len(table[r][g]) = computed[r] + sched[r].n /\ table[r][g] \in Seq(BlockId)
    BY DEF Grounds, TableLengths, TypeOK, Tables
  <1>6. DOMAIN table[r][g] = 1 .. computed[r]
    BY <1>2, <1>5
  <1>7. \A i \in 1 .. computed[r] : s[i] \in {table[r][g][i], NullBlock}
    BY <1>6 DEF Skipped
  <1> HIDE DEF s, u
  <1>8. \A i \in 1 .. computed[r] + n : (s \o u)[i] = (IF i <= computed[r] THEN s[i] ELSE u[i - computed[r]])
    BY <1>2, <1>3, ConcatProperties
  <1>9. \A i \in 1 .. computed[r] : (s \o u)[i] = s[i]
    <2> SUFFICES ASSUME NEW i \in 1 .. computed[r] PROVE (s \o u)[i] = s[i]
      OBVIOUS
    <2>1. i \in 1 .. computed[r] + n /\ i <= computed[r]
      BY <1>2
    <2> QED BY <1>8, <2>1
  <1>10. \A k \in 1 .. n : (s \o u)[computed[r] + k] = u[k]
    <2> SUFFICES ASSUME NEW k \in 1 .. n PROVE (s \o u)[computed[r] + k] = u[k]
      OBVIOUS
    <2>1. computed[r] + k \in 1 .. computed[r] + n /\ ~(computed[r] + k <= computed[r])
          /\ (computed[r] + k) - computed[r] = k
      BY <1>2
    <2> QED BY <1>8, <2>1
  <1> QED BY <1>2, <1>4, <1>7, <1>9, <1>10 DEF u

\* A request that was loaded, or runs on, is given more blocks.
LEMMA ExtensionFollowing ==
  ASSUME Grounds, Following, NEW r \in Requests, NEW n \in 1 .. MaxChunk,
         ScheduleLoaded(r, n) \/ ScheduleRunning(r, n)
  PROVE  Following'
  <1>1. /\ table \in [Requests -> Tables] /\ blockIds \in [Requests -> Tables]
        /\ sched \in [Requests -> [n : Nat, fresh : BOOLEAN, new : Tables]]
        /\ computed \in [Requests -> Nat] /\ phase \in [Requests -> Phases]
    BY DEF Grounds, TypeOK
  <1>2. pc = "schedule" /\ UNCHANGED <<pc, computed, tracked, blockIds>> /\ n \in Nat /\ n # 0
    BY CountsAssumption DEF ScheduleLoaded, ScheduleRunning, requestVars
  <1>3. sched[r].n = 0 /\ phase[r] \in {"loaded", "running"}
    <2>1. phase[r] = "loaded" => ~(sched[r].n > 0)
      BY <1>2 DEF Grounds, Bookkeeping, EngineInStep, Scheduled
    <2> QED BY <1>1, <2>1 DEF ScheduleLoaded, ScheduleRunning
  <1>4. sched[r] = NotScheduled
    BY <1>3 DEF Following, OutputBrings
  <1>5. PICK e \in Extensions(r, n) :
          /\ table' = [table EXCEPT ![r] = Concat(Skipped(r), e)]
          /\ \/ /\ ScheduleLoaded(r, n)
                /\ sched' = [sched EXCEPT ![r] = [n |-> n, fresh |-> TRUE, new |-> Concat(Skipped(r), e)]]
             \/ /\ phase[r] = "running"
                /\ sched' = [sched EXCEPT ![r] = [n |-> n, fresh |-> FALSE, new |-> e]]
    BY DEF ScheduleLoaded, ScheduleRunning
  <1>6. phase' = [phase EXCEPT ![r] = "running"]
    BY <1>1 DEF ScheduleLoaded, ScheduleRunning
  <1> SUFFICES ASSUME NEW t, t = Concat(Skipped(r), e)
               PROVE  Following'
    OBVIOUS
  <1>7. \A g \in Groups :
          /\ \A i \in 1 .. computed[r] : t[g][i] \in {table[r][g][i], NullBlock}
          /\ Len(e[g]) = n
          /\ \A k \in 1 .. n : t[g][computed[r] + k] = e[g][k]
    BY <1>2, <1>3, ExtendedEntry
  <1>8. \A q \in Requests \ {r} :
          /\ table'[q] = table[q] /\ sched'[q] = sched[q] /\ blockIds'[q] = blockIds[q]
          /\ computed'[q] = computed[q] /\ phase'[q] = phase[q]
    BY <1>1, <1>2, <1>5, <1>6
  <1>9. table'[r] = t /\ sched'[r].n = n /\ computed'[r] = computed[r] /\ blockIds'[r] = blockIds[r]
    BY <1>1, <1>2, <1>5
  <1>10. ASSUME NEW g \in Groups
         PROVE  Brings(r, g)'
    <2>1. CASE sched'[r] = [n |-> n, fresh |-> TRUE, new |-> t]
      BY <1>9, <2>1 DEF Brings
    <2>2. CASE sched'[r] = [n |-> n, fresh |-> FALSE, new |-> e]
      BY <1>7, <1>9, <2>2 DEF Brings
    <2> QED BY <1>1, <1>5, <2>1, <2>2
  <1>11. ASSUME Followed(r)', NEW g \in Groups
         PROVE  /\ Len(blockIds'[r][g]) = computed'[r]
                /\ \A i \in DOMAIN blockIds'[r][g] : table'[r][g][i] \in Blocks => SameEntry(r, g, i)'
    <2>1. ~sched'[r].fresh
      BY <1>2, <1>11 DEF Followed
    <2>2. phase[r] = "running"
      BY <1>1, <1>5, <2>1
    <2>3. Followed(r)
      BY <1>2, <1>4, <1>11, <2>2 DEF Followed, NotScheduled
    <2>4. /\ Len(blockIds[r][g]) = computed[r]
          /\ \A i \in DOMAIN blockIds[r][g] : table[r][g][i] \in Blocks => SameEntry(r, g, i)
      BY <1>2, <2>3 DEF Following, ListsFollow, Reach
    <2>5. DOMAIN blockIds[r][g] = 1 .. computed[r]
      BY <1>1, <2>4 DEF Tables
    <2>6. \A i \in 1 .. computed[r] : t[g][i] \in Blocks => t[g][i] = table[r][g][i]
      BY <1>7, SetsAssumption
    <2> QED BY <1>9, <2>4, <2>5, <2>6 DEF SameEntry
  <1> QED BY <1>2, <1>8, <1>9, <1>10, <1>11, OneFollowing

\* A preempted request is followed no more.
LEMMA PreemptFollowing ==
  ASSUME Grounds, Following, NEW r \in Requests, Preempt(r)
  PROVE  Following'
  <1>1. /\ pc = "schedule" /\ sched[r].n = 0
        /\ table' = [table EXCEPT ![r] = EmptyTable] /\ computed' = [computed EXCEPT ![r] = 0]
        /\ phase' = [phase EXCEPT ![r] = "waiting"]
        /\ UNCHANGED <<pc, sched, tracked, blockIds>>
    BY DEF Preempt, requestVars
  <1>2. ~Followed(r)'
    <2>1. phase'[r] = "waiting"
      BY <1>1 DEF Grounds, TypeOK
    <2> QED BY <2>1 DEF Followed
  <1>3. sched'[r] = NotScheduled /\ ~(sched'[r].n > 0)
    <2>1. sched[r] = NotScheduled
      BY <1>1 DEF Following, OutputBrings
    <2>2. NotScheduled.n = 0
      BY DEF NotScheduled
    <2> QED BY <1>1, <2>1, <2>2
  <1>4. \A q \in Requests \ {r} :
          /\ table'[q] = table[q] /\ sched'[q] = sched[q] /\ blockIds'[q] = blockIds[q]
          /\ computed'[q] = computed[q] /\ phase'[q] = phase[q]
    BY <1>1 DEF Grounds, TypeOK
  <1> QED BY <1>1, <1>2, <1>3, <1>4, OneFollowing

\* _update_req_states appends what the SchedulerOutput brings: every list that it
\* leaves is level with its table, but for zeroed entries of sliding windows.
LEMMA UpdatedFollows ==
  ASSUME Grounds, Following, pc = "schedule", NEW r \in Requests, r \in tracked, phase[r] = "running",
         NEW g \in Groups
  PROVE  /\ Len(UpdatedIds(r)[g]) = computed[r] + sched[r].n
         /\ \A i \in DOMAIN UpdatedIds(r)[g] : table[r][g][i] \in Blocks =>
               \/ UpdatedIds(r)[g][i] = table[r][g][i]
               \/ g \in SWGroups /\ UpdatedIds(r)[g][i] = NullBlock
  <1> DEFINE known == KnownIds(r)[g]
             new   == sched[r].new[g]
             ids   == UpdatedIds(r)[g]
  <1>1. /\ Len(known) \in Nat /\ Len(new) \in Nat
        /\ Len(ids) = Len(known) + Len(new) /\ DOMAIN ids = 1 .. Len(known) + Len(new)
        /\ \A i \in 1 .. Len(known) : ids[i] = (IF Stale(r, g, i) THEN NullBlock ELSE known[i])
        /\ \A k \in 1 .. Len(new) : ids[Len(known) + k] = new[k]
    BY UpdatedEntries DEF Grounds
  <1>2. computed[r] \in Nat /\ sched[r].n \in Nat /\ sched[r].fresh \in BOOLEAN
    BY DEF Grounds, TypeOK
  <1>3. Len(table[r][g]) = computed[r] + sched[r].n
    BY DEF Grounds, TableLengths
  <1>4. CASE sched[r].fresh
    <2>1. sched[r].n > 0
      BY <1>2, <1>4 DEF Following, OutputBrings, NotScheduled
    <2>2. new = table[r][g] /\ known = <<>>
      BY <1>4, <2>1 DEF Following, OutputBrings, Brings, KnownIds, EmptyTable
    <2>3. Len(known) = 0
      BY <2>2
    <2> HIDE DEF known, new, ids
    <2>4. Len(ids) = Len(new) /\ DOMAIN ids = 1 .. Len(new) /\ \A k \in 1 .. Len(new) : ids[k] = new[k]
      <3>1. 0 + Len(new) = Len(new) /\ \A k \in 1 .. Len(new) : 0 + k = k
        BY <1>1
      <3> QED BY <1>1, <2>3, <3>1
    <2> QED BY <1>3, <2>2, <2>4 DEF ids
  <1>5. CASE ~sched[r].fresh
    <2>1. Followed(r)
      BY <1>5 DEF Followed
    <2>2. known = blockIds[r][g]
      BY <1>5 DEF KnownIds
    <2>3. /\ Len(known) = computed[r]
          /\ \A i \in DOMAIN known : table[r][g][i] \in Blocks => SameEntry(r, g, i)
      BY <2>1, <2>2 DEF Following, ListsFollow, Reach
    <2>4. Len(new) = sched[r].n /\ \A k \in 1 .. sched[r].n : new[k] = table[r][g][computed[r] + k]
      <3>1. CASE sched[r].n > 0
        BY <1>5, <3>1 DEF Following, OutputBrings, Brings
      <3>2. CASE sched[r].n = 0
        BY <3>2 DEF Following, OutputBrings, NotScheduled, EmptyTable
      <3> QED BY <1>2, <3>1, <3>2
    <2>5. DOMAIN known = 1 .. computed[r]
      <3>1. known \in Seq(BlockId)
        BY <2>2 DEF Grounds, TypeOK, Tables
      <3> QED BY <2>3, <3>1
    <2>6. \A i \in 1 .. computed[r] : Stale(r, g, i) => g \in SWGroups
      BY DEF Stale
    <2>7. \A i \in 1 .. computed[r] : table[r][g][i] \in Blocks =>
             known[i] = table[r][g][i] \/ (g \in SWGroups /\ known[i] = NullBlock)
      BY <2>2, <2>3, <2>5 DEF SameEntry
    <2> HIDE DEF known, new, ids
    <2>8. ASSUME NEW i \in 1 .. computed[r], table[r][g][i] \in Blocks
          PROVE  ids[i] = table[r][g][i] \/ (g \in SWGroups /\ ids[i] = NullBlock)
      BY <1>1, <2>3, <2>6, <2>7, <2>8
    <2>9. ASSUME NEW i \in computed[r] + 1 .. computed[r] + sched[r].n
          PROVE  ids[i] = table[r][g][i]
      <3>1. i - computed[r] \in 1 .. sched[r].n /\ computed[r] + (i - computed[r]) = i
        BY <1>2
      <3> QED BY <1>1, <2>3, <2>4, <3>1
    <2>10. \A i \in 1 .. computed[r] + sched[r].n : i \in 1 .. computed[r] \/ i \in computed[r] + 1 .. computed[r] + sched[r].n
      BY <1>2
    <2>11. Len(ids) = computed[r] + sched[r].n /\ DOMAIN ids = 1 .. computed[r] + sched[r].n
      BY <1>1, <2>3, <2>4
    <2> QED BY <2>8, <2>9, <2>10, <2>11 DEF ids
  <1> QED BY <1>2, <1>4, <1>5

LEMMA BeginConnectorMetaFollowing ==
  ASSUME Grounds, Following, BeginConnectorMeta
  PROVE  Following'
  <1>1. CASE pc' = "dead" /\ UNCHANGED sched
    <2>1. \A q \in Requests : ~Followed(q)'
      BY <1>1 DEF Followed
    <2> QED BY <1>1, <2>1, KeptFollowing
  <1>2. CASE /\ pc' = "store" /\ UNCHANGED <<phase, table, computed, sched, tracked>>
             /\ blockIds' = [r \in Requests |-> IF r \in tracked THEN UpdatedIds(r) ELSE blockIds[r]]
    <2>1. OutputBrings'
      BY <1>2 DEF Following, OutputBrings
    <2>2. ASSUME NEW r \in Requests, NEW g \in Groups, Followed(r)'
          PROVE  /\ Len(blockIds'[r][g]) = Reach(r)'
                 /\ \A i \in DOMAIN blockIds'[r][g] : table'[r][g][i] \in Blocks => SameEntry(r, g, i)'
      <3>1. pc = "schedule" /\ r \in tracked /\ phase[r] = "running"
        BY <1>2, <2>2 DEF Followed, BeginConnectorMeta
      <3>2. blockIds'[r] = UpdatedIds(r) /\ Reach(r)' = computed[r] + sched[r].n
        BY <1>2, <3>1 DEF Reach
      <3>3. /\ Len(UpdatedIds(r)[g]) = computed[r] + sched[r].n
            /\ \A i \in DOMAIN UpdatedIds(r)[g] : table[r][g][i] \in Blocks =>
                  \/ UpdatedIds(r)[g][i] = table[r][g][i]
                  \/ g \in SWGroups /\ UpdatedIds(r)[g][i] = NullBlock
        BY <3>1, UpdatedFollows
      <3> QED BY <1>2, <3>2, <3>3 DEF SameEntry
    <2> QED BY <2>1, <2>2 DEF Following, ListsFollow
  <1> QED BY <1>1, <1>2 DEF BeginConnectorMeta, Raise, engineVars

\* The end of a step counts as computed what the lists reach already.
LEMMA EndConnectorMetaFollowing ==
  ASSUME Grounds, Following, EndConnectorMeta
  PROVE  Following'
  <1>1. /\ pc = "store" /\ pc' = "idle" /\ UNCHANGED <<phase, table, tracked, blockIds>>
        /\ computed' = [r \in Requests |-> computed[r] + sched[r].n]
        /\ sched' = [r \in Requests |-> NotScheduled]
    BY DEF EndConnectorMeta, requestVars
  <1>2. \A r \in Requests : (Followed(r)' => Followed(r)) /\ Reach(r)' = Reach(r)
    BY <1>1 DEF Followed, Reach
  <1>3. \A r \in Requests, g \in Groups : \A i : SameEntry(r, g, i)' <=> SameEntry(r, g, i)
    BY <1>1 DEF SameEntry
  <1>4. ListsFollow'
    BY <1>1, <1>2, <1>3 DEF Following, ListsFollow
  <1>5. OutputBrings'
    BY <1>1 DEF OutputBrings
  <1> QED BY <1>4, <1>5 DEF Following

\* A report changes the lists of requests that are over only.
LEMMA UpdateConnectorOutputFollowing ==
  ASSUME Grounds, Following, NEW j \in JobIds, UpdateConnectorOutput(j)
  PROVE  Following'
  <1>1. CASE pc' = "dead" /\ UNCHANGED sched
    <2>1. \A q \in Requests : ~Followed(q)'
      BY <1>1 DEF Followed
    <2> QED BY <1>1, <2>1, KeptFollowing
  <1>2. CASE /\ pc = "output" /\ pc' \in {"idle", "output"} /\ LoadArrived(j) /\ UNCHANGED <<computed, sched>>
             /\ \/ UNCHANGED requestVars
                \/ Finished(job[j].req) /\ Forget(job[j].req)
    <2> DEFINE r == job[j].req
    <2>1. \A q \in Requests : /\ table'[q] = table[q] \/ (q = r /\ Finished(r))
                              /\ phase'[q] = "running" => phase[q] = "running"
      BY <1>2 DEF LoadArrived, Grounds, TypeOK
    <2>2. \A q \in Requests : /\ blockIds'[q] = blockIds[q] \/ (q = r /\ Finished(r))
                              /\ q \in tracked' => q \in tracked
      BY <1>2 DEF Forget, requestVars, Grounds, TypeOK
    <2> HIDE DEF r
    <2>3. ASSUME NEW q \in Requests, Followed(q)'
          PROVE  /\ Followed(q)
                 /\ table'[q] = table[q] /\ blockIds'[q] = blockIds[q] /\ computed'[q] = computed[q]
      <3>1. phase[q] = "running" /\ q \in tracked
        BY <2>1, <2>2, <2>3 DEF Followed
      <3>2. ~(q = r /\ Finished(r))
        BY <3>1 DEF Finished
      <3>3. Followed(q)
        BY <1>2, <3>1 DEF Followed
      <3> QED BY <1>2, <2>1, <2>2, <3>2, <3>3
    <2> QED BY <1>2, <2>3, KeptFollowing
  <1> QED BY <1>1, <1>2 DEF UpdateConnectorOutput, AfterReport, CompleteJob, Raise, engineVars

LEMMA NextFollowing ==
  ASSUME Grounds, Following, [Next]_vars
  PROVE  Following'
  <1>1. ASSUME pc' = "dead", UNCHANGED sched
        PROVE  Following'
    <2>1. \A q \in Requests : ~Followed(q)'
      BY <1>1 DEF Followed
    <2> QED BY <1>1, <2>1, KeptFollowing
  <1>2. CASE StartStep
    <2>1. pc = "idle" /\ pc' = "schedule" /\ UNCHANGED <<phase, table, computed, sched, tracked, blockIds>>
      BY <1>2 DEF StartStep, requestVars
    <2>2. \A r \in Requests : sched[r] = NotScheduled /\ ~(sched[r].n > 0)
      <3>1. \A r \in Requests : ~(sched[r].n > 0) /\ sched[r].n \in Nat
        BY <2>1 DEF Grounds, Bookkeeping, EngineInStep, Scheduled, TypeOK
      <3> QED BY <3>1 DEF Following, OutputBrings
    <2>3. \A r \in Requests : (Followed(r)' => Followed(r)) /\ Reach(r)' = Reach(r)
      BY <2>1 DEF Followed, Reach
    <2>4. \A r \in Requests, g \in Groups : \A i : SameEntry(r, g, i)' <=> SameEntry(r, g, i)
      BY <2>1 DEF SameEntry
    <2>5. ListsFollow'
      BY <2>1, <2>3, <2>4 DEF Following, ListsFollow
    <2>6. OutputBrings'
      BY <2>1, <2>2 DEF OutputBrings
    <2> QED BY <2>5, <2>6 DEF Following
  <1>3. CASE TakeOutput \/ UNCHANGED vars \/ (\E j \in JobIds : WorkerDone(j)) \/ \E r \in Requests : StoreJobs(r)
    <2>1. CASE pc' # "dead" \/ pc = "dead"
      <3>1. UNCHANGED <<phase, table, computed, sched, tracked, blockIds>>
        BY <1>3 DEF TakeOutput, WorkerDone, StoreJobs, Raise, vars, engineVars, requestVars
      <3>2. pc' = pc \/ {pc, pc'} \subseteq {"idle", "output"}
        BY <1>3, <2>1 DEF TakeOutput, AfterReport, WorkerDone, StoreJobs, Raise, vars
      <3>3. \A r \in Requests : Followed(r)' => Followed(r)
        BY <3>1, <3>2 DEF Followed
      <3> QED BY <3>1, <3>2, <3>3, KeptFollowing
    <2>2. CASE pc' = "dead"
      <3>1. UNCHANGED sched
        BY <1>3 DEF TakeOutput, WorkerDone, StoreJobs, Raise, vars, engineVars
      <3> QED BY <1>1, <2>2, <3>1
    <2> QED BY <2>1, <2>2
  <1>4. ASSUME NEW r \in Requests, OnNewRequest(r)
        PROVE  Following'
    <2>1. /\ phase[r] = "unborn" /\ phase' = [phase EXCEPT ![r] = "waiting"]
          /\ tracked' = tracked \cup {r}
          /\ pc = "idle" /\ UNCHANGED <<pc, table, computed, sched, blockIds>>
      BY <1>4 DEF OnNewRequest
    <2>2. \A q \in Requests : Followed(q)' => Followed(q)
      BY <2>1 DEF Followed, Grounds, TypeOK
    <2> QED BY <2>1, <2>2, KeptFollowing
  <1>5. ASSUME NEW r \in Requests, RequestFinished(r)
        PROVE  Following'
    <2>1. CASE pc' = "dead"
      BY <1>1, <1>5, <2>1 DEF RequestFinished, Raise, engineVars
    <2>2. CASE /\ pc = "idle" /\ UNCHANGED <<pc, sched>>
               /\ phase' = [phase EXCEPT ![r] = "finished"]
               /\ computed' = [computed EXCEPT ![r] = 0]
               /\ UNCHANGED table \/ table' = [table EXCEPT ![r] = EmptyTable]
               /\ UNCHANGED requestVars \/ Forget(r)
      <3>1. ~Followed(r)'
        BY <2>2 DEF Followed, Grounds, TypeOK
      <3>2. ASSUME NEW q \in Requests \ {r}
            PROVE  /\ Followed(q)' => Followed(q)
                   /\ table'[q] = table[q] /\ blockIds'[q] = blockIds[q] /\ computed'[q] = computed[q]
        BY <2>2 DEF Followed, Forget, requestVars, Grounds, TypeOK
      <3> QED BY <2>2, <3>1, <3>2, KeptFollowing
    <2> QED BY <1>5, <2>1, <2>2 DEF RequestFinished, Raise
  <1>6. CASE ResetCache
    <2>1. CASE pc' = "dead"
      BY <1>1, <1>6, <2>1 DEF ResetCache, Raise, engineVars
    <2>2. CASE pc = "idle" /\ UNCHANGED <<pc, phase, table, computed, sched, tracked, blockIds>>
      <3>1. \A r \in Requests : Followed(r)' => Followed(r)
        BY <2>2 DEF Followed
      <3> QED BY <2>2, <3>1, KeptFollowing
    <2> QED BY <1>6, <2>1, <2>2 DEF ResetCache, Raise, engineVars
  <1>7. ASSUME NEW r \in Requests, Scheduling(r)
        PROVE  Following'
    BY <1>7, AdmissionFollowing, ExtensionFollowing, PreemptFollowing DEF Scheduling
  <1>8. ASSUME NEW j \in JobIds, UpdateConnectorOutput(j)
        PROVE  Following'
    BY <1>8, UpdateConnectorOutputFollowing
  <1> QED
    BY <1>2, <1>3, <1>4, <1>5, <1>6, <1>7, <1>8, BeginConnectorMetaFollowing, EndConnectorMetaFollowing
       DEF Next, EngineLoop, Stopped, Calls

\* While store jobs are built, the connector knows every block that a scheduled
\* request holds, at its position, in every group: no order of preemptions, loads,
\* prefix hits, aborts and resets makes its list drift from the engine's.  Only
\* sliding-window entries may be zeroed.
THEOREM HeldBlocksKnownCorrect == Spec => []HeldBlocksKnown
  <1>1. Init => Following
    <2> SUFFICES ASSUME Init PROVE Following
      OBVIOUS
    <2>1. \A r \in Requests : phase[r] = "unborn" /\ sched[r] = NotScheduled
      BY DEF Init
    <2> QED BY <2>1 DEF Init, Following, ListsFollow, Followed, OutputBrings
  <1>2. Grounds /\ Following /\ [Next]_vars => Following'
    BY NextFollowing
  <1>3. Grounds /\ Following => HeldBlocksKnown
    <2> SUFFICES ASSUME Grounds, Following, pc = "store", NEW r \in Scheduled \cap tracked, NEW g \in Groups,
                        NEW i \in DOMAIN table[r][g], table[r][g][i] \in Blocks
                 PROVE  i \in DOMAIN blockIds[r][g] /\ SameEntry(r, g, i)
      BY DEF HeldBlocksKnown, SameEntry
    <2>1. r \in Requests /\ phase[r] = "running"
      BY DEF Scheduled, Grounds, Bookkeeping, EngineInStep
    <2>2. Followed(r) /\ Reach(r) = computed[r] + sched[r].n
      BY <2>1 DEF Followed, Reach
    <2>3. Len(table[r][g]) = computed[r] + sched[r].n /\ Len(blockIds[r][g]) = computed[r] + sched[r].n
      BY <2>1, <2>2 DEF Grounds, TableLengths, Following, ListsFollow
    <2>4. DOMAIN table[r][g] = DOMAIN blockIds[r][g]
      <3>1. table[r][g] \in Seq(BlockId) /\ blockIds[r][g] \in Seq(BlockId)
        BY <2>1 DEF Grounds, TypeOK, Tables
      <3> QED BY <2>3, <3>1
    <2> QED BY <2>1, <2>2, <2>4 DEF Following, ListsFollow
  <1> QED BY <1>1, <1>2, <1>3, TypeCorrect, BookkeepingCorrect, FullTablesCorrect, PTL DEF Spec, Grounds

-----------------------------------------------------------------------------
(***************************************************************************)
(* What the pool holds.  A chunk is being stored by one job, or it is      *)
(* ready, never both; what a load reads stays ready until the load is      *)
(* over; and, if no chunk is stored in part, every block of a chunk that   *)
(* is ready or being stored was copied.                                    *)
(***************************************************************************)
\* no chunk is stored twice
StoresApart ==
    \A j \in jobs : job[j].isStore =>
        /\ job[j].keys \cap ready = {}
        /\ \A i \in jobs \ {j} : job[i].isStore => job[i].keys \cap job[j].keys = {}

\* what a load reads is not evicted before it is over
LoadsPinned ==
    \A j \in jobs : ~job[j].isStore =>
        /\ job[j].keys \subseteq ready
        /\ \A d \in job[j].copies : <<Prompt[job[j].req], d[1], ChunkOf(d[2])>> \in job[j].keys

\* all blocks of a chunk were copied
Complete(k) == \A p \in Nat : ChunkOf(p) = k[3] => <<k[1], k[2], p>> \in stored

ChunksComplete == \A k \in Held : Complete(k)

\* the inductive invariant of the pool
PoolAgrees == StoresApart /\ LoadsPinned

\* A chunk is stored in part only if a sliding window leaves a gap in it: the last
\* of its GPU blocks decides whether it is stored.
ChunksHaveNoGap == BlockSizeFactor = 1 \/ SWGroups = {}

\* A step that neither issues nor ends a transfer.
LEMMA KeptPool ==
  ASSUME PoolAgrees, UNCHANGED <<jobs, ready, stored>>, \A j \in jobs : job'[j] = job[j]
  PROVE  PoolAgrees' /\ (ChunksComplete => ChunksComplete')
  <1>1. PoolAgrees'
    BY DEF PoolAgrees, StoresApart, LoadsPinned
  <1>2. Held' = Held
    BY DEF Held, KeysOf
  <1> QED BY <1>1, <1>2 DEF ChunksComplete, Complete

\* A chunk below the end of a hit.
LEMMA ChunkBelow ==
  ASSUME NEW c \in Nat, NEW p \in Nat
  PROVE  /\ p < c * BlockSizeFactor => ChunkOf(p) \in Nat /\ ChunkOf(p) \in 0 .. c - 1
         /\ ChunkOf(p) < c => p < c * BlockSizeFactor
  <1> DEFINE f == BlockSizeFactor
             q == p \div f
  <1>1. f \in Nat \ {0} /\ q \in Nat /\ f * q <= p /\ p < f * q + f
    BY Quotient, CountsAssumption
  <1>2. c * f = f * c /\ f * c \in Nat /\ f * q \in Nat
    BY <1>1
  <1>3. ChunkOf(p) = q
    BY DEF ChunkOf
  <1> HIDE DEF f, q
  <1>4. ASSUME p < f * c
        PROVE  q < c
    <2>1. CASE c < q
      <3>1. f * c + f <= f * q
        BY <1>1, <2>1, ProductOrder
      <3> QED BY <1>1, <1>2, <1>4, <3>1
    <2>2. CASE c = q
      BY <1>1, <1>2, <1>4, <2>2
    <2> QED BY <1>1, <2>1, <2>2
  <1>5. ASSUME q < c
        PROVE  p < f * c
    <2>1. f * q + f <= f * c
      BY <1>1, <1>5, ProductOrder
    <2> QED BY <1>1, <1>2, <2>1
  <1> QED BY <1>1, <1>2, <1>3, <1>4, <1>5 DEF f

\* A load reads ready chunks, and the chunk of each block it fills.
LEMMA AdmitWithLoadPool ==
  ASSUME TypeOK, Bookkeeping, PoolAgrees, NEW r \in Requests, AdmitWithLoad(r)
  PROVE  PoolAgrees' /\ (ChunksComplete => ChunksComplete')
  <1>1. PICK local \in 0 .. PromptLen : \E c \in LoadableChunks(r, local) : AdmitWithLoad(r)!(local)!(c)
    BY DEF AdmitWithLoad
  <1>2. PICK c \in LoadableChunks(r, local) : AdmitWithLoad(r)!(local)!(c)
    BY <1>1
  <1>3. PICK t \in TablesFor(r, local, c * BlockSizeFactor, c * BlockSizeFactor) :
           IF transferJobs[r] # {}
           THEN Raise("load issued while jobs are pending")
           ELSE IssueLoad(r, t, local, c) /\ UNCHANGED managerVars
    BY <1>2
  <1>4. CASE transferJobs[r] # {}
    BY <1>3, <1>4, KeptPool DEF Raise, jobVars, managerVars
  <1>5. CASE transferJobs[r] = {}
    <2> DEFINE hit == c * BlockSizeFactor
               copies == LoadCopies(t, local, hit)
               keys   == LoadKeys(r, copies, c)
    <2>1. NewJob(r, FALSE, keys, copies) /\ UNCHANGED <<ready, stored>>
      BY <1>3, <1>5 DEF IssueLoad, managerVars
    <2>2. c \in Nat /\ local \in Nat
      BY CountsAssumption DEF LoadableChunks
    <2>3. keys \subseteq ready
      <3>1. keys \subseteq HitKeys(r, c, local)
        BY <2>2, LoadKeysHit
      <3>2. HitKeys(r, c, local) \subseteq ready
        BY DEF LoadableChunks, Loadable
      <3> HIDE DEF keys
      <3> QED BY <3>1, <3>2
    <2>4. ASSUME NEW d \in copies
          PROVE  <<Prompt[r], d[1], ChunkOf(d[2])>> \in keys
      <3>1. PICK g \in Groups, p \in local .. hit - 1 : d = <<g, p, t[g][p + 1]>>
        BY DEF LoadCopies
      <3>2. hit \in Nat
        BY <2>2, CountsAssumption
      <3>3. p \in Nat /\ p < hit /\ d[1] = g /\ d[2] = p
        BY <2>2, <3>1, <3>2
      <3>4. ChunkOf(p) \in Nat /\ ChunkOf(p) \in 0 .. c - 1
        BY <2>2, <3>3, ChunkBelow
      <3> HIDE DEF copies, hit
      <3> DEFINE s == <<g, ChunkOf(p)>>
      <3>5. Key(r, g, ChunkOf(p)) \in keys
        <4>1. s \in Groups \X (0 .. c - 1) /\ s[1] = g /\ s[2] = ChunkOf(p)
          BY <3>4
        <4>2. d[1] = s[1] /\ ChunkOf(d[2]) <= s[2]
          BY <3>3, <3>4, <4>1
        <4> HIDE DEF s
        <4>3. Key(r, s[1], s[2]) \in LoadKeys(r, copies, c)
          BY <4>1, <4>2 DEF LoadKeys
        <4> QED BY <4>1, <4>3
      <3> QED BY <3>3, <3>5 DEF Key
    <2> HIDE DEF keys, copies
    <2>5. PICK n \in JobIds : n = jobCounter
      <3>1. jobCounter < MaxJobs
        BY <1>2
      <3> QED BY <3>1, CountsAssumption DEF TypeOK, JobIds
    <2>6. /\ jobs' = jobs \cup {n}
          /\ job'[n].keys = keys /\ job'[n].isStore = FALSE /\ job'[n].copies = copies /\ job'[n].req = r
          /\ \A j \in JobIds \ {n} : job'[j] = job[j]
      BY <2>1, <2>5 DEF NewJob, TypeOK
    <2>7. \A j \in jobs : j # n /\ job'[j] = job[j]
      BY <2>5, <2>6 DEF Bookkeeping, JobsAreIssued, TypeOK, JobIds
    <2>8. PoolAgrees'
      BY <2>1, <2>3, <2>4, <2>6, <2>7 DEF PoolAgrees, StoresApart, LoadsPinned
    <2>9. Held' = Held
      <3>1. {i \in jobs' : job'[i].isStore = TRUE} = {i \in jobs : job[i].isStore = TRUE}
        BY <2>6, <2>7
      <3> QED BY <2>1, <2>7, <3>1 DEF Held, KeysOf
    <2> QED BY <2>1, <2>8, <2>9 DEF ChunksComplete, Complete
  <1> QED BY <1>4, <1>5

\* A store copies every block of its chunks.
LEMMA StoredWhole ==
  ASSUME TypeOK, FullTables, ChunksHaveNoGap, NEW r \in Requests, NEW end \in Nat, Refused(r, end) = "none",
         NEW keys, keys \subseteq {Key(r, s[1], s[2]) : s \in NewChunks(r, end)},
         NEW k \in keys, NEW p \in Nat, ChunkOf(p) = k[3]
  PROVE  <<k[1], k[2], p>> \in {Data(r, d[1], d[2]) : d \in StoreCopies(r, end, keys)}
  <1>1. PICK g \in Groups, c \in 0 .. end - 1 :
          /\ k = Key(r, g, c) /\ c >= nextStored[r][g]
          /\ blockIds[r][g][(c + 1) * BlockSizeFactor] \in Blocks
    BY DEF NewChunks
  <1>2. k[1] = Prompt[r] /\ k[2] = g /\ ChunkOf(p) = c /\ c \in Nat /\ nextStored[r][g] \in Nat
    BY <1>1 DEF Key, TypeOK
  <1>3. end * BlockSizeFactor \in Nat /\ p \in 0 .. end * BlockSizeFactor - 1
    <2>1. p < end * BlockSizeFactor
      BY <1>1, <1>2, ChunkBelow
    <2>2. end * BlockSizeFactor \in Nat
      BY CountsAssumption
    <2> QED BY <2>1, <2>2
  <1>4. blockIds[r][g][p + 1] \in Blocks
    <2>1. CASE BlockSizeFactor = 1
      <3>1. p = c /\ (c + 1) * BlockSizeFactor = p + 1
        BY <1>2, <2>1 DEF ChunkOf
      <3> QED BY <1>1, <3>1
    <2>2. CASE SWGroups = {}
      <3>1. blockIds[r][g] \in Seq(Blocks)
        BY <2>2 DEF FullTables, Groups
      <3>2. Len(blockIds[r][g]) >= end * BlockSizeFactor
        <4>1. end > nextStored[r][g]
          BY <1>1, <1>2
        <4>2. ~(Len(blockIds[r][g]) < end * BlockSizeFactor)
          BY <4>1 DEF Refused
        <4>3. Len(blockIds[r][g]) \in Nat
          BY <3>1
        <4> QED BY <1>3, <4>2, <4>3
      <3>3. p + 1 \in 1 .. Len(blockIds[r][g])
        BY <1>3, <3>1, <3>2
      <3> QED BY <3>1, <3>3
    <2> QED BY <2>1, <2>2 DEF ChunksHaveNoGap
  <1> DEFINE s == <<g, p>>
             d == <<g, p, blockIds[r][g][p + 1]>>
  <1>5. Key(r, g, ChunkOf(p)) \in keys /\ ChunkOf(p) >= nextStored[r][g]
    BY <1>1, <1>2
  <1>6. d \in StoreCopies(r, end, keys)
    <2>1. s \in Groups \X (0 .. end * BlockSizeFactor - 1) /\ s[1] = g /\ s[2] = p
      BY <1>3
    <2> QED BY <1>4, <1>5, <2>1 DEF StoreCopies
  <1>7. Data(r, d[1], d[2]) = <<k[1], k[2], p>>
    BY <1>2 DEF Data
  <1> QED BY <1>6, <1>7


\* Chunks that are evicted are neither being stored nor being loaded.
LEMMA EvictedAreIdle ==
  ASSUME TypeOK, PoolAgrees, NEW new, NEW evicted \in Evictions(new)
  PROVE  /\ evicted \subseteq ready /\ evicted \cap KeysOf(FALSE) = {} /\ evicted \cap KeysOf(TRUE) = {}
         /\ jobCounter < MaxJobs
  <1>1. jobCounter # MaxJobs /\ evicted \in SUBSET Evictable(new)
    BY DEF Evictions, kSubset
  <1>2. jobCounter < MaxJobs
    BY <1>1, CountsAssumption DEF TypeOK
  <1>3. KeysOf(TRUE) \cap ready = {}
    BY DEF PoolAgrees, StoresApart, KeysOf
  <1> QED BY <1>1, <1>2, <1>3 DEF Evictable

\* A new store takes only chunks that nobody holds, and copies them whole.
LEMMA IssueStorePool ==
  ASSUME TypeOK, Bookkeeping, FullTables, PoolAgrees, NEW r \in Requests, NEW end \in Nat,
         Refused(r, end) = "none",
         NEW new, new = {Key(r, s[1], s[2]) : s \in NewChunks(r, end)},
         NEW evicted \in Evictions(new), IssueStore(r, end, new \ Held, evicted)
  PROVE  PoolAgrees' /\ (ChunksHaveNoGap /\ ChunksComplete => ChunksComplete')
  <1> SUFFICES ASSUME NEW keys, keys = new \ Held, NEW copies, copies = StoreCopies(r, end, keys)
               PROVE  PoolAgrees' /\ (ChunksHaveNoGap /\ ChunksComplete => ChunksComplete')
    OBVIOUS
  <1>1. /\ NewJob(r, TRUE, keys, copies)
        /\ ready' = ready \ evicted
        /\ stored' = (stored \ StoredOf(evicted \cup keys)) \cup {Data(r, d[1], d[2]) : d \in copies}
    BY DEF IssueStore
  <1>2. /\ evicted \subseteq ready /\ evicted \cap KeysOf(FALSE) = {} /\ evicted \cap KeysOf(TRUE) = {}
        /\ jobCounter < MaxJobs
    BY EvictedAreIdle
  <1>3. PICK n \in JobIds : n = jobCounter
    BY <1>2, CountsAssumption DEF TypeOK, JobIds
  <1>4. /\ jobs' = jobs \cup {n} /\ \A j \in JobIds \ {n} : job'[j] = job[j]
        /\ job'[n].isStore = TRUE /\ job'[n].keys = keys
    BY <1>1, <1>3 DEF NewJob, TypeOK
  <1>5. \A j \in jobs : j # n /\ job'[j] = job[j]
    BY <1>3, <1>4 DEF Bookkeeping, JobsAreIssued, TypeOK, JobIds
  <1>6. \A j \in jobs : job[j].isStore \in BOOLEAN
    BY LoadOrStore
  <1>7. /\ \A j \in jobs : job[j].isStore => job[j].keys \subseteq KeysOf(TRUE)
        /\ \A j \in jobs : ~job[j].isStore => job[j].keys \subseteq KeysOf(FALSE)
    BY <1>6 DEF KeysOf
  <1>8. keys \cap ready = {} /\ keys \cap KeysOf(TRUE) = {}
    BY DEF Held
  <1>9. StoresApart'
    BY <1>1, <1>4, <1>5, <1>7, <1>8 DEF PoolAgrees, StoresApart
  <1>10. LoadsPinned'
    BY <1>1, <1>2, <1>4, <1>5, <1>7 DEF PoolAgrees, LoadsPinned
  <1>11. ASSUME ChunksHaveNoGap, ChunksComplete
         PROVE  ChunksComplete'
    <2>1. KeysOf(TRUE)' = KeysOf(TRUE) \cup keys
      <3>1. {job'[j].keys : j \in {i \in jobs' : job'[i].isStore = TRUE}} =
              {job[j].keys : j \in {i \in jobs : job[i].isStore = TRUE}} \cup {keys}
        BY <1>4, <1>5
      <3> QED BY <3>1 DEF KeysOf
    <2> SUFFICES ASSUME NEW k \in Held', NEW p \in Nat, ChunkOf(p) = k[3]
                 PROVE  <<k[1], k[2], p>> \in stored'
      BY DEF ChunksComplete, Complete
    <2>2. CASE k \in keys
      <3>1. <<k[1], k[2], p>> \in {Data(r, d[1], d[2]) : d \in copies}
        BY <1>11, <2>2, StoredWhole
      <3> QED BY <1>1, <3>1
    <2>3. CASE k \notin keys
      <3>1. k \in Held /\ k \notin evicted
        BY <1>1, <1>2, <2>1, <2>3 DEF Held
      <3>2. <<k[1], k[2], p>> \in stored
        BY <1>11, <3>1 DEF ChunksComplete, Complete
      <3>3. k \in Keys
        <4>1. \A j \in jobs : job[j].keys \subseteq Keys
          <5> SUFFICES ASSUME NEW j \in jobs PROVE job[j].keys \subseteq Keys
            OBVIOUS
          <5>1. job[j] \in Job
            BY DEF TypeOK
          <5>2. job[j] = NoJob => job[j].keys = {}
            BY DEF NoJob
          <5> QED BY <5>1, <5>2 DEF Job
        <4> QED BY <3>1, <4>1 DEF Held, KeysOf, TypeOK
      <3>4. k = <<k[1], k[2], k[3]>>
        BY <3>3 DEF Keys
      <3>5. <<k[1], k[2], p>> \notin StoredOf(evicted \cup keys)
        BY <2>3, <3>1, <3>4 DEF StoredOf
      <3> QED BY <1>1, <3>2, <3>5
    <2> QED BY <2>2, <2>3
  <1> QED BY <1>9, <1>10, <1>11 DEF PoolAgrees

\* _build_store_jobs issues at most such a store.
LEMMA StoreJobsPool ==
  ASSUME TypeOK, Bookkeeping, FullTables, PoolAgrees, NEW r \in Requests, StoreJobs(r)
  PROVE  PoolAgrees' /\ (ChunksHaveNoGap /\ ChunksComplete => ChunksComplete')
  <1>1. PICK tokens \in Offloadable(r) : StoreJobs(r)!2!(tokens)
    BY DEF StoreJobs
  <1> DEFINE end == ChunkOf(tokens)
             new == {Key(r, s[1], s[2]) : s \in NewChunks(r, end)}
  <1>2. end \in Nat
    <2>1. tokens \in Nat
      BY CountsAssumption DEF Offloadable, TypeOK, AtMost, AtLeast0
    <2> QED BY <2>1, CountsAssumption DEF ChunkOf
  <1>3. CASE r \in tracked /\ Refused(r, end) # "none"
    BY <1>1, <1>3, KeptPool DEF Raise, jobVars, managerVars
  <1>4. CASE ~(r \in tracked /\ Refused(r, end) # "none")
    <2>1. IF r \in tracked THEN StoreChunks(r, end) ELSE SkipStore(nextStored)
      BY <1>1, <1>4
    <2> HIDE DEF end
    <2>2. ASSUME NEW next, SkipStore(next)
          PROVE  PoolAgrees' /\ (ChunksHaveNoGap /\ ChunksComplete => ChunksComplete')
      BY <2>2, KeptPool DEF SkipStore, jobVars, managerVars
    <2>3. ASSUME r \in tracked, NEW evicted \in Evictions(new), IssueStore(r, end, new \ Held, evicted)
          PROVE  PoolAgrees' /\ (ChunksHaveNoGap /\ ChunksComplete => ChunksComplete')
      <3>1. Refused(r, end) = "none"
        BY <1>4, <2>3 DEF end
      <3> QED BY <1>2, <2>3, <3>1, IssueStorePool
    <2> QED BY <2>1, <2>2, <2>3 DEF StoreChunks
  <1> QED BY <1>3, <1>4

\* A job that ends makes what it stored loadable, or stops pinning what it loaded.
LEMMA UpdateConnectorOutputPool ==
  ASSUME TypeOK, Bookkeeping, PoolAgrees, NEW j \in JobIds, UpdateConnectorOutput(j)
  PROVE  PoolAgrees' /\ (ChunksComplete => ChunksComplete')
  <1>1. CASE j >= staleJob /\ CompletionError(j) # "none"
    BY <1>1, KeptPool DEF UpdateConnectorOutput, Raise, jobVars, managerVars
  <1>2. CASE ~(j >= staleJob /\ CompletionError(j) # "none")
    <2>1. pc = "output" /\ job' = (IF Drained(j) THEN [job EXCEPT ![j] = NoJob] ELSE job) /\ stored' = stored
      BY <1>2 DEF UpdateConnectorOutput
    <2>2. \A i \in JobIds \ {j} : job'[i] = job[i]
      BY <2>1 DEF TypeOK
    <2>3. CASE j < staleJob
      <3>1. UNCHANGED <<jobs, ready>>
        BY <1>2, <2>3 DEF UpdateConnectorOutput
      <3>2. \A i \in jobs : i \in JobIds \ {j}
        BY <2>3 DEF Bookkeeping, JobsAreIssued, JobIds, TypeOK
      <3> QED BY <2>1, <2>2, <3>1, <3>2, KeptPool
    <2>4. CASE ~(j < staleJob)
      <3>1. j \in jobs
        <4>1. j >= staleJob
          BY <2>4 DEF JobIds, TypeOK
        <4> QED BY <1>2, <4>1 DEF CompletionError
      <3>2. CASE report[j] < pending[j]
        <4>1. UNCHANGED <<jobs, ready>>
          BY <1>2, <2>4, <3>2 DEF UpdateConnectorOutput
        <4>2. ~Drained(j)
          <5>1. pending[j] = Outstanding(j)
            BY <2>1, <3>1 DEF Bookkeeping, IssuedAreUnsent, SentAreCounted
          <5>2. Outstanding(j) # report[j]
            BY <3>2, <5>1, ReportTypes
          <5>3. report[j] \in Nat
            BY ReportTypes
          <5> QED BY <5>2, <5>3 DEF Drained, Outstanding
        <4> QED BY <2>1, <4>1, <4>2, KeptPool
      <3>3. CASE ~(report[j] < pending[j])
        <4>1. /\ ready' = IF job[j].isStore THEN ready \cup job[j].keys ELSE ready
              /\ jobs' = jobs \ {j}
          BY <1>2, <2>4, <3>3 DEF UpdateConnectorOutput, CompleteJob
        <4>2. \A i \in jobs' : i \in jobs /\ i # j /\ job'[i] = job[i]
          BY <2>2, <4>1 DEF TypeOK
        <4>3. job[j].isStore \in BOOLEAN
          BY <3>1, LoadOrStore
        <4>4. StoresApart'
          BY <3>1, <4>1, <4>2, <4>3 DEF PoolAgrees, StoresApart
        <4>5. LoadsPinned'
          BY <4>1, <4>2 DEF PoolAgrees, LoadsPinned
        <4>6. Held' \subseteq Held
          <5>1. KeysOf(TRUE)' \subseteq KeysOf(TRUE)
            BY <4>2 DEF KeysOf
          <5>2. job[j].isStore => job[j].keys \subseteq KeysOf(TRUE)
            BY <3>1, <4>3 DEF KeysOf
          <5> QED BY <4>1, <5>1, <5>2 DEF Held
        <4> QED BY <2>1, <4>4, <4>5, <4>6 DEF PoolAgrees, ChunksComplete, Complete
      <3> QED BY <3>2, <3>3
    <2> QED BY <2>3, <2>4
  <1> QED BY <1>1, <1>2

\* No step breaks what the pool holds.
LEMMA NextPool ==
  ASSUME TypeOK, Bookkeeping, FullTables, PoolAgrees, [Next]_vars
  PROVE  PoolAgrees' /\ (ChunksHaveNoGap /\ ChunksComplete => ChunksComplete')
  <1>1. CASE StartStep \/ BeginConnectorMeta \/ EndConnectorMeta \/ TakeOutput \/ UNCHANGED vars
    <2>1. UNCHANGED <<jobs, job, ready, stored>>
      BY <1>1 DEF StartStep, BeginConnectorMeta, EndConnectorMeta, TakeOutput, Raise, vars, jobVars, managerVars
    <2> QED BY <2>1, KeptPool
  <1>2. ASSUME NEW r \in Requests, Scheduling(r)
        PROVE  PoolAgrees' /\ (ChunksComplete => ChunksComplete')
    <2>1. CASE AdmitWithLoad(r)
      BY <2>1, AdmitWithLoadPool
    <2>2. CASE ~AdmitWithLoad(r)
      <3>1. UNCHANGED <<jobs, job, ready, stored>>
        BY <1>2, <2>2 DEF Scheduling, NotAdmitted, AdmitWithoutLoad, ScheduleLoaded,
                          ScheduleRunning, Preempt, jobVars, managerVars
      <3> QED BY <3>1, KeptPool
    <2> QED BY <2>1, <2>2
  <1>3. ASSUME NEW r \in Requests, Calls(r)
        PROVE  PoolAgrees' /\ (ChunksComplete => ChunksComplete')
    <2>1. UNCHANGED <<jobs, job, ready, stored>>
      BY <1>3 DEF Calls, OnNewRequest, RequestFinished, Raise, jobVars, managerVars
    <2> QED BY <2>1, KeptPool
  <1>4. ASSUME NEW j \in JobIds, WorkerDone(j)
        PROVE  PoolAgrees' /\ (ChunksComplete => ChunksComplete')
    <2>1. UNCHANGED <<jobs, job, ready, stored>>
      BY <1>4 DEF WorkerDone, jobVars, managerVars
    <2> QED BY <2>1, KeptPool
  <1>5. CASE ResetCache
    <2>1. CASE UNCHANGED <<jobs, job, ready, stored>>
      BY <2>1, KeptPool
    <2>2. CASE jobs' = {} /\ ready' = {}
      <3>1. PoolAgrees' /\ Held' = {}
        BY <2>2 DEF PoolAgrees, StoresApart, LoadsPinned, Held, KeysOf
      <3> QED BY <3>1 DEF ChunksComplete
    <2> QED BY <1>5, <2>1, <2>2 DEF ResetCache, Raise, jobVars, managerVars
  <1> QED
    BY <1>1, <1>2, <1>3, <1>4, <1>5, StoreJobsPool, UpdateConnectorOutputPool
       DEF Next, EngineLoop, Stopped

\* A chunk is stored by one job at a time and not again while it is ready, and a
\* chunk is not evicted while a load reads it, for any capacity of the pool.
THEOREM PoolCorrect == Spec => []PoolAgrees
  <1>1. Init => PoolAgrees
    BY DEF Init, PoolAgrees, StoresApart, LoadsPinned
  <1>2. TypeOK /\ Bookkeeping /\ (FullTables /\ TableLengths) /\ PoolAgrees /\ [Next]_vars => PoolAgrees'
    BY NextPool
  <1> QED BY <1>1, <1>2, TypeCorrect, BookkeepingCorrect, FullTablesCorrect, PTL DEF Spec

\* Where no chunk is stored in part, a load only reads blocks that were stored: what
\* it copies to the GPU was copied to the CPU for the same prefix, group and
\* position, whatever was evicted, stored again or reset meanwhile.  With a sliding
\* window and chunks of several blocks this is false: MCRetry refutes it.
THEOREM LoadsReadStored ==
  ASSUME ChunksHaveNoGap
  PROVE  Spec => []LoadsReadStoredData
  <1>1. Init => ChunksComplete
    BY DEF Init, ChunksComplete, Held, KeysOf
  <1>2. TypeOK /\ Bookkeeping /\ (FullTables /\ TableLengths) /\ PoolAgrees /\ ChunksComplete /\ [Next]_vars
          => ChunksComplete'
    BY NextPool
  <1>3. TypeOK /\ PoolAgrees /\ ChunksComplete => LoadsReadStoredData
    <2> SUFFICES ASSUME TypeOK, PoolAgrees, ChunksComplete,
                        NEW j \in jobs, ~job[j].isStore, NEW d \in job[j].copies
                 PROVE  Data(job[j].req, d[1], d[2]) \in stored
      BY DEF LoadsReadStoredData
    <2> DEFINE k == <<Prompt[job[j].req], d[1], ChunkOf(d[2])>>
    <2>1. k \in Held
      BY DEF PoolAgrees, LoadsPinned, Held
    <2>2. d[2] \in Nat
      <3>1. job[j] \in Job
        BY DEF TypeOK
      <3>2. job[j] = NoJob => job[j].copies = {}
        BY DEF NoJob
      <3>3. d \in Copy
        BY <3>1, <3>2 DEF Job
      <3> QED BY <3>3 DEF Copy
    <2>3. <<k[1], k[2], d[2]>> \in stored
      BY <2>1, <2>2 DEF ChunksComplete, Complete
    <2> QED BY <2>3 DEF Data
  <1> QED BY <1>1, <1>2, <1>3, TypeCorrect, BookkeepingCorrect, FullTablesCorrect, PoolCorrect, PTL DEF Spec

=============================================================================
