----------------------- MODULE BenchOrchestratorProofs -----------------------
(***************************************************************************)
(* Theorems about BenchOrchestrator, for every plan, number of executions  *)
(* and number of faults.                                                   *)
(*                                                                         *)
(* What a row holds depends on what earlier executions left in the         *)
(* directory of its cycle, in the log files of the client pod and on the   *)
(* deployments: Traced says whose each of these is.                        *)
(***************************************************************************)
EXTENDS BenchOrchestrator, SequenceTheorems, FiniteSetTheorems, TLAPS

NowType == [clean : BOOLEAN, alone : BOOLEAN, warm : BOOLEAN, lost : BOOLEAN, copied : BOOLEAN,
            dumped : SUBSET Nat, traffic : SUBSET Nat]

\* the executions of a cycle so far
ExecsOf(c) == {e \in 1 .. exec : execs[e] = c}

InCycle    == pc # "next"
Measuring  == pc \in {"launch", "poll", "dump", "collect"}

\* Every execution fits its bound; the current one is of the current cycle and
\* has no row yet; later ones left no trace.
Course ==
    /\ exec + (Len(Plan) - cur) + (IF InCycle THEN 0 ELSE 1) <= MaxExecs
    /\ now \in NowType
    /\ InCycle => cur \in Cycles /\ exec \in Executions /\ execs[exec] = cur /\ row = {}
    /\ \A e \in Executions : e > exec => run[e] = "none" /\ served[e] = {}
    /\ pc \in {"wait", "launch"} => run[exec] = "none"
    /\ pc \in {"wait", "launch", "poll", "dump"} => now.dumped = {} /\ now.traffic = {} /\ ~now.copied
    /\ \A r \in row : r.exec = exec /\ exec \in Executions /\ r.cycle \in Cycles

\* Whose log a directory holds, and whose the log to be copied is.
LogsTraced ==
    /\ \A c \in Cycles : "lost" \notin tainted[c] => dirs[c].log \in ExecsOf(c) \cup {0}
    /\ pc \in {"wait", "launch"} => ~now.lost
    /\ InCycle /\ now.lost => "lost" \in tainted[cur]
    /\ pc \in {"poll", "dump"} /\ ~now.lost => logs[LogFile] = exec
    /\ pc = "collect" /\ now.copied /\ ~now.lost => dirs[cur].log = exec

\* Whose metrics a directory holds, and which pods there are to dump.
MetricsTraced ==
    /\ \A c \in Cycles :
         Plan[c] # "nocold" /\ "unclean" \notin tainted[c] => dirs[c].metrics \subseteq ExecsOf(c)
    /\ pc = "wait" => Kind # "nocold"
    /\ InCycle /\ now.clean => dgd = exec /\ Kind # "nocold"
    /\ Measuring /\ Kind # "nocold" /\ "unclean" \notin tainted[cur] => now.clean
    /\ Measuring /\ now.clean => up \subseteq {exec}

\* Whose requests the deployment of a clean execution served that began alone.
TrafficTraced ==
    /\ InCycle /\ now.alone => Running \subseteq {exec}
    /\ InCycle /\ now.clean /\ now.alone => served[exec] \subseteq {exec}
    /\ pc = "collect" /\ now.clean /\ now.alone => now.traffic \subseteq {exec}

\* A benchmark that completed on a clean deployment was served by it, which a
\* warm run then finds.
WarmTraced ==
    /\ Measuring /\ now.clean /\ run[exec] = "complete" => exec \in served[exec]
    /\ \A w \in row : w.run = "complete" /\ w.now.clean =>
         dgd = exec /\ up \subseteq {exec} /\ exec \in served[exec]
    /\ pc = "wait" => ~now.warm
    /\ InCycle /\ now.warm => dgd = exec - 1 /\ up \subseteq {exec - 1} /\ exec - 1 \in Executions /\ exec - 1 \in served[exec - 1]
    /\ pc = "collect" /\ now.warm /\ now.dumped # {} => exec - 1 \in now.traffic

RowsTraced == LogsAreOwn /\ MetricsAreOwn /\ TrafficIsOwn /\ WarmRunsAreWarm

Traced == TypeOK /\ Course /\ LogsTraced /\ MetricsTraced /\ TrafficTraced /\ WarmTraced /\ RowsTraced

-----------------------------------------------------------------------------
\* An execution that begins is the last, and the earlier ones stay what they are.
LEMMA ExecutionBegins ==
  ASSUME TypeOK, cur \in Cycles, execs' = Append(execs, cur)
  PROVE  /\ exec \in Nat /\ exec' = exec + 1 /\ execs' \in Seq(Cycles)
         /\ execs'[exec + 1] = cur
         /\ \A e \in 1 .. exec : execs'[e] = execs[e]
         /\ \A c : ExecsOf(c) \subseteq ExecsOf(c)'
  <1>1. execs \in Seq(Cycles)
    BY DEF TypeOK
  <1>2. /\ exec \in Nat /\ exec' = exec + 1 /\ execs' \in Seq(Cycles)
        /\ execs'[exec + 1] = cur
        /\ \A e \in 1 .. exec : execs'[e] = execs[e]
    BY <1>1 DEF exec
  <1>3. ASSUME NEW c, NEW e \in ExecsOf(c) PROVE e \in ExecsOf(c)'
    <2>1. e \in 1 .. exec /\ execs[e] = c
      BY <1>3 DEF ExecsOf
    <2>2. e \in 1 .. exec'
      BY <1>2, <2>1
    <2>3. execs'[e] = c
      BY <1>2, <2>1
    <2> QED BY <2>2, <2>3 DEF ExecsOf
  <1> QED BY <1>2, <1>3

\* Types that mention the number of executions hold for more of them.
LEMMA TypesGrow ==
  ASSUME TypeOK, exec \in Nat, exec' = exec + 1
  PROVE  /\ dirs \in [Cycles -> [log : 0 .. exec', metrics : SUBSET (1 .. exec')]]
         /\ dgd \in 0 .. exec' /\ up \subseteq 1 .. exec'
         /\ served \in [Executions -> SUBSET (1 .. exec')]
         /\ logs \in [LogFiles -> 0 .. exec']
  <1>1. 0 .. exec \subseteq 0 .. exec' /\ 1 .. exec \subseteq 1 .. exec'
    OBVIOUS
  <1>2. \A c \in Cycles : dirs[c] \in [log : 0 .. exec', metrics : SUBSET (1 .. exec')]
    BY <1>1 DEF TypeOK
  <1>3. \A e \in Executions : served[e] \in SUBSET (1 .. exec')
    BY <1>1 DEF TypeOK
  <1>4. \A f \in LogFiles : logs[f] \in 0 .. exec'
    BY <1>1 DEF TypeOK
  <1> QED BY <1>1, <1>2, <1>3, <1>4 DEF TypeOK

\* The pods that are ready can be counted.
LEMMA PodsCounted ==
  ASSUME TypeOK
  PROVE  exec \in Nat /\ \A S \in SUBSET up : Cardinality(S) \in Nat
  <1>1. exec \in Nat /\ up \subseteq 1 .. exec
    BY DEF TypeOK, exec
  <1>2. IsFiniteSet(1 .. exec)
    BY <1>1, FS_Interval
  <1> QED BY <1>1, <1>2, FS_Subset, FS_CardinalityType

\* A step that writes no row and begins no execution keeps what is said of rows.
LEMMA RowsKept ==
  ASSUME RowsTraced, row' = row, execs' = execs, tainted' = tainted
  PROVE  RowsTraced'
  BY DEF RowsTraced, LogsAreOwn, MetricsAreOwn, TrafficIsOwn, WarmRunsAreWarm, SameCycle

\* Every step keeps the types.
LEMMA TypedStep ==
  ASSUME Traced, [Next]_vars
  PROVE  TypeOK'
  <1>1. CASE ColdRestart
    <2>1. cur \in Cycles /\ execs' = Append(execs, cur) /\ TypeOK
      BY <1>1 DEF ColdRestart, Traced
    <2>2. exec \in Nat /\ exec' = exec + 1 /\ execs' \in Seq(Cycles)
      BY <2>1, ExecutionBegins
    <2>3. exec' <= MaxExecs
      BY <1>1, <2>2, PlanAssumption DEF ColdRestart, Traced, Course, InCycle, Cycles
    <2>4. dgd' \in 0 .. exec'
      BY <1>1, <2>1, <2>2 DEF ColdRestart, Deployed, TypeOK
    <2>5. faults' \in 0 .. MaxFaults
      BY <1>1, <2>1, PlanAssumption DEF ColdRestart, Faults, TypeOK
    <2> QED BY <1>1, <2>1, <2>2, <2>3, <2>4, <2>5, TypesGrow DEF ColdRestart, TypeOK, Cycles,
          Executions, LogFiles
  <1>2. CASE StartWarm
    <2>1. cur \in Cycles /\ execs' = Append(execs, cur) /\ TypeOK
      BY <1>2 DEF StartWarm, Traced
    <2>2. exec \in Nat /\ exec' = exec + 1 /\ execs' \in Seq(Cycles)
      BY <2>1, ExecutionBegins
    <2>3. exec' <= MaxExecs
      BY <1>2, <2>2, PlanAssumption DEF StartWarm, Traced, Course, InCycle, Cycles
    <2> QED BY <1>2, <2>1, <2>2, <2>3, TypesGrow DEF StartWarm, SameDeployment, TypeOK,
          Cycles, Executions, LogFiles
  <1>3. CASE WaitReady
    BY <1>3 DEF WaitReady, Taint, exec, clusterVars, fileVars, countVars, Traced, TypeOK
  <1>4. CASE NotReady
    <2>1. cur' \in 1 .. Len(Plan) + 1
      BY <1>4 DEF NotReady, NextCycle, Traced, Course, InCycle, Cycles
    <2> QED BY <1>4, <2>1 DEF NotReady, Traced, TypeOK, countVars, clusterVars, ghostVars,
          Cycles, Executions, LogFiles, exec
  <1>5. CASE Launch
    <2>1. exec \in Executions /\ LogFile \in LogFiles /\ exec \in 1 .. exec
      BY <1>5 DEF Launch, Traced, Course, InCycle, LogFile, LogFiles, Executions
    <2>2. run' \in [Executions -> {"none", "running", "complete", "crashed"}]
      BY <1>5, <2>1 DEF Launch, Traced, TypeOK
    <2>3. logs' \in [LogFiles -> 0 .. exec]
      BY <1>5, <2>1 DEF Launch, NewLog, Traced, TypeOK
    <2>4. served' \in [Executions -> SUBSET (1 .. exec)]
      BY <1>5, <2>1 DEF Launch, Traced, TypeOK
    <2> QED BY <1>5, <2>2, <2>3, <2>4 DEF Launch, Traced, TypeOK, countVars, fileVars,
          ghostVars, Cycles, exec
  <1>6. CASE LaunchLost
    <2>1. cur \in Cycles
      BY <1>6 DEF LaunchLost, Traced, Course, InCycle
    <2>2. tainted' \in [Cycles -> SUBSET {"lost", "unclean"}]
      BY <1>6, <2>1 DEF LaunchLost, Taint, Traced, TypeOK
    <2>3. faults' \in 0 .. MaxFaults
      BY <1>6, PlanAssumption DEF LaunchLost, Faults, Traced, TypeOK
    <2> QED BY <1>6, <2>2, <2>3 DEF LaunchLost, Traced, TypeOK, clusterVars, fileVars, exec
  <1>7. CASE PollEnds
    BY <1>7 DEF PollEnds, exec, clusterVars, fileVars, countVars, ghostVars, Traced, TypeOK
  <1>8. CASE PollTimesOut
    <2>1. faults' \in 0 .. MaxFaults
      BY <1>8, PlanAssumption DEF PollTimesOut, Faults, Traced, TypeOK
    <2> QED BY <1>8, <2>1 DEF PollTimesOut, Traced, TypeOK, clusterVars, fileVars, ghostVars, exec
  <1>9. CASE DumpArtifacts
    <2>1. TypeOK /\ cur \in Cycles /\ LogFile \in LogFiles
      BY <1>9 DEF DumpArtifacts, Traced, Course, InCycle, LogFile, LogFiles
    <2>2. PICK copied \in BOOLEAN, dumped \in SUBSET up :
            /\ Faults(Cardinality(up \ dumped) + IF copied \/ logs[LogFile] = 0 THEN 0 ELSE 1)
            /\ dirs' = [dirs EXCEPT ![cur].log = IF copied THEN logs[LogFile] ELSE @,
                                    ![cur].metrics = @ \cup dumped]
      BY <1>9 DEF DumpArtifacts
    <2>3. Cardinality(up \ dumped) \in Nat
      BY <2>1, PodsCounted
    <2>4. faults' \in 0 .. MaxFaults
      BY <2>1, <2>2, <2>3, PlanAssumption DEF Faults, TypeOK
    <2>5. logs[LogFile] \in 0 .. exec /\ dumped \in SUBSET (1 .. exec)
      BY <2>1, <2>2 DEF TypeOK
    <2>6. dirs[cur] \in [log : 0 .. exec, metrics : SUBSET (1 .. exec)]
      BY <2>1 DEF TypeOK
    <2>7. [dirs[cur] EXCEPT !.log = IF copied THEN logs[LogFile] ELSE @, !.metrics = @ \cup dumped]
            \in [log : 0 .. exec, metrics : SUBSET (1 .. exec)]
      BY <2>5, <2>6
    <2>8. dirs' = [dirs EXCEPT ![cur] = [dirs[cur] EXCEPT !.log = IF copied THEN logs[LogFile] ELSE @,
                                                          !.metrics = @ \cup dumped]]
      BY <2>1, <2>2 DEF TypeOK
    <2>9. dirs' \in [Cycles -> [log : 0 .. exec, metrics : SUBSET (1 .. exec)]]
      BY <2>1, <2>7, <2>8 DEF TypeOK
    <2> QED BY <1>9, <2>1, <2>4, <2>9 DEF DumpArtifacts, TypeOK, clusterVars, exec
  <1>10. CASE CollectMetrics
    <2>1. cur' \in 1 .. Len(Plan) + 1
      BY <1>10 DEF CollectMetrics, NextCycle, Traced, Course, InCycle, Cycles
    <2> QED BY <1>10, <2>1 DEF CollectMetrics, Traced, TypeOK, countVars, clusterVars,
          ghostVars, Cycles, Executions, LogFiles, exec
  <1>11. CASE SweepComplete
    BY <1>11 DEF SweepComplete, vars, exec, clusterVars, fileVars, countVars, ghostVars, Traced,
       TypeOK
  <1>12. CASE Restart
    BY <1>12 DEF Restart, exec, clusterVars, Traced, TypeOK
  <1>13. CASE PodsReady
    <2>1. TypeOK /\ exec \in Nat /\ dgd \in 1 .. exec
      BY <1>13, PodsCounted DEF PodsReady, Traced, TypeOK
    <2>2. Running \subseteq 1 .. exec
      BY <2>1, PlanAssumption DEF Running, Traced, Course, TypeOK, Executions
    <2>3. served' \in [Executions -> SUBSET (1 .. exec)]
      BY <1>13, <2>1, <2>2 DEF PodsReady, TypeOK, Executions
    <2> QED BY <1>13, <2>1, <2>3 DEF PodsReady, TypeOK, countVars, fileVars, ghostVars, exec,
          Cycles, Executions, LogFiles
  <1>14. ASSUME NEW d \in Executions, PodsGone(d) PROVE TypeOK'
    BY <1>14 DEF PodsGone, exec, fileVars, countVars, ghostVars, Traced, TypeOK
  <1>15. ASSUME NEW e \in Executions, RunEnds(e) PROVE TypeOK'
    BY <1>15 DEF RunEnds, exec, fileVars, countVars, ghostVars, Traced, TypeOK
  <1>16. CASE UNCHANGED vars
    BY <1>16 DEF vars, exec, clusterVars, fileVars, countVars, ghostVars, Traced, TypeOK
  <1> QED BY <1>1, <1>2, <1>3, <1>4, <1>5, <1>6, <1>7, <1>8, <1>9, <1>10, <1>11, <1>12, <1>13,
        <1>14, <1>15, <1>16 DEF Next

\* Every step keeps the course of the plan.
LEMMA CoursedStep ==
  ASSUME Traced, [Next]_vars
  PROVE  Course'
  <1>1. CASE ColdRestart
    <2>1. cur \in Cycles /\ execs' = Append(execs, cur) /\ TypeOK /\ ~InCycle
      BY <1>1 DEF ColdRestart, Traced, InCycle
    <2>2. /\ exec \in Nat /\ exec' = exec + 1 /\ execs'[exec + 1] = cur
      BY <2>1, ExecutionBegins
    <2>3. exec + 1 + (Len(Plan) - cur) <= MaxExecs /\ exec + 1 \in Executions
      BY <2>1, <2>2, PlanAssumption DEF Traced, Course, Cycles, Executions
    <2>4. now' \in NowType /\ now'.dumped = {} /\ now'.traffic = {} /\ ~now'.copied
      BY <1>1 DEF ColdRestart, Untouched, NowType, Running
    <2>5. run[exec + 1] = "none" /\ \A e \in Executions : e > exec + 1 => run[e] = "none" /\ served[e] = {}
      BY <2>2, <2>3 DEF Traced, Course, Executions
    <2> QED BY <1>1, <2>1, <2>2, <2>3, <2>4, <2>5 DEF ColdRestart, Course, InCycle, Cycles,
          Executions
  <1>2. CASE StartWarm
    <2>1. cur \in Cycles /\ execs' = Append(execs, cur) /\ TypeOK /\ ~InCycle
      BY <1>2 DEF StartWarm, Traced, InCycle
    <2>2. /\ exec \in Nat /\ exec' = exec + 1 /\ execs'[exec + 1] = cur
      BY <2>1, ExecutionBegins
    <2>3. exec + 1 + (Len(Plan) - cur) <= MaxExecs /\ exec + 1 \in Executions
      BY <2>1, <2>2, PlanAssumption DEF Traced, Course, Cycles, Executions
    <2>4. now' \in NowType /\ now'.dumped = {} /\ now'.traffic = {} /\ ~now'.copied
      BY <1>2 DEF StartWarm, Untouched, NowType, Running
    <2>5. run[exec + 1] = "none" /\ \A e \in Executions : e > exec + 1 => run[e] = "none" /\ served[e] = {}
      BY <2>2, <2>3 DEF Traced, Course, Executions
    <2> QED BY <1>2, <2>1, <2>2, <2>3, <2>4, <2>5 DEF StartWarm, Course, InCycle, Cycles, Executions
  <1>3. CASE WaitReady
    BY <1>3 DEF WaitReady, exec, clusterVars, fileVars, countVars, Traced, Course, InCycle, NowType
  <1>4. CASE NotReady
    BY <1>4 DEF NotReady, Row, NextCycle, Cycles, exec, clusterVars, countVars, ghostVars,
       Traced, Course, InCycle
  <1>5. CASE Launch
    BY <1>5 DEF Launch, Executions, exec, fileVars, countVars, ghostVars, Traced, Course,
       TypeOK, InCycle, NowType
  <1>6. CASE LaunchLost
    BY <1>6 DEF LaunchLost, exec, clusterVars, fileVars, Traced, Course, InCycle, NowType
  <1>7. CASE PollEnds
    BY <1>7 DEF PollEnds, exec, clusterVars, fileVars, countVars, ghostVars, Traced, Course, InCycle
  <1>8. CASE PollTimesOut
    BY <1>8 DEF PollTimesOut, exec, clusterVars, fileVars, ghostVars, Traced, Course, InCycle
  <1>9. CASE DumpArtifacts
    <2>1. exec \in Nat /\ up \subseteq 1 .. exec /\ served \in [Executions -> SUBSET (1 .. exec)] /\ exec \in Executions
      BY <1>9, PodsCounted DEF DumpArtifacts, Traced, TypeOK, Course, InCycle
    <2>2. PICK copied \in BOOLEAN, dumped \in SUBSET up :
            now' = [now EXCEPT !.copied = copied, !.dumped = dumped, !.traffic = UNION {served[d] : d \in dumped}]
      BY <1>9 DEF DumpArtifacts
    <2>3. dumped \subseteq Nat /\ UNION {served[d] : d \in dumped} \subseteq Nat
      <3>1. dumped \subseteq 1 .. exec /\ 1 .. exec \subseteq Executions /\ 1 .. exec \subseteq Nat
        BY <2>1, <2>2, PlanAssumption DEF Executions
      <3>2. \A d \in dumped : served[d] \subseteq Nat
        BY <2>1, <3>1
      <3> QED BY <3>1, <3>2
    <2>4. now' \in NowType
      BY <2>2, <2>3 DEF Traced, Course, NowType
    <2> QED BY <1>9, <2>4 DEF DumpArtifacts, Traced, Course, InCycle, clusterVars, exec
  <1>10. CASE CollectMetrics
    BY <1>10 DEF CollectMetrics, Row, NextCycle, exec, clusterVars, countVars, ghostVars,
       Traced, Course, TypeOK, InCycle
  <1>11. CASE SweepComplete
    BY <1>11 DEF SweepComplete, vars, exec, clusterVars, fileVars, countVars, ghostVars, Traced,
       Course, InCycle
  <1>12. CASE Restart
    BY <1>12 DEF Restart, Untouched, exec, clusterVars, Traced, Course, InCycle, NowType
  <1>13. CASE PodsReady
    <2>1. TypeOK /\ exec \in Nat /\ dgd \in 1 .. exec /\ exec <= MaxExecs
      BY <1>13, PodsCounted DEF PodsReady, Traced, TypeOK
    <2>2. \A e \in Executions : e > exec => served'[e] = {}
      BY <1>13, <2>1 DEF PodsReady, Traced, Course, TypeOK, Executions
    <2> QED BY <1>13, <2>2 DEF PodsReady, Traced, Course, InCycle, countVars, fileVars,
          ghostVars, exec
  <1>14. ASSUME NEW d \in Executions, PodsGone(d) PROVE Course'
    BY <1>14 DEF PodsGone, exec, fileVars, countVars, ghostVars, Traced, Course, InCycle
  <1>15. ASSUME NEW e \in Executions, RunEnds(e) PROVE Course'
    BY <1>15 DEF RunEnds, Running, exec, fileVars, countVars, ghostVars, Traced, Course, InCycle
  <1>16. CASE UNCHANGED vars
    BY <1>16 DEF vars, exec, clusterVars, fileVars, countVars, ghostVars, Traced, Course, InCycle
  <1> QED BY <1>1, <1>2, <1>3, <1>4, <1>5, <1>6, <1>7, <1>8, <1>9, <1>10, <1>11, <1>12, <1>13,
        <1>14, <1>15, <1>16 DEF Next

\* Every step keeps track of whose logs there are.
LEMMA LogsStep ==
  ASSUME Traced, [Next]_vars
  PROVE  LogsTraced'
  <1>1. CASE ColdRestart
    BY <1>1 DEF ColdRestart, Untouched, exec, Traced, LogsTraced, ExecsOf
  <1>2. CASE StartWarm
    BY <1>2 DEF StartWarm, Untouched, exec, Traced, LogsTraced, ExecsOf
  <1>3. CASE WaitReady
    BY <1>3 DEF WaitReady, Taint, exec, fileVars, countVars, Traced, LogsTraced, ExecsOf
  <1>4. CASE NotReady
    BY <1>4 DEF NotReady, exec, countVars, ghostVars, Traced, LogsTraced, ExecsOf
  <1>5. CASE Launch
    BY <1>5 DEF Launch, NewLog, LogFiles, LogFile, Kind, exec, fileVars, countVars, ghostVars,
       Traced, LogsTraced, TypeOK, ExecsOf
  <1>6. CASE LaunchLost
    BY <1>6 DEF LaunchLost, Taint, exec, fileVars, Traced, LogsTraced, TypeOK, Course, InCycle,
       ExecsOf
  <1>7. CASE PollEnds
    BY <1>7 DEF PollEnds, LogFile, Kind, exec, clusterVars, fileVars, countVars, ghostVars,
       Traced, LogsTraced, InCycle, ExecsOf
  <1>8. CASE PollTimesOut
    BY <1>8 DEF PollTimesOut, LogFile, Kind, exec, clusterVars, fileVars, ghostVars, Traced,
       LogsTraced, InCycle, ExecsOf
  <1>9. CASE DumpArtifacts
    <2>1. /\ TypeOK /\ Course /\ LogsTraced /\ cur \in Cycles /\ exec \in Executions /\ execs[exec] = cur
          /\ exec \in Nat /\ now \in NowType /\ pc = "dump" /\ ~now.copied
      BY <1>9, PodsCounted DEF DumpArtifacts, Traced, Course, InCycle
    <2>2. PICK copied \in BOOLEAN, dumped \in SUBSET up :
            /\ dirs' = [dirs EXCEPT ![cur].log = IF copied THEN logs[LogFile] ELSE @,
                                    ![cur].metrics = @ \cup dumped]
            /\ now' = [now EXCEPT !.copied = copied, !.dumped = dumped,
                                  !.traffic = UNION {served[d] : d \in dumped}]
      BY <1>9 DEF DumpArtifacts
    <2>3. now'.lost = now.lost /\ now'.copied = copied
      BY <2>1, <2>2 DEF NowType
    <2>4. /\ dirs'[cur].log = IF copied THEN logs[LogFile] ELSE dirs[cur].log
          /\ \A c \in Cycles \ {cur} : dirs'[c] = dirs[c]
      BY <2>1, <2>2 DEF TypeOK
    <2>5. /\ pc' = "collect" /\ execs' = execs /\ tainted' = tainted /\ cur' = cur
      BY <1>9 DEF DumpArtifacts
    <2>6. ~now.lost => logs[LogFile] = exec /\ exec \in ExecsOf(cur)
      BY <2>1, PlanAssumption DEF LogsTraced, ExecsOf, Executions
    <2>7. "lost" \notin tainted[cur] => ~now.lost
      BY <2>1 DEF LogsTraced, InCycle
    <2>8. \A c \in Cycles : "lost" \notin tainted[c] => dirs'[c].log \in ExecsOf(c) \cup {0}
      BY <2>1, <2>4, <2>6, <2>7 DEF LogsTraced
    <2>9. copied /\ ~now.lost => dirs'[cur].log = exec
      BY <2>4, <2>6
    <2> QED BY <2>1, <2>3, <2>5, <2>7, <2>8, <2>9 DEF LogsTraced, ExecsOf, InCycle, exec
  <1>10. CASE CollectMetrics
    BY <1>10 DEF CollectMetrics, exec, countVars, ghostVars, Traced, LogsTraced, InCycle, ExecsOf
  <1>11. CASE SweepComplete
    BY <1>11 DEF SweepComplete, vars, exec, fileVars, countVars, ghostVars, Traced, LogsTraced,
       InCycle, ExecsOf
  <1>12. CASE Restart
    BY <1>12 DEF Restart, Untouched, exec, Traced, LogsTraced, ExecsOf
  <1>13. CASE PodsReady
    BY <1>13 DEF PodsReady, LogFile, Kind, exec, fileVars, countVars, ghostVars, Traced,
       LogsTraced, InCycle, ExecsOf
  <1>14. ASSUME NEW d \in Executions, PodsGone(d) PROVE LogsTraced'
    BY <1>14 DEF PodsGone, LogFile, Kind, exec, fileVars, countVars, ghostVars, Traced,
       LogsTraced, InCycle, ExecsOf
  <1>15. ASSUME NEW e \in Executions, RunEnds(e) PROVE LogsTraced'
    BY <1>15 DEF RunEnds, LogFile, Kind, exec, fileVars, countVars, ghostVars, Traced,
       LogsTraced, InCycle, ExecsOf
  <1>16. CASE UNCHANGED vars
    BY <1>16 DEF vars, LogFile, Kind, exec, clusterVars, fileVars, countVars, ghostVars, Traced,
       LogsTraced, InCycle, ExecsOf
  <1> QED BY <1>1, <1>2, <1>3, <1>4, <1>5, <1>6, <1>7, <1>8, <1>9, <1>10, <1>11, <1>12, <1>13,
        <1>14, <1>15, <1>16 DEF Next

\* Every step keeps track of whose metrics there are.
LEMMA MetricsStep ==
  ASSUME Traced, [Next]_vars
  PROVE  MetricsTraced'
  <1>1. CASE ColdRestart
    <2>1. /\ cur \in Cycles /\ execs' = Append(execs, cur) /\ TypeOK /\ MetricsTraced
          /\ dirs' = dirs /\ tainted' = tainted /\ cur' = cur
      BY <1>1 DEF ColdRestart, Traced
    <2>2. /\ exec \in Nat /\ exec' = exec + 1 /\ \A c : ExecsOf(c) \subseteq ExecsOf(c)'
      BY <2>1, ExecutionBegins
    <2>3. \A c \in Cycles :
            Plan[c] # "nocold" /\ "unclean" \notin tainted[c] => dirs[c].metrics \subseteq ExecsOf(c)'
      BY <2>1, <2>2 DEF MetricsTraced
    <2>4. now'.clean => dgd' = exec + 1
      BY <1>1, <2>2 DEF ColdRestart, Deployed, Untouched
    <2> QED BY <1>1, <2>1, <2>2, <2>3, <2>4 DEF ColdRestart, MetricsTraced, InCycle, Measuring, Kind
  <1>2. CASE StartWarm
    <2>1. /\ cur \in Cycles /\ execs' = Append(execs, cur) /\ TypeOK /\ MetricsTraced
          /\ dirs' = dirs /\ tainted' = tainted /\ cur' = cur
      BY <1>2 DEF StartWarm, Traced
    <2>2. /\ exec \in Nat /\ exec' = exec + 1 /\ \A c : ExecsOf(c) \subseteq ExecsOf(c)'
      BY <2>1, ExecutionBegins
    <2>3. \A c \in Cycles :
            Plan[c] # "nocold" /\ "unclean" \notin tainted[c] => dirs[c].metrics \subseteq ExecsOf(c)'
      BY <2>1, <2>2 DEF MetricsTraced
    <2>4. ~now'.clean
      BY <1>2 DEF StartWarm, Untouched
    <2> QED BY <1>2, <2>1, <2>2, <2>3, <2>4 DEF StartWarm, MetricsTraced, InCycle, Measuring, Kind
  <1>3. CASE WaitReady
    <2>1. cur \in Cycles /\ now \in NowType /\ TypeOK /\ MetricsTraced /\ pc = "wait" /\ Kind # "nocold"
      BY <1>3 DEF WaitReady, Traced, Course, InCycle, MetricsTraced
    <2> DEFINE clean == now.clean /\ up = {dgd}
    <2>2. /\ now' = [now EXCEPT !.clean = clean] /\ Taint(IF clean THEN {} ELSE {"unclean"}) /\ pc' = "launch"
          /\ cur' = cur /\ dirs' = dirs /\ execs' = execs /\ up' = up /\ dgd' = dgd
      BY <1>3 DEF WaitReady, countVars, fileVars, clusterVars
    <2>3. now'.clean = clean
      BY <2>1, <2>2 DEF NowType
    <2>4. /\ tainted'[cur] = tainted[cur] \cup (IF clean THEN {} ELSE {"unclean"})
          /\ \A c \in Cycles : "unclean" \notin tainted'[c] => "unclean" \notin tainted[c]
      BY <2>1, <2>2 DEF Taint, TypeOK
    <2>5. clean => dgd = exec /\ up \subseteq {exec}
      BY <2>1 DEF MetricsTraced, InCycle
    <2>6. "unclean" \notin tainted'[cur] => clean
      BY <2>4
    <2> HIDE DEF clean
    <2> QED BY <2>1, <2>2, <2>3, <2>4, <2>5, <2>6 DEF MetricsTraced, InCycle, Measuring, Kind,
          ExecsOf, exec
  <1>4. CASE NotReady
    BY <1>4 DEF NotReady, exec, countVars, ghostVars, Traced, MetricsTraced, InCycle, Measuring,
       ExecsOf
  <1>5. CASE Launch
    BY <1>5 DEF Launch, Kind, exec, fileVars, countVars, ghostVars, Traced, MetricsTraced,
       InCycle, Measuring, ExecsOf
  <1>6. CASE LaunchLost
    <2>1. cur \in Cycles /\ now \in NowType /\ TypeOK /\ MetricsTraced /\ pc = "launch"
      BY <1>6 DEF LaunchLost, Traced, Course, InCycle
    <2>2. /\ now' = [now EXCEPT !.lost = TRUE] /\ Taint({"lost"}) /\ pc' = "poll"
          /\ cur' = cur /\ dirs' = dirs /\ execs' = execs /\ up' = up /\ dgd' = dgd
      BY <1>6 DEF LaunchLost, fileVars, clusterVars
    <2>3. now'.clean = now.clean
      BY <2>1, <2>2 DEF NowType
    <2>4. \A c \in Cycles : "unclean" \notin tainted'[c] => "unclean" \notin tainted[c]
      BY <2>1, <2>2 DEF Taint, TypeOK
    <2> QED BY <2>1, <2>2, <2>3, <2>4 DEF MetricsTraced, InCycle, Measuring, Kind, ExecsOf, exec
  <1>7. CASE PollEnds
    BY <1>7 DEF PollEnds, Kind, exec, clusterVars, fileVars, countVars, ghostVars, Traced,
       MetricsTraced, InCycle, Measuring, ExecsOf
  <1>8. CASE PollTimesOut
    BY <1>8 DEF PollTimesOut, Kind, exec, clusterVars, fileVars, ghostVars, Traced,
       MetricsTraced, InCycle, Measuring, ExecsOf
  <1>9. CASE DumpArtifacts
    <2>1. /\ TypeOK /\ Course /\ MetricsTraced /\ cur \in Cycles /\ exec \in Executions /\ execs[exec] = cur
          /\ exec \in Nat /\ now \in NowType /\ pc = "dump"
      BY <1>9, PodsCounted DEF DumpArtifacts, Traced, Course, InCycle
    <2>2. PICK copied \in BOOLEAN, dumped \in SUBSET up :
            /\ dirs' = [dirs EXCEPT ![cur].log = IF copied THEN logs[LogFile] ELSE @,
                                    ![cur].metrics = @ \cup dumped]
            /\ now' = [now EXCEPT !.copied = copied, !.dumped = dumped,
                                  !.traffic = UNION {served[d] : d \in dumped}]
      BY <1>9 DEF DumpArtifacts
    <2>3. now'.clean = now.clean
      BY <2>1, <2>2 DEF NowType
    <2>4. /\ dirs'[cur].metrics = dirs[cur].metrics \cup dumped
          /\ \A c \in Cycles \ {cur} : dirs'[c] = dirs[c]
      BY <2>1, <2>2 DEF TypeOK
    <2>5. /\ pc' = "collect" /\ execs' = execs /\ tainted' = tainted /\ cur' = cur /\ up' = up /\ dgd' = dgd
      BY <1>9 DEF DumpArtifacts, clusterVars
    <2>6. Plan[cur] # "nocold" /\ "unclean" \notin tainted[cur] => dumped \subseteq ExecsOf(cur)
      BY <2>1, <2>2 DEF MetricsTraced, Measuring, Kind, ExecsOf, Executions
    <2>7. \A c \in Cycles :
            Plan[c] # "nocold" /\ "unclean" \notin tainted[c] => dirs'[c].metrics \subseteq ExecsOf(c)
      BY <2>1, <2>4, <2>6 DEF MetricsTraced
    <2> QED BY <2>1, <2>3, <2>5, <2>7 DEF MetricsTraced, InCycle, Measuring, Kind, ExecsOf, exec
  <1>10. CASE CollectMetrics
    BY <1>10 DEF CollectMetrics, exec, countVars, ghostVars, Traced, MetricsTraced, InCycle,
       Measuring, ExecsOf
  <1>11. CASE SweepComplete
    BY <1>11 DEF SweepComplete, vars, exec, fileVars, countVars, ghostVars, Traced,
       MetricsTraced, InCycle, Measuring, ExecsOf
  <1>12. CASE Restart
    BY <1>12 DEF Restart, Untouched, exec, Traced, MetricsTraced, Measuring, ExecsOf
  <1>13. CASE PodsReady
    BY <1>13 DEF PodsReady, Kind, exec, fileVars, countVars, ghostVars, Traced, MetricsTraced,
       InCycle, Measuring, ExecsOf
  <1>14. ASSUME NEW d \in Executions, PodsGone(d) PROVE MetricsTraced'
    BY <1>14 DEF PodsGone, Kind, exec, fileVars, countVars, ghostVars, Traced, MetricsTraced,
       InCycle, Measuring, ExecsOf
  <1>15. ASSUME NEW e \in Executions, RunEnds(e) PROVE MetricsTraced'
    BY <1>15 DEF RunEnds, Kind, exec, fileVars, countVars, ghostVars, Traced, MetricsTraced,
       InCycle, Measuring, ExecsOf
  <1>16. CASE UNCHANGED vars
    BY <1>16 DEF vars, Kind, exec, clusterVars, fileVars, countVars, ghostVars, Traced,
       MetricsTraced, InCycle, Measuring, ExecsOf
  <1> QED BY <1>1, <1>2, <1>3, <1>4, <1>5, <1>6, <1>7, <1>8, <1>9, <1>10, <1>11, <1>12, <1>13,
        <1>14, <1>15, <1>16 DEF Next

\* Every step keeps track of whose requests a deployment served.
LEMMA TrafficStep ==
  ASSUME Traced, [Next]_vars
  PROVE  TrafficTraced'
  <1>1. CASE ColdRestart
    <2>1. cur \in Cycles /\ execs' = Append(execs, cur) /\ TypeOK /\ ~InCycle
      BY <1>1 DEF ColdRestart, Traced, InCycle
    <2>2. exec \in Nat /\ exec' = exec + 1
      BY <2>1, ExecutionBegins
    <2>3. exec + 1 \in Executions /\ served[exec + 1] = {}
      BY <2>1, <2>2, PlanAssumption DEF Traced, Course, Executions, Cycles
    <2>4. now'.alone = (Running = {}) /\ pc' = "wait" /\ run' = run /\ served' = served
      BY <1>1 DEF ColdRestart, Untouched
    <2> QED BY <2>2, <2>3, <2>4 DEF TrafficTraced, Running
  <1>2. CASE StartWarm
    BY <1>2 DEF StartWarm, Untouched, TrafficTraced
  <1>3. CASE WaitReady
    BY <1>3 DEF WaitReady, exec, clusterVars, countVars, Traced, TrafficTraced, Course, InCycle,
       Running, NowType
  <1>4. CASE NotReady
    BY <1>4 DEF NotReady, TrafficTraced, InCycle
  <1>5. CASE Launch
    BY <1>5 DEF Launch, exec, countVars, ghostVars, Traced, TrafficTraced, Course, InCycle, Running
  <1>6. CASE LaunchLost
    BY <1>6 DEF LaunchLost, exec, clusterVars, Traced, TrafficTraced, InCycle, Running
  <1>7. CASE PollEnds
    BY <1>7 DEF PollEnds, exec, clusterVars, countVars, ghostVars, Traced, TrafficTraced,
       InCycle, Running
  <1>8. CASE PollTimesOut
    BY <1>8 DEF PollTimesOut, exec, clusterVars, ghostVars, Traced, TrafficTraced, InCycle, Running
  <1>9. CASE DumpArtifacts
    BY <1>9 DEF DumpArtifacts, exec, clusterVars, Traced, TrafficTraced, InCycle, MetricsTraced,
       Running, Measuring
  <1>10. CASE CollectMetrics
    BY <1>10 DEF CollectMetrics, TrafficTraced, InCycle
  <1>11. CASE SweepComplete
    BY <1>11 DEF SweepComplete, vars, TrafficTraced, InCycle
  <1>12. CASE Restart
    BY <1>12 DEF Restart, Untouched, TrafficTraced
  <1>13. CASE PodsReady
    BY <1>13 DEF PodsReady, Running, exec, countVars, ghostVars, Traced, TrafficTraced, InCycle
  <1>14. ASSUME NEW d \in Executions, PodsGone(d) PROVE TrafficTraced'
    BY <1>14 DEF PodsGone, exec, countVars, ghostVars, Traced, TrafficTraced, InCycle, Running
  <1>15. ASSUME NEW e \in Executions, RunEnds(e) PROVE TrafficTraced'
    BY <1>15 DEF RunEnds, Running, exec, countVars, ghostVars, Traced, TrafficTraced, InCycle
  <1>16. CASE UNCHANGED vars
    BY <1>16 DEF vars, exec, clusterVars, countVars, ghostVars, Traced, TrafficTraced, InCycle,
       Running
  <1> QED BY <1>1, <1>2, <1>3, <1>4, <1>5, <1>6, <1>7, <1>8, <1>9, <1>10, <1>11, <1>12, <1>13,
        <1>14, <1>15, <1>16 DEF Next

\* Every step keeps track of which runs were warmed up.
LEMMA WarmStep ==
  ASSUME Traced, [Next]_vars
  PROVE  WarmTraced'
  <1>1. CASE ColdRestart
    BY <1>1 DEF ColdRestart, Untouched, WarmTraced, Measuring
  <1>2. CASE StartWarm
    <2>1. cur \in Cycles /\ execs' = Append(execs, cur) /\ TypeOK /\ ~InCycle
      BY <1>2 DEF StartWarm, Traced, InCycle
    <2>2. exec \in Nat /\ exec' = exec + 1
      BY <2>1, ExecutionBegins
    <2>3. /\ now'.warm = (\E w \in row : w.exec = exec /\ w.run = "complete" /\ w.now.clean)
          /\ ~now'.clean /\ pc' = "launch" /\ run' = run /\ served' = served /\ dgd' = dgd /\ up' = up /\ row' = {}
      BY <1>2 DEF StartWarm, SameDeployment, Untouched
    <2>4. now'.warm => dgd = exec /\ up \subseteq {exec} /\ exec \in served[exec] /\ exec \in Executions
      BY <2>3 DEF Traced, WarmTraced, Course
    <2> QED BY <2>2, <2>3, <2>4 DEF WarmTraced, InCycle, Measuring
  <1>3. CASE WaitReady
    BY <1>3 DEF WaitReady, exec, clusterVars, fileVars, countVars, Traced, WarmTraced, Course
  <1>4. CASE NotReady
    BY <1>4 DEF NotReady, Row, exec, clusterVars, countVars, ghostVars, Traced, WarmTraced, Course
  <1>5. CASE Launch
    BY <1>5 DEF Launch, exec, fileVars, countVars, ghostVars, Traced, WarmTraced, Course, InCycle
  <1>6. CASE LaunchLost
    BY <1>6 DEF LaunchLost, exec, clusterVars, fileVars, Traced, WarmTraced, Course, InCycle
  <1>7. CASE PollEnds
    BY <1>7 DEF PollEnds, exec, clusterVars, fileVars, countVars, ghostVars, Traced, WarmTraced,
       InCycle, Measuring
  <1>8. CASE PollTimesOut
    BY <1>8 DEF PollTimesOut, exec, clusterVars, fileVars, ghostVars, Traced, WarmTraced,
       InCycle, Measuring
  <1>9. CASE DumpArtifacts
    <2>1. /\ TypeOK /\ Course /\ WarmTraced /\ exec \in Executions /\ exec \in Nat /\ now \in NowType
          /\ pc = "dump" /\ row = {} /\ InCycle
      BY <1>9, PodsCounted DEF DumpArtifacts, Traced, Course, InCycle
    <2>2. PICK dumped \in SUBSET up, copied \in BOOLEAN :
            now' = [now EXCEPT !.copied = copied, !.dumped = dumped,
                               !.traffic = UNION {served[d] : d \in dumped}]
      BY <1>9 DEF DumpArtifacts
    <2>3. /\ now'.clean = now.clean /\ now'.warm = now.warm /\ now'.dumped = dumped
          /\ now'.traffic = UNION {served[d] : d \in dumped}
      BY <2>1, <2>2 DEF NowType
    <2>4. pc' = "collect" /\ UNCHANGED <<execs, row, up, dgd, run, served>>
      BY <1>9 DEF DumpArtifacts, clusterVars
    <2>5. now.warm /\ dumped # {} => exec - 1 \in UNION {served[d] : d \in dumped}
      BY <2>1, <2>2 DEF WarmTraced
    <2> QED BY <2>1, <2>3, <2>4, <2>5 DEF WarmTraced, InCycle, Measuring, exec
  <1>10. CASE CollectMetrics
    <2>1. /\ TypeOK /\ Course /\ WarmTraced /\ MetricsTraced /\ pc = "collect"
      BY <1>10 DEF CollectMetrics, Traced
    <2>2. /\ row' = {Row(TRUE)} /\ pc' = "next" /\ UNCHANGED <<execs, up, dgd, run, served>>
      BY <1>10 DEF CollectMetrics, countVars, clusterVars
    <2>3. run[exec] = "complete" /\ now.clean => dgd = exec /\ up \subseteq {exec} /\ exec \in served[exec]
      BY <2>1 DEF WarmTraced, MetricsTraced, InCycle, Measuring
    <2> QED BY <2>2, <2>3 DEF WarmTraced, Row, InCycle, Measuring, exec
  <1>11. CASE SweepComplete
    BY <1>11 DEF SweepComplete, vars, exec, clusterVars, fileVars, countVars, Traced,
       WarmTraced, InCycle, Measuring
  <1>12. CASE Restart
    BY <1>12 DEF Restart, Untouched, WarmTraced
  <1>13. CASE PodsReady
    BY <1>13 DEF PodsReady, exec, fileVars, countVars, ghostVars, Traced, WarmTraced, Course,
       InCycle, Measuring
  <1>14. ASSUME NEW d \in Executions, PodsGone(d) PROVE WarmTraced'
    BY <1>14 DEF PodsGone, fileVars, ghostVars, Traced, WarmTraced, InCycle, Measuring,
       MetricsTraced
  <1>15. ASSUME NEW e \in Executions, RunEnds(e) PROVE WarmTraced'
    BY <1>15 DEF RunEnds, exec, fileVars, countVars, ghostVars, Traced, WarmTraced, InCycle,
       Measuring, MetricsTraced
  <1>16. CASE UNCHANGED vars
    BY <1>16 DEF vars, exec, clusterVars, fileVars, countVars, ghostVars, Traced, WarmTraced,
       InCycle, Measuring
  <1> QED BY <1>1, <1>2, <1>3, <1>4, <1>5, <1>6, <1>7, <1>8, <1>9, <1>10, <1>11, <1>12, <1>13,
        <1>14, <1>15, <1>16 DEF Next

\* Every step keeps what is said of rows; the ones that write a row
\* take it from the directory of the cycle.
LEMMA RowsStep ==
  ASSUME Traced, [Next]_vars
  PROVE  RowsTraced'
  <1>1. CASE ColdRestart
    BY <1>1 DEF ColdRestart, RowsTraced, LogsAreOwn, MetricsAreOwn, TrafficIsOwn, WarmRunsAreWarm
  <1>2. CASE StartWarm
    BY <1>2 DEF StartWarm, RowsTraced, LogsAreOwn, MetricsAreOwn, TrafficIsOwn, WarmRunsAreWarm
  <1>3. CASE WaitReady
    BY <1>3 DEF WaitReady, fileVars, Traced, RowsTraced, Course, InCycle, LogsAreOwn,
       MetricsAreOwn, TrafficIsOwn, WarmRunsAreWarm
  <1>4. CASE NotReady
    <2>1. /\ TypeOK /\ Course /\ LogsTraced /\ MetricsTraced /\ pc = "wait" /\ cur \in Cycles
          /\ ~now.copied /\ now.dumped = {} /\ now.traffic = {} /\ exec \in Nat
      BY <1>4, PodsCounted DEF NotReady, Traced, Course, InCycle
    <2>2. row' \subseteq {Row(FALSE)} /\ execs' = execs /\ tainted' = tainted
      BY <1>4 DEF NotReady, countVars, ghostVars
    <2>3. "lost" \notin tainted[cur] => dirs[cur].log \in ExecsOf(cur) \cup {0}
      BY <2>1 DEF LogsTraced
    <2>4. Plan[cur] # "nocold" /\ "unclean" \notin tainted[cur] => dirs[cur].metrics \subseteq ExecsOf(cur)
      BY <2>1 DEF MetricsTraced
    <2> QED BY <2>1, <2>2, <2>3, <2>4
      DEF RowsTraced, LogsAreOwn, MetricsAreOwn, TrafficIsOwn, WarmRunsAreWarm, SameCycle, ExecsOf, Row
  <1>5. CASE Launch
    BY <1>5 DEF Launch, fileVars, Traced, RowsTraced, Course, InCycle, LogsAreOwn,
       MetricsAreOwn, TrafficIsOwn, WarmRunsAreWarm
  <1>6. CASE LaunchLost
    BY <1>6 DEF LaunchLost, fileVars, Traced, RowsTraced, Course, InCycle, LogsAreOwn,
       MetricsAreOwn, TrafficIsOwn, WarmRunsAreWarm
  <1>7. CASE PollEnds
    BY <1>7 DEF PollEnds, fileVars, Traced, RowsTraced, Course, InCycle, LogsAreOwn,
       MetricsAreOwn, TrafficIsOwn, WarmRunsAreWarm
  <1>8. CASE PollTimesOut
    BY <1>8 DEF PollTimesOut, fileVars, Traced, RowsTraced, Course, InCycle, LogsAreOwn,
       MetricsAreOwn, TrafficIsOwn, WarmRunsAreWarm
  <1>9. CASE DumpArtifacts
    BY <1>9 DEF DumpArtifacts, Traced, RowsTraced, Course, InCycle, LogsAreOwn, MetricsAreOwn,
       TrafficIsOwn, WarmRunsAreWarm
  <1>10. CASE CollectMetrics
    BY <1>10 DEF CollectMetrics, Row, countVars, ghostVars, Traced, RowsTraced, Course, InCycle,
       LogsTraced, MetricsTraced, TrafficTraced, WarmTraced, LogsAreOwn, MetricsAreOwn,
       TrafficIsOwn, WarmRunsAreWarm, SameCycle, ExecsOf
  <1>11. CASE SweepComplete
    BY <1>11 DEF SweepComplete, vars, fileVars, countVars, ghostVars, Traced, RowsTraced,
       LogsAreOwn, MetricsAreOwn, TrafficIsOwn, WarmRunsAreWarm, SameCycle, NowType
  <1>12. CASE Restart
    BY <1>12 DEF Restart, RowsTraced, LogsAreOwn, MetricsAreOwn, TrafficIsOwn, WarmRunsAreWarm
  <1>13. CASE PodsReady
    BY <1>13, RowsKept DEF PodsReady, Traced, countVars, fileVars, ghostVars
  <1>14. ASSUME NEW d \in Executions, PodsGone(d) PROVE RowsTraced'
    BY <1>14, RowsKept DEF PodsGone, Traced, countVars, fileVars, ghostVars
  <1>15. ASSUME NEW e \in Executions, RunEnds(e) PROVE RowsTraced'
    BY <1>15, RowsKept DEF RunEnds, Traced, countVars, fileVars, ghostVars
  <1>16. CASE UNCHANGED vars
    BY <1>16, RowsKept DEF vars, Traced, countVars, fileVars, ghostVars
  <1> QED BY <1>1, <1>2, <1>3, <1>4, <1>5, <1>6, <1>7, <1>8, <1>9, <1>10, <1>11, <1>12, <1>13,
        <1>14, <1>15, <1>16 DEF Next

-----------------------------------------------------------------------------
\* Nothing was executed yet: everything is traced.
LEMMA InitTraced ==
  ASSUME Init
  PROVE  Traced
  <1>1. Len(Plan) \in Nat \ {0} /\ MaxExecs \in Nat /\ MaxFaults \in Nat /\ Len(Plan) <= MaxExecs
    BY PlanAssumption
  <1>2. exec = 0 /\ execs \in Seq(Cycles)
    BY DEF Init, exec
  <1>3. TypeOK
    BY <1>1, <1>2 DEF Init, TypeOK, Cycles, Executions, LogFiles
  <1>4. Course
    BY <1>1, <1>2 DEF Init, Course, InCycle, Untouched, NowType
  <1>5. LogsTraced /\ MetricsTraced /\ TrafficTraced /\ WarmTraced
    BY <1>2 DEF Init, LogsTraced, MetricsTraced, TrafficTraced, WarmTraced, InCycle, Measuring
  <1>6. RowsTraced
    BY DEF Init, RowsTraced, LogsAreOwn, MetricsAreOwn, TrafficIsOwn, WarmRunsAreWarm
  <1> QED BY <1>3, <1>4, <1>5, <1>6 DEF Traced

\* In every state of a sweep everything is traced.
LEMMA AlwaysTraced == Spec => []Traced
  <1>1. Traced /\ [Next]_vars => Traced'
    BY TypedStep, CoursedStep, LogsStep, MetricsStep, TrafficStep, WarmStep, RowsStep DEF Traced
  <1> QED BY InitTraced, <1>1, PTL DEF Spec

\* Every variable of the sweep keeps its type; in particular the script never
\* executes more cycles than it counts.
THEOREM SweepTypeCorrect == Spec => []TypeOK
  <1>1. Traced => TypeOK
    BY DEF Traced
  <1> QED BY AlwaysTraced, <1>1, PTL

\* The rows of _summary.csv hold the log of their own execution or cycle: what
\* DumpArtifacts copies is the log that Launch made, unless the launch was lost.
THEOREM LogsCorrect == Spec => []LogsAreOwn
  <1>1. Traced => LogsAreOwn
    BY DEF Traced, RowsTraced
  <1> QED BY AlwaysTraced, <1>1, PTL

\* The metrics of a row come from deployments of its own cycle: after a clean
\* WaitReady there are no pods but those of the deployment ColdRestart made.
THEOREM MetricsCorrect == Spec => []MetricsAreOwn
  <1>1. Traced => MetricsAreOwn
    BY DEF Traced, RowsTraced
  <1> QED BY AlwaysTraced, <1>1, PTL

\* The deployment that was measured served no benchmark but the one of its row,
\* if none was left running when ColdRestart made it.
THEOREM TrafficCorrect == Spec => []TrafficIsOwn
  <1>1. Traced => TrafficIsOwn
    BY DEF Traced, RowsTraced
  <1> QED BY AlwaysTraced, <1>1, PTL

\* run_multi_turn_nocold measures the deployment that served its warm-up.
THEOREM WarmRunsCorrect == Spec => []WarmRunsAreWarm
  <1>1. Traced => WarmRunsAreWarm
    BY DEF Traced, RowsTraced
  <1> QED BY AlwaysTraced, <1>1, PTL

=============================================================================
