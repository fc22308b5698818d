------------------------- MODULE BenchOrchestrator -------------------------
(***************************************************************************)
(* The benchmark sweeps of src/orchestrator/run-*.sh.  For every cycle of  *)
(* a plan the script deletes and recreates the deployment, waits until its *)
(* pods are ready, launches a benchmark in the client pod, polls the log   *)
(* of it, copies log and metrics into the directory of the cycle and       *)
(* appends a row parsed from that directory to _summary.csv.               *)
(*                                                                         *)
(* No kubectl call is checked for success: each may fail.  The benchmark   *)
(* is a background process of the client pod that nothing ever stops.  The *)
(* directories outlive the script, which starts its plan from the first    *)
(* cycle when its pod is created again.                                    *)
(***************************************************************************)
EXTENDS Integers, Sequences, FiniteSetsExt

CONSTANTS
    Plan,          \* the kind of each cycle, in the order they are run
    MaxExecs,      \* bound: how many cycles are executed, restarts included
    MaxFaults      \* bound: how many kubectl calls fail or live runs outlast the polls

Kinds == {"multi_turn",    \* run_multi_turn, run_cycle
          "nocold",        \* run_multi_turn_nocold: on the deployment before
          "lmbench",       \* run_lmbench of run-sweep.sh
          "lmbench_v2"}    \* run_lmbench_v2, run_lmbench of the later scripts

ASSUME PlanAssumption ==
    /\ Plan \in Seq(Kinds) /\ Len(Plan) > 0
    /\ Plan[1] # "nocold"
    /\ MaxExecs \in Nat /\ MaxExecs >= Len(Plan)
    /\ MaxFaults \in Nat

VARIABLES
    (* the script *)
    pc,         \* where it is in the current cycle
    cur,        \* the cycle it is at
    execs,      \* the cycle of every execution so far
    faults,     \* how many calls failed or runs outlasted the polls
    dirs,       \* /results/<cycle>: whose log, and metrics of which deployments
    row,        \* the row of _summary.csv that the last execution wrote, if any
    (* the cluster and the client pod (external) *)
    dgd,        \* the execution that created the deployment there is, 0 if none
    up,         \* deployments all of whose pods show 1/1
    served,     \* the executions whose requests each deployment has served
    run,        \* the benchmark process of each execution
    logs,       \* the execution whose process writes each log file, 0 if no file
    (* observation only *)
    now,        \* what befell the current execution
    tainted     \* what befell the executions of each cycle, over all restarts

ghostVars   == <<now, tainted>>
fileVars    == <<dirs, row>>
countVars   == <<execs, faults>>
clusterVars == <<dgd, up, served, run, logs>>
vars == <<pc, cur, countVars, fileVars, clusterVars, ghostVars>>

Cycles     == 1 .. Len(Plan)
Executions == 1 .. MaxExecs
LogFiles   == {"_bench.log", "_lmbench.log"}

exec    == Len(execs)                       \* the current execution
Kind    == Plan[cur]
LogFile == IF Kind \in {"multi_turn", "nocold"} THEN "_bench.log" ELSE "_lmbench.log"
Running == {e \in Executions : run[e] = "running"}

(* An execution is clean if the deployment is the one it created and no    *)
(* other was up, alone if no earlier benchmark was still running, warm if  *)
(* the one before completed on a clean deployment, lost if its launch did  *)
(* not reach the client.  Then: was its log copied, the metrics of which   *)
(* deployments were dumped, and whose requests had these served?           *)
Untouched == [clean |-> FALSE, alone |-> FALSE, warm |-> FALSE, lost |-> FALSE,
              copied |-> FALSE, dumped |-> {}, traffic |-> {}]

Taint(what) == tainted' = [tainted EXCEPT ![cur] = @ \cup what]

\* a step in which kubectl fails n times
Faults(n) == faults' = faults + n /\ faults' <= MaxFaults

Init ==
    /\ pc = "next" /\ cur = 1 /\ execs = <<>> /\ faults = 0
    /\ dirs = [c \in Cycles |-> [log |-> 0, metrics |-> {}]]
    /\ row = {}
    /\ dgd = 0 /\ up = {}
    /\ served = [e \in Executions |-> {}]
    /\ run = [e \in Executions |-> "none"]
    /\ logs = [f \in LogFiles |-> 0]
    /\ now = Untouched /\ tainted = [c \in Cycles |-> {}]

-----------------------------------------------------------------------------
\* mutant: the deployment is not deleted first, and is left as it is
DeployedOver(deleted, applied) == IF applied /\ dgd = 0 THEN {exec + 1} ELSE {dgd}

\* cold_restart, delete and apply: an object that was not deleted is updated in
\* place, which replaces its pods only if the configuration differs
Deployed(deleted, applied) ==
    CASE ~applied            -> {IF deleted THEN 0 ELSE dgd}
      [] applied /\ deleted  -> {exec + 1}
      [] applied /\ ~deleted -> {exec + 1} \cup ({dgd} \ {0})

ColdRestart ==
    /\ pc = "next" /\ cur \in Cycles /\ Kind # "nocold"
    /\ \E deleted, applied \in BOOLEAN :
        /\ dgd' \in Deployed(deleted, applied)
        /\ now' = [Untouched EXCEPT !.clean = deleted /\ applied, !.alone = Running = {}]
        /\ Faults((IF deleted THEN 0 ELSE 1) + (IF applied THEN 0 ELSE 1))
    /\ execs' = Append(execs, cur)
    /\ row' = {}
    /\ pc' = "wait"
    /\ UNCHANGED <<cur, dirs, up, served, run, logs, tainted>>

\* mutant: run_multi_turn_nocold starts from a new deployment
FreshDeployment == exec + 1

SameDeployment == dgd

StartWarm ==
    /\ pc = "next" /\ cur \in Cycles /\ Kind = "nocold"
    /\ execs' = Append(execs, cur)
    /\ now' = [Untouched EXCEPT !.warm = \E w \in row : w.exec = exec /\ w.run = "complete" /\ w.now.clean]
    /\ dgd' = SameDeployment
    /\ row' = {}
    /\ pc' = "launch"
    /\ UNCHANGED <<cur, faults, dirs, up, served, run, logs, tainted>>

\* wait_ready counts the ready pods and cannot tell old ones from new ones
AllReady == Cardinality(up) = 1

WaitReady ==
    /\ pc = "wait" /\ AllReady
    /\ LET clean == now.clean /\ up = {dgd}
       IN  now' = [now EXCEPT !.clean = clean] /\ Taint(IF clean THEN {} ELSE {"unclean"})
    /\ pc' = "launch"
    /\ UNCHANGED <<cur, countVars, fileVars, clusterVars>>

\* collect_metrics parses what the directory of the cycle holds
Row(ok) ==
    [exec |-> exec, cycle |-> cur, ok |-> ok, log |-> dirs[cur].log,
     metrics |-> dirs[cur].metrics, run |-> run[exec], now |-> now]

\* mutant: a cycle that fails takes the next one with it
SkipOne == cur + 2

NextCycle == cur + 1

\* wait_ready gives up; run_lmbench of run-sweep.sh writes no row then
NotReady ==
    /\ pc = "wait" /\ ~AllReady
    /\ row' = IF Kind = "lmbench" THEN {} ELSE {Row(FALSE)}
    /\ pc' = "next" /\ cur' = NextCycle
    /\ UNCHANGED <<countVars, dirs, clusterVars, ghostVars>>

\* mutant: the new process appends to the log that is there
AppendToLog == IF logs[LogFile] = 0 THEN [logs EXCEPT ![LogFile] = exec] ELSE logs

\* the old log is removed; a process that still writes it loses its name
NewLog == [logs EXCEPT ![LogFile] = exec]

Launch ==
    /\ pc = "launch"
    /\ run' = [run EXCEPT ![exec] = "running"]
    /\ logs' = NewLog
    /\ served' = [d \in Executions |-> served[d] \cup IF d \in up THEN {exec} ELSE {}]
    /\ pc' = "poll"
    /\ UNCHANGED <<cur, countVars, fileVars, dgd, up, ghostVars>>

LaunchLost ==
    /\ pc = "launch"
    /\ now' = [now EXCEPT !.lost = TRUE] /\ Taint({"lost"})
    /\ Faults(1)
    /\ pc' = "poll"
    /\ UNCHANGED <<cur, execs, fileVars, clusterVars>>

(***************************************************************************)
(* What ends the polling: the last line of a multi-turn log, two of the    *)
(* summaries LMBench prints while it runs, a traceback (only looked for by *)
(* run_multi_turn), or the number of polls.                                *)
(***************************************************************************)
SeenInLog == IF logs[LogFile] = 0 THEN "none" ELSE run[logs[LogFile]]

PollEnds ==
    /\ pc = "poll"
    /\ \/ SeenInLog = "complete"
       \/ SeenInLog = "running" /\ Kind \in {"lmbench", "lmbench_v2"}
       \/ SeenInLog = "crashed" /\ Kind = "multi_turn"
    /\ pc' = "dump"
    /\ UNCHANGED <<cur, countVars, fileVars, clusterVars, ghostVars>>

PollTimesOut ==
    /\ pc = "poll"
    /\ Faults(IF SeenInLog \in {"running", "complete"} THEN 1 ELSE 0)
    /\ pc' = "dump"
    /\ UNCHANGED <<cur, execs, fileVars, clusterVars, ghostVars>>

\* dump_artifacts: the log, and the metrics of every worker pod there is, in
\* files named after the pods; what is not copied stays as it was
DumpArtifacts ==
    /\ pc = "dump"
    /\ \E copied \in BOOLEAN, dumped \in SUBSET up :
        /\ copied => logs[LogFile] # 0
        /\ Faults(Cardinality(up \ dumped) + IF copied \/ logs[LogFile] = 0 THEN 0 ELSE 1)
        /\ dirs' = [dirs EXCEPT ![cur].log = IF copied THEN logs[LogFile] ELSE @,
                                ![cur].metrics = @ \cup dumped]
        /\ now' = [now EXCEPT !.copied = copied, !.dumped = dumped,
                              !.traffic = UNION {served[d] : d \in dumped}]
    /\ pc' = "collect"
    /\ UNCHANGED <<cur, execs, row, clusterVars, tainted>>

CollectMetrics ==
    /\ pc = "collect"
    /\ row' = {Row(TRUE)}
    /\ pc' = "next" /\ cur' = NextCycle
    /\ UNCHANGED <<countVars, dirs, clusterVars, ghostVars>>

\* the script sleeps after its plan, to keep the pod for copying the results
SweepComplete == pc = "next" /\ cur \notin Cycles /\ UNCHANGED vars

\* the script's pod dies (restartPolicy: Never) and is created again
Restart ==
    /\ exec + Len(Plan) <= MaxExecs
    /\ pc' = "next" /\ cur' = 1
    /\ row' = {} /\ now' = Untouched
    /\ UNCHANGED <<execs, faults, dirs, clusterVars, tainted>>

-----------------------------------------------------------------------------
\* benchmarks send requests all the time, to the one name every deployment has
PodsReady ==
    /\ dgd # 0 /\ dgd \notin up
    /\ up' = up \cup {dgd}
    /\ served' = [served EXCEPT ![dgd] = @ \cup Running]
    /\ UNCHANGED <<pc, cur, countVars, fileVars, dgd, run, logs, ghostVars>>

\* the pods of a deleted deployment show 1/1 until they have terminated
PodsGone(d) ==
    /\ d \in up /\ d # dgd
    /\ up' = up \ {d}
    /\ served' = [served EXCEPT ![d] = {}]
    /\ UNCHANGED <<pc, cur, countVars, fileVars, dgd, run, logs, ghostVars>>

\* a run completes only if its requests were served
RunEnds(e) ==
    /\ e \in Running
    /\ \E end \in {"complete", "crashed"} :
        /\ end = "complete" => \E d \in up : e \in served[d]
        /\ run' = [run EXCEPT ![e] = end]
    /\ UNCHANGED <<pc, cur, countVars, fileVars, dgd, up, served, logs, ghostVars>>

Next ==
    \/ ColdRestart \/ StartWarm \/ WaitReady \/ NotReady
    \/ Launch \/ LaunchLost \/ PollEnds \/ PollTimesOut
    \/ DumpArtifacts \/ CollectMetrics \/ SweepComplete \/ Restart
    \/ PodsReady
    \/ \E d \in Executions : PodsGone(d)
    \/ \E e \in Executions : RunEnds(e)

Spec == Init /\ [][Next]_vars

-----------------------------------------------------------------------------
\* Every variable keeps its type.
TypeOK ==
    /\ pc \in {"next", "wait", "launch", "poll", "dump", "collect"}
    /\ cur \in 1 .. Len(Plan) + 1
    /\ faults \in 0 .. MaxFaults
    /\ execs \in Seq(Cycles) /\ exec <= MaxExecs
    /\ dirs \in [Cycles -> [log : 0 .. exec, metrics : SUBSET (1 .. exec)]]
    /\ dgd \in 0 .. exec /\ up \subseteq 1 .. exec
    /\ served \in [Executions -> SUBSET (1 .. exec)]
    /\ run \in [Executions -> {"none", "running", "complete", "crashed"}]
    /\ logs \in [LogFiles -> 0 .. exec]
    /\ tainted \in [Cycles -> SUBSET {"lost", "unclean"}]

\* the executions of a row's cycle up to the row, over all restarts
SameCycle(r) == {e \in 1 .. r.exec : execs[e] = r.cycle}

(***************************************************************************)
(* A row is parsed from a log of its own cycle, unless the launch of some  *)
(* execution of the cycle did not reach the client, where the log of       *)
(* another cycle was left; and from the log of its own execution if that   *)
(* was launched and copied.  Timeouts, processes that go on behind the     *)
(* script's back, other failed calls and restarts do not matter.           *)
(***************************************************************************)
LogsAreOwn ==
    \A r \in row :
        /\ "lost" \notin tainted[r.cycle] => r.log \in SameCycle(r) \cup {0}
        /\ r.now.copied /\ ~r.now.lost => r.log = r.exec

(***************************************************************************)
(* collect_metrics adds up every metrics file in the directory.  If delete *)
(* and apply worked and wait_ready saw no old pods, in every execution of  *)
(* the cycle that got so far, these are of deployments made for it.        *)
(***************************************************************************)
MetricsAreOwn ==
    \A r \in row :
        Plan[r.cycle] # "nocold" /\ "unclean" \notin tainted[r.cycle] => r.metrics \subseteq SameCycle(r)

\* The deployment a row's metrics come from served no other benchmark, if the
\* restart was clean and found no earlier benchmark still running.
TrafficIsOwn ==
    \A r \in row :
        Plan[r.cycle] # "nocold" /\ r.now.clean /\ r.now.alone => r.now.traffic \subseteq {r.exec}

\* A warm run is measured on the deployment that served its warm-up, if the
\* warm-up completed on a clean deployment.
WarmRunsAreWarm ==
    \A r \in row : r.now.warm /\ r.now.dumped # {} => r.exec - 1 \in r.now.traffic

=============================================================================
