-------------------------- MODULE ResilientRunner --------------------------
(***************************************************************************)
(* The unattended experiment campaign of exp/resilient_runner.py: one      *)
(* runner that starts the figure scripts one after the other, a watchdog   *)
(* thread beside each long script, the script as a process of its own that *)
(* writes its results directory, and nodes that become unreachable.        *)
(*                                                                         *)
(* A script is known by the files it writes: for each workload a partial   *)
(* file rewritten after every data point and a final file at its end.  A   *)
(* file is known by its number of points and by the attempt that wrote it; *)
(* a kill may leave the file that is being rewritten cut off (0).          *)
(* Time is abstract: a timeout may strike at any moment, a watchdog        *)
(* interval may be of any length.                                          *)
(***************************************************************************)
EXTENDS Integers, Sequences, FiniteSets, Functions

CONSTANTS Campaign,     \* EXPERIMENTS: the scripts in the order they are run
          LongRunning,  \* those that get a watchdog
          Missing,      \* those whose script does not exist
          Files,        \* Files[e]: number of workloads (output files) of e
          Points,       \* Points[e]: data points of each workload of e
          Patchable,    \* those whose parameters patch-cn-count.py rewrites
          Nodes,        \* cluster_ips of common.json
          NoNode,
          MinCN,        \* a cluster with fewer compute nodes is given up (5)
          MaxRetries,   \* MAX_RETRIES (2)
          StallFactor,  \* WATCHDOG_STALL_FACTOR (3)
          MaxFaults     \* bound on crashes, hangs, failing commands, torn reads

Exps == Range(Campaign)

ASSUME CampaignAssumption ==
  /\ Campaign \in Seq(Exps) /\ IsInjective(Campaign)
  /\ LongRunning \subseteq Exps /\ Missing \subseteq Exps /\ Patchable \subseteq Exps
  /\ Files \in [Exps -> Nat \ {0}] /\ Points \in [Exps -> Nat \ {0}]
ASSUME ClusterAssumption == IsFiniteSet(Nodes) /\ NoNode \notin Nodes /\ Cardinality(Nodes) > MinCN
ASSUME BoundsAssumption ==
  /\ MinCN \in Nat /\ MaxFaults \in Nat
  /\ MaxRetries \in Nat \ {0} /\ StallFactor \in Nat \ {0}

VARIABLES
  pc,        \* where the runner is
  cur,       \* index in Campaign
  attempt,   \* 1 .. MaxRetries
  returning, \* value run_experiment is about to return, or "no"
  results,   \* results dictionary of main
  proc,      \* the script: none, connecting, running, hung, exit0, exit1, killed
  script,    \* its loop: workload and number of points in plot_data
  partial,   \* points in the partial file of each workload of each script
  final,     \* attempt that wrote the final file, 0 if there is none
  overdue,   \* observer: the time-out of this attempt has struck
  wd,        \* the watchdog thread and its fields
  up,        \* nodes that answer a probe; one that did not is not seen to come back
  healthy,   \* HEALTHY_FILE
  cn,        \* compute nodes in the parameters of each patchable script
  patched,   \* the last patch-cn-count.py succeeded
  left,      \* nodes where ycsb_test still runs
  swept,     \* the last cleanup_cluster succeeded
  backup,    \* final files at RSYNC_TARGET
  unsynced,  \* the last rsync failed
  faults,    \* faults so far
  quiet      \* observer: intervals without a new readable point, files with one

runnerVars == <<pc, cur, attempt, returning, results>>
scriptVars == <<proc, script, partial, final, overdue>>
clusterVars == <<up, healthy, cn, patched, left, swept>>
vars == <<pc, cur, attempt, returning, results, proc, script, partial, final, overdue, wd,
          up, healthy, cn, patched, left, swept, backup, unsynced, faults, quiet>>

WorkloadsOf(e) == 1 .. Files[e]
Exp == Campaign[cur]
Finished(p) == p \in {"exit0", "exit1", "killed"}

NoWatchdog == [at |-> "off", last |-> 0, stall |-> 0, failed |-> NoNode,
               stop |-> FALSE, base |-> 0, killed |-> FALSE]

Init ==
  /\ pc = "next" /\ cur = 1 /\ attempt = 1 /\ returning = "no"
  /\ results = [e \in Exps |-> "none"]
  /\ proc = "none" /\ script = [w |-> 1, n |-> 0] /\ overdue = FALSE
  /\ partial = [e \in Exps |-> [w \in WorkloadsOf(e) |-> 0]]
  /\ final = [e \in Exps |-> [w \in WorkloadsOf(e) |-> 0]]
  /\ wd = NoWatchdog
  /\ up = Nodes /\ healthy = Nodes
  /\ cn = [e \in Patchable |-> Cardinality(Nodes) - 1] /\ patched = TRUE
  /\ left = {} /\ swept = TRUE
  /\ backup = final /\ unsynced = FALSE
  /\ faults = 0
  /\ quiet = [intervals |-> 0, news |-> {}]

Fault == faults < MaxFaults /\ faults' = faults + 1
NoFault == UNCHANGED faults

-----------------------------------------------------------------------------
(* Checkpoint files *)

\* Data points in the readable partial files of e, added up file by file.
PointsUpTo(points, n, readable) ==
  LET upTo[w \in 0 .. n] ==
        IF w = 0 THEN 0 ELSE upTo[w - 1] + IF w \in readable THEN points[w] ELSE 0
  IN upTo
TotalCompletedPoints(e, readable) == PointsUpTo(partial[e], Files[e], readable)[Files[e]]

\* rsync_results: the results directory is copied, or the command fails.
RsyncResults ==
  \/ /\ backup' = final /\ unsynced' = FALSE
     /\ NoFault
  \/ /\ Fault
     /\ unsynced' = TRUE
     /\ UNCHANGED backup

-----------------------------------------------------------------------------
(* The script: connects to every node, then for each workload measures its  *)
(* points, rewriting the partial file after each, and writes the final file *)

ScriptConnects ==
  /\ proc = "connecting" /\ up = Nodes
  /\ proc' = "running" /\ script' = [w |-> 1, n |-> 0]
  /\ left' = Nodes
  /\ UNCHANGED <<runnerVars, partial, final, overdue, wd, up, healthy, cn, patched, swept,
                 backup, unsynced, faults, quiet>>

\* An SSH connection that cannot be opened ends the script.
ScriptCannotConnect ==
  /\ proc = "connecting" /\ up # Nodes
  /\ proc' = "exit1"
  /\ UNCHANGED <<runnerVars, script, partial, final, overdue, wd, clusterVars,
                 backup, unsynced, faults, quiet>>

\* The partial file is written from plot_data, which starts empty.
FinishPoint ==
  /\ proc = "running" /\ up = Nodes
  /\ script.n < Points[Exp]
  /\ script' = [script EXCEPT !.n = @ + 1]
  /\ partial' = [partial EXCEPT ![Exp][script.w] = script.n + 1]
  /\ left' = Nodes
  /\ quiet' = [quiet EXCEPT !.news = @ \cup {script.w}]
  /\ UNCHANGED <<runnerVars, proc, final, overdue, wd, up, healthy, cn, patched, swept,
                 backup, unsynced, faults>>

FinishWorkload ==
  /\ proc = "running"
  /\ script.n = Points[Exp]
  /\ final' = [final EXCEPT ![Exp][script.w] = attempt]
  /\ IF script.w = Files[Exp]
       THEN proc' = "exit0" /\ UNCHANGED script
       ELSE script' = [w |-> script.w + 1, n |-> 0] /\ UNCHANGED proc
  /\ UNCHANGED <<runnerVars, partial, overdue, wd, clusterVars, backup, unsynced, faults, quiet>>

\* A build or split beyond its sixty seconds, at the latest with a node down.
ScriptDies ==
  /\ proc = "running"
  /\ IF up = Nodes THEN Fault ELSE NoFault
  /\ proc' = "exit1"
  /\ UNCHANGED <<runnerVars, script, partial, final, overdue, wd, clusterVars,
                 backup, unsynced, quiet>>

\* A point whose measurement fails again and again.
ScriptHangs ==
  /\ proc = "running"
  /\ Fault
  /\ proc' = "hung"
  /\ UNCHANGED <<runnerVars, script, partial, final, overdue, wd, clusterVars,
                 backup, unsynced, quiet>>

\* Both files are opened for writing, which truncates them, and then dumped:
\* a kill meets the script outside of this, or in it.
CutOff ==
  \/ UNCHANGED <<partial, final>>
  \/ /\ proc = "running"
     /\ partial' = [partial EXCEPT ![Exp][script.w] = 0]
     /\ UNCHANGED final
  \/ /\ proc = "running" /\ script.n = Points[Exp]
     /\ final' = [final EXCEPT ![Exp][script.w] = 0]
     /\ UNCHANGED partial

Script == \/ ScriptConnects \/ ScriptCannotConnect \/ FinishPoint
          \/ FinishWorkload \/ ScriptDies \/ ScriptHangs

NodeFails ==
  \E n \in up :
    /\ Fault
    /\ up' = up \ {n}
    /\ UNCHANGED <<runnerVars, scriptVars, wd, healthy, cn, patched, left, swept,
                   backup, unsynced, quiet>>

-----------------------------------------------------------------------------
(* The watchdog thread *)

\* Mutants: the counter survives progress; the stall is noticed an interval late.
ProgressKeepsStall(w, current) == [w EXCEPT !.last = current]
NoProgressLate(w) ==
  [w EXCEPT !.stall = @ + 1,
            !.at = IF w.stall + 1 > StallFactor THEN "probing" ELSE @]

Progress(w, current) == [w EXCEPT !.last = current, !.stall = 0]
NoProgress(w) ==
  [w EXCEPT !.stall = @ + 1,
            !.at = IF w.stall + 1 >= StallFactor THEN "probing" ELSE @]

\* One interval.  A partial file read while it is being written does not
\* parse and counts for nothing.
WatchdogTick ==
  /\ wd.at = "waiting" /\ ~wd.stop
  /\ \E readable \in {WorkloadsOf(Exp), WorkloadsOf(Exp) \ {script.w}} :
       LET torn == readable # WorkloadsOf(Exp)
           current == TotalCompletedPoints(Exp, readable)
       IN /\ IF torn THEN proc = "running" /\ Fault ELSE NoFault
          /\ IF Finished(proc)
               THEN wd' = [wd EXCEPT !.at = "ended"] /\ UNCHANGED quiet
               ELSE /\ wd' = IF current > wd.last THEN Progress(wd, current) ELSE NoProgress(wd)
                    /\ quiet' = [intervals |-> IF quiet.news \cap readable # {} THEN 0
                                               ELSE quiet.intervals + 1,
                                 news |-> quiet.news \ readable]
  /\ UNCHANGED <<runnerVars, scriptVars, clusterVars, backup, unsynced>>

Killed(p) == IF Finished(p) THEN p ELSE "killed"

\* The probe of the nodes takes time; its verdict ends the thread.
WatchdogVerdict(node) ==
  /\ wd.at = "probing"
  /\ wd' = [wd EXCEPT !.at = "ended", !.failed = node, !.killed = ~Finished(proc)]
  /\ proc' = Killed(proc) /\ CutOff
  /\ UNCHANGED <<runnerVars, script, overdue, clusterVars,
                 backup, unsynced, faults, quiet>>

WatchdogSystemic == \E n \in healthy \ up : WatchdogVerdict(n)
WatchdogTransient == healthy \subseteq up /\ WatchdogVerdict(NoNode)

Watchdog == WatchdogTick \/ WatchdogSystemic \/ WatchdogTransient

-----------------------------------------------------------------------------
(* The runner *)

Leave(result) ==
  /\ results' = [results EXCEPT ![Exp] = result]
  /\ cur' = cur + 1 /\ attempt' = 1 /\ returning' = "no"
  /\ pc' = "next"

SkipMissing ==
  /\ pc = "next" /\ cur <= Len(Campaign) /\ Exp \in Missing
  /\ Leave("notfound")
  /\ UNCHANGED <<scriptVars, wd, clusterVars, backup, unsynced, faults, quiet>>

\* A script process is started and, for a long one, a watchdog that counts
\* the points that are on disk already.
StartAttempt ==
  /\ \/ pc = "next" /\ cur <= Len(Campaign) /\ Exp \notin Missing
     \/ pc = "retry"
  /\ pc' = "wait"
  /\ proc' = "connecting" /\ overdue' = FALSE
  /\ wd' = IF Exp \notin LongRunning THEN NoWatchdog
           ELSE LET points == TotalCompletedPoints(Exp, WorkloadsOf(Exp))
                IN [NoWatchdog EXCEPT !.at = "waiting", !.last = points, !.base = points]
  /\ quiet' = [intervals |-> 0, news |-> {}]
  /\ UNCHANGED <<cur, attempt, returning, results, script, partial, final,
                 clusterVars, backup, unsynced, faults>>

AfterWait == IF wd.at = "off" THEN "after" ELSE "join"
StopWatchdog ==
  wd' = [wd EXCEPT !.stop = TRUE, !.at = IF @ = "waiting" THEN "ended" ELSE @]

\* Mutant: the exit code is not looked at.
RunSucceedsAnyCode ==
  /\ pc = "wait" /\ proc \in {"exit0", "exit1"}
  /\ RsyncResults
  /\ returning' = "ok"
  /\ pc' = AfterWait /\ StopWatchdog
  /\ UNCHANGED <<cur, attempt, results, scriptVars, clusterVars, quiet>>

\* communicate returns with exit code 0: backup, and True is to be returned.
RunSucceeds ==
  /\ pc = "wait" /\ proc = "exit0"
  /\ RsyncResults
  /\ returning' = "ok"
  /\ pc' = AfterWait /\ StopWatchdog
  /\ UNCHANGED <<cur, attempt, results, scriptVars, clusterVars, quiet>>

RunFails ==
  /\ pc = "wait" /\ proc \in {"exit1", "killed"}
  /\ pc' = AfterWait /\ StopWatchdog
  /\ UNCHANGED <<cur, attempt, returning, results, scriptVars, clusterVars,
                 backup, unsynced, faults, quiet>>

\* communicate raises TimeoutExpired: at any moment, were it that the script
\* has just ended.
RunTimesOut ==
  /\ pc = "wait"
  /\ pc' = "timedout" /\ overdue' = TRUE
  /\ UNCHANGED <<cur, attempt, returning, results, proc, script, partial, final, wd,
                 clusterVars, backup, unsynced, faults, quiet>>

\* kill and wait.  The script may have ended since, but its exit code is not
\* looked at again.
KillTimedOut ==
  /\ pc = "timedout"
  /\ proc' = Killed(proc) /\ CutOff
  /\ pc' = AfterWait /\ StopWatchdog
  /\ UNCHANGED <<cur, attempt, returning, results, script, overdue,
                 clusterVars, backup, unsynced, faults, quiet>>

\* The finally block once the thread has ended, or is still probing after
\* ten seconds, and has not named a node.
JoinNoFailure ==
  /\ pc = "join" /\ wd.failed = NoNode
  /\ pc' = "after"
  /\ UNCHANGED <<cur, attempt, returning, results, scriptVars, wd, clusterVars,
                 backup, unsynced, faults, quiet>>

Remaining(node) == healthy \ {node}
\* Mutant: the memory node is counted among the compute nodes.
TooFewWithMN(nodes) == Cardinality(nodes) < MinCN
TooFew(nodes) == Cardinality(nodes) - 1 < MinCN

\* reconfigure_cluster gives up before it writes anything, and the return in
\* the finally block replaces whatever was to be returned.
ReconfigureTooSmall ==
  /\ pc = "join" /\ wd.failed # NoNode
  /\ TooFew(Remaining(wd.failed))
  /\ returning' = "failed"
  /\ pc' = "after"
  /\ UNCHANGED <<cur, attempt, results, scriptVars, wd, clusterVars,
                 backup, unsynced, faults, quiet>>

\* Parameter files after patch-cn-count.py was cut off having done these.
PatchCN(done, count) == [e \in Patchable |-> IF e \in done THEN count ELSE cn[e]]

\* Mutant: every systemic failure ends the experiment as failed.
ReconfigureReturns ==
  /\ pc = "join" /\ wd.failed # NoNode
  /\ ~TooFew(Remaining(wd.failed))
  /\ healthy' = Remaining(wd.failed)
  /\ cn' = PatchCN(Patchable, Cardinality(healthy') - 1) /\ patched' = TRUE
  /\ returning' = "failed"
  /\ pc' = "after"
  /\ UNCHANGED <<cur, attempt, results, scriptVars, wd, up, left, swept,
                 backup, unsynced, faults, quiet>>

\* HEALTHY_FILE, then the parameters.  Memcached is restarted too, which every
\* measurement repeats.
ReconfigureCluster ==
  /\ pc = "join" /\ wd.failed # NoNode
  /\ ~TooFew(Remaining(wd.failed))
  /\ healthy' = Remaining(wd.failed)
  /\ \E done \in SUBSET Patchable :
       /\ IF done = Patchable THEN NoFault ELSE Fault
       /\ cn' = PatchCN(done, Cardinality(healthy') - 1)
       /\ patched' = (done = Patchable)
  /\ pc' = "after"
  /\ UNCHANGED <<cur, attempt, returning, results, scriptVars, wd, up, left, swept,
                 backup, unsynced, quiet>>

Return ==
  /\ pc = "after" /\ returning # "no"
  /\ Leave(returning)
  /\ UNCHANGED <<scriptVars, wd, clusterVars, backup, unsynced, faults, quiet>>

\* Mutant: the node that failed is looked for, and the others forgotten.
CleanupFailedOnly ==
  /\ left' = left \ {wd.failed}
  /\ swept' = TRUE
  /\ NoFault

\* cleanup_cluster: killall on the nodes of HEALTHY_FILE, or a timeout.
CleanupCluster ==
  \/ /\ left' = left \ (healthy \cap up)
     /\ swept' = TRUE
     /\ NoFault
  \/ /\ IF healthy \subseteq up THEN Fault ELSE NoFault
     /\ swept' = FALSE
     /\ UNCHANGED left

\* Mutant: the attempt is not counted.
CleanupAndRetryForever ==
  /\ pc = "after" /\ returning = "no"
  /\ CleanupCluster
  /\ pc' = "retry"
  /\ UNCHANGED <<cur, attempt, returning, results, scriptVars, wd, up, healthy, cn, patched,
                 backup, unsynced, quiet>>

CleanupAndRetry ==
  /\ pc = "after" /\ returning = "no"
  /\ CleanupCluster
  /\ IF attempt < MaxRetries
       THEN /\ attempt' = attempt + 1 /\ pc' = "retry"
            /\ UNCHANGED <<cur, returning, results>>
       ELSE Leave("failed")
  /\ UNCHANGED <<scriptVars, wd, up, healthy, cn, patched, backup, unsynced, quiet>>

FinalSync ==
  /\ pc = "next" /\ cur > Len(Campaign)
  /\ RsyncResults
  /\ pc' = "done"
  /\ UNCHANGED <<cur, attempt, returning, results, scriptVars, wd, clusterVars, quiet>>

Runner == \/ SkipMissing \/ StartAttempt \/ RunSucceeds \/ RunFails \/ RunTimesOut
          \/ KillTimedOut \/ JoinNoFailure \/ ReconfigureTooSmall \/ ReconfigureCluster
          \/ Return \/ CleanupAndRetry \/ FinalSync

Ended == pc = "done" /\ UNCHANGED vars

Next == Script \/ NodeFails \/ Watchdog \/ Runner \/ Ended

Spec == Init /\ [][Next]_vars

\* Every wait of the runner has a timeout, so the runner always goes on.
FairSpec == Spec /\ WF_vars(Runner)

-----------------------------------------------------------------------------
(* Properties *)

\* The runner's control, the script's progress, the watchdog's counters and the
\* files on the cluster keep their types; attempts, stalls and points stay in
\* their bounds.
RunnerTypeOK ==
  /\ pc \in {"next", "wait", "timedout", "join", "after", "retry", "done"}
  /\ cur \in 1 .. Len(Campaign) + 1
  /\ attempt \in 1 .. MaxRetries
  /\ returning \in {"no", "ok", "failed"}
  /\ results \in [Exps -> {"none", "ok", "failed", "notfound"}]
  /\ proc \in {"none", "connecting", "running", "hung", "exit0", "exit1", "killed"}
  /\ script.w \in Nat \ {0} /\ script.n \in Nat
  /\ \A e \in Exps : /\ partial[e] \in [WorkloadsOf(e) -> 0 .. Points[e]]
                     /\ final[e] \in [WorkloadsOf(e) -> 0 .. MaxRetries]
                     /\ backup[e] \in [WorkloadsOf(e) -> 0 .. MaxRetries]
  /\ wd.at \in {"off", "waiting", "probing", "ended"}
  /\ wd.stall \in 0 .. StallFactor /\ wd.last \in Nat /\ wd.failed \in Nodes \cup {NoNode}
  /\ overdue \in BOOLEAN
  /\ up \subseteq Nodes /\ healthy \subseteq Nodes /\ left \subseteq Nodes
  /\ cn \in [Patchable -> Nat]
  /\ faults \in 0 .. MaxFaults

OfOneAttempt(e) ==
  \E a \in 1 .. MaxRetries : \A w \in WorkloadsOf(e) :
    final[e][w] = a /\ partial[e][w] = Points[e]

\* An experiment that the summary calls OK has all its points in final files
\* that one and the same attempt has written, although earlier attempts may
\* have left files of their own, and these files are in the backup, once the
\* latest rsync has succeeded.
OkMeansComplete ==
  \A e \in Exps : results[e] = "ok" =>
    OfOneAttempt(e) /\ (~unsynced => backup[e] = final[e])

\* A script that ran to its end and whose time-out did not strike is not
\* reported as failed, nor run again, although the watchdog may name a node
\* at any later moment, unless that leaves a cluster that is too small.
CompletedReportedOk ==
  proc = "exit0" /\ ~overdue =>
    /\ pc = "after" => returning = "ok" \/ Cardinality(healthy \ {wd.failed}) <= MinCN
    /\ pc # "retry"

\* The watchdog kills a script only after StallFactor intervals without a new
\* readable point, if the attempt began without points of an earlier one.
WatchdogPatience ==
  wd.killed /\ wd.base = 0 => quiet.intervals >= StallFactor

HealthyFileSound == up \subseteq healthy /\ Cardinality(healthy) > MinCN
CnCountAgrees == patched => \A e \in Patchable : cn[e] = Cardinality(healthy) - 1

\* Only unreachable nodes leave HEALTHY_FILE, it never shrinks below a cluster
\* on which the campaign may go on, and the parameters of every patchable
\* script ask for the compute nodes it leaves, unless a patch was cut off.
ClusterFilesAgree == HealthyFileSound /\ CnCountAgrees

\* A retry finds no ycsb_test on a healthy node unless the clean-up failed.
RetryStartsClean == pc = "retry" /\ swept => left \cap healthy \cap up = {}

\* The campaign ends whatever hangs: every wait of the runner is timed.
CampaignEnds == <>(pc = "done")

\* A script that runs never takes back data points that are completed, by it or
\* by an earlier attempt ("checkpoint-based resume").
PointsKept ==
  [][proc' = "running" =>
       \A e \in Exps : \A w \in WorkloadsOf(e) : partial'[e][w] >= partial[e][w]]_vars

=============================================================================
