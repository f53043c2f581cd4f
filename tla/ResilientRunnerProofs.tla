----------------------- MODULE ResilientRunnerProofs -----------------------
(***************************************************************************)
(* Proofs about the campaign runner: what the summary, the cluster files   *)
(* and a retry may be relied on for, whatever the campaign, the cluster    *)
(* and the number of faults.                                               *)
(*                                                                         *)
(* The number of points the watchdog remembers (wd.last) is a sum over the *)
(* partial files (PointsUpTo); what is needed of such sums, that they grow *)
(* with the files and are bounded by them, is shown by the least place at  *)
(* which it fails.                                                         *)
(***************************************************************************)
EXTENDS ResilientRunner, FiniteSetTheorems, TLAPS

Control == {"next", "wait", "timedout", "join", "after", "retry", "done"}
Waiting == {"wait", "timedout"}
Trying == {"wait", "timedout", "join", "after"}
Attempting == {"wait", "timedout", "join", "after", "retry"}
Alive == {"connecting", "running", "hung"}
Statuses == {"none"} \cup Alive \cup {"exit0", "exit1", "killed"}

(***************************************************************************)
(* RunnerTypeOK but for the watchdog's numbers (see CountersOK), and the   *)
(* domains that EXCEPT relies on.                                          *)
(***************************************************************************)
RunnerOK ==
  /\ pc \in Control
  /\ cur \in 1 .. Len(Campaign) + 1
  /\ attempt \in 1 .. MaxRetries
  /\ returning \in {"no", "ok", "failed"}
  /\ results \in [Exps -> {"none", "ok", "failed", "notfound"}]
  /\ pc \in Attempting => cur <= Len(Campaign)
  /\ faults \in 0 .. MaxFaults

FilesOK ==
  /\ proc \in Statuses /\ overdue \in BOOLEAN
  /\ script \in [w : Nat \ {0}, n : Nat]
  /\ DOMAIN partial = Exps /\ DOMAIN final = Exps
  /\ \A e \in Exps : /\ partial[e] \in [WorkloadsOf(e) -> 0 .. Points[e]]
                     /\ final[e] \in [WorkloadsOf(e) -> 0 .. MaxRetries]
                     /\ backup[e] \in [WorkloadsOf(e) -> 0 .. MaxRetries]

WatchdogOK ==
  /\ DOMAIN wd = DOMAIN NoWatchdog
  /\ wd.at \in {"off", "waiting", "probing", "ended"}
  /\ wd.stall \in 0 .. StallFactor
  /\ wd.at = "waiting" => wd.stall < StallFactor
  /\ wd.failed \in Nodes \cup {NoNode}
  /\ wd.failed # NoNode => wd.at = "ended"

ClusterOK ==
  /\ up \subseteq Nodes /\ healthy \subseteq Nodes /\ left \subseteq Nodes
  /\ cn \in [Patchable -> Nat]

(***************************************************************************)
(* The runner and the script: a script is alive only while the runner      *)
(* waits for it or is about to kill it, and what is about to be returned    *)
(* agrees with how it ended, unless its time-out has struck: one that ends *)
(* between the time-out and the kill has its exit code ignored.            *)
(***************************************************************************)
Handshake ==
  /\ proc \in Alive => pc \in Waiting
  /\ pc \in Attempting => proc # "none"
  /\ pc = "timedout" => overdue = TRUE
  /\ pc \in {"join", "after"} /\ proc = "exit0" /\ overdue = FALSE => returning # "no"
  /\ pc = "retry" /\ proc = "exit0" => overdue = TRUE
  /\ returning = "ok" => pc \in {"join", "after"} /\ proc = "exit0"
  /\ returning = "failed" => /\ pc = "after" /\ wd.failed # NoNode
                             /\ Cardinality(healthy \ {wd.failed}) <= MinCN

\* Only unreachable nodes are called failed, and leave HEALTHY_FILE.
ClusterInv ==
  /\ wd.failed \notin up
  /\ ClusterFilesAgree

(***************************************************************************)
(* The files of the script that runs: the workloads behind it are final,   *)
(* and the partial file in hand holds the points it has counted.           *)
(***************************************************************************)
WorkloadDone(w) == final[Exp][w] = attempt /\ partial[Exp][w] = Points[Exp]

ScriptInv ==
  /\ proc = "running" =>
       /\ script.w \in WorkloadsOf(Exp) /\ script.n <= Points[Exp]
       /\ \A w \in WorkloadsOf(Exp) : w < script.w => WorkloadDone(w)
       /\ script.n > 0 => partial[Exp][script.w] = script.n
  /\ proc = "exit0" /\ pc \in Trying =>
       \A w \in WorkloadsOf(Exp) : WorkloadDone(w)

\* Results are those of the scripts behind, and the backup has what they wrote.
ResultInv ==
  /\ \A i \in DOMAIN Campaign : i >= cur => results[Campaign[i]] # "ok"
  /\ OkMeansComplete
  /\ returning = "ok" => (~unsynced => backup[Exp] = final[Exp])

TypeInv == RunnerOK /\ FilesOK /\ WatchdogOK /\ ClusterOK
RunnerInv == TypeInv /\ Handshake /\ ClusterInv /\ ScriptInv /\ ResultInv /\ RetryStartsClean

-----------------------------------------------------------------------------
(* Facts about the constants *)

\* The script the runner is at, and its parameters.
LEMMA ExpFacts ==
  ASSUME RunnerOK, cur <= Len(Campaign)
  PROVE  /\ cur \in DOMAIN Campaign /\ Exp \in Exps
         /\ Files[Exp] \in Nat \ {0} /\ Points[Exp] \in Nat \ {0}
  BY CampaignAssumption DEF RunnerOK, Exp, Exps, Range

\* The number of scripts.
LEMMA CampaignLength == Len(Campaign) \in Nat
  BY CampaignAssumption

\* A set of nodes is finite, and its size is a number.
LEMMA NodeSets ==
  ASSUME NEW S, S \subseteq Nodes
  PROVE  IsFiniteSet(S) /\ Cardinality(S) \in Nat
  BY FS_Subset, FS_CardinalityType, ClusterAssumption

-----------------------------------------------------------------------------
(* Types *)

\* Leaving an experiment with a result keeps the runner's control in its type.
LEMMA LeaveOK ==
  ASSUME RunnerOK, cur <= Len(Campaign), NEW r \in {"ok", "failed", "notfound"},
         Leave(r), faults' \in 0 .. MaxFaults
  PROVE  RunnerOK'
<1>1. results' \in [Exps -> {"none", "ok", "failed", "notfound"}]
  <2>1. results' = [results EXCEPT ![Exp] = r]  BY DEF Leave
  <2>2. QED  BY <2>1 DEF RunnerOK
<1>2. cur' \in 1 .. Len(Campaign) + 1
  BY CampaignLength DEF Leave, RunnerOK
<1>3. attempt' \in 1 .. MaxRetries /\ returning' = "no" /\ pc' = "next"
  BY BoundsAssumption DEF Leave
<1>4. QED
  BY <1>1, <1>2, <1>3 DEF RunnerOK, Control, Attempting

\* Every step keeps the runner's control in its type.
LEMMA StepRunner ==
  ASSUME RunnerOK, [Next]_vars
  PROVE  RunnerOK'
<1>1. CASE ScriptConnects
  BY <1>1, BoundsAssumption
  DEF ScriptConnects, runnerVars, RunnerOK, Control, Attempting
<1>2. CASE ScriptCannotConnect
  BY <1>2, BoundsAssumption
  DEF ScriptCannotConnect, runnerVars, clusterVars, RunnerOK, Control, Attempting
<1>3. CASE FinishPoint
  BY <1>3, BoundsAssumption
  DEF FinishPoint, runnerVars, RunnerOK, Control, Attempting
<1>4. CASE FinishWorkload
  BY <1>4, BoundsAssumption
  DEF FinishWorkload, runnerVars, clusterVars, RunnerOK, Control, Attempting
<1>5. CASE ScriptDies
  BY <1>5, BoundsAssumption
  DEF ScriptDies, runnerVars, clusterVars, Fault, NoFault, RunnerOK, Control, Attempting
<1>6. CASE ScriptHangs
  BY <1>6, BoundsAssumption
  DEF ScriptHangs, runnerVars, clusterVars, Fault, RunnerOK, Control, Attempting
<1>7. CASE NodeFails
  BY <1>7, BoundsAssumption
  DEF NodeFails, runnerVars, scriptVars, Fault, RunnerOK, Control, Attempting
<1>8. CASE WatchdogTick
  BY <1>8, BoundsAssumption
  DEF WatchdogTick, runnerVars, scriptVars, clusterVars, Fault, NoFault, RunnerOK, Control, Attempting
<1>9. CASE WatchdogSystemic
  BY <1>9, BoundsAssumption
  DEF WatchdogSystemic, WatchdogVerdict, runnerVars, clusterVars, RunnerOK, Control, Attempting
<1>10. CASE WatchdogTransient
  BY <1>10, BoundsAssumption
  DEF WatchdogTransient, WatchdogVerdict, runnerVars, clusterVars, RunnerOK, Control, Attempting
<1>11. CASE SkipMissing
  <2>1. cur <= Len(Campaign) /\ Leave("notfound") /\ faults' = faults
    BY <1>11 DEF SkipMissing
  <2>2. QED  BY <2>1, LeaveOK DEF RunnerOK
<1>12. CASE StartAttempt
  <2>1. /\ pc' = "wait" /\ cur <= Len(Campaign)
        /\ UNCHANGED <<cur, attempt, returning, results, faults>>
    BY <1>12 DEF StartAttempt, RunnerOK, Attempting
  <2>2. QED  BY <2>1 DEF RunnerOK, Control, Attempting
<1>13. CASE RunSucceeds
  BY <1>13, BoundsAssumption
  DEF RunSucceeds, RsyncResults, StopWatchdog, AfterWait, scriptVars, clusterVars, Fault, NoFault, RunnerOK, Control, Attempting
<1>14. CASE RunFails
  BY <1>14, BoundsAssumption
  DEF RunFails, StopWatchdog, AfterWait, scriptVars, clusterVars, RunnerOK, Control, Attempting
<1>15. CASE RunTimesOut
  BY <1>15, BoundsAssumption
  DEF RunTimesOut, StopWatchdog, AfterWait, clusterVars, RunnerOK, Control, Attempting
<1>16. CASE JoinNoFailure
  BY <1>16, BoundsAssumption
  DEF JoinNoFailure, scriptVars, clusterVars, RunnerOK, Control, Attempting
<1>17. CASE ReconfigureTooSmall
  BY <1>17, BoundsAssumption
  DEF ReconfigureTooSmall, scriptVars, clusterVars, RunnerOK, Control, Attempting
<1>18. CASE ReconfigureCluster
  BY <1>18, BoundsAssumption
  DEF ReconfigureCluster, scriptVars, Fault, NoFault, RunnerOK, Control, Attempting
<1>19. CASE Return
  <2>1. pc = "after" /\ returning \in {"ok", "failed"} /\ Leave(returning) /\ faults' = faults
    BY <1>19 DEF Return, RunnerOK
  <2>2. QED  BY <2>1, LeaveOK DEF RunnerOK, Attempting
<1>20. CASE CleanupAndRetry
  <2>1. faults' \in 0 .. MaxFaults
    BY <1>20, BoundsAssumption DEF CleanupAndRetry, CleanupCluster, Fault, NoFault, RunnerOK
  <2>2. CASE attempt < MaxRetries
    <3>1. /\ attempt' = attempt + 1 /\ pc' = "retry" /\ pc = "after"
          /\ UNCHANGED <<cur, returning, results>>
      BY <1>20, <2>2 DEF CleanupAndRetry
    <3>2. QED  BY <2>1, <2>2, <3>1, BoundsAssumption DEF RunnerOK, Control, Attempting
  <2>3. CASE ~(attempt < MaxRetries)
    <3>1. pc = "after" /\ Leave("failed")
      BY <1>20, <2>3 DEF CleanupAndRetry
    <3>2. QED  BY <2>1, <3>1, LeaveOK DEF RunnerOK, Attempting
  <2>4. QED  BY <2>2, <2>3
<1>21. CASE FinalSync
  BY <1>21, BoundsAssumption
  DEF FinalSync, RsyncResults, scriptVars, clusterVars, Fault, NoFault, RunnerOK, Control, Attempting
<1>22. CASE UNCHANGED vars
  BY <1>22, BoundsAssumption DEF vars, RunnerOK, Control, Attempting
<1>23. CASE KillTimedOut
  BY <1>23, BoundsAssumption
  DEF KillTimedOut, StopWatchdog, AfterWait, clusterVars, RunnerOK, Control, Attempting, Waiting
<1> QED
  BY <1>1, <1>2, <1>3, <1>4, <1>5, <1>6, <1>7, <1>8, <1>9, <1>10, <1>11, <1>12, <1>13, <1>14, <1>15, <1>16, <1>17, <1>18, <1>19, <1>20, <1>21, <1>22, <1>23 DEF Next, Script, Watchdog, Runner, Ended

\* A script that is alive is the one at cur.
LEMMA AliveExp ==
  ASSUME RunnerOK, Handshake, proc \in Alive
  PROVE  /\ pc \in Waiting /\ cur \in DOMAIN Campaign /\ Exp \in Exps
         /\ Files[Exp] \in Nat \ {0} /\ Points[Exp] \in Nat \ {0}
  BY ExpFacts DEF RunnerOK, Handshake, Attempting, Waiting

\* A kill cuts off files of the script that runs only.
LEMMA CutOffOthers ==
  ASSUME FilesOK, CutOff
  PROVE  /\ proc # "running" => UNCHANGED <<partial, final>>
         /\ \A e \in Exps : e # Exp => partial'[e] = partial[e] /\ final'[e] = final[e]
  BY DEF CutOff, FilesOK

\* A file that is cut off has no points, and is of no attempt.
LEMMA CutOffTypes ==
  ASSUME FilesOK, CutOff
  PROVE  /\ DOMAIN partial' = Exps /\ DOMAIN final' = Exps
         /\ \A e \in Exps : /\ partial'[e] \in [WorkloadsOf(e) -> 0 .. Points[e]]
                            /\ final'[e] \in [WorkloadsOf(e) -> 0 .. MaxRetries]
<1>1. DOMAIN partial' = Exps /\ DOMAIN final' = Exps
  BY DEF CutOff, FilesOK
<1>2. ASSUME NEW e \in Exps
      PROVE  /\ partial'[e] \in [WorkloadsOf(e) -> 0 .. Points[e]]
             /\ final'[e] \in [WorkloadsOf(e) -> 0 .. MaxRetries]
  <2>1. CASE e # Exp
    BY <2>1, CutOffOthers DEF FilesOK
  <2>2. CASE e = Exp
    <3>1. /\ partial[e] \in [WorkloadsOf(e) -> 0 .. Points[e]]
          /\ final[e] \in [WorkloadsOf(e) -> 0 .. MaxRetries]
          /\ Points[e] \in Nat /\ MaxRetries \in Nat
      BY CampaignAssumption, BoundsAssumption DEF FilesOK
    <3>2. 0 \in 0 .. Points[e] /\ 0 \in 0 .. MaxRetries
      BY <3>1
    <3>3. /\ partial'[e] \in {partial[e], [partial[e] EXCEPT ![script.w] = 0]}
          /\ final'[e] \in {final[e], [final[e] EXCEPT ![script.w] = 0]}
      BY <2>2 DEF CutOff, FilesOK
    <3> QED BY <3>1, <3>2, <3>3
  <2> QED BY <2>1, <2>2
<1> QED BY <1>1, <1>2

\* Every step keeps the script's files in their type.
LEMMA StepFiles ==
  ASSUME RunnerOK, FilesOK, Handshake, [Next]_vars
  PROVE  FilesOK'
<1>1. CASE ScriptConnects
  BY <1>1
  DEF ScriptConnects, runnerVars, FilesOK, Statuses, Alive, WorkloadsOf
<1>2. CASE ScriptCannotConnect
  BY <1>2
  DEF ScriptCannotConnect, runnerVars, clusterVars, FilesOK, Statuses, Alive, WorkloadsOf
<1>3. CASE FinishPoint
  <2>1. Exp \in Exps /\ Points[Exp] \in Nat \ {0}
    BY <1>3, AliveExp DEF FinishPoint, Alive
  <2>2. script.n + 1 \in 0 .. Points[Exp] /\ script.n \in Nat
    BY <1>3, <2>1 DEF FinishPoint, FilesOK
  <2>3. /\ partial' = [partial EXCEPT ![Exp][script.w] = script.n + 1]
        /\ script' = [script EXCEPT !.n = @ + 1]
        /\ UNCHANGED <<proc, final, overdue, backup>>
    BY <1>3 DEF FinishPoint
  <2>4. script' \in [w : Nat \ {0}, n : Nat]
    BY <2>3 DEF FilesOK
  <2>5. ASSUME NEW e \in Exps
        PROVE  partial'[e] \in [WorkloadsOf(e) -> 0 .. Points[e]]
    <3>1. CASE e = Exp
      BY <2>1, <2>2, <2>3, <3>1 DEF FilesOK
    <3>2. CASE e # Exp
      BY <2>1, <2>3, <3>2 DEF FilesOK
    <3>3. QED  BY <3>1, <3>2
  <2>6. QED
    BY <2>3, <2>4, <2>5 DEF FilesOK, WorkloadsOf
<1>4. CASE FinishWorkload
  <2>1. Exp \in Exps
    BY <1>4, AliveExp DEF FinishWorkload, Alive
  <2>2. final' = [final EXCEPT ![Exp][script.w] = attempt] /\ UNCHANGED <<partial, overdue, backup>>
    BY <1>4 DEF FinishWorkload
  <2>3. script' \in [w : Nat \ {0}, n : Nat] /\ proc' \in Statuses
    BY <1>4 DEF FinishWorkload, FilesOK, Statuses
  <2>4. attempt \in 0 .. MaxRetries
    BY BoundsAssumption DEF RunnerOK
  <2>5. ASSUME NEW e \in Exps
        PROVE  final'[e] \in [WorkloadsOf(e) -> 0 .. MaxRetries]
    <3>1. CASE e = Exp
      BY <2>1, <2>2, <2>4, <3>1 DEF FilesOK
    <3>2. CASE e # Exp
      BY <2>1, <2>2, <3>2 DEF FilesOK
    <3>3. QED  BY <3>1, <3>2
  <2>6. QED
    BY <2>2, <2>3, <2>5 DEF FilesOK, WorkloadsOf
<1>5. CASE ScriptDies
  BY <1>5
  DEF ScriptDies, runnerVars, clusterVars, Fault, NoFault, FilesOK, Statuses, Alive, WorkloadsOf
<1>6. CASE ScriptHangs
  BY <1>6
  DEF ScriptHangs, runnerVars, clusterVars, Fault, FilesOK, Statuses, Alive, WorkloadsOf
<1>7. CASE NodeFails
  BY <1>7
  DEF NodeFails, runnerVars, scriptVars, Fault, FilesOK, Statuses, Alive, WorkloadsOf
<1>8. CASE WatchdogTick
  <2>1. UNCHANGED <<proc, script, partial, final, overdue, backup>>
    BY <1>8 DEF WatchdogTick, scriptVars
  <2>2. QED  BY <2>1 DEF FilesOK, WorkloadsOf
<1>9. CASE WatchdogSystemic \/ WatchdogTransient
  <2>1. proc' = Killed(proc) /\ CutOff /\ UNCHANGED <<script, overdue, backup>>
    BY <1>9 DEF WatchdogSystemic, WatchdogTransient, WatchdogVerdict
  <2>2. proc' \in Statuses
    BY <2>1 DEF Killed, FilesOK, Statuses
  <2>3. QED  BY <2>1, <2>2, CutOffTypes DEF FilesOK, WorkloadsOf
<1>11. CASE SkipMissing
  BY <1>11
  DEF SkipMissing, Leave, scriptVars, clusterVars, FilesOK, Statuses, Alive, WorkloadsOf
<1>12. CASE StartAttempt
  <2>1. proc' = "connecting" /\ overdue' = FALSE /\ UNCHANGED <<script, partial, final, backup>>
    BY <1>12 DEF StartAttempt
  <2>2. QED  BY <2>1 DEF FilesOK, Statuses, Alive, WorkloadsOf
<1>13. CASE RunSucceeds
  BY <1>13
  DEF RunSucceeds, RsyncResults, StopWatchdog, AfterWait, scriptVars, clusterVars, Fault, NoFault, FilesOK, Statuses, Alive, WorkloadsOf
<1>14. CASE RunFails
  BY <1>14
  DEF RunFails, StopWatchdog, AfterWait, scriptVars, clusterVars, FilesOK, Statuses, Alive, WorkloadsOf
<1>15. CASE RunTimesOut
  BY <1>15
  DEF RunTimesOut, StopWatchdog, AfterWait, clusterVars, FilesOK, Statuses, Alive, WorkloadsOf
<1>16. CASE JoinNoFailure
  BY <1>16
  DEF JoinNoFailure, scriptVars, clusterVars, FilesOK, Statuses, Alive, WorkloadsOf
<1>17. CASE ReconfigureTooSmall
  BY <1>17
  DEF ReconfigureTooSmall, scriptVars, clusterVars, FilesOK, Statuses, Alive, WorkloadsOf
<1>18. CASE ReconfigureCluster
  BY <1>18
  DEF ReconfigureCluster, scriptVars, Fault, NoFault, FilesOK, Statuses, Alive, WorkloadsOf
<1>19. CASE Return
  BY <1>19
  DEF Return, Leave, scriptVars, clusterVars, FilesOK, Statuses, Alive, WorkloadsOf
<1>20. CASE CleanupAndRetry
  BY <1>20
  DEF CleanupAndRetry, CleanupCluster, Leave, scriptVars, Fault, NoFault, FilesOK, Statuses, Alive, WorkloadsOf
<1>21. CASE FinalSync
  BY <1>21
  DEF FinalSync, RsyncResults, scriptVars, clusterVars, Fault, NoFault, FilesOK, Statuses, Alive, WorkloadsOf
<1>22. CASE UNCHANGED vars
  BY <1>22 DEF vars, FilesOK, Statuses, Alive, WorkloadsOf
<1>23. CASE KillTimedOut
  <2>1. proc' = Killed(proc) /\ CutOff /\ UNCHANGED <<script, overdue, backup>>
    BY <1>23 DEF KillTimedOut
  <2>2. proc' \in Statuses
    BY <2>1 DEF Killed, FilesOK, Statuses
  <2>3. QED  BY <2>1, <2>2, CutOffTypes DEF FilesOK, WorkloadsOf
<1> QED
  BY <1>1, <1>2, <1>3, <1>4, <1>5, <1>6, <1>7, <1>8, <1>9, <1>11, <1>12, <1>13, <1>14, <1>15, <1>16, <1>17, <1>18, <1>19, <1>20, <1>21, <1>22, <1>23 DEF Next, Script, Watchdog, Runner, Ended

\* Every step keeps the watchdog's fields in their type.
LEMMA StepWatchdog ==
  ASSUME WatchdogOK, ClusterOK, [Next]_vars
  PROVE  WatchdogOK'
<1>1. CASE ScriptConnects
  BY <1>1
  DEF ScriptConnects, runnerVars, WatchdogOK
<1>2. CASE ScriptCannotConnect
  BY <1>2
  DEF ScriptCannotConnect, runnerVars, clusterVars, WatchdogOK
<1>3. CASE FinishPoint
  BY <1>3
  DEF FinishPoint, runnerVars, WatchdogOK
<1>4. CASE FinishWorkload
  BY <1>4
  DEF FinishWorkload, runnerVars, clusterVars, WatchdogOK
<1>5. CASE ScriptDies
  BY <1>5
  DEF ScriptDies, runnerVars, clusterVars, Fault, NoFault, WatchdogOK
<1>6. CASE ScriptHangs
  BY <1>6
  DEF ScriptHangs, runnerVars, clusterVars, Fault, WatchdogOK
<1>7. CASE NodeFails
  BY <1>7
  DEF NodeFails, runnerVars, scriptVars, Fault, WatchdogOK
<1>8. CASE WatchdogTick
  <2>1. CASE Finished(proc)
    <3>1. wd' = [wd EXCEPT !.at = "ended"]
      BY <1>8, <2>1 DEF WatchdogTick
    <3>2. QED  BY <3>1 DEF WatchdogOK
  <2>2. CASE ~Finished(proc)
    <3>1. PICK total : wd' = Progress(wd, total) \/ wd' = NoProgress(wd)
      BY <1>8, <2>2 DEF WatchdogTick
    <3>2. wd.at = "waiting" /\ wd.stall \in 0 .. StallFactor /\ wd.stall < StallFactor
      BY <1>8 DEF WatchdogTick, WatchdogOK
    <3>3. CASE wd' = Progress(wd, total)
      BY <3>2, <3>3, BoundsAssumption DEF Progress, WatchdogOK, NoWatchdog
    <3>4. CASE wd' = NoProgress(wd)
      <4>1. /\ DOMAIN wd' = DOMAIN wd
            /\ wd'.stall = wd.stall + 1 /\ wd'.failed = wd.failed
            /\ wd'.at = IF wd.stall + 1 >= StallFactor THEN "probing" ELSE "waiting"
        BY <3>2, <3>4 DEF NoProgress, WatchdogOK, NoWatchdog
      <4>2. QED  BY <3>2, <4>1, BoundsAssumption DEF WatchdogOK
    <3>5. QED  BY <3>1, <3>3, <3>4
  <2>3. QED  BY <2>1, <2>2
<1>9. CASE WatchdogSystemic
  <2>1. PICK n \in Nodes \cup {NoNode}, k \in BOOLEAN :
          wd' = [wd EXCEPT !.at = "ended", !.failed = n, !.killed = k]
    BY <1>9 DEF WatchdogSystemic, WatchdogVerdict, ClusterOK, Finished
  <2>2. QED  BY <2>1 DEF WatchdogOK, NoWatchdog
<1>10. CASE WatchdogTransient
  <2>1. PICK n \in Nodes \cup {NoNode}, k \in BOOLEAN :
          wd' = [wd EXCEPT !.at = "ended", !.failed = n, !.killed = k]
    BY <1>10 DEF WatchdogTransient, WatchdogVerdict, ClusterOK, Finished
  <2>2. QED  BY <2>1 DEF WatchdogOK, NoWatchdog
<1>11. CASE SkipMissing
  BY <1>11
  DEF SkipMissing, Leave, scriptVars, clusterVars, WatchdogOK
<1>12. CASE StartAttempt
  <2>1. CASE Exp \notin LongRunning
    <3>1. wd' = NoWatchdog  BY <1>12, <2>1 DEF StartAttempt
    <3>2. QED  BY <3>1, BoundsAssumption DEF WatchdogOK, NoWatchdog
  <2>2. CASE Exp \in LongRunning
    <3>1. PICK points :
            wd' = [NoWatchdog EXCEPT !.at = "waiting", !.last = points, !.base = points]
      BY <1>12, <2>2 DEF StartAttempt
    <3>2. QED  BY <3>1, BoundsAssumption DEF WatchdogOK, NoWatchdog
  <2>3. QED  BY <2>1, <2>2
<1>13. CASE RunSucceeds
  BY <1>13
  DEF RunSucceeds, RsyncResults, StopWatchdog, AfterWait, scriptVars, clusterVars, Fault, NoFault, WatchdogOK, NoWatchdog
<1>14. CASE RunFails
  BY <1>14
  DEF RunFails, StopWatchdog, AfterWait, scriptVars, clusterVars, WatchdogOK, NoWatchdog
<1>15. CASE RunTimesOut
  BY <1>15
  DEF RunTimesOut, StopWatchdog, AfterWait, clusterVars, WatchdogOK, NoWatchdog
<1>16. CASE JoinNoFailure
  BY <1>16
  DEF JoinNoFailure, scriptVars, clusterVars, WatchdogOK
<1>17. CASE ReconfigureTooSmall
  BY <1>17
  DEF ReconfigureTooSmall, scriptVars, clusterVars, WatchdogOK
<1>18. CASE ReconfigureCluster
  BY <1>18
  DEF ReconfigureCluster, scriptVars, Fault, NoFault, WatchdogOK
<1>19. CASE Return
  BY <1>19
  DEF Return, Leave, scriptVars, clusterVars, WatchdogOK
<1>20. CASE CleanupAndRetry
  BY <1>20
  DEF CleanupAndRetry, CleanupCluster, Leave, scriptVars, Fault, NoFault, WatchdogOK
<1>21. CASE FinalSync
  BY <1>21
  DEF FinalSync, RsyncResults, scriptVars, clusterVars, Fault, NoFault, WatchdogOK
<1>22. CASE UNCHANGED vars
  BY <1>22 DEF vars, WatchdogOK
<1>23. CASE KillTimedOut
  BY <1>23
  DEF KillTimedOut, StopWatchdog, AfterWait, clusterVars, WatchdogOK, NoWatchdog
<1> QED
  BY <1>1, <1>2, <1>3, <1>4, <1>5, <1>6, <1>7, <1>8, <1>9, <1>10, <1>11, <1>12, <1>13, <1>14, <1>15, <1>16, <1>17, <1>18, <1>19, <1>20, <1>21, <1>22, <1>23 DEF Next, Script, Watchdog, Runner, Ended

\* Every step keeps the cluster's files in their type.
LEMMA StepCluster ==
  ASSUME ClusterOK, WatchdogOK, [Next]_vars
  PROVE  ClusterOK'
<1>1. CASE ScriptConnects
  BY <1>1
  DEF ScriptConnects, runnerVars, ClusterOK
<1>2. CASE ScriptCannotConnect
  BY <1>2
  DEF ScriptCannotConnect, runnerVars, clusterVars, ClusterOK
<1>3. CASE FinishPoint
  BY <1>3
  DEF FinishPoint, runnerVars, ClusterOK
<1>4. CASE FinishWorkload
  BY <1>4
  DEF FinishWorkload, runnerVars, clusterVars, ClusterOK
<1>5. CASE ScriptDies
  BY <1>5
  DEF ScriptDies, runnerVars, clusterVars, Fault, NoFault, ClusterOK
<1>6. CASE ScriptHangs
  BY <1>6
  DEF ScriptHangs, runnerVars, clusterVars, Fault, ClusterOK
<1>7. CASE NodeFails
  BY <1>7
  DEF NodeFails, runnerVars, scriptVars, Fault, ClusterOK
<1>8. CASE WatchdogTick
  BY <1>8
  DEF WatchdogTick, runnerVars, scriptVars, clusterVars, Fault, NoFault, ClusterOK
<1>9. CASE WatchdogSystemic
  BY <1>9
  DEF WatchdogSystemic, WatchdogVerdict, runnerVars, clusterVars, ClusterOK
<1>10. CASE WatchdogTransient
  BY <1>10
  DEF WatchdogTransient, WatchdogVerdict, runnerVars, clusterVars, ClusterOK
<1>11. CASE SkipMissing
  BY <1>11
  DEF SkipMissing, Leave, scriptVars, clusterVars, ClusterOK
<1>12. CASE StartAttempt
  BY <1>12 DEF StartAttempt, clusterVars, ClusterOK
<1>13. CASE RunSucceeds
  BY <1>13
  DEF RunSucceeds, RsyncResults, StopWatchdog, AfterWait, scriptVars, clusterVars, Fault, NoFault, ClusterOK
<1>14. CASE RunFails
  BY <1>14
  DEF RunFails, StopWatchdog, AfterWait, scriptVars, clusterVars, ClusterOK
<1>15. CASE RunTimesOut
  BY <1>15
  DEF RunTimesOut, StopWatchdog, AfterWait, clusterVars, ClusterOK
<1>16. CASE JoinNoFailure
  BY <1>16
  DEF JoinNoFailure, scriptVars, clusterVars, ClusterOK
<1>17. CASE ReconfigureTooSmall
  BY <1>17
  DEF ReconfigureTooSmall, scriptVars, clusterVars, ClusterOK
<1>18. CASE ReconfigureCluster
  <2>1. wd.failed \in Nodes /\ healthy' = healthy \ {wd.failed} /\ healthy' \subseteq Nodes
        /\ UNCHANGED <<up, left>>
    BY <1>18 DEF ReconfigureCluster, Remaining, ClusterOK, WatchdogOK
  <2>2. Cardinality(healthy') \in Nat /\ Cardinality(healthy') - 1 \in Nat
    BY <1>18, <2>1, NodeSets, BoundsAssumption DEF ReconfigureCluster, TooFew, Remaining
  <2>3. PICK done : cn' = PatchCN(done, Cardinality(healthy') - 1)
    BY <1>18 DEF ReconfigureCluster
  <2>4. QED  BY <2>1, <2>2, <2>3 DEF PatchCN, ClusterOK
<1>19. CASE Return
  BY <1>19
  DEF Return, Leave, scriptVars, clusterVars, ClusterOK
<1>20. CASE CleanupAndRetry
  BY <1>20
  DEF CleanupAndRetry, CleanupCluster, Leave, scriptVars, Fault, NoFault, ClusterOK
<1>21. CASE FinalSync
  BY <1>21
  DEF FinalSync, RsyncResults, scriptVars, clusterVars, Fault, NoFault, ClusterOK
<1>22. CASE UNCHANGED vars
  BY <1>22 DEF vars, ClusterOK
<1>23. CASE KillTimedOut
  BY <1>23 DEF KillTimedOut, clusterVars, ClusterOK
<1> QED
  BY <1>1, <1>2, <1>3, <1>4, <1>5, <1>6, <1>7, <1>8, <1>9, <1>10, <1>11, <1>12, <1>13, <1>14, <1>15, <1>16, <1>17, <1>18, <1>19, <1>20, <1>21, <1>22, <1>23 DEF Next, Script, Watchdog, Runner, Ended

-----------------------------------------------------------------------------
(* The runner, the script and the cluster *)

\* Every step keeps what is returned in line with how the script ended.
LEMMA StepHandshake ==
  ASSUME RunnerOK, FilesOK, WatchdogOK, ClusterOK, Handshake, [Next]_vars
  PROVE  Handshake'
<1>1. CASE ScriptConnects
  BY <1>1
  DEF ScriptConnects, runnerVars, Handshake, Alive, Attempting, Waiting
<1>2. CASE ScriptCannotConnect
  BY <1>2
  DEF ScriptCannotConnect, runnerVars, clusterVars, Handshake, Alive, Attempting, Waiting
<1>3. CASE FinishPoint
  BY <1>3
  DEF FinishPoint, runnerVars, Handshake, Alive, Attempting, Waiting
<1>4. CASE FinishWorkload
  BY <1>4
  DEF FinishWorkload, runnerVars, clusterVars, Handshake, Alive, Attempting, Waiting
<1>5. CASE ScriptDies
  BY <1>5
  DEF ScriptDies, runnerVars, clusterVars, Fault, NoFault, Handshake, Alive, Attempting, Waiting
<1>6. CASE ScriptHangs
  BY <1>6
  DEF ScriptHangs, runnerVars, clusterVars, Fault, Handshake, Alive, Attempting, Waiting
<1>7. CASE NodeFails
  BY <1>7 DEF NodeFails, runnerVars, scriptVars, Handshake
<1>8. CASE WatchdogTick
  <2>1. wd.at = "waiting" /\ UNCHANGED <<pc, returning, proc, healthy, overdue>>
    BY <1>8 DEF WatchdogTick, runnerVars, scriptVars, clusterVars
  <2>2. returning # "failed"
    BY <2>1 DEF Handshake, WatchdogOK
  <2>3. QED
    BY <2>1, <2>2 DEF Handshake
<1>9. CASE WatchdogSystemic
  <2>1. wd.at = "probing" /\ proc' = Killed(proc)
        /\ UNCHANGED <<pc, returning, healthy, overdue>>
    BY <1>9 DEF WatchdogSystemic, WatchdogVerdict, runnerVars, clusterVars
  <2>2. returning # "failed"
    BY <2>1 DEF Handshake, WatchdogOK
  <2>3. QED
    BY <2>1, <2>2 DEF Handshake, Killed, Finished, FilesOK, Statuses, Alive, Attempting, Waiting
<1>10. CASE WatchdogTransient
  <2>1. wd.at = "probing" /\ proc' = Killed(proc)
        /\ UNCHANGED <<pc, returning, healthy, overdue>>
    BY <1>10 DEF WatchdogTransient, WatchdogVerdict, runnerVars, clusterVars
  <2>2. returning # "failed"
    BY <2>1 DEF Handshake, WatchdogOK
  <2>3. QED
    BY <2>1, <2>2 DEF Handshake, Killed, Finished, FilesOK, Statuses, Alive, Attempting, Waiting
<1>11. CASE SkipMissing
  BY <1>11
  DEF SkipMissing, Leave, scriptVars, clusterVars, Handshake, Alive, Attempting, Waiting
<1>12. CASE StartAttempt
  <2>1. /\ pc \in {"next", "retry"} /\ pc' = "wait"
        /\ proc' = "connecting" /\ returning' = returning
    BY <1>12 DEF StartAttempt
  <2>2. returning = "no"
    BY <2>1 DEF Handshake, RunnerOK
  <2>3. QED  BY <2>1, <2>2 DEF Handshake, Alive, Attempting, Waiting
<1>13. CASE RunSucceeds
  BY <1>13
  DEF RunSucceeds, RsyncResults, StopWatchdog, AfterWait, scriptVars, clusterVars, Fault, NoFault, Handshake, Alive, Attempting, Waiting, RunnerOK, Finished, FilesOK, Statuses
<1>14. CASE RunFails
  BY <1>14
  DEF RunFails, StopWatchdog, AfterWait, scriptVars, clusterVars, Handshake, Alive, Attempting, Waiting, RunnerOK, Finished, FilesOK, Statuses
<1>15. CASE RunTimesOut
  BY <1>15
  DEF RunTimesOut, StopWatchdog, AfterWait, clusterVars, Handshake, Alive, Attempting, Waiting, RunnerOK, Finished, FilesOK, Statuses
<1>16. CASE JoinNoFailure
  BY <1>16
  DEF JoinNoFailure, scriptVars, clusterVars, Handshake, Alive, Attempting, Waiting, RunnerOK
<1>17. CASE ReconfigureTooSmall
  <2>1. /\ pc = "join" /\ pc' = "after" /\ returning' = "failed" /\ wd.failed # NoNode
        /\ UNCHANGED <<proc, wd, healthy>> /\ TooFew(healthy \ {wd.failed})
    BY <1>17 DEF ReconfigureTooSmall, Remaining, scriptVars, clusterVars
  <2>2. Cardinality(healthy \ {wd.failed}) \in Nat
    BY NodeSets DEF ClusterOK
  <2>3. Cardinality(healthy \ {wd.failed}) <= MinCN
    BY <2>1, <2>2, BoundsAssumption DEF TooFew
  <2>4. QED  BY <2>1, <2>3 DEF Handshake, Alive, Attempting, Waiting
<1>18. CASE ReconfigureCluster
  <2>1. pc = "join" /\ pc' = "after" /\ UNCHANGED <<proc, returning, overdue>>
    BY <1>18 DEF ReconfigureCluster, scriptVars
  <2>2. QED  BY <2>1 DEF Handshake, Alive, Attempting, Waiting
<1>19. CASE Return
  BY <1>19
  DEF Return, Leave, scriptVars, clusterVars, Handshake, Alive, Attempting, Waiting
<1>20. CASE CleanupAndRetry
  BY <1>20
  DEF CleanupAndRetry, CleanupCluster, Leave, scriptVars, Fault, NoFault, Handshake, Alive, Attempting, Waiting
<1>21. CASE FinalSync
  BY <1>21
  DEF FinalSync, RsyncResults, scriptVars, clusterVars, Fault, NoFault, Handshake, Alive, Attempting, Waiting
<1>22. CASE UNCHANGED vars
  BY <1>22 DEF vars, Handshake, Alive, Attempting, Waiting
<1>23. CASE KillTimedOut
  <2>1. /\ pc = "timedout" /\ pc' \in {"join", "after"} /\ proc' = Killed(proc)
        /\ UNCHANGED <<returning, overdue>>
    BY <1>23 DEF KillTimedOut, AfterWait
  <2>2. overdue = TRUE /\ returning = "no" /\ proc # "none"
    BY <2>1 DEF Handshake, RunnerOK, Attempting, Waiting
  <2>3. proc' \notin Alive /\ proc' # "none"
    BY <2>1 DEF Killed, Finished, Alive
  <2>4. QED
    BY <2>1, <2>2, <2>3 DEF Handshake
<1> QED
  BY <1>1, <1>2, <1>3, <1>4, <1>5, <1>6, <1>7, <1>8, <1>9, <1>10, <1>11, <1>12, <1>13, <1>14, <1>15, <1>16, <1>17, <1>18, <1>19, <1>20, <1>21, <1>22, <1>23 DEF Next, Script, Watchdog, Runner, Ended

\* Every step keeps the cluster files in agreement, and calls only an
\* unreachable node failed.
LEMMA StepClusterInv ==
  ASSUME WatchdogOK, ClusterOK, ClusterInv, [Next]_vars
  PROVE  ClusterInv'
<1>1. CASE ScriptConnects
  BY <1>1
  DEF ScriptConnects, runnerVars, ClusterInv, ClusterFilesAgree, HealthyFileSound, CnCountAgrees
<1>2. CASE ScriptCannotConnect
  BY <1>2
  DEF ScriptCannotConnect, runnerVars, clusterVars, ClusterInv, ClusterFilesAgree, HealthyFileSound, CnCountAgrees
<1>3. CASE FinishPoint
  BY <1>3
  DEF FinishPoint, runnerVars, ClusterInv, ClusterFilesAgree, HealthyFileSound, CnCountAgrees
<1>4. CASE FinishWorkload
  BY <1>4
  DEF FinishWorkload, runnerVars, clusterVars, ClusterInv, ClusterFilesAgree, HealthyFileSound, CnCountAgrees
<1>5. CASE ScriptDies
  BY <1>5
  DEF ScriptDies, runnerVars, clusterVars, Fault, NoFault, ClusterInv, ClusterFilesAgree, HealthyFileSound, CnCountAgrees
<1>6. CASE ScriptHangs
  BY <1>6
  DEF ScriptHangs, runnerVars, clusterVars, Fault, ClusterInv, ClusterFilesAgree, HealthyFileSound, CnCountAgrees
<1>7. CASE NodeFails
  BY <1>7 DEF NodeFails, ClusterInv, ClusterFilesAgree, HealthyFileSound, CnCountAgrees
<1>8. CASE WatchdogTick
  <2>1. UNCHANGED clusterVars
    BY <1>8 DEF WatchdogTick
  <2>2. wd'.failed = wd.failed
    BY <1>8 DEF WatchdogTick, WatchdogOK, NoWatchdog, Progress, NoProgress
  <2>3. QED
    BY <2>1, <2>2 DEF ClusterInv, ClusterFilesAgree, HealthyFileSound, CnCountAgrees, clusterVars
<1>9. CASE WatchdogSystemic
  <2>1. PICK n \in healthy \ up : WatchdogVerdict(n)
    BY <1>9 DEF WatchdogSystemic
  <2>2. wd'.failed = n /\ UNCHANGED clusterVars
    BY <2>1 DEF WatchdogVerdict, WatchdogOK, NoWatchdog
  <2>3. QED
    BY <2>2 DEF ClusterInv, ClusterFilesAgree, HealthyFileSound, CnCountAgrees, clusterVars
<1>10. CASE WatchdogTransient
  <2>1. wd'.failed = NoNode /\ UNCHANGED clusterVars
    BY <1>10 DEF WatchdogTransient, WatchdogVerdict, WatchdogOK, NoWatchdog
  <2>2. QED
    BY <2>1, ClusterAssumption
    DEF ClusterOK, ClusterInv, ClusterFilesAgree, HealthyFileSound, CnCountAgrees, clusterVars
<1>11. CASE SkipMissing
  BY <1>11
  DEF SkipMissing, Leave, scriptVars, clusterVars, ClusterInv, ClusterFilesAgree, HealthyFileSound, CnCountAgrees
<1>12. CASE StartAttempt
  <2>1. wd'.failed = NoNode /\ UNCHANGED clusterVars
    BY <1>12 DEF StartAttempt, NoWatchdog
  <2>2. QED
    BY <2>1, ClusterAssumption
    DEF ClusterOK, ClusterInv, ClusterFilesAgree, HealthyFileSound, CnCountAgrees, clusterVars
<1>13. CASE RunSucceeds
  <2>1. wd'.failed = wd.failed /\ UNCHANGED clusterVars
    BY <1>13 DEF RunSucceeds, StopWatchdog, WatchdogOK, NoWatchdog
  <2>2. QED
    BY <2>1 DEF ClusterInv, ClusterFilesAgree, HealthyFileSound, CnCountAgrees, clusterVars
<1>14. CASE RunFails
  <2>1. wd'.failed = wd.failed /\ UNCHANGED clusterVars
    BY <1>14 DEF RunFails, StopWatchdog, WatchdogOK, NoWatchdog
  <2>2. QED
    BY <2>1 DEF ClusterInv, ClusterFilesAgree, HealthyFileSound, CnCountAgrees, clusterVars
<1>15. CASE RunTimesOut
  <2>1. wd'.failed = wd.failed /\ UNCHANGED clusterVars
    BY <1>15 DEF RunTimesOut, StopWatchdog, WatchdogOK, NoWatchdog
  <2>2. QED
    BY <2>1 DEF ClusterInv, ClusterFilesAgree, HealthyFileSound, CnCountAgrees, clusterVars
<1>16. CASE JoinNoFailure
  BY <1>16
  DEF JoinNoFailure, scriptVars, clusterVars, ClusterInv, ClusterFilesAgree, HealthyFileSound, CnCountAgrees
<1>17. CASE ReconfigureTooSmall
  BY <1>17
  DEF ReconfigureTooSmall, scriptVars, clusterVars, ClusterInv, ClusterFilesAgree, HealthyFileSound, CnCountAgrees
<1>18. CASE ReconfigureCluster
  <2>1. /\ wd.failed \in Nodes /\ healthy' = healthy \ {wd.failed} /\ healthy' \subseteq Nodes
        /\ UNCHANGED <<up, wd>> /\ ~TooFew(healthy')
    BY <1>18 DEF ReconfigureCluster, Remaining, ClusterOK, WatchdogOK
  <2>2. Cardinality(healthy') \in Nat
    BY <2>1, NodeSets
  <2>3. Cardinality(healthy') > MinCN
    BY <2>1, <2>2, BoundsAssumption DEF TooFew
  <2>4. PICK done \in SUBSET Patchable :
          /\ cn' = PatchCN(done, Cardinality(healthy') - 1)
          /\ patched' = (done = Patchable)
    BY <1>18 DEF ReconfigureCluster
  <2>5. CnCountAgrees'
    BY <2>4 DEF CnCountAgrees, PatchCN
  <2>6. QED
    BY <2>1, <2>3, <2>5 DEF ClusterInv, ClusterFilesAgree, HealthyFileSound
<1>19. CASE Return
  BY <1>19
  DEF Return, Leave, scriptVars, clusterVars, ClusterInv, ClusterFilesAgree, HealthyFileSound, CnCountAgrees
<1>20. CASE CleanupAndRetry
  BY <1>20
  DEF CleanupAndRetry, CleanupCluster, Leave, scriptVars, Fault, NoFault, ClusterInv, ClusterFilesAgree, HealthyFileSound, CnCountAgrees
<1>21. CASE FinalSync
  BY <1>21
  DEF FinalSync, RsyncResults, scriptVars, clusterVars, Fault, NoFault, ClusterInv, ClusterFilesAgree, HealthyFileSound, CnCountAgrees
<1>22. CASE UNCHANGED vars
  BY <1>22 DEF vars, ClusterInv, ClusterFilesAgree, HealthyFileSound, CnCountAgrees
<1>23. CASE KillTimedOut
  <2>1. wd'.failed = wd.failed /\ UNCHANGED clusterVars
    BY <1>23 DEF KillTimedOut, StopWatchdog, WatchdogOK, NoWatchdog
  <2>2. QED
    BY <2>1 DEF ClusterInv, ClusterFilesAgree, HealthyFileSound, CnCountAgrees, clusterVars
<1> QED
  BY <1>1, <1>2, <1>3, <1>4, <1>5, <1>6, <1>7, <1>8, <1>9, <1>10, <1>11, <1>12, <1>13, <1>14, <1>15, <1>16, <1>17, <1>18, <1>19, <1>20, <1>21, <1>22, <1>23 DEF Next, Script, Watchdog, Runner, Ended

\* Every step keeps the cluster clean between a clean-up and the retry.
LEMMA StepClean ==
  ASSUME Handshake, RetryStartsClean, [Next]_vars
  PROVE  RetryStartsClean'
<1>1. CASE ScriptConnects
  BY <1>1
  DEF ScriptConnects, runnerVars, RetryStartsClean, Handshake, Alive, Waiting
<1>2. CASE ScriptCannotConnect
  BY <1>2
  DEF ScriptCannotConnect, runnerVars, clusterVars, RetryStartsClean
<1>3. CASE FinishPoint
  BY <1>3
  DEF FinishPoint, runnerVars, RetryStartsClean, Handshake, Alive, Waiting
<1>4. CASE FinishWorkload
  BY <1>4
  DEF FinishWorkload, runnerVars, clusterVars, RetryStartsClean
<1>5. CASE ScriptDies
  BY <1>5
  DEF ScriptDies, runnerVars, clusterVars, Fault, NoFault, RetryStartsClean
<1>6. CASE ScriptHangs
  BY <1>6
  DEF ScriptHangs, runnerVars, clusterVars, Fault, RetryStartsClean
<1>7. CASE NodeFails
  BY <1>7
  DEF NodeFails, runnerVars, scriptVars, Fault, RetryStartsClean
<1>8. CASE WatchdogTick
  BY <1>8 DEF WatchdogTick, RetryStartsClean, runnerVars, clusterVars
<1>9. CASE WatchdogSystemic
  BY <1>9
  DEF WatchdogSystemic, WatchdogVerdict, runnerVars, clusterVars, RetryStartsClean
<1>10. CASE WatchdogTransient
  BY <1>10
  DEF WatchdogTransient, WatchdogVerdict, runnerVars, clusterVars, RetryStartsClean
<1>11. CASE SkipMissing
  BY <1>11
  DEF SkipMissing, Leave, scriptVars, clusterVars, RetryStartsClean
<1>12. CASE StartAttempt
  BY <1>12 DEF StartAttempt, RetryStartsClean
<1>13. CASE RunSucceeds
  BY <1>13 DEF RunSucceeds, AfterWait, RetryStartsClean
<1>14. CASE RunFails
  BY <1>14 DEF RunFails, AfterWait, RetryStartsClean
<1>15. CASE RunTimesOut
  BY <1>15 DEF RunTimesOut, AfterWait, RetryStartsClean
<1>16. CASE JoinNoFailure
  BY <1>16
  DEF JoinNoFailure, scriptVars, clusterVars, RetryStartsClean
<1>17. CASE ReconfigureTooSmall
  BY <1>17
  DEF ReconfigureTooSmall, scriptVars, clusterVars, RetryStartsClean
<1>18. CASE ReconfigureCluster
  BY <1>18 DEF ReconfigureCluster, RetryStartsClean
<1>19. CASE Return
  BY <1>19
  DEF Return, Leave, scriptVars, clusterVars, RetryStartsClean
<1>20. CASE CleanupAndRetry
  <2>1. UNCHANGED <<up, healthy>>
    BY <1>20 DEF CleanupAndRetry
  <2>2. swept' => left' = left \ (healthy \cap up)
    BY <1>20 DEF CleanupAndRetry, CleanupCluster
  <2>3. QED  BY <2>1, <2>2 DEF RetryStartsClean
<1>21. CASE FinalSync
  BY <1>21
  DEF FinalSync, RsyncResults, scriptVars, clusterVars, Fault, NoFault, RetryStartsClean
<1>22. CASE UNCHANGED vars
  BY <1>22 DEF vars, RetryStartsClean
<1>23. CASE KillTimedOut
  BY <1>23 DEF KillTimedOut, AfterWait, RetryStartsClean
<1> QED
  BY <1>1, <1>2, <1>3, <1>4, <1>5, <1>6, <1>7, <1>8, <1>9, <1>10, <1>11, <1>12, <1>13, <1>14, <1>15, <1>16, <1>17, <1>18, <1>19, <1>20, <1>21, <1>22, <1>23 DEF Next, Script, Watchdog, Runner, Ended

-----------------------------------------------------------------------------
(* The files *)

\* A step that leaves the files and the experiment alone, and starts or ends
\* no script, keeps the invariant of the script.
LEMMA ScriptFrame ==
  ASSUME ScriptInv, UNCHANGED <<cur, attempt, script, partial, final>>,
         proc' = "running" => proc = "running",
         proc' = "exit0" /\ pc' \in Trying => proc = "exit0" /\ pc \in Trying
  PROVE  ScriptInv'
  BY DEF ScriptInv, WorkloadDone, WorkloadsOf, Exp

\* So does a step after which no script runs, or has just completed.
LEMMA ScriptIdle ==
  ASSUME proc' # "running", proc' = "exit0" => pc' \notin Trying
  PROVE  ScriptInv'
  BY DEF ScriptInv

\* So does a kill: of a script that has ended nothing is cut off.
LEMMA ScriptKilled ==
  ASSUME FilesOK, ScriptInv, proc' = Killed(proc), CutOff, UNCHANGED <<cur, attempt, script>>,
         pc' \in Trying => pc \in Trying
  PROVE  ScriptInv'
<1>1. CASE Finished(proc)
  <2>1. proc' = proc /\ proc # "running"
    BY <1>1 DEF Killed, Finished
  <2>2. UNCHANGED <<partial, final>>
    BY <2>1, CutOffOthers
  <2>3. QED  BY <2>1, <2>2, ScriptFrame
<1>2. CASE ~Finished(proc)
  <2>1. proc' = "killed"
    BY <1>2 DEF Killed
  <2>2. QED  BY <2>1, ScriptIdle
<1>3. QED  BY <1>1, <1>2

\* Every step keeps the files of the script in hand as its loop left them.
LEMMA StepScript ==
  ASSUME RunnerOK, FilesOK, Handshake, ScriptInv, [Next]_vars
  PROVE  ScriptInv'
<1>1. CASE ScriptConnects
  <2>1. /\ Exp \in Exps /\ Files[Exp] \in Nat \ {0} /\ Points[Exp] \in Nat \ {0}
    BY <1>1, AliveExp DEF ScriptConnects, Alive
  <2>2. /\ proc' = "running" /\ script' = [w |-> 1, n |-> 0]
        /\ UNCHANGED <<cur, attempt, partial, final>>
    BY <1>1 DEF ScriptConnects, runnerVars
  <2>3. script'.w = 1 /\ script'.n = 0 /\ Exp' = Exp
    BY <2>2 DEF Exp
  <2>4. QED  BY <2>1, <2>2, <2>3 DEF ScriptInv, WorkloadsOf
<1>2. CASE ScriptCannotConnect
  <2>1. proc' # "running" /\ proc' # "exit0"
    BY <1>2 DEF ScriptCannotConnect
  <2>2. QED  BY <2>1, ScriptIdle
<1>3. CASE FinishPoint
  <2>1. Exp \in Exps /\ Points[Exp] \in Nat \ {0} /\ Exp' = Exp
    BY <1>3, AliveExp DEF FinishPoint, Alive, runnerVars, Exp
  <2>2. /\ proc = "running" /\ proc' = "running" /\ script.n < Points[Exp]
        /\ script' = [script EXCEPT !.n = @ + 1]
        /\ partial' = [partial EXCEPT ![Exp][script.w] = script.n + 1]
        /\ UNCHANGED <<cur, attempt, final>>
    BY <1>3 DEF FinishPoint, runnerVars
  <2>3. script.w \in WorkloadsOf(Exp) /\ WorkloadsOf(Exp)' = WorkloadsOf(Exp)
    BY <2>1, <2>2 DEF ScriptInv, WorkloadsOf
  <2>4. script'.w = script.w /\ script'.n = script.n + 1 /\ script.n \in Nat /\ script.w \in Nat
    BY <2>2 DEF FilesOK
  <2>5. partial'[Exp][script.w] = script.n + 1
    BY <2>1, <2>2, <2>3 DEF FilesOK
  <2>6. ASSUME NEW w \in WorkloadsOf(Exp), w < script.w
        PROVE  partial'[Exp][w] = partial[Exp][w]
    BY <2>1, <2>2, <2>3, <2>4, <2>6 DEF FilesOK, WorkloadsOf
  <2>7. \A w \in WorkloadsOf(Exp) : w < script.w => final'[Exp][w] = attempt' /\ partial'[Exp][w] = Points[Exp]
    BY <2>2, <2>6 DEF ScriptInv, WorkloadDone
  <2>8. script'.n <= Points[Exp]
    BY <2>1, <2>2, <2>4
  <2>9. QED
    BY <2>1, <2>2, <2>3, <2>4, <2>5, <2>7, <2>8 DEF ScriptInv, WorkloadDone
<1>4. CASE FinishWorkload
  <2>1. /\ Exp \in Exps /\ Files[Exp] \in Nat \ {0} /\ Points[Exp] \in Nat \ {0}
        /\ Exp' = Exp /\ pc \in Trying /\ pc' \in Trying
    BY <1>4, AliveExp DEF FinishWorkload, Alive, runnerVars, Exp, Trying, Waiting
  <2>2. /\ proc = "running" /\ script.n = Points[Exp]
        /\ final' = [final EXCEPT ![Exp][script.w] = attempt]
        /\ UNCHANGED <<cur, attempt, partial>>
    BY <1>4 DEF FinishWorkload, runnerVars
  <2>3. script.w \in WorkloadsOf(Exp) /\ WorkloadsOf(Exp)' = WorkloadsOf(Exp)
    BY <2>1, <2>2 DEF ScriptInv, WorkloadsOf
  <2>4. partial[Exp][script.w] = Points[Exp]
    BY <2>1, <2>2 DEF ScriptInv
  <2>5. \A w \in WorkloadsOf(Exp) : final'[Exp][w] = IF w = script.w THEN attempt ELSE final[Exp][w]
    BY <2>1, <2>2, <2>3 DEF FilesOK
  <2>6. \A w \in WorkloadsOf(Exp) : w <= script.w => final'[Exp][w] = attempt' /\ partial'[Exp][w] = Points[Exp]
    BY <2>1, <2>2, <2>3, <2>4, <2>5 DEF ScriptInv, WorkloadDone, WorkloadsOf
  <2>7. CASE script.w = Files[Exp]
    <3>1. proc' = "exit0"
      BY <1>4, <2>7 DEF FinishWorkload
    <3>2. QED  BY <2>1, <2>6, <2>7, <3>1 DEF ScriptInv, WorkloadDone, WorkloadsOf
  <2>8. CASE script.w # Files[Exp]
    <3>1. proc' = "running" /\ script' = [w |-> script.w + 1, n |-> 0]
      BY <1>4, <2>2, <2>8 DEF FinishWorkload
    <3>2. script'.w = script.w + 1 /\ script'.n = 0
      BY <3>1
    <3>3. script.w + 1 \in WorkloadsOf(Exp) /\ \A w \in WorkloadsOf(Exp) : w < script.w + 1 => w <= script.w
      BY <2>1, <2>3, <2>8 DEF WorkloadsOf
    <3>4. QED  BY <2>1, <2>3, <2>6, <3>1, <3>2, <3>3 DEF ScriptInv, WorkloadDone
  <2>9. QED  BY <2>7, <2>8
<1>5. CASE ScriptDies
  <2>1. proc' # "running" /\ proc' # "exit0"
    BY <1>5 DEF ScriptDies
  <2>2. QED  BY <2>1, ScriptIdle
<1>6. CASE ScriptHangs
  <2>1. proc' # "running" /\ proc' # "exit0"
    BY <1>6 DEF ScriptHangs
  <2>2. QED  BY <2>1, ScriptIdle
<1>7. CASE NodeFails
  BY <1>7, ScriptFrame DEF NodeFails, runnerVars, scriptVars
<1>8. CASE WatchdogTick
  BY <1>8, ScriptFrame DEF WatchdogTick, runnerVars, scriptVars
<1>9. CASE WatchdogSystemic \/ WatchdogTransient
  <2>1. proc' = Killed(proc) /\ CutOff /\ UNCHANGED <<cur, attempt, script, pc>>
    BY <1>9 DEF WatchdogSystemic, WatchdogTransient, WatchdogVerdict, runnerVars
  <2>2. QED  BY <2>1, ScriptKilled
<1>11. CASE SkipMissing
  <2>1. pc \notin Waiting /\ pc' \notin Trying /\ proc' = proc
    BY <1>11 DEF SkipMissing, Leave, scriptVars, Waiting, Trying
  <2>2. QED  BY <2>1, ScriptIdle DEF Handshake, Alive
<1>12. CASE StartAttempt
  <2>1. proc' = "connecting"  BY <1>12 DEF StartAttempt
  <2>2. QED  BY <2>1, ScriptIdle
<1>13. CASE RunSucceeds
  BY <1>13, ScriptFrame DEF RunSucceeds, scriptVars, Trying, Waiting, AfterWait
<1>14. CASE RunFails
  BY <1>14, ScriptFrame DEF RunFails, scriptVars, Trying, Waiting, AfterWait
<1>15. CASE RunTimesOut
  BY <1>15, ScriptFrame DEF RunTimesOut, Trying, Waiting
<1>16. CASE JoinNoFailure
  BY <1>16, ScriptFrame DEF JoinNoFailure, scriptVars, Trying, Waiting
<1>17. CASE ReconfigureTooSmall
  BY <1>17, ScriptFrame DEF ReconfigureTooSmall, scriptVars, Trying, Waiting
<1>18. CASE ReconfigureCluster
  BY <1>18, ScriptFrame DEF ReconfigureCluster, scriptVars, Trying, Waiting
<1>19. CASE Return
  <2>1. pc \notin Waiting /\ pc' \notin Trying /\ proc' = proc
    BY <1>19 DEF Return, Leave, scriptVars, Waiting, Trying
  <2>2. QED  BY <2>1, ScriptIdle DEF Handshake, Alive
<1>20. CASE CleanupAndRetry
  <2>1. pc \notin Waiting /\ pc' \notin Trying /\ proc' = proc
    BY <1>20 DEF CleanupAndRetry, Leave, scriptVars, Waiting, Trying
  <2>2. QED  BY <2>1, ScriptIdle DEF Handshake, Alive
<1>21. CASE FinalSync
  <2>1. pc \notin Waiting /\ pc' \notin Trying /\ proc' = proc
    BY <1>21 DEF FinalSync, scriptVars, Waiting, Trying
  <2>2. QED  BY <2>1, ScriptIdle DEF Handshake, Alive
<1>22. CASE UNCHANGED vars
  BY <1>22, ScriptFrame DEF vars
<1>23. CASE KillTimedOut
  <2>1. /\ proc' = Killed(proc) /\ CutOff /\ UNCHANGED <<cur, attempt, script>>
        /\ pc = "timedout" /\ pc' \in {"join", "after"}
    BY <1>23 DEF KillTimedOut, AfterWait
  <2>2. QED  BY <2>1, ScriptKilled DEF Trying, Waiting
<1> QED
  BY <1>1, <1>2, <1>3, <1>4, <1>5, <1>6, <1>7, <1>8, <1>9, <1>11, <1>12, <1>13, <1>14, <1>15, <1>16, <1>17, <1>18, <1>19, <1>20, <1>21, <1>22, <1>23 DEF Next, Script, Watchdog, Runner, Ended

\* A step that leaves files, backup and results alone keeps the invariant of
\* the results.
LEMMA ResultFrame ==
  ASSUME ResultInv, UNCHANGED <<cur, results, partial, final, backup, unsynced>>,
         returning' = "ok" => returning = "ok"
  PROVE  ResultInv'
  BY DEF ResultInv, OkMeansComplete, OfOneAttempt, WorkloadsOf, Exp

\* The files of a script that runs are of no experiment with a result.
LEMMA ResultFiles ==
  ASSUME RunnerOK, FilesOK, Handshake, ResultInv, proc \in Alive,
         UNCHANGED <<cur, returning, results, backup, unsynced>>,
         \A e \in Exps : e # Exp => partial'[e] = partial[e] /\ final'[e] = final[e]
  PROVE  ResultInv'
<1>1. cur \in DOMAIN Campaign /\ Exp \in Exps /\ pc \in Waiting
  BY AliveExp
<1>2. returning # "ok" /\ cur >= cur
  BY <1>1 DEF Handshake, RunnerOK, Waiting
<1>3. results[Exp] # "ok"
  BY <1>1, <1>2 DEF ResultInv, Exp
<1>4. OkMeansComplete'
  BY <1>3 DEF ResultInv, OkMeansComplete, OfOneAttempt, WorkloadsOf
<1>5. QED
  BY <1>2, <1>4 DEF ResultInv

\* A kill cuts off nothing of an experiment with a result.
LEMMA ResultKilled ==
  ASSUME RunnerOK, FilesOK, Handshake, ResultInv, CutOff,
         UNCHANGED <<cur, returning, results, backup, unsynced>>
  PROVE  ResultInv'
<1>1. CASE proc = "running"
  BY <1>1, CutOffOthers, ResultFiles DEF Alive
<1>2. CASE proc # "running"
  BY <1>2, CutOffOthers, ResultFrame
<1>3. QED  BY <1>1, <1>2

\* Leaving an experiment keeps the invariant of the results when "ok" is said
\* of a complete one only.
LEMMA ResultLeave ==
  ASSUME RunnerOK, ResultInv, cur <= Len(Campaign), NEW r, Leave(r),
         UNCHANGED <<partial, final, backup, unsynced>>,
         r = "ok" => OfOneAttempt(Exp) /\ (~unsynced => backup[Exp] = final[Exp])
  PROVE  ResultInv'
<1>1. cur \in DOMAIN Campaign /\ Exp \in Exps
  BY ExpFacts
<1>2. /\ \A e \in Exps : results'[e] = IF e = Exp THEN r ELSE results[e]
      /\ cur' = cur + 1 /\ returning' = "no" /\ cur \in Nat
  BY <1>1 DEF Leave, RunnerOK
<1>3. ASSUME NEW i \in DOMAIN Campaign, i >= cur + 1
      PROVE  results'[Campaign[i]] # "ok"
  <2>1. i \in Nat /\ i # cur /\ i >= cur
    BY <1>2, <1>3, CampaignAssumption
  <2>2. Campaign[i] # Exp /\ Campaign[i] \in Exps
    BY <1>1, <2>1, CampaignAssumption DEF IsInjective, Exp
  <2>3. QED  BY <1>2, <2>1, <2>2 DEF ResultInv
<1>4. OkMeansComplete'
  BY <1>2 DEF ResultInv, OkMeansComplete, OfOneAttempt, WorkloadsOf
<1>5. QED
  BY <1>2, <1>3, <1>4 DEF ResultInv

\* Every step keeps "ok" for complete and backed-up experiments.
LEMMA StepResult ==
  ASSUME RunnerOK, FilesOK, Handshake, ScriptInv, ResultInv, [Next]_vars
  PROVE  ResultInv'
<1>1. CASE ScriptConnects
  BY <1>1, ResultFrame DEF ScriptConnects, runnerVars
<1>2. CASE ScriptCannotConnect
  BY <1>2, ResultFrame DEF ScriptCannotConnect, runnerVars
<1>3. CASE FinishPoint
  <2>1. /\ proc \in Alive /\ UNCHANGED <<cur, returning, results, backup, unsynced>>
        /\ partial' = [partial EXCEPT ![Exp][script.w] = script.n + 1] /\ final' = final
    BY <1>3 DEF FinishPoint, runnerVars, Alive
  <2>2. \A e \in Exps : e # Exp => partial'[e] = partial[e] /\ final'[e] = final[e]
    BY <2>1 DEF FilesOK
  <2>3. QED  BY <2>1, <2>2, ResultFiles
<1>4. CASE FinishWorkload
  <2>1. /\ proc \in Alive /\ UNCHANGED <<cur, returning, results, backup, unsynced>>
        /\ final' = [final EXCEPT ![Exp][script.w] = attempt] /\ partial' = partial
    BY <1>4 DEF FinishWorkload, runnerVars, Alive
  <2>2. \A e \in Exps : e # Exp => partial'[e] = partial[e] /\ final'[e] = final[e]
    BY <2>1 DEF FilesOK
  <2>3. QED  BY <2>1, <2>2, ResultFiles
<1>5. CASE ScriptDies
  BY <1>5, ResultFrame DEF ScriptDies, runnerVars
<1>6. CASE ScriptHangs
  BY <1>6, ResultFrame DEF ScriptHangs, runnerVars
<1>7. CASE NodeFails
  BY <1>7, ResultFrame DEF NodeFails, runnerVars, scriptVars
<1>8. CASE WatchdogTick
  BY <1>8, ResultFrame DEF WatchdogTick, runnerVars, scriptVars
<1>9. CASE WatchdogSystemic \/ WatchdogTransient
  <2>1. CutOff /\ UNCHANGED <<cur, returning, results, backup, unsynced>>
    BY <1>9 DEF WatchdogSystemic, WatchdogTransient, WatchdogVerdict, runnerVars
  <2>2. QED  BY <2>1, ResultKilled
<1>11. CASE SkipMissing
  <2>1. /\ cur <= Len(Campaign) /\ Leave("notfound")
        /\ UNCHANGED <<partial, final, backup, unsynced>>
    BY <1>11 DEF SkipMissing, scriptVars
  <2>2. QED  BY <2>1, ResultLeave
<1>12. CASE StartAttempt
  BY <1>12, ResultFrame DEF StartAttempt
<1>13. CASE RunSucceeds
  <2>1. UNCHANGED <<cur, results, partial, final>> /\ (unsynced' \/ backup' = final)
    BY <1>13 DEF RunSucceeds, RsyncResults, scriptVars
  <2>2. QED
    BY <2>1 DEF ResultInv, OkMeansComplete, OfOneAttempt, WorkloadsOf, Exp
<1>14. CASE RunFails
  BY <1>14, ResultFrame DEF RunFails, scriptVars
<1>15. CASE RunTimesOut
  BY <1>15, ResultFrame DEF RunTimesOut
<1>16. CASE JoinNoFailure
  BY <1>16, ResultFrame DEF JoinNoFailure, scriptVars
<1>17. CASE ReconfigureTooSmall
  BY <1>17, ResultFrame DEF ReconfigureTooSmall, scriptVars
<1>18. CASE ReconfigureCluster
  BY <1>18, ResultFrame DEF ReconfigureCluster, scriptVars
<1>19. CASE Return
  <2>1. pc = "after" /\ Leave(returning) /\ UNCHANGED <<partial, final, backup, unsynced>>
    BY <1>19 DEF Return, scriptVars
  <2>2. cur <= Len(Campaign) /\ pc \in Attempting
    BY <2>1 DEF RunnerOK, Attempting
  <2>3. ASSUME returning = "ok"
        PROVE  OfOneAttempt(Exp) /\ (~unsynced => backup[Exp] = final[Exp])
    <3>1. \A w \in WorkloadsOf(Exp) : WorkloadDone(w)
      BY <2>2, <2>3 DEF Handshake, ScriptInv, Trying
    <3>2. OfOneAttempt(Exp)
      BY <3>1 DEF OfOneAttempt, WorkloadDone, RunnerOK
    <3>3. QED  BY <2>3, <3>2 DEF ResultInv
  <2>4. QED  BY <2>1, <2>2, <2>3, ResultLeave
<1>20. CASE CleanupAndRetry
  <2>1. /\ pc = "after" /\ returning = "no"
        /\ UNCHANGED <<partial, final, backup, unsynced>>
    BY <1>20 DEF CleanupAndRetry, scriptVars
  <2>2. CASE attempt < MaxRetries
    BY <1>20, <2>1, <2>2, ResultFrame DEF CleanupAndRetry
  <2>3. CASE ~(attempt < MaxRetries)
    <3>1. Leave("failed") /\ cur <= Len(Campaign)
      BY <1>20, <2>1, <2>3 DEF CleanupAndRetry, RunnerOK, Attempting
    <3>2. QED  BY <2>1, <3>1, ResultLeave
  <2>4. QED  BY <2>2, <2>3
<1>21. CASE FinalSync
  <2>1. UNCHANGED <<cur, results, partial, final>> /\ (unsynced' \/ backup' = final)
    BY <1>21 DEF FinalSync, RsyncResults, scriptVars
  <2>2. QED
    BY <2>1 DEF ResultInv, OkMeansComplete, OfOneAttempt, WorkloadsOf, Exp
<1>22. CASE UNCHANGED vars
  BY <1>22, ResultFrame DEF vars
<1>23. CASE KillTimedOut
  <2>1. CutOff /\ UNCHANGED <<cur, returning, results, backup, unsynced>>
    BY <1>23 DEF KillTimedOut
  <2>2. QED  BY <2>1, ResultKilled
<1> QED
  BY <1>1, <1>2, <1>3, <1>4, <1>5, <1>6, <1>7, <1>8, <1>9, <1>11, <1>12, <1>13, <1>14, <1>15, <1>16, <1>17, <1>18, <1>19, <1>20, <1>21, <1>22, <1>23 DEF Next, Script, Watchdog, Runner, Ended

-----------------------------------------------------------------------------
(* The theorems *)

\* The initial state has the invariant.
LEMMA InitRunner == Init => RunnerInv
<1> SUFFICES ASSUME Init PROVE RunnerInv
  OBVIOUS
<1>1. RunnerOK
  BY BoundsAssumption, CampaignLength DEF Init, RunnerOK, Control, Attempting
<1>2. FilesOK
  <2>1. proc \in Statuses /\ overdue \in BOOLEAN
    BY DEF Init, Statuses
  <2>3. script \in [w : Nat \ {0}, n : Nat]
    BY DEF Init
  <2>2. /\ DOMAIN partial = Exps /\ DOMAIN final = Exps
        /\ \A e \in Exps : /\ partial[e] \in [WorkloadsOf(e) -> 0 .. Points[e]]
                           /\ final[e] \in [WorkloadsOf(e) -> 0 .. MaxRetries]
                           /\ backup[e] \in [WorkloadsOf(e) -> 0 .. MaxRetries]
    BY BoundsAssumption, CampaignAssumption DEF Init, WorkloadsOf
  <2>4. QED  BY <2>1, <2>2, <2>3 DEF FilesOK
<1>3. WatchdogOK
  BY BoundsAssumption DEF Init, WatchdogOK, NoWatchdog
<1>4. Cardinality(Nodes) \in Nat /\ Cardinality(Nodes) - 1 \in Nat
  BY NodeSets, ClusterAssumption, BoundsAssumption
<1>5. ClusterOK
  BY <1>4 DEF Init, ClusterOK
<1>6. Handshake
  BY DEF Init, Handshake, Alive, Attempting, Waiting
<1>7. ClusterInv
  BY <1>4, ClusterAssumption
  DEF Init, ClusterInv, NoWatchdog, ClusterFilesAgree, HealthyFileSound, CnCountAgrees
<1>8. ScriptInv
  BY DEF Init, ScriptInv
<1>9. \A e \in Exps : results[e] = "none"
  BY DEF Init
<1>10. ResultInv
  BY <1>9, CampaignAssumption DEF Init, ResultInv, OkMeansComplete, Exps, Range
<1>11. RetryStartsClean
  BY DEF Init, RetryStartsClean
<1>12. QED
  BY <1>1, <1>2, <1>3, <1>5, <1>6, <1>7, <1>8, <1>10, <1>11 DEF RunnerInv, TypeInv

\* Every step keeps the invariant.
LEMMA StepRunnerInv == RunnerInv /\ [Next]_vars => RunnerInv'
  BY StepRunner, StepFiles, StepWatchdog, StepCluster, StepHandshake, StepClusterInv,
     StepScript, StepResult, StepClean
  DEF RunnerInv, TypeInv

\* The invariant holds throughout.
THEOREM RunnerInvariant == Spec => []RunnerInv
  BY InitRunner, StepRunnerInv, PTL DEF Spec

\* The summary never calls an experiment OK whose final files are missing,
\* short, or of different attempts, nor one the backup lacks after a
\* successful rsync: whatever the scripts, the crashes and the retries.
THEOREM OkIsComplete == Spec => []OkMeansComplete
<1>1. RunnerInv => OkMeansComplete
  BY DEF RunnerInv, ResultInv
<1>2. QED  BY <1>1, RunnerInvariant, PTL

\* A script that ran to its end and whose time-out did not strike is reported
\* as OK and not run again, unless the watchdog named a node whose loss leaves
\* too small a cluster, at whatever moment its verdict came.
THEOREM CompletedIsReported == Spec => []CompletedReportedOk
<1>1. RunnerInv => CompletedReportedOk
  BY DEF RunnerInv, TypeInv, RunnerOK, FilesOK, Handshake, CompletedReportedOk
<1>2. QED  BY <1>1, RunnerInvariant, PTL

\* Only unreachable nodes leave HEALTHY_FILE, which stays large enough, and the
\* parameters ask for the nodes it leaves, for every cluster and minimum.
THEOREM ClusterFilesConsistent == Spec => []ClusterFilesAgree
<1>1. RunnerInv => ClusterFilesAgree
  BY DEF RunnerInv, ClusterInv
<1>2. QED  BY <1>1, RunnerInvariant, PTL

\* No attempt after the first finds a ycsb_test of the one before it on a node
\* it will use, when the clean-up between them succeeded.
THEOREM RetriesStartClean == Spec => []RetryStartsClean
<1>1. RunnerInv => RetryStartsClean
  BY DEF RunnerInv
<1>2. QED  BY <1>1, RunnerInvariant, PTL

-----------------------------------------------------------------------------
(* Sums *)

\* A set of numbers has a smallest element.
LEMMA LeastNat ==
  ASSUME NEW S, S \subseteq Nat, S # {}
  PROVE  \E x \in S : \A y \in S : x <= y
<1> DEFINE R == OpToRel(<, Nat)
<1>1. IsWellFoundedOn(R, Nat)
  BY NatLessThanWellFounded
<1>2. \A x, y \in Nat : x < y => <<x, y>> \in R
  BY DEF OpToRel
<1> HIDE DEF R
<1>3. PICK x \in S : \A y \in S : ~(<<y, x>> \in R)
  BY <1>1, WFMin
<1>4. \A y \in S : ~(y < x)
  BY <1>2, <1>3
<1> QED BY <1>4

\* g[w] is the sum of the first w of the n numbers f.
AddsUp(g, f, n) ==
  /\ g = [w \in 0 .. n |-> g[w]] /\ \A w \in 0 .. n : g[w] \in Nat
  /\ g[0] = 0 /\ \A w \in 1 .. n : g[w] = g[w - 1] + f[w]

\* Numbers have sums.
LEMMA SumExists ==
  ASSUME NEW n \in Nat, NEW f, \A w \in 1 .. n : f[w] \in Nat
  PROVE  \E g : AddsUp(g, f, n)
<1>1. PICK T : T = {m \in 0 .. n : ~\E g : AddsUp(g, f, m)}
  OBVIOUS
<1>2. SUFFICES ASSUME T # {} PROVE FALSE
  BY <1>1
<1>3. PICK m \in T : \A y \in T : m <= y
  <2>1. T \subseteq Nat
    BY <1>1
  <2> QED BY <1>2, <2>1, LeastNat
<1>4. m \in 0 .. n /\ ~\E g : AddsUp(g, f, m)
  BY <1>1
<1>5. CASE m = 0
  <2>1. PICK g : g = [w \in 0 .. m |-> 0]
    OBVIOUS
  <2>2. AddsUp(g, f, m)
    BY <1>5, <2>1 DEF AddsUp
  <2> QED BY <1>4, <2>2
<1>6. CASE m > 0
  <2>1. m - 1 \in 0 .. n /\ m - 1 \notin T
    BY <1>3, <1>4, <1>6
  <2>2. PICK h : AddsUp(h, f, m - 1)
    BY <1>1, <2>1
  <2>3. PICK g : g = [w \in 0 .. m |-> IF w = m THEN h[m - 1] + f[m] ELSE h[w]]
    OBVIOUS
  <2>4. /\ \A w \in 0 .. m - 1 : g[w] = h[w] /\ h[w] \in Nat
        /\ g[m] = h[m - 1] + f[m] /\ g = [w \in 0 .. m |-> g[w]]
    <3>1. \A w \in 0 .. m - 1 : w \in 0 .. m /\ w # m /\ h[w] \in Nat
      BY <1>4, <1>6, <2>2 DEF AddsUp
    <3>2. \A w \in 0 .. m - 1 : g[w] = h[w]
      BY <2>3, <3>1
    <3>3. m \in 0 .. m
      BY <1>4
    <3> QED BY <2>3, <3>1, <3>2, <3>3
  <2>5. ASSUME NEW w \in 0 .. m PROVE g[w] \in Nat
    <3>1. CASE w = m
      <4>1. m - 1 \in 0 .. m - 1 /\ f[m] \in Nat
        BY <1>4, <1>6
      <4>2. h[m - 1] \in Nat
        BY <2>4, <4>1
      <4> QED BY <2>4, <3>1, <4>1, <4>2
    <3>2. CASE w # m
      <4>1. w \in 0 .. m - 1
        BY <1>4, <3>2
      <4> QED BY <2>4, <4>1
    <3> QED BY <3>1, <3>2
  <2>6. g[0] = 0
    <3>1. 0 \in 0 .. m - 1 /\ h[0] = 0
      BY <1>4, <1>6, <2>2 DEF AddsUp
    <3> QED BY <2>4, <3>1
  <2>7. ASSUME NEW w \in 1 .. m PROVE g[w] = g[w - 1] + f[w]
    <3>0. w - 1 \in 0 .. m - 1
      BY <1>4, <1>6
    <3>1. g[w - 1] = h[w - 1]
      BY <2>4, <3>0
    <3>2. CASE w = m
      BY <2>4, <3>1, <3>2
    <3>3. CASE w # m
      <4>1. w \in 1 .. m - 1 /\ w \in 0 .. m - 1
        BY <1>4, <1>6, <3>3
      <4>2. g[w] = h[w] /\ h[w] = h[w - 1] + f[w]
        BY <2>2, <2>4, <4>1 DEF AddsUp
      <4> QED BY <3>1, <4>2
    <3> QED BY <3>2, <3>3
  <2>8. AddsUp(g, f, m)
    BY <2>4, <2>5, <2>6, <2>7 DEF AddsUp
  <2> QED BY <1>4, <2>8
<1> QED BY <1>4, <1>5, <1>6

\* The larger the numbers, the larger their sum.
LEMMA SumCompare ==
  ASSUME NEW n \in Nat, NEW f, NEW k, NEW g, NEW h, AddsUp(g, f, n), AddsUp(h, k, n),
         NEW m \in 0 .. n,
         \A w \in 1 .. m : f[w] \in Nat /\ k[w] \in Nat /\ f[w] <= k[w]
  PROVE  g[m] <= h[m]
<1>1. PICK T : T = {w \in 0 .. m : ~(g[w] <= h[w])}
  OBVIOUS
<1>2. SUFFICES ASSUME T # {} PROVE FALSE
  BY <1>1
<1>3. PICK t \in T : \A y \in T : t <= y
  BY <1>1, <1>2, LeastNat
<1>4. t \in 0 .. m /\ ~(g[t] <= h[t])
  BY <1>1
<1>5. g[0] = 0 /\ h[0] = 0
  BY DEF AddsUp
<1>6. t > 0 /\ t - 1 \in 0 .. m /\ t \in 1 .. m /\ t \in 1 .. n /\ t - 1 \in 0 .. n
  BY <1>4, <1>5
<1>7. g[t - 1] <= h[t - 1]
  BY <1>1, <1>3, <1>6
<1>8. g[t] = g[t - 1] + f[t] /\ h[t] = h[t - 1] + k[t] /\ g[t - 1] \in Nat /\ h[t - 1] \in Nat
  BY <1>6 DEF AddsUp
<1>9. f[t] \in Nat /\ k[t] \in Nat /\ f[t] <= k[t]
  BY <1>6
<1> QED BY <1>4, <1>7, <1>8, <1>9

\* More numbers have a larger sum, and the same one if they are zero.
LEMMA SumGrows ==
  ASSUME NEW n \in Nat, NEW f, \A w \in 1 .. n : f[w] \in Nat, NEW g, AddsUp(g, f, n),
         NEW a \in 0 .. n, NEW b \in a .. n
  PROVE  g[a] <= g[b] /\ ((\A w \in a + 1 .. b : f[w] = 0) => g[a] = g[b])
<1>1. PICK T : T = {w \in a .. b : ~(g[a] <= g[w] /\ ((\A v \in a + 1 .. w : f[v] = 0) => g[a] = g[w]))}
  OBVIOUS
<1>2. SUFFICES ASSUME T # {} PROVE FALSE
  BY <1>1
<1>3. PICK t \in T : \A y \in T : t <= y
  BY <1>1, <1>2, LeastNat
<1>4. t \in a .. b /\ ~(g[a] <= g[t] /\ ((\A v \in a + 1 .. t : f[v] = 0) => g[a] = g[t]))
  BY <1>1
<1>5. g[a] \in Nat
  BY DEF AddsUp
<1>6. t > a /\ t - 1 \in a .. b /\ t \in 1 .. n /\ t - 1 \in 0 .. n
  BY <1>4, <1>5
<1>7. t - 1 \notin T
  BY <1>3, <1>6
<1>8. g[a] <= g[t - 1] /\ ((\A v \in a + 1 .. t - 1 : f[v] = 0) => g[a] = g[t - 1])
  BY <1>1, <1>6, <1>7
<1>9. g[t] = g[t - 1] + f[t] /\ g[t - 1] \in Nat /\ f[t] \in Nat
  BY <1>6 DEF AddsUp
<1>10. g[a] <= g[t]
  BY <1>5, <1>8, <1>9
<1>11. ASSUME \A v \in a + 1 .. t : f[v] = 0 PROVE g[a] = g[t]
  <2>1. f[t] = 0 /\ \A v \in a + 1 .. t - 1 : f[v] = 0
    BY <1>6, <1>11
  <2> QED BY <1>5, <1>8, <1>9, <2>1
<1> QED BY <1>4, <1>10, <1>11

\* What each of n partial files adds to the count of points.
Counts(points, n, readable) == [w \in 1 .. n |-> IF w \in readable THEN points[w] ELSE 0]

\* The count of points is the sum over the readable files.
LEMMA CompletedIs ==
  ASSUME NEW n \in Nat, NEW points, \A w \in 1 .. n : points[w] \in Nat, NEW r
  PROVE  /\ AddsUp(PointsUpTo(points, n, r), Counts(points, n, r), n)
         /\ \A w \in 1 .. n : /\ Counts(points, n, r)[w] \in Nat
                              /\ Counts(points, n, r)[w] = IF w \in r THEN points[w] ELSE 0
<1>2. \A w \in 1 .. n : /\ Counts(points, n, r)[w] \in Nat
                        /\ Counts(points, n, r)[w] = IF w \in r THEN points[w] ELSE 0
  BY DEF Counts
<1>3. PICK g : AddsUp(g, Counts(points, n, r), n)
  BY <1>2, SumExists
<1>4. ASSUME NEW w \in 0 .. n
      PROVE  g[w] = IF w = 0 THEN 0 ELSE g[w - 1] + IF w \in r THEN points[w] ELSE 0
  <2>1. CASE w = 0
    BY <1>3, <2>1 DEF AddsUp
  <2>2. CASE w # 0
    <3>1. w \in 1 .. n
      BY <2>2
    <3> QED BY <1>2, <1>3, <2>2, <3>1 DEF AddsUp
  <2> QED BY <2>1, <2>2
<1>5. g = [w \in 0 .. n |->
             IF w = 0 THEN 0 ELSE g[w - 1] + IF w \in r THEN points[w] ELSE 0]
  <2>1. g = [w \in 0 .. n |-> g[w]]
    BY <1>3 DEF AddsUp
  <2> QED BY <1>4, <2>1
<1>6. PICK h : h = PointsUpTo(points, n, r)
  OBVIOUS
<1>7. h = [w \in 0 .. n |->
             IF w = 0 THEN 0 ELSE h[w - 1] + IF w \in r THEN points[w] ELSE 0]
  <2>1. PointsUpTo(points, n, r) = CHOOSE u : u = [w \in 0 .. n |->
             IF w = 0 THEN 0 ELSE u[w - 1] + IF w \in r THEN points[w] ELSE 0]
    BY DEF PointsUpTo
  <2> QED BY <1>5, <1>6, <2>1
<1>8. /\ h[0] = 0 /\ h = [w \in 0 .. n |-> h[w]]
      /\ \A w \in 1 .. n : h[w] = h[w - 1] + Counts(points, n, r)[w]
  <2>1. 0 \in 0 .. n /\ \A w \in 1 .. n : w \in 0 .. n /\ w # 0
    OBVIOUS
  <2>2. h[0] = 0
    BY <1>7, <2>1
  <2>3. \A w \in 1 .. n : h[w] = h[w - 1] + Counts(points, n, r)[w]
    BY <1>2, <1>7, <2>1
  <2>4. h = [w \in 0 .. n |-> h[w]]
    BY <1>7
  <2> QED BY <2>2, <2>3, <2>4
<1>9. \A w \in 0 .. n : h[w] \in Nat
  <2>1. PICK T : T = {w \in 0 .. n : h[w] \notin Nat}
    OBVIOUS
  <2>2. SUFFICES ASSUME T # {} PROVE FALSE
    BY <2>1
  <2>3. T \subseteq Nat
    BY <2>1
  <2>4. PICK t \in T : \A y \in T : t <= y
    BY <2>2, <2>3, LeastNat
  <2>5. t \in 0 .. n /\ h[t] \notin Nat
    BY <2>1
  <2>6. t # 0
    BY <1>8, <2>5
  <2>7. t \in 1 .. n /\ t - 1 \in 0 .. n /\ t - 1 \notin T
    BY <2>4, <2>5, <2>6
  <2>8. h[t - 1] \in Nat /\ Counts(points, n, r)[t] \in Nat /\ h[t] = h[t - 1] + Counts(points, n, r)[t]
    BY <1>2, <1>8, <2>1, <2>7
  <2> QED BY <2>5, <2>8
<1> QED BY <1>2, <1>6, <1>8, <1>9 DEF AddsUp

\* All files being readable, the count grows from file to file.
LEMMA AllReadable ==
  ASSUME NEW n \in Nat, NEW points, \A w \in 1 .. n : points[w] \in Nat,
         NEW W, W = PointsUpTo(points, n, 1 .. n)
  PROVE  /\ AddsUp(W, points, n) /\ \A w \in 0 .. n : W[w] \in Nat
         /\ \A a \in 0 .. n, b \in 0 .. n :
              a <= b => W[a] <= W[b] /\ ((\A w \in a + 1 .. b : points[w] = 0) => W[a] = W[b])
<1>1. /\ AddsUp(W, Counts(points, n, 1 .. n), n)
      /\ \A w \in 1 .. n : Counts(points, n, 1 .. n)[w] = points[w]
  BY CompletedIs
<1>2. AddsUp(W, points, n) /\ \A w \in 0 .. n : W[w] \in Nat
  BY <1>1 DEF AddsUp
<1>3. ASSUME NEW a \in 0 .. n, NEW b \in 0 .. n, a <= b
      PROVE  W[a] <= W[b] /\ ((\A w \in a + 1 .. b : points[w] = 0) => W[a] = W[b])
  <2>1. b \in a .. n
    BY <1>3
  <2> QED BY <1>2, <2>1, SumGrows
<1> QED BY <1>2, <1>3

\* One interval of the watchdog: s is the file in hand, r the readable ones.
LEMMA TickCounts ==
  ASSUME NEW n \in Nat, NEW points, \A w \in 1 .. n : points[w] \in Nat,
         NEW s \in 1 .. n, \A w \in s + 1 .. n : points[w] = 0,
         NEW W, W = PointsUpTo(points, n, 1 .. n),
         NEW r, r = 1 .. n \/ r = (1 .. n) \ {s},
         NEW c, c = PointsUpTo(points, n, r)[n]
  PROVE  /\ c \in Nat /\ c <= W[s]
         /\ \A w \in 1 .. s : w \in r => W[w] <= c
         /\ s \notin r /\ points[s] > 0 => c < W[s]
<1> DEFINE C == PointsUpTo(points, n, r)
           f == Counts(points, n, r)
<1>1. /\ AddsUp(W, points, n) /\ \A w \in 0 .. n : W[w] \in Nat
      /\ \A a \in 0 .. n, b \in 0 .. n :
           a <= b => W[a] <= W[b] /\ ((\A w \in a + 1 .. b : points[w] = 0) => W[a] = W[b])
  BY AllReadable
<1>2. /\ AddsUp(C, f, n)
      /\ \A w \in 1 .. n : f[w] \in Nat /\ f[w] = IF w \in r THEN points[w] ELSE 0
  BY CompletedIs
<1> HIDE DEF C, f
<1>3. c = C[n]
  BY DEF C
<1>4. \A w \in 0 .. n : C[w] \in Nat
  BY <1>2 DEF AddsUp
<1>5. s \in 0 .. n /\ n \in 0 .. n /\ s <= n
  OBVIOUS
<1>6. W[s] = W[n]
  BY <1>1, <1>5
<1>7. C[n] <= W[n]
  <2>1. \A w \in 1 .. n : f[w] \in Nat /\ points[w] \in Nat /\ f[w] <= points[w]
    BY <1>2
  <2> QED BY <1>1, <1>2, <1>5, <2>1, SumCompare
<1>8. ASSUME NEW w \in 1 .. s, w \in r PROVE W[w] <= c
  <2>1. CASE s \in r
    <3>1. r = 1 .. n
      BY <2>1
    <3>2. c = W[n]
      BY <3>1
    <3>3. w \in 0 .. n /\ w <= n
      BY <1>5
    <3> QED BY <1>1, <1>5, <3>2, <3>3
  <2>2. CASE s \notin r
    <3>1. w < s /\ w \in 0 .. n /\ n \in w .. n
      BY <1>8, <2>2
    <3>2. \A v \in 1 .. w : f[v] \in Nat /\ points[v] \in Nat /\ points[v] <= f[v]
      <4>1. \A v \in 1 .. w : v \in 1 .. n /\ v \in r
        BY <3>1
      <4> QED BY <1>2, <4>1
    <3>3. W[w] <= C[w]
      BY <1>1, <1>2, <3>1, <3>2, SumCompare
    <3>4. C[w] <= C[n]
      BY <1>2, <3>1, SumGrows
    <3> QED BY <1>1, <1>3, <1>4, <1>5, <3>1, <3>3, <3>4
  <2> QED BY <2>1, <2>2
<1>9. ASSUME s \notin r, points[s] > 0 PROVE c < W[s]
  <2>1. s - 1 \in 0 .. n /\ n \in s .. n
    OBVIOUS
  <2>2. \A v \in 1 .. s - 1 : f[v] \in Nat /\ points[v] \in Nat /\ f[v] <= points[v]
    <3>1. \A v \in 1 .. s - 1 : v \in 1 .. n
      OBVIOUS
    <3> QED BY <1>2, <3>1
  <2>3. C[s - 1] <= W[s - 1]
    BY <1>1, <1>2, <2>1, <2>2, SumCompare
  <2>4. C[s] = C[s - 1] + f[s] /\ W[s] = W[s - 1] + points[s]
    BY <1>1, <1>2 DEF AddsUp
  <2>5. f[s] = 0
    BY <1>2, <1>9
  <2>6. C[s] = C[n]
    <3>1. \A v \in s + 1 .. n : f[v] = 0
      <4>1. \A v \in s + 1 .. n : v \in 1 .. n
        OBVIOUS
      <4> QED BY <1>2, <4>1
    <3> QED BY <1>2, <1>5, <2>1, <3>1, SumGrows
  <2> QED BY <1>1, <1>3, <1>4, <1>9, <2>1, <2>3, <2>4, <2>5, <2>6
<1> QED BY <1>3, <1>4, <1>5, <1>6, <1>7, <1>8, <1>9

\* A point more in file s.
LEMMA PointMore ==
  ASSUME NEW n \in Nat, NEW points, NEW more, NEW s \in 1 .. n,
         \A w \in 1 .. n : points[w] \in Nat,
         more[s] = points[s] + 1, \A w \in (1 .. n) \ {s} : more[w] = points[w],
         NEW W, W = PointsUpTo(points, n, 1 .. n), NEW V, V = PointsUpTo(more, n, 1 .. n)
  PROVE  V[s] = W[s] + 1 /\ \A w \in 0 .. s - 1 : V[w] = W[w]
<1>1. \A w \in 1 .. n : more[w] \in Nat
  OBVIOUS
<1>2. AddsUp(W, points, n) /\ \A w \in 0 .. n : W[w] \in Nat
  BY AllReadable
<1>3. AddsUp(V, more, n) /\ \A w \in 0 .. n : V[w] \in Nat
  BY <1>1, AllReadable
<1>4. ASSUME NEW w \in 0 .. s - 1 PROVE V[w] = W[w]
  <2>1. w \in 0 .. n
    OBVIOUS
  <2>2. \A v \in 1 .. w : v \in (1 .. n) \ {s}
    OBVIOUS
  <2>3. \A v \in 1 .. w : points[v] \in Nat /\ more[v] \in Nat /\ points[v] <= more[v]
    BY <1>1, <2>2
  <2>4. \A v \in 1 .. w : points[v] \in Nat /\ more[v] \in Nat /\ more[v] <= points[v]
    BY <1>1, <2>2
  <2>5. W[w] <= V[w]
    BY <1>2, <1>3, <2>1, <2>3, SumCompare
  <2>6. V[w] <= W[w]
    BY <1>2, <1>3, <2>1, <2>4, SumCompare
  <2> QED BY <1>2, <1>3, <2>1, <2>5, <2>6
<1>5. V[s] = V[s - 1] + more[s] /\ W[s] = W[s - 1] + points[s]
  BY <1>2, <1>3 DEF AddsUp
<1>6. s - 1 \in 0 .. n /\ s - 1 \in 0 .. s - 1
  OBVIOUS
<1>7. V[s - 1] = W[s - 1] /\ W[s - 1] \in Nat
  BY <1>2, <1>4, <1>6
<1> QED BY <1>4, <1>5, <1>7

-----------------------------------------------------------------------------
(* The watchdog's patience *)

\* The points of the script's partial files, up to each file.
Written == PointsUpTo(partial[Exp], Files[Exp], WorkloadsOf(Exp))

(***************************************************************************)
(* What the watchdog has counted, if the attempt began without points: the *)
(* files grow one after the other, so a point it has not seen takes the    *)
(* files up to that one beyond its count.                                  *)
(***************************************************************************)
CountConnecting ==
  /\ \A w \in WorkloadsOf(Exp) : partial[Exp][w] = 0
  /\ quiet.news = {} /\ wd.last = 0

CountRunning ==
  /\ script.w \in WorkloadsOf(Exp) /\ partial[Exp][script.w] = script.n
  /\ \A w \in WorkloadsOf(Exp) : w > script.w => partial[Exp][w] = 0
  /\ quiet.news \subseteq 1 .. script.w /\ wd.last <= Written[script.w]
  /\ \A w \in quiet.news : partial[Exp][w] > 0 /\ wd.last < Written[w]

CountInv ==
  /\ proc = "connecting" => CountConnecting
  /\ proc \in {"running", "hung"} => CountRunning

CountersOK ==
  /\ DOMAIN quiet = {"intervals", "news"} /\ quiet.intervals \in Nat
  /\ wd.last \in Nat /\ wd.base \in Nat
  /\ wd.at = "waiting" => pc \in Waiting
  /\ wd.at \in {"waiting", "probing"} => wd.killed = FALSE

\* The stall counter never runs ahead of the intervals without a new point.
Patient ==
  wd.base = 0 =>
    /\ wd.at = "waiting" => wd.stall <= quiet.intervals /\ CountInv
    /\ wd.at = "probing" \/ wd.killed = TRUE => quiet.intervals >= StallFactor

PatienceInv == CountersOK /\ Patient

\* Steps that leave the watchdog, the observer and the files of a watched
\* script alone.
LEMMA PatienceFrame ==
  ASSUME PatienceInv, UNCHANGED <<wd, quiet>>,
         wd.at = "waiting" =>
           /\ pc' \in Waiting /\ UNCHANGED <<cur, partial, script>>
           /\ proc' = proc \/ proc' \notin Alive \/ (proc = "running" /\ proc' = "hung")
  PROVE  PatienceInv'
<1>1. CountersOK'
  BY DEF PatienceInv, CountersOK
<1>2. ASSUME wd.at = "waiting", CountInv PROVE CountInv'
  <2>1. UNCHANGED <<Exp, Written, partial, script, quiet, wd>>
    BY <1>2 DEF Exp, Written, WorkloadsOf
  <2>2. UNCHANGED <<CountConnecting, CountRunning>>
    <3>1. CountConnecting' = CountConnecting
      BY <2>1 DEF CountConnecting, WorkloadsOf
    <3>2. CountRunning' = CountRunning
      BY <2>1 DEF CountRunning, WorkloadsOf
    <3> QED BY <3>1, <3>2
  <2> QED BY <1>2, <2>2 DEF CountInv, Alive
<1>3. Patient'
  BY <1>2 DEF PatienceInv, Patient
<1> QED BY <1>1, <1>3 DEF PatienceInv

\* The runner tells the watchdog to stop.
LEMMA PatienceStop ==
  ASSUME PatienceInv, WatchdogOK, StopWatchdog, UNCHANGED quiet
  PROVE  PatienceInv'
<1>1. /\ wd'.at = IF wd.at = "waiting" THEN "ended" ELSE wd.at
      /\ wd'.last = wd.last /\ wd'.base = wd.base /\ wd'.killed = wd.killed
  BY DEF StopWatchdog, WatchdogOK, NoWatchdog
<1>2. wd'.at # "waiting" /\ (wd'.at = "probing" => wd.at = "probing")
  BY <1>1
<1>3. CountersOK'
  BY <1>1, <1>2 DEF PatienceInv, CountersOK
<1>4. Patient'
  BY <1>1, <1>2 DEF PatienceInv, Patient
<1> QED BY <1>3, <1>4 DEF PatienceInv

\* The watchdog's verdict.
LEMMA PatienceVerdict ==
  ASSUME PatienceInv, WatchdogOK, NEW n, WatchdogVerdict(n)
  PROVE  PatienceInv'
<1>1. /\ wd'.at = "ended" /\ wd'.last = wd.last /\ wd'.base = wd.base
      /\ wd.at = "probing" /\ quiet' = quiet
  BY DEF WatchdogVerdict, WatchdogOK, NoWatchdog
<1>2. CountersOK'
  BY <1>1 DEF PatienceInv, CountersOK
<1>3. Patient'
  BY <1>1 DEF PatienceInv, Patient
<1> QED BY <1>2, <1>3 DEF PatienceInv

\* The points of a script's partial files are numbers.
LEMMA FilePoints ==
  ASSUME RunnerOK, FilesOK, cur <= Len(Campaign)
  PROVE  /\ Files[Exp] \in Nat \ {0} /\ Points[Exp] \in Nat \ {0}
         /\ WorkloadsOf(Exp) = 1 .. Files[Exp]
         /\ \A w \in 1 .. Files[Exp] : partial[Exp][w] \in Nat
<1>1. Exp \in Exps /\ Files[Exp] \in Nat \ {0} /\ Points[Exp] \in Nat \ {0}
  BY ExpFacts
<1>2. partial[Exp] \in [WorkloadsOf(Exp) -> 0 .. Points[Exp]]
  BY <1>1 DEF FilesOK
<1> QED BY <1>1, <1>2 DEF WorkloadsOf

\* An attempt starts: a count of zero points means that there are none.
LEMMA PatienceStart ==
  ASSUME RunnerOK, FilesOK, StartAttempt
  PROVE  PatienceInv'
<1>1. cur <= Len(Campaign)
  BY DEF StartAttempt, RunnerOK, Attempting
<1>2. /\ Files[Exp] \in Nat \ {0} /\ WorkloadsOf(Exp) = 1 .. Files[Exp]
      /\ \A w \in 1 .. Files[Exp] : partial[Exp][w] \in Nat
  BY <1>1, FilePoints
<1>3. quiet' = [intervals |-> 0, news |-> {}] /\ pc' = "wait" /\ proc' = "connecting"
      /\ UNCHANGED <<cur, partial>>
  BY DEF StartAttempt
<1>4. CASE Exp \notin LongRunning
  <2>1. wd' = NoWatchdog
    BY <1>4 DEF StartAttempt
  <2>2. wd'.at = "off" /\ wd'.last = 0 /\ wd'.base = 0 /\ wd'.killed = FALSE
    BY <2>1 DEF NoWatchdog
  <2> QED BY <1>3, <2>2 DEF PatienceInv, CountersOK, Patient
<1>5. CASE Exp \in LongRunning
  <2>1. PICK W : W = PointsUpTo(partial[Exp], Files[Exp], 1 .. Files[Exp])
    OBVIOUS
  <2>2. PICK points : points = W[Files[Exp]]
    OBVIOUS
  <2>3. wd' = [NoWatchdog EXCEPT !.at = "waiting", !.last = points, !.base = points]
    BY <1>2, <1>5, <2>1, <2>2 DEF StartAttempt, TotalCompletedPoints
  <2>4. wd'.at = "waiting" /\ wd'.last = points /\ wd'.base = points /\ wd'.stall = 0
        /\ wd'.killed = FALSE
    BY <2>3 DEF NoWatchdog
  <2>5. /\ AddsUp(W, partial[Exp], Files[Exp]) /\ \A w \in 0 .. Files[Exp] : W[w] \in Nat
        /\ \A a \in 0 .. Files[Exp], b \in 0 .. Files[Exp] : a <= b => W[a] <= W[b]
    BY <1>2, <2>1, AllReadable
  <2>6. points \in Nat
    BY <1>2, <2>2, <2>5
  <2>7. ASSUME points = 0, NEW w \in 1 .. Files[Exp] PROVE partial[Exp][w] = 0
    <3>1. w \in 0 .. Files[Exp] /\ w - 1 \in 0 .. Files[Exp] /\ Files[Exp] \in 0 .. Files[Exp] /\ w <= Files[Exp]
      BY <1>2
    <3>2. W[w] = W[w - 1] + partial[Exp][w]
      BY <2>5 DEF AddsUp
    <3>3. W[w] <= 0 /\ W[w] \in Nat /\ W[w - 1] \in Nat
      BY <2>2, <2>5, <2>7, <3>1
    <3> QED BY <1>2, <3>2, <3>3
  <2>8. UNCHANGED Exp
    BY <1>3 DEF Exp
  <2>9. points = 0 => CountConnecting'
    BY <1>2, <1>3, <2>4, <2>7, <2>8 DEF CountConnecting
  <2>10. CountersOK'
    BY <1>3, <2>4, <2>6 DEF CountersOK, Waiting
  <2>11. Patient'
    BY <1>3, <2>4, <2>9 DEF Patient, CountInv
  <2> QED BY <2>10, <2>11 DEF PatienceInv
<1> QED BY <1>4, <1>5

\* The script begins its first workload, or goes on to the next one.
LEMMA PatienceNextFile ==
  ASSUME PatienceInv, RunnerOK, FilesOK, cur <= Len(Campaign),
         UNCHANGED <<wd, quiet, pc, cur, partial>>,
         NEW w \in WorkloadsOf(Exp), script' = [w |-> w, n |-> 0],
         \/ proc = "connecting" /\ w = 1
         \/ proc = "running" /\ w = script.w + 1,
         proc' = "running"
  PROVE  PatienceInv'
<1>0. /\ Files[Exp] \in Nat \ {0} /\ WorkloadsOf(Exp) = 1 .. Files[Exp]
      /\ \A v \in 1 .. Files[Exp] : partial[Exp][v] \in Nat
      /\ script.w \in Nat \ {0} /\ script'.w = w /\ script'.n = 0
  BY FilePoints DEF FilesOK
<1>1. CountersOK'
  BY DEF PatienceInv, CountersOK
<1>2. UNCHANGED <<Exp, Written>> /\ Written = PointsUpTo(partial[Exp], Files[Exp], 1 .. Files[Exp])
  BY <1>0 DEF Exp, Written, WorkloadsOf
<1>3. PICK W : W = Written
  OBVIOUS
<1>4. /\ \A v \in 0 .. Files[Exp] : W[v] \in Nat
      /\ \A a \in 0 .. Files[Exp], b \in 0 .. Files[Exp] : a <= b => W[a] <= W[b]
  BY <1>0, <1>2, <1>3, AllReadable
<1>5. ASSUME wd.base = 0, wd.at = "waiting" PROVE CountRunning'
  <2>1. CountInv
    BY <1>5 DEF PatienceInv, Patient
  <2>2. wd.last \in Nat
    BY DEF PatienceInv, CountersOK
  <2>3. CASE proc = "connecting" /\ w = 1
    <3>1. CountConnecting
      BY <2>1, <2>3 DEF CountInv
    <3>2. w \in 0 .. Files[Exp]
      BY <1>0
    <3> QED BY <1>0, <1>2, <1>3, <1>4, <2>2, <2>3, <3>1, <3>2 DEF CountConnecting, CountRunning
  <2>4. CASE proc = "running" /\ w = script.w + 1
    <3>1. CountRunning
      BY <2>1, <2>4 DEF CountInv
    <3>2. w \in 0 .. Files[Exp] /\ script.w \in 0 .. Files[Exp] /\ script.w <= w
      BY <1>0, <2>4
    <3>3. W[script.w] <= W[w] /\ W[script.w] \in Nat /\ W[w] \in Nat
      BY <1>4, <3>2
    <3>4. wd.last <= W[w]
      BY <1>3, <2>2, <3>1, <3>3 DEF CountRunning
    <3>5. partial[Exp][w] = 0 /\ \A v \in WorkloadsOf(Exp) : v > w => partial[Exp][v] = 0
      BY <1>0, <2>4, <3>1 DEF CountRunning
    <3>6. quiet.news \subseteq 1 .. w
      <4>1. 1 .. script.w \subseteq 1 .. w
        BY <1>0, <2>4
      <4> QED BY <3>1, <4>1 DEF CountRunning
    <3>7. \A v \in quiet.news : partial[Exp][v] > 0 /\ wd.last < W[v]
      BY <1>3, <3>1 DEF CountRunning
    <3> QED BY <1>0, <1>2, <1>3, <3>4, <3>5, <3>6, <3>7 DEF CountRunning
  <2> QED BY <2>3, <2>4
<1>6. wd.base = 0 /\ wd.at = "waiting" => CountInv'
  BY <1>5 DEF CountInv
<1>7. Patient'
  BY <1>6 DEF PatienceInv, Patient
<1> QED BY <1>1, <1>7 DEF PatienceInv

\* The script writes a point.
LEMMA PatiencePoint ==
  ASSUME PatienceInv, RunnerOK, FilesOK, Handshake, FinishPoint
  PROVE  PatienceInv'
<1>0. /\ proc = "running" /\ proc' = "running" /\ UNCHANGED <<wd, pc, cur>>
      /\ script'.w = script.w /\ script'.n = script.n + 1
      /\ partial' = [partial EXCEPT ![Exp][script.w] = script.n + 1]
      /\ quiet'.intervals = quiet.intervals /\ quiet'.news = quiet.news \cup {script.w}
      /\ DOMAIN quiet' = {"intervals", "news"}
  BY DEF FinishPoint, runnerVars, FilesOK, PatienceInv, CountersOK
<1>1. Exp \in Exps /\ cur <= Len(Campaign)
  BY <1>0, AliveExp, CampaignLength DEF Alive, Handshake, RunnerOK, Attempting, Waiting
<1>2. /\ Files[Exp] \in Nat \ {0} /\ WorkloadsOf(Exp) = 1 .. Files[Exp]
      /\ \A v \in 1 .. Files[Exp] : partial[Exp][v] \in Nat
      /\ script.w \in Nat \ {0} /\ script.n \in Nat
  BY <1>1, FilePoints DEF FilesOK
<1>3. CountersOK'
  BY <1>0 DEF PatienceInv, CountersOK
<1>4. UNCHANGED Exp
  BY <1>0 DEF Exp
<1>5. PICK W : W = PointsUpTo(partial[Exp], Files[Exp], 1 .. Files[Exp])
  OBVIOUS
<1>6. PICK V : V = PointsUpTo(partial'[Exp], Files[Exp], 1 .. Files[Exp])
  OBVIOUS
<1>7. Written = W /\ Written' = V
  BY <1>2, <1>4, <1>5, <1>6 DEF Written, WorkloadsOf
<1>8. ASSUME wd.base = 0, wd.at = "waiting" PROVE CountRunning'
  <2>1. CountRunning
    BY <1>0, <1>8 DEF PatienceInv, Patient, CountInv
  <2>2. /\ script.w \in 1 .. Files[Exp] /\ partial[Exp][script.w] = script.n
        /\ \A v \in 1 .. Files[Exp] : v > script.w => partial[Exp][v] = 0
        /\ quiet.news \subseteq 1 .. script.w /\ wd.last <= W[script.w] /\ wd.last \in Nat
        /\ \A v \in quiet.news : partial[Exp][v] > 0 /\ wd.last < W[v]
    BY <1>2, <1>7, <2>1 DEF CountRunning, PatienceInv, CountersOK
  <2>3. /\ partial'[Exp][script.w] = partial[Exp][script.w] + 1
        /\ \A v \in (1 .. Files[Exp]) \ {script.w} : partial'[Exp][v] = partial[Exp][v]
    <3>1. partial[Exp] \in [1 .. Files[Exp] -> 0 .. Points[Exp]] /\ DOMAIN partial = Exps
      BY <1>1, <1>2 DEF FilesOK
    <3>2. partial'[Exp] = [partial[Exp] EXCEPT ![script.w] = script.n + 1]
      BY <1>0, <1>1, <3>1
    <3> QED BY <2>2, <3>1, <3>2
  <2>4. V[script.w] = W[script.w] + 1 /\ \A v \in 0 .. script.w - 1 : V[v] = W[v]
    <3>1. PICK p, q, s, n : p = partial[Exp] /\ q = partial'[Exp] /\ s = script.w /\ n = Files[Exp]
      OBVIOUS
    <3>2. /\ n \in Nat /\ s \in 1 .. n /\ \A v \in 1 .. n : p[v] \in Nat
          /\ q[s] = p[s] + 1 /\ \A v \in (1 .. n) \ {s} : q[v] = p[v]
          /\ W = PointsUpTo(p, n, 1 .. n) /\ V = PointsUpTo(q, n, 1 .. n)
      BY <1>2, <1>5, <1>6, <2>2, <2>3, <3>1
    <3>3. V[s] = W[s] + 1 /\ \A v \in 0 .. s - 1 : V[v] = W[v]
      BY <3>2, PointMore
    <3> QED BY <3>1, <3>3
  <2>5. W[script.w] \in Nat
    <3>1. script.w \in 0 .. Files[Exp]
      BY <2>2
    <3> QED BY <1>2, <1>5, <3>1, AllReadable
  <2>6. wd.last <= V[script.w] /\ wd.last < V[script.w]
    BY <2>2, <2>4, <2>5
  <2>7. ASSUME NEW v \in quiet'.news PROVE partial'[Exp][v] > 0 /\ wd.last < V[v]
    <3>1. CASE v = script.w
      BY <1>2, <2>2, <2>3, <2>6, <3>1
    <3>2. CASE v # script.w
      <4>1. v \in quiet.news /\ v \in 1 .. script.w
        BY <1>0, <2>2, <3>2
      <4>2. v \in 0 .. script.w - 1 /\ v \in (1 .. Files[Exp]) \ {script.w}
        BY <1>2, <2>2, <3>2, <4>1
      <4> QED BY <2>2, <2>3, <2>4, <4>1, <4>2
    <3> QED BY <3>1, <3>2
  <2>8. quiet'.news \subseteq 1 .. script.w
    BY <1>0, <1>2, <2>2
  <2>9. \A v \in 1 .. Files[Exp] : v > script.w => partial'[Exp][v] = 0
    <3>1. \A v \in 1 .. Files[Exp] : v > script.w => v \in (1 .. Files[Exp]) \ {script.w}
      BY <1>2
    <3> QED BY <2>2, <2>3, <3>1
  <2> QED BY <1>0, <1>2, <1>4, <1>7, <2>2, <2>3, <2>6, <2>7, <2>8, <2>9 DEF CountRunning
<1>9. wd.base = 0 /\ wd.at = "waiting" => CountInv'
  BY <1>0, <1>8 DEF CountInv
<1>10. Patient'
  BY <1>0, <1>9 DEF PatienceInv, Patient
<1> QED BY <1>3, <1>10 DEF PatienceInv

\* An interval of the watchdog while the script lives: what it counts, and what
\* becomes of the files with new points.
LEMMA PatienceTickCount ==
  ASSUME RunnerOK, FilesOK, Handshake, CountInv, proc \in Alive, wd.last \in Nat,
         NEW r, r = WorkloadsOf(Exp) \/ (r = WorkloadsOf(Exp) \ {script.w} /\ proc = "running"),
         NEW c, c = TotalCompletedPoints(Exp, r),
         wd'.last = IF c > wd.last THEN c ELSE wd.last,
         quiet'.news = quiet.news \ r, UNCHANGED <<cur, scriptVars>>
  PROVE  c \in Nat /\ CountInv' /\ (quiet.news \cap r # {} => c > wd.last)
<1>0. cur <= Len(Campaign)
  BY AliveExp DEF Handshake, RunnerOK, Attempting, Waiting
<1>1. /\ Files[Exp] \in Nat \ {0} /\ WorkloadsOf(Exp) = 1 .. Files[Exp]
      /\ \A v \in 1 .. Files[Exp] : partial[Exp][v] \in Nat
      /\ script.w \in Nat \ {0}
  BY <1>0, FilePoints DEF FilesOK
<1>2. UNCHANGED <<Exp, Written, proc, script, partial>>
  BY DEF Exp, Written, WorkloadsOf, scriptVars
<1>3. PICK p, s, n, W : p = partial[Exp] /\ s = script.w /\ n = Files[Exp] /\ W = Written
  OBVIOUS
<1>4. /\ n \in Nat /\ n # 0 /\ \A v \in 1 .. n : p[v] \in Nat
      /\ W = PointsUpTo(p, n, 1 .. n) /\ c = PointsUpTo(p, n, r)[n]
      /\ WorkloadsOf(Exp) = 1 .. n
  BY <1>1, <1>3 DEF Written, TotalCompletedPoints
<1>5. CASE proc = "connecting"
  <2>1. CountConnecting
    BY <1>5 DEF CountInv
  <2>2. \A v \in 1 .. n : p[v] = 0
    BY <1>3, <1>4, <2>1 DEF CountConnecting
  <2>3. c = W[n]
    BY <1>4, <1>5
  <2>4. W[0] = 0 /\ W[n] \in Nat /\ W[0] = W[n]
    <3>1. /\ AddsUp(W, p, n) /\ \A w \in 0 .. n : W[w] \in Nat
          /\ \A a \in 0 .. n, b \in 0 .. n : a <= b => ((\A w \in a + 1 .. b : p[w] = 0) => W[a] = W[b])
      BY <1>4, AllReadable
    <3>2. 0 \in 0 .. n /\ n \in 0 .. n /\ 0 <= n /\ \A w \in 0 + 1 .. n : p[w] = 0
      BY <1>4, <2>2
    <3> QED BY <3>1, <3>2 DEF AddsUp
  <2>5. c = 0 /\ wd'.last = wd.last /\ quiet'.news = {} /\ quiet.news = {}
    BY <2>1, <2>3, <2>4 DEF CountConnecting
  <2>6. CountConnecting'
    BY <1>2, <2>1, <2>5 DEF CountConnecting, WorkloadsOf
  <2> QED BY <1>2, <1>5, <2>5, <2>6 DEF CountInv
<1>6. CASE proc \in {"running", "hung"}
  <2>1. CountRunning
    BY <1>6 DEF CountInv
  <2>2. /\ s \in 1 .. n /\ p[s] = script.n
        /\ \A v \in 1 .. n : v > s => p[v] = 0
        /\ quiet.news \subseteq 1 .. s /\ wd.last <= W[s]
        /\ \A v \in quiet.news : p[v] > 0 /\ wd.last < W[v]
    BY <1>3, <1>4, <2>1 DEF CountRunning
  <2>3. r = 1 .. n \/ r = (1 .. n) \ {s}
    BY <1>3, <1>4
  <2>4. \A v \in s + 1 .. n : p[v] = 0
    <3>1. \A v \in s + 1 .. n : v \in 1 .. n /\ v > s
      BY <1>4, <2>2
    <3> QED BY <2>2, <3>1
  <2>5. /\ c \in Nat /\ c <= W[s]
        /\ \A w \in 1 .. s : w \in r => W[w] <= c
        /\ s \notin r /\ p[s] > 0 => c < W[s]
    BY <1>4, <2>2, <2>3, <2>4, TickCounts
  <2>6. \A v \in 0 .. n : W[v] \in Nat
    BY <1>4, AllReadable
  <2>7. ASSUME NEW v \in quiet.news, v \in r PROVE c > wd.last
    <3>1. v \in 1 .. s /\ v \in 0 .. n
      BY <1>4, <2>2
    <3> QED BY <2>2, <2>5, <2>6, <2>7, <3>1
  <2>8. wd'.last <= W[s] /\ wd'.last \in Nat
    BY <2>2, <2>5
  <2>9. ASSUME NEW v \in quiet'.news PROVE p[v] > 0 /\ wd'.last < W[v]
    <3>1. v \in quiet.news /\ v \notin r /\ v \in 1 .. s
      BY <2>2
    <3>2. v = s
      BY <1>4, <2>2, <2>3, <3>1
    <3> QED BY <2>2, <2>5, <3>1, <3>2
  <2>10. quiet'.news \subseteq 1 .. s
    BY <2>2
  <2>11. CountRunning'
    BY <1>2, <1>3, <1>4, <2>2, <2>8, <2>9, <2>10 DEF CountRunning
  <2> QED BY <1>2, <1>6, <2>5, <2>7, <2>11 DEF CountInv
<1> QED BY <1>5, <1>6 DEF Alive

\* An interval of the watchdog.
LEMMA PatienceTick ==
  ASSUME PatienceInv, RunnerOK, FilesOK, WatchdogOK, Handshake, WatchdogTick
  PROVE  PatienceInv'
<1>1. wd.at = "waiting" /\ pc \in Waiting /\ UNCHANGED <<pc, cur, scriptVars>> /\ cur <= Len(Campaign)
  BY DEF WatchdogTick, PatienceInv, CountersOK, runnerVars, RunnerOK, Attempting, Waiting
<1>2. CASE Finished(proc)
  <2>1. wd' = [wd EXCEPT !.at = "ended"] /\ UNCHANGED quiet
    BY <1>2 DEF WatchdogTick
  <2>2. wd'.at = "ended" /\ wd'.last = wd.last /\ wd'.base = wd.base /\ wd'.killed = wd.killed
    BY <2>1 DEF WatchdogOK, NoWatchdog
  <2>3. wd.killed = FALSE
    BY <1>1 DEF PatienceInv, CountersOK
  <2> QED BY <2>1, <2>2, <2>3 DEF PatienceInv, CountersOK, Patient
<1>3. CASE ~Finished(proc)
  <2>1. proc \in Alive
    BY <1>1, <1>3 DEF Finished, FilesOK, Handshake, Attempting, Waiting, Statuses
  <2>2. PICK r, c :
          /\ r = WorkloadsOf(Exp) \/ (r = WorkloadsOf(Exp) \ {script.w} /\ proc = "running")
          /\ c = TotalCompletedPoints(Exp, r)
          /\ wd' = IF c > wd.last THEN Progress(wd, c) ELSE NoProgress(wd)
          /\ quiet' = [intervals |-> IF quiet.news \cap r # {} THEN 0 ELSE quiet.intervals + 1,
                       news |-> quiet.news \ r]
    BY <1>3 DEF WatchdogTick
  <2>3. /\ quiet'.intervals = IF quiet.news \cap r # {} THEN 0 ELSE quiet.intervals + 1
        /\ quiet'.news = quiet.news \ r /\ DOMAIN quiet' = {"intervals", "news"}
    BY <2>2
  <2>4. /\ wd.killed = FALSE /\ wd.last \in Nat /\ wd.base \in Nat /\ quiet.intervals \in Nat
        /\ wd.stall \in Nat
    BY <1>1, BoundsAssumption DEF PatienceInv, CountersOK, WatchdogOK
  <2>5. /\ wd'.base = wd.base /\ wd'.killed = wd.killed
        /\ wd'.last = IF c > wd.last THEN c ELSE wd.last
        /\ wd'.stall = IF c > wd.last THEN 0 ELSE wd.stall + 1
        /\ wd'.at = IF c > wd.last \/ wd.stall + 1 < StallFactor THEN "waiting" ELSE "probing"
    <3>1. CASE c > wd.last
      BY <1>1, <2>2, <3>1 DEF Progress, WatchdogOK, NoWatchdog
    <3>2. CASE ~(c > wd.last)
      BY <1>1, <2>2, <2>4, <3>2, BoundsAssumption DEF NoProgress, WatchdogOK, NoWatchdog
    <3> QED BY <3>1, <3>2
  <2>6. c \in Nat
    <3>1. /\ Files[Exp] \in Nat \ {0} /\ \A w \in 1 .. Files[Exp] : partial[Exp][w] \in Nat
      BY <1>1, FilePoints
    <3>2. Files[Exp] \in 0 .. Files[Exp]
      BY <3>1
    <3>3. AddsUp(PointsUpTo(partial[Exp], Files[Exp], r), Counts(partial[Exp], Files[Exp], r), Files[Exp])
      BY <3>1, CompletedIs
    <3> QED BY <2>2, <3>2, <3>3 DEF TotalCompletedPoints, AddsUp
  <2>7. CountersOK'
    <3>1. quiet'.intervals \in Nat /\ wd'.last \in Nat
      BY <2>3, <2>4, <2>5, <2>6
    <3> QED BY <1>1, <2>3, <2>4, <2>5, <3>1 DEF CountersOK
  <2>8. ASSUME wd.base = 0
        PROVE  wd'.stall <= quiet'.intervals /\ CountInv' /\ (wd'.at = "probing" => quiet'.intervals >= StallFactor)
    <3>1. wd.stall <= quiet.intervals /\ CountInv
      BY <1>1, <2>8 DEF PatienceInv, Patient
    <3>2. CountInv' /\ (quiet.news \cap r # {} => c > wd.last)
      BY <1>1, <2>1, <2>2, <2>3, <2>4, <2>5, <3>1, PatienceTickCount
    <3>3. CASE c > wd.last
      BY <2>3, <2>4, <2>5, <3>2, <3>3
    <3>4. CASE ~(c > wd.last)
      <4>1. quiet'.intervals = quiet.intervals + 1 /\ wd'.stall = wd.stall + 1
        BY <2>3, <2>5, <3>2, <3>4
      <4>2. wd'.at = "probing" => wd.stall + 1 >= StallFactor
        BY <2>4, <2>5, BoundsAssumption
      <4> QED BY <2>4, <3>1, <3>2, <4>1, <4>2, BoundsAssumption
    <3> QED BY <3>3, <3>4
  <2>9. Patient'
    BY <2>4, <2>5, <2>8 DEF Patient
  <2> QED BY <2>7, <2>9 DEF PatienceInv
<1> QED BY <1>2, <1>3

\* Every step keeps the count behind the points that are there.
LEMMA StepPatience ==
  ASSUME PatienceInv, RunnerInv, [Next]_vars
  PROVE  PatienceInv'
<1> RunnerOK /\ FilesOK /\ WatchdogOK /\ Handshake /\ ScriptInv
  BY DEF RunnerInv, TypeInv
<1> wd.at = "waiting" => pc \in Waiting
  BY DEF PatienceInv, CountersOK
<1>1. CASE ScriptConnects
  <2>1. cur <= Len(Campaign) /\ 1 \in WorkloadsOf(Exp)
    <3>1. cur <= Len(Campaign)
      BY <1>1 DEF ScriptConnects, Handshake, Alive, RunnerOK, Attempting, Waiting
    <3> QED BY <3>1, FilePoints
  <2>2. /\ UNCHANGED <<wd, quiet, pc, cur, partial>> /\ script' = [w |-> 1, n |-> 0]
        /\ proc = "connecting" /\ proc' = "running"
    BY <1>1 DEF ScriptConnects, runnerVars
  <2> QED BY <2>1, <2>2, PatienceNextFile
<1>2. CASE ScriptCannotConnect
  BY <1>2, PatienceFrame DEF ScriptCannotConnect, runnerVars, Alive
<1>3. CASE FinishPoint
  BY <1>3, PatiencePoint
<1>4. CASE FinishWorkload
  <2>1. CASE script.w = Files[Exp]
    BY <1>4, <2>1, PatienceFrame DEF FinishWorkload, runnerVars, Alive
  <2>2. CASE script.w # Files[Exp]
    <3>1. /\ UNCHANGED <<wd, quiet, pc, cur, partial>> /\ script' = [w |-> script.w + 1, n |-> 0]
          /\ proc = "running" /\ proc' = "running"
      BY <1>4, <2>2 DEF FinishWorkload, runnerVars
    <3>2. cur <= Len(Campaign)
      BY <3>1 DEF Handshake, Alive, RunnerOK, Attempting, Waiting
    <3>3. script.w + 1 \in WorkloadsOf(Exp)
      <4>1. Files[Exp] \in Nat /\ WorkloadsOf(Exp) = 1 .. Files[Exp]
        BY <3>2, FilePoints
      <4>2. script.w \in WorkloadsOf(Exp)
        BY <3>1 DEF ScriptInv
      <4> QED BY <2>2, <4>1, <4>2
    <3> QED BY <3>1, <3>2, <3>3, PatienceNextFile
  <2> QED BY <2>1, <2>2
<1>5. CASE ScriptDies
  BY <1>5, PatienceFrame DEF ScriptDies, runnerVars, Alive
<1>6. CASE ScriptHangs
  BY <1>6, PatienceFrame DEF ScriptHangs, runnerVars
<1>7. CASE NodeFails
  BY <1>7, PatienceFrame DEF NodeFails, runnerVars, scriptVars
<1>8. CASE WatchdogTick
  BY <1>8, PatienceTick
<1>9. CASE WatchdogSystemic \/ WatchdogTransient
  BY <1>9, PatienceVerdict DEF WatchdogSystemic, WatchdogTransient
<1>10. CASE SkipMissing
  BY <1>10, PatienceFrame DEF SkipMissing, Waiting
<1>11. CASE StartAttempt
  BY <1>11, PatienceStart
<1>12. CASE RunSucceeds
  BY <1>12, PatienceStop DEF RunSucceeds
<1>13. CASE RunFails
  BY <1>13, PatienceStop DEF RunFails
<1>14. CASE RunTimesOut
  BY <1>14, PatienceFrame DEF RunTimesOut, Waiting
<1>15. CASE JoinNoFailure
  BY <1>15, PatienceFrame DEF JoinNoFailure, Waiting
<1>16. CASE ReconfigureTooSmall
  BY <1>16, PatienceFrame DEF ReconfigureTooSmall, Waiting
<1>17. CASE ReconfigureCluster
  BY <1>17, PatienceFrame DEF ReconfigureCluster, Waiting
<1>18. CASE Return
  BY <1>18, PatienceFrame DEF Return, Waiting
<1>19. CASE CleanupAndRetry
  BY <1>19, PatienceFrame DEF CleanupAndRetry, Waiting
<1>20. CASE FinalSync
  BY <1>20, PatienceFrame DEF FinalSync, Waiting
<1>21. CASE UNCHANGED vars
  BY <1>21, PatienceFrame DEF vars
<1>22. CASE KillTimedOut
  BY <1>22, PatienceStop DEF KillTimedOut
<1> QED
  BY <1>1, <1>2, <1>3, <1>4, <1>5, <1>6, <1>7, <1>8, <1>9, <1>10, <1>11, <1>12, <1>13, <1>14, <1>15,
     <1>16, <1>17, <1>18, <1>19, <1>20, <1>21, <1>22
  DEF Next, Script, Watchdog, Runner, Ended

\* The count of the watchdog stays behind the points that are there.
THEOREM PatienceInvariant == Spec => []PatienceInv
<1>1. Init => PatienceInv
  <2>1. SUFFICES ASSUME Init PROVE PatienceInv
    OBVIOUS
  <2>2. wd.at = "off" /\ wd.last = 0 /\ wd.base = 0 /\ wd.killed = FALSE /\ quiet = [intervals |-> 0, news |-> {}]
    BY <2>1 DEF Init, NoWatchdog
  <2> QED BY <2>2 DEF PatienceInv, CountersOK, Patient
<1>2. PatienceInv /\ RunnerInv /\ [Next]_vars => PatienceInv'
  BY StepPatience
<1> QED BY <1>1, <1>2, RunnerInvariant, PTL DEF Spec

\* Whatever the campaign, its files and points and the reads that find a file
\* half written, the watchdog kills a script that began without points only
\* after StallFactor intervals without a new readable point.
THEOREM WatchdogIsPatient == Spec => []WatchdogPatience
<1>1. PatienceInv => WatchdogPatience
  BY DEF PatienceInv, Patient, WatchdogPatience
<1> QED BY <1>1, PatienceInvariant, PTL

\* The runner, the script, the watchdog and the cluster's files keep their
\* types, the number of points the watchdog remembers included.
THEOREM RunnerTypes == Spec => []RunnerTypeOK
<1>1. RunnerInv /\ PatienceInv => RunnerTypeOK
  BY DEF RunnerInv, TypeInv, RunnerOK, FilesOK, WatchdogOK, ClusterOK, PatienceInv, CountersOK,
         RunnerTypeOK, Control, Statuses, Alive
<1> QED BY <1>1, RunnerInvariant, PatienceInvariant, PTL
=============================================================================
