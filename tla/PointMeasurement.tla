-------------------------- MODULE PointMeasurement --------------------------
(***************************************************************************)
(* How one point of a figure is measured (exp/utils): CMDManager kills     *)
(* what still runs on the nodes, restarts memcached, types the benchmark   *)
(* into one long-lived shell per node and reads the shells one after the   *)
(* other until a prompt appears; LogParser takes throughput or cache sizes *)
(* from the output and LatParser percentiles from the latency files the    *)
(* nodes have written.  Whatever goes wrong, the script starts over.       *)
(*                                                                         *)
(* Shells, processes and latency files outlive a failed attempt and a      *)
(* finished point.  Output lines, processes and files carry whether they   *)
(* are of the present attempt ("fresh", "new").  The benchmark appears as  *)
(* far as the harness relies on it; output is in the shell's buffer once   *)
(* printed (between the kill and the next read memcached is restarted,     *)
(* which takes more than a second).                                        *)
(***************************************************************************)
EXTENDS Integers, Sequences, FiniteSets, FiniteSetsExt, SequencesExt

CONSTANTS N,           \* nodes the shells are open to
          Ids,         \* Ids[i]: identifier of node i, from its address
          Epochs,      \* epochs a benchmark runs (TEST_EPOCH)
          Points,      \* the points to measure, in order
          Histograms,  \* latency counts a node may write in an epoch
          MaxFaults    \* bound on crashes, hangs and failed commands

Wants == {"avg", "epoch", "cache"}
ASSUME MeasureConstants ==
  /\ N \in Nat \ {0} /\ Ids \in [1 .. N -> Nat] /\ Epochs \in Nat \ {0} /\ MaxFaults \in Nat
  /\ Len(Points) \in Nat \ {0}
  /\ \A p \in 1 .. Len(Points) :
       /\ Points[p].cns \in 1 .. N
       /\ {Ids[i] : i \in 1 .. Points[p].cns} = 0 .. Points[p].cns - 1
       /\ Points[p].want \in Wants
       /\ Points[p].target \in 2 .. Epochs
       /\ Points[p].only_need_tpt \in BOOLEAN /\ Points[p].lats \in BOOLEAN
       /\ Points[p].want = "cache" => ~Points[p].only_need_tpt

VARIABLES
  pt,      \* index of the point
  pc,      \* what the script does: kill, memc, launch, read, stats, lats, done
  cur,     \* node (or, loading latencies, epoch) its loop is at
  outs,    \* output read so far, by node
  stream,  \* output not read yet, by node
  proc,    \* benchmark process of each node
  memc,    \* processes that have entered since memcached was restarted
  lat,     \* latency file of each node and epoch: none, old, new
  result,  \* what the attempt has obtained
  faults

benchVars == <<stream, proc, memc, lat>>
vars == <<pt, pc, cur, outs, stream, proc, memc, lat, result, faults>>

All == 1 .. N
Point == Points[pt]
CNs == 1 .. Point.cns
Idle == [st |-> "none", epoch |-> 0, said |-> 0, fresh |-> FALSE]
Line(i, k, e) == [k |-> k, e |-> e, fresh |-> proc[i].fresh]
Shown(out, k) == \E i \in 1 .. Len(out) : out[i].k = k
NoLat == [epoch |-> 0, read |-> {}, hist |-> <<>>, p50 |-> 0, p99 |-> 0]
NoResult == [tpt |-> <<>>, cache |-> {}, files |-> {}, lat |-> NoLat, lost |-> FALSE]
Fault == faults < MaxFaults /\ faults' = faults + 1

\* CMDManager: every shell is fresh and has been cleared once.
Init ==
  /\ pt = 1 /\ pc = "kill" /\ cur = 1
  /\ outs = [i \in All |-> <<>>] /\ stream = [i \in All |-> <<>>]
  /\ proc = [i \in All |-> Idle] /\ memc = 1
  /\ lat = [i \in All |-> [e \in 1 .. Epochs |-> "none"]]
  /\ result = NoResult /\ faults = 0

-----------------------------------------------------------------------------
(* The benchmark, on node i *)

\* serverConnect: everyone has entered; with a counter left from an earlier
\* run a node meets the queue pairs of processes that are gone.
Connected ==
  /\ \A i \in CNs : proc[i].fresh /\ proc[i].st # "typed"
  /\ memc = Point.cns

CanEnter(i) == proc[i].st = "typed"
CanWrite(i) == /\ proc[i].st = "run" /\ proc[i].fresh /\ Connected
               /\ proc[i].said = proc[i].epoch /\ proc[i].epoch < Epochs
CanTell(i) == /\ proc[i].st = "run" /\ proc[i].said < proc[i].epoch
              /\ \A j \in CNs : proc[j].epoch >= proc[i].epoch
CanJoin(i) == proc[i].st = "run" /\ proc[i].said = Epochs
CanEnd(i) == proc[i].st = "joined"
CanMove(i) == CanEnter(i) \/ CanWrite(i) \/ CanTell(i) \/ CanJoin(i) \/ CanEnd(i)

\* serverEnter: the process counts itself in memcached.
Enter(i) ==
  /\ CanEnter(i)
  /\ proc' = [proc EXCEPT ![i] = [Idle EXCEPT !.st = "run", !.fresh = TRUE]]
  /\ memc' = Min({memc + 1, N + 1})
  /\ UNCHANGED <<pt, pc, cur, outs, stream, lat, result, faults>>

\* save_latency, then dsm->sum, in which only node 0 waits.
WriteLat(i) ==
  /\ CanWrite(i)
  /\ LET e == proc[i].epoch + 1
     IN /\ lat' = [lat EXCEPT ![i][e] = "new"]
        /\ proc' = [proc EXCEPT ![i].epoch = e, ![i].said = IF Ids[i] = 0 THEN @ ELSE e]
  /\ UNCHANGED <<pt, pc, cur, outs, stream, memc, result, faults>>

\* Node 0 has everyone's share and prints the epoch's block of lines.
TellEpoch(i) ==
  /\ CanTell(i)
  /\ stream' = [stream EXCEPT ![i] = Append(@, Line(i, "epoch", proc[i].epoch))]
  /\ proc' = [proc EXCEPT ![i].said = proc[i].epoch]
  /\ UNCHANGED <<pt, pc, cur, outs, memc, lat, result, faults>>

JoinThreads(i) ==
  /\ CanJoin(i)
  /\ stream' = [stream EXCEPT ![i] = Append(@, Line(i, "joined", 0))]
  /\ proc' = [proc EXCEPT ![i].st = "joined"]
  /\ UNCHANGED <<pt, pc, cur, outs, memc, lat, result, faults>>

\* tree->statistics and [END]; then the process waits in a barrier or exits.
PrintEnd(i) ==
  /\ CanEnd(i)
  /\ stream' = [stream EXCEPT ![i] = Append(@, Line(i, "end", 0))]
  /\ proc' = [proc EXCEPT ![i].st = "fin"]
  /\ UNCHANGED <<pt, pc, cur, outs, memc, lat, result, faults>>

Crash(i) ==
  /\ proc[i].st \in {"run", "joined"} /\ Fault
  /\ proc' = [proc EXCEPT ![i].st = "dead"]
  /\ stream' = [stream EXCEPT ![i] = Append(@, Line(i, "fail", 0))]
  /\ UNCHANGED <<pt, pc, cur, outs, memc, lat, result>>

Hang(i) ==
  /\ proc[i].st \in {"run", "joined"} /\ Fault
  /\ proc' = [proc EXCEPT ![i].st = "hung"]
  /\ UNCHANGED <<pt, pc, cur, outs, stream, memc, lat, result>>

-----------------------------------------------------------------------------
(* The attempt: kill, clear memcached, run, parse *)

Retry == pc' = "kill" /\ cur' = 1

\* What is on the machines now belongs to the past.
Age ==
  /\ stream' = [i \in All |-> [k \in DOMAIN stream[i] |-> [stream[i][k] EXCEPT !.fresh = FALSE]]]
  /\ lat' = [i \in All |-> [e \in 1 .. Epochs |-> IF lat[i][e] = "none" THEN "none" ELSE "old"]]

\* killall on the nodes of the point.  Nodes beyond them, which an earlier
\* point used, are left alone.
\* Mutant: only the master's process is killed.
KillProcessMaster ==
  /\ pc = "kill"
  /\ proc' = [i \in All |-> IF i = 1 THEN Idle ELSE [proc[i] EXCEPT !.fresh = FALSE]]
  /\ Age
  /\ outs' = [i \in All |-> <<>>] /\ result' = NoResult
  /\ pc' = "memc"
  /\ UNCHANGED <<pt, cur, memc, faults>>
KillProcess ==
  /\ pc = "kill"
  /\ proc' = [i \in All |-> IF i \in CNs THEN Idle ELSE [proc[i] EXCEPT !.fresh = FALSE]]
  /\ Age
  /\ outs' = [i \in All |-> <<>>] /\ result' = NoResult
  /\ pc' = "memc"
  /\ UNCHANGED <<pt, cur, memc, faults>>

\* all_execute raises or exceeds its limit after some nodes have answered.
KillFails ==
  /\ pc = "kill" /\ Fault
  /\ \E S \in SUBSET CNs : proc' = [i \in All |-> IF i \in S THEN Idle ELSE proc[i]]
  /\ Retry
  /\ UNCHANGED <<pt, outs, stream, memc, lat, result>>

RestartMemc ==
  /\ pc = "memc"
  /\ memc' = 0
  /\ pc' = "launch" /\ cur' = 1
  /\ UNCHANGED <<pt, outs, stream, proc, lat, result, faults>>

\* one_execute swallows an exception: the run meets the old counter.  Past
\* its limit the attempt starts over.
RestartFails ==
  /\ pc = "memc" /\ Fault
  /\ \/ pc' = "launch" /\ cur' = 1 /\ UNCHANGED memc
     \/ Retry /\ memc' \in {0, memc}
  /\ UNCHANGED <<pt, outs, stream, proc, lat, result>>

\* __clear_shell: one recv takes all that is buffered.
\* Mutant: the newline is sent and nothing received.
ClearShellSends(buffered) == buffered
ClearShell(buffered) == <<>>

\* all_long_execute, first loop.  A shell that still runs a process does not
\* get to the new command.
Launch ==
  /\ pc = "launch"
  /\ stream' = [stream EXCEPT ![cur] = ClearShell(@)]
  /\ proc' = IF proc[cur].st \in {"run", "joined", "hung"} THEN proc
             ELSE [proc EXCEPT ![cur] = [Idle EXCEPT !.st = "typed", !.fresh = TRUE]]
  /\ IF cur = Point.cns THEN pc' = "read" /\ cur' = 1 ELSE pc' = pc /\ cur' = cur + 1
  /\ UNCHANGED <<pt, outs, memc, lat, result, faults>>

\* The prompt that ends the reading of a shell.
\* Mutant: "joined." is always enough.
EndPromptJoined(point) == "joined"
EndPrompt(point) == IF point.only_need_tpt THEN "joined" ELSE "end"

Reading == pc = "read" /\ ~Shown(outs[cur], EndPrompt(Point))

\* recv returns some of the buffer; a failure prompt raises.
Receive ==
  /\ Reading /\ stream[cur] # <<>>
  /\ \E k \in 1 .. Len(stream[cur]) :
       /\ outs' = [outs EXCEPT ![cur] = @ \o SubSeq(stream[cur], 1, k)]
       /\ stream' = [stream EXCEPT ![cur] = SubSeq(@, k + 1, Len(@))]
  /\ IF Shown(outs'[cur], "fail") THEN Retry ELSE UNCHANGED <<pc, cur>>
  /\ UNCHANGED <<pt, proc, memc, lat, result, faults>>

\* With only_need_tpt the first node that has printed a throughput is enough.
NextNode ==
  /\ pc = "read" /\ Shown(outs[cur], EndPrompt(Point))
  /\ IF cur = Point.cns \/ (Point.only_need_tpt /\ Shown(outs[cur], "epoch"))
     THEN pc' = "stats" /\ UNCHANGED cur
     ELSE cur' = cur + 1 /\ UNCHANGED pc
  /\ UNCHANGED <<pt, outs, benchVars, result, faults>>

\* The 500 s are over because nothing more will come, or too early.
Stuck == stream[cur] = <<>> /\ \A i \in CNs : ~CanMove(i)
TimeOut ==
  /\ Reading /\ Stuck
  /\ Retry
  /\ UNCHANGED <<pt, outs, benchVars, result, faults>>
TimeOutEarly ==
  /\ pc \in {"launch", "read"} /\ Fault
  /\ Retry
  /\ UNCHANGED <<pt, outs, benchVars, result>>

-----------------------------------------------------------------------------
(* LogParser and LatParser *)

StartEpoch(target) == Max({target \div 2, target - 4})

EpochLines(log) == {i \in 1 .. Len(log) : log[i].k = "epoch"}

\* The first count blocks from that of epoch start on, by their line.
Blocks(log, start, count) ==
  LET begun == {i \in EpochLines(log) : \E j \in EpochLines(log) : j <= i /\ log[j].e = start}
  IN [i \in {i \in begun : Cardinality({j \in begun : j <= i}) <= count} |-> log[i]]

\* __parse_log_avg: blocks from the first of the window until their number
\* has taken the counter to the target.
\* Mutant: the window starts with the first block.
ParseLogAvgAll(log, target) == Blocks(log, 1, target - StartEpoch(target))
ParseLogAvg(log, target) == Blocks(log, StartEpoch(target), target - StartEpoch(target))

\* __parse_log: the block of the target.
ParseLog(log, target) == Blocks(log, target, 1)

\* get_statistics: the first log that has a throughput.
GetStatistics ==
  LET parsed == [i \in CNs |-> IF Point.want = "avg" THEN ParseLogAvg(outs[i], Point.target)
                               ELSE ParseLog(outs[i], Point.target)]
      having == {i \in CNs : DOMAIN parsed[i] # {}}
  IN IF having = {} THEN <<>> ELSE parsed[Min(having)]

\* get_cache_statistics: the nodes whose statistics are in the output.
GetCacheStatistics == {i \in CNs : Shown(outs[i], "end")}

\* get_cluster_lats: the epochs whose latencies are loaded.
\* Mutant: load_remote_lats is left to its default, the first epoch.
AfterStatsDefault == IF Point.lats THEN pc' = "lats" /\ cur' = 1
                     ELSE pc' = "done" /\ UNCHANGED cur
AfterStats == IF Point.lats
              THEN pc' = "lats" /\ cur' = IF Point.want = "avg" THEN StartEpoch(Point.target)
                                                                ELSE Point.target
              ELSE pc' = "done" /\ UNCHANGED cur

ParseLogs ==
  /\ pc = "stats"
  /\ IF Point.want = "cache"
     THEN result' = [result EXCEPT !.cache = GetCacheStatistics] /\ AfterStats
     ELSE /\ result' = [result EXCEPT !.tpt = GetStatistics]
          /\ IF DOMAIN GetStatistics = {} THEN Retry ELSE AfterStats
  /\ UNCHANGED <<pt, outs, benchVars, faults>>

\* __cal_lat: the merged counts in the order of the latencies.
\* Mutant: latencies are sorted as text, "10.0" before "2.0".
LatOrderText(lats) ==
  SetToSortSeq(lats, LAMBDA a, b : (a >= 10 /\ b < 10) \/ ((a >= 10) = (b >= 10) /\ a < b))
LatOrder(lats) == SetToSortSeq(lats, LAMBDA a, b : a < b)
Total(cnt) == MapThenSumSet(LAMBDA l : cnt[l], DOMAIN cnt)
CalLat(cnt) ==
  LET all == Total(cnt)
      lats == LatOrder({l \in DOMAIN cnt : cnt[l] > 0})
      cum[k \in 0 .. Len(lats)] == IF k = 0 THEN 0 ELSE cum[k - 1] + cnt[lats[k]]
      first(percent) == lats[Min({k \in 1 .. Len(lats) : 100 * cum[k] >= percent * all})]
  IN [p50 |-> first(50), p99 |-> first(99)]

\* load_remote_lats, one epoch: a file that cannot be opened raises, an error
\* while it is read is swallowed with its counts.
MergeCounts(hist, read) ==
  [l \in DOMAIN hist[1] |-> MapThenSumSet(LAMBDA i : hist[i][l], read)]
Opened == \A i \in CNs : lat[i][cur] # "none"

\* The epoch's percentiles, if there is any count, and the next epoch; after
\* the last one something must have been loaded.
LoadEpoch(hist, read) ==
  LET cnt == MergeCounts(hist, read)
      cal == CalLat(cnt)
      loaded == IF Total(cnt) = 0 THEN result.lat
                ELSE [epoch |-> cur, read |-> read, hist |-> hist, p50 |-> cal.p50, p99 |-> cal.p99]
  IN /\ result' = [result EXCEPT !.lat = loaded,
                                 !.files = @ \cup {<<i, cur, lat[i][cur]>> : i \in read},
                                 !.lost = @ \/ read # CNs]
     /\ IF cur < Point.target THEN cur' = cur + 1 /\ UNCHANGED pc
        ELSE IF loaded = NoLat THEN Retry ELSE pc' = "done" /\ UNCHANGED cur

LoadLats ==
  /\ pc = "lats" /\ Opened
  /\ \E hist \in [CNs -> Histograms] :
       (\E i \in CNs : Total(hist[i]) > 0) /\ LoadEpoch(hist, CNs)
  /\ UNCHANGED <<pt, outs, benchVars, faults>>
LoadLatsLossy ==
  /\ pc = "lats" /\ Opened /\ Fault
  /\ \E hist \in [CNs -> Histograms], read \in SUBSET CNs : LoadEpoch(hist, read)
  /\ UNCHANGED <<pt, outs, benchVars>>
LoadLatsRaises ==
  /\ pc = "lats"
  /\ IF Opened THEN Fault ELSE UNCHANGED faults
  /\ Retry
  /\ UNCHANGED <<pt, outs, benchVars, result>>

NextPoint ==
  /\ pc = "done" /\ pt < Len(Points)
  /\ pt' = pt + 1
  /\ Retry
  /\ UNCHANGED <<outs, benchVars, result, faults>>

AllMeasured == pc = "done" /\ pt = Len(Points)
Ended == AllMeasured /\ UNCHANGED vars

Bench(i) == Enter(i) \/ WriteLat(i) \/ TellEpoch(i) \/ JoinThreads(i) \/ PrintEnd(i)
Harness == \/ KillProcess \/ RestartMemc \/ Launch
           \/ Receive \/ NextNode \/ TimeOut
           \/ ParseLogs \/ LoadLats \/ NextPoint
Faulty == \/ KillFails \/ RestartFails \/ TimeOutEarly \/ LoadLatsLossy \/ LoadLatsRaises
          \/ \E i \in All : Crash(i) \/ Hang(i)

Next == (\E i \in All : Bench(i)) \/ Harness \/ Faulty \/ Ended

Spec == Init /\ [][Next]_vars

\* The benchmark runs and the script's loop is polled; faults need not happen.
FairSpec == Spec /\ WF_vars((\E i \in All : Bench(i)) \/ Harness)

-----------------------------------------------------------------------------
(* Properties *)

\* The control of one measurement and the benchmark processes keep their types:
\* an epoch is never reported before it has ended, the epoch that is read stays
\* in the window, and the processes counted in memcached stay in their bound.
MeasureTypeOK ==
  /\ pt \in 1 .. Len(Points)
  /\ pc \in {"kill", "memc", "launch", "read", "stats", "lats", "done"}
  /\ cur \in IF pc = "lats" THEN StartEpoch(Point.target) .. Point.target
            ELSE 1 .. Max({Point.cns, Point.target})
  /\ \A i \in All : /\ proc[i].st \in {"none", "typed", "run", "joined", "fin", "dead", "hung"}
                    /\ proc[i].said <= proc[i].epoch
                    /\ proc[i].epoch \in 0 .. Epochs
  /\ memc \in 0 .. N + 1
  /\ lat \in [All -> [1 .. Epochs -> {"none", "old", "new"}]]

\* Nothing a point is made of was printed or written before its attempt: not
\* by a killed process, not in the shell of an earlier run, not in a latency
\* file left by another point.
ResultOfThisRun ==
  pc = "done" =>
    /\ \A k \in DOMAIN result.tpt : result.tpt[k].fresh
    /\ \A f \in result.files : f[3] = "new"

\* Averages are over the whole window: the throughput of every epoch from the
\* first up to the one before the target, each once, and the latencies of
\* every node in the same epochs and the target.  Without averaging both are
\* those of the target.
WindowComplete ==
  pc = "done" =>
    /\ Point.want # "cache" =>
         LET window == IF Point.want = "avg" THEN StartEpoch(Point.target) .. Point.target - 1
                       ELSE {Point.target}
         IN /\ {result.tpt[k].e : k \in DOMAIN result.tpt} = window
            /\ Cardinality(DOMAIN result.tpt) = Cardinality(window)
    /\ Point.lats /\ ~result.lost =>
         {<<f[1], f[2]>> : f \in result.files} =
           CNs \X (IF Point.want = "avg" THEN StartEpoch(Point.target) .. Point.target
                                         ELSE {Point.target})

\* Cache sizes are averaged over all the nodes of the point.
CacheOfEveryNode == pc = "done" /\ Point.want = "cache" => result.cache = CNs

\* Samples below p.
Below(p) == MapThenSumSet(LAMBDA i : MapThenSumSet(LAMBDA l : result.lat.hist[i][l],
                {l \in DOMAIN result.lat.hist[i] : l < p}), result.lat.read)

\* The percentiles are those of the samples of all nodes that were read.
PercentilesExact ==
  result.lat # NoLat =>
    LET p50 == result.lat.p50
        p99 == result.lat.p99
        all == Below(1000)
    IN /\ 2 * Below(p50) < all /\ 2 * Below(p50 + 1) >= all
       /\ 100 * Below(p99) < 99 * all /\ 100 * Below(p99 + 1) >= 99 * all

\* However attempts fail, every point is measured in the end.
EveryPointMeasured == <>AllMeasured
=============================================================================
