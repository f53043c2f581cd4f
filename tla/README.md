# A verification of CHIME in TLA+

CHIME is a range index for disaggregated memory: compute nodes keep a cache of
internal nodes, memory nodes keep a B-link tree whose leaves are hopscotch hash
tables, and compute nodes read, lock and write the memory with one-sided
operations (RDMA read, write and masked compare-and-swap). There is no server
code on the data path. All correctness rests on the order in which clients issue
these operations and on what they check afterwards.

Around the index stands a harness in Python that builds it in many
configurations, runs benchmarks on a cluster for hours without supervision, and
turns their output into the figures. Its errors do not crash: they show as wrong
points. The models cover both halves.

The models of the index follow the default build of `src/CMakeLists.txt`: cache, coroutines,
read delegation, write combining, hopscotch leaves, vacancy-aware lock,
replicated metadata, sibling-based validation, speculative reads; sorted
internal nodes, values of fixed size, RDMA and not CXL, assertions on.

## The system

| Component | State | Operations | Talks to |
|---|---|---|---|
| Tree (`src/src/Tree.cpp`, `include/Tree.h`, `InternalNode.h`, `LeafNode.h`) | nodes in remote memory with a lock word each, the root entry, per coroutine a path stack | `insert`, `update`, `search`, `range_query`, splits, `insert_internal` | TreeCache, LocalLockTable, IdxCache, DSM |
| TreeCache (`include/TreeCache.h`) | a skip list of (range, copy of an internal node), `free_size`, a queue of nodes to free | `search_from_cache`, `search_ptr_from_cache`, `add_to_cache`, `invalidate`, `evict` | called by all threads of a compute node |
| Hopscotch leaf, `VALOCK` (`include/Metadata.h`) | records with hop bitmaps; vacancy bitmap and `max_key_idx` in the lock word | insert with hops, split, update | by Tree under the leaf's lock; read by searches without |
| LocalLockTable (`include/LocalLockTable.h`) | per slot two ticket queues, handover flags, the time window, a combining buffer, a delegated result | acquire and release of read and write, `get_combining_value` | all coroutines of a compute node |
| IdxCache (`include/IdxCache.h`) | where a key was last seen in a leaf | lookup, add | by searches and updates |
| Versions, replicated metadata (`LeafVersionManager.h`, `VersionManager.h`, `MetadataManager.h`) | 4-bit versions per cache line, entry and node | encode, decode and compare | every node read and write |
| Coroutines (`Tree::run_coroutine`, `coro_worker`) | busy-waiting and waiting queues | yield at every remote operation, re-queue after a failed lock | all of the above |
| Allocation (`GlobalAllocator.h`, `LocalAllocator.h`, `DSM::alloc`, `Directory.cpp`) | chunks per memory node, a current chunk per thread | `alloc`, the MALLOC message | splits |
| Cluster (`Keeper.cpp`, `DSMKeeper.cpp`) | counters and addresses in memcached | join, connect, `barrier`, `sum` | start of the benchmarks |
| DSM and `rdma/` | queue pairs, buffers | read, write, cas, faa, batches | everything remote |
| CXL transport (`CxlTransport.cpp`, `CxlDSM.cpp`) | a shared mapping | the same interface by load and store | build option, off |
| Campaign runner (`exp/resilient_runner.py`, `construction/scripts/patch-cn-count.py`) | attempt, results, watchdog counters; `healthy_nodes.txt`, parameter files, partial and final result files, backup | run with time-out and retry, watchdog, reconfigure, clean up, rsync | starts the figure scripts, probes the nodes |
| Figure scripts (`exp/fig_*.py`, `extra_*.py`, `smoke_test.py`, `utils/sed_generator.py`, `ycsb/split_workload.py`) | `plot_data`; on every node `Common.h`, CMake cache, binary, split files | build, split, measure, save | measurement |
| Measurement (`exp/utils/cmd_manager.py`, `log_parser.py`, `lat_parser.py`) | one shell per node with its unread output, benchmark processes, memcached, latency files | kill, restart, launch, read, parse, retry | ssh, `ycsb_test` |
| Crash capture, plotting, CloudLab scripts | files | straight-line input and output | - |

What makes this hard:

* **Interleaving without a server.** A node may be split, and its records moved,
  between the moment its address was read (or cached, arbitrarily long ago) and
  the moment it is used. One lock is held at a time, so the separator of a split
  is on its way while other splits happen.
* **Three ways to recognise staleness**: fence keys in internal nodes, the
  expected sibling pointer in leaves, and nothing but the key itself in
  speculative reads.
* **Unchecked writes.** Unlocking is a plain write of the lock word, combined
  with the write of the node.
* **Hand-over between coroutines.** A client may return with a result another
  client produced, which is right only if the two overlapped.
* **Local data structures at their edges.** Leaves wrap around, 57 vacancy bits
  stand for 64 slots, tickets wrap around, hop chains fail half way.
* **State that outlives its user.** Shells, processes, latency files, headers,
  CMake caches, split files and partial results survive an attempt, a point and a
  script. Whatever is not replaced is silently used by the next.
* **Threads and time-outs in the runner.** A watchdog judges by files that are
  being rewritten, and may decide while the run it watches is ending.

Every hazard is in `PROJECT.json` under `hazards`, at its line, with the
properties that would catch it.

## Modules

| Module | Models |
|---|---|
| `KVMap` | the promise: a linearizable map (invoke, take effect, respond) |
| `ChimeTree` | insert, update and search of the tree with the cache: descent, locks, leaf and internal splits, the climb of separators, new roots |
| `ChimeTreeProofs` | theorems: types and locks of `ChimeTree` |
| `ChimeTreeChainProofs` | theorems: its leaf chain, its separators, and that no node is left without a parent |
| `ChimeTreeMapProofs` | theorem: it implements `KVMap` |
| `HopscotchLeaf`, `HopscotchLeafProofs` | the inside of one leaf: hops, splits, the bitmaps and `max_key_idx` |
| `LocalLockTable`, `LocalLockTableProofs` | one slot of the read-delegation and write-combining table |
| `ResilientRunner`, `ResilientRunnerProofs` | a campaign: runner, watchdog, script and nodes side by side |
| `ExperimentSweep`, `ExperimentSweepProofs` | the figure scripts as programs over the state of the machines |
| `PointMeasurement`, `PointMeasurementProofs` | the attempts at one point after the other: shells, processes, logs, latency files |
| `MC*` | the programs and constants of the TLC runs |

### ChimeTree

`mem` holds the nodes, `locked` bit 63 of their lock words, `root` the root entry
at the well-known address, `top` the allocator, `cache` one set of entries per
compute node, `cl[c]` the locals of client `c`'s operation (`node_addr`,
`sibling_addr`, `level`, `from_cache`, the separator under way, the path stack).
A client is one coroutine with its call stack flattened: the recursive calls of
`leaf_node_insert` and `insert_internal` in the code are tail calls.

A step is one remote access with the local code that follows it: `GetRootPtr`
reads the root entry, `InternalSearch*` read a node, `LockNode` is the masked
compare-and-swap, `Leaf*` and `InternalInsert*` are the read under the lock, the
decision and the write that also releases the lock. A split is two steps or more:
the sibling is written (`LeafSplitSibling`, `InternalSplitSibling`); the old node
is written and unlocked (`LeafSplitCommit`, `InternalSplitCommit`); then the
separator goes to the parent (`ToParent`: path stack, else cache, else root), or a
new root is written and swung in (`NewRoot`).

Abstractions: a node is read in one step (versions are not modelled); a leaf is
its set of pairs, and a hopscotch insertion *may* fail from `HopFailAt` records
on and *must* at `LeafSpan`, so the split position ranges over all the code could
choose; the cache has room for `CacheCap` live entries and evicts any of them
(the code compares the use counts of two random ones); there is one memory node,
so that a reliable connection keeps the order of writes. The `valid` flag is left
out because nothing clears it.

### HopscotchLeaf

One leaf, locked by one client at a time. `leaf` has keys, values and hop bitmaps
by slot, `vac` and `maxidx` are the fields of `VALOCK`, `op` is the insertion in
progress on its private copy, `latest` is a ghost: the value last written per
key. `InsertNew` reads as far as the vacancy bitmap says, `Hop` moves one entry,
`InsertPlace` writes the segment back, `HopFails` leads to `SplitLeft` or
`SplitRight` (the model follows one half) and `SplitPlace`. `Home` is the hash,
a constant. `Lands` is where a freed slot would come to rest, by which the code
chooses the split key. The leaf is an independent model and not composed with the tree:
`Upserts` is the set of keys that may be inserted while the leaf holds them. For
the other keys `LatestFound` (run `leaf`, theorem `LeafIsAMap`) justifies that `ChimeTree` sees a leaf
as a map. For keys in `Upserts` the run `leaf_duplicate` refutes the same
statement (`UpsertFound`), so for those the tree's results hold only up to that
defect.

### LocalLockTable

One slot and keys that all hash to it. Reads and writes run the same code on two
sides of the slot, so the actions are parameterised by the side. Every access to
a shared atomic is a step of its own; fields that only the head of the queue
touches are read and written together. The leaf is a map with a lock, as
`GetCombiningValue` and the write after it use it. `TicketMod` stands for 256.
`OneSidedOverlaps` says that a client that is handed over overlaps its winner as
long as only one side is in use; with both sides in use it is false
(`slot_window`).

### ResilientRunner

Four actors: the runner (`pc`, `cur`, `attempt`, `results`), its watchdog thread
(`wd`), the script as a process (`proc`, and `script`, its loop) and the nodes
(`up`). They share the result files (`partial`, `final`), `healthy_nodes.txt`
(`healthy`) and the parameter files (`cn`). The runner's steps are the statements
of `run_experiment` between which something else can happen: start, the end of
`communicate` (`RunSucceeds`, `RunFails`, `RunTimesOut`), the kill after a time-out
(`KillTimedOut`), the `finally` block
(`JoinNoFailure`, `ReconfigureTooSmall`, `ReconfigureCluster`), clean-up and
retry. `returning` is the pending return value, which the `return` in `finally`
replaces. A watchdog tick may read a partial file in the middle of its rewrite.
A script is abstracted to the files it writes; its inside is `ExperimentSweep`
and `PointMeasurement`. Time is left out: any wait may end by its time-out.
`quiet` is an observer of the intervals in which no new point could be read, and
`overdue` of a time-out of the attempt.

Time-out and kill are two steps, because the exit code is not looked at after
`TimeoutExpired` (`resilient_runner.py:313-316`): a script that ends in between, or
just as the time-out strikes, is cleaned up and run again or reported as failed
although its results are complete. `CompletedReportedOk` therefore speaks of
scripts that no time-out struck. A kill, by the runner or by the watchdog, may come
in the middle of a save and leave the file empty (`CutOff`). Two simplifications: a
health probe is exact (the code also takes a probe that exceeds its ten seconds
for a dead node), and a failed node does not come back, so that what
`ClusterFilesAgree` says of excluded nodes holds up to false alarms.
`WatchdogPatience` is stated for attempts that begin without points; that a later
attempt is measured against the points of the one before, which it overwrites, is
listed as a hazard that no property covers.

### ExperimentSweep

Each script is an operator of its own name that evaluates to its sequence of
steps (build, split, generate, point, save), written as the nest of loops that the
script is, over two or three values per parameter so that each branch is taken.
The machine state is what the steps read and leave: `header` (Common.h), `cmake`
(CMake cache) and `binary` by directory, `split` by workload, `uniform`. A build is
`sed && cmake && make clean && make`; it may stop after any of them, unnoticed
(`BuildFails`) or with a time-out that ends the script (`BuildTimesOut`).
`all_execute` looks at no exit code (`cmd_manager.py:62-82`), so a split or the
generation of the uniform workload may fail in the same two ways (`SplitFails`,
`SplitTimesOut`, `GenerateFails`), and the script then measures with the split files
of an earlier point or with a mixture. The model keeps which builds and splits did
not reach their end (`broken`, `unsplit`): `MeasuredAsLabelled` and
`TargetEpochReached` make no claim about a point of a broken build, `SplitFits` none
about a point whose workload was last split by a split that failed, and the code makes
none either. What they do say is that a later successful build or split repairs
everything an earlier failure has left. A point
records with what it was really measured (`got`).

fig_12, fig_14, fig_15a and fig_15b save a partial file after each point. They open
it with mode `w`, which truncates it, and then dump (`fig_12.py:107`,
`fig_14.py:100`, `fig_15a.py:109`, `fig_15b.py:109`): `OpenPartial` and
`WritePartial`. A kill between the two leaves a file without any point, so
`UnsavedAtMostOne` speaks of every moment but this one. The final file is another one,
so that the points are on disk while it is written.

The many feature switches of CMake are one option, "features"; the three that every
script sets together, ENABLE_CORO, READ_DELEGATION and WRITE_COMBINING, are one
option "common", the only one that fig_04a, fig_04b and fig_04c set. fig_03d sets
nothing and takes all parameters on the command line, so nothing is required of the
binary it finds; fig_16 patches
ROLEX's header as CHIME's, so nothing is required of its epsilon.

### PointMeasurement

The loop `while True: try: kill; restart memcached; run; parse; break` over
several points, on `N` nodes. `stream` is the unread output of each shell, `outs`
what was read, `lat` the latency files, `proc` the benchmark on each node, `memc`
the counter in memcached. The experiments are built with identifiers from the
address (`STATIC_MN_IP`), and as in `common.json` the first shell is not node 0,
which alone prints the throughput. Lines, files and processes carry whether they
are of this attempt; the kill that begins an attempt ages all that exists. Faults
are crashes and hangs of the benchmark, a kill or restart that fails, a time-out
that strikes too early, and latency files that cannot be read. One assumption:
what a killed process printed has reached the shell's buffer before the shell is
cleared, because memcached is restarted in between, which sleeps for a second.
Targets are at least 2: with 1 the window would begin at epoch 0, which is never
printed, and the scripts with target 1 do not average. What a parser takes from a
log is kept as the lines by their place in it (`Blocks`). A point of cache sizes
reads every shell to its end (`only_need_tpt` is not given), as in the scripts that
call `get_cache_statistics` (figures 3a, 14, 18f, 19a and 19b).

## Runs

| Run | Shows | Bounds |
|---|---|---|
| `tree_warm` | types, lock discipline, the leaf chain stays a partition, leaves only shrink, linearizable, everyone is answered | a loaded tree with one internal level; 45 programs of two more inserts, updates or searches per client on 2 compute nodes |
| `tree_tall` | assertions; separators lead where they say, in memory and in every stale cached copy; none is lost; everyone is answered | leaves of 1, internal nodes of 3; a full level-1 root, and three levels with stale grandparents in the cache; 24 programs |
| `tree_root` | **violation**, see findings | the first leaf splits |
| `slot` | ticket exclusion, delegated reads of the right key, overlap of combined operations, everyone returns, with wrapping tickets | 3 clients, 2 keys, tickets modulo 4; four writes of a key, or readers of two keys and a writer |
| `slot_window`, `slot_keys` | **violations**, see findings | 3 clients |
| `leaf` | hop bitmaps, vacancy bitmap, `max_key_idx` and assertions, in every order of inserts (of new and of existing keys) and updates; a map for keys inserted once | 6 slots, neighbourhoods of 3, 5 vacancy bits, 9 keys, 4 of them upserted, 2 versions |
| `leaf_duplicate` | **violation**, see findings | 4 slots, neighbourhoods of 2, 3 bits, 8 keys |
| `runner` | OK means complete and backed up, completed runs that no time-out struck are not failed, the watchdog is patient, node and parameter files agree, retries start clean, the campaign ends | 3 scripts (one with two workloads of two points and a watchdog, one missing), 3 nodes of which one may be lost, 2 attempts, 3 faults |
| `runner_resume` | **violation**, see findings | as `runner` |
| `sweep` | points are measured with the build, split and epochs of their label; at most one point is unsaved but while a file is truncated; the steps of every script are in order | every script after every script, one fault |
| `measure` | results are of their own attempt, windows complete, cache sizes of all nodes, percentiles exact, every point is measured | 2 nodes, 4 epochs, 3 points with the three ways to read the output, 3 faults |

Why the bounds reach the cases: two clients suffice for each race that one lock
at a time permits (a reader or a climber against a splitter); spans of 1 to 3
make every second insert a split, and the runs include a split of a leaf that is
being split again, of a full parent, and of a root. Three levels are the least
at which a separator can find a stale parent that is not the root. In the slot,
three clients are a winner, a client inside the window and a late one, and four
operations with four tickets wrap. In the leaf, a slot count that is no
multiple of the vacancy bits gives buckets of different size, and nine keys on
six slots give hop chains across the end, hops that fail and splits of splits.
In the runner, two attempts and a stall of two intervals let a verdict meet each
phase of the runner, and three faults are a node failure with a torn read and a
failing command. What a script leaves behind is seen by the script after it, so
that two in a row suffice for the sweep; one fault is enough for a failed step whose
traces meet every later step. Four epochs are the least for a window
that begins after the first epoch, two nodes the least for one that is read while
the other runs.

`CHECK_DEADLOCK FALSE` is set where the programs end and the model has no
stuttering step for it (slot and leaf); `EveryOpReturns` covers the slot. The
tree has `Terminated`, so TLC does look for deadlock there.

**Fairness.** `FairSpec` and `FairSlotSpec` assume weak fairness of every client
separately. `Tree::run_coroutine` resumes a coroutine whenever its completion is
polled and re-queues one that yields on a lock or a ticket, threads are run by the
operating system, and the network answers. It is not assumed that a particular
client wins a contended lock: the programs are finite, so the others stop
competing. With unbounded competition the remote spin lock does not guarantee
progress for each client, and nothing here says it does. `ResilientRunner`
assumes weak fairness of the runner alone: each of its waits has a time-out
(`communicate`, `join`, every `subprocess.run`), so it goes on even if script,
watchdog and nodes do nothing more. `PointMeasurement` assumes that benchmark and
harness together go on (processes are scheduled, shells are polled, the 500
seconds pass); crashes, hangs and failing commands never have to happen and are
bounded by `MaxFaults`. Under unbounded faults the loop need not end, and the
campaign's time-outs are there for that.

**Linearizability** is a refinement: `ChimeTree` implements `KVMap` with the store
mapped to the records of the linked leaves, an insert or update taking effect with
the write that releases the leaf, a search with its read of the leaf.

## What is proved

The theorems hold for all constants that satisfy the modules' assumptions: any
number of clients, nodes and keys, any spans, programs and hash functions.

**The tree.** `ChimeTreeProofs`: `TypeCorrect` (`Spec => []TypeOK`; beside the shapes
of the records it says that the null pointer and the root tag never get through
to a lock, a write or the root entry, which is where the three encodings of "no
sibling" could go wrong) and `LockSafety` (`Spec => []LockMutex`: a node's lock bit is
set exactly while one client is between its lock and its unlock). Neither is
inductive alone. The invariant is `TreeInv == TypeOK /\ CriticalOnNode /\ LockMutex`:
that a client in a critical section points at a real node is needed to see that
its write keeps the memory well typed, and the lock argument needs the types. The
type part has a lemma per group of actions. The lock part does not look at the
actions twice: each step of a client is one of four kinds, `Outside`, `Acquires`,
`Inside` or `Releases` (`StepDiscipline`), and each kind keeps `LockMutex`.

`ChimeTreeChainProofs`: `ChainOrdered` (`LeafChainOrdered`), `RangesShrink`
(`RangesOnlyShrink`) and `SeparatorsNeverLie` (`SeparatorsTrue`: in memory and in every
cached copy a separator lies in its node and its child begins exactly there). The
leaves carry no fence keys, so no formula about the present state says where a
leaf begins. The invariant `IndexInv` therefore asserts that *some* function `low`
exists, the least key of each node, with `RangeInv(low)`: the settled leaves tile the
keys (`Tiling`), every internal node tells the truth about its children (`Routing`),
so does every cached copy (`CachesTrue`), and every client is at or left of its key
and carries a separator that is true (`Placed`). A split extends `low` by one value;
no other step changes it, which is why a copy that was true once stays true.

The same module proves that the climb of separators loses none: `SeparatorsLead`
(`SeparatorsRoute`: as above, and no separator equals the lower fence of its node),
`NoSeparatorLost` (`IndexCompleteAtRest`: when all clients are idle, each node but the
root is under a parent one level up) and `RootSwapNeverFails` (the compare-and-swap of
the root pointer never fails, so the "cas root fail, insert from new root" branches at
`Tree.cpp:864` and `1297` are never taken). What is complete at rest is not complete in
the middle of a split, and the parent that is being split may itself be half
written. The invariant `ParentInv(ix)` therefore speaks of `ix`, the index as it will be
once the splits under way are committed (`Shows`), and of `Pend`, the node each client
has yet to put under a parent. `Shape` says that every node is the root, pending with
exactly one client, or under a parent of the next level, that a pending node has no
parent yet, and that the internal nodes of one level do not overlap. A separator equal to the
lower fence would be that of the leftmost child, which has a parent, so it cannot be
pending (`AboveFence`). `RootAlone` says that only the root is tagged as such or spans
all keys, and that a client on its way to a new root is the only one: it took the
tag off under the lock. Each of the six writing steps changes `Shape` in one of
four ways (`ShapeLeaf`, `ShapeJoin`, `ShapeSplit`, `ShapeRoot`; a commit leaves it
alone, since `ix` is ahead of the memory), all other steps leave it alone
(`QuietKeeps`). A client that finding 1 stops at the assertion is not idle, and what it
carries stays pending for ever; `IndexCompleteAtRest` does not speak of that state.

`ChimeTreeMapProofs`: `TreeImplementsMap` (`Spec => Linearizable`), the refinement of
`KVMap`. With the tiling a key is in at most one linked leaf (`StoreFacts`). Every
step of a client is `Quiet` (stutters in the map), `Effective` (takes effect), a call
or a return. The crux is that a client that writes or reads a leaf after the
turn-right check is at the leaf that owns its key, however stale the pointer was.

**The leaf.** `HopscotchLeafProofs`: `LeafTypes`, `HopBitmapsExact`, `VacancyBitsSound`,
`MaxKeyIndexRight`, `LeafIsAMap` (`LatestFound`) and `LeafAssertionsHold` (`LeafAsserts`).
An insertion works on a private copy in which one slot is free. The invariant
`LeafInv` speaks of `Back`, what the leaf would be if the copy were written back now,
and leaves out the hole; hops move the hole, placing the key fills it. `ValueInv`
says the same of the values. For the assertions `RoomInv` says where the hole will
come to rest: `Lands` is a recursive function, and `LandsNearer` shows that if the
slots beyond a key's neighbourhood can be hopped into it, so can the ones before
them. `LeafAssertionsHold` assumes `Upserts = {}`: a key that is there twice
(finding 4) could be the median and the smallest key at once, and the split would
free nothing. That a vacancy is found where the bitmap promised it and that a hop
bit is free when it is set do not need this.

**The slot.** `LocalLockTableProofs`: `SlotTypes`, `SlotIsExclusive` (`SlotExclusive`),
`DelegationKeepsKeys` (`ReadsOwnKey`) and `OneSidedWindows` (`OneSidedOverlaps`). The invariant `QueueInv` says that the tickets of
the clients in a queue are distinct and consecutive modulo `TicketMod`, from the one
being served to the one to be given out next. It assumes `FewClients`, that there
are no more clients than ticket values. Tickets are `uint8_t`. The figure
scripts run 2 coroutines on at most 64 threads of a compute node, but nothing in
the code enforces it: `Common.h:47,68` would allow 8 on each of 65 threads.
`DelegationKeepsKeys` also assumes that writes do not mix keys (`[]WritesOwnKey`), which
finding 3 refutes for write combining: read delegation adds no error of its own.
`OneSidedWindows` rests on `OverlapInv`: the window never reaches beyond the queue nor
beyond the tail the head saw when it opened it, and the clients inside it were
waiting when the head's operation began. Beside `FewClients` it assumes
`OneSidedPrograms`, that a slot is used by readers only or by writers only; with both,
finding 2 refutes it.

**The runner.** `ResilientRunnerProofs`: `OkIsComplete` (`OkMeansComplete`),
`CompletedIsReported` (`CompletedReportedOk`), `ClusterFilesConsistent`
(`ClusterFilesAgree`), `RetriesStartClean` (`RetryStartsClean`), `WatchdogIsPatient`
(`WatchdogPatience`) and `RunnerTypes` (`RunnerTypeOK`). The invariant
`RunnerInv` adds the handshake of runner and script (a script lives only while the
runner waits for it, and the pending return value agrees with how it ended unless the
time-out struck), which
files the running script has finished, and that results belong to the scripts
behind. The last of these needs that no script is in the campaign twice. For the watchdog a
second invariant, `PatienceInv`, says that an attempt that began without points has been
quiet for at least as many intervals as the watchdog has counted. The number of points is a sum over files, the recursive function `PointsUpTo`;
that it is a number, and zero without points, is shown by the least place where it
would fail.

**The scripts.** `ExperimentSweepProofs`: `SweepTypesHold`, `PointsAreAsLabelled`
(`MeasuredAsLabelled`), `SplitsFit` (`SplitFits`), `TargetsReached` (`TargetEpochReached`) and
`AtMostOneUnsaved` (`UnsavedAtMostOne`), for any of the scripts, in any order and with any
number of faults; `SplitsFit` up to splits that fail, `AtMostOneUnsaved` up to the moment
between truncating and dumping, as above. A script is a list of steps, and the theorems assume of that list only
`OrderedScripts`: what a benchmark depends on (header, build, split) is set earlier in
the same script and not overwritten in between, the epoch is one the benchmark runs
to, and a script that saves incrementally saves between any two points. TLC establishes it for the programs of the figure scripts as
`StepsInOrder` in the run `sweep`. The invariant `SweepInv` says that what header, build
cache, binary and split files hold is what the steps already taken have left there,
so that no point uses what an earlier script left behind. For the split files it says
so of every workload whose last split reached its end (`SplitInv`), and `UnsavedInv` ties the
truncated file to the step that saves it.

**The measurement.** `PointMeasurementProofs`: `MeasureTypes`, `ResultsOfThisRun`
(`ResultOfThisRun`), `WindowsComplete` (`WindowComplete`) and `CachesOfEveryNode`
(`CacheOfEveryNode`), for any number of nodes, epochs, points and faults. The final
state says nothing of where a line came from, so the invariant `MeasureInv` follows
the output from the kill on: of a node that has been started, what is read and
unread together (`Log`) was printed by the one process started in this attempt, begins
with the epochs in order and has no prompt before the last of them (`LogOK`). A node
that still waits has no process and nothing read, which is what the kill and the
clearing of the shell are for. With `only_need_tpt` the script stops reading at the
first shell with a throughput; that the other nodes have then ended their last epoch,
so that their latency files are new, follows from node 0 reporting an epoch after
all have ended it (`TellInv`). `BlocksOf` says what the parser takes from such a log.

**Only model-checked**, and why:

* `EveryOpAnswered`, `EveryOpReturns`, the end of the campaign, `EveryPointMeasured`:
  liveness, out of the prover's reach.
* `AssertsHold`: false in general (finding 1, and an update of a key that was never
  inserted), true of trees that start with an internal level and of the programs of
  `tree_tall`, which are not conditions the specification knows of.
* `StepsInOrder`: the hypothesis of the theorems on scripts; the programs are built
  with `FoldLeft`, and TLC evaluates them.
* `PercentilesExact`: sums over histograms (`MapThenSumSet`) and a sort
  (`SetToSortSeq`, a `CHOOSE` over sequences), both beyond induction here.

Induction over data is within reach where it can be put first-order: `LeastNat`
(from the well-foundedness of the naturals) gives the least counterexample, which
is how `Lands` and `PointsUpTo` are treated.

## Findings

1. `tree_root`, `Tree.cpp:350`. The first leaf split unlocks the leaf before it
   swings the root pointer, and has taken the root tag off. A client that splits
   one of the halves in between finds no parent anywhere, takes the old root entry
   and fails `assert(level > 1)`. Only a tree with no internal node is exposed; the
   YCSB benchmark loads it from every compute node at once (`ycsb_test.cpp:171`).
2. `slot_window`, `LocalLockTable.h:167`. `write_handover` left over from a release
   is ignored only while `write_window` is 0. A reader that opens a window counts
   the queued writers into it; the next of them is then handed over although no
   winner wrote during its operation, and its value is lost.
3. `slot_keys`, `LocalLockTable.h:212`. The comparison with the slot's key and the
   deposit are two steps. In between the slot may be freed and claimed for another
   key, which then gets the deposited value.
4. `leaf_duplicate`, `Tree.cpp:546`. The insert of an existing key looks among the
   entries it has read, and reads no further than the next bucket with a vacancy.
   A record behind an empty slot of its neighbourhood is missed and a second one is
   added; searches and updates then may use either.
5. `runner_resume`, `fig_12.py:107`. The runner's description promises a resume from
   the checkpoint and the plan of the cluster run relies on it
   (`llm/features/rdma-r650-11-nodes-run-1.md:96`). The runner only counts the
   points; a second attempt starts from nothing, and its first point overwrites
   those the first attempt had saved. For the same reason the watchdog of a second
   attempt does not see progress before it has passed the old count
   (`WatchdogPatience` is stated for attempts that begin without points).

## Not modelled

`range_query`; torn reads and versions; the size account, the use counts and the
deferred freeing of TreeCache; IdxCache's replacement; allocation and its
exhaustion; several memory nodes; memcached and the start of the cluster; buffers
and completion queues; CXL; the lock variants of
LocalLockTable that the default build does not call; values of variable length and
unsorted internal nodes (build options that are off). Of the harness:
`get_redundant_statistics`, which nothing calls; `run_harness.py` and
`fig_14_surrogate.py`, which run one command and copy or parse its output.
Plotting, set-up of machines and workload generation are input and output only.

## Plan

Done: the tree, the leaf, the slot, and the harness (runner, scripts, measurement).
Left, in the order of what a wrong step would cost:

1. `HopscotchRead`: searches that read a neighbourhood entry by entry against the
   segment write of an insertion; the hop-bitmap check (`Tree.cpp:1888`) and the
   versions, and how many writes one read may span. With it the abstraction of
   atomic leaf reads.
2. Several memory nodes: the unsignalled split write (`Tree.cpp:825`) against the
   root swap and the parent insertion on other nodes.
3. `RangeQuery`: the leaves a query collects from the cache against splits.
4. `TreeCacheSize`: `free_size`, replacement, eviction and deferred freeing, as a
   component of its own with an abstract bounded cache as its specification.
5. `Allocator`: chunks, thread-local chunks, the MALLOC message, exhaustion.
6. `Cluster`: joining, connecting and the barrier over memcached counters.
7. `CxlTransport`: what changes when node and lock word are stored in one copy.
8. Proofs: `AssertsHold` from a condition on the workloads (a first internal level,
   updates of present keys only); `PercentilesExact`.
