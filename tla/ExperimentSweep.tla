-------------------------- MODULE ExperimentSweep --------------------------
(***************************************************************************)
(* The figure scripts of exp/: each is a nest of loops that patches        *)
(* include/Common.h of an index, runs CMake and make in its directory,     *)
(* splits a workload, runs a benchmark on the cluster and records a point  *)
(* of a figure.  Header, CMake cache, binary and split files outlive the   *)
(* script: the next loop iteration and the next script find what this one  *)
(* has left.  The scripts run one after the other in any order, and a      *)
(* command may fail unnoticed, exceed its time limit or be killed.         *)
(*                                                                         *)
(* Loops run over two or three of the values in exp/params/*.json, chosen  *)
(* so that every branch of the script is taken.  CMake's many feature      *)
(* switches are one option "features" whose value is the method's name;    *)
(* ENABLE_CORO, READ_DELEGATION and WRITE_COMBINING, which are set together *)
(* and never but to on, are one option "common".                           *)
(* All nodes do the same, and one directory stands for its copy on each    *)
(* (fig_03d and fig_16 build and run on the master alone).                 *)
(***************************************************************************)
EXTENDS Integers, Sequences, FiniteSets, Functions, SequencesExt

CONSTANTS Scripts,     \* the scripts that are run
          MaxScripts,  \* bound on the number of scripts started
          MaxFaults    \* bound on failed, overdue and killed commands

ASSUME SweepBounds == MaxScripts \in Nat \ {0} /\ MaxFaults \in Nat

ForEach(seq, Body(_)) == FoldLeft(LAMBDA prog, x : prog \o Body(x), <<>>, seq)

-----------------------------------------------------------------------------
(* Configuration of a point *)

Settings == {"key", "val", "cache", "MN", "span", "epsilon", "neighbor", "hotspot"}
OptionNames == {"epoch", "common", "cache", "eviction", "features"}
Dirs == {"CHIME", "SMART", "ROLEX", "Marlin"}

\* method_maps, and 'CHIME' if method == 'Sherman' else method.
Indirect == [m \in {"CHIME-indirect", "SMART-RCU", "Marlin", "ROLEX-indirect"} |->
               CASE m = "CHIME-indirect" -> "CHIME" [] m = "SMART-RCU" -> "SMART"
                 [] m = "Marlin" -> "Marlin" [] OTHER -> "ROLEX"]
SpanOf(m) == CASE m \in {"SMART", "SMART-RCU"} -> 1
               [] m \in {"ROLEX", "ROLEX-indirect"} -> 16 [] OTHER -> 64

Defaults == [key |-> 8, val |-> 8, cache |-> 100, MN |-> 1, span |-> 64,
             epsilon |-> 16, neighbor |-> 8, hotspot |-> 30]

\* Settings that the code of an index depends on.
HeaderOf(as) ==
  {"key", "val", "cache", "MN"}
    \cup (IF as = "SMART" THEN {} ELSE {"span"})
    \cup (IF as = "ROLEX" THEN {"epsilon"} ELSE {})
    \cup (IF as \in {"CHIME", "ROLEX"} THEN {"neighbor", "hotspot"} ELSE {})

\* generate_sed_cmd: the settings it rewrites in Common.h, by method name.
\* Mutant: epsilon, which only ROLEX has, is left out.
GenerateSedNoEpsilon(as) ==
  {"key", "val", "cache", "MN"}
    \cup (IF as = "SMART" THEN {} ELSE {"span"})
    \cup (IF as \in {"CHIME", "ROLEX"} THEN {"neighbor", "hotspot"} ELSE {})
GenerateSed(as) ==
  {"key", "val", "cache", "MN"}
    \cup (IF as # "SMART" THEN {"span"} ELSE {})
    \cup (IF as = "ROLEX" THEN {"epsilon"} ELSE {})
    \cup (IF as \in {"CHIME", "ROLEX"} THEN {"neighbor", "hotspot"} ELSE {})

\* common_options and cmake_options[method].
OptionsOf(dir) == {"epoch", "common", "features"} \cup (IF dir = "ROLEX" THEN {} ELSE {"cache"})
                    \cup (IF dir \in {"CHIME", "Marlin"} THEN {"eviction"} ELSE {})
Options(dir, features) ==
  [o \in OptionsOf(dir) |-> CASE o = "epoch" -> "default" [] o \in {"common", "cache"} -> "on"
                              [] o = "eviction" -> "off" [] OTHER -> features]
\* str.replace of an option that the list does not hold changes nothing.
Replace(options, o, v) == IF o \in DOMAIN options THEN [options EXCEPT ![o] = v] ELSE options

\* The options of fig_04a, fig_04b and fig_04c.
CommonOnly == [o \in {"common"} |-> "on"]

\* Epochs a benchmark runs (TEST_EPOCH); MIDDLE only makes them longer.
EpochsOf(epoch) == CASE epoch = "long" -> 40 [] epoch = "short" -> 5 [] OTHER -> 10

\* Steps of a script.  Labels are <<series, x>>; nothing is wanted of a binary
\* that takes all its parameters on the command line.
Build(dir, sed, cfg, options) ==
  <<[op |-> "build", dir |-> dir, sed |-> [s \in sed |-> cfg[s]], options |-> options]>>
\* Split files are named after their workload.
Workloads == {"c", "c_uniform", "la", "a", "b", "40M", "120M"}
Split(w, cns, clients) == <<[op |-> "split", of |-> <<w, cns, clients>>]>>
Generate == <<[op |-> "generate"]>>
Point(label, dir, header, options, on, target) ==
  <<[op |-> "point", label |-> label, dir |-> dir, header |-> header,
     options |-> options, on |-> on, target |-> target]>>
NoSplit == <<"none", 0, 0>>
Zero(label) == <<[op |-> "zero", label |-> label]>>
Partial == <<[op |-> "partial"]>>
Save(file) == <<[op |-> "save", file |-> file]>>

\* The loop body most scripts share: the build, and the measurement that
\* needs what was built.
BuildFor(as, dir, cfg, options) == Build(dir, GenerateSed(as), cfg, options)
Measure(label, as, dir, cfg, options, on, target) ==
  Point(label, dir, [s \in HeaderOf(as) |-> cfg[s]], options, on, target)

DirOf(m) == IF m = "Sherman" THEN "CHIME" ELSE m
CfgOf(m) == [Defaults EXCEPT !.span = SpanOf(m)]
CNs == 10
-----------------------------------------------------------------------------
(* Motivation figures *)

fig_03a ==
  ForEach(<<"SMART", "Sherman", "ROLEX">>, LAMBDA m :
    ForEach(IF m = "SMART" THEN <<1>> ELSE <<32, 64>>, LAMBDA ampl :
      LET cfg == [Defaults EXCEPT !.cache = 60000, !.epsilon = ampl \div 2,
                                  !.span = IF m = "ROLEX" THEN ampl \div 2 ELSE ampl]
          options == Options(DirOf(m), m)
      IN BuildFor(m, DirOf(m), cfg, options) \o Split("c", CNs, 64)
           \o Measure(<<m, ampl>>, m, DirOf(m), cfg, options, <<"c", CNs, 64>>, 1)))
  \o Save("fig_03a")

fig_03b ==
  ForEach(<<"SMART", "Sherman", "ROLEX">>, LAMBDA m :
    LET cfg == [CfgOf(m) EXCEPT !.cache = 1000]
        options == Options(DirOf(m), m)
    IN BuildFor(m, DirOf(m), cfg, options)
         \o ForEach(<<8, 48>>, LAMBDA n :
              Split("c", CNs, n)
                \o Measure(<<m, n>>, m, DirOf(m), cfg, options, <<"c", CNs, n>>, 9)))
  \o Save("fig_03b")

\* cache_size is 100: the branch that turns eviction on is not taken.
fig_03c ==
  ForEach(<<"SMART", "Sherman", "ROLEX">>, LAMBDA m :
    LET cfg == [CfgOf(m) EXCEPT !.MN = 10]
        plain == Options(DirOf(m), m)
        options == IF m = "Sherman" /\ cfg.cache < 80 THEN Replace(plain, "eviction", "on") ELSE plain
    IN BuildFor(m, DirOf(m), cfg, options)
         \o ForEach(<<8, 48>>, LAMBDA n :
              Split("c", CNs, n)
                \o Measure(<<m, n>>, m, DirOf(m), cfg, options, <<"c", CNs, n>>, 9)))
  \o Save("fig_03c")

\* CMake without options: whatever the cache holds is built.
fig_03d ==
  ForEach(<<"Hopscotch", "RACE">>, LAMBDA m :
    ForEach(<<4, 20>>, LAMBDA ampl :
      Build("CHIME", {}, Defaults, <<>>)
        \o Point(<<m, ampl>>, "CHIME", <<>>, <<>>, NoSplit, 1)))
  \o Save("fig_03d")

\* The other switches and the header stay as they are.
fig_04a ==
  ForEach(<<"Segment", "Metadata before Segment">>, LAMBDA m :
    ForEach(<<8, 64>>, LAMBDA segment :
      Build("CHIME", {}, Defaults, CommonOnly)
        \o Point(<<m, segment>>, "CHIME", <<>>, CommonOnly, NoSplit, 8)))
  \o Save("fig_04a")

fig_04b ==
  ForEach(<<"Segment", "Segment and Metadata">>, LAMBDA m :
    ForEach(<<8, 64>>, LAMBDA key :
      Build("CHIME", {}, Defaults, CommonOnly)
        \o Point(<<m, key>>, "CHIME", <<>>, CommonOnly, NoSplit, 8)))
  \o Save("fig_04b")

fig_04c ==
  ForEach(<<1, 8>>, LAMBDA neighbor :
    Build("CHIME", {}, Defaults, CommonOnly)
      \o ForEach(<<8, 64>>, LAMBDA key :
           Point(<<neighbor, key>>, "CHIME", <<>>, CommonOnly, NoSplit, 10)))
  \o Save("fig_04c")

-----------------------------------------------------------------------------
(* Main results *)

\* SMART-SC is SMART with a sufficient cache; ROLEX does not run LOAD.
fig_12 ==
  ForEach(<<"c", "la">>, LAMBDA w :
    ForEach(IF w = "la" THEN <<"CHIME", "SMART-SC">> ELSE <<"CHIME", "ROLEX", "SMART-SC">>, LAMBDA m :
      ForEach(<<8, 32>>, LAMBDA n :
        LET as == IF m = "SMART-SC" THEN "SMART" ELSE m
            cfg == [CfgOf(as) EXCEPT !.cache = IF m = "SMART-SC" THEN 1000 ELSE 100]
            options == Replace(Options(as, as), "epoch", IF w = "c" THEN "middle" ELSE "default")
        IN BuildFor(as, as, cfg, options) \o Split(w, CNs, n)
             \o Measure(<<m, n>>, as, as, cfg, options, <<w, CNs, n>>, 10)
             \o Partial))
    \o Save("fig_12"))

\* cmake_option lives outside the loop over the workloads, so that SHORT stays
\* on after YCSB A; the target epoch follows the option, not the workload.
\* Mutant: the target follows the workload.
fig_13_target_by_workload(short, w) == IF w \in {"a", "d"} THEN 5 ELSE 9
fig_13_target(short, w) == IF short THEN 5 ELSE 9
fig_13 ==
  LET workloads == <<"la", "a", "b">>
  IN ForEach(<<"CHIME-indirect", "ROLEX-indirect">>, LAMBDA m :
       ForEach(<<1, 2, 3>>, LAMBDA i :
         LET as == Indirect[m]
             w == workloads[i]
             short == m = "ROLEX-indirect" /\ \E j \in 1 .. i : workloads[j] \in {"a", "d"}
             options == Replace(Options(as, m), "epoch", IF short THEN "short" ELSE "middle")
         IN IF m = "ROLEX-indirect" /\ w = "la" THEN Zero(<<m, w>>)
            ELSE BuildFor(as, as, CfgOf(m), options) \o Split(w, CNs, 32)
                   \o Measure(<<m, w>>, as, as, CfgOf(m), options, <<w, CNs, 32>>,
                              fig_13_target(short, w))))
     \o Save("fig_13")

\* The file is saved after each point as well as at the end.
\* Mutant: only after each method.
fig_14_SaveLate(x) == IF x = "120M" THEN Partial ELSE <<>>
fig_14_Save(x) == Partial
fig_14 ==
  ForEach(<<"CHIME", "Sherman", "SMART">>, LAMBDA m :
    LET cfg == [CfgOf(m) EXCEPT !.cache = 60000]
        options == Replace(Options(DirOf(m), m), "epoch", "middle")
    IN BuildFor(m, DirOf(m), cfg, options)
         \o ForEach(<<"40M", "120M">>, LAMBDA w :
              Split(w, CNs, 64)
                \o Measure(<<m, w>>, m, DirOf(m), cfg, options, <<w, CNs, 64>>, 1)
                \o fig_14_Save(w)))
  \o Save("fig_14")

fig_15a ==
  ForEach(<<"la", "a">>, LAMBDA w :
    Split(w, CNs, 32)
      \o ForEach(<<"Sherman", "S +Hopscotch Leaf Node">>, LAMBDA m :
           LET options == Options("CHIME", m)
           IN BuildFor("CHIME", "CHIME", Defaults, options)
                \o Measure(<<m, w>>, "CHIME", "CHIME", Defaults, options, <<w, CNs, 32>>, 9)
                \o Partial))
  \o Save("fig_15a")

fig_15b ==
  ForEach(<<"a", "b">>, LAMBDA w :
    Split(w, CNs, 32)
      \o ForEach(<<"ROLEX", "R +Hopscotch Leaf Node">>, LAMBDA m :
           LET options == Options("ROLEX", m)
           IN BuildFor("ROLEX", "ROLEX", Defaults, options)
                \o Measure(<<m, w>>, "ROLEX", "ROLEX", Defaults, options, <<w, CNs, 32>>, 9)
                \o Partial))
  \o Save("fig_15b")

\* In-depth figures.  SMART's metadata size is a constant; in ROLEX's
\* directory the header is patched as CHIME's, which leaves epsilon alone.
fig_16 ==
  ForEach(<<"CHIME w/ SV", "SMART", "ROLEX">>, LAMBDA m :
    ForEach(<<8, 256>>, LAMBDA key :
      LET dir == IF m = "ROLEX" THEN "ROLEX" ELSE "CHIME"
          cfg == [Defaults EXCEPT !.key = key]
          options == Options(dir, m)
      IN IF m = "SMART" THEN Zero(<<m, key>>)
         ELSE BuildFor("CHIME", dir, cfg, options)
                \o Measure(<<m, key>>, "CHIME", dir, cfg, options, NoSplit, 1)))
  \o Save("fig_16")

fig_17 ==
  ForEach(<<"SMART", "CHIME w/ SLR", "CHIME w/o SLR">>, LAMBDA m :
    LET as == IF m = "SMART" THEN "SMART" ELSE "CHIME"
        cfg == [Defaults EXCEPT !.cache = 100000]
        options == Replace(Options(as, m), "epoch", "middle")
    IN BuildFor(as, as, cfg, options)
         \o ForEach(<<8, 64>>, LAMBDA n :
              Split("c", CNs, n)
                \o Measure(<<m, n>>, as, as, cfg, options, <<"c", CNs, n>>, 10)))
  \o Save("fig_17")

-----------------------------------------------------------------------------
(* Sensitivity figures *)

fig_18a ==
  ForEach(<<"CHIME", "SMART", "Sherman", "ROLEX">>, LAMBDA m :
    LET options == Options(DirOf(m), m)
    IN BuildFor(m, DirOf(m), CfgOf(m), options)
         \o ForEach(<<50, 99>>, LAMBDA zipfian :
              Measure(<<m, zipfian>>, m, DirOf(m), CfgOf(m), options, NoSplit, 9)))
  \o Save("fig_18a")

\* ROLEX has no cache to shrink: its point at a small size is 0.
fig_18b ==
  ForEach(<<"SMART", "CHIME", "ROLEX">>, LAMBDA m :
    Split("c", CNs, 64)
      \o ForEach(<<0, 500>>, LAMBDA cache :
           LET cfg == [CfgOf(m) EXCEPT !.cache = cache]
               cached == IF cache = 0 THEN Replace(Options(m, m), "cache", "off")
                         ELSE Replace(Options(m, m), "eviction", "on")
               options == Replace(cached, "epoch", IF m = "SMART" THEN "long" ELSE "middle")
           IN IF m = "ROLEX" /\ cache < 50 THEN Zero(<<m, cache>>)
              ELSE BuildFor(m, m, cfg, options)
                     \o Measure(<<m, cache>>, m, m, cfg, options, <<"c", CNs, 64>>,
                                IF m = "SMART" THEN 30 ELSE 9)))
  \o Save("fig_18b")

fig_18c ==
  ForEach(<<"CHIME", "SMART", "Sherman", "ROLEX">>, LAMBDA m :
    Split("c", CNs, 64)
      \o ForEach(<<8, 512>>, LAMBDA value :
           LET cfg == [CfgOf(m) EXCEPT !.val = value]
               options == Options(DirOf(m), m)
           IN BuildFor(m, DirOf(m), cfg, options)
                \o Measure(<<m, value>>, m, DirOf(m), cfg, options, <<"c", CNs, 64>>, 9)))
  \o Save("fig_18c")

fig_18d ==
  ForEach(<<"CHIME-indirect", "SMART-RCU", "Marlin", "ROLEX-indirect">>, LAMBDA m :
    Split("c", CNs, 64)
      \o ForEach(<<8, 512>>, LAMBDA value :
           LET as == Indirect[m]
               cfg == [CfgOf(m) EXCEPT !.val = value]
               options == Options(as, m)
           IN BuildFor(as, as, cfg, options)
                \o Measure(<<m, value>>, as, as, cfg, options, <<"c", CNs, 64>>, 9)))
  \o Save("fig_18d")

fig_18e ==
  ForEach(<<"CHIME", "Sherman", "ROLEX">>, LAMBDA m :
    Split("c", CNs, 64)
      \o ForEach(<<8, 512>>, LAMBDA span :
           LET cfg == [Defaults EXCEPT !.span = span, !.cache = 10000]
               options == Options(DirOf(m), m)
           IN BuildFor(m, DirOf(m), cfg, options)
                \o Measure(<<m, span>>, m, DirOf(m), cfg, options, <<"c", CNs, 64>>, 9)))
  \o Save("fig_18e")

\* One sweep, two figures.
fig_18f_19b ==
  LET options == Replace(Options("CHIME", "CHIME"), "epoch", "middle")
  IN Split("c", CNs, 64)
       \o ForEach(<<2, 16>>, LAMBDA neighbor :
            LET cfg == [Defaults EXCEPT !.neighbor = neighbor, !.cache = 10000]
            IN BuildFor("CHIME", "CHIME", cfg, options)
                 \o Measure(<<"CHIME", neighbor>>, "CHIME", "CHIME", cfg, options, <<"c", CNs, 64>>, 9))
       \o Save("fig_18f_19b")

fig_19a ==
  LET options == Options("CHIME", "CHIME")
  IN Split("c", CNs, 64)
       \o ForEach(<<8, 512>>, LAMBDA span :
            LET cfg == [Defaults EXCEPT !.span = span, !.cache = 10000]
            IN BuildFor("CHIME", "CHIME", cfg, options)
                 \o Measure(<<"CHIME", span>>, "CHIME", "CHIME", cfg, options, <<"c", CNs, 64>>, 9))
       \o Save("fig_19a")

fig_19c ==
  LET options == Replace(Options("CHIME", "CHIME"), "epoch", "middle")
  IN Split("c", CNs, 64)
       \o ForEach(<<0, 50>>, LAMBDA hotspot :
            LET cfg == [Defaults EXCEPT !.hotspot = hotspot]
            IN BuildFor("CHIME", "CHIME", cfg, options)
                 \o Measure(<<"CHIME", hotspot>>, "CHIME", "CHIME", cfg, options, <<"c", CNs, 64>>, 9))
       \o Save("fig_19c")

-----------------------------------------------------------------------------
(* Extra experiments, on nine compute nodes *)

extra_value_size ==
  ForEach(<<8, 256>>, LAMBDA value :
    ForEach(<<"CHIME", "Sherman", "ROLEX">>, LAMBDA m :
      LET cfg == [CfgOf(m) EXCEPT !.val = value]
          options == Options(DirOf(m), m)
      IN BuildFor(m, DirOf(m), cfg, options) \o Split("a", 9, 32)
           \o Measure(<<m, value>>, m, DirOf(m), cfg, options, <<"a", 9, 32>>, 10)))
  \o Save("extra_value_size")

extra_cache_sensitivity ==
  ForEach(<<10, 1000>>, LAMBDA cache :
    ForEach(<<"CHIME", "Sherman", "SMART">>, LAMBDA m :
      LET cfg == [CfgOf(m) EXCEPT !.cache = cache]
          options == Options(DirOf(m), m)
      IN BuildFor(m, DirOf(m), cfg, options) \o Split("c", 9, 64)
           \o Measure(<<m, cache>>, m, DirOf(m), cfg, options, <<"c", 9, 64>>, 10)))
  \o Save("extra_cache_sensitivity")

\* The uniform workload is generated on first use, under all_execute's limit.
extra_uniform_dist ==
  ForEach(<<"zipfian", "uniform">>, LAMBDA dist :
    ForEach(<<"CHIME", "SMART">>, LAMBDA m :
      LET w == IF dist = "zipfian" THEN "c" ELSE "c_uniform"
          options == Options(m, m)
      IN BuildFor(m, m, CfgOf(m), options)
           \o (IF dist = "uniform" THEN Generate ELSE <<>>)
           \o Split(w, 9, 64)
           \o Measure(<<m, dist>>, m, m, CfgOf(m), options, <<w, 9, 64>>, 10)))
  \o Save("extra_uniform_dist")

\* The smoke test splits for one node and runs on two.
smoke_test ==
  LET options == Replace(Options("CHIME", "CHIME"), "epoch", "middle")
  IN BuildFor("CHIME", "CHIME", Defaults, options) \o Split("c", 1, 4)
       \o Measure(<<"CHIME", 4>>, "CHIME", "CHIME", Defaults, options, <<"c", 2, 4>>, 10)

Program ==
  [fig_03a |-> fig_03a, fig_03b |-> fig_03b, fig_03c |-> fig_03c, fig_03d |-> fig_03d,
   fig_04a |-> fig_04a, fig_04b |-> fig_04b, fig_04c |-> fig_04c, fig_12 |-> fig_12,
   fig_13 |-> fig_13, fig_14 |-> fig_14, fig_15a |-> fig_15a, fig_15b |-> fig_15b,
   fig_16 |-> fig_16, fig_17 |-> fig_17, fig_18a |-> fig_18a, fig_18b |-> fig_18b,
   fig_18c |-> fig_18c, fig_18d |-> fig_18d, fig_18e |-> fig_18e,
   fig_18f_19b |-> fig_18f_19b, fig_19a |-> fig_19a, fig_19c |-> fig_19c,
   extra_value_size |-> extra_value_size,
   extra_cache_sensitivity |-> extra_cache_sensitivity,
   extra_uniform_dist |-> extra_uniform_dist, smoke_test |-> smoke_test]

\* Scripts that save after every point.
Incremental == {"fig_12", "fig_14", "fig_15a", "fig_15b"}

ASSUME ScriptsKnown == Scripts \subseteq DOMAIN Program

-----------------------------------------------------------------------------
VARIABLES
  script,   \* the running script, or "none"
  at,       \* index of its next step
  started,  \* number of scripts started
  header,   \* Common.h of each directory
  cmake,    \* CMake cache of each directory
  binary,   \* what the binary of each directory was built from
  broken,   \* directories whose last build chain did not reach its end
  split,    \* what the split files of each workload were made for
  unsplit,  \* workloads whose last split did not reach its end
  uniform,  \* the uniform workload file: absent, part, whole
  data,     \* labels of the points in plot_data
  ondisk,   \* number of them in a file
  truncated, \* the partial file was opened for writing, and not yet dumped
  got,      \* what the last measurement ran: binary and split files
  faults

remoteVars == <<header, cmake, binary, broken, split, unsplit, uniform>>
localVars == <<data, ondisk, truncated, got>>
vars == <<script, at, started, header, cmake, binary, broken, split, unsplit, uniform,
          data, ondisk, truncated, got, faults>>

\* Left by whoever used the machines before.
Left == "left"
LeftValue == -1
LeftSplit == <<Left, 0, 0>>
NoBinary == [header |-> <<>>, cmake |-> <<>>]

Init ==
  /\ script = "none" /\ at = 0 /\ started = 0
  /\ header = [d \in Dirs |-> [s \in Settings |-> LeftValue]]
  /\ cmake = [d \in Dirs |-> [o \in OptionNames |-> Left]]
  /\ binary = [d \in Dirs |-> [header |-> header[d], cmake |-> cmake[d]]]
  /\ broken = {}
  /\ split = [w \in Workloads |-> LeftSplit] /\ unsplit = {} /\ uniform = "absent"
  /\ data = <<>> /\ ondisk = 0 /\ truncated = FALSE
  /\ got = [step |-> <<>>, binary |-> NoBinary, split |-> NoSplit, sound |-> TRUE, whole |-> TRUE]
  /\ faults = 0

Step == Program[script][at]
Doing(op) == script # "none" /\ at <= Len(Program[script]) /\ Step.op = op
Advance == at' = at + 1 /\ UNCHANGED <<script, started>>
Dies == script' = "none" /\ at' = 0 /\ UNCHANGED started
Fault == faults < MaxFaults /\ faults' = faults + 1

\* sed and cmake -D change what they name and keep the rest.
\* Mutant: they write what they name and nothing else.
OverwriteOnly(f, g) == g
Overwrite(f, g) == [x \in DOMAIN f |-> IF x \in DOMAIN g THEN g[x] ELSE f[x]]
Patched == Overwrite(header[Step.dir], Step.sed)
Configured == Overwrite(cmake[Step.dir], Step.options)

StartScript(s) ==
  /\ script = "none" /\ started < MaxScripts
  /\ script' = s /\ at' = 1 /\ started' = started + 1
  /\ data' = <<>> /\ ondisk' = 0 /\ truncated' = FALSE
  /\ UNCHANGED <<remoteVars, got, faults>>

EndScript ==
  /\ script # "none" /\ at > Len(Program[script])
  /\ Dies
  /\ UNCHANGED <<remoteVars, localVars, faults>>

\* sed, cmake, make clean and make, each only if the one before succeeded.
BuildRuns ==
  /\ Doing("build")
  /\ header' = [header EXCEPT ![Step.dir] = Patched]
  /\ cmake' = [cmake EXCEPT ![Step.dir] = Configured]
  /\ binary' = [binary EXCEPT ![Step.dir] = [header |-> Patched, cmake |-> Configured]]
  /\ broken' = broken \ {Step.dir}
  /\ Advance
  /\ UNCHANGED <<split, unsplit, uniform, localVars, faults>>

\* How far a chain gets that does not reach its end: the header is patched or
\* not, the cache written or not, the binary still the old one or none.
Cut ==
  \E reached \in {"nothing", "sed", "cmake", "clean"} :
    /\ header' = IF reached = "nothing" THEN header
                 ELSE [header EXCEPT ![Step.dir] = Patched]
    /\ cmake' = IF reached \in {"nothing", "sed"} THEN cmake
                ELSE [cmake EXCEPT ![Step.dir] = Configured]
    /\ binary' = IF reached = "clean" THEN [binary EXCEPT ![Step.dir] = NoBinary] ELSE binary
    /\ broken' = broken \cup {Step.dir}

\* all_execute looks at no exit code: the script goes on.
BuildFails ==
  /\ Doing("build") /\ Fault
  /\ Cut
  /\ Advance
  /\ UNCHANGED <<split, unsplit, uniform, localVars>>

\* FunctionTimedOut is raised outside of the try block.
BuildTimesOut ==
  /\ Doing("build") /\ Fault
  /\ Cut
  /\ Dies
  /\ UNCHANGED <<split, unsplit, uniform, localVars>>

\* split_workload.py reads a file that is there, but for the uniform workload.
InputThere == Step.of[1] = "c_uniform" => uniform # "absent"

\* Mutant: a workload that has been split is not split again.
SplitRunsOnce ==
  /\ Doing("split") /\ InputThere
  /\ split' = IF split[Step.of[1]] = LeftSplit THEN [split EXCEPT ![Step.of[1]] = Step.of] ELSE split
  /\ unsplit' = unsplit \ {Step.of[1]}
  /\ Advance
  /\ UNCHANGED <<header, cmake, binary, broken, uniform, localVars, faults>>
SplitRuns ==
  /\ Doing("split") /\ InputThere
  /\ split' = [split EXCEPT ![Step.of[1]] = Step.of]
  /\ unsplit' = unsplit \ {Step.of[1]}
  /\ Advance
  /\ UNCHANGED <<header, cmake, binary, broken, uniform, localVars, faults>>

\* A split that does not reach its end leaves the files of the one before, or
\* files of both.
CutSplit ==
  /\ split' \in {split, [split EXCEPT ![Step.of[1]] = LeftSplit]}
  /\ unsplit' = unsplit \cup {Step.of[1]}

\* No exit code is looked at here either: the script goes on to measure.
SplitFails ==
  /\ Doing("split")
  /\ IF InputThere THEN Fault ELSE UNCHANGED faults
  /\ CutSplit
  /\ Advance
  /\ UNCHANGED <<header, cmake, binary, broken, uniform, localVars>>

SplitTimesOut ==
  /\ Doing("split") /\ Fault
  /\ CutSplit
  /\ Dies
  /\ UNCHANGED <<header, cmake, binary, broken, uniform, localVars>>

\* Nothing is generated if the file exists, whole or not.
GenerateUniform ==
  /\ Doing("generate")
  /\ uniform' = IF uniform = "absent" THEN "whole" ELSE uniform
  /\ Advance
  /\ UNCHANGED <<header, cmake, binary, broken, split, unsplit, localVars, faults>>

\* Unnoticed, or beyond the time limit.
GenerateFails ==
  /\ Doing("generate") /\ uniform = "absent" /\ Fault
  /\ uniform' \in {"absent", "part"}
  /\ Advance \/ Dies
  /\ UNCHANGED <<header, cmake, binary, broken, split, unsplit, localVars>>

\* One successful measurement; without a binary it is tried for ever.
MeasurePoint ==
  /\ Doing("point") /\ binary[Step.dir] # NoBinary
  /\ got' = [step |-> Step, binary |-> binary[Step.dir],
             split |-> IF Step.on = NoSplit THEN NoSplit ELSE split[Step.on[1]],
             sound |-> Step.dir \notin broken, whole |-> Step.on[1] \notin unsplit]
  /\ data' = Append(data, Step.label)
  /\ Advance
  /\ UNCHANGED <<remoteVars, ondisk, truncated, faults>>

RecordZero ==
  /\ Doing("zero")
  /\ data' = Append(data, Step.label)
  /\ Advance
  /\ UNCHANGED <<remoteVars, ondisk, truncated, got, faults>>

\* open(mode='w') truncates the partial file before json.dump fills it: a kill
\* in between leaves it without a point.
OpenPartial ==
  /\ Doing("partial") /\ ~truncated
  /\ ondisk' = 0 /\ truncated' = TRUE
  /\ UNCHANGED <<script, at, started, remoteVars, data, got, faults>>

WritePartial ==
  /\ Doing("partial") /\ truncated
  /\ ondisk' = Len(data) /\ truncated' = FALSE
  /\ Advance
  /\ UNCHANGED <<remoteVars, data, got, faults>>

\* Another file: while it is written the partial file still has all the points.
SaveFigure ==
  /\ Doing("save")
  /\ data' = <<>> /\ ondisk' = 0
  /\ Advance
  /\ UNCHANGED <<remoteVars, truncated, got, faults>>

\* By the runner's timeout or watchdog, or by hand.
Killed ==
  /\ script # "none" /\ Fault
  /\ Dies
  /\ UNCHANGED <<remoteVars, localVars>>

Ended == script = "none" /\ started = MaxScripts /\ UNCHANGED vars

\* A script without a binary retries its measurement until it is killed; the
\* smoke test alone ends after three attempts.
Retries ==
  /\ Doing("point") /\ binary[Step.dir] = NoBinary /\ script # "smoke_test"
  /\ UNCHANGED vars
SmokeTestFails ==
  /\ Doing("point") /\ binary[Step.dir] = NoBinary /\ script = "smoke_test"
  /\ Dies
  /\ UNCHANGED <<remoteVars, localVars, faults>>

Next == \/ \E s \in Scripts : StartScript(s)
        \/ EndScript
        \/ BuildRuns \/ BuildFails \/ BuildTimesOut
        \/ SplitRuns \/ SplitFails \/ SplitTimesOut
        \/ GenerateUniform \/ GenerateFails
        \/ MeasurePoint \/ Retries \/ SmokeTestFails \/ RecordZero
        \/ OpenPartial \/ WritePartial \/ SaveFigure \/ Killed \/ Ended

Spec == Init /\ [][Next]_vars

-----------------------------------------------------------------------------
(* Properties *)

\* A script stays within its steps, every Common.h and CMake cache keeps all its
\* settings whatever the scripts rewrite, and no more is on disk than was measured.
SweepTypeOK ==
  /\ script \in Scripts \cup {"none"}
  /\ script # "none" => at \in 1 .. Len(Program[script]) + 1
  /\ broken \subseteq Dirs /\ unsplit \subseteq Workloads /\ DOMAIN split = Workloads
  /\ uniform \in {"absent", "part", "whole"}
  /\ \A d \in Dirs : DOMAIN header[d] = Settings /\ DOMAIN cmake[d] = OptionNames
  /\ ondisk \in 0 .. Len(data) /\ truncated \in BOOLEAN

\* The header settings a point stands for are those its binary was built with:
\* none is inherited from an earlier iteration, method or script.  (Unless the
\* build chain broke, which the scripts do not notice.)
MeasuredAsLabelled ==
  got.step # <<>> /\ got.sound =>
    /\ \A s \in DOMAIN got.step.header : got.binary.header[s] = got.step.header[s]
    /\ \A o \in DOMAIN got.step.options : got.binary.cmake[o] = got.step.options[o]

\* The split files a benchmark reads were made for its nodes and clients, not
\* for those of an earlier point or script.  (Unless the last split of the
\* workload failed, which the scripts do not notice; the smoke test alone splits
\* for fewer nodes than it runs on.)
SplitFits ==
  got.step # <<>> /\ got.step.on # NoSplit /\ got.whole =>
    \/ got.split = got.step.on
    \/ got.step.on = <<"c", 2, 4>> /\ got.split = <<"c", 1, 4>>

\* The epoch whose numbers are taken is one that the binary runs to.
TargetEpochReached ==
  got.step # <<>> /\ got.sound /\ "epoch" \in DOMAIN got.step.options =>
    got.step.target <= EpochsOf(got.binary.cmake["epoch"])

\* A script that saves incrementally loses at most the point in hand, if it is
\* killed at any moment but while the file is truncated and not yet dumped.
UnsavedAtMostOne == script \in Incremental /\ ~truncated => Len(data) - ondisk <= 1

-----------------------------------------------------------------------------
(* What the order of a script's steps owes to its points *)

Gives(f, g) == \A x \in DOMAIN g : x \in DOMAIN f /\ f[x] = g[x]
BuildsIn(step, dir) == step.op = "build" /\ step.dir = dir
SplitsOf(step, w) == step.op = "split" /\ step.of[1] = w
Records(step) == step.op \in {"point", "zero"}
Saves(step) == step.op \in {"partial", "save"}

\* Step j is the last build in dir, or the last split of w, before step i.
LastBuild(prog, j, i, dir) ==
  BuildsIn(prog[j], dir) /\ \A k \in j + 1 .. i - 1 : ~BuildsIn(prog[k], dir)
LastSplit(prog, j, i, w) ==
  SplitsOf(prog[j], w) /\ \A k \in j + 1 .. i - 1 : ~SplitsOf(prog[k], w)

PointPrepared(prog, i) ==
  /\ \E j \in 1 .. i - 1 : /\ LastBuild(prog, j, i, prog[i].dir)
                           /\ Gives(prog[j].sed, prog[i].header)
                           /\ Gives(prog[j].options, prog[i].options)
  /\ prog[i].on # NoSplit =>
       \E j \in 1 .. i - 1 : /\ LastSplit(prog, j, i, prog[i].on[1])
                            /\ \/ prog[j].of = prog[i].on
                               \/ prog[i].on = <<"c", 2, 4>> /\ prog[j].of = <<"c", 1, 4>>
  /\ "epoch" \in DOMAIN prog[i].options => prog[i].target <= EpochsOf(prog[i].options["epoch"])

BuildKnown(step) ==
  step.dir \in Dirs /\ DOMAIN step.sed \subseteq Settings /\ DOMAIN step.options \subseteq OptionNames

SavesBetween(prog) ==
  \A i \in 1 .. Len(prog) : \A j \in 1 .. i - 1 :
    Records(prog[i]) /\ Records(prog[j]) => \E k \in j + 1 .. i - 1 : Saves(prog[k])

Ordered(s) ==
  /\ Len(Program[s]) \in Nat
  /\ \A i \in 1 .. Len(Program[s]) :
       /\ Program[s][i].op = "build" => BuildKnown(Program[s][i])
       /\ Program[s][i].op = "split" => Program[s][i].of[1] \in Workloads
       /\ Program[s][i].op = "point" => PointPrepared(Program[s], i)
  /\ s \in Incremental => SavesBetween(Program[s])

\* In the text of every script the last build of a point's index before the point
\* sets all that the point stands for, the last split of its workload is the one
\* it runs on, its epoch is one it runs to, and a script that saves incrementally does
\* so between any two points.  (Checked when the script starts.)
StepsInOrder == script # "none" /\ at = 1 => Ordered(script)
=============================================================================
