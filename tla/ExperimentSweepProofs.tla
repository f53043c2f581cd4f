----------------------- MODULE ExperimentSweepProofs -----------------------
(***************************************************************************)
(* Proofs about the figure scripts: what a script may rely on although     *)
(* headers, caches, binaries and split files outlive the scripts that      *)
(* wrote them, for any number of scripts in any order and any number of    *)
(* commands that fail, are overdue or are killed.                          *)
(*                                                                         *)
(* All that is asked of the scripts is the order of their steps            *)
(* (Ordered), which TLC establishes for each of them as StepsInOrder: what *)
(* a nest of loops evaluates to is a fold, out of reach of a proof without *)
(* induction over data.                                                    *)
(***************************************************************************)
EXTENDS ExperimentSweep, TLAPS

OrderedScripts == \A s \in Scripts : Ordered(s)

Labels == {Program[x[1]][x[2]].label : x \in Scripts \X Nat}

SweepTypes ==
  /\ script \in Scripts \cup {"none"}
  /\ script # "none" => at \in 1 .. Len(Program[script]) + 1
  /\ DOMAIN header = Dirs /\ DOMAIN cmake = Dirs /\ DOMAIN binary = Dirs
  /\ \A d \in Dirs : DOMAIN header[d] = Settings /\ DOMAIN cmake[d] = OptionNames
  /\ broken \subseteq Dirs
  /\ uniform \in {"absent", "part", "whole"}
  /\ DOMAIN split = Workloads /\ unsplit \subseteq Workloads
  /\ data \in Seq(Labels) /\ ondisk \in 0 .. Len(data) /\ truncated \in BOOLEAN

\* A directory whose last build chain reached its end holds what the latest
\* build step of the running script asked for.
BuiltInv ==
  script # "none" =>
    \A d \in Dirs : \A j \in 1 .. at - 1 :
      LastBuild(Program[script], j, at, d) /\ d \notin broken =>
        /\ Gives(binary[d].header, Program[script][j].sed)
        /\ Gives(binary[d].cmake, Program[script][j].options)

\* A workload whose last split reached its end has the files that the latest
\* split step of the running script asked for.
SplitInv ==
  script # "none" =>
    \A w \in Workloads : \A j \in 1 .. at - 1 :
      LastSplit(Program[script], j, at, w) /\ w \notin unsplit => split[w] = Program[script][j].of

\* The partial file is truncated only within the step that saves it; at other
\* times a point that is not on disk was recorded since the last save.
UnsavedInv ==
  script \in Incremental =>
    \/ truncated = TRUE /\ Program[script][at].op = "partial"
    \/ truncated = FALSE /\ ondisk = Len(data)
    \/ /\ truncated = FALSE /\ Len(data) = ondisk + 1
       /\ \E j \in 1 .. at - 1 : /\ Records(Program[script][j])
                                 /\ \A k \in j + 1 .. at - 1 : ~Saves(Program[script][k])

MeasureInv == MeasuredAsLabelled /\ SplitFits /\ TargetEpochReached

SweepInv == SweepTypes /\ BuiltInv /\ SplitInv /\ UnsavedInv /\ MeasureInv

-----------------------------------------------------------------------------
(* Types *)

\* No script is called none.
LEMMA NoneIsNoScript == "none" \notin Scripts
<1>1. "none" \notin DOMAIN Program
  BY DEF Program
<1> QED BY <1>1, ScriptsKnown

\* None of those that save incrementally either.
LEMMA NoneIsNotIncremental == "none" \notin Incremental
  BY DEF Incremental

\* The step a script is at.
LEMMA StepFacts ==
  ASSUME OrderedScripts, SweepTypes, NEW op, Doing(op)
  PROVE  /\ script \in Scripts /\ script # "none" /\ Len(Program[script]) \in Nat
         /\ at \in 1 .. Len(Program[script]) /\ Step = Program[script][at] /\ Step.op = op
  BY DEF OrderedScripts, Ordered, SweepTypes, Doing, Step

\* A build step names a directory and settings that exist.
LEMMA BuildFacts ==
  ASSUME OrderedScripts, SweepTypes, Doing("build")
  PROVE  BuildKnown(Step)
<1>1. /\ script \in Scripts /\ at \in 1 .. Len(Program[script])
      /\ Step = Program[script][at] /\ Step.op = "build"
  BY StepFacts
<1> QED BY <1>1 DEF OrderedScripts, Ordered

\* A split step names a workload that exists.
LEMMA SplitFacts ==
  ASSUME OrderedScripts, SweepTypes, Doing("split")
  PROVE  Step.of[1] \in Workloads
<1>1. /\ script \in Scripts /\ at \in 1 .. Len(Program[script])
      /\ Step = Program[script][at] /\ Step.op = "split"
  BY StepFacts
<1> QED BY <1>1 DEF OrderedScripts, Ordered

\* Rewriting settings keeps the others.
LEMMA OverwriteFacts ==
  ASSUME NEW f, NEW g
  PROVE  /\ DOMAIN Overwrite(f, g) = DOMAIN f
         /\ DOMAIN g \subseteq DOMAIN f => Gives(Overwrite(f, g), g)
  BY DEF Overwrite, Gives

\* A program counter that moves on stays within the script.
LEMMA AdvanceTypes ==
  ASSUME OrderedScripts, SweepTypes, NEW op, Doing(op), Advance
  PROVE  script' \in Scripts \cup {"none"} /\ (script' # "none" => at' \in 1 .. Len(Program[script']) + 1)
<1>1. /\ script \in Scripts /\ Len(Program[script]) \in Nat /\ at \in 1 .. Len(Program[script])
  BY StepFacts
<1> QED BY <1>1 DEF Advance

\* A build that reaches its end, or does not.
LEMMA BuildTypes ==
  ASSUME OrderedScripts, SweepTypes, Doing("build"),
         \/ /\ header' = [header EXCEPT ![Step.dir] = Patched]
            /\ cmake' = [cmake EXCEPT ![Step.dir] = Configured]
            /\ binary' = [binary EXCEPT ![Step.dir] = [header |-> Patched, cmake |-> Configured]]
            /\ broken' = broken \ {Step.dir}
         \/ Cut
  PROVE  /\ DOMAIN header' = Dirs /\ DOMAIN cmake' = Dirs /\ DOMAIN binary' = Dirs
         /\ \A d \in Dirs : DOMAIN header'[d] = Settings /\ DOMAIN cmake'[d] = OptionNames
         /\ broken' \subseteq Dirs
<1>1. Step.dir \in Dirs
  BY BuildFacts DEF BuildKnown
<1>2. PICK p, c, d0 : p = Patched /\ c = Configured /\ d0 = Step.dir
  OBVIOUS
<1>3. DOMAIN p = Settings /\ DOMAIN c = OptionNames
  BY <1>1, <1>2, OverwriteFacts DEF Patched, Configured, SweepTypes
<1>4. /\ header' = header \/ header' = [header EXCEPT ![d0] = p]
      /\ cmake' = cmake \/ cmake' = [cmake EXCEPT ![d0] = c]
      /\ binary' = binary \/ \E b : binary' = [binary EXCEPT ![d0] = b]
      /\ broken' \subseteq broken \cup {d0}
  BY <1>2 DEF Cut
<1>5. DOMAIN header' = Dirs /\ \A d \in Dirs : DOMAIN header'[d] = Settings
  BY <1>1, <1>2, <1>3, <1>4 DEF SweepTypes
<1>6. DOMAIN cmake' = Dirs /\ \A d \in Dirs : DOMAIN cmake'[d] = OptionNames
  BY <1>1, <1>2, <1>3, <1>4 DEF SweepTypes
<1>7. DOMAIN binary' = Dirs
  BY <1>4 DEF SweepTypes
<1>8. broken' \subseteq Dirs
  BY <1>1, <1>2, <1>4 DEF SweepTypes
<1> QED BY <1>5, <1>6, <1>7, <1>8

\* A point is recorded.
LEMMA RecordTypes ==
  ASSUME OrderedScripts, SweepTypes, NEW op, Doing(op), data' = Append(data, Step.label), UNCHANGED ondisk
  PROVE  data' \in Seq(Labels) /\ ondisk' \in 0 .. Len(data') /\ Len(data') = Len(data) + 1
<1>1. script \in Scripts /\ at \in 1 .. Len(Program[script]) /\ Len(Program[script]) \in Nat
      /\ Step = Program[script][at]
  BY StepFacts
<1>2. <<script, at>> \in Scripts \X Nat
  BY <1>1
<1>3. Step.label \in Labels
  BY <1>1, <1>2 DEF Labels
<1>4. data \in Seq(Labels) /\ ondisk \in 0 .. Len(data) /\ Len(data) \in Nat
  BY DEF SweepTypes
<1>5. data' \in Seq(Labels) /\ Len(data') = Len(data) + 1
  BY <1>3, <1>4
<1> QED BY <1>4, <1>5

\* Steps of a script that touch neither its data nor the machines' directories.
LEMMA TypesFrame ==
  ASSUME OrderedScripts, SweepTypes,
         script' \in Scripts \cup {"none"}, script' # "none" => at' \in 1 .. Len(Program[script']) + 1,
         UNCHANGED <<header, cmake, binary, broken, data>>,
         DOMAIN split' = Workloads, unsplit' \subseteq Workloads,
         uniform' \in {"absent", "part", "whole"}, ondisk' \in 0 .. Len(data), truncated' \in BOOLEAN
  PROVE  SweepTypes'
  BY DEF SweepTypes

\* Every step keeps the types.
LEMMA StepTypes ==
  ASSUME OrderedScripts, SweepTypes, [Next]_vars
  PROVE  SweepTypes'
<1> USE DEF remoteVars, localVars
<1>0. /\ data \in Seq(Labels) /\ ondisk \in 0 .. Len(data) /\ Len(data) \in Nat
      /\ uniform \in {"absent", "part", "whole"} /\ truncated \in BOOLEAN
      /\ DOMAIN split = Workloads /\ unsplit \subseteq Workloads
      /\ Len(<<>>) = 0 /\ <<>> \in Seq(Labels)
  BY DEF SweepTypes
<1>1. ASSUME NEW s \in Scripts, StartScript(s) PROVE SweepTypes'
  <2>1. Len(Program[s]) \in Nat
    BY DEF OrderedScripts, Ordered
  <2>2. script' = s /\ at' = 1 /\ 1 \in 1 .. Len(Program[s]) + 1
    BY <1>1, <2>1 DEF StartScript
  <2>3. /\ UNCHANGED <<header, cmake, binary, broken, split, unsplit, uniform>>
        /\ data' = <<>> /\ ondisk' = 0 /\ truncated' = FALSE
    BY <1>1 DEF StartScript
  <2>4. data' \in Seq(Labels) /\ ondisk' \in 0 .. Len(data')
    BY <1>0, <2>3
  <2>6. truncated' \in BOOLEAN
    BY <2>3
  <2>5. script' \in Scripts \cup {"none"} /\ (script' # "none" => at' \in 1 .. Len(Program[script']) + 1)
    BY <2>2
  <2> QED BY <2>3, <2>4, <2>5, <2>6 DEF SweepTypes
<1>2. CASE EndScript
  BY <1>0, <1>2, TypesFrame DEF EndScript, Dies
<1>3. CASE BuildRuns
  <2>1. /\ DOMAIN header' = Dirs /\ DOMAIN cmake' = Dirs /\ DOMAIN binary' = Dirs
        /\ \A d \in Dirs : DOMAIN header'[d] = Settings /\ DOMAIN cmake'[d] = OptionNames
        /\ broken' \subseteq Dirs
    BY <1>3, BuildTypes DEF BuildRuns
  <2>2. script' \in Scripts \cup {"none"} /\ (script' # "none" => at' \in 1 .. Len(Program[script']) + 1)
    BY <1>3, AdvanceTypes DEF BuildRuns
  <2> QED BY <1>0, <1>3, <2>1, <2>2 DEF BuildRuns, SweepTypes
<1>4. CASE BuildFails \/ BuildTimesOut
  <2>1. /\ DOMAIN header' = Dirs /\ DOMAIN cmake' = Dirs /\ DOMAIN binary' = Dirs
        /\ \A d \in Dirs : DOMAIN header'[d] = Settings /\ DOMAIN cmake'[d] = OptionNames
        /\ broken' \subseteq Dirs
    BY <1>4, BuildTypes DEF BuildFails, BuildTimesOut
  <2>2. script' \in Scripts \cup {"none"} /\ (script' # "none" => at' \in 1 .. Len(Program[script']) + 1)
    BY <1>4, AdvanceTypes DEF BuildFails, BuildTimesOut, Dies
  <2> QED BY <1>0, <1>4, <2>1, <2>2 DEF BuildFails, BuildTimesOut, SweepTypes
<1>5. CASE SplitRuns
  <2>1. DOMAIN split' = Workloads /\ unsplit' \subseteq Workloads
    BY <1>0, <1>5 DEF SplitRuns
  <2>2. script' \in Scripts \cup {"none"} /\ (script' # "none" => at' \in 1 .. Len(Program[script']) + 1)
    BY <1>5, AdvanceTypes DEF SplitRuns
  <2> QED BY <1>0, <1>5, <2>1, <2>2, TypesFrame DEF SplitRuns
<1>6. CASE SplitFails \/ SplitTimesOut
  <2>1. DOMAIN split' = Workloads /\ unsplit' \subseteq Workloads
    <3>1. Doing("split") /\ CutSplit
      BY <1>6 DEF SplitFails, SplitTimesOut
    <3>2. Step.of[1] \in Workloads
      BY <3>1, SplitFacts
    <3> QED BY <1>0, <3>1, <3>2 DEF CutSplit
  <2>2. script' \in Scripts \cup {"none"} /\ (script' # "none" => at' \in 1 .. Len(Program[script']) + 1)
    BY <1>6, AdvanceTypes DEF SplitFails, SplitTimesOut, Dies
  <2> QED BY <1>0, <1>6, <2>1, <2>2, TypesFrame DEF SplitFails, SplitTimesOut
<1>7. CASE GenerateUniform \/ GenerateFails
  <2>1. script' \in Scripts \cup {"none"} /\ (script' # "none" => at' \in 1 .. Len(Program[script']) + 1)
    BY <1>7, AdvanceTypes DEF GenerateUniform, GenerateFails, Dies
  <2> QED BY <1>0, <1>7, <2>1, TypesFrame DEF GenerateUniform, GenerateFails
<1>8. CASE MeasurePoint
  <2>1. data' \in Seq(Labels) /\ ondisk' \in 0 .. Len(data')
    BY <1>8, RecordTypes DEF MeasurePoint
  <2>2. script' \in Scripts \cup {"none"} /\ (script' # "none" => at' \in 1 .. Len(Program[script']) + 1)
    BY <1>8, AdvanceTypes DEF MeasurePoint
  <2> QED BY <1>8, <2>1, <2>2 DEF MeasurePoint, SweepTypes
<1>9. CASE RecordZero
  <2>1. data' \in Seq(Labels) /\ ondisk' \in 0 .. Len(data')
    BY <1>9, RecordTypes DEF RecordZero
  <2>2. script' \in Scripts \cup {"none"} /\ (script' # "none" => at' \in 1 .. Len(Program[script']) + 1)
    BY <1>9, AdvanceTypes DEF RecordZero
  <2>3. UNCHANGED <<header, cmake, binary, broken, split, unsplit, uniform, truncated>>
    BY <1>9 DEF RecordZero
  <2> QED BY <2>1, <2>2, <2>3 DEF SweepTypes
<1>10. CASE OpenPartial \/ WritePartial
  <2>1. script' \in Scripts \cup {"none"} /\ (script' # "none" => at' \in 1 .. Len(Program[script']) + 1)
    BY <1>10, AdvanceTypes DEF OpenPartial, WritePartial, SweepTypes
  <2>2. ondisk' \in 0 .. Len(data)
    BY <1>0, <1>10 DEF OpenPartial, WritePartial
  <2>3. truncated' \in BOOLEAN
    BY <1>10 DEF OpenPartial, WritePartial
  <2> QED BY <1>0, <1>10, <2>1, <2>2, <2>3, TypesFrame DEF OpenPartial, WritePartial
<1>11. CASE SaveFigure
  <2>1. script' \in Scripts \cup {"none"} /\ (script' # "none" => at' \in 1 .. Len(Program[script']) + 1)
    BY <1>11, AdvanceTypes DEF SaveFigure
  <2> QED BY <1>0, <1>11, <2>1 DEF SaveFigure, SweepTypes
<1>12. CASE Killed \/ SmokeTestFails
  BY <1>0, <1>12, TypesFrame DEF Killed, SmokeTestFails, Dies
<1>13. CASE UNCHANGED vars
  BY <1>13 DEF vars, SweepTypes
<1> QED
  BY <1>1, <1>2, <1>3, <1>4, <1>5, <1>6, <1>7, <1>8, <1>9, <1>10, <1>11, <1>12, <1>13
  DEF Next, Ended, Retries

-----------------------------------------------------------------------------
(* What the directories and the split files hold *)

\* The script moves on over a step: what it did not build stays as it was.
LEMMA BuiltAdvance ==
  ASSUME OrderedScripts, SweepTypes, BuiltInv, NEW op, Doing(op), Advance,
         \A d \in Dirs : BuildsIn(Step, d) /\ d \notin broken' =>
           Gives(binary'[d].header, Step.sed) /\ Gives(binary'[d].cmake, Step.options),
         \A d \in Dirs : ~BuildsIn(Step, d) => binary'[d] = binary[d] /\ (d \notin broken' => d \notin broken)
  PROVE  BuiltInv'
<1>1. /\ script' = script /\ at' = at + 1 /\ at \in 1 .. Len(Program[script]) /\ Len(Program[script]) \in Nat
      /\ script # "none" /\ Step = Program[script][at]
  BY StepFacts DEF Advance
<1>2. SUFFICES ASSUME NEW d \in Dirs, NEW j \in 1 .. at, LastBuild(Program[script], j, at + 1, d), d \notin broken'
               PROVE  Gives(binary'[d].header, Program[script][j].sed) /\ Gives(binary'[d].cmake, Program[script][j].options)
  <2>1. at' = at + 1 /\ 1 .. at' - 1 = 1 .. at
    BY <1>1
  <2>2. \A d \in Dirs : \A j \in 1 .. at :
          LastBuild(Program[script], j, at', d) <=> LastBuild(Program[script], j, at + 1, d)
    BY <2>1
  <2> QED BY <1>1, <2>1, <2>2 DEF BuiltInv
<1>3. CASE j = at
  BY <1>1, <1>2, <1>3 DEF LastBuild
<1>4. CASE j # at
  <2>1. j \in 1 .. at - 1 /\ at \in j + 1 .. (at + 1) - 1
    BY <1>1, <1>4
  <2>2. ~BuildsIn(Step, d)
    BY <1>1, <1>2, <2>1 DEF LastBuild
  <2>3. LastBuild(Program[script], j, at, d)
    <3>1. \A k \in j + 1 .. at - 1 : k \in j + 1 .. (at + 1) - 1
      BY <1>1
    <3> QED BY <1>2, <3>1 DEF LastBuild
  <2> QED BY <1>1, <1>2, <2>1, <2>2, <2>3 DEF BuiltInv
<1> QED BY <1>3, <1>4

\* Steps that build nothing.
LEMMA BuiltFrame ==
  ASSUME OrderedScripts, SweepTypes, BuiltInv, NEW op, op # "build", Doing(op), Advance,
         UNCHANGED <<binary, broken>>
  PROVE  BuiltInv'
<1>1. \A d \in Dirs : ~BuildsIn(Step, d)
  BY StepFacts DEF BuildsIn
<1> QED BY <1>1, BuiltAdvance

\* Every step keeps the directories at what was asked for.
LEMMA StepBuilt ==
  ASSUME OrderedScripts, SweepTypes, BuiltInv, [Next]_vars
  PROVE  BuiltInv'
<1> USE DEF remoteVars, localVars
<1>1. ASSUME NEW s \in Scripts, StartScript(s) PROVE BuiltInv'
  <2>1. script' = s /\ at' = 1
    BY <1>1 DEF StartScript
  <2> QED BY <2>1 DEF BuiltInv
<1>2. CASE script' = "none"
  BY <1>2 DEF BuiltInv
<1>3. CASE BuildRuns
  <2>1. Doing("build") /\ Advance
    BY <1>3 DEF BuildRuns
  <2>2. BuildKnown(Step) /\ Step.op = "build"
    BY <2>1, BuildFacts, StepFacts
  <2>3. PICK p, c, d0 : p = Patched /\ c = Configured /\ d0 = Step.dir
    OBVIOUS
  <2>4. Gives(p, Step.sed) /\ Gives(c, Step.options)
    <3>1. DOMAIN header[d0] = Settings /\ DOMAIN cmake[d0] = OptionNames
      BY <2>2, <2>3 DEF BuildKnown, SweepTypes
    <3>2. DOMAIN Step.sed \subseteq DOMAIN header[d0] /\ DOMAIN Step.options \subseteq DOMAIN cmake[d0]
      BY <2>2, <3>1 DEF BuildKnown
    <3> QED BY <2>3, <3>2, OverwriteFacts DEF Patched, Configured
  <2>5. /\ DOMAIN binary = Dirs /\ d0 \in Dirs
        /\ binary' = [binary EXCEPT ![d0] = [header |-> p, cmake |-> c]]
        /\ broken' = broken \ {d0}
    BY <1>3, <2>2, <2>3 DEF BuildRuns, BuildKnown, SweepTypes
  <2>6. binary'[d0].header = p /\ binary'[d0].cmake = c /\ \A d \in Dirs : d # d0 => binary'[d] = binary[d]
    BY <2>5
  <2>7. \A d \in Dirs : BuildsIn(Step, d) <=> d = d0
    BY <2>2, <2>3 DEF BuildsIn
  <2>8. \A d \in Dirs : BuildsIn(Step, d) => Gives(binary'[d].header, Step.sed) /\ Gives(binary'[d].cmake, Step.options)
    BY <2>4, <2>6, <2>7
  <2>9. \A d \in Dirs : ~BuildsIn(Step, d) => binary'[d] = binary[d] /\ (d \notin broken' => d \notin broken)
    BY <2>5, <2>6, <2>7
  <2> QED BY <2>1, <2>8, <2>9, BuiltAdvance
<1>4. CASE BuildFails
  <2>1. Doing("build") /\ Advance
    BY <1>4 DEF BuildFails
  <2>2. BuildKnown(Step) /\ Step.op = "build"
    BY <2>1, BuildFacts, StepFacts
  <2>3. /\ broken' = broken \cup {Step.dir}
        /\ binary' = binary \/ binary' = [binary EXCEPT ![Step.dir] = NoBinary]
    BY <1>4 DEF BuildFails, Cut
  <2>4. \A d \in Dirs : BuildsIn(Step, d) <=> d = Step.dir
    BY <2>2 DEF BuildsIn
  <2>5. \A d \in Dirs : d # Step.dir => binary'[d] = binary[d]
    BY <2>3 DEF SweepTypes
  <2> QED BY <2>1, <2>3, <2>4, <2>5, BuiltAdvance
<1>5. CASE SplitRuns \/ SplitFails
  BY <1>5, BuiltFrame DEF SplitRuns, SplitFails
<1>6. CASE (GenerateUniform \/ GenerateFails) /\ script' # "none"
  BY <1>6, BuiltFrame DEF GenerateUniform, GenerateFails, Dies
<1>7. CASE MeasurePoint
  BY <1>7, BuiltFrame DEF MeasurePoint
<1>8. CASE RecordZero
  BY <1>8, BuiltFrame DEF RecordZero
<1>9. CASE WritePartial
  BY <1>9, BuiltFrame DEF WritePartial
<1>10. CASE SaveFigure
  BY <1>10, BuiltFrame DEF SaveFigure
<1>11. CASE UNCHANGED vars \/ OpenPartial
  BY <1>11 DEF vars, OpenPartial, BuiltInv
<1> QED
  BY <1>1, <1>2, <1>3, <1>4, <1>5, <1>6, <1>7, <1>8, <1>9, <1>10, <1>11
  DEF Next, Ended, Retries, EndScript, BuildTimesOut, SplitTimesOut, Killed, SmokeTestFails, Dies

\* The script moves on over a step: what it did not split stays as it was.
LEMMA SplitAdvance ==
  ASSUME OrderedScripts, SweepTypes, SplitInv, NEW op, Doing(op), Advance,
         \A w \in Workloads : SplitsOf(Step, w) /\ w \notin unsplit' => split'[w] = Step.of,
         \A w \in Workloads :
           ~SplitsOf(Step, w) => split'[w] = split[w] /\ (w \notin unsplit' => w \notin unsplit)
  PROVE  SplitInv'
<1>1. /\ script' = script /\ at' = at + 1 /\ at \in 1 .. Len(Program[script]) /\ Len(Program[script]) \in Nat
      /\ script # "none" /\ Step = Program[script][at]
  BY StepFacts DEF Advance
<1>2. SUFFICES ASSUME NEW w \in Workloads, NEW j \in 1 .. at, LastSplit(Program[script], j, at + 1, w),
                      w \notin unsplit'
               PROVE  split'[w] = Program[script][j].of
  <2>1. at' = at + 1 /\ 1 .. at' - 1 = 1 .. at
    BY <1>1
  <2>2. \A w \in Workloads : \A j \in 1 .. at :
          LastSplit(Program[script], j, at', w) <=> LastSplit(Program[script], j, at + 1, w)
    BY <2>1
  <2> QED BY <1>1, <2>1, <2>2 DEF SplitInv
<1>3. CASE j = at
  BY <1>1, <1>2, <1>3 DEF LastSplit
<1>4. CASE j # at
  <2>1. j \in 1 .. at - 1 /\ at \in j + 1 .. (at + 1) - 1
    BY <1>1, <1>4
  <2>2. ~SplitsOf(Step, w)
    BY <1>1, <1>2, <2>1 DEF LastSplit
  <2>3. LastSplit(Program[script], j, at, w)
    <3>1. \A k \in j + 1 .. at - 1 : k \in j + 1 .. (at + 1) - 1
      BY <1>1
    <3> QED BY <1>2, <3>1 DEF LastSplit
  <2> QED BY <1>1, <1>2, <2>1, <2>2, <2>3 DEF SplitInv
<1> QED BY <1>3, <1>4

\* Steps that split nothing.
LEMMA SplitFrame ==
  ASSUME OrderedScripts, SweepTypes, SplitInv, NEW op, op # "split", Doing(op), Advance,
         UNCHANGED <<split, unsplit>>
  PROVE  SplitInv'
<1>1. \A w \in Workloads : ~SplitsOf(Step, w)
  BY StepFacts DEF SplitsOf
<1> QED BY <1>1, SplitAdvance

\* Every step keeps the split files at what was asked for.
LEMMA StepSplit ==
  ASSUME OrderedScripts, SweepTypes, SplitInv, [Next]_vars
  PROVE  SplitInv'
<1> USE DEF remoteVars, localVars
<1>1. ASSUME NEW s \in Scripts, StartScript(s) PROVE SplitInv'
  <2>1. script' = s /\ at' = 1
    BY <1>1 DEF StartScript
  <2> QED BY <2>1 DEF SplitInv
<1>2. CASE script' = "none"
  BY <1>2 DEF SplitInv
<1>3. CASE BuildRuns
  BY <1>3, SplitFrame DEF BuildRuns
<1>4. CASE BuildFails
  BY <1>4, SplitFrame DEF BuildFails
<1>5. CASE SplitRuns
  <2>1. Doing("split") /\ Advance
    BY <1>5 DEF SplitRuns
  <2>2. PICK of : of = Step.of
    OBVIOUS
  <2>3. of[1] \in Workloads /\ Step.op = "split"
    BY <2>1, <2>2, SplitFacts, StepFacts
  <2>4. DOMAIN split = Workloads /\ split' = [split EXCEPT ![of[1]] = of] /\ unsplit' = unsplit \ {of[1]}
    BY <1>5, <2>2 DEF SplitRuns, SweepTypes
  <2>5. \A w \in Workloads : SplitsOf(Step, w) <=> w = of[1]
    BY <2>2, <2>3 DEF SplitsOf
  <2>6. \A w \in Workloads : SplitsOf(Step, w) /\ w \notin unsplit' => split'[w] = Step.of
    BY <2>2, <2>3, <2>4, <2>5
  <2>7. \A w \in Workloads :
          ~SplitsOf(Step, w) => split'[w] = split[w] /\ (w \notin unsplit' => w \notin unsplit)
    BY <2>4, <2>5
  <2> QED BY <2>1, <2>6, <2>7, SplitAdvance
<1>12. CASE SplitFails
  <2>1. Doing("split") /\ Advance /\ CutSplit
    BY <1>12 DEF SplitFails
  <2>2. PICK of : of = Step.of
    OBVIOUS
  <2>3. of[1] \in Workloads /\ Step.op = "split"
    BY <2>1, <2>2, SplitFacts, StepFacts
  <2>4. /\ DOMAIN split = Workloads /\ split' \in {split, [split EXCEPT ![of[1]] = LeftSplit]}
        /\ unsplit' = unsplit \cup {of[1]}
    BY <2>1, <2>2 DEF CutSplit, SweepTypes
  <2>5. \A w \in Workloads : SplitsOf(Step, w) <=> w = of[1]
    BY <2>2, <2>3 DEF SplitsOf
  <2>6. \A w \in Workloads : SplitsOf(Step, w) /\ w \notin unsplit' => split'[w] = Step.of
    BY <2>4, <2>5
  <2>7. \A w \in Workloads :
          ~SplitsOf(Step, w) => split'[w] = split[w] /\ (w \notin unsplit' => w \notin unsplit)
    BY <2>4, <2>5
  <2> QED BY <2>1, <2>6, <2>7, SplitAdvance
<1>6. CASE (GenerateUniform \/ GenerateFails) /\ script' # "none"
  BY <1>6, SplitFrame DEF GenerateUniform, GenerateFails, Dies
<1>7. CASE MeasurePoint
  BY <1>7, SplitFrame DEF MeasurePoint
<1>8. CASE RecordZero
  BY <1>8, SplitFrame DEF RecordZero
<1>9. CASE WritePartial
  BY <1>9, SplitFrame DEF WritePartial
<1>10. CASE SaveFigure
  BY <1>10, SplitFrame DEF SaveFigure
<1>11. CASE UNCHANGED vars \/ OpenPartial
  BY <1>11 DEF vars, OpenPartial, SplitInv
<1> QED
  BY <1>1, <1>2, <1>3, <1>4, <1>5, <1>6, <1>7, <1>8, <1>9, <1>10, <1>11, <1>12
  DEF Next, Ended, Retries, EndScript, BuildTimesOut, SplitTimesOut, Killed, SmokeTestFails, Dies

-----------------------------------------------------------------------------
(* Points that are not saved *)

\* The script moves on over a step that neither records nor saves.
LEMMA UnsavedFrame ==
  ASSUME OrderedScripts, SweepTypes, UnsavedInv, NEW op, Doing(op), Advance,
         op \notin {"partial", "save"}, UNCHANGED <<data, ondisk, truncated>>
  PROVE  UnsavedInv'
<1>1. /\ script' = script /\ at' = at + 1 /\ at \in 1 .. Len(Program[script]) /\ Len(Program[script]) \in Nat
      /\ Step = Program[script][at] /\ Step.op = op
  BY StepFacts DEF Advance
<1>2. SUFFICES ASSUME script \in Incremental PROVE UnsavedInv'
  BY <1>1 DEF UnsavedInv
<1>5. truncated = FALSE
  BY <1>1, <1>2 DEF UnsavedInv
<1>3. CASE ondisk = Len(data)
  BY <1>3, <1>5 DEF UnsavedInv
<1>4. CASE ondisk # Len(data)
  <2>1. PICK j \in 1 .. at - 1 : /\ Records(Program[script][j])
                                 /\ \A k \in j + 1 .. at - 1 : ~Saves(Program[script][k])
    BY <1>2, <1>4, <1>5 DEF UnsavedInv
  <2>2. j \in 1 .. (at + 1) - 1
    BY <1>1
  <2>3. ASSUME NEW k \in j + 1 .. (at + 1) - 1 PROVE ~Saves(Program[script][k])
    <3>1. k = at \/ k \in j + 1 .. at - 1
      BY <1>1
    <3> QED BY <1>1, <2>1, <3>1 DEF Saves
  <2>4. Len(data) = ondisk + 1
    BY <1>2, <1>4, <1>5 DEF UnsavedInv
  <2> QED BY <1>1, <1>5, <2>1, <2>2, <2>3, <2>4 DEF UnsavedInv
<1> QED BY <1>3, <1>4

\* A point is recorded: the one before has been saved.
LEMMA UnsavedRecord ==
  ASSUME OrderedScripts, SweepTypes, UnsavedInv, NEW op \in {"point", "zero"}, Doing(op), Advance,
         data' = Append(data, Step.label), UNCHANGED <<ondisk, truncated>>
  PROVE  UnsavedInv'
<1>1. /\ script' = script /\ at' = at + 1 /\ at \in 1 .. Len(Program[script]) /\ Len(Program[script]) \in Nat
      /\ Step = Program[script][at] /\ Step.op = op /\ script \in Scripts
  BY StepFacts DEF Advance
<1>2. SUFFICES ASSUME script \in Incremental PROVE UnsavedInv'
  BY <1>1 DEF UnsavedInv
<1>3. Records(Program[script][at])
  BY <1>1 DEF Records
<1>7. truncated = FALSE
  BY <1>1, <1>2 DEF UnsavedInv
<1>4. ondisk = Len(data)
  <2>1. SUFFICES ASSUME ondisk # Len(data) PROVE FALSE
    OBVIOUS
  <2>2. PICK j \in 1 .. at - 1 : /\ Records(Program[script][j])
                                 /\ \A k \in j + 1 .. at - 1 : ~Saves(Program[script][k])
    BY <1>2, <1>7, <2>1 DEF UnsavedInv
  <2>3. SavesBetween(Program[script])
    BY <1>1, <1>2 DEF OrderedScripts, Ordered
  <2> QED BY <1>1, <1>3, <2>2, <2>3 DEF SavesBetween
<1>5. Len(data') = Len(data) + 1
  BY RecordTypes
<1>6. at \in 1 .. (at + 1) - 1 /\ \A k \in at + 1 .. (at + 1) - 1 : FALSE
  BY <1>1
<1> QED BY <1>1, <1>3, <1>4, <1>5, <1>6, <1>7 DEF UnsavedInv

\* Every step leaves at most one point unsaved.
LEMMA StepUnsaved ==
  ASSUME OrderedScripts, SweepTypes, UnsavedInv, [Next]_vars
  PROVE  UnsavedInv'
<1> USE DEF remoteVars, localVars
<1>0. Len(<<>>) = 0
  OBVIOUS
<1>1. ASSUME NEW s \in Scripts, StartScript(s) PROVE UnsavedInv'
  <2>1. ondisk' = Len(data') /\ truncated' = FALSE
    BY <1>0, <1>1 DEF StartScript
  <2> QED BY <2>1 DEF UnsavedInv
<1>2. CASE script' = "none"
  BY <1>2, NoneIsNotIncremental DEF UnsavedInv
<1>3. CASE BuildRuns
  BY <1>3, UnsavedFrame DEF BuildRuns
<1>4. CASE BuildFails
  BY <1>4, UnsavedFrame DEF BuildFails
<1>5. CASE SplitRuns \/ SplitFails
  BY <1>5, UnsavedFrame DEF SplitRuns, SplitFails
<1>6. CASE (GenerateUniform \/ GenerateFails) /\ script' # "none"
  BY <1>6, UnsavedFrame DEF GenerateUniform, GenerateFails, Dies
<1>7. CASE MeasurePoint
  BY <1>7, UnsavedRecord DEF MeasurePoint
<1>8. CASE RecordZero
  BY <1>8, UnsavedRecord DEF RecordZero
<1>9. CASE OpenPartial
  <2>1. script' = script /\ at' = at /\ truncated' = TRUE /\ Program[script][at].op = "partial"
    BY <1>9, StepFacts DEF OpenPartial
  <2> QED BY <2>1 DEF UnsavedInv
<1>12. CASE WritePartial
  BY <1>12 DEF WritePartial, UnsavedInv
<1>10. CASE SaveFigure
  <2>1. ondisk' = Len(data') /\ truncated' = truncated /\ script' = script
    BY <1>0, <1>10 DEF SaveFigure, Advance
  <2>2. Program[script][at].op = "save"
    BY <1>10, StepFacts DEF SaveFigure
  <2>3. script \in Incremental => truncated = FALSE
    BY <2>2 DEF UnsavedInv
  <2> QED BY <2>1, <2>3 DEF UnsavedInv
<1>11. CASE UNCHANGED vars
  BY <1>11 DEF vars, UnsavedInv
<1> QED
  BY <1>1, <1>2, <1>3, <1>4, <1>5, <1>6, <1>7, <1>8, <1>9, <1>10, <1>11, <1>12
  DEF Next, Ended, Retries, EndScript, BuildTimesOut, SplitTimesOut, Killed, SmokeTestFails, Dies

-----------------------------------------------------------------------------
(* What a point was measured with *)

\* A measurement finds the binary and the split files its point stands for.
LEMMA PointMeasured ==
  ASSUME OrderedScripts, SweepTypes, BuiltInv, SplitInv, MeasurePoint
  PROVE  MeasureInv'
<1>1. /\ script \in Scripts /\ script # "none" /\ at \in 1 .. Len(Program[script])
      /\ Step = Program[script][at] /\ Step.op = "point"
  BY StepFacts DEF MeasurePoint
<1>2. PICK prog, p : prog = Program[script] /\ p = Step
  OBVIOUS
<1>3. PointPrepared(prog, at) /\ p = prog[at]
  BY <1>1, <1>2 DEF OrderedScripts, Ordered
<1>4. /\ got'.step = p /\ got'.binary = binary[p.dir]
      /\ got'.split = IF p.on = NoSplit THEN NoSplit ELSE split[p.on[1]]
      /\ got'.sound = (p.dir \notin broken) /\ got'.whole = (p.on[1] \notin unsplit)
  BY <1>2 DEF MeasurePoint
<1>5. ASSUME p.dir \notin broken
      PROVE  Gives(binary[p.dir].header, p.header) /\ Gives(binary[p.dir].cmake, p.options)
  <2>1. PICK j \in 1 .. at - 1 : /\ LastBuild(prog, j, at, p.dir)
                                 /\ Gives(prog[j].sed, p.header) /\ Gives(prog[j].options, p.options)
    BY <1>3 DEF PointPrepared
  <2>2. p.dir \in Dirs
    <3>1. j \in 1 .. Len(Program[script]) /\ prog[j].op = "build" /\ prog[j].dir = p.dir
      BY <1>1, <2>1 DEF LastBuild, BuildsIn, OrderedScripts, Ordered
    <3>2. BuildKnown(prog[j])
      BY <1>1, <1>2, <3>1 DEF OrderedScripts, Ordered
    <3> QED BY <3>1, <3>2 DEF BuildKnown
  <2>3. Gives(binary[p.dir].header, prog[j].sed) /\ Gives(binary[p.dir].cmake, prog[j].options)
    BY <1>1, <1>2, <1>5, <2>1, <2>2 DEF BuiltInv
  <2> QED BY <2>1, <2>3 DEF Gives
<1>6. MeasuredAsLabelled'
  BY <1>4, <1>5 DEF MeasuredAsLabelled, Gives
<1>7. SplitFits'
  <2>1. SUFFICES ASSUME p.on # NoSplit, p.on[1] \notin unsplit
                 PROVE  split[p.on[1]] = p.on \/ (p.on = <<"c", 2, 4>> /\ split[p.on[1]] = <<"c", 1, 4>>)
    BY <1>4 DEF SplitFits
  <2>2. PICK j \in 1 .. at - 1 : /\ LastSplit(prog, j, at, p.on[1])
                                 /\ prog[j].of = p.on \/ (p.on = <<"c", 2, 4>> /\ prog[j].of = <<"c", 1, 4>>)
    BY <1>3, <2>1 DEF PointPrepared
  <2>3. p.on[1] \in Workloads
    <3>1. j \in 1 .. Len(Program[script]) /\ prog[j].op = "split" /\ prog[j].of[1] = p.on[1]
      BY <1>1, <2>2 DEF LastSplit, SplitsOf, OrderedScripts, Ordered
    <3> QED BY <1>1, <1>2, <3>1 DEF OrderedScripts, Ordered
  <2>4. split[p.on[1]] = prog[j].of
    BY <1>1, <1>2, <2>1, <2>2, <2>3 DEF SplitInv
  <2> QED BY <2>2, <2>4
<1>8. TargetEpochReached'
  <2>1. SUFFICES ASSUME p.dir \notin broken, "epoch" \in DOMAIN p.options
                 PROVE  p.target <= EpochsOf(binary[p.dir].cmake["epoch"])
    BY <1>4 DEF TargetEpochReached
  <2>2. binary[p.dir].cmake["epoch"] = p.options["epoch"]
    BY <1>5, <2>1 DEF Gives
  <2> QED BY <1>3, <2>1, <2>2 DEF PointPrepared
<1> QED BY <1>6, <1>7, <1>8 DEF MeasureInv

\* Every step keeps the points measured as they are labelled.
LEMMA StepMeasure ==
  ASSUME OrderedScripts, SweepTypes, BuiltInv, SplitInv, MeasureInv, [Next]_vars
  PROVE  MeasureInv'
<1>1. CASE MeasurePoint
  BY <1>1, PointMeasured
<1>2. CASE UNCHANGED got
  BY <1>2 DEF MeasureInv, MeasuredAsLabelled, SplitFits, TargetEpochReached
<1>3. UNCHANGED got \/ MeasurePoint
  BY DEF Next, StartScript, EndScript, BuildRuns, BuildFails, BuildTimesOut, SplitRuns, SplitFails,
         SplitTimesOut, GenerateUniform, GenerateFails, Retries, SmokeTestFails, RecordZero, OpenPartial,
         WritePartial, SaveFigure, Killed, Ended,
         vars, localVars
<1> QED BY <1>1, <1>2, <1>3

-----------------------------------------------------------------------------
(* Theorems *)

\* The scripts start on machines left by others.
LEMMA InitSweep == Init => SweepInv
<1>1. SUFFICES ASSUME Init PROVE SweepInv
  OBVIOUS
<1>2. SweepTypes
  <2>1. <<>> \in Seq(Labels) /\ Len(<<>>) = 0
    OBVIOUS
  <2>2. script = "none" /\ broken = {} /\ unsplit = {} /\ uniform = "absent"
    BY <1>1 DEF Init
  <2>3. data \in Seq(Labels) /\ ondisk \in 0 .. Len(data)
    <3>1. data = <<>> /\ ondisk = 0
      BY <1>1 DEF Init
    <3> QED BY <2>1, <3>1
  <2>6. truncated \in BOOLEAN
    BY <1>1 DEF Init
  <2>4. /\ DOMAIN header = Dirs /\ DOMAIN cmake = Dirs /\ DOMAIN binary = Dirs
        /\ DOMAIN split = Workloads
    BY <1>1 DEF Init
  <2>5. \A d \in Dirs : DOMAIN header[d] = Settings /\ DOMAIN cmake[d] = OptionNames
    BY <1>1 DEF Init
  <2> QED BY <2>2, <2>3, <2>4, <2>5, <2>6 DEF SweepTypes
<1>3. BuiltInv /\ SplitInv
  BY <1>1 DEF Init, BuiltInv, SplitInv
<1>4. UnsavedInv
  BY <1>1, NoneIsNotIncremental DEF Init, UnsavedInv
<1>5. MeasureInv
  <2>1. got.step = <<>>
    BY <1>1 DEF Init
  <2> QED BY <2>1 DEF MeasureInv, MeasuredAsLabelled, SplitFits, TargetEpochReached
<1> QED BY <1>2, <1>3, <1>4, <1>5 DEF SweepInv

\* Scripts whose steps are in order keep the invariant, whatever ran before
\* them and wherever a command failed.
THEOREM SweepInvariant ==
  ASSUME OrderedScripts
  PROVE  Spec => []SweepInv
<1>1. SweepInv /\ [Next]_vars => SweepInv'
  BY StepTypes, StepBuilt, StepSplit, StepUnsaved, StepMeasure DEF SweepInv
<1> QED BY <1>1, InitSweep, PTL DEF Spec

\* The machines' files keep all their settings whatever the scripts rewrite.
THEOREM SweepTypesHold ==
  ASSUME OrderedScripts
  PROVE  Spec => []SweepTypeOK
<1>1. SweepInv => SweepTypeOK
  BY DEF SweepInv, SweepTypes, SweepTypeOK
<1> QED BY <1>1, SweepInvariant, PTL

\* However many scripts run in whatever order, and wherever they are cut off, a
\* point is measured with the header and the options it is labelled with, unless
\* the build chain of its index broke.
THEOREM PointsAreAsLabelled ==
  ASSUME OrderedScripts
  PROVE  Spec => []MeasuredAsLabelled
<1>1. SweepInv => MeasuredAsLabelled
  BY DEF SweepInv, MeasureInv
<1> QED BY <1>1, SweepInvariant, PTL

\* A benchmark reads split files made for it, whatever was split before and
\* wherever an earlier split failed, unless the last split of its own workload
\* did not reach its end.
THEOREM SplitsFit ==
  ASSUME OrderedScripts
  PROVE  Spec => []SplitFits
<1>1. SweepInv => SplitFits
  BY DEF SweepInv, MeasureInv
<1> QED BY <1>1, SweepInvariant, PTL

\* The epoch whose numbers are taken is one that the binary runs to.
THEOREM TargetsReached ==
  ASSUME OrderedScripts
  PROVE  Spec => []TargetEpochReached
<1>1. SweepInv => TargetEpochReached
  BY DEF SweepInv, MeasureInv
<1> QED BY <1>1, SweepInvariant, PTL

\* A script that saves incrementally has all but the point in hand on disk, at
\* every moment but while it has truncated the partial file and not yet dumped it.
THEOREM AtMostOneUnsaved ==
  ASSUME OrderedScripts
  PROVE  Spec => []UnsavedAtMostOne
<1>1. SweepInv => UnsavedAtMostOne
  <2>1. SUFFICES ASSUME SweepInv, script \in Incremental, truncated # TRUE PROVE Len(data) - ondisk <= 1
    BY DEF UnsavedAtMostOne
  <2>2. Len(data) \in Nat /\ ondisk \in Nat
    BY <2>1 DEF SweepInv, SweepTypes
  <2>3. ondisk = Len(data) \/ Len(data) = ondisk + 1
    BY <2>1 DEF SweepInv, UnsavedInv
  <2> QED BY <2>2, <2>3
<1> QED BY <1>1, SweepInvariant, PTL
=============================================================================
