----------------------- MODULE PointMeasurementProofs -----------------------
(***************************************************************************)
(* Proofs about the measurement of points: what a point is made of comes   *)
(* from its own attempt, its window is complete and its cache sizes are    *)
(* those of every node, for any number of nodes, epochs, points and        *)
(* faults.                                                                 *)
(*                                                                         *)
(* Between the kill and the end of an attempt a shell's output, read and   *)
(* unread together (Log), is what one process printed: nothing older is in *)
(* it, its first lines are the epochs in order and no prompt comes before  *)
(* the last of them.                                                       *)
(***************************************************************************)
EXTENDS PointMeasurement, SequenceTheorems, FiniteSetTheorems, TLAPS

Control == {"kill", "memc", "launch", "read", "stats", "lats", "done"}
States == {"none", "typed", "run", "joined", "fin", "dead", "hung"}
Lines == [k : {"epoch", "joined", "end", "fail"}, e : Nat, fresh : BOOLEAN]
Procs == [st : States, epoch : 0 .. Epochs, said : 0 .. Epochs, fresh : BOOLEAN]

\* Types, with the domains that EXCEPT relies on.
ShapeOK ==
  /\ pt \in 1 .. Len(Points) /\ pc \in Control /\ cur \in Nat /\ memc \in 0 .. N + 1
  /\ outs \in [All -> Seq(Lines)] /\ stream \in [All -> Seq(Lines)]
  /\ proc \in [All -> Procs]
  /\ lat \in [All -> [1 .. Epochs -> {"none", "old", "new"}]]
  /\ DOMAIN result = DOMAIN NoResult

\* Where the latencies of a point begin.
From == IF Point.want = "avg" THEN StartEpoch(Point.target) ELSE Point.target

\* The node, or the epoch, that the script is at.
CurOK ==
  /\ pc \in {"kill", "memc"} => cur = 1
  /\ pc \in {"launch", "read", "stats"} => cur \in CNs
  /\ pc = "lats" => cur \in From .. Point.target
  /\ pc = "done" => cur \in CNs \/ cur = Point.target

\* A process: only node 0 may have an epoch to report, and only one; what a
\* process of this attempt wrote is new.
ProcOK(i) ==
  /\ proc[i].said <= proc[i].epoch /\ proc[i].epoch <= proc[i].said + 1
  /\ Ids[i] # 0 => proc[i].said = proc[i].epoch
  /\ proc[i].st \in {"none", "typed"} => proc[i].epoch = 0
  /\ proc[i].st \in {"joined", "fin"} => proc[i].said = Epochs
  /\ proc[i].fresh => \A e \in 1 .. proc[i].epoch : lat[i][e] = "new"

Log(i) == outs[i] \o stream[i]
Told(i) == IF Ids[i] = 0 THEN proc[i].said ELSE 0

\* What the process on node i has printed.
LogOK(i) ==
  /\ Told(i) <= Len(Log(i))
  /\ \A j \in 1 .. Len(Log(i)) :
       /\ Log(i)[j].fresh
       /\ Log(i)[j].k = "epoch" <=> j <= Told(i)
       /\ j <= Told(i) => Log(i)[j].e = j
       /\ Log(i)[j].k \in {"joined", "end"} => proc[i].said = Epochs
  /\ proc[i].st \in {"typed", "run"} => Len(Log(i)) = Told(i)

\* The node has been started in this attempt, or has yet to be.
Launched(i) == pc \in {"read", "stats", "lats", "done"} \/ (pc = "launch" /\ i < cur)
Waiting(i) == pc = "memc" \/ (pc = "launch" /\ i >= cur)

NodeOK(i) ==
  /\ Waiting(i) => proc[i] = Idle /\ outs[i] = <<>>
  /\ Launched(i) => proc[i].fresh /\ proc[i].st # "none" /\ LogOK(i)

\* Node 0 reports an epoch once all have ended it.
TellInv ==
  \A i, j \in CNs : Launched(i) /\ Ids[i] = 0 => proc[i].said <= proc[j].epoch

\* The shells are read in order, each up to its prompt.
ReadInv ==
  /\ pc = "launch" => \A i \in CNs : outs[i] = <<>>
  /\ pc \in {"read", "stats"} => \A i \in CNs :
       /\ i < cur => Shown(outs[i], EndPrompt(Point))
       /\ i > cur => outs[i] = <<>>
  /\ pc = "stats" => /\ Shown(outs[cur], EndPrompt(Point))
                     /\ cur = Point.cns \/ Point.only_need_tpt

\* The benchmark has run to its last epoch on every node.
RunInv == pc \in {"stats", "lats", "done"} => \A i \in CNs : proc[i].epoch = Epochs

\* The throughput is that of the epochs W, each once.
TptOf(W) == /\ DOMAIN result.tpt = W
            /\ \A k \in W : result.tpt[k].e = k /\ result.tpt[k].fresh

\* The latency files up to epoch u have been read, new ones only.
FilesUpTo(u) ==
  /\ result.files \subseteq {<<i, e, "new">> : i \in CNs, e \in From .. u}
  /\ ~result.lost => \A i \in CNs, e \in From .. u : <<i, e, "new">> \in result.files

WindowOf == IF Point.want = "avg" THEN StartEpoch(Point.target) .. Point.target - 1
            ELSE {Point.target}

ResultInv ==
  /\ pc \in {"memc", "launch", "read", "stats"} => result = NoResult
  /\ pc \in {"lats", "done"} =>
       IF Point.want = "cache" THEN result.cache = CNs /\ result.tpt = <<>> ELSE TptOf(WindowOf)
  /\ pc = "lats" => Point.lats /\ FilesUpTo(cur - 1)
  /\ pc = "done" => IF Point.lats THEN FilesUpTo(Point.target) ELSE result.files = {}

MeasureInv ==
  /\ ShapeOK /\ CurOK
  /\ (\A i \in All : ProcOK(i)) /\ (\A i \in CNs : NodeOK(i))
  /\ TellInv /\ ReadInv /\ RunInv /\ ResultInv

-----------------------------------------------------------------------------
(* Points, sets and sequences *)

\* Max and Min of two numbers.
LEMMA OfTwo ==
  ASSUME NEW a \in Int, NEW b \in Int
  PROVE  /\ Max({a, b}) = IF a >= b THEN a ELSE b
         /\ Min({a, b}) = IF a <= b THEN a ELSE b
<1>1. \E x \in {a, b} : \A y \in {a, b} : x >= y
  OBVIOUS
<1>2. \E x \in {a, b} : \A y \in {a, b} : x <= y
  OBVIOUS
<1>3. Max({a, b}) \in {a, b} /\ \A y \in {a, b} : Max({a, b}) >= y
  BY <1>1 DEF Max
<1>4. Min({a, b}) \in {a, b} /\ \A y \in {a, b} : Min({a, b}) <= y
  BY <1>2 DEF Min
<1> QED BY <1>3, <1>4

\* What the constants say of the present point.
LEMMA PointFacts ==
  ASSUME pt \in 1 .. Len(Points)
  PROVE  /\ N \in Nat /\ Epochs \in Nat /\ Epochs > 0
         /\ Point.cns \in 1 .. N /\ Point.target \in 2 .. Epochs /\ Point.want \in Wants
         /\ CNs \subseteq All /\ 1 \in CNs /\ Point.cns \in CNs
         /\ StartEpoch(Point.target) \in 1 .. Point.target - 1
         /\ From \in 1 .. Point.target
         /\ Point.only_need_tpt \in BOOLEAN /\ Point.lats \in BOOLEAN
         /\ Point.want = "cache" => ~Point.only_need_tpt
<1>1. /\ N \in Nat /\ Epochs \in Nat /\ Epochs > 0 /\ Point.cns \in 1 .. N
      /\ Point.target \in 2 .. Epochs /\ Point.want \in Wants
      /\ Point.only_need_tpt \in BOOLEAN /\ Point.lats \in BOOLEAN
      /\ Point.want = "cache" => ~Point.only_need_tpt
  BY MeasureConstants DEF Point
<1>2. CNs \subseteq All /\ 1 \in CNs /\ Point.cns \in CNs
  BY <1>1 DEF CNs, All
<1>3. StartEpoch(Point.target) \in 1 .. Point.target - 1
  <2>1. PICK t \in 2 .. Epochs : t = Point.target
    BY <1>1
  <2>2. t \in Int /\ t \div 2 \in Int /\ t - 4 \in Int /\ t >= 2
    BY <1>1
  <2>3. StartEpoch(t) = IF t \div 2 >= t - 4 THEN t \div 2 ELSE t - 4
    BY <2>2, OfTwo DEF StartEpoch
  <2>4. t \div 2 >= 1 /\ t \div 2 <= t - 1 /\ t - 4 <= t - 1
    BY <2>2
  <2> QED BY <2>1, <2>2, <2>3, <2>4
<1>4. From \in 1 .. Point.target
  BY <1>1, <1>3 DEF From
<1> QED BY <1>1, <1>2, <1>3, <1>4

\* A line that is printed comes after all that is read and unread.
LEMMA PrintLine ==
  ASSUME NEW o \in Seq(Lines), NEW s \in Seq(Lines), NEW x \in Lines
  PROVE  /\ o \o s \in Seq(Lines) /\ Append(s, x) \in Seq(Lines)
         /\ Len(o \o Append(s, x)) = Len(o \o s) + 1 /\ Len(o \o s) \in Nat
         /\ \A j \in 1 .. Len(o \o s) : (o \o Append(s, x))[j] = (o \o s)[j]
         /\ (o \o Append(s, x))[Len(o \o s) + 1] = x
<1>1. /\ Append(s, x) \in Seq(Lines) /\ Len(Append(s, x)) = Len(s) + 1
      /\ \A j \in 1 .. Len(s) : Append(s, x)[j] = s[j]
      /\ Append(s, x)[Len(s) + 1] = x
  BY AppendProperties
<1>2. Len(o) \in Nat /\ Len(s) \in Nat
  BY LenProperties
<1>3. /\ o \o s \in Seq(Lines) /\ Len(o \o s) = Len(o) + Len(s)
      /\ \A j \in 1 .. Len(o) + Len(s) : (o \o s)[j] = IF j <= Len(o) THEN o[j] ELSE s[j - Len(o)]
  BY ConcatProperties
<1>4. /\ Len(o \o Append(s, x)) = Len(o) + (Len(s) + 1)
      /\ \A j \in 1 .. Len(o) + (Len(s) + 1) :
           (o \o Append(s, x))[j] = IF j <= Len(o) THEN o[j] ELSE Append(s, x)[j - Len(o)]
  BY <1>1, ConcatProperties
<1> QED BY <1>1, <1>2, <1>3, <1>4

\* Receiving the first k unread lines neither loses nor repeats one.
LEMMA ReceiveLines ==
  ASSUME NEW o \in Seq(Lines), NEW s \in Seq(Lines), NEW k \in 1 .. Len(s)
  PROVE  /\ o \o SubSeq(s, 1, k) \in Seq(Lines) /\ SubSeq(s, k + 1, Len(s)) \in Seq(Lines)
         /\ (o \o SubSeq(s, 1, k)) \o SubSeq(s, k + 1, Len(s)) = o \o s
<1>1. Len(s) \in Nat /\ \A j \in 1 .. Len(s) : s[j] \in Lines
  BY LenProperties, ElementOfSeq
<1>2. SubSeq(s, 1, k) \in Seq(Lines)
  BY <1>1, SubSeqProperties
<1>3. SubSeq(s, k + 1, Len(s)) \in Seq(Lines)
  BY <1>1, SubSeqProperties
<1>4. SubSeq(s, 1, k) \o SubSeq(s, k + 1, Len(s)) = SubSeq(s, 1, Len(s))
  BY <1>1, ConcatAdjacentSubSeq
<1>5. SubSeq(s, 1, Len(s)) = s
  BY SubSeqFull
<1>6. o \o SubSeq(s, 1, k) \in Seq(Lines)
  BY <1>2, ConcatProperties
<1>7. ASSUME NEW a \in Seq(Lines), NEW b \in Seq(Lines)
      PROVE  (o \o a) \o b = o \o (a \o b)
  BY ConcatAssociative
<1>8. (o \o SubSeq(s, 1, k)) \o SubSeq(s, k + 1, Len(s))
        = o \o (SubSeq(s, 1, k) \o SubSeq(s, k + 1, Len(s)))
  BY <1>2, <1>3, <1>7
<1> QED BY <1>3, <1>4, <1>5, <1>6, <1>8

-----------------------------------------------------------------------------
(* Steps of the benchmark *)

\* Node i prints nothing.
LEMMA LogSame ==
  ASSUME NEW i \in All, LogOK(i), outs'[i] = outs[i], stream'[i] = stream[i],
         Told(i)' = Told(i), proc[i].said = Epochs => proc'[i].said = Epochs,
         proc'[i].st \in {"typed", "run"} => proc[i].st \in {"typed", "run"}
  PROVE  LogOK(i)'
<1>1. Log(i)' = Log(i)
  BY DEF Log
<1> QED BY <1>1 DEF LogOK

\* Node i prints the line x: the next epoch, or a line after the epochs.
LEMMA LogLonger ==
  ASSUME ShapeOK, NEW i \in All, LogOK(i), NEW x \in Lines,
         outs'[i] = outs[i], stream'[i] = Append(stream[i], x),
         x.fresh, Told(i) \in Nat,
         Told(i)' = IF x.k = "epoch" THEN Told(i) + 1 ELSE Told(i),
         x.k = "epoch" => Len(Log(i)) = Told(i) /\ x.e = Told(i) + 1,
         x.k \in {"joined", "end"} => proc'[i].said = Epochs,
         proc[i].said = Epochs => proc'[i].said = Epochs,
         proc'[i].st \in {"typed", "run"} => x.k = "epoch"
  PROVE  LogOK(i)'
<1>1. outs[i] \in Seq(Lines) /\ stream[i] \in Seq(Lines)
  BY DEF ShapeOK
<1>2. PICK a, b, n : a = Log(i) /\ b = Log(i)' /\ n = Len(Log(i))
  OBVIOUS
<1>3. /\ n \in Nat /\ Len(b) = n + 1 /\ (\A j \in 1 .. n : b[j] = a[j]) /\ b[n + 1] = x
  <2>1. PICK o \in Seq(Lines), s \in Seq(Lines) : o = outs[i] /\ s = stream[i]
    BY <1>1
  <2>2. a = o \o s /\ b = o \o Append(s, x)
    BY <1>2, <2>1 DEF Log
  <2> QED BY <1>2, <2>2, PrintLine
<1>4. PICK t, u : /\ t \in Nat /\ t = Told(i) /\ u = Told(i)' /\ u \in Nat
                 /\ u = IF x.k = "epoch" THEN t + 1 ELSE t
  <2>1. Told(i)' \in Nat
    OBVIOUS
  <2> QED BY <2>1
<1>5. /\ t <= n
      /\ \A j \in 1 .. n : /\ a[j].fresh
                           /\ a[j].k = "epoch" <=> j <= t
                           /\ j <= t => a[j].e = j
                           /\ a[j].k \in {"joined", "end"} => proc[i].said = Epochs
  BY <1>2, <1>4 DEF LogOK
<1>6. ASSUME NEW j \in 1 .. n + 1
      PROVE  /\ b[j].fresh
             /\ b[j].k = "epoch" <=> j <= u
             /\ j <= u => b[j].e = j
             /\ b[j].k \in {"joined", "end"} => proc'[i].said = Epochs
  <2>1. CASE j \in 1 .. n
    <3>1. b[j] = a[j]
      BY <1>3, <2>1
    <3>2. j <= t <=> j <= u
      BY <1>2, <1>3, <1>4, <2>1
    <3> QED BY <1>5, <2>1, <3>1, <3>2
  <2>2. CASE j = n + 1
    <3>1. b[j] = x
      BY <1>3, <2>2
    <3>2. x.k = "epoch" => u = n + 1 /\ x.e = j
      BY <1>2, <1>4, <2>2
    <3>3. x.k # "epoch" => ~(j <= u)
      BY <1>3, <1>4, <1>5, <2>2
    <3>4. x.k = "epoch" => j <= u
      BY <1>3, <2>2, <3>2
    <3> QED BY <3>1, <3>2, <3>3, <3>4
  <2> QED BY <1>3, <2>1, <2>2
<1>7. u <= n + 1 /\ (proc'[i].st \in {"typed", "run"} => n + 1 = u)
  BY <1>2, <1>3, <1>4, <1>5
<1> QED BY <1>2, <1>3, <1>4, <1>6, <1>7 DEF LogOK

\* Only the shell, the process and the files of node i take part.
Local(i) ==
  /\ UNCHANGED <<pt, pc, cur, outs, result>>
  /\ \A j \in All \ {i} : proc'[j] = proc[j] /\ stream'[j] = stream[j] /\ lat'[j] = lat[j]

\* Such a step is a matter of node i alone.
LEMMA LocalKeeps ==
  ASSUME MeasureInv, NEW i \in All, Local(i), ShapeOK', ProcOK(i)',
         proc'[i].epoch >= proc[i].epoch, i \in CNs => NodeOK(i)',
         i \in CNs /\ Launched(i) /\ Ids[i] = 0 =>
           proc'[i].said = proc[i].said \/ \A j \in CNs : proc'[i].said <= proc[j].epoch
  PROVE  MeasureInv'
<1>0. /\ pt' = pt /\ pc' = pc /\ cur' = cur /\ outs' = outs /\ result' = result
      /\ Point' = Point /\ CNs' = CNs /\ From' = From /\ WindowOf' = WindowOf
      /\ \A j \in All \ {i} : proc'[j] = proc[j] /\ stream'[j] = stream[j] /\ lat'[j] = lat[j]
  BY DEF Local, Point, CNs, From, WindowOf
<1>1. /\ ShapeOK /\ CurOK /\ TellInv /\ ReadInv /\ RunInv /\ ResultInv
      /\ (\A j \in All : ProcOK(j)) /\ (\A j \in CNs : NodeOK(j))
  BY DEF MeasureInv
<1>2. CNs \subseteq All /\ Epochs \in Nat
  BY <1>1, PointFacts DEF ShapeOK
<1>3. CurOK' /\ ReadInv' /\ ResultInv'
  BY <1>0, <1>1 DEF CurOK, ReadInv, ResultInv, TptOf, FilesUpTo
<1>4. \A j \in All : proc[j].epoch \in 0 .. Epochs /\ proc'[j].epoch \in 0 .. Epochs
                     /\ proc[j].said \in 0 .. Epochs /\ proc'[j].said \in 0 .. Epochs
  <2>1. proc \in [All -> Procs] /\ proc' \in [All -> Procs]
    BY <1>1 DEF ShapeOK
  <2> QED BY <2>1 DEF Procs
<1>5. RunInv'
  BY <1>0, <1>1, <1>2, <1>4 DEF RunInv
<1>6. ASSUME NEW j \in All PROVE ProcOK(j)'
  <2>1. CASE j = i
    BY <2>1
  <2>2. CASE j # i
    BY <1>0, <1>1, <2>2 DEF ProcOK
  <2> QED BY <2>1, <2>2
<1>7. ASSUME NEW j \in CNs PROVE NodeOK(j)'
  <2>1. CASE j = i
    BY <2>1
  <2>2. CASE j # i
    <3>1. /\ Log(j)' = Log(j) /\ Told(j)' = Told(j) /\ proc'[j] = proc[j] /\ outs'[j] = outs[j]
          /\ Launched(j)' = Launched(j) /\ Waiting(j)' = Waiting(j)
      BY <1>0, <1>2, <2>2 DEF Launched, Waiting, Log, Told
    <3>2. LogOK(j)' <=> LogOK(j)
      BY <3>1 DEF LogOK
    <3> QED BY <1>1, <3>1, <3>2 DEF NodeOK, Idle
  <2> QED BY <2>1, <2>2
<1>8. TellInv'
  <2>1. SUFFICES ASSUME NEW a \in CNs, NEW b \in CNs, Launched(a), Ids[a] = 0
                 PROVE  proc'[a].said <= proc'[b].epoch
    BY <1>0 DEF TellInv, Launched
  <2>2. proc[b].epoch <= proc'[b].epoch
    BY <1>0, <1>2, <1>4
  <2>3. proc[a].said <= proc[b].epoch
    BY <1>1, <2>1 DEF TellInv
  <2>4. proc'[a].said = proc[a].said \/ proc'[a].said <= proc[b].epoch
    BY <1>0, <1>2, <2>1
  <2> QED BY <1>2, <1>4, <2>2, <2>3, <2>4
<1> QED BY <1>0, <1>3, <1>5, <1>6, <1>7, <1>8 DEF MeasureInv, All

\* A process that does something has been started in this attempt, if it is
\* one of the point's and the nodes have been killed.
LEMMA MovingNode ==
  ASSUME MeasureInv, NEW i \in All, proc[i].st # "none"
  PROVE  /\ ShapeOK /\ ProcOK(i) /\ proc[i] \in Procs /\ Epochs \in Nat /\ Epochs > 0
         /\ i \in CNs => ~Waiting(i)
         /\ i \in CNs /\ Launched(i) => proc[i].fresh /\ LogOK(i)
         /\ Told(i) \in Nat
<1>1. ShapeOK /\ ProcOK(i) /\ (i \in CNs => NodeOK(i))
  BY DEF MeasureInv
<1>2. proc[i] \in Procs /\ Epochs \in Nat /\ Epochs > 0
  BY <1>1, MeasureConstants DEF ShapeOK
<1>3. Told(i) \in Nat
  BY <1>2 DEF Told, Procs
<1> QED BY <1>1, <1>2, <1>3 DEF NodeOK, Idle

\* A process that prints nothing: it goes on to x, with the log and the number
\* of epochs told as they are.
LEMMA SilentKeeps ==
  ASSUME MeasureInv, NEW i \in All, proc[i].st # "none", NEW x \in Procs,
         proc' = [proc EXCEPT ![i] = x], Local(i), stream' = stream,
         memc' \in 0 .. N + 1, lat' \in [All -> [1 .. Epochs -> {"none", "old", "new"}]],
         ProcOK(i)', x.epoch >= proc[i].epoch, x.st # "none",
         proc[i].fresh => x.fresh, x.said >= proc[i].said,
         Ids[i] = 0 => x.said = proc[i].said,
         x.st \in {"typed", "run"} => proc[i].st \in {"typed", "run"}
  PROVE  MeasureInv'
<1>0. /\ ShapeOK /\ ProcOK(i) /\ proc[i] \in Procs /\ Epochs \in Nat
      /\ i \in CNs => ~Waiting(i)
      /\ i \in CNs /\ Launched(i) => proc[i].fresh /\ LogOK(i)
  BY MovingNode
<1>1. /\ pt' = pt /\ pc' = pc /\ cur' = cur /\ outs' = outs /\ result' = result
      /\ CNs' = CNs /\ Launched(i)' = Launched(i) /\ Waiting(i)' = Waiting(i)
  BY DEF Local, CNs, Point, Launched, Waiting
<1>2. proc'[i] = x /\ proc' \in [All -> Procs]
  BY <1>0 DEF ShapeOK
<1>3. ShapeOK'
  BY <1>0, <1>1, <1>2 DEF ShapeOK, NoResult
<1>4. Told(i)' = Told(i)
  BY <1>2 DEF Told
<1>5. proc[i].said = Epochs => proc'[i].said = Epochs
  BY <1>0, <1>2 DEF Procs
<1>6. LogOK(i) => LogOK(i)'
  BY <1>1, <1>2, <1>4, <1>5, LogSame
<1>7. i \in CNs => NodeOK(i)'
  BY <1>0, <1>1, <1>2, <1>6 DEF NodeOK
<1>8. Ids[i] = 0 => proc'[i].said = proc[i].said
  BY <1>2
<1> QED BY <1>2, <1>3, <1>7, <1>8, LocalKeeps

\* A process that prints the line of kind k and goes on to x.
LEMMA PrintKeeps ==
  ASSUME MeasureInv, NEW i \in All, proc[i].st # "none", NEW x \in Procs,
         proc' = [proc EXCEPT ![i] = x], Local(i), memc' = memc, lat' = lat,
         NEW k \in {"epoch", "joined", "end", "fail"}, NEW e \in Nat,
         stream' = [stream EXCEPT ![i] = Append(@, Line(i, k, e))],
         ProcOK(i)', x.epoch = proc[i].epoch, x.st # "none", x.fresh = proc[i].fresh,
         IF k = "epoch" THEN /\ Ids[i] = 0 /\ proc[i].st = "run" /\ e = proc[i].said + 1
                             /\ x.said = e /\ \A j \in CNs : proc[j].epoch >= e
         ELSE x.said = proc[i].said /\ x.st \notin {"typed", "run"},
         k \in {"joined", "end"} => proc[i].said = Epochs
  PROVE  MeasureInv'
<1>0. /\ ShapeOK /\ ProcOK(i) /\ proc[i] \in Procs /\ Epochs \in Nat
      /\ i \in CNs => ~Waiting(i)
      /\ i \in CNs /\ Launched(i) => proc[i].fresh /\ LogOK(i)
      /\ Told(i) \in Nat
  BY MovingNode
<1>1. /\ pt' = pt /\ pc' = pc /\ cur' = cur /\ outs' = outs /\ result' = result
      /\ CNs' = CNs /\ Launched(i)' = Launched(i) /\ Waiting(i)' = Waiting(i)
  BY DEF Local, CNs, Point, Launched, Waiting
<1>2. proc'[i] = x /\ proc' \in [All -> Procs]
  BY <1>0 DEF ShapeOK
<1>3. PICK y \in Lines : y = Line(i, k, e)
  BY <1>0 DEF Line, Lines, Procs
<1>4. y.k = k /\ y.e = e /\ y.fresh = proc[i].fresh
  BY <1>3 DEF Line
<1>5. stream'[i] = Append(stream[i], y) /\ stream' \in [All -> Seq(Lines)]
  <2>1. stream \in [All -> Seq(Lines)]
    BY <1>0 DEF ShapeOK
  <2>2. stream[i] \in Seq(Lines)
    BY <2>1
  <2>3. Append(stream[i], y) \in Seq(Lines)
    BY <2>2, AppendProperties
  <2> QED BY <1>3, <2>1, <2>3
<1>6. ShapeOK'
  BY <1>0, <1>1, <1>2, <1>5 DEF ShapeOK, NoResult
<1>7. proc[i].said \in Nat /\ x.said \in Nat /\ proc[i].said <= Epochs /\ x.said <= Epochs
  BY <1>0 DEF Procs
<1>8. /\ Told(i)' = IF y.k = "epoch" THEN Told(i) + 1 ELSE Told(i)
      /\ y.k = "epoch" => y.e = Told(i) + 1
  BY <1>2, <1>4, <1>7 DEF Told
<1>9. LogOK(i) /\ proc[i].fresh => LogOK(i)'
  <2>1. SUFFICES ASSUME LogOK(i), proc[i].fresh PROVE LogOK(i)'
    OBVIOUS
  <2>2. y.k = "epoch" => Len(Log(i)) = Told(i)
    BY <1>4, <2>1 DEF LogOK
  <2>3. proc[i].said = Epochs => proc'[i].said = Epochs
    BY <1>2, <1>7
  <2>4. y.k \in {"joined", "end"} => proc'[i].said = Epochs
    BY <1>2, <1>4
  <2>5. proc'[i].st \in {"typed", "run"} => y.k = "epoch"
    BY <1>2, <1>4
  <2> QED BY <1>0, <1>1, <1>4, <1>5, <1>8, <2>1, <2>2, <2>3, <2>4, <2>5, LogLonger
<1>10. i \in CNs => NodeOK(i)'
  BY <1>0, <1>1, <1>2, <1>9 DEF NodeOK
<1>11. CNs \subseteq All
  BY <1>0, PointFacts DEF ShapeOK
<1>12. proc'[i].said = proc[i].said \/ \A j \in CNs : proc'[i].said <= proc[j].epoch
  <2>1. CASE k = "epoch"
    <3>1. \A j \in CNs : proc[j].epoch \in Nat /\ x.said <= proc[j].epoch
      BY <1>0, <1>7, <1>11, <2>1 DEF ShapeOK, Procs
    <3> QED BY <1>2, <3>1
  <2>2. CASE k # "epoch"
    BY <1>2, <2>2
  <2> QED BY <2>1, <2>2
<1>13. proc'[i].epoch >= proc[i].epoch
  BY <1>0, <1>2 DEF Procs
<1> QED BY <1>6, <1>10, <1>12, <1>13, LocalKeeps

\* The benchmark and its faults keep the invariant.
LEMMA EnterKeeps ==
  ASSUME MeasureInv, NEW i \in All, Enter(i)
  PROVE  MeasureInv'
<1>1. proc[i].st = "typed" /\ proc[i].st # "none"
  BY DEF Enter, CanEnter
<1>2. ShapeOK /\ ProcOK(i) /\ proc[i] \in Procs /\ Epochs \in Nat /\ Epochs > 0
  BY <1>1, MovingNode
<1>3. proc[i].epoch = 0 /\ proc[i].said = 0
  BY <1>1, <1>2 DEF ProcOK, Procs
<1>4. PICK x : x = [Idle EXCEPT !.st = "run", !.fresh = TRUE]
  OBVIOUS
<1>5. /\ x \in Procs /\ x.st = "run" /\ x.fresh /\ x.epoch = 0 /\ x.said = 0
  <2>1. x = [st |-> "run", epoch |-> 0, said |-> 0, fresh |-> TRUE]
    BY <1>4 DEF Idle
  <2>2. "run" \in States /\ 0 \in 0 .. Epochs /\ TRUE \in BOOLEAN
    BY <1>2 DEF States
  <2>3. x \in Procs
    BY <2>1, <2>2 DEF Procs
  <2> QED BY <2>1, <2>3
<1>6. proc' = [proc EXCEPT ![i] = x] /\ stream' = stream /\ lat' = lat
  BY <1>4 DEF Enter
<1>7. proc'[i] = x
  BY <1>2, <1>6 DEF ShapeOK
<1>8. Local(i)
  BY <1>6 DEF Enter, Local
<1>9. memc' \in 0 .. N + 1
  <2>1. memc + 1 \in Int /\ N + 1 \in Int /\ memc \in 0 .. N + 1 /\ N \in Nat
    BY <1>2, MeasureConstants DEF ShapeOK
  <2>2. memc' = IF memc + 1 <= N + 1 THEN memc + 1 ELSE N + 1
    BY <2>1, OfTwo DEF Enter
  <2> QED BY <2>1, <2>2
<1>10. ProcOK(i)'
  BY <1>5, <1>7 DEF ProcOK
<1>11. lat' \in [All -> [1 .. Epochs -> {"none", "old", "new"}]]
  BY <1>2, <1>6 DEF ShapeOK
<1>12. /\ x.epoch >= proc[i].epoch /\ x.said >= proc[i].said /\ x.st # "none"
       /\ x.said = proc[i].said /\ stream' = stream /\ proc' = [proc EXCEPT ![i] = x]
  BY <1>3, <1>5, <1>6
<1> QED BY <1>1, <1>5, <1>8, <1>9, <1>10, <1>11, <1>12, SilentKeeps

\* An epoch ends on node i and its latencies are written.
LEMMA WriteLatKeeps ==
  ASSUME MeasureInv, NEW i \in All, WriteLat(i)
  PROVE  MeasureInv'
<1>1. /\ proc[i].st = "run" /\ proc[i].st # "none" /\ proc[i].fresh
      /\ proc[i].said = proc[i].epoch /\ proc[i].epoch < Epochs
  BY DEF WriteLat, CanWrite
<1>2. ShapeOK /\ ProcOK(i) /\ proc[i] \in Procs /\ Epochs \in Nat /\ Epochs > 0
  BY <1>1, MovingNode
<1>3. PICK e : e = proc[i].epoch + 1
  OBVIOUS
<1>4. e \in 1 .. Epochs /\ proc[i].epoch \in Nat
  BY <1>1, <1>2, <1>3 DEF Procs
<1>5. /\ lat' = [lat EXCEPT ![i][e] = "new"]
      /\ proc' = [proc EXCEPT ![i].epoch = e, ![i].said = IF Ids[i] = 0 THEN @ ELSE e]
      /\ UNCHANGED <<pt, pc, cur, outs, stream, memc, result, faults>>
  BY <1>3 DEF WriteLat
<1>6. PICK x : x = [proc[i] EXCEPT !.epoch = e, !.said = IF Ids[i] = 0 THEN proc[i].said ELSE e]
  OBVIOUS
<1>7. /\ x \in Procs /\ x.st = "run" /\ x.fresh /\ x.epoch = e
      /\ x.said = IF Ids[i] = 0 THEN proc[i].said ELSE e
  <2>1. e \in 0 .. Epochs /\ (IF Ids[i] = 0 THEN proc[i].said ELSE e) \in 0 .. Epochs
    BY <1>2, <1>4 DEF Procs
  <2>2. x \in Procs
    BY <1>2, <1>6, <2>1 DEF Procs
  <2>3. /\ x.st = proc[i].st /\ x.fresh = proc[i].fresh /\ x.epoch = e
        /\ x.said = IF Ids[i] = 0 THEN proc[i].said ELSE e
    BY <1>2, <1>6 DEF Procs
  <2> QED BY <1>1, <2>2, <2>3
<1>8. proc' = [proc EXCEPT ![i] = x]
  BY <1>2, <1>5, <1>6 DEF ShapeOK, Procs
<1>9. proc'[i] = x
  BY <1>2, <1>8 DEF ShapeOK
<1>10. /\ lat' \in [All -> [1 .. Epochs -> {"none", "old", "new"}]]
       /\ lat'[i][e] = "new" /\ \A d \in 1 .. Epochs \ {e} : lat'[i][d] = lat[i][d]
       /\ \A j \in All \ {i} : lat'[j] = lat[j]
  BY <1>2, <1>4, <1>5 DEF ShapeOK
<1>11. Local(i)
  <2>1. \A j \in All \ {i} : proc'[j] = proc[j] /\ stream'[j] = stream[j]
    BY <1>2, <1>5, <1>8 DEF ShapeOK
  <2> QED BY <1>5, <1>10, <2>1 DEF Local
<1>12. memc' \in 0 .. N + 1
  BY <1>2, <1>5 DEF ShapeOK
<1>13. ProcOK(i)'
  <2>1. \A d \in 1 .. proc[i].epoch : lat[i][d] = "new"
    BY <1>1, <1>2 DEF ProcOK
  <2>2. \A d \in 1 .. e : lat'[i][d] = "new"
    BY <1>2, <1>3, <1>4, <1>10, <2>1
  <2> QED BY <1>1, <1>3, <1>4, <1>7, <1>9, <2>2 DEF ProcOK
<1>14. x.epoch >= proc[i].epoch /\ x.said >= proc[i].said /\ x.st # "none"
  BY <1>1, <1>3, <1>4, <1>7
<1>15. stream' = stream
  BY <1>5
<1> QED BY <1>1, <1>7, <1>8, <1>10, <1>11, <1>12, <1>13, <1>14, <1>15, SilentKeeps

\* Node 0 prints an epoch.
LEMMA TellEpochKeeps ==
  ASSUME MeasureInv, NEW i \in All, TellEpoch(i)
  PROVE  MeasureInv'
<1>1. /\ proc[i].st = "run" /\ proc[i].st # "none" /\ proc[i].said < proc[i].epoch
      /\ \A j \in CNs : proc[j].epoch >= proc[i].epoch
  BY DEF TellEpoch, CanTell
<1>2. ShapeOK /\ ProcOK(i) /\ proc[i] \in Procs /\ Epochs \in Nat
  BY <1>1, MovingNode
<1>3. PICK e : e = proc[i].epoch
  OBVIOUS
<1>4. /\ e \in 1 .. Epochs /\ proc[i].said \in Nat /\ e = proc[i].said + 1 /\ Ids[i] = 0
  BY <1>1, <1>2, <1>3 DEF ProcOK, Procs
<1>5. PICK x : x = [proc[i] EXCEPT !.said = e]
  OBVIOUS
<1>6. /\ x \in Procs /\ x.st = "run" /\ x.fresh = proc[i].fresh /\ x.epoch = e /\ x.said = e
  BY <1>1, <1>2, <1>3, <1>4, <1>5 DEF Procs
<1>7. /\ proc' = [proc EXCEPT ![i] = x]
      /\ stream' = [stream EXCEPT ![i] = Append(@, Line(i, "epoch", e))]
      /\ memc' = memc /\ lat' = lat /\ UNCHANGED <<pt, pc, cur, outs, result>>
  BY <1>2, <1>3, <1>5 DEF TellEpoch, ShapeOK
<1>8. proc'[i] = x
  BY <1>2, <1>7 DEF ShapeOK
<1>9. Local(i)
  BY <1>7 DEF Local
<1>10. ProcOK(i)'
  BY <1>2, <1>3, <1>4, <1>6, <1>7, <1>8 DEF ProcOK
<1>11. e \in Nat /\ \A j \in CNs : proc[j].epoch >= e
  BY <1>1, <1>3, <1>4
<1> QED BY <1>1, <1>3, <1>4, <1>6, <1>7, <1>9, <1>10, <1>11, PrintKeeps

\* A process changes its state to s and prints the line of kind k.
LEMMA EndsWith ==
  ASSUME MeasureInv, NEW i \in All, proc[i].st \notin {"none", "typed"},
         NEW s \in States \ {"none", "typed", "run"}, NEW k \in {"joined", "end", "fail"},
         proc' = [proc EXCEPT ![i].st = s],
         stream' = [stream EXCEPT ![i] = Append(@, Line(i, k, 0))],
         UNCHANGED <<pt, pc, cur, outs, memc, lat, result>>,
         s \in {"joined", "fin"} \/ k \in {"joined", "end"} => proc[i].said = Epochs
  PROVE  MeasureInv'
<1>1. proc[i].st # "none"
  OBVIOUS
<1>2. ShapeOK /\ ProcOK(i) /\ proc[i] \in Procs /\ Epochs \in Nat
  BY <1>1, MovingNode
<1>3. PICK x : x = [proc[i] EXCEPT !.st = s]
  OBVIOUS
<1>4. /\ x \in Procs /\ x.st = s /\ x.fresh = proc[i].fresh /\ x.epoch = proc[i].epoch
      /\ x.said = proc[i].said
  BY <1>2, <1>3 DEF Procs
<1>5. proc' = [proc EXCEPT ![i] = x]
  BY <1>2, <1>3 DEF ShapeOK
<1>6. proc'[i] = x
  BY <1>2, <1>5 DEF ShapeOK
<1>7. Local(i)
  BY <1>5 DEF Local
<1>8. ProcOK(i)'
  BY <1>2, <1>4, <1>6 DEF ProcOK
<1>9. k # "epoch" /\ x.st \notin {"none", "typed", "run"} /\ 0 \in Nat
  BY <1>4
<1> QED BY <1>1, <1>4, <1>5, <1>7, <1>8, <1>9, PrintKeeps

\* The steps of the benchmark, its crashes and its hangs.
LEMMA BenchKeeps ==
  ASSUME MeasureInv, NEW i \in All, Bench(i) \/ Crash(i) \/ Hang(i)
  PROVE  MeasureInv'
<1>1. CASE Enter(i)
  BY <1>1, EnterKeeps
<1>2. CASE WriteLat(i)
  BY <1>2, WriteLatKeeps
<1>3. CASE TellEpoch(i)
  BY <1>3, TellEpochKeeps
<1>4. CASE JoinThreads(i)
  BY <1>4, EndsWith DEF JoinThreads, CanJoin, States
<1>5. CASE PrintEnd(i)
  <2>1. proc[i].st = "joined" /\ ProcOK(i)
    BY <1>5, MovingNode DEF PrintEnd, CanEnd
  <2>2. proc[i].said = Epochs
    BY <2>1 DEF ProcOK
  <2> QED BY <1>5, <2>1, <2>2, EndsWith DEF PrintEnd, States
<1>6. CASE Crash(i)
  BY <1>6, EndsWith DEF Crash, States
<1>7. CASE Hang(i)
  <2>1. proc[i].st \in {"run", "joined"} /\ proc' = [proc EXCEPT ![i].st = "hung"]
        /\ UNCHANGED <<pt, pc, cur, outs, stream, memc, lat, result>>
    BY <1>7 DEF Hang
  <2>2. ShapeOK /\ ProcOK(i) /\ proc[i] \in Procs
    BY <2>1, MovingNode
  <2>3. PICK x : x = [proc[i] EXCEPT !.st = "hung"]
    OBVIOUS
  <2>4. /\ x \in Procs /\ x.st = "hung" /\ x.fresh = proc[i].fresh /\ x.epoch = proc[i].epoch
        /\ x.said = proc[i].said
    BY <2>2, <2>3 DEF Procs, States
  <2>5. proc' = [proc EXCEPT ![i] = x] /\ Local(i)
    BY <2>1, <2>2, <2>3 DEF ShapeOK, Local
  <2>6. proc'[i] = x
    BY <2>2, <2>5 DEF ShapeOK
  <2>7. ProcOK(i)'
    BY <2>1, <2>2, <2>4, <2>6 DEF ProcOK
  <2>8. x.epoch >= proc[i].epoch /\ x.said >= proc[i].said
    BY <2>2, <2>4 DEF Procs
  <2>9. memc' \in 0 .. N + 1 /\ lat' \in [All -> [1 .. Epochs -> {"none", "old", "new"}]]
    BY <2>1, <2>2 DEF ShapeOK
  <2>10. proc[i].st # "none" /\ stream' = stream
    BY <2>1
  <2> QED BY <2>4, <2>5, <2>7, <2>8, <2>9, <2>10, SilentKeeps
<1> QED BY <1>1, <1>2, <1>3, <1>4, <1>5, <1>6, <1>7 DEF Bench

-----------------------------------------------------------------------------
(* Steps of the script *)

\* An attempt that is given up, whatever it has left behind.
LEMMA RetryKeeps ==
  ASSUME Retry, ShapeOK', \A i \in All : ProcOK(i)'
  PROVE  MeasureInv'
<1>1. pc' = "kill" /\ cur' = 1
  BY DEF Retry
<1>2. CurOK' /\ TellInv' /\ ReadInv' /\ RunInv' /\ ResultInv'
  BY <1>1 DEF CurOK, TellInv, Launched, ReadInv, RunInv, ResultInv
<1>3. (\A i \in CNs : NodeOK(i))'
  BY <1>1 DEF NodeOK, Launched, Waiting
<1> QED BY <1>2, <1>3 DEF MeasureInv, All

\* A node without a process.
LEMMA IdleFields ==
  /\ Idle \in Procs /\ Idle.st = "none" /\ Idle.epoch = 0 /\ Idle.said = 0
  /\ Idle.fresh = FALSE
<1>1. Epochs \in Nat /\ 0 \in 0 .. Epochs /\ "none" \in States /\ FALSE \in BOOLEAN
  BY MeasureConstants DEF States
<1>2. Idle \in Procs
  BY <1>1 DEF Idle, Procs
<1> QED BY <1>2 DEF Idle

\* Processes and files stay as they are.
LEMMA ProcSame ==
  ASSUME MeasureInv, proc' = proc, lat' = lat
  PROVE  \A i \in All : ProcOK(i)'
BY DEF MeasureInv, ProcOK

\* The nodes of the point are killed, and all that is left is of the past.
LEMMA KillProcessKeeps ==
  ASSUME MeasureInv, KillProcess
  PROVE  MeasureInv'
<1>1. /\ pc = "kill" /\ pc' = "memc" /\ pt' = pt /\ cur' = cur /\ memc' = memc
      /\ proc' = [i \in All |-> IF i \in CNs THEN Idle ELSE [proc[i] EXCEPT !.fresh = FALSE]]
      /\ outs' = [i \in All |-> <<>>] /\ result' = NoResult
      /\ stream' = [i \in All |-> [k \in DOMAIN stream[i] |-> [stream[i][k] EXCEPT !.fresh = FALSE]]]
      /\ lat' = [i \in All |-> [e \in 1 .. Epochs |-> IF lat[i][e] = "none" THEN "none" ELSE "old"]]
      /\ CNs' = CNs
  BY DEF KillProcess, Age, CNs, Point
<1>2. ShapeOK /\ CurOK /\ \A i \in All : ProcOK(i)
  BY DEF MeasureInv
<1>3. CNs \subseteq All /\ Epochs \in Nat /\ cur = 1
  BY <1>1, <1>2, PointFacts DEF ShapeOK, CurOK
<1>4. ASSUME NEW i \in All
      PROVE  /\ proc'[i] \in Procs /\ proc'[i].fresh = FALSE
             /\ i \in CNs => proc'[i] = Idle
             /\ i \notin CNs => /\ proc'[i].st = proc[i].st /\ proc'[i].said = proc[i].said
                                /\ proc'[i].epoch = proc[i].epoch
  <2>1. CASE i \in CNs
    <3>1. proc'[i] = Idle
      BY <1>1, <2>1
    <3> QED BY <2>1, <3>1, IdleFields
  <2>2. CASE i \notin CNs
    <3>1. proc'[i] = [proc[i] EXCEPT !.fresh = FALSE]
      BY <1>1, <2>2
    <3>2. proc[i] \in Procs
      BY <1>2 DEF ShapeOK
    <3> QED BY <2>2, <3>1, <3>2 DEF Procs
  <2> QED BY <2>1, <2>2
<1>5. ASSUME NEW i \in All PROVE stream'[i] \in Seq(Lines)
  <2>1. PICK s \in Seq(Lines) : s = stream[i]
    BY <1>2 DEF ShapeOK
  <2>2. Len(s) \in Nat /\ DOMAIN s = 1 .. Len(s) /\ \A k \in 1 .. Len(s) : s[k] \in Lines
    BY LenProperties, ElementOfSeq
  <2>3. \A k \in 1 .. Len(s) : [s[k] EXCEPT !.fresh = FALSE] \in Lines
    BY <2>2 DEF Lines
  <2>4. [k \in 1 .. Len(s) |-> [s[k] EXCEPT !.fresh = FALSE]] \in [1 .. Len(s) -> Lines]
    BY <2>3
  <2>5. \E n \in Nat : stream'[i] \in [1 .. n -> Lines]
    BY <1>1, <2>1, <2>2, <2>4
  <2> QED BY <2>5, SeqDef
<1>6. ShapeOK'
  <2>0. proc' = [i \in All |-> proc'[i]] /\ stream' = [i \in All |-> stream'[i]]
    BY <1>1
  <2>1. proc' \in [All -> Procs] /\ stream' \in [All -> Seq(Lines)]
    <3>1. \A i \in All : proc'[i] \in Procs
      BY <1>4
    <3>2. \A i \in All : stream'[i] \in Seq(Lines)
      BY <1>5
    <3>3. proc' \in [All -> Procs]
      BY <2>0, <3>1, Zenon
    <3>4. stream' \in [All -> Seq(Lines)]
      BY <2>0, <3>2, Zenon
    <3> QED BY <3>3, <3>4
  <2>2. outs' \in [All -> Seq(Lines)]
    BY <1>1, EmptySeq
  <2>3. lat' \in [All -> [1 .. Epochs -> {"none", "old", "new"}]]
    BY <1>1
  <2> QED BY <1>1, <1>2, <2>1, <2>2, <2>3 DEF ShapeOK, Control, NoResult
<1>7. ASSUME NEW i \in All PROVE ProcOK(i)'
  <2>1. CASE i \in CNs
    <3>1. proc'[i].st = "none" /\ proc'[i].epoch = 0 /\ proc'[i].said = 0 /\ ~proc'[i].fresh
      BY <1>4, <2>1, IdleFields
    <3> QED BY <1>3, <3>1 DEF ProcOK
  <2>2. CASE i \notin CNs
    BY <1>2, <1>4, <2>2 DEF ProcOK
  <2> QED BY <2>1, <2>2
<1>8. (\A i \in CNs : NodeOK(i))'
  <2>1. ASSUME NEW i \in CNs PROVE Waiting(i)' /\ ~Launched(i)' /\ proc'[i] = Idle /\ outs'[i] = <<>>
    BY <1>1, <1>3 DEF Waiting, Launched
  <2> QED BY <1>1, <2>1 DEF NodeOK, Idle
<1>9. CurOK' /\ TellInv' /\ ReadInv' /\ RunInv' /\ ResultInv'
  BY <1>1, <1>3 DEF CurOK, TellInv, Launched, ReadInv, RunInv, ResultInv, NoResult, NoLat
<1> QED BY <1>6, <1>7, <1>8, <1>9 DEF MeasureInv, All

\* A kill that reaches some of the nodes.
LEMMA KillFailsKeeps ==
  ASSUME MeasureInv, KillFails
  PROVE  MeasureInv'
<1>1. /\ Retry /\ UNCHANGED <<pt, outs, stream, memc, lat, result>>
  BY DEF KillFails
<1>2. PICK S : proc' = [i \in All |-> IF i \in S THEN Idle ELSE proc[i]]
  BY DEF KillFails
<1>3. ShapeOK /\ \A i \in All : ProcOK(i)
  BY DEF MeasureInv
<1>4. Epochs \in Nat
  BY MeasureConstants
<1>5. Idle \in Procs
  BY IdleFields
<1>6. ShapeOK'
  <2>1. proc' \in [All -> Procs]
    BY <1>2, <1>3, <1>5 DEF ShapeOK
  <2> QED BY <1>1, <1>3, <2>1 DEF ShapeOK, Retry, Control, NoResult
<1>7. ASSUME NEW i \in All PROVE ProcOK(i)'
  <2>1. CASE i \in S
    <3>1. proc'[i] = Idle
      BY <1>2, <2>1
    <3>2. proc'[i].st = "none" /\ proc'[i].epoch = 0 /\ proc'[i].said = 0 /\ ~proc'[i].fresh
      BY <3>1, IdleFields
    <3> QED BY <1>4, <3>2 DEF ProcOK
  <2>2. CASE i \notin S
    <3>1. proc'[i] = proc[i] /\ lat' = lat
      BY <1>1, <1>2, <2>2
    <3> QED BY <1>3, <3>1 DEF ProcOK
  <2> QED BY <2>1, <2>2
<1> QED BY <1>1, <1>6, <1>7, RetryKeeps

\* memcached is restarted, or not.
LEMMA RestartKeeps ==
  ASSUME MeasureInv, RestartMemc \/ RestartFails
  PROVE  MeasureInv'
<1>1. /\ pc = "memc" /\ memc' \in {0, memc}
      /\ UNCHANGED <<pt, outs, stream, proc, lat, result>>
      /\ Retry \/ (pc' = "launch" /\ cur' = 1)
  BY DEF RestartMemc, RestartFails
<1>2. /\ ShapeOK /\ (\A i \in All : ProcOK(i)) /\ (\A i \in CNs : NodeOK(i)) /\ ResultInv
  BY DEF MeasureInv
<1>3. N \in Nat /\ memc' \in 0 .. N + 1 /\ CNs' = CNs /\ Point.cns \in 1 .. N
  BY <1>1, <1>2, PointFacts DEF ShapeOK, CNs, Point
<1>4. ShapeOK'
  BY <1>1, <1>2, <1>3 DEF ShapeOK, Retry, Control, NoResult
<1>5. \A i \in All : ProcOK(i)'
  BY <1>1, ProcSame
<1>6. CASE Retry
  BY <1>4, <1>5, <1>6, RetryKeeps
<1>7. CASE pc' = "launch" /\ cur' = 1
  <2>1. ASSUME NEW i \in CNs
        PROVE  i >= 1 /\ Waiting(i) /\ proc[i] = Idle /\ outs[i] = <<>>
    BY <1>1, <1>2, <1>3 DEF NodeOK, Waiting, CNs
  <2>2. ASSUME NEW i \in CNs PROVE ~Launched(i)' /\ NodeOK(i)'
    <3>1. i >= 1 /\ i \in Nat
      BY <1>3, <2>1 DEF CNs
    <3>2. ~Launched(i)'
      BY <1>7, <3>1 DEF Launched
    <3>3. proc'[i] = Idle /\ outs'[i] = <<>>
      BY <1>1, <2>1
    <3> QED BY <3>2, <3>3 DEF NodeOK, Idle
  <2>3. CurOK'
    <3>1. 1 \in CNs
      BY <1>2, PointFacts DEF ShapeOK
    <3> QED BY <1>3, <1>7, <3>1 DEF CurOK
  <2>4. TellInv' /\ ReadInv' /\ RunInv'
    <3>1. TellInv'
      BY <1>3, <2>2 DEF TellInv
    <3>2. ReadInv'
      BY <1>1, <1>3, <1>7, <2>1 DEF ReadInv
    <3>3. RunInv'
      BY <1>7 DEF RunInv
    <3> QED BY <3>1, <3>2, <3>3
  <2>5. ResultInv'
    <3>1. result' = NoResult /\ NoResult' = NoResult
      BY <1>1, <1>2 DEF ResultInv, NoResult, NoLat
    <3> QED BY <1>7, <3>1 DEF ResultInv
  <2> QED BY <1>3, <1>4, <1>5, <2>2, <2>3, <2>4, <2>5 DEF MeasureInv, All
<1> QED BY <1>1, <1>6, <1>7

\* The benchmark is typed into the shell of node cur, which is cleared.
LEMMA LaunchKeeps ==
  ASSUME MeasureInv, Launch
  PROVE  MeasureInv'
<1>1. /\ pc = "launch" /\ pt' = pt /\ outs' = outs /\ memc' = memc /\ lat' = lat
      /\ result' = result /\ CNs' = CNs /\ Point' = Point /\ From' = From
      /\ stream' = [stream EXCEPT ![cur] = <<>>]
      /\ IF cur = Point.cns THEN pc' = "read" /\ cur' = 1 ELSE pc' = pc /\ cur' = cur + 1
  BY DEF Launch, ClearShell, CNs, Point, From
<1>2. /\ ShapeOK /\ CurOK /\ ReadInv /\ ResultInv /\ TellInv
      /\ (\A i \in All : ProcOK(i)) /\ (\A i \in CNs : NodeOK(i))
  BY DEF MeasureInv
<1>3. /\ N \in Nat /\ Epochs \in Nat /\ CNs \subseteq All /\ CNs = 1 .. Point.cns
      /\ Point.cns \in 1 .. N /\ cur \in CNs /\ 1 \in CNs
  BY <1>1, <1>2, PointFacts DEF ShapeOK, CurOK, CNs
<1>4. proc[cur] = Idle /\ outs[cur] = <<>>
  BY <1>1, <1>2, <1>3 DEF NodeOK, Waiting
<1>5. PICK x : x = [Idle EXCEPT !.st = "typed", !.fresh = TRUE]
  OBVIOUS
<1>6. x \in Procs /\ x.st = "typed" /\ x.epoch = 0 /\ x.said = 0 /\ x.fresh
  <2>1. x = [st |-> "typed", epoch |-> 0, said |-> 0, fresh |-> TRUE]
    BY <1>5 DEF Idle
  <2>2. "typed" \in States /\ 0 \in 0 .. Epochs /\ TRUE \in BOOLEAN
    BY <1>3 DEF States
  <2>3. x \in Procs
    BY <2>1, <2>2 DEF Procs
  <2> QED BY <2>1, <2>3
<1>7. proc' = [proc EXCEPT ![cur] = x]
  BY <1>4, <1>5, IdleFields DEF Launch
<1>8. /\ proc'[cur] = x /\ \A i \in All \ {cur} : proc'[i] = proc[i]
      /\ stream'[cur] = <<>> /\ \A i \in All \ {cur} : stream'[i] = stream[i]
  BY <1>1, <1>2, <1>3, <1>7 DEF ShapeOK
<1>9. ShapeOK'
  <2>1. proc' \in [All -> Procs]
    BY <1>2, <1>6, <1>7 DEF ShapeOK
  <2>2. <<>> \in Seq(Lines)
    BY EmptySeq
  <2>3. stream' \in [All -> Seq(Lines)]
    BY <1>1, <1>2, <2>2 DEF ShapeOK
  <2>4. cur' \in Nat /\ pc' \in Control
    BY <1>1, <1>2, <1>3 DEF Control
  <2> QED BY <1>1, <1>2, <2>1, <2>3, <2>4 DEF ShapeOK, NoResult
<1>10. ASSUME NEW i \in All PROVE ProcOK(i)'
  <2>1. CASE i = cur
    BY <1>3, <1>6, <1>8, <2>1 DEF ProcOK
  <2>2. CASE i # cur
    BY <1>1, <1>2, <1>8, <2>2 DEF ProcOK
  <2> QED BY <2>1, <2>2
<1>11. ASSUME NEW i \in CNs
       PROVE  /\ Launched(i)' <=> Launched(i) \/ i = cur
              /\ Waiting(i)' <=> Waiting(i) /\ i # cur
  BY <1>1, <1>3 DEF Launched, Waiting
<1>12. ASSUME NEW i \in CNs PROVE NodeOK(i)'
  <2>1. CASE i = cur
    <3>1. Log(i)' = <<>>
      <4>1. outs'[i] = <<>> /\ stream'[i] = <<>>
        BY <1>1, <1>4, <1>8, <2>1
      <4>2. <<>> \o <<>> = <<>>
        OBVIOUS
      <4> QED BY <4>1, <4>2 DEF Log
    <3>2. Told(i)' = 0 /\ Len(<<>>) = 0
      BY <1>6, <1>8, <2>1 DEF Told
    <3>3. LogOK(i)'
      BY <3>1, <3>2 DEF LogOK
    <3>4. ~Waiting(i)' /\ proc'[i].fresh /\ proc'[i].st # "none"
      BY <1>6, <1>8, <1>11, <2>1
    <3> QED BY <3>3, <3>4 DEF NodeOK
  <2>2. CASE i # cur
    <3>1. proc'[i] = proc[i] /\ Log(i)' = Log(i) /\ Told(i)' = Told(i) /\ outs'[i] = outs[i]
      BY <1>1, <1>3, <1>8, <2>2 DEF Log, Told
    <3>2. LogOK(i)' <=> LogOK(i)
      BY <3>1 DEF LogOK
    <3> QED BY <1>2, <1>11, <2>2, <3>1, <3>2 DEF NodeOK, Idle
  <2> QED BY <2>1, <2>2
<1>13. TellInv'
  <2>1. SUFFICES ASSUME NEW i \in CNs, NEW j \in CNs, Launched(i) \/ i = cur, Ids[i] = 0
                 PROVE  proc'[i].said <= proc'[j].epoch
    BY <1>1, <1>11 DEF TellInv
  <2>2. proc[j].epoch \in Nat /\ proc'[j].epoch \in Nat /\ proc'[j].epoch = proc[j].epoch
    <3>1. CASE j = cur
      <4>1. proc[j].epoch = 0 /\ proc'[j].epoch = 0
        BY <1>4, <1>6, <1>8, <3>1, IdleFields
      <4> QED BY <4>1
    <3>2. CASE j # cur
      <4>1. proc[j] \in Procs /\ proc'[j] = proc[j]
        BY <1>2, <1>3, <1>8, <3>2 DEF ShapeOK
      <4>2. proc[j].epoch \in 0 .. Epochs
        BY <4>1 DEF Procs
      <4> QED BY <1>3, <4>1, <4>2
    <3> QED BY <3>1, <3>2
  <2>3. CASE i = cur
    BY <1>6, <1>8, <2>2, <2>3
  <2>4. CASE i # cur
    <3>1. proc'[i] = proc[i] /\ proc[i].said <= proc[j].epoch
      BY <1>2, <1>3, <1>8, <2>1, <2>4 DEF TellInv
    <3> QED BY <2>2, <3>1
  <2> QED BY <2>3, <2>4
<1>14. CurOK'
  BY <1>1, <1>3 DEF CurOK
<1>15. ReadInv'
  BY <1>1, <1>2, <1>3 DEF ReadInv
<1>16. RunInv'
  BY <1>1 DEF RunInv
<1>17. ResultInv'
  <2>1. result' = NoResult /\ pc' \in {"launch", "read"}
    BY <1>1, <1>2 DEF ResultInv
  <2> QED BY <2>1 DEF ResultInv, NoResult, NoLat
<1> QED BY <1>1, <1>9, <1>10, <1>12, <1>13, <1>14, <1>15, <1>16, <1>17 DEF MeasureInv, All

\* Some unread lines of the shell that is being read become read ones.
LEMMA ReceiveKeeps ==
  ASSUME MeasureInv, Receive
  PROVE  MeasureInv'
<1>1. /\ pc = "read" /\ UNCHANGED <<pt, proc, memc, lat, result>>
      /\ CNs' = CNs /\ Point' = Point /\ From' = From
      /\ Retry \/ UNCHANGED <<pc, cur>>
  BY DEF Receive, Reading, CNs, Point, From
<1>2. PICK k \in 1 .. Len(stream[cur]) :
        /\ outs' = [outs EXCEPT ![cur] = @ \o SubSeq(stream[cur], 1, k)]
        /\ stream' = [stream EXCEPT ![cur] = SubSeq(@, k + 1, Len(@))]
  BY DEF Receive
<1>3. /\ ShapeOK /\ CurOK /\ ReadInv /\ ResultInv /\ TellInv
      /\ (\A i \in All : ProcOK(i)) /\ (\A i \in CNs : NodeOK(i))
  BY DEF MeasureInv
<1>4. CNs \subseteq All /\ cur \in CNs
  BY <1>1, <1>3, PointFacts DEF ShapeOK, CurOK
<1>5. PICK o \in Seq(Lines), s \in Seq(Lines) : o = outs[cur] /\ s = stream[cur]
  BY <1>3, <1>4 DEF ShapeOK
<1>6. /\ o \o SubSeq(s, 1, k) \in Seq(Lines) /\ SubSeq(s, k + 1, Len(s)) \in Seq(Lines)
      /\ (o \o SubSeq(s, 1, k)) \o SubSeq(s, k + 1, Len(s)) = o \o s
  BY <1>2, <1>5, ReceiveLines
<1>7. /\ outs'[cur] = o \o SubSeq(s, 1, k) /\ stream'[cur] = SubSeq(s, k + 1, Len(s))
      /\ \A i \in All \ {cur} : outs'[i] = outs[i] /\ stream'[i] = stream[i]
  BY <1>2, <1>3, <1>4, <1>5 DEF ShapeOK
<1>8. ShapeOK'
  <2>1. outs' \in [All -> Seq(Lines)] /\ stream' \in [All -> Seq(Lines)]
    BY <1>2, <1>3, <1>5, <1>6 DEF ShapeOK
  <2> QED BY <1>1, <1>3, <2>1 DEF ShapeOK, Retry, Control, NoResult
<1>9. \A i \in All : ProcOK(i)'
  BY <1>1, ProcSame
<1>10. CASE Retry
  BY <1>8, <1>9, <1>10, RetryKeeps
<1>11. CASE pc' = pc /\ cur' = cur
  <2>1. ASSUME NEW i \in CNs PROVE NodeOK(i)'
    <3>1. Log(i)' = Log(i)
      <4>1. CASE i = cur
        BY <1>5, <1>6, <1>7, <4>1 DEF Log
      <4>2. CASE i # cur
        BY <1>4, <1>7, <4>2 DEF Log
      <4> QED BY <4>1, <4>2
    <3>2. /\ Told(i)' = Told(i) /\ proc'[i] = proc[i] /\ Launched(i) /\ Launched(i)'
          /\ ~Waiting(i)'
      BY <1>1, <1>11 DEF Told, Launched, Waiting
    <3>3. LogOK(i)' <=> LogOK(i)
      BY <3>1, <3>2 DEF LogOK
    <3> QED BY <1>3, <3>2, <3>3 DEF NodeOK
  <2>2. TellInv'
    BY <1>1, <1>3, <1>11 DEF TellInv, Launched
  <2>3. ReadInv'
    <3>1. ASSUME NEW i \in CNs
          PROVE  (i < cur => Shown(outs'[i], EndPrompt(Point))) /\ (i > cur => outs'[i] = <<>>)
      <4>1. i # cur => outs'[i] = outs[i]
        BY <1>4, <1>7
      <4>2. cur \in Int /\ i \in Int
        BY <1>3, <1>4, PointFacts DEF ShapeOK, CNs
      <4> QED BY <1>1, <1>3, <4>1, <4>2 DEF ReadInv
    <3> QED BY <1>1, <1>11, <3>1 DEF ReadInv, Shown, EndPrompt
  <2>4. CurOK' /\ RunInv'
    BY <1>1, <1>3, <1>11 DEF CurOK, RunInv
  <2>5. ResultInv'
    <3>1. result' = NoResult /\ pc' = "read"
      BY <1>1, <1>3, <1>11 DEF ResultInv
    <3> QED BY <3>1 DEF ResultInv, NoResult, NoLat
  <2> QED BY <1>1, <1>8, <1>9, <2>1, <2>2, <2>3, <2>4, <2>5 DEF MeasureInv, All
<1> QED BY <1>1, <1>10, <1>11

\* The script goes on with the output it has, or with the next shell.
LEMMA LaunchedKeep ==
  ASSUME MeasureInv, pc \in {"read", "stats", "lats", "done"},
         pc' \in {"read", "stats", "lats", "done"},
         UNCHANGED <<pt, outs, stream, proc, memc, lat>>,
         cur' \in Nat, DOMAIN result' = DOMAIN NoResult
  PROVE  /\ ShapeOK' /\ (\A i \in All : ProcOK(i)') /\ (\A i \in CNs : NodeOK(i)') /\ TellInv'
         /\ Point' = Point /\ CNs' = CNs /\ From' = From /\ WindowOf' = WindowOf
<1>1. /\ ShapeOK /\ TellInv /\ \A i \in CNs : NodeOK(i)
  BY DEF MeasureInv
<1>2. Point' = Point /\ CNs' = CNs /\ From' = From /\ WindowOf' = WindowOf
  BY DEF Point, CNs, From, WindowOf
<1>3. ShapeOK'
  BY <1>1 DEF ShapeOK, Control, NoResult
<1>4. \A i \in All : ProcOK(i)'
  BY ProcSame
<1>5. ASSUME NEW i \in CNs PROVE NodeOK(i)'
  <2>1. Log(i)' = Log(i) /\ Told(i)' = Told(i)
    BY DEF Log, Told
  <2>2. LogOK(i)' <=> LogOK(i)
    BY <2>1 DEF LogOK
  <2>3. Launched(i) /\ Launched(i)' /\ ~Waiting(i)'
    BY DEF Launched, Waiting
  <2> QED BY <1>1, <2>2, <2>3 DEF NodeOK
<1>6. TellInv'
  BY <1>1, <1>2 DEF TellInv, Launched
<1> QED BY <1>2, <1>3, <1>4, <1>5, <1>6

\* What has been read of a started node.
LEMMA ReadLines ==
  ASSUME MeasureInv, NEW i \in CNs, pc \in {"read", "stats", "lats", "done"}
  PROVE  /\ outs[i] \in Seq(Lines) /\ Len(outs[i]) \in Nat
         /\ Told(i) \in 0 .. Epochs /\ Epochs \in Nat
         /\ proc[i].said \in 0 .. Epochs /\ proc[i].epoch \in 0 .. Epochs
         /\ \A j \in 1 .. Len(outs[i]) :
              /\ outs[i][j] \in Lines /\ outs[i][j].fresh
              /\ outs[i][j].k = "epoch" <=> j <= Told(i)
              /\ j <= Told(i) => outs[i][j].e = j
              /\ outs[i][j].k \in {"joined", "end"} => proc[i].said = Epochs
<1>1. ShapeOK /\ NodeOK(i) /\ i \in All /\ Epochs \in Nat
  BY PointFacts DEF MeasureInv, ShapeOK
<1>2. LogOK(i)
  BY <1>1 DEF NodeOK, Launched
<1>3. PICK o \in Seq(Lines), s \in Seq(Lines) : o = outs[i] /\ s = stream[i]
  BY <1>1 DEF ShapeOK
<1>4. Len(o) \in Nat /\ Len(s) \in Nat /\ \A j \in 1 .. Len(o) : o[j] \in Lines
  BY LenProperties, ElementOfSeq
<1>5. Log(i) = o \o s
  BY <1>3 DEF Log
<1>6. /\ Len(Log(i)) = Len(o) + Len(s)
      /\ \A j \in 1 .. Len(o) : Log(i)[j] = o[j]
  BY <1>4, <1>5, ConcatProperties
<1>7. proc[i] \in Procs
  BY <1>1 DEF ShapeOK
<1>8. proc[i].said \in 0 .. Epochs /\ proc[i].epoch \in 0 .. Epochs /\ Told(i) \in 0 .. Epochs
  BY <1>1, <1>7 DEF Procs, Told
<1>9. ASSUME NEW j \in 1 .. Len(o)
      PROVE  /\ o[j].fresh /\ (o[j].k = "epoch" <=> j <= Told(i)) /\ (j <= Told(i) => o[j].e = j)
             /\ o[j].k \in {"joined", "end"} => proc[i].said = Epochs
  <2>1. j \in 1 .. Len(Log(i)) /\ Log(i)[j] = o[j]
    BY <1>4, <1>6
  <2> QED BY <1>2, <2>1 DEF LogOK
<1> QED BY <1>1, <1>3, <1>4, <1>8, <1>9

\* A node whose prompt has been read has run, and reported, every epoch.
LEMMA PromptRead ==
  ASSUME MeasureInv, NEW i \in CNs, pc \in {"read", "stats", "lats", "done"},
         Shown(outs[i], EndPrompt(Point))
  PROVE  /\ proc[i].said = Epochs /\ proc[i].epoch = Epochs
         /\ Told(i) \in {0, Epochs} /\ Told(i) <= Len(outs[i])
<1>1. PICK j \in 1 .. Len(outs[i]) : outs[i][j].k \in {"joined", "end"}
  BY DEF Shown, EndPrompt
<1>2. proc[i].said = Epochs /\ ~(j <= Told(i)) /\ Len(outs[i]) \in Nat
      /\ Told(i) \in 0 .. Epochs /\ Epochs \in Nat /\ proc[i].epoch \in 0 .. Epochs
  BY <1>1, ReadLines
<1>3. proc[i].said <= proc[i].epoch
  <2>1. i \in All
    BY PointFacts DEF MeasureInv, ShapeOK
  <2> QED BY <2>1 DEF MeasureInv, ProcOK
<1> QED BY <1>1, <1>2, <1>3 DEF Told

\* The prompt of node cur has been read.
LEMMA NextNodeKeeps ==
  ASSUME MeasureInv, NextNode
  PROVE  MeasureInv'
<1>1. /\ pc = "read" /\ UNCHANGED <<pt, outs, stream, proc, memc, lat, result>>
      /\ Shown(outs[cur], EndPrompt(Point))
      /\ \/ /\ cur = Point.cns \/ (Point.only_need_tpt /\ Shown(outs[cur], "epoch"))
            /\ pc' = "stats" /\ cur' = cur
         \/ cur # Point.cns /\ cur' = cur + 1 /\ pc' = pc
  BY DEF NextNode, benchVars
<1>2. /\ ShapeOK /\ CurOK /\ ReadInv /\ ResultInv /\ TellInv
  BY DEF MeasureInv
<1>3. /\ CNs = 1 .. Point.cns /\ Point.cns \in 1 .. N /\ N \in Nat /\ cur \in CNs
      /\ Epochs \in Nat /\ Epochs > 0
  BY <1>1, <1>2, PointFacts DEF ShapeOK, CurOK, CNs
<1>4. cur' \in Nat /\ pc' \in {"read", "stats", "lats", "done"} /\ DOMAIN result' = DOMAIN NoResult
  BY <1>1, <1>2, <1>3 DEF ShapeOK
<1>5. /\ ShapeOK' /\ (\A i \in All : ProcOK(i)') /\ (\A i \in CNs : NodeOK(i)') /\ TellInv'
      /\ Point' = Point /\ CNs' = CNs /\ From' = From
  BY <1>1, <1>4, LaunchedKeep
<1>6. ResultInv'
  <2>1. result' = NoResult /\ pc' \in {"read", "stats"}
    BY <1>1, <1>2 DEF ResultInv
  <2> QED BY <2>1 DEF ResultInv, NoResult, NoLat
<1>7. ASSUME NEW i \in CNs
      PROVE  (i < cur \/ i = cur => Shown(outs[i], EndPrompt(Point))) /\ (i > cur => outs[i] = <<>>)
  BY <1>1, <1>2 DEF ReadInv
<1>8. CASE cur # Point.cns /\ cur' = cur + 1 /\ pc' = pc
  <2>1. cur' \in CNs
    BY <1>3, <1>8
  <2>2. CurOK' /\ RunInv'
    BY <1>1, <1>5, <1>8, <2>1 DEF CurOK, RunInv
  <2>3. ASSUME NEW i \in CNs
        PROVE  (i < cur' => Shown(outs[i], EndPrompt(Point))) /\ (i > cur' => outs[i] = <<>>)
    BY <1>3, <1>7, <1>8
  <2>4. ReadInv'
    BY <1>1, <1>5, <1>8, <2>3 DEF ReadInv, Shown, EndPrompt
  <2> QED BY <1>5, <1>6, <2>2, <2>4 DEF MeasureInv, All
<1>9. CASE /\ cur = Point.cns \/ (Point.only_need_tpt /\ Shown(outs[cur], "epoch"))
           /\ pc' = "stats" /\ cur' = cur
  <2>1. CurOK'
    BY <1>3, <1>5, <1>9 DEF CurOK
  <2>2. ReadInv'
    <3>1. ASSUME NEW i \in CNs
          PROVE  (i < cur' => Shown(outs[i], EndPrompt(Point))) /\ (i > cur' => outs[i] = <<>>)
      BY <1>3, <1>7, <1>9
    <3>2. cur' = Point.cns \/ Point.only_need_tpt
      BY <1>9
    <3> QED BY <1>1, <1>5, <1>9, <3>1, <3>2 DEF ReadInv, Shown, EndPrompt
  <2>3. ASSUME NEW i \in CNs PROVE proc[i].epoch = Epochs
    <3>1. CASE cur = Point.cns
      <4>1. i < cur \/ i = cur
        BY <1>3, <3>1
      <4>2. Shown(outs[i], EndPrompt(Point))
        BY <1>7, <4>1
      <4> QED BY <1>1, <4>2, PromptRead
    <3>2. CASE Shown(outs[cur], "epoch")
      <4>1. PICK j \in 1 .. Len(outs[cur]) : outs[cur][j].k = "epoch"
        BY <3>2 DEF Shown
      <4>2. j <= Told(cur) /\ Len(outs[cur]) \in Nat /\ Told(cur) \in 0 .. Epochs
        BY <1>1, <1>3, <4>1, ReadLines
      <4>3. Told(cur) # 0
        BY <1>3, <4>2
      <4>4. Ids[cur] = 0
        BY <4>3 DEF Told
      <4>5. proc[cur].said = Epochs
        BY <1>1, <1>3, PromptRead
      <4>6. proc[cur].said <= proc[i].epoch
        BY <1>1, <1>2, <1>3, <4>4 DEF TellInv, Launched
      <4>7. proc[i].epoch \in 0 .. Epochs
        BY <1>1, ReadLines
      <4> QED BY <1>3, <4>5, <4>6, <4>7
    <3> QED BY <1>9, <3>1, <3>2
  <2>4. RunInv'
    BY <1>1, <1>5, <2>3 DEF RunInv
  <2> QED BY <1>5, <1>6, <2>1, <2>2, <2>4 DEF MeasureInv, All
<1> QED BY <1>1, <1>8, <1>9

\* The limit of the attempt is over.
LEMMA TimeOutKeeps ==
  ASSUME MeasureInv, TimeOut \/ TimeOutEarly
  PROVE  MeasureInv'
<1>1. Retry /\ UNCHANGED <<pt, outs, stream, proc, memc, lat, result>>
  BY DEF TimeOut, TimeOutEarly, benchVars
<1>2. ShapeOK'
  BY <1>1 DEF MeasureInv, ShapeOK, Retry, Control, NoResult
<1> QED BY <1>1, <1>2, ProcSame, RetryKeeps

-----------------------------------------------------------------------------
(* Parsing *)

\* A set of numbers has a smallest element.
LEMMA SmallestNat ==
  ASSUME NEW S, S \subseteq Nat, S # {}
  PROVE  Min(S) \in S
<1> DEFINE R == OpToRel(<, Nat)
<1>1. IsWellFoundedOn(R, Nat)
  BY NatLessThanWellFounded
<1>2. \A x, y \in Nat : x < y => <<x, y>> \in R
  BY DEF OpToRel
<1> HIDE DEF R
<1>3. PICK x \in S : \A y \in S : ~(<<y, x>> \in R)
  BY <1>1, WFMin
<1>4. \A y \in S : ~(y < x)
  BY <1>2, <1>3
<1>5. \A y \in S : x <= y
  BY <1>4
<1> QED BY <1>5 DEF Min

\* In an output that begins with the epochs in order, the blocks asked for are
\* there if the epochs go far enough.
LEMMA BlocksOf ==
  ASSUME NEW log, Len(log) \in Nat, NEW T \in 0 .. Len(log),
         \A j \in 1 .. Len(log) : log[j].k = "epoch" <=> j <= T,
         \A j \in 1 .. T : log[j].e = j,
         NEW start \in Nat, start > 0, NEW count \in Nat,
         T = 0 \/ start + count - 1 <= T
  PROVE  /\ T = 0 => DOMAIN Blocks(log, start, count) = {}
         /\ T # 0 => /\ DOMAIN Blocks(log, start, count) = start .. start + count - 1
                     /\ \A k \in start .. start + count - 1 : Blocks(log, start, count)[k] = log[k]
<1>1. EpochLines(log) = 1 .. T
  BY DEF EpochLines
<1> DEFINE begun == {i \in EpochLines(log) : \E j \in EpochLines(log) : j <= i /\ log[j].e = start}
           kept == {i \in begun : Cardinality({j \in begun : j <= i}) <= count}
<1>2. begun = start .. T
  <2>1. ASSUME NEW i \in 1 .. T, NEW j \in 1 .. T, j <= i, log[j].e = start PROVE i \in start .. T
    BY <2>1
  <2>2. ASSUME NEW i \in start .. T
        PROVE  i \in 1 .. T /\ start \in 1 .. T /\ start <= i /\ log[start].e = start
    OBVIOUS
  <2> QED BY <1>1, <2>1, <2>2
<1>3. Blocks(log, start, count) = [i \in kept |-> log[i]]
  BY DEF Blocks
<1> HIDE DEF begun
<1>4. ASSUME NEW i \in start .. T
      PROVE  Cardinality({j \in begun : j <= i}) = i - start + 1
  <2>1. {j \in begun : j <= i} = start .. i
    BY <1>2
  <2>2. start \in Int /\ i \in Int /\ ~(start > i)
    OBVIOUS
  <2>3. Cardinality(start .. i) = i - start + 1
    BY <2>2, FS_Interval
  <2> QED BY <2>1, <2>3
<1>5. kept = {i \in start .. T : i - start + 1 <= count}
  BY <1>2, <1>4
<1>6. T = 0 => kept = {}
  BY <1>5
<1>7. T # 0 => kept = start .. start + count - 1
  BY <1>5
<1> HIDE DEF kept
<1> QED BY <1>3, <1>6, <1>7

\* What is parsed from the output of node i.
Parsed(i) == IF Point.want = "avg" THEN ParseLogAvg(outs[i], Point.target)
             ELSE ParseLog(outs[i], Point.target)

\* It is nothing, or the whole window, printed in this attempt.
LEMMA ParsedWindow ==
  ASSUME MeasureInv, pc = "stats", NEW i \in CNs, DOMAIN Parsed(i) # {}
  PROVE  /\ DOMAIN Parsed(i) = WindowOf
         /\ \A k \in WindowOf : Parsed(i)[k].e = k /\ Parsed(i)[k].fresh
<1>1. ShapeOK /\ CurOK /\ ReadInv
  BY DEF MeasureInv
<1>2. /\ Epochs \in Nat /\ CNs = 1 .. Point.cns /\ Point.cns \in 1 .. N /\ N \in Nat /\ cur \in CNs
      /\ Point.target \in 2 .. Epochs /\ StartEpoch(Point.target) \in 1 .. Point.target - 1
  BY <1>1, PointFacts DEF ShapeOK, CurOK, CNs
<1>3. PICK start \in Nat, count \in Nat :
        /\ start > 0 /\ start + count - 1 <= Epochs
        /\ WindowOf = start .. start + count - 1
        /\ Parsed(i) = Blocks(outs[i], start, count)
  <2>1. CASE Point.want = "avg"
    <3>1. PICK s \in Nat, t \in Nat : s = StartEpoch(Point.target) /\ t = Point.target /\ s > 0 /\ s < t
      BY <1>2
    <3>2. WindowOf = s .. s + (t - s) - 1
      BY <2>1, <3>1 DEF WindowOf
    <3>3. Parsed(i) = Blocks(outs[i], s, t - s)
      BY <2>1, <3>1 DEF Parsed, ParseLogAvg
    <3>4. t - s \in Nat /\ s + (t - s) - 1 <= Epochs
      BY <1>2, <3>1
    <3> QED BY <3>1, <3>2, <3>3, <3>4
  <2>2. CASE Point.want # "avg"
    <3>1. PICK t \in Nat : t = Point.target /\ t > 0 /\ t <= Epochs
      BY <1>2
    <3>2. WindowOf = t .. t + 1 - 1
      BY <2>2, <3>1 DEF WindowOf
    <3>3. Parsed(i) = Blocks(outs[i], t, 1)
      BY <2>2, <3>1 DEF Parsed, ParseLog
    <3> QED BY <1>2, <3>1, <3>2, <3>3
  <2> QED BY <2>1, <2>2
<1>4. /\ Len(outs[i]) \in Nat /\ Told(i) \in 0 .. Epochs
      /\ \A j \in 1 .. Len(outs[i]) :
           /\ outs[i][j].fresh
           /\ outs[i][j].k = "epoch" <=> j <= Told(i)
           /\ j <= Told(i) => outs[i][j].e = j
  BY ReadLines
<1>5. outs[i] # <<>>
  <2>1. SUFFICES ASSUME outs[i] = <<>> PROVE DOMAIN Blocks(outs[i], start, count) = {}
    BY <1>3
  <2>2. PICK o : o = outs[i] /\ Len(o) = 0
    BY <2>1
  <2>3. /\ Len(o) \in Nat /\ 0 \in 0 .. Len(o)
        /\ (\A j \in 1 .. Len(o) : o[j].k = "epoch" <=> j <= 0) /\ \A j \in 1 .. 0 : o[j].e = j
    BY <2>2
  <2>4. DOMAIN Blocks(o, start, count) = {}
    BY <1>3, <2>3, BlocksOf
  <2> QED BY <2>2, <2>4
<1>6. Shown(outs[i], EndPrompt(Point))
  BY <1>1, <1>2, <1>5 DEF ReadInv
<1>7. Told(i) \in {0, Epochs} /\ Told(i) <= Len(outs[i])
  BY <1>6, PromptRead
<1>8. PICK T : T = Told(i) /\ T \in 0 .. Len(outs[i]) /\ (T = 0 \/ start + count - 1 <= T)
  BY <1>2, <1>3, <1>4, <1>7
<1>9. \A j \in 1 .. T : outs[i][j].e = j /\ outs[i][j].fresh
  BY <1>4, <1>8
<1>10. T # 0 /\ DOMAIN Parsed(i) = WindowOf /\ \A k \in WindowOf : Parsed(i)[k] = outs[i][k]
  <2>1. PICK o : o = outs[i]
    OBVIOUS
  <2>2. /\ Len(o) \in Nat /\ T \in 0 .. Len(o)
        /\ (\A j \in 1 .. Len(o) : o[j].k = "epoch" <=> j <= T) /\ \A j \in 1 .. T : o[j].e = j
    BY <1>4, <1>8, <1>9, <2>1
  <2>3. /\ T = 0 => DOMAIN Blocks(o, start, count) = {}
        /\ T # 0 => /\ DOMAIN Blocks(o, start, count) = start .. start + count - 1
                    /\ \A k \in start .. start + count - 1 : Blocks(o, start, count)[k] = o[k]
    BY <1>3, <1>8, <2>2, BlocksOf
  <2> QED BY <1>3, <2>1, <2>3
<1>11. \A k \in WindowOf : k \in 1 .. T
  BY <1>3, <1>8, <1>10
<1> QED BY <1>9, <1>10, <1>11

\* get_statistics finds nothing, or the whole window.
LEMMA StatisticsWindow ==
  ASSUME MeasureInv, pc = "stats", DOMAIN GetStatistics # {}
  PROVE  /\ DOMAIN GetStatistics = WindowOf
         /\ \A k \in WindowOf : GetStatistics[k].e = k /\ GetStatistics[k].fresh
<1> DEFINE having == {i \in CNs : DOMAIN Parsed(i) # {}}
<1>1. GetStatistics = IF having = {} THEN <<>> ELSE Parsed(Min(having))
  <2>1. CNs \subseteq Nat
    BY PointFacts DEF MeasureInv, ShapeOK, CNs
  <2>2. having # {} => Min(having) \in CNs
    BY <2>1, SmallestNat
  <2>3. {i \in CNs : DOMAIN [j \in CNs |-> Parsed(j)][i] # {}} = having
    OBVIOUS
  <2>4. GetStatistics = LET parsed == [i \in CNs |-> Parsed(i)]
                            has == {i \in CNs : DOMAIN parsed[i] # {}}
                        IN IF has = {} THEN <<>> ELSE parsed[Min(has)]
    BY DEF GetStatistics, Parsed
  <2> QED BY <2>2, <2>3, <2>4
<1>2. DOMAIN <<>> = {}
  OBVIOUS
<1>3. having # {} /\ having \subseteq Nat
  <2>1. CNs \subseteq Nat
    BY PointFacts DEF MeasureInv, ShapeOK, CNs
  <2> QED BY <1>1, <1>2, <2>1
<1>4. PICK i \in CNs : i \in having /\ GetStatistics = Parsed(i)
  BY <1>1, <1>3, SmallestNat
<1> QED BY <1>4, ParsedWindow

\* Throughput or cache sizes are taken from the output.
LEMMA ParseLogsKeeps ==
  ASSUME MeasureInv, ParseLogs
  PROVE  MeasureInv'
<1>1. pc = "stats" /\ UNCHANGED <<pt, outs, stream, proc, memc, lat>>
  BY DEF ParseLogs, benchVars
<1>2. ShapeOK /\ CurOK /\ ReadInv /\ RunInv /\ ResultInv
  BY DEF MeasureInv
<1>3. /\ CNs = 1 .. Point.cns /\ Point.cns \in 1 .. N /\ N \in Nat /\ cur \in CNs /\ cur \in Nat
      /\ From \in 1 .. Point.target /\ Point.target \in 2 .. Epochs /\ Epochs \in Nat
      /\ Point.want = "cache" => ~Point.only_need_tpt
  BY <1>1, <1>2, PointFacts DEF ShapeOK, CurOK, CNs
<1>4. result = NoResult
  BY <1>1, <1>2 DEF ResultInv
<1>5. /\ DOMAIN result' = DOMAIN NoResult /\ result'.files = {}
      /\ Point.want = "cache" => result'.cache = GetCacheStatistics /\ result'.tpt = <<>>
      /\ Point.want # "cache" => result'.tpt = GetStatistics
  BY <1>4 DEF ParseLogs, NoResult
<1>6. Retry \/ (AfterStats /\ (Point.want # "cache" => DOMAIN GetStatistics # {}))
  BY DEF ParseLogs
<1>7. CASE Retry
  <2>1. ShapeOK'
    BY <1>1, <1>2, <1>5, <1>7 DEF ShapeOK, Retry, Control, NoResult, NoLat
  <2> QED BY <1>1, <1>7, <2>1, ProcSame, RetryKeeps
<1>8. CASE AfterStats /\ (Point.want # "cache" => DOMAIN GetStatistics # {})
  <2>1. \/ Point.lats /\ pc' = "lats" /\ cur' = From
        \/ ~Point.lats /\ pc' = "done" /\ cur' = cur
    BY <1>8 DEF AfterStats, From
  <2>2. cur' \in Nat /\ pc' \in {"read", "stats", "lats", "done"}
    BY <1>3, <2>1
  <2>3. /\ ShapeOK' /\ (\A i \in All : ProcOK(i)') /\ (\A i \in CNs : NodeOK(i)') /\ TellInv'
        /\ Point' = Point /\ CNs' = CNs /\ From' = From /\ WindowOf' = WindowOf
    BY <1>1, <1>5, <2>2, LaunchedKeep
  <2>4. CurOK'
    BY <1>3, <2>1, <2>3 DEF CurOK
  <2>5. ReadInv'
    BY <2>1 DEF ReadInv
  <2>6. RunInv'
    BY <1>1, <1>2, <2>3 DEF RunInv
  <2>7. Point.want = "cache" => result'.cache = CNs /\ result'.tpt = <<>>
    <3>1. SUFFICES ASSUME Point.want = "cache" PROVE GetCacheStatistics = CNs
      BY <1>5
    <3>2. ~Point.only_need_tpt /\ EndPrompt(Point) = "end" /\ cur = Point.cns
      BY <1>1, <1>2, <1>3, <3>1 DEF EndPrompt, ReadInv
    <3>3. ASSUME NEW i \in CNs PROVE Shown(outs[i], "end")
      <4>1. i < cur \/ i = cur
        BY <1>3, <3>2
      <4> QED BY <1>1, <1>2, <3>2, <4>1 DEF ReadInv
    <3> QED BY <3>3 DEF GetCacheStatistics
  <2>8. Point.want # "cache" => TptOf(WindowOf)'
    <3>1. SUFFICES ASSUME Point.want # "cache" PROVE TptOf(WindowOf)'
      OBVIOUS
    <3>2. /\ DOMAIN GetStatistics = WindowOf
          /\ \A k \in WindowOf : GetStatistics[k].e = k /\ GetStatistics[k].fresh
      BY <1>1, <1>8, <3>1, StatisticsWindow
    <3>3. result'.tpt = GetStatistics
      BY <1>5, <3>1
    <3> QED BY <2>3, <3>2, <3>3 DEF TptOf
  <2>9. Point.lats => FilesUpTo(From - 1)'
    <3>1. From .. From - 1 = {} /\ (From - 1)' = From - 1
      BY <1>3, <2>3
    <3> QED BY <1>5, <2>3, <3>1 DEF FilesUpTo
  <2>10. ResultInv'
    <3>1. pc' = "lats" => FilesUpTo(cur - 1)'
      <4>1. SUFFICES ASSUME pc' = "lats" PROVE FilesUpTo(cur - 1)'
        OBVIOUS
      <4>2. Point.lats /\ (cur - 1)' = (From - 1)'
        BY <2>1, <2>3, <4>1
      <4> QED BY <2>9, <4>2 DEF FilesUpTo
    <3> QED BY <1>5, <2>1, <2>3, <2>7, <2>8, <3>1 DEF ResultInv
  <2> QED BY <2>3, <2>4, <2>5, <2>6, <2>10 DEF MeasureInv, All
<1> QED BY <1>6, <1>7, <1>8

\* The latencies of one epoch are loaded, of all nodes or of some.
LEMMA LoadKeeps ==
  ASSUME MeasureInv, pc = "lats", UNCHANGED <<pt, outs, stream, proc, memc, lat>>,
         NEW hist, NEW read \in SUBSET CNs, LoadEpoch(hist, read)
  PROVE  MeasureInv'
<1>1. /\ ShapeOK /\ CurOK /\ RunInv /\ ResultInv /\ (\A i \in All : ProcOK(i))
      /\ \A i \in CNs : NodeOK(i)
  BY DEF MeasureInv
<1>2. /\ cur \in From .. Point.target /\ From \in 1 .. Point.target /\ Point.target \in 2 .. Epochs
      /\ Epochs \in Nat /\ CNs \subseteq All
  BY <1>1, PointFacts DEF ShapeOK, CurOK
<1>3. ASSUME NEW i \in CNs PROVE lat[i][cur] = "new"
  <2>1. proc[i].fresh /\ proc[i].epoch = Epochs /\ ProcOK(i)
    BY <1>1, <1>2 DEF NodeOK, Launched, RunInv
  <2>2. cur \in 1 .. Epochs
    BY <1>2
  <2> QED BY <2>1, <2>2 DEF ProcOK
<1>4. /\ DOMAIN result' = DOMAIN NoResult
      /\ result'.tpt = result.tpt /\ result'.cache = result.cache
      /\ result'.files = result.files \cup {<<i, cur, lat[i][cur]>> : i \in read}
      /\ result'.lost = (result.lost \/ read # CNs)
  <2>1. DOMAIN result = {"tpt", "cache", "files", "lat", "lost"}
    BY <1>1 DEF ShapeOK, NoResult
  <2>2. PICK loaded : result' = [result EXCEPT !.lat = loaded,
                                    !.files = @ \cup {<<i, cur, lat[i][cur]>> : i \in read},
                                    !.lost = @ \/ read # CNs]
    BY DEF LoadEpoch
  <2>3. DOMAIN result' = DOMAIN NoResult
    BY <2>1, <2>2 DEF NoResult
  <2>4. result'.tpt = result.tpt /\ result'.cache = result.cache
    BY <2>1, <2>2
  <2>5. result'.files = result.files \cup {<<i, cur, lat[i][cur]>> : i \in read}
    BY <2>1, <2>2
  <2>6. result'.lost = (result.lost \/ read # CNs)
    BY <2>1, <2>2
  <2> QED BY <2>3, <2>4, <2>5, <2>6
<1>5. \/ cur < Point.target /\ cur' = cur + 1 /\ pc' = "lats"
      \/ ~(cur < Point.target) /\ pc' = "done" /\ cur' = cur
      \/ Retry
  BY DEF LoadEpoch
<1>6. CASE Retry
  <2>1. ShapeOK'
    BY <1>1, <1>4, <1>6 DEF ShapeOK, Retry, Control, NoResult, NoLat
  <2> QED BY <1>6, <2>1, ProcSame, RetryKeeps
<1>7. CASE \/ cur < Point.target /\ cur' = cur + 1 /\ pc' = "lats"
           \/ ~(cur < Point.target) /\ pc' = "done" /\ cur' = cur
  <2>1. cur' \in Nat /\ pc' \in {"read", "stats", "lats", "done"}
    BY <1>2, <1>7
  <2>2. /\ ShapeOK' /\ (\A i \in All : ProcOK(i)') /\ (\A i \in CNs : NodeOK(i)') /\ TellInv'
        /\ Point' = Point /\ CNs' = CNs /\ From' = From /\ WindowOf' = WindowOf
    BY <1>4, <2>1, LaunchedKeep
  <2>3. CurOK'
    BY <1>2, <1>7, <2>2 DEF CurOK
  <2>4. ReadInv'
    BY <1>7 DEF ReadInv
  <2>5. RunInv'
    BY <1>1, <1>7, <2>2 DEF RunInv
  <2>6. PICK u : u = cur /\ u \in Nat /\ u >= From
    BY <1>2
  <2>7. /\ result'.files \subseteq {<<i, e, "new">> : i \in CNs, e \in From .. u}
        /\ ~result'.lost => \A i \in CNs, e \in From .. u : <<i, e, "new">> \in result'.files
    <3>1. /\ result.files \subseteq {<<i, e, "new">> : i \in CNs, e \in From .. u - 1}
          /\ ~result.lost => \A i \in CNs, e \in From .. u - 1 : <<i, e, "new">> \in result.files
      BY <1>1, <2>6 DEF ResultInv, FilesUpTo
    <3>2. {<<i, cur, lat[i][cur]>> : i \in read} = {<<i, u, "new">> : i \in read}
      BY <1>3, <2>6
    <3>3. result'.files = result.files \cup {<<i, u, "new">> : i \in read}
      BY <1>4, <3>2
    <3>4. From .. u = (From .. u - 1) \cup {u}
      BY <1>2, <2>6
    <3>5. result'.files \subseteq {<<i, e, "new">> : i \in CNs, e \in From .. u}
      <4>1. ASSUME NEW f \in result'.files
            PROVE  \E i \in CNs, e \in From .. u : f = <<i, e, "new">>
        <5>1. CASE f \in result.files
          BY <3>1, <3>4, <5>1
        <5>2. CASE f \in {<<i, u, "new">> : i \in read}
          BY <3>4, <5>2
        <5> QED BY <3>3, <5>1, <5>2
      <4> QED BY <4>1
    <3>6. ASSUME ~result'.lost, NEW i \in CNs, NEW e \in From .. u
          PROVE  <<i, e, "new">> \in result'.files
      <4>1. ~result.lost /\ read = CNs
        BY <1>4, <3>6
      <4>2. CASE e \in From .. u - 1
        BY <3>1, <3>3, <4>1, <4>2
      <4>3. CASE e = u
        BY <3>3, <4>1, <4>3
      <4> QED BY <3>4, <4>2, <4>3
    <3> QED BY <3>5, <3>6
  <2>8. IF Point.want = "cache" THEN result'.cache = CNs /\ result'.tpt = <<>> ELSE TptOf(WindowOf)'
    <3>1. TptOf(WindowOf)' <=> TptOf(WindowOf)
      BY <1>4, <2>2 DEF TptOf
    <3> QED BY <1>1, <1>4, <3>1 DEF ResultInv
  <2>9. Point.lats
    BY <1>1 DEF ResultInv
  <2>10. CASE cur < Point.target /\ cur' = cur + 1 /\ pc' = "lats"
    <3>1. (cur - 1)' = u
      BY <2>6, <2>10
    <3>2. FilesUpTo(cur - 1)'
      BY <2>2, <2>7, <3>1 DEF FilesUpTo
    <3>3. ResultInv'
      BY <2>2, <2>8, <2>9, <2>10, <3>2 DEF ResultInv
    <3> QED BY <2>2, <2>3, <2>4, <2>5, <3>3 DEF MeasureInv, All
  <2>11. CASE ~(cur < Point.target) /\ pc' = "done" /\ cur' = cur
    <3>1. Point'.target = u
      BY <1>2, <2>2, <2>6, <2>11
    <3>2. FilesUpTo(Point.target)'
      BY <2>2, <2>7, <3>1 DEF FilesUpTo
    <3>3. ResultInv'
      BY <2>2, <2>8, <2>9, <2>11, <3>2 DEF ResultInv
    <3> QED BY <2>2, <2>3, <2>4, <2>5, <3>3 DEF MeasureInv, All
  <2> QED BY <1>7, <2>10, <2>11
<1> QED BY <1>5, <1>6, <1>7

\* A latency file that cannot be opened, and the next point.
LEMMA StartOverKeeps ==
  ASSUME MeasureInv, LoadLatsRaises \/ NextPoint
  PROVE  MeasureInv'
<1>1. /\ Retry /\ UNCHANGED <<outs, stream, proc, memc, lat, result>>
      /\ pt' = pt \/ (pt < Len(Points) /\ pt' = pt + 1)
  BY DEF LoadLatsRaises, NextPoint, benchVars
<1>2. ShapeOK
  BY DEF MeasureInv
<1>3. pt' \in 1 .. Len(Points)
  <2>1. Len(Points) \in Nat /\ pt \in 1 .. Len(Points)
    BY <1>2, MeasureConstants DEF ShapeOK
  <2> QED BY <1>1, <2>1
<1>4. ShapeOK'
  BY <1>1, <1>2, <1>3 DEF ShapeOK, Retry, Control, NoResult
<1> QED BY <1>1, <1>4, ProcSame, RetryKeeps

-----------------------------------------------------------------------------
(* The theorems *)

\* The shells are fresh and nothing runs.
LEMMA InitMeasure ==
  ASSUME Init
  PROVE  MeasureInv
<1>1. N \in Nat /\ Epochs \in Nat /\ Len(Points) \in Nat /\ Len(Points) > 0
  BY MeasureConstants
<1>2. /\ pt = 1 /\ pc = "kill" /\ cur = 1 /\ memc = 1 /\ result = NoResult
      /\ outs = [i \in All |-> <<>>] /\ stream = [i \in All |-> <<>>]
      /\ proc = [i \in All |-> Idle]
      /\ lat = [i \in All |-> [e \in 1 .. Epochs |-> "none"]]
  BY DEF Init
<1>3. ShapeOK
  <2>1. <<>> \in Seq(Lines) /\ Idle \in Procs
    BY EmptySeq, IdleFields
  <2>2. outs \in [All -> Seq(Lines)] /\ stream \in [All -> Seq(Lines)]
    BY <1>2, <2>1
  <2>3. proc \in [All -> Procs]
    BY <1>2, <2>1
  <2>4. lat \in [All -> [1 .. Epochs -> {"none", "old", "new"}]]
    BY <1>2
  <2> QED BY <1>1, <1>2, <2>2, <2>3, <2>4 DEF ShapeOK, Control
<1>4. ASSUME NEW i \in All PROVE ProcOK(i)
  <2>1. proc[i] = Idle
    BY <1>2
  <2>2. proc[i].st = "none" /\ proc[i].epoch = 0 /\ proc[i].said = 0 /\ ~proc[i].fresh
    BY <2>1, IdleFields
  <2> QED BY <1>1, <2>2 DEF ProcOK
<1>5. CurOK /\ TellInv /\ ReadInv /\ RunInv /\ ResultInv
  BY <1>2 DEF CurOK, TellInv, Launched, ReadInv, RunInv, ResultInv
<1>6. \A i \in CNs : NodeOK(i)
  BY <1>2 DEF NodeOK, Launched, Waiting
<1> QED BY <1>3, <1>4, <1>5, <1>6 DEF MeasureInv

\* Every step of the benchmark and of the script keeps the invariant.
LEMMA StepMeasure ==
  ASSUME MeasureInv, [Next]_vars
  PROVE  MeasureInv'
<1>1. CASE \E i \in All : Bench(i) \/ Crash(i) \/ Hang(i)
  BY <1>1, BenchKeeps
<1>2. CASE KillProcess
  BY <1>2, KillProcessKeeps
<1>3. CASE KillFails
  BY <1>3, KillFailsKeeps
<1>4. CASE RestartMemc \/ RestartFails
  BY <1>4, RestartKeeps
<1>5. CASE Launch
  BY <1>5, LaunchKeeps
<1>6. CASE Receive
  BY <1>6, ReceiveKeeps
<1>7. CASE NextNode
  BY <1>7, NextNodeKeeps
<1>8. CASE TimeOut \/ TimeOutEarly
  BY <1>8, TimeOutKeeps
<1>9. CASE ParseLogs
  BY <1>9, ParseLogsKeeps
<1>10. CASE LoadLats
  <2>1. pc = "lats" /\ UNCHANGED <<pt, outs, stream, proc, memc, lat>>
    BY <1>10 DEF LoadLats, benchVars
  <2>2. PICK hist : LoadEpoch(hist, CNs)
    BY <1>10 DEF LoadLats
  <2>3. CNs \in SUBSET CNs
    OBVIOUS
  <2> QED BY <2>1, <2>2, <2>3, LoadKeeps
<1>11. CASE LoadLatsLossy
  <2>1. pc = "lats" /\ UNCHANGED <<pt, outs, stream, proc, memc, lat>>
    BY <1>11 DEF LoadLatsLossy, benchVars
  <2>2. PICK hist \in [CNs -> Histograms], read \in SUBSET CNs : LoadEpoch(hist, read)
    BY <1>11 DEF LoadLatsLossy
  <2> QED BY <2>1, <2>2, LoadKeeps
<1>12. CASE LoadLatsRaises \/ NextPoint
  BY <1>12, StartOverKeeps
<1>13. CASE UNCHANGED vars
  <2>1. /\ pt' = pt /\ pc' = pc /\ cur' = cur /\ outs' = outs /\ stream' = stream /\ proc' = proc
        /\ memc' = memc /\ lat' = lat /\ result' = result
    BY <1>13 DEF vars
  <2>2. /\ Point' = Point /\ CNs' = CNs /\ From' = From /\ WindowOf' = WindowOf
        /\ ShapeOK /\ CurOK /\ TellInv /\ ReadInv /\ RunInv /\ ResultInv
        /\ (\A i \in All : ProcOK(i)) /\ \A i \in CNs : NodeOK(i)
    BY <2>1 DEF MeasureInv, Point, CNs, From, WindowOf
  <2>3. ShapeOK' /\ CurOK' /\ RunInv'
    BY <2>1, <2>2 DEF ShapeOK, CurOK, RunInv, NoResult
  <2>4. TellInv' /\ ReadInv'
    BY <2>1, <2>2 DEF TellInv, ReadInv, Launched
  <2>5. ResultInv'
    BY <2>1, <2>2 DEF ResultInv, TptOf, FilesUpTo, NoResult, NoLat
  <2>6. ASSUME NEW i \in CNs PROVE NodeOK(i)'
    <3>1. /\ Log(i)' = Log(i) /\ Told(i)' = Told(i) /\ Launched(i)' = Launched(i)
          /\ Waiting(i)' = Waiting(i)
      BY <2>1 DEF Log, Told, Launched, Waiting
    <3>2. LogOK(i)' <=> LogOK(i)
      BY <2>1, <3>1 DEF LogOK
    <3> QED BY <2>1, <2>2, <3>1, <3>2 DEF NodeOK, Idle
  <2>7. \A i \in All : ProcOK(i)'
    BY <2>1, ProcSame
  <2> QED BY <2>2, <2>3, <2>4, <2>5, <2>6, <2>7 DEF MeasureInv, All
<1> QED
  BY <1>1, <1>2, <1>3, <1>4, <1>5, <1>6, <1>7, <1>8, <1>9, <1>10, <1>11, <1>12, <1>13
  DEF Next, Harness, Faulty, Ended

\* What a shell shows of an attempt was printed by the process started in it,
\* whatever crashed, hung or was given up before: MeasureInv is inductive.
THEOREM MeasureInvariant == Spec => []MeasureInv
<1>1. Init => MeasureInv
  BY InitMeasure
<1>2. MeasureInv /\ [Next]_vars => MeasureInv'
  BY StepMeasure
<1> QED BY <1>1, <1>2, PTL DEF Spec

\* The control of a measurement keeps its types: no epoch is reported before
\* it has ended and the latencies are loaded within the window.
THEOREM MeasureTypes == Spec => []MeasureTypeOK
<1>1. MeasureInv => MeasureTypeOK
  <2>1. SUFFICES ASSUME MeasureInv PROVE MeasureTypeOK
    OBVIOUS
  <2>2. ShapeOK /\ CurOK /\ \A i \in All : ProcOK(i)
    BY <2>1 DEF MeasureInv
  <2>3. /\ Epochs \in Nat /\ N \in Nat /\ CNs = 1 .. Point.cns /\ Point.cns \in 1 .. N
        /\ Point.target \in 2 .. Epochs /\ From \in 1 .. Point.target
        /\ StartEpoch(Point.target) \in 1 .. Point.target - 1
    BY <2>2, PointFacts DEF ShapeOK, CNs
  <2>4. \A i \in All : /\ proc[i].st \in States /\ proc[i].said <= proc[i].epoch
                       /\ proc[i].epoch \in 0 .. Epochs
    <3>1. proc \in [All -> Procs]
      BY <2>2 DEF ShapeOK
    <3> QED BY <2>2, <3>1 DEF Procs, ProcOK
  <2>5. Max({Point.cns, Point.target}) =
          IF Point.cns >= Point.target THEN Point.cns ELSE Point.target
    BY <2>3, OfTwo
  <2>6. From >= StartEpoch(Point.target)
    BY <2>3 DEF From
  <2>7. pc = "lats" => cur \in StartEpoch(Point.target) .. Point.target
    BY <2>2, <2>3, <2>6 DEF CurOK
  <2>8. pc # "lats" => cur \in 1 .. Max({Point.cns, Point.target})
    <3>1. pc \in Control
      BY <2>2 DEF ShapeOK
    <3>2. pc # "lats" => cur = 1 \/ cur \in CNs \/ cur = Point.target
      BY <2>2, <3>1 DEF CurOK, Control
    <3> QED BY <2>3, <2>5, <3>2
  <2> QED BY <2>2, <2>4, <2>7, <2>8 DEF MeasureTypeOK, ShapeOK, Control, States
<1> QED BY <1>1, MeasureInvariant, PTL

\* Nothing a point is made of was printed or written before its attempt.
THEOREM ResultsOfThisRun == Spec => []ResultOfThisRun
<1>1. MeasureInv => ResultOfThisRun
  <2>1. SUFFICES ASSUME MeasureInv, pc = "done"
                 PROVE  /\ \A k \in DOMAIN result.tpt : result.tpt[k].fresh
                        /\ \A f \in result.files : f[3] = "new"
    BY DEF ResultOfThisRun
  <2>2. ResultInv
    BY <2>1 DEF MeasureInv
  <2>3. \A k \in DOMAIN result.tpt : result.tpt[k].fresh
    BY <2>1, <2>2 DEF ResultInv, TptOf
  <2>4. \A f \in result.files : f[3] = "new"
    <3>1. result.files \subseteq {<<i, e, "new">> : i \in CNs, e \in From .. Point.target}
      BY <2>1, <2>2 DEF ResultInv, FilesUpTo
    <3> QED BY <3>1
  <2> QED BY <2>3, <2>4
<1> QED BY <1>1, MeasureInvariant, PTL

\* A point's throughput is that of its whole window, each epoch once, and its
\* latencies are those of every node in every epoch, unless one was lost.
THEOREM WindowsComplete == Spec => []WindowComplete
<1>1. MeasureInv => WindowComplete
  <2>1. SUFFICES ASSUME MeasureInv, pc = "done" PROVE WindowComplete
    BY DEF WindowComplete
  <2>2. ResultInv /\ ShapeOK
    BY <2>1 DEF MeasureInv
  <2>3. Point.target \in 2 .. Epochs /\ Epochs \in Nat
    BY <2>2, PointFacts DEF ShapeOK
  <2>4. Point.want # "cache" =>
          /\ {result.tpt[k].e : k \in DOMAIN result.tpt} = WindowOf
          /\ Cardinality(DOMAIN result.tpt) = Cardinality(WindowOf)
    BY <2>1, <2>2 DEF ResultInv, TptOf
  <2>5. From .. Point.target = IF Point.want = "avg" THEN StartEpoch(Point.target) .. Point.target
                               ELSE {Point.target}
    <3>1. PICK t \in Nat : t = Point.target
      BY <2>3
    <3>2. t .. t = {t}
      OBVIOUS
    <3> QED BY <3>1, <3>2 DEF From
  <2>6. Point.lats /\ ~result.lost =>
          {<<f[1], f[2]>> : f \in result.files} = CNs \X (From .. Point.target)
    <3>1. SUFFICES ASSUME Point.lats, ~result.lost
                   PROVE  {<<f[1], f[2]>> : f \in result.files} = CNs \X (From .. Point.target)
      OBVIOUS
    <3>2. /\ result.files \subseteq {<<i, e, "new">> : i \in CNs, e \in From .. Point.target}
          /\ \A i \in CNs, e \in From .. Point.target : <<i, e, "new">> \in result.files
      BY <2>1, <2>2, <3>1 DEF ResultInv, FilesUpTo
    <3>3. result.files = {<<i, e, "new">> : i \in CNs, e \in From .. Point.target}
      BY <3>2
    <3>4. ASSUME NEW f \in result.files PROVE <<f[1], f[2]>> \in CNs \X (From .. Point.target)
      BY <3>3
    <3>5. ASSUME NEW p \in CNs \X (From .. Point.target)
          PROVE  \E f \in result.files : p = <<f[1], f[2]>>
      <4>1. PICK i \in CNs, e \in From .. Point.target : p = <<i, e>>
        OBVIOUS
      <4>2. <<i, e, "new">> \in result.files /\ <<i, e, "new">>[1] = i /\ <<i, e, "new">>[2] = e
        BY <3>2
      <4> QED BY <4>1, <4>2
    <3> QED BY <3>4, <3>5
  <2> QED BY <2>4, <2>5, <2>6 DEF WindowComplete, WindowOf
<1> QED BY <1>1, MeasureInvariant, PTL

\* Cache sizes are averaged over all the nodes of the point: their statistics
\* come with the last prompt, and a point of cache sizes waits for it.
THEOREM CachesOfEveryNode == Spec => []CacheOfEveryNode
<1>1. MeasureInv => CacheOfEveryNode
  BY DEF MeasureInv, ResultInv, CacheOfEveryNode
<1> QED BY <1>1, MeasureInvariant, PTL
=============================================================================
