------------------------ MODULE ChimeTreeChainProofs ------------------------
(***************************************************************************)
(* The leaf chain of ChimeTree for every instance: it stays a partition of *)
(* the key space (LeafChainOrdered), leaves only give keys away            *)
(* (RangesOnlyShrink), and insert, update and search implement the map of  *)
(* KVMap (Linearizable), whatever splits, stale caches and stale paths a   *)
(* client meets on the way.                                                *)
(*                                                                         *)
(* Every leaf has a least key, low[a], fixed when it is written; the leaf  *)
(* ends where its sibling begins.  The inductive invariant says that the   *)
(* linked leaves tile the keys that way, that every separator in memory,   *)
(* in a cache or on its way up names the least key of its child, and that  *)
(* a client at a leaf is never to the right of its key.                    *)
(*                                                                         *)
(* The last part adds the parents: no separator is lost on its way up      *)
(* (SeparatorsRoute, IndexCompleteAtRest) and the swap of the root pointer *)
(* never fails.  Its invariant speaks of the index as it will be once the  *)
(* splits under way are committed, and of the nodes still without a parent *)
(* because some client is carrying their separator.                        *)
(***************************************************************************)
EXTENDS ChimeTreeProofs

\* A sibling that is written but that no leaf points to yet.
Fresh(a) == \E c \in Clients : cl[c].pc = "leaf_split" /\ cl[c].nsp = a
Settled(a) == a \in 1..top /\ mem[a].level = 0 /\ ~Fresh(a)

\* Where leaf a ends: the least key of its sibling.
End(low, a) == IF SibOf(mem[a]) = Null THEN KeyMax + 1 ELSE low[SibOf(mem[a])]

\* The records of a leaf lie in its range, and the last key of the range is
\* one of them (a separator is the largest key left behind plus one).
LeafRange(low, a) ==
  /\ End(low, a) - 1 \in Present(mem[a].kv)
  /\ \A k \in Present(mem[a].kv) : low[a] <= k /\ k < End(low, a)
  /\ SibOf(mem[a]) # Null => Settled(SibOf(mem[a]))
  /\ mem[a].sib = Widest => a = 1

\* The linked leaves tile the keys.
Tiling(low) ==
  /\ Settled(1) /\ low[1] = 1
  /\ \A a \in 1..top : mem[a].level = 0 => LeafRange(low, a)
  /\ \A a, b \in Addrs : Settled(a) /\ Settled(b) /\ a # b =>
       End(low, a) <= low[b] \/ End(low, b) <= low[a]
  /\ \A a \in Addrs : Settled(a) /\ a # 1 =>
       \E b \in Addrs : Settled(b) /\ SibOf(mem[b]) = a

\* Node a is of level l and begins at key s.
Stands(low, a, s, l) ==
  /\ a \in 1..top /\ mem[a].level = l
  /\ IF l = 0 THEN Settled(a) /\ low[a] = s ELSE mem[a].lo = s

OfLevel(a, l) == a = Null \/ (a \in 1..top /\ mem[a].level = l)

\* What an internal node or a cached copy says of its children is true.
Truthful(low, n) ==
  /\ n.level > 0
  /\ \A s \in Seps(n) : /\ n.lo <= s /\ s < n.hi
                        /\ Stands(low, n.recs[s], s, n.level - 1)
  /\ Stands(low, n.leftmost, n.lo, n.level - 1)
  /\ \/ n.hi = KeyMax + 1 /\ n.sibleft = Null
     \/ n.hi <= KeyMax /\ Stands(low, n.sibleft, n.hi, n.level - 1)

CachesTrue(low) ==
  \A cn \in CNs : \A e \in Live(cn) :
    Truthful(low, e.node) /\ e.lo = e.node.lo /\ e.hi = e.node.hi

Routing(low) ==
  /\ \A a \in 1..top : mem[a].level > 0 =>
       Truthful(low, mem[a]) /\ OfLevel(SibOf(mem[a]), mem[a].level)
  /\ root.level > 0 /\ Stands(low, root.ptr, 1, root.level - 1)

-----------------------------------------------------------------------------
(* Clients *)

\* c's pointer is to a leaf.
LeafLevel(c) == \/ cl[c].pc = "next" /\ cl[c].level = 1
                \/ cl[c].pc \in {"leaf_insert", "leaf_update", "leaf_split"}

\* c carries a separator to a parent.
Upward == {"newroot", "ii_root", "ii_next", "lock_internal",
           "internal_insert", "internal_split"}

\* Where c stands: on the level it believes, at a leaf not to the right of its
\* key (a search that has taken effect is beyond it), expecting a sibling that
\* begins after its key.
Guided(low, c) ==
  /\ cl[c].pc \in {"next", "ii_next"} =>
       /\ cl[c].level > 0
       /\ cl[c].level > 1 => OfLevel(cl[c].p, cl[c].level - 1)
  /\ LeafLevel(c) =>
       /\ cl[c].level = 1
       /\ cl[c].p # Null =>
            /\ Settled(cl[c].p)
            /\ cl[c].op = "insert" => low[cl[c].p] <= cl[c].k
            /\ cl[c].op = "search" => (cl[c].lin <=> cl[c].k < low[cl[c].p])
       /\ cl[c].sibp # Null => cl[c].sibp \in 1..top /\ cl[c].k < low[cl[c].sibp]
  /\ \A j \in 1..MaxHeight : OfLevel(cl[c].path[j], j - 1)

\* Which operations have taken effect.
Effect(c) ==
  /\ cl[c].pc \in {"leaf_insert", "leaf_split"} \cup Upward => cl[c].op = "insert"
  /\ cl[c].pc = "leaf_update" => cl[c].op = "update"
  /\ cl[c].pc = "idle" => cl[c] = IdleLocals
  /\ cl[c].pc # "done" => cl[c].ret = kValueNull
  /\ cl[c].pc = "next" /\ cl[c].lin =>
       cl[c].op = "search" /\ cl[c].level = 1 /\ ~cl[c].fc
  /\ cl[c].pc = "ii_next" => ~cl[c].fc
  /\ cl[c].pc \in Upward \cup {"done"} => cl[c].lin
  /\ cl[c].pc \in {"lookup", "root", "leaf_insert", "leaf_update", "leaf_split"} =>
       ~cl[c].lin

\* What c carries up begins at its separator, and c climbs to the level above.
Carries(low, c) ==
  /\ cl[c].pc \in Upward =>
       cl[c].tl > 0 /\ Stands(low, cl[c].sp, cl[c].sk, cl[c].tl - 1)
  /\ cl[c].pc = "newroot" => Stands(low, cl[c].p, 1, cl[c].tl - 1)
  /\ cl[c].pc \in {"lock_internal", "internal_insert", "internal_split"} =>
       OfLevel(cl[c].p, cl[c].tl)

\* A leaf or a node of which c has written the right half only.
Halves(low, c) ==
  /\ cl[c].pc = "leaf_split" =>
       /\ cl[c].nsp \in 1..top /\ low[cl[c].nsp] = cl[c].nsk
       /\ mem[cl[c].nsp] = RightLeaf(Overfull(c), cl[c].nsk)
       /\ cl[c].nsk - 1 \in Present(Overfull(c).kv)
       /\ cl[c].k < End(low, cl[c].p) /\ cl[c].nsk < End(low, cl[c].p)
       /\ cl[c].k \notin Present(mem[cl[c].p].kv)
  /\ cl[c].pc = "internal_split" =>
       /\ cl[c].nsk \in Seps(mem[cl[c].p])
       /\ Stands(low, cl[c].nsp, cl[c].nsk, cl[c].tl)
       /\ mem[cl[c].p].lo <= cl[c].sk /\ cl[c].sk < mem[cl[c].p].hi

Placed(low, c) == Guided(low, c) /\ Carries(low, c) /\ Halves(low, c)

\* Two splits never write the same sibling.
OwnSibling ==
  \A c, d \in Clients :
    cl[c].pc = "leaf_split" /\ cl[d].pc = "leaf_split" /\ cl[c].nsp = cl[d].nsp
      => c = d

RangeInv(low) ==
  /\ low \in [Addrs -> Keys]
  /\ Tiling(low) /\ Routing(low) /\ CachesTrue(low) /\ OwnSibling
  /\ \A c \in Clients : Placed(low, c) /\ Effect(c)

IndexInv == TreeInv /\ \E low : RangeInv(low)

-----------------------------------------------------------------------------
(* What the invariant says of ownership *)

\* Allocated nodes are nodes.
LEMMA Allocated ==
  ASSUME TypeOK
  PROVE  /\ top \in Nat /\ top <= MaxAddr /\ MaxAddr \in Nat
         /\ \A a \in 1..top : a \in Addrs /\ a \in Nat /\ a # Null /\ mem[a] \in Node
BY TreeConstants DEF TypeOK, Addrs, Null

\* The ghost definitions of ChimeTree agree with the ranges.
LEMMA LinkedIsSettled ==
  ASSUME NEW low, RangeInv(low), TypeOK
  PROVE  \A a : a \in LinkedLeaves <=> Settled(a)
<1>1. ASSUME NEW a, Settled(a) PROVE a \in LinkedLeaves
  <2>1. CASE a = 1
    BY <1>1, <2>1 DEF Settled, LinkedLeaves
  <2>2. CASE a # 1
    <3>1. a \in Addrs
      BY <1>1, Allocated DEF Settled
    <3>2. PICK b \in Addrs : Settled(b) /\ SibOf(mem[b]) = a
      BY <1>1, <2>2, <3>1 DEF RangeInv, Tiling
    <3>3. mem[b].sib = a
      BY <3>1, <3>2, TreeConstants DEF SibOf, Null, Addrs
    <3> QED BY <1>1, <3>2, <3>3 DEF Settled, LinkedLeaves
  <2> QED BY <2>1, <2>2
<1>2. ASSUME NEW a \in LinkedLeaves PROVE Settled(a)
  <2>1. CASE a = 1
    BY <2>1 DEF RangeInv, Tiling
  <2>2. CASE a # 1
    <3>1. PICK b \in 1..top : mem[b].level = 0 /\ mem[b].sib = a
      BY <2>2 DEF LinkedLeaves
    <3>2. SibOf(mem[b]) = a /\ a # Null
      BY <3>1, TreeConstants DEF SibOf, Null, Widest, TypeOK, Addrs, LinkedLeaves
    <3> QED BY <3>1, <3>2 DEF RangeInv, Tiling, LeafRange
  <2> QED BY <2>1, <2>2
<1> QED BY <1>1, <1>2

\* The facts about one settled leaf that the arguments below use.
LEMMA LeafFacts ==
  ASSUME NEW low, RangeInv(low), TypeOK, NEW a, Settled(a)
  PROVE  /\ a \in Addrs /\ low[a] \in Keys /\ End(low, a) \in Nat
         /\ low[a] < End(low, a) /\ End(low, a) <= KeyMax + 1
         /\ End(low, a) - 1 \in Present(mem[a].kv)
         /\ Present(mem[a].kv) \subseteq Keys
         /\ \A k \in Present(mem[a].kv) : low[a] <= k /\ k < End(low, a)
         /\ End(low, a) = KeyMax + 1 <=> SibOf(mem[a]) = Null
<1>1. a \in Addrs /\ low[a] \in Keys
  BY Allocated DEF Settled, RangeInv
<1>2. LeafRange(low, a)
  BY DEF RangeInv, Tiling, Settled
<1>3. SibOf(mem[a]) # Null => low[SibOf(mem[a])] \in Keys
  BY <1>2, Allocated DEF LeafRange, Settled, RangeInv
<1>4. Present(mem[a].kv) \subseteq Keys
  BY DEF Present
<1> QED BY <1>1, <1>2, <1>3, <1>4, TreeConstants DEF LeafRange, End, Keys

\* A leaf owns exactly the keys of its range.
LEMMA OwnsRange ==
  ASSUME NEW low, RangeInv(low), TypeOK, NEW a, NEW k \in Keys
  PROVE  Owns(a, k) <=> Settled(a) /\ low[a] <= k /\ k < End(low, a)
<1>1. ASSUME NEW b, Settled(b) PROVE Reaches(b, k) <=> k < End(low, b)
  <2>1. /\ End(low, b) \in Nat /\ End(low, b) - 1 \in Present(mem[b].kv)
        /\ Present(mem[b].kv) \subseteq Keys
        /\ \A i \in Present(mem[b].kv) : i < End(low, b)
    BY <1>1, LeafFacts
  <2> QED BY <2>1, TreeConstants DEF Reaches, Keys
<1>2. ASSUME Settled(a), low[a] <= k, k < End(low, a) PROVE Owns(a, k)
  <2>1. ASSUME NEW b, Settled(b), k < End(low, b)
        PROVE  \E j \in Present(mem[b].kv) : \A i \in Present(mem[a].kv) : i <= j
    <3>1. b = a \/ End(low, a) <= low[b] \/ End(low, b) <= low[a]
      BY <1>2, <2>1, LeafFacts DEF RangeInv, Tiling
    <3>2. /\ End(low, a) \in Nat /\ low[a] \in Nat
          /\ \A i \in Present(mem[a].kv) : i \in Nat /\ i < End(low, a)
      BY <1>2, LeafFacts DEF Keys
    <3>3. /\ End(low, b) \in Nat /\ low[b] \in Nat /\ low[b] < End(low, b)
          /\ End(low, b) - 1 \in Present(mem[b].kv)
      BY <2>1, LeafFacts DEF Keys
    <3>4. End(low, a) <= End(low, b)
      BY <1>2, <2>1, <3>1, <3>2, <3>3 DEF Keys
    <3>5. \A i \in Present(mem[a].kv) : i <= End(low, b) - 1
      BY <3>2, <3>3, <3>4
    <3> QED BY <3>3, <3>5
  <2> QED BY <1>1, <1>2, <2>1, LinkedIsSettled DEF Owns
<1>3. ASSUME Owns(a, k) PROVE Settled(a) /\ low[a] <= k /\ k < End(low, a)
  <2>1. Settled(a) /\ k < End(low, a)
    BY <1>1, <1>3, LinkedIsSettled DEF Owns
  <2>2. ASSUME k < low[a] PROVE FALSE
    <3>1. a # 1
      BY <2>2 DEF RangeInv, Tiling, Keys
    <3>2. PICK b \in Addrs : Settled(b) /\ SibOf(mem[b]) = a
      BY <2>1, <3>1, LeafFacts DEF RangeInv, Tiling
    <3>3. End(low, b) = low[a]
      BY <2>1, <3>2, LeafFacts DEF End, Null, Addrs
    <3>4. Reaches(b, k)
      BY <1>1, <2>2, <3>2, <3>3
    <3>5. PICK j \in Present(mem[b].kv) : \A i \in Present(mem[a].kv) : i <= j
      BY <1>3, <3>2, <3>4, LinkedIsSettled DEF Owns
    <3>6. /\ End(low, a) \in Nat /\ low[a] \in Nat /\ low[a] < End(low, a)
          /\ End(low, a) - 1 <= j
      BY <2>1, <3>5, LeafFacts DEF Keys
    <3>7. j \in Nat /\ j < low[a]
      BY <3>2, <3>3, <3>5, LeafFacts DEF Keys
    <3> QED BY <3>6, <3>7
  <2> QED BY <2>1, <2>2, LeafFacts DEF Keys
<1> QED BY <1>2, <1>3

\* The tiling is what the chain property says of neighbours.
LEMMA ChainFromRanges ==
  ASSUME NEW low, RangeInv(low), TypeOK
  PROVE  LeafChainOrdered
<1> SUFFICES ASSUME NEW a \in LinkedLeaves
             PROVE  /\ Present(mem[a].kv) # {}
                    /\ KeyMax \in Present(mem[a].kv) <=> SibOf(mem[a]) = Null
                    /\ SibOf(mem[a]) # Null =>
                         \A i \in Present(mem[a].kv),
                            j \in Present(mem[SibOf(mem[a])].kv) : i < j
  BY DEF LeafChainOrdered
<1>1. Settled(a)
  BY LinkedIsSettled
<1>2. /\ End(low, a) \in Nat /\ End(low, a) <= KeyMax + 1
      /\ End(low, a) - 1 \in Present(mem[a].kv)
      /\ Present(mem[a].kv) \subseteq Keys
      /\ \A k \in Present(mem[a].kv) : k < End(low, a)
      /\ End(low, a) = KeyMax + 1 <=> SibOf(mem[a]) = Null
  BY <1>1, LeafFacts
<1>3. KeyMax \in Present(mem[a].kv) <=> SibOf(mem[a]) = Null
  BY <1>2, TreeConstants
<1>4. ASSUME SibOf(mem[a]) # Null,
             NEW i \in Present(mem[a].kv), NEW j \in Present(mem[SibOf(mem[a])].kv)
      PROVE  i < j
  <2>1. Settled(SibOf(mem[a])) /\ End(low, a) = low[SibOf(mem[a])]
    BY <1>1, <1>4 DEF RangeInv, Tiling, LeafRange, Settled, End
  <2>2. low[SibOf(mem[a])] <= j /\ j \in Keys
    BY <2>1, LeafFacts
  <2> QED BY <1>2, <2>1, <2>2 DEF Keys
<1> QED BY <1>2, <1>3, <1>4

-----------------------------------------------------------------------------
(* The initial tree *)

\* One leaf over all keys.
LEMMA InitRange == Init => RangeInv([a \in Addrs |-> 1])
<1> SUFFICES ASSUME Init PROVE RangeInv([a \in Addrs |-> 1])
  OBVIOUS
<1> DEFINE low == [a \in Addrs |-> 1]
<1>0. /\ 1 \in Addrs /\ KeyMax \in Keys /\ 1 \in Keys /\ MaxAddr \in Nat
      /\ kValueNull # Absent /\ KeyMax \in Nat /\ Widest # Null
  BY TreeConstants DEF Addrs, Keys, Widest, Null
<1>1. \A c \in Clients : cl[c] = IdleLocals
  BY DEF Init
<1>2. mem[1] = [ZeroNode EXCEPT !.sib = Widest, !.kv[KeyMax] = kValueNull] /\ top = 1
  BY <1>0 DEF Init
<1>3. /\ mem[1].sib = Widest /\ mem[1].level = 0
      /\ Present(mem[1].kv) = {KeyMax}
  BY <1>0, <1>2 DEF ZeroNode, Present
<1>4. Settled(1) /\ \A a : Settled(a) => a = 1
  BY <1>1, <1>2, <1>3 DEF Settled, Fresh, IdleLocals
<1>5. SibOf(mem[1]) = Null /\ low[1] = 1 /\ low \in [Addrs -> Keys]
  BY <1>0, <1>3 DEF SibOf
<1> HIDE DEF low
<1>6. End(low, 1) = KeyMax + 1
  BY <1>5 DEF End
<1>7. LeafRange(low, 1)
  BY <1>0, <1>3, <1>5, <1>6 DEF LeafRange, Keys
<1>8. Tiling(low)
  <2>1. \A a \in 1..top : a = 1
    BY <1>2
  <2> QED BY <1>4, <1>5, <1>7, <2>1 DEF Tiling
<1>9. Routing(low)
  <2>1. \A a \in 1..top : a = 1
    BY <1>2
  <2>a. \A a \in 1..top : ~(mem[a].level > 0)
    BY <1>3, <2>1
  <2>2. root.level = 1 /\ root.ptr = 1
    BY DEF Init
  <2>3. Stands(low, 1, 1, 0)
    BY <1>2, <1>3, <1>4, <1>5 DEF Stands
  <2> QED BY <2>a, <2>2, <2>3 DEF Routing
<1>10. CachesTrue(low)
  BY DEF Init, CachesTrue, Live
<1>11. ASSUME NEW c \in Clients PROVE Placed(low, c) /\ Effect(c)
  <2>1. /\ cl[c].pc = "idle" /\ cl[c].ret = kValueNull
        /\ cl[c].path = NullPath
    BY <1>1 DEF IdleLocals
  <2>a. \A j \in 1..MaxHeight : cl[c].path[j] = Null
    BY <2>1 DEF NullPath
  <2>2. Guided(low, c)
    BY <2>1, <2>a DEF Guided, LeafLevel, OfLevel
  <2>3. Carries(low, c) /\ Halves(low, c)
    BY <2>1 DEF Carries, Halves, Upward
  <2>4. Effect(c)
    BY <1>1, <2>1 DEF Effect, Upward
  <2> QED BY <2>2, <2>3, <2>4 DEF Placed
<1>12. OwnSibling
  BY <1>1 DEF OwnSibling, IdleLocals
<1> QED BY <1>5, <1>8, <1>9, <1>10, <1>11, <1>12 DEF RangeInv, low

-----------------------------------------------------------------------------
(* What a step leaves alone *)

\* Between two states nodes keep their level and their least key, and settled
\* leaves stay settled.
Grows(low, new) ==
  /\ top <= top'
  /\ \A a \in 1..top :
       /\ mem'[a].level = mem[a].level /\ mem'[a].lo = mem[a].lo
       /\ new[a] = low[a]
       /\ Settled(a) => Settled(a)'

\* What was true of a child, a pointer or a node's separators stays true.
LEMMA Kept ==
  ASSUME TypeOK, TypeOK', NEW low, NEW new, Grows(low, new)
  PROVE  /\ \A a \in 1..top : a \in 1..top'
         /\ \A a, s, l : Stands(low, a, s, l) => Stands(new, a, s, l)'
         /\ \A a, l : OfLevel(a, l) => OfLevel(a, l)'
         /\ \A n : Truthful(low, n) => Truthful(new, n)'
<1>1. \A a \in 1..top : a \in 1..top'
  BY Allocated, TreeConstants DEF Grows, TypeOK, Addrs
<1>a. ASSUME NEW a \in 1..top
      PROVE  /\ mem'[a].level = mem[a].level /\ mem'[a].lo = mem[a].lo
             /\ new[a] = low[a] /\ a \in 1..top'
             /\ Settled(a) => Settled(a)'
  BY <1>1 DEF Grows
<1>2. ASSUME NEW a, NEW s, NEW l, Stands(low, a, s, l) PROVE Stands(new, a, s, l)'
  <2>1. a \in 1..top
    BY <1>2 DEF Stands
  <2> QED BY <1>2, <1>a, <2>1 DEF Stands
<1>3. ASSUME NEW a, NEW l, OfLevel(a, l) PROVE OfLevel(a, l)'
  <2>1. CASE a \in 1..top
    BY <1>3, <1>a, <2>1 DEF OfLevel
  <2> QED BY <1>3, <2>1 DEF OfLevel
<1>4. ASSUME NEW n, Truthful(low, n) PROVE Truthful(new, n)'
  BY <1>2, <1>4 DEF Truthful
<1> QED BY <1>1, <1>2, <1>3, <1>4

\* A client that does not move stays well placed; the nodes it is splitting

\* must not have changed.
LEMMA OthersKept ==
  ASSUME TreeInv, TypeOK', NEW low, NEW new, Grows(low, new), RangeInv(low),
         NEW d \in Clients, cl'[d] = cl[d],
         cl[d].pc \in {"leaf_split", "internal_split"} => mem'[cl[d].p] = mem[cl[d].p],
         cl[d].pc = "leaf_split" => mem'[cl[d].nsp] = mem[cl[d].nsp]
  PROVE  Placed(new, d)' /\ Effect(d)'
<1>0. Guided(low, d) /\ Carries(low, d) /\ Halves(low, d) /\ Effect(d) /\ TypeOK
  BY DEF RangeInv, Placed, TreeInv
<1>1. /\ \A a \in 1..top : a \in 1..top'
      /\ \A a, s, l : Stands(low, a, s, l) => Stands(new, a, s, l)'
      /\ \A a, l : OfLevel(a, l) => OfLevel(a, l)'
  BY <1>0, Kept
<1>2. ASSUME NEW a, Settled(a) PROVE Settled(a)' /\ new[a] = low[a]
  <2>1. a \in 1..top
    BY <1>2 DEF Settled
  <2> QED BY <1>2, <2>1 DEF Grows
<1>3. Guided(new, d)'
  BY <1>0, <1>1, <1>2 DEF Guided, LeafLevel, Grows
<1>4. Carries(new, d)'
  BY <1>0, <1>1 DEF Carries
<1>5. Halves(new, d)'
  <2>1. CASE cl[d].pc = "leaf_split"
    <3>1. Settled(cl[d].p)
      <4>1. cl[d].p # Null
        BY <2>1, TreeConstants
           DEF TreeInv, CriticalOnNode, InCritical, Critical, Addrs, Null
      <4> QED BY <1>0, <2>1, <4>1 DEF Guided, LeafLevel
    <3>2. End(new, cl[d].p)' = End(low, cl[d].p)
      BY <1>2, <2>1, <3>1 DEF End, RangeInv, Tiling, LeafRange, Settled
    <3>3. Overfull(d)' = Overfull(d)
      BY <2>1 DEF Overfull
    <3> QED BY <1>0, <1>1, <2>1, <3>2, <3>3 DEF Halves, Grows
  <2>2. CASE cl[d].pc = "internal_split"
    BY <1>0, <1>1, <2>2 DEF Halves
  <2> QED BY <2>1, <2>2 DEF Halves
<1>6. Effect(d)'
  BY <1>0 DEF Effect
<1> QED BY <1>3, <1>4, <1>5, <1>6 DEF Placed

\* Invalidating an entry brings no entry to life.
LEMMA CacheLoses ==
  ASSUME TypeOK, NEW c \in Clients, cache' = cache \/ Invalidate(c)
  PROVE  \A cn \in CNs : \A e \in Live(cn)' : e \in Live(cn)
<1>1. \A cn \in CNs : cache[cn] \subseteq Entry
  BY DEF TypeOK
<1>2. \A e \in Entry : [e EXCEPT !.node = NoNode].node = NoNode
  BY DEF Entry
<1>3. SUFFICES ASSUME NEW cn \in CNs, NEW e \in cache'[cn], e.node # NoNode
               PROVE  e \in cache[cn]
  BY DEF Live
<1>4. CASE cache' = cache
  BY <1>3, <1>4
<1>5. CASE Invalidate(c)
  <2>1. CASE cn = CnOf[c]
    <3>1. e \in InvalidateIn(cache[cn], cl[c].lo, cl[c].hi)
      BY <1>3, <1>5, <2>1 DEF Invalidate, TypeOK
    <3>2. PICK f \in cache[cn] :
            e = IF f.lo = cl[c].lo /\ f.hi = cl[c].hi
                  THEN [f EXCEPT !.node = NoNode] ELSE f
      BY <3>1 DEF InvalidateIn
    <3> QED BY <1>1, <1>2, <1>3, <3>2
  <2>2. CASE cn # CnOf[c]
    BY <1>3, <1>5, <2>2 DEF Invalidate, TypeOK
  <2> QED BY <2>1, <2>2
<1> QED BY <1>4, <1>5

\* Adding a node to a cache brings only its copy to life.
LEMMA CacheGains ==
  ASSUME TypeOK, NEW c \in Clients, NEW n \in Node, AddToCache(c, n)
  PROVE  \A cn \in CNs : \A e \in Live(cn)' :
           e \in Live(cn) \/ e = [lo |-> n.lo, hi |-> n.hi, node |-> n]
<1>0. CnOf[c] \in CNs
  BY TreeConstants
<1>1. \A cn \in CNs : cache[cn] \subseteq Entry
  BY DEF TypeOK
<1>2. \A e \in Entry : [e EXCEPT !.node = NoNode].node = NoNode
  BY DEF Entry
<1>3. SUFFICES ASSUME NEW cn \in CNs, NEW e \in cache'[cn], e.node # NoNode
               PROVE  e \in cache[cn] \/ e = [lo |-> n.lo, hi |-> n.hi, node |-> n]
  BY DEF Live
<1> DEFINE copy == [lo |-> n.lo, hi |-> n.hi, node |-> n]
           added == {f \in cache[CnOf[c]] : f.lo # n.lo \/ f.hi # n.hi} \cup {copy}
           live == {f \in added : f.node # NoNode}
           without(keep) == {IF f \in live \ keep
                               THEN [f EXCEPT !.node = NoNode] ELSE f :
                             f \in added}
<1>4. \/ cache' = [cache EXCEPT ![CnOf[c]] = added]
      \/ \E keep \in SUBSET live : cache' = [cache EXCEPT ![CnOf[c]] = without(keep)]
  BY DEF AddToCache
<1>5. copy \in Entry
  BY DEF Entry, Node
<1>6. \A f \in added : f \in cache[CnOf[c]] \/ f = copy
  OBVIOUS
<1> HIDE DEF added, live, copy
<1>7. ASSUME cn = CnOf[c] PROVE e \in added
  <2>1. CASE cache' = [cache EXCEPT ![CnOf[c]] = added]
    BY <1>0, <1>3, <1>7, <2>1 DEF TypeOK
  <2>2. CASE \E keep \in SUBSET live :
               cache' = [cache EXCEPT ![CnOf[c]] = without(keep)]
    <3>1. PICK keep \in SUBSET live :
               cache' = [cache EXCEPT ![CnOf[c]] = without(keep)]
      BY <2>2
    <3> HIDE DEF without
    <3>2. e \in without(keep)
      BY <1>0, <1>3, <1>7, <3>1 DEF TypeOK
    <3>3. PICK f \in added : e = IF f \in live \ keep
                                   THEN [f EXCEPT !.node = NoNode] ELSE f
      BY <3>2 DEF without
    <3>4. f \in Entry
      BY <1>0, <1>1, <1>5, <1>6
    <3> QED BY <1>2, <1>3, <3>3, <3>4
  <2> QED BY <1>4, <2>1, <2>2
<1>8. ASSUME cn # CnOf[c] PROVE e \in cache[cn]
  <2> HIDE DEF without
  <2> QED BY <1>3, <1>4, <1>8 DEF TypeOK
<1> QED BY <1>6, <1>7, <1>8 DEF copy

\* Caches only ever gain copies of nodes in memory.
LEMMA CacheKept ==
  ASSUME TypeOK, TypeOK', NEW low, NEW new, Grows(low, new), CachesTrue(low),
         NEW c \in Clients,
         \/ cache' = cache
         \/ Invalidate(c)
         \/ \E n \in Node : AddToCache(c, n) /\ Truthful(low, n)
  PROVE  CachesTrue(new)'
<1>1. ASSUME NEW cn \in CNs, NEW e \in Live(cn)'
      PROVE  Truthful(low, e.node) /\ e.lo = e.node.lo /\ e.hi = e.node.hi
  <2>1. CASE cache' = cache \/ Invalidate(c)
    <3>1. e \in Live(cn)
      BY <2>1, CacheLoses
    <3> QED BY <3>1 DEF CachesTrue
  <2>2. CASE \E n \in Node : AddToCache(c, n) /\ Truthful(low, n)
    <3>1. PICK n \in Node : AddToCache(c, n) /\ Truthful(low, n)
      BY <2>2
    <3>2. e \in Live(cn) \/ e = [lo |-> n.lo, hi |-> n.hi, node |-> n]
      BY <3>1, CacheGains
    <3> QED BY <3>1, <3>2 DEF CachesTrue
  <2> QED BY <2>1, <2>2
<1>2. \A n : Truthful(low, n) => Truthful(new, n)'
  BY Kept
<1> QED BY <1>1, <1>2 DEF CachesTrue

\* Some linked leaf holds value x under key j.
Holds(j, x) ==
  \E a \in Addrs : Settled(a) /\ j \in Present(mem[a].kv) /\ mem[a].kv[j] = x

\* A step leaves every record alone, or stores client c's value under its key.
SameStore == \A j \in Keys : \A x : Holds(j, x)' <=> Holds(j, x)
PutStore(c) ==
  \A j \in Keys : \A x :
    Holds(j, x)' <=> IF j = cl[c].k THEN x = cl[c].v ELSE Holds(j, x)

\* A step keeps the invariant and the ranges the leaves had.
Preserved(low, new) == RangeInv(new)' /\ Grows(low, new)

\* Everything together: what is left to show of a step of c is about the nodes

\* it writes and about c.
LEMMA StepKept ==
  ASSUME TreeInv, TypeOK', NEW low, NEW new \in [Addrs -> Keys], RangeInv(low),
         NEW c \in Clients, \A d \in Clients \ {c} : cl'[d] = cl[d],
         Grows(low, new), Tiling(new)', Routing(new)', OwnSibling',
         \/ cache' = cache
         \/ Invalidate(c)
         \/ \E n \in Node : AddToCache(c, n) /\ Truthful(low, n),
         \A d \in Clients \ {c} :
           /\ cl[d].pc \in {"leaf_split", "internal_split"} =>
                mem'[cl[d].p] = mem[cl[d].p]
           /\ cl[d].pc = "leaf_split" => mem'[cl[d].nsp] = mem[cl[d].nsp],
         Placed(new, c)', Effect(c)'
  PROVE  Preserved(low, new)
<1>1. CachesTrue(new)'
  BY CacheKept DEF TreeInv, RangeInv
<1>2. \A d \in Clients \ {c} : Placed(new, d)' /\ Effect(d)'
  BY OthersKept
<1>3. \A d \in Clients : Placed(new, d)' /\ Effect(d)'
  BY <1>2
<1> QED BY <1>1, <1>3 DEF RangeInv, Preserved

\* A step that writes no node.
Reads(c) ==
  /\ mem' = mem /\ top' = top /\ root' = root
  /\ cl[c].pc # "leaf_split" /\ cl'[c].pc # "leaf_split"
  /\ \A d \in Clients \ {c} : cl'[d] = cl[d]

\* Such a step leaves the ranges and the separators as they are.
LEMMA ReadsKeep ==
  ASSUME TypeOK, TypeOK', NEW low, RangeInv(low), NEW c \in Clients, Reads(c)
  PROVE  /\ Grows(low, low) /\ Tiling(low)' /\ Routing(low)' /\ OwnSibling'
         /\ \A a : Settled(a)' <=> Settled(a)
<1>1. ASSUME NEW a PROVE Fresh(a)' <=> Fresh(a)
  BY DEF Fresh, Reads
<1>2. \A a : Settled(a)' <=> Settled(a)
  BY <1>1 DEF Settled, Reads
<1>3. Grows(low, low)
  BY <1>2, Allocated DEF Grows, Reads
<1>4. \A a : LeafRange(low, a) => LeafRange(low, a)'
  BY <1>2 DEF LeafRange, End, Reads
<1>5. Tiling(low)'
  <2>1. Tiling(low)
    BY DEF RangeInv
  <2>2. \A a : End(low, a)' = End(low, a)
    BY DEF End, Reads
  <2> QED BY <1>2, <1>4, <2>1, <2>2 DEF Tiling, Reads
<1>6. Routing(low)'
  <2>1. Routing(low)
    BY DEF RangeInv
  <2> QED BY <1>3, <2>1, Kept DEF Routing, Reads
<1>7. OwnSibling'
  BY DEF RangeInv, OwnSibling, Reads
<1> QED BY <1>2, <1>3, <1>5, <1>6, <1>7

\* What is left to show of a step that writes no node.
LEMMA ReadStep ==
  ASSUME TreeInv, TypeOK', NEW low, RangeInv(low), NEW c \in Clients, Reads(c),
         \/ cache' = cache
         \/ Invalidate(c)
         \/ \E n \in Node : AddToCache(c, n) /\ Truthful(low, n),
         Guided(low, c)', Carries(low, c)', Effect(c)', cl'[c].pc # "internal_split"
  PROVE  Preserved(low, low)
<1>1. Halves(low, c)'
  BY DEF Halves, Reads
<1>2. TypeOK /\ low \in [Addrs -> Keys]
  BY DEF TreeInv, RangeInv
<1>3. Grows(low, low) /\ Tiling(low)' /\ Routing(low)' /\ OwnSibling'
  BY <1>2, ReadsKeep
<1>4. Placed(low, c)'
  BY <1>1 DEF Placed
<1>5. /\ mem' = mem
      /\ \A d \in Clients \ {c} : cl'[d] = cl[d]
  BY DEF Reads
<1> QED BY <1>2, <1>3, <1>4, <1>5, StepKept

-----------------------------------------------------------------------------
(* Steps that write no node *)

\* The part of the invariant that is about the client that moves.
LEMMA Here ==
  ASSUME TreeInv, NEW low, RangeInv(low), NEW c \in Clients
  PROVE  /\ Guided(low, c) /\ Carries(low, c) /\ Halves(low, c) /\ Effect(c)
         /\ TypeOK /\ cl[c] \in Locals /\ cl[c].k \in Keys
         /\ InCritical(c) => cl[c].p \in Addrs /\ cl[c].p # Null
<1>1. TypeOK /\ CriticalOnNode
  BY DEF TreeInv
<1>2. Null \notin Addrs
  BY DEF Null, Addrs
<1> QED BY <1>1, <1>2, Parts DEF RangeInv, Placed, CriticalOnNode

\* The child a truthful node names for a key does not begin after the key.
LEMMA ChildStands ==
  ASSUME NEW low, NEW n \in Node, Truthful(low, n), NEW k \in Keys, n.lo <= k,
         NEW s \in 0..KeyMax, IsFloor(n, k, s)
  PROVE  \E x \in Fences : x <= k /\ Stands(low, ChildAt(n, s), x, n.level - 1)
<1>1. CASE s = 0
  BY <1>1 DEF Truthful, ChildAt, Node
<1>2. CASE s # 0
  <2>1. s \in Seps(n) /\ s <= k /\ s \in Fences
    BY <1>2, TreeConstants DEF IsFloor, Fences
  <2> QED BY <1>2, <2>1 DEF Truthful, ChildAt
<1> QED BY <1>1, <1>2

\* The sibling it lets a client expect begins after the key.
LEMMA NextStands ==
  ASSUME NEW low, NEW n \in Node, Truthful(low, n), NEW k \in Keys, k < n.hi,
         NEW t \in Fences, IsCeiling(n, k, t)
  PROVE  \/ NextAt(n, t) = Null
         \/ \E y \in Fences : k < y /\ Stands(low, NextAt(n, t), y, n.level - 1)
<1>1. CASE t = KeyMax + 1
  BY <1>1 DEF Truthful, NextAt, Node
<1>2. CASE t # KeyMax + 1
  <2>1. t \in Seps(n) /\ k < t
    BY <1>2, TreeConstants DEF IsCeiling, Fences, Keys
  <2> QED BY <1>2, <2>1 DEF Truthful, NextAt
<1> QED BY <1>1, <1>2

\* What standing means for a pointer.
LEMMA StandsMeans ==
  ASSUME NEW low, NEW a, NEW s, NEW l, Stands(low, a, s, l)
  PROVE  /\ OfLevel(a, l) /\ a \in 1..top
         /\ l = 0 => Settled(a) /\ low[a] = s
BY DEF Stands, OfLevel

\* The path stack holds nodes of the levels it is indexed by.
LEMMA RecordedLevels ==
  ASSUME TypeOK, NEW c \in Clients, NEW a, OfLevel(a, cl[c].level - 1),
         \A j \in 1..MaxHeight : OfLevel(cl[c].path[j], j - 1)
  PROVE  \A j \in 1..MaxHeight : OfLevel(Recorded(c, a)[j], j - 1)
<1>1. cl[c].path \in [1..MaxHeight -> AddrOrNull]
  BY Parts
<1>2. ASSUME NEW j \in 1..MaxHeight
      PROVE  Recorded(c, a)[j] = cl[c].path[j]
               \/ (Recorded(c, a)[j] = a /\ j = cl[c].level)
  BY <1>1 DEF Recorded
<1> QED BY <1>2

\* A lookup in the cache that hits.
LEMMA SearchFromCacheKeeps ==
  ASSUME TreeInv, TypeOK', NEW low, RangeInv(low), NEW c \in Clients,
         SearchFromCache(c)
  PROVE  Preserved(low, low)
<1>0. /\ Guided(low, c) /\ Carries(low, c) /\ Effect(c) /\ TypeOK
      /\ cl[c] \in Locals /\ cl[c].k \in Keys
      /\ cl[c].pc = "lookup" /\ ~cl[c].lin /\ cl[c].ret = kValueNull
      /\ mem' = mem /\ top' = top /\ root' = root /\ cache' = cache
  BY Here DEF SearchFromCache, Effect
<1>1. CASE Become(c, [cl[c] EXCEPT !.pc = "root"])
  <2>1. /\ cl'[c].pc = "root" /\ cl'[c].lin = cl[c].lin
        /\ cl'[c].ret = cl[c].ret /\ cl'[c].path = cl[c].path
        /\ \A d \in Clients \ {c} : cl'[d] = cl[d]
    BY <1>0, <1>1, BecomeIs DEF Locals
  <2>2. Reads(c)
    BY <1>0, <2>1 DEF Reads
  <2>3. Effect(c)' /\ Carries(low, c)'
    BY <1>0, <2>1 DEF Effect, Carries, Upward
  <2>4. \A a, l : OfLevel(a, l) => OfLevel(a, l)'
    BY <1>0 DEF OfLevel
  <2>5. Guided(low, c)'
    BY <1>0, <2>1, <2>4 DEF Guided, LeafLevel
  <2> QED BY <1>0, <2>1, <2>2, <2>3, <2>5, ReadStep
<1>2. ASSUME NEW e \in CacheHits(CnOf[c], cl[c].k), NEW s \in 0..KeyMax,
             NEW t \in Fences,
             IsFloor(e.node, cl[c].k, s), IsCeiling(e.node, cl[c].k, t),
             Become(c, [cl[c] EXCEPT !.pc = "next", !.fc = TRUE,
                                     !.p = ChildAt(e.node, s),
                                     !.sibp = NextAt(e.node, t),
                                     !.level = e.node.level,
                                     !.lo = e.lo, !.hi = e.hi])
      PROVE  Preserved(low, low)
  <2> DEFINE n == e.node
  <2>a. /\ cl'[c] = [cl[c] EXCEPT !.pc = "next", !.fc = TRUE,
                                  !.p = ChildAt(n, s), !.sibp = NextAt(n, t),
                                  !.level = n.level, !.lo = e.lo, !.hi = e.hi]
        /\ \A d \in Clients \ {c} : cl'[d] = cl[d]
    BY <1>0, <1>2, BecomeIs
  <2>1. /\ cl'[c].pc = "next" /\ cl'[c].lin = cl[c].lin
        /\ cl'[c].ret = cl[c].ret /\ cl'[c].path = cl[c].path
        /\ cl'[c].k = cl[c].k /\ cl'[c].op = cl[c].op
        /\ cl'[c].p = ChildAt(n, s) /\ cl'[c].sibp = NextAt(n, t)
        /\ cl'[c].level = n.level
    BY <1>0, <2>a DEF Locals
  <2>2. Reads(c)
    BY <1>0, <2>a, <2>1 DEF Reads
  <2>3. Effect(c)' /\ Carries(low, c)'
    BY <1>0, <2>1 DEF Effect, Carries, Upward
  <2>4. /\ \A a, l : OfLevel(a, l) => OfLevel(a, l)'
        /\ \A a : Settled(a) => Settled(a)'
    BY <1>0, <2>2, ReadsKeep DEF OfLevel
  <2>5. /\ n \in Node /\ Truthful(low, n) /\ n.lo <= cl[c].k /\ cl[c].k < n.hi
        /\ n.level \in Nat /\ n.level > 0
    <3>1. CnOf[c] \in CNs /\ e \in Live(CnOf[c]) /\ e.lo <= cl[c].k /\ cl[c].k < e.hi
      BY TreeConstants DEF CacheHits
    <3>2. n \in Node
      BY <1>0, <3>1, CacheTypes
    <3> QED BY <3>1, <3>2 DEF RangeInv, CachesTrue, Truthful, Node
  <2> HIDE DEF n
  <2>6. PICK x \in Fences : x <= cl[c].k /\ Stands(low, ChildAt(n, s), x, n.level - 1)
    BY <1>0, <1>2, <2>5, ChildStands DEF n
  <2>7. \/ NextAt(n, t) = Null
        \/ \E y \in Fences : cl[c].k < y /\ Stands(low, NextAt(n, t), y, n.level - 1)
    BY <1>0, <1>2, <2>5, NextStands DEF n
  <2>8. /\ OfLevel(ChildAt(n, s), n.level - 1)
        /\ n.level = 1 => /\ Settled(ChildAt(n, s))
                          /\ low[ChildAt(n, s)] = x
    BY <2>6, StandsMeans
  <2>9. NextAt(n, t) # Null /\ n.level = 1 =>
          NextAt(n, t) \in 1..top /\ cl[c].k < low[NextAt(n, t)]
    BY <2>7, StandsMeans
  <2>10. Guided(low, c)'
    BY <1>0, <2>1, <2>4, <2>5, <2>6, <2>8, <2>9 DEF Guided, LeafLevel, Fences, Keys
  <2> QED BY <1>0, <2>1, <2>2, <2>3, <2>10, ReadStep
<1> QED BY <1>1, <1>2 DEF SearchFromCache

\* One level down from a node that covers the key.
LEMMA InternalSearchDownKeeps ==
  ASSUME TreeInv, TypeOK', NEW low, RangeInv(low), NEW c \in Clients,
         InternalSearchDown(c)
  PROVE  Preserved(low, low)
<1> DEFINE n == mem[cl[c].p]
           k == Steer(c)
<1>0. /\ Guided(low, c) /\ Carries(low, c) /\ Effect(c) /\ TypeOK
      /\ cl[c] \in Locals /\ cl[c].k \in Keys /\ cl[c].sk \in Keys
      /\ cl[c].level \in Nat /\ cl[c].level > 1 /\ cl[c].p \in Addrs
      /\ cl[c].pc \in {"next", "ii_next"}
      /\ mem' = mem /\ top' = top /\ root' = root
      /\ n.lo <= k /\ k < n.hi /\ AddToCache(c, n)
  BY Here DEF InternalSearchDown, Traversing, Locals
<1>1. k \in Keys
  BY <1>0 DEF Steer
<1>2. /\ OfLevel(cl[c].p, cl[c].level - 1) /\ cl[c].p # Null
      /\ ~cl[c].lin \/ cl[c].pc = "ii_next"
  BY <1>0 DEF Guided, Effect, Addrs, Null
<1>3. n \in Node /\ n.level \in Nat /\ n.level = cl[c].level - 1 /\ n.level > 0
  BY <1>0, <1>2, Parts DEF OfLevel, Node
<1>4. Truthful(low, n)
  BY <1>2, <1>3 DEF OfLevel, RangeInv, Routing
<1>5. PICK s \in 0..KeyMax, t \in Fences :
        /\ IsFloor(n, k, s) /\ IsCeiling(n, k, t)
        /\ Become(c, [cl[c] EXCEPT !.fc = FALSE,
                                   !.p = ChildAt(n, s), !.sibp = NextAt(n, t),
                                   !.level = n.level,
                                   !.path = Recorded(c, cl[c].p)])
  BY DEF InternalSearchDown
<1>6. /\ cl'[c] = [cl[c] EXCEPT !.fc = FALSE,
                                !.p = ChildAt(n, s), !.sibp = NextAt(n, t),
                                !.level = n.level,
                                !.path = Recorded(c, cl[c].p)]
      /\ \A d \in Clients \ {c} : cl'[d] = cl[d]
  BY <1>0, <1>5, BecomeIs
<1> HIDE DEF n, k
<1>7. /\ cl'[c].pc = cl[c].pc /\ cl'[c].lin = cl[c].lin
      /\ cl'[c].ret = cl[c].ret /\ cl'[c].path = Recorded(c, cl[c].p)
      /\ cl'[c].k = cl[c].k /\ cl'[c].op = cl[c].op /\ cl'[c].fc = FALSE
      /\ cl'[c].p = ChildAt(n, s) /\ cl'[c].sibp = NextAt(n, t)
      /\ cl'[c].level = n.level /\ cl'[c].sk = cl[c].sk
      /\ cl'[c].sp = cl[c].sp /\ cl'[c].tl = cl[c].tl
  BY <1>0, <1>6 DEF Locals
<1>8. Reads(c)
  BY <1>0, <1>6, <1>7 DEF Reads
<1>9. /\ \A a, l : OfLevel(a, l) => OfLevel(a, l)'
      /\ \A a : Settled(a) => Settled(a)'
      /\ \A a, x, l : Stands(low, a, x, l) => Stands(low, a, x, l)'
  BY <1>0, <1>8, ReadsKeep, Kept
<1>10. Effect(c)'
  BY <1>0, <1>2, <1>7 DEF Effect, Upward
<1>11. Carries(low, c)'
  BY <1>0, <1>7, <1>9 DEF Carries, Upward
<1>12. PICK x \in Fences : x <= k /\ Stands(low, ChildAt(n, s), x, n.level - 1)
  BY <1>0, <1>1, <1>3, <1>4, <1>5, ChildStands DEF n, k
<1>13. \/ NextAt(n, t) = Null
       \/ \E y \in Fences : k < y /\ Stands(low, NextAt(n, t), y, n.level - 1)
  BY <1>0, <1>1, <1>3, <1>4, <1>5, NextStands DEF n, k
<1>14. /\ OfLevel(ChildAt(n, s), n.level - 1)
       /\ n.level = 1 => Settled(ChildAt(n, s)) /\ low[ChildAt(n, s)] = x
  BY <1>12, StandsMeans
<1>15. NextAt(n, t) # Null /\ n.level = 1 =>
         NextAt(n, t) \in 1..top /\ k < low[NextAt(n, t)]
  BY <1>13, StandsMeans
<1>16. \A j \in 1..MaxHeight : OfLevel(cl[c].path[j], j - 1)'
  BY <1>0, <1>2, <1>7, <1>9, RecordedLevels DEF Guided
<1>17. cl[c].pc = "next" => k = cl[c].k
  BY DEF k, Steer
<1>18. Guided(low, c)'
  BY <1>0, <1>1, <1>2, <1>3, <1>7, <1>9, <1>12, <1>14, <1>15, <1>16, <1>17
     DEF Guided, LeafLevel, Fences, Keys
<1> QED BY <1>0, <1>3, <1>4, <1>7, <1>8, <1>10, <1>11, <1>18, ReadStep DEF n

\* The other steps of a traversal.
LEMMA TraverseKeeps ==
  ASSUME TreeInv, TypeOK', NEW low, RangeInv(low), NEW c \in Clients, Traverse(c)
  PROVE  Preserved(low, low)
<1>0. /\ Guided(low, c) /\ Carries(low, c) /\ Effect(c) /\ TypeOK
      /\ cl[c] \in Locals /\ cl[c].k \in Keys /\ cl[c].level \in Nat
  BY Here DEF Locals
<1>k. Reads(c) => /\ \A a, l : OfLevel(a, l) => OfLevel(a, l)'
                  /\ \A a : Settled(a) => Settled(a)'
                  /\ \A a, x, l : Stands(low, a, x, l) => Stands(low, a, x, l)'
  BY <1>0, ReadsKeep, Kept
<1>1. CASE GetRootPtr(c)
  <2>0. /\ cl[c].pc \in {"root", "ii_root"}
        /\ mem' = mem /\ top' = top /\ root' = root /\ cache' = cache
    BY <1>1 DEF GetRootPtr
  <2>1. /\ cl'[c] = [cl[c] EXCEPT !.pc = IF @ = "root" THEN "next" ELSE "ii_next",
                                  !.fc = FALSE, !.p = root.ptr,
                                  !.sibp = Null, !.level = root.level]
        /\ \A d \in Clients \ {c} : cl'[d] = cl[d]
    BY <1>0, <1>1, BecomeIs DEF GetRootPtr
  <2>2. /\ cl'[c].pc = (IF cl[c].pc = "root" THEN "next" ELSE "ii_next")
        /\ cl'[c].lin = cl[c].lin /\ cl'[c].ret = cl[c].ret
        /\ cl'[c].path = cl[c].path
        /\ cl'[c].k = cl[c].k /\ cl'[c].op = cl[c].op /\ cl'[c].fc = FALSE
        /\ cl'[c].p = root.ptr /\ cl'[c].sibp = Null
        /\ cl'[c].level = root.level /\ cl'[c].sk = cl[c].sk
        /\ cl'[c].sp = cl[c].sp /\ cl'[c].tl = cl[c].tl
    BY <1>0, <2>1 DEF Locals
  <2>3. Reads(c)
    BY <2>0, <2>1, <2>2 DEF Reads
  <2>4. Effect(c)'
    BY <1>0, <2>0, <2>2 DEF Effect, Upward
  <2>5. Carries(low, c)'
    BY <1>0, <1>k, <2>0, <2>2, <2>3 DEF Carries, Upward
  <2>6. /\ root.level \in Nat /\ root.level > 0
        /\ Stands(low, root.ptr, 1, root.level - 1)
    BY <1>0, Parts DEF RangeInv, Routing
  <2>7. /\ OfLevel(root.ptr, root.level - 1)
        /\ root.level = 1 => Settled(root.ptr) /\ low[root.ptr] = 1
    BY <2>6, StandsMeans
  <2>8. cl[c].pc = "root" => ~cl[c].lin
    BY <1>0 DEF Effect
  <2>9. Guided(low, c)'
    BY <1>0, <1>k, <2>0, <2>2, <2>3, <2>6, <2>7, <2>8 DEF Guided, LeafLevel, Keys
  <2> QED BY <2>0, <2>2, <2>3, <2>4, <2>5, <2>9, ReadStep
<1>2. CASE InternalSearchStale(c)
  <2>0. /\ cl[c].pc \in {"next", "ii_next"} /\ cl[c].level > 1 /\ cl[c].fc
        /\ mem' = mem /\ top' = top /\ root' = root /\ Invalidate(c)
    BY <1>2 DEF InternalSearchStale, Traversing
  <2>1. /\ cl'[c] = [cl[c] EXCEPT !.pc = "lookup", !.path = Recorded(c, cl[c].p)]
        /\ \A d \in Clients \ {c} : cl'[d] = cl[d]
    BY <1>0, <1>2, BecomeIs DEF InternalSearchStale
  <2>2. /\ cl'[c].pc = "lookup" /\ cl'[c].lin = cl[c].lin /\ cl'[c].ret = cl[c].ret
        /\ cl'[c].path = Recorded(c, cl[c].p)
    BY <1>0, <2>1 DEF Locals
  <2>3. Reads(c)
    BY <2>0, <2>1, <2>2 DEF Reads
  <2>4. Effect(c)' /\ Carries(low, c)'
    BY <1>0, <2>0, <2>2 DEF Effect, Carries, Upward
  <2>5. Guided(low, c)'
    <3>1. \A j \in 1..MaxHeight : OfLevel(cl[c].path[j], j - 1)'
      BY <1>0, <1>k, <2>0, <2>2, <2>3, RecordedLevels DEF Guided
    <3> QED BY <2>2, <3>1 DEF Guided, LeafLevel
  <2> QED BY <2>0, <2>2, <2>3, <2>4, <2>5, ReadStep
<1>3. CASE InternalSearchRight(c)
  <2> DEFINE b == SibOf(mem[cl[c].p])
  <2>0. /\ cl[c].pc \in {"next", "ii_next"} /\ cl[c].level > 1 /\ ~cl[c].fc
        /\ mem' = mem /\ top' = top /\ root' = root /\ cache' = cache
        /\ cl[c].p \in Addrs
    BY <1>3 DEF InternalSearchRight, Traversing
  <2>1. /\ cl'[c] = [cl[c] EXCEPT !.p = b, !.path = Recorded(c, b)]
        /\ \A d \in Clients \ {c} : cl'[d] = cl[d]
    BY <1>0, <1>3, BecomeIs DEF InternalSearchRight
  <2>a. OfLevel(b, cl[c].level - 1)
    <3>1. cl[c].p \in 1..top /\ mem[cl[c].p].level = cl[c].level - 1
      BY <1>0, <2>0 DEF Guided, OfLevel, Addrs, Null
    <3>2. mem[cl[c].p].level > 0
      BY <1>0, <2>0, <3>1
    <3> QED BY <3>1, <3>2 DEF RangeInv, Routing
  <2> HIDE DEF b
  <2>2. /\ cl'[c].pc = cl[c].pc /\ cl'[c].lin = cl[c].lin
        /\ cl'[c].ret = cl[c].ret /\ cl'[c].path = Recorded(c, b)
        /\ cl'[c].k = cl[c].k /\ cl'[c].op = cl[c].op /\ cl'[c].fc = cl[c].fc
        /\ cl'[c].p = b /\ cl'[c].level = cl[c].level /\ cl'[c].sk = cl[c].sk
        /\ cl'[c].sp = cl[c].sp /\ cl'[c].tl = cl[c].tl
    BY <1>0, <2>1 DEF Locals
  <2>3. Reads(c)
    BY <2>0, <2>1, <2>2 DEF Reads
  <2>4. Effect(c)'
    BY <1>0, <2>0, <2>2 DEF Effect, Upward
  <2>5. Carries(low, c)'
    BY <1>0, <1>k, <2>0, <2>2, <2>3 DEF Carries, Upward
  <2>6. Guided(low, c)'
    <3>1. \A j \in 1..MaxHeight : OfLevel(cl[c].path[j], j - 1)'
      BY <1>0, <1>k, <2>a, <2>2, <2>3, RecordedLevels DEF Guided
    <3> QED BY <1>0, <1>k, <2>0, <2>a, <2>2, <2>3, <3>1 DEF Guided, LeafLevel
  <2> QED BY <2>0, <2>2, <2>3, <2>4, <2>5, <2>6, ReadStep
<1>4. CASE InsertInternalArrive(c)
  <2>0. /\ cl[c].pc = "ii_next" /\ cl[c].level > 1 /\ cl[c].level - 1 = cl[c].tl
        /\ mem' = mem /\ top' = top /\ root' = root /\ cache' = cache
    BY <1>4 DEF InsertInternalArrive
  <2>1. /\ cl'[c] = [cl[c] EXCEPT !.pc = "lock_internal", !.fc = FALSE,
                                  !.path = Recorded(c, cl[c].p)]
        /\ \A d \in Clients \ {c} : cl'[d] = cl[d]
    BY <1>0, <1>4, BecomeIs DEF InsertInternalArrive
  <2>2. /\ cl'[c].pc = "lock_internal" /\ cl'[c].lin = cl[c].lin
        /\ cl'[c].ret = cl[c].ret /\ cl'[c].path = Recorded(c, cl[c].p)
        /\ cl'[c].op = cl[c].op /\ cl'[c].p = cl[c].p /\ cl'[c].sk = cl[c].sk
        /\ cl'[c].sp = cl[c].sp /\ cl'[c].tl = cl[c].tl
    BY <1>0, <2>1 DEF Locals
  <2>3. Reads(c)
    BY <2>0, <2>1, <2>2 DEF Reads
  <2>a. OfLevel(cl[c].p, cl[c].level - 1)
    BY <1>0, <2>0 DEF Guided
  <2>4. Effect(c)'
    BY <1>0, <2>0, <2>2 DEF Effect, Upward
  <2>5. Carries(low, c)'
    BY <1>0, <1>k, <2>0, <2>a, <2>2, <2>3 DEF Carries, Upward
  <2>6. Guided(low, c)'
    <3>1. \A j \in 1..MaxHeight : OfLevel(cl[c].path[j], j - 1)'
      BY <1>0, <1>k, <2>a, <2>2, <2>3, RecordedLevels DEF Guided
    <3> QED BY <2>2, <3>1 DEF Guided, LeafLevel
  <2> QED BY <2>0, <2>2, <2>3, <2>4, <2>5, <2>6, ReadStep
<1> QED BY <1>1, <1>2, <1>3, <1>4, SearchFromCacheKeeps, InternalSearchDownKeeps
        DEF Traverse

\* A key that the sibling check lets through belongs in the leaf.
LEMMA KeyBeforeSibling ==
  ASSUME TreeInv, NEW low, RangeInv(low), NEW c \in Clients, LeafLevel(c),
         cl[c].p # Null, ~SiblingDiffers(c)
  PROVE  cl[c].k < End(low, cl[c].p)
<1>1. /\ cl[c].sibp = SibOf(mem[cl[c].p])
      /\ cl[c].sibp # Null => cl[c].k < low[cl[c].sibp]
  BY Here DEF SiblingDiffers, Guided
<1>2. cl[c].k < KeyMax + 1
  BY Here, TreeConstants DEF Keys
<1> QED BY <1>1, <1>2 DEF End

\* A key beyond all records of a leaf belongs to the right of it.
LEMMA KeyBeyondLeaf ==
  ASSUME TreeInv, NEW low, RangeInv(low), NEW c \in Clients, Settled(cl[c].p),
         BeyondLeaf(c)
  PROVE  /\ SibOf(mem[cl[c].p]) # Null /\ Settled(SibOf(mem[cl[c].p]))
         /\ low[SibOf(mem[cl[c].p])] <= cl[c].k
<1> DEFINE a == cl[c].p
<1>0. TypeOK /\ cl[c].k \in UserKeys /\ KeyMax \in Nat
  BY TreeConstants DEF TreeInv, TypeOK, Locals
<1>1. /\ End(low, a) \in Nat /\ End(low, a) - 1 \in Present(mem[a].kv)
      /\ End(low, a) = KeyMax + 1 <=> SibOf(mem[a]) = Null
  BY <1>0, LeafFacts
<1>2. End(low, a) - 1 < cl[c].k
  BY <1>1 DEF BeyondLeaf
<1>3. End(low, a) <= cl[c].k /\ SibOf(mem[a]) # Null
  BY <1>0, <1>1, <1>2 DEF UserKeys
<1>4. End(low, a) = low[SibOf(mem[a])]
  BY <1>3 DEF End
<1>5. Settled(SibOf(mem[a]))
  BY <1>3 DEF RangeInv, Tiling, Settled, LeafRange
<1> QED BY <1>3, <1>4, <1>5

\* Steps at a leaf that write nothing.
LEMMA LeafReadKeeps ==
  ASSUME TreeInv, TypeOK', NEW low, RangeInv(low), NEW c \in Clients,
         \/ LeafStale(c) \/ LeafInsertRight(c) \/ LeafUpdateRight(c)
         \/ LeafSearchStale(c) \/ LeafSearchFound(c) \/ LeafSearchOn(c)
  PROVE  Preserved(low, low)
<1> DEFINE b == SibOf(mem[cl[c].p])
<1>0. /\ Guided(low, c) /\ Carries(low, c) /\ Effect(c) /\ TypeOK
      /\ cl[c] \in Locals /\ cl[c].k \in Keys /\ cl[c].level \in Nat
      /\ InCritical(c) => cl[c].p \in Addrs /\ cl[c].p # Null
  BY Here DEF Locals
<1>k. Reads(c) => /\ \A a, l : OfLevel(a, l) => OfLevel(a, l)'
                  /\ \A a : Settled(a) => Settled(a)'
  BY <1>0, ReadsKeep, Kept
<1>c. {"leaf_insert", "leaf_update"} \subseteq Critical
  BY DEF Critical
<1>s. ASSUME Settled(cl[c].p), b # Null
      PROVE  Settled(b) /\ low[b] = End(low, cl[c].p)
  BY <1>s DEF RangeInv, Tiling, Settled, LeafRange, End
<1>1. CASE LeafStale(c) \/ LeafSearchStale(c)
  <2>0. /\ cl[c].pc \in {"leaf_insert", "leaf_update", "next"} /\ cl[c].fc
        /\ mem' = mem /\ top' = top /\ root' = root /\ Invalidate(c)
    BY <1>1 DEF LeafStale, LeafSearchStale, SearchingLeaf
  <2>1. /\ cl'[c] = [cl[c] EXCEPT !.pc = "lookup"]
        /\ \A d \in Clients \ {c} : cl'[d] = cl[d]
    BY <1>0, <1>1, BecomeIs DEF LeafStale, LeafSearchStale
  <2>2. /\ cl'[c].pc = "lookup" /\ cl'[c].lin = cl[c].lin
        /\ cl'[c].ret = cl[c].ret /\ cl'[c].path = cl[c].path
    BY <1>0, <2>1 DEF Locals
  <2>3. Reads(c)
    BY <2>0, <2>1, <2>2 DEF Reads
  <2>4. Effect(c)' /\ Carries(low, c)'
    BY <1>0, <2>0, <2>2 DEF Effect, Carries, Upward
  <2>5. Guided(low, c)'
    BY <1>0, <1>k, <2>2, <2>3 DEF Guided, LeafLevel
  <2> QED BY <2>0, <2>2, <2>3, <2>4, <2>5, ReadStep
<1>2. CASE LeafInsertRight(c)
  <2>0. /\ cl[c].pc = "leaf_insert" /\ BeyondLeaf(c)
        /\ mem' = mem /\ top' = top /\ root' = root /\ cache' = cache
    BY <1>2 DEF LeafInsertRight
  <2>1. /\ cl'[c] = [cl[c] EXCEPT !.pc = "next", !.p = b, !.sibp = Null]
        /\ \A d \in Clients \ {c} : cl'[d] = cl[d]
    BY <1>0, <1>2, BecomeIs DEF LeafInsertRight
  <2>2. /\ cl'[c].pc = "next" /\ cl'[c].lin = cl[c].lin
        /\ cl'[c].ret = cl[c].ret /\ cl'[c].path = cl[c].path
        /\ cl'[c].p = b /\ cl'[c].sibp = Null /\ cl'[c].level = cl[c].level
        /\ cl'[c].op = cl[c].op /\ cl'[c].k = cl[c].k
    BY <1>0, <2>1 DEF Locals
  <2>3. Reads(c)
    BY <2>0, <2>1, <2>2 DEF Reads
  <2>4. Effect(c)' /\ Carries(low, c)'
    BY <1>0, <2>0, <2>2 DEF Effect, Carries, Upward
  <2>5. Settled(cl[c].p) /\ cl[c].level = 1 /\ cl[c].op = "insert"
    BY <1>0, <1>c, <2>0 DEF Guided, LeafLevel, Effect, InCritical
  <2>6. Settled(b) /\ low[b] <= cl[c].k
    BY <2>0, <2>5, KeyBeyondLeaf
  <2>7. Guided(low, c)'
    BY <1>0, <1>k, <2>2, <2>3, <2>5, <2>6 DEF Guided, LeafLevel
  <2> QED BY <2>0, <2>2, <2>3, <2>4, <2>7, ReadStep
<1>3. CASE LeafUpdateRight(c)
  <2>0. /\ cl[c].pc = "leaf_update"
        /\ mem' = mem /\ top' = top /\ root' = root /\ cache' = cache
    BY <1>3 DEF LeafUpdateRight
  <2>1. /\ cl'[c] = [cl[c] EXCEPT !.pc = "next", !.p = b]
        /\ \A d \in Clients \ {c} : cl'[d] = cl[d]
    BY <1>0, <1>3, BecomeIs DEF LeafUpdateRight
  <2>2. /\ cl'[c].pc = "next" /\ cl'[c].lin = cl[c].lin
        /\ cl'[c].ret = cl[c].ret /\ cl'[c].path = cl[c].path
        /\ cl'[c].p = b /\ cl'[c].sibp = cl[c].sibp /\ cl'[c].level = cl[c].level
        /\ cl'[c].op = cl[c].op /\ cl'[c].k = cl[c].k
    BY <1>0, <2>1 DEF Locals
  <2>3. Reads(c)
    BY <2>0, <2>1, <2>2 DEF Reads
  <2>4. Effect(c)' /\ Carries(low, c)'
    BY <1>0, <2>0, <2>2 DEF Effect, Carries, Upward
  <2>5. /\ Settled(cl[c].p) /\ cl[c].level = 1 /\ cl[c].op = "update"
        /\ cl[c].sibp # Null => cl[c].sibp \in 1..top /\ cl[c].k < low[cl[c].sibp]
    BY <1>0, <1>c, <2>0 DEF Guided, LeafLevel, Effect, InCritical
  <2>6. b # Null => Settled(b)
    BY <1>s, <2>5
  <2>7. Guided(low, c)'
    BY <1>0, <1>k, <2>0, <2>2, <2>3, <2>5, <2>6 DEF Guided, LeafLevel
  <2> QED BY <2>0, <2>2, <2>3, <2>4, <2>7, ReadStep
<1>4. CASE LeafSearchFound(c)
  <2> DEFINE v == mem[cl[c].p].kv[cl[c].k]
  <2>0. /\ cl[c].pc = "next"
        /\ mem' = mem /\ top' = top /\ root' = root /\ cache' = cache
    BY <1>4 DEF LeafSearchFound, SearchingLeaf
  <2>1. /\ cl'[c] = [cl[c] EXCEPT !.pc = "done", !.ret = v, !.lin = TRUE]
        /\ \A d \in Clients \ {c} : cl'[d] = cl[d]
    BY <1>0, <1>4, BecomeIs DEF LeafSearchFound
  <2>2. /\ cl'[c].pc = "done" /\ cl'[c].lin /\ cl'[c].path = cl[c].path
    BY <1>0, <2>1 DEF Locals
  <2>3. Reads(c)
    BY <2>0, <2>1, <2>2 DEF Reads
  <2>4. Effect(c)' /\ Carries(low, c)'
    BY <2>2 DEF Effect, Carries, Upward
  <2>5. Guided(low, c)'
    BY <1>0, <1>k, <2>2, <2>3 DEF Guided, LeafLevel
  <2> QED BY <2>0, <2>2, <2>3, <2>4, <2>5, ReadStep
<1>5. CASE LeafSearchOn(c)
  <2> DEFINE now == cl[c].lin \/ Owns(cl[c].p, cl[c].k)
  <2>0. /\ cl[c].pc = "next" /\ cl[c].level = 1 /\ cl[c].op = "search"
        /\ cl[c].p # Null
        /\ mem' = mem /\ top' = top /\ root' = root /\ cache' = cache
    BY <1>5 DEF LeafSearchOn, SearchingLeaf, Addrs, Null
  <2>a. /\ Settled(cl[c].p) /\ (cl[c].lin <=> cl[c].k < low[cl[c].p])
        /\ cl[c].sibp # Null => cl[c].sibp \in 1..top /\ cl[c].k < low[cl[c].sibp]
    BY <1>0, <2>0 DEF Guided, LeafLevel
  <2>b. /\ End(low, cl[c].p) \in Nat /\ low[cl[c].p] \in Nat
        /\ low[cl[c].p] < End(low, cl[c].p)
    BY <1>0, <2>a, LeafFacts DEF Keys
  <2>c. now <=> cl[c].k < End(low, cl[c].p)
    BY <1>0, <2>a, <2>b, OwnsRange DEF Keys
  <2>d. now \in BOOLEAN
    OBVIOUS
  <2>1. CASE ~SiblingDiffers(c) /\ Become(c, [cl[c] EXCEPT !.pc = "done", !.lin = now])
    <3>1. /\ cl'[c] = [cl[c] EXCEPT !.pc = "done", !.lin = now]
          /\ \A d \in Clients \ {c} : cl'[d] = cl[d]
      BY <1>0, <2>1, BecomeIs
    <3> HIDE DEF now
    <3>2. cl'[c].pc = "done" /\ cl'[c].lin = now /\ cl'[c].path = cl[c].path
      BY <1>0, <3>1 DEF Locals
    <3>3. Reads(c)
      BY <2>0, <3>1, <3>2 DEF Reads
    <3>4. now
      BY <2>0, <2>1, <2>c, KeyBeforeSibling DEF LeafLevel
    <3>5. Effect(c)' /\ Carries(low, c)'
      BY <3>2, <3>4 DEF Effect, Carries, Upward
    <3>6. Guided(low, c)'
      BY <1>0, <1>k, <3>2, <3>3 DEF Guided, LeafLevel
    <3> QED BY <2>0, <3>2, <3>3, <3>5, <3>6, ReadStep
  <2>2. CASE ~cl[c].fc /\ Become(c, [cl[c] EXCEPT !.p = b, !.lin = now])
    <3>1. /\ cl'[c] = [cl[c] EXCEPT !.p = b, !.lin = now]
          /\ \A d \in Clients \ {c} : cl'[d] = cl[d]
      BY <1>0, <2>2, BecomeIs
    <3> HIDE DEF now, b
    <3>2. /\ cl'[c].pc = "next" /\ cl'[c].lin = now
          /\ cl'[c].ret = cl[c].ret /\ cl'[c].path = cl[c].path
          /\ cl'[c].p = b /\ cl'[c].sibp = cl[c].sibp /\ cl'[c].level = 1
          /\ cl'[c].op = cl[c].op /\ cl'[c].k = cl[c].k /\ cl'[c].fc = cl[c].fc
      BY <1>0, <2>0, <3>1 DEF Locals
    <3>3. Reads(c)
      BY <2>0, <3>1, <3>2 DEF Reads
    <3>4. b # Null => Settled(b) /\ (now <=> cl[c].k < low[b])
      BY <1>s, <2>a, <2>c
    <3>5. Effect(c)' /\ Carries(low, c)'
      BY <1>0, <2>0, <2>2, <3>2 DEF Effect, Carries, Upward
    <3>6. Guided(low, c)'
      BY <1>0, <1>k, <2>0, <2>a, <2>d, <3>2, <3>3, <3>4 DEF Guided, LeafLevel
    <3> QED BY <2>0, <3>2, <3>3, <3>5, <3>6, ReadStep
  <2> QED BY <1>5, <2>1, <2>2 DEF LeafSearchOn
<1> QED BY <1>1, <1>2, <1>3, <1>4, <1>5

\* The remaining steps that write no node: starting, locking, finishing, and a

\* separator that is at the wrong parent.
LEMMA OtherReadKeeps ==
  ASSUME TreeInv, TypeOK', NEW low, RangeInv(low), NEW c \in Clients,
         \/ Start(c) \/ LockNode(c) \/ Finish(c)
         \/ InternalInsertStale(c) \/ InternalInsertRight(c)
  PROVE  Preserved(low, low)
<1> DEFINE b == SibOf(mem[cl[c].p])
<1>0. /\ Guided(low, c) /\ Carries(low, c) /\ Effect(c) /\ TypeOK
      /\ cl[c] \in Locals /\ cl[c].k \in Keys /\ cl[c].level \in Nat
      /\ InCritical(c) => cl[c].p \in Addrs /\ cl[c].p # Null
  BY Here DEF Locals
<1>k. Reads(c) => /\ \A a, l : OfLevel(a, l) => OfLevel(a, l)'
                  /\ \A a : Settled(a) => Settled(a)'
                  /\ \A a, x, l : Stands(low, a, x, l) => Stands(low, a, x, l)'
  BY <1>0, ReadsKeep, Kept
<1>n. IdleLocals.path = NullPath /\ \A j \in 1..MaxHeight : OfLevel(NullPath[j], j - 1)'
  BY DEF IdleLocals, NullPath, OfLevel
<1>1. CASE Start(c)
  <2> DEFINE o == Head(todo[c])
  <2>0. /\ cl[c].pc = "idle"
        /\ mem' = mem /\ top' = top /\ root' = root /\ cache' = cache
    BY <1>1 DEF Start
  <2>1. /\ cl'[c] = [IdleLocals EXCEPT !.pc = "lookup",
                                       !.op = o.op, !.k = o.k, !.v = o.v]
        /\ \A d \in Clients \ {c} : cl'[d] = cl[d]
    BY <1>0, <1>1, BecomeIs DEF Start
  <2>2. /\ cl'[c].pc = "lookup" /\ cl'[c].lin = FALSE
        /\ cl'[c].ret = kValueNull /\ cl'[c].path = NullPath
    BY <2>1 DEF IdleLocals
  <2>3. Reads(c)
    BY <2>0, <2>1, <2>2 DEF Reads
  <2>4. Effect(c)' /\ Carries(low, c)'
    BY <2>2 DEF Effect, Carries, Upward
  <2>5. Guided(low, c)'
    BY <1>n, <2>2 DEF Guided, LeafLevel
  <2> QED BY <2>0, <2>2, <2>3, <2>4, <2>5, ReadStep
<1>2. CASE Finish(c)
  <2>0. /\ cl[c].pc = "done"
        /\ mem' = mem /\ top' = top /\ root' = root /\ cache' = cache
    BY <1>2 DEF Finish
  <2>1. cl'[c] = IdleLocals /\ \A d \in Clients \ {c} : cl'[d] = cl[d]
    BY <1>0, <1>2, BecomeIs DEF Finish
  <2>2. /\ cl'[c].pc = "idle" /\ cl'[c].ret = kValueNull
        /\ cl'[c].path = NullPath
    BY <2>1 DEF IdleLocals
  <2>3. Reads(c)
    BY <2>0, <2>1, <2>2 DEF Reads
  <2>4. Effect(c)' /\ Carries(low, c)'
    BY <2>1, <2>2 DEF Effect, Carries, Upward
  <2>5. Guided(low, c)'
    BY <1>n, <2>2 DEF Guided, LeafLevel
  <2> QED BY <2>0, <2>2, <2>3, <2>4, <2>5, ReadStep
<1>3. CASE LockNode(c)
  <2>0. mem' = mem /\ top' = top /\ root' = root /\ cache' = cache
    BY <1>3 DEF LockNode
  <2>1. PICK x \in {"leaf_insert", "leaf_update", "internal_insert"} :
          /\ Become(c, [cl[c] EXCEPT !.pc = x])
          /\ \/ /\ cl[c].pc = "next" /\ cl[c].level = 1 /\ cl[c].op # "search"
                /\ x = IF cl[c].op = "insert" THEN "leaf_insert" ELSE "leaf_update"
             \/ cl[c].pc = "lock_internal" /\ x = "internal_insert"
    BY <1>3 DEF LockNode
  <2>2. /\ cl'[c] = [cl[c] EXCEPT !.pc = x]
        /\ \A d \in Clients \ {c} : cl'[d] = cl[d]
    BY <1>0, <2>1, BecomeIs
  <2>3. /\ cl'[c].pc = x /\ cl'[c].lin = cl[c].lin
        /\ cl'[c].ret = cl[c].ret /\ cl'[c].path = cl[c].path
        /\ cl'[c].p = cl[c].p /\ cl'[c].sibp = cl[c].sibp
        /\ cl'[c].level = cl[c].level /\ cl'[c].op = cl[c].op /\ cl'[c].k = cl[c].k
        /\ cl'[c].sk = cl[c].sk /\ cl'[c].sp = cl[c].sp /\ cl'[c].tl = cl[c].tl
        /\ cl[c].op \in {"insert", "update", "search"}
    BY <1>0, <2>2 DEF Locals
  <2>4. Reads(c)
    BY <2>0, <2>1, <2>2, <2>3 DEF Reads
  <2>5. Effect(c)'
    BY <1>0, <2>1, <2>3 DEF Effect, Upward
  <2>6. Carries(low, c)'
    BY <1>0, <1>k, <2>1, <2>3, <2>4 DEF Carries, Upward
  <2>7. Guided(low, c)'
    BY <1>0, <1>k, <2>0, <2>1, <2>3, <2>4 DEF Guided, LeafLevel
  <2> QED BY <2>0, <2>1, <2>3, <2>4, <2>5, <2>6, <2>7, ReadStep
<1>4. CASE InternalInsertStale(c)
  <2>0. /\ cl[c].pc = "internal_insert"
        /\ mem' = mem /\ top' = top /\ root' = root /\ Invalidate(c)
    BY <1>4 DEF InternalInsertStale
  <2>1. /\ cl'[c] = [cl[c] EXCEPT !.pc = "ii_root"]
        /\ \A d \in Clients \ {c} : cl'[d] = cl[d]
    BY <1>0, <1>4, BecomeIs DEF InternalInsertStale
  <2>2. /\ cl'[c].pc = "ii_root" /\ cl'[c].lin = cl[c].lin
        /\ cl'[c].ret = cl[c].ret /\ cl'[c].path = cl[c].path
        /\ cl'[c].op = cl[c].op
        /\ cl'[c].sk = cl[c].sk /\ cl'[c].sp = cl[c].sp /\ cl'[c].tl = cl[c].tl
    BY <1>0, <2>1 DEF Locals
  <2>3. Reads(c)
    BY <2>0, <2>1, <2>2 DEF Reads
  <2>4. Effect(c)'
    BY <1>0, <2>0, <2>2 DEF Effect, Upward
  <2>5. Carries(low, c)'
    BY <1>0, <1>k, <2>0, <2>2, <2>3 DEF Carries, Upward
  <2>6. Guided(low, c)'
    BY <1>0, <1>k, <2>2, <2>3 DEF Guided, LeafLevel
  <2> QED BY <2>0, <2>2, <2>3, <2>4, <2>5, <2>6, ReadStep
<1>5. CASE InternalInsertRight(c)
  <2>0. /\ cl[c].pc = "internal_insert"
        /\ mem' = mem /\ top' = top /\ root' = root /\ cache' = cache
    BY <1>5 DEF InternalInsertRight
  <2>1. /\ cl'[c] = [cl[c] EXCEPT !.pc = "lock_internal", !.p = b]
        /\ \A d \in Clients \ {c} : cl'[d] = cl[d]
    BY <1>0, <1>5, BecomeIs DEF InternalInsertRight
  <2>2. /\ cl'[c].pc = "lock_internal" /\ cl'[c].lin = cl[c].lin
        /\ cl'[c].ret = cl[c].ret /\ cl'[c].path = cl[c].path
        /\ cl'[c].op = cl[c].op /\ cl'[c].p = b
        /\ cl'[c].sk = cl[c].sk /\ cl'[c].sp = cl[c].sp /\ cl'[c].tl = cl[c].tl
    BY <1>0, <2>1 DEF Locals
  <2>3. Reads(c)
    BY <2>0, <2>1, <2>2 DEF Reads
  <2>4. Effect(c)'
    BY <1>0, <2>0, <2>2 DEF Effect, Upward
  <2>a. OfLevel(b, cl[c].tl)
    <3>1. OfLevel(cl[c].p, cl[c].tl) /\ cl[c].p # Null /\ cl[c].tl > 0
      BY <1>0, <2>0 DEF Carries, Upward, InCritical, Critical
    <3> QED BY <3>1 DEF OfLevel, RangeInv, Routing
  <2>5. Carries(low, c)'
    BY <1>0, <1>k, <2>0, <2>a, <2>2, <2>3 DEF Carries, Upward
  <2>6. Guided(low, c)'
    BY <1>0, <1>k, <2>2, <2>3 DEF Guided, LeafLevel
  <2> QED BY <2>0, <2>2, <2>3, <2>4, <2>5, <2>6, ReadStep
<1> QED BY <1>1, <1>2, <1>3, <1>4, <1>5

-----------------------------------------------------------------------------
(* Steps that write a node *)

\* The write of a node replaces that node in memory and no other.
LEMMA WriteIs ==
  ASSUME TypeOK, NEW a \in Addrs, NEW n, WriteNode(a, n)
  PROVE  mem'[a] = n /\ \A b \in Addrs : b # a => mem'[b] = mem[b]
BY DEF TypeOK, WriteNode

\* No sibling is shared as long as nobody writes another one.
LEMMA NoNewSplit ==
  ASSUME OwnSibling, NEW c \in Clients, cl'[c].pc # "leaf_split",
         \A d \in Clients \ {c} : cl'[d] = cl[d]
  PROVE  OwnSibling'
<1> SUFFICES ASSUME NEW d \in Clients, NEW e \in Clients,
                    cl'[d].pc = "leaf_split", cl'[e].pc = "leaf_split",
                    cl'[d].nsp = cl'[e].nsp
             PROVE  d = e
  BY DEF OwnSibling
<1>1. cl'[d] = cl[d] /\ cl'[e] = cl[e]
  OBVIOUS
<1> QED BY <1>1 DEF OwnSibling

\* The nodes another client is splitting are not the one c holds, nor new.
LEMMA Apart ==
  ASSUME TreeInv, NEW low, RangeInv(low), NEW c \in Clients, NEW d \in Clients,
         c # d, cl[d].pc \in {"leaf_split", "internal_split"}
  PROVE  /\ cl[d].p \in Addrs /\ cl[d].p \in 1..top
         /\ InCritical(c) => cl[d].p # cl[c].p
         /\ cl[d].pc = "leaf_split" =>
              /\ cl[d].nsp \in Addrs /\ cl[d].nsp \in 1..top
              /\ mem[cl[d].nsp].level = 0 /\ ~Settled(cl[d].nsp)
<1>1. /\ Guided(low, d) /\ Carries(low, d) /\ Halves(low, d) /\ TypeOK
      /\ InCritical(d) /\ cl[d].p \in Addrs /\ cl[d].p # Null
  BY Here DEF InCritical, Critical
<1>2. cl[d].p \in 1..top
  BY <1>1 DEF Guided, LeafLevel, Settled, Carries, OfLevel
<1>3. InCritical(c) => cl[d].p # cl[c].p
  BY <1>1 DEF TreeInv, LockMutex
<1>4. ASSUME cl[d].pc = "leaf_split"
      PROVE  /\ cl[d].nsp \in Addrs /\ cl[d].nsp \in 1..top
             /\ mem[cl[d].nsp].level = 0 /\ ~Settled(cl[d].nsp)
  <2>1. cl[d].nsp \in 1..top /\ cl[d].nsp \in Addrs
    BY <1>1, <1>4, Allocated DEF Halves
  <2>2. mem[cl[d].nsp] = RightLeaf(Overfull(d), cl[d].nsk)
    BY <1>1, <1>4 DEF Halves
  <2>3. mem[cl[d].nsp].level = 0
    BY <2>2 DEF RightLeaf, ZeroNode
  <2> QED BY <1>4, <2>1, <2>3 DEF Settled, Fresh
<1> QED BY <1>1, <1>2, <1>3, <1>4

\* The leaf leaf_node_insert settles on is the one whose range holds the key.
LEMMA KeyFits ==
  ASSUME TreeInv, NEW low, RangeInv(low), NEW c \in Clients, InsertHere(c)
  PROVE  /\ Settled(cl[c].p) /\ low[cl[c].p] <= cl[c].k
         /\ cl[c].k < End(low, cl[c].p)
<1> DEFINE a == cl[c].p
<1>0. /\ Guided(low, c) /\ Effect(c) /\ TypeOK /\ cl[c].k \in Keys
      /\ cl[c].pc = "leaf_insert" /\ a # Null
  BY Here DEF InsertHere, InCritical, Critical
<1>1. Settled(a) /\ low[a] <= cl[c].k
  BY <1>0 DEF Guided, Effect, LeafLevel
<1>2. CASE ~SiblingDiffers(c)
  BY <1>0, <1>1, <1>2, KeyBeforeSibling DEF LeafLevel
<1>3. CASE LeafIsRoot(mem[a])
  <2>1. End(low, a) = KeyMax + 1
    BY <1>3 DEF LeafIsRoot, SibOf, End
  <2> QED BY <1>0, <1>1, <2>1, TreeConstants DEF Keys
<1>4. CASE \E j \in Present(mem[a].kv) : ~(j < cl[c].k)
  <2>1. /\ End(low, a) \in Nat /\ Present(mem[a].kv) \subseteq Keys
        /\ \A j \in Present(mem[a].kv) : j < End(low, a)
    BY <1>0, <1>1, LeafFacts
  <2> QED BY <1>0, <1>1, <1>4, <2>1 DEF Keys
<1> QED BY <1>2, <1>3, <1>4 DEF InsertHere, BeyondLeaf

\* No two linked leaves hold records of the same key.
LEMMA OneHolder ==
  ASSUME TypeOK, NEW low, RangeInv(low), NEW a, NEW b, NEW k,
         Settled(a), Settled(b), low[a] <= k, k < End(low, a),
         k \in Present(mem[b].kv)
  PROVE  a = b
<1>1. /\ a \in Addrs /\ low[a] \in Nat /\ End(low, a) \in Nat
      /\ b \in Addrs /\ low[b] \in Nat /\ End(low, b) \in Nat
      /\ low[b] <= k /\ k < End(low, b) /\ k \in Nat
  BY LeafFacts DEF Keys
<1> SUFFICES ASSUME a # b PROVE FALSE
  OBVIOUS
<1>2. End(low, a) <= low[b] \/ End(low, b) <= low[a]
  BY <1>1 DEF RangeInv, Tiling
<1> QED BY <1>1, <1>2

\* Overwriting or adding a record of the leaf that owns the key.
LEMMA RecordStored ==
  ASSUME TypeOK, NEW low, RangeInv(low), NEW c \in Clients, NEW a, Settled(a),
         cl[c].k \in Keys, cl[c].v \in Vals \cup {kValueNull},
         low[a] <= cl[c].k, cl[c].k < End(low, a),
         \A b : Settled(b)' <=> Settled(b),
         \A b : Settled(b) /\ b # a => mem'[b] = mem[b],
         mem'[a] = WithRecord(mem[a], cl[c].k, cl[c].v)
  PROVE  PutStore(c)
<1>a. PICK k, v : k = cl[c].k /\ v = cl[c].v
  OBVIOUS
<1>0. a \in Addrs /\ mem[a] \in Node /\ k \in Keys /\ v # Absent
  BY <1>a, Allocated, TreeConstants DEF Settled
<1>1. /\ mem'[a].kv[k] = v /\ k \in Present(mem'[a].kv)
      /\ \A j \in Keys : j # k => mem'[a].kv[j] = mem[a].kv[j]
  BY <1>0, <1>a DEF WithRecord, Node, Present
<1>2. ASSUME NEW j \in Keys, NEW x, j # k PROVE Holds(j, x)' <=> Holds(j, x)
  <2>1. \A b : Settled(b) => (j \in Present(mem'[b].kv) <=> j \in Present(mem[b].kv))
    BY <1>1, <1>2 DEF Present
  <2>2. \A b : Settled(b) => mem'[b].kv[j] = mem[b].kv[j]
    BY <1>1, <1>2
  <2> QED BY <2>1, <2>2 DEF Holds
<1>3. ASSUME NEW x PROVE Holds(k, x)' <=> x = v
  <2>1. ASSUME NEW b, Settled(b)', k \in Present(mem'[b].kv) PROVE b = a
    <3> SUFFICES ASSUME b # a PROVE FALSE
      OBVIOUS
    <3>1. Settled(b) /\ k \in Present(mem[b].kv)
      BY <2>1
    <3> QED BY <1>a, <3>1, OneHolder
  <2> QED BY <1>0, <1>1, <2>1 DEF Holds
<1> QED BY <1>a, <1>2, <1>3 DEF PutStore

\* Writing a record into the leaf whose range it is in.
LEMMA LeafWriteKeeps ==
  ASSUME TreeInv, TypeOK', NEW low, RangeInv(low), NEW c \in Clients,
         LeafInsertWrite(c) \/ LeafUpdateWrite(c)
  PROVE  Preserved(low, low) /\ PutStore(c)
<1> DEFINE a == cl[c].p
           n == WithRecord(mem[a], cl[c].k, cl[c].v)
<1>0. /\ Guided(low, c) /\ Effect(c) /\ TypeOK /\ cl[c].k \in Keys
      /\ cl[c].pc \in {"leaf_insert", "leaf_update"} /\ InCritical(c)
      /\ a \in Addrs /\ a # Null /\ cl[c] \in Locals /\ mem[a] \in Node
      /\ WriteNode(a, n) /\ root' = root /\ top' = top /\ cache' = cache
  BY Here, Parts DEF LeafInsertWrite, LeafUpdateWrite, InsertHere, InCritical, Critical
<1>1. Settled(a) /\ low[a] <= cl[c].k /\ cl[c].k < End(low, a)
  <2>1. CASE LeafInsertWrite(c)
    BY <2>1, KeyFits DEF LeafInsertWrite
  <2>2. CASE LeafUpdateWrite(c)
    BY <1>0, <2>2, LeafFacts DEF LeafUpdateWrite, Guided, LeafLevel
  <2> QED BY <2>1, <2>2
<1>2. mem'[a] = n /\ \A b \in Addrs : b # a => mem'[b] = mem[b]
  BY <1>0, WriteIs
<1>3. cl[c].v # Absent
  BY <1>0, TreeConstants DEF Locals
<1>4. /\ n.level = mem[a].level /\ n.lo = mem[a].lo /\ n.sib = mem[a].sib
      /\ Present(n.kv) = Present(mem[a].kv) \cup {cl[c].k}
  BY <1>0, <1>3 DEF WithRecord, Node, Present
<1>5. /\ cl'[c] = [cl[c] EXCEPT !.pc = "done", !.lin = TRUE]
      /\ \A d \in Clients \ {c} : cl'[d] = cl[d]
  BY <1>0, BecomeIs DEF LeafInsertWrite, LeafUpdateWrite
<1>6. cl'[c].pc = "done" /\ cl'[c].lin = TRUE /\ cl'[c].path = cl[c].path
  BY <1>0, <1>5 DEF Locals
<1>7. mem[a].level = 0 /\ a \in 1..top /\ \A b \in 1..top : b \in Addrs
  BY <1>0, <1>1, Allocated DEF Settled
<1> HIDE DEF n
<1>8. \A b \in 1..top : /\ mem'[b].level = mem[b].level /\ mem'[b].lo = mem[b].lo
                        /\ mem'[b].sib = mem[b].sib
                        /\ mem[b].level # 0 => mem'[b] = mem[b]
  BY <1>2, <1>4, <1>7
<1>9. \A b : Fresh(b)' <=> Fresh(b)
  BY <1>0, <1>5, <1>6 DEF Fresh
<1>10. \A b : Settled(b)' <=> Settled(b)
  BY <1>0, <1>8, <1>9 DEF Settled
<1>11. Grows(low, low)
  BY <1>0, <1>8, <1>10, Allocated DEF Grows
<1>12. \A b \in 1..top : /\ SibOf(mem[b])' = SibOf(mem[b])
                         /\ End(low, b)' = End(low, b)
  BY <1>8 DEF SibOf, End
<1>13. ASSUME NEW b \in 1..top, LeafRange(low, b) PROVE LeafRange(low, b)'
  <2>1. CASE b = a
    BY <1>1, <1>2, <1>4, <1>8, <1>10, <1>12, <1>13, <2>1 DEF LeafRange
  <2>2. CASE b # a
    BY <1>2, <1>7, <1>8, <1>10, <1>12, <1>13, <2>2 DEF LeafRange
  <2> QED BY <2>1, <2>2
<1>14. Tiling(low)'
  <2>1. Tiling(low)
    BY DEF RangeInv
  <2>2. \A b : Settled(b) => b \in 1..top
    BY DEF Settled
  <2> QED BY <1>0, <1>8, <1>10, <1>12, <1>13, <2>1, <2>2 DEF Tiling
<1>15. Routing(low)'
  <2>1. Routing(low)
    BY DEF RangeInv
  <2>2. \A b \in 1..top : mem'[b].level > 0 => mem'[b] = mem[b] /\ mem[b].level > 0
    BY <1>8
  <2> QED BY <1>0, <1>11, <2>1, <2>2, Kept DEF Routing
<1>16. OwnSibling'
  BY <1>5, <1>6, NoNewSplit DEF RangeInv
<1>17. Effect(c)' /\ Carries(low, c)' /\ Halves(low, c)'
  BY <1>6 DEF Effect, Carries, Halves, Upward
<1>18. Guided(low, c)'
  BY <1>0, <1>6, <1>11, Kept DEF Guided, LeafLevel
<1>19. ASSUME NEW d \in Clients \ {c}
       PROVE  /\ cl[d].pc \in {"leaf_split", "internal_split"} =>
                   mem'[cl[d].p] = mem[cl[d].p]
              /\ cl[d].pc = "leaf_split" => mem'[cl[d].nsp] = mem[cl[d].nsp]
  BY <1>0, <1>1, <1>2, Apart
<1>20. low \in [Addrs -> Keys]
  BY DEF RangeInv
<1>21. Placed(low, c)'
  BY <1>17, <1>18 DEF Placed
<1>22. Preserved(low, low)
  BY <1>0, <1>5, <1>11, <1>14, <1>15, <1>16, <1>17, <1>19, <1>20, <1>21, StepKept
<1>23. PutStore(c)
  <2>1. \A b : Settled(b) /\ b # a => mem'[b] = mem[b]
    BY <1>2, <1>7 DEF Settled
  <2>2. cl[c].v \in Vals \cup {kValueNull}
    BY <1>0, Parts
  <2>3. mem'[a] = WithRecord(mem[a], cl[c].k, cl[c].v)
    BY <1>2 DEF n
  <2> HIDE DEF a
  <2> QED BY <1>0, <1>1, <1>10, <2>1, <2>2, <2>3, RecordStored
<1> QED BY <1>22, <1>23

\* Allocating a node and writing it changes no other.
LEMMA AddsNode ==
  ASSUME TypeOK, NEW n, top < MaxAddr, top' = top + 1, WriteNode(top + 1, n)
  PROVE  /\ top + 1 \in Addrs /\ mem'[top + 1] = n /\ top + 1 \in 1..top'
         /\ \A b \in 1..top : b # top + 1 /\ b \in 1..top' /\ mem'[b] = mem[b]
         /\ \A b \in 1..top' : b \in 1..top \/ b = top + 1
         /\ top + 1 \notin 1..top /\ top + 1 # Null
<1>1. top \in Nat /\ MaxAddr \in Nat /\ \A b \in 1..top : b \in Addrs
  BY Allocated
<1>2. top + 1 \in Addrs
  BY <1>1 DEF Addrs
<1>3. mem'[top + 1] = n /\ \A b \in Addrs : b # top + 1 => mem'[b] = mem[b]
  BY <1>2, WriteIs
<1>4. /\ \A b \in 1..top : b # top + 1 /\ b \in 1..top'
      /\ \A b \in 1..top' : b \in 1..top \/ b = top + 1
      /\ top + 1 \notin 1..top /\ top + 1 \in 1..top' /\ top + 1 # Null
  BY <1>1 DEF Null
<1> QED BY <1>1, <1>2, <1>3, <1>4

\* The locked leaf with the new record.
LEMMA FullLeaf ==
  ASSUME NEW n \in Node, NEW k \in Keys, NEW v \in Vals \cup {kValueNull}
  PROVE  /\ Present(WithRecord(n, k, v).kv) = Present(n.kv) \cup {k}
         /\ WithRecord(n, k, v) \in Node
         /\ WithRecord(n, k, v).sib = n.sib /\ WithRecord(n, k, v).level = n.level
         /\ WithRecord(n, k, v).lo = n.lo /\ SibOf(WithRecord(n, k, v)) = SibOf(n)
<1>1. v # Absent
  BY TreeConstants
<1>2. Present(WithRecord(n, k, v).kv) = Present(n.kv) \cup {k}
  BY <1>1 DEF WithRecord, Node, Present
<1>3. /\ WithRecord(n, k, v) \in Node
      /\ WithRecord(n, k, v).sib = n.sib /\ WithRecord(n, k, v).level = n.level
      /\ WithRecord(n, k, v).lo = n.lo
  BY <1>1 DEF WithRecord, Node
<1> QED BY <1>2, <1>3 DEF SibOf

\* The half that goes to the sibling.
LEMMA RightHalf ==
  ASSUME NEW n \in Node, NEW s \in Keys
  PROVE  /\ Present(RightLeaf(n, s).kv) = {j \in Present(n.kv) : j >= s}
         /\ RightLeaf(n, s).level = 0 /\ SibOf(RightLeaf(n, s)) = SibOf(n)
         /\ RightLeaf(n, s).sib # Widest
<1>1. SibOf(n) \in AddrOrNull /\ SibOf(n) # Widest
  BY NodeFields, TreeConstants DEF AddrOrNull, Widest
<1>2. /\ RightLeaf(n, s).kv = [j \in Keys |-> IF j >= s THEN n.kv[j] ELSE Absent]
      /\ RightLeaf(n, s).level = 0 /\ RightLeaf(n, s).sib = SibOf(n)
  BY DEF RightLeaf, ZeroNode
<1>3. Present(RightLeaf(n, s).kv) = {j \in Present(n.kv) : j >= s}
  BY <1>2 DEF Present
<1> QED BY <1>1, <1>2, <1>3 DEF SibOf

\* The half that stays.
LEMMA LeftHalf ==
  ASSUME NEW n \in Node, NEW s \in Keys, NEW a
  PROVE  /\ Present(LeftLeaf(n, s, a).kv) = {j \in Present(n.kv) : j < s}
         /\ LeftLeaf(n, s, a).level = n.level /\ LeftLeaf(n, s, a).lo = n.lo
         /\ LeftLeaf(n, s, a).sib = a
<1>1. /\ LeftLeaf(n, s, a).kv = [j \in Keys |-> IF j < s THEN n.kv[j] ELSE Absent]
      /\ LeftLeaf(n, s, a).level = n.level /\ LeftLeaf(n, s, a).lo = n.lo
      /\ LeftLeaf(n, s, a).sib = a
  BY DEF LeftLeaf, Node
<1>2. Present(LeftLeaf(n, s, a).kv) = {j \in Present(n.kv) : j < s}
  BY <1>1 DEF Present
<1> QED BY <1>1, <1>2

\* Linking the right half of the leaf that owns the key.
LEMMA HalvesStored ==
  ASSUME TypeOK, NEW low, RangeInv(low), NEW c \in Clients, NEW a, NEW z, NEW s,
         NEW full, Settled(a), ~Settled(z), z \in Addrs, s \in Keys,
         cl[c].k \in Keys, cl[c].v \in Vals \cup {kValueNull},
         low[a] <= cl[c].k, cl[c].k < End(low, a),
         \A b : Settled(b)' <=> Settled(b) \/ b = z,
         \A b : Settled(b) /\ b # a => mem'[b] = mem[b],
         full = WithRecord(mem[a], cl[c].k, cl[c].v),
         mem'[a] = LeftLeaf(full, s, z), mem'[z] = RightLeaf(full, s)
  PROVE  PutStore(c)
<1>a. PICK k, v : k = cl[c].k /\ v = cl[c].v
  OBVIOUS
<1>0. /\ a \in Addrs /\ mem[a] \in Node /\ k \in Keys /\ v # Absent /\ a # z
      /\ full \in Node
  BY <1>a, Allocated, TreeConstants, FullLeaf DEF Settled
<1>1. /\ full.kv[k] = v /\ k \in Present(full.kv)
      /\ \A j \in Keys : j # k => full.kv[j] = mem[a].kv[j]
  BY <1>0, <1>a DEF WithRecord, Node, Present
<1>2. /\ mem'[a].kv = [j \in Keys |-> IF j < s THEN full.kv[j] ELSE Absent]
      /\ mem'[z].kv = [j \in Keys |-> IF j >= s THEN full.kv[j] ELSE Absent]
  BY <1>0 DEF LeftLeaf, RightLeaf, ZeroNode, Node
<1>3. ASSUME NEW j \in Keys
      PROVE  /\ j < s => /\ j \notin Present(mem'[z].kv)
                         /\ j \in Present(mem'[a].kv) <=> j \in Present(full.kv)
                         /\ mem'[a].kv[j] = full.kv[j]
             /\ ~(j < s) => /\ j \notin Present(mem'[a].kv)
                            /\ j \in Present(mem'[z].kv) <=> j \in Present(full.kv)
                            /\ mem'[z].kv[j] = full.kv[j]
  BY <1>2 DEF Present, Keys
<1>4. ASSUME NEW j \in Keys, NEW x
      PROVE  Holds(j, x)' <=> \/ j \in Present(full.kv) /\ full.kv[j] = x
                              \/ \E b \in Addrs : /\ b # a /\ Settled(b)
                                                  /\ j \in Present(mem[b].kv)
                                                  /\ mem[b].kv[j] = x
  <2>1. Holds(j, x)' <=> \/ j \in Present(mem'[a].kv) /\ mem'[a].kv[j] = x
                         \/ j \in Present(mem'[z].kv) /\ mem'[z].kv[j] = x
                         \/ \E b \in Addrs : /\ b # a /\ Settled(b)
                                             /\ j \in Present(mem[b].kv)
                                             /\ mem[b].kv[j] = x
    BY <1>0 DEF Holds
  <2> QED BY <1>3, <2>1
<1>5. ASSUME NEW j \in Keys, NEW x, j # k PROVE Holds(j, x)' <=> Holds(j, x)
  <2>1. /\ j \in Present(full.kv) <=> j \in Present(mem[a].kv)
        /\ full.kv[j] = mem[a].kv[j]
    BY <1>1, <1>5 DEF Present
  <2>2. Holds(j, x) <=> \/ j \in Present(mem[a].kv) /\ mem[a].kv[j] = x
                        \/ \E b \in Addrs : /\ b # a /\ Settled(b)
                                            /\ j \in Present(mem[b].kv)
                                            /\ mem[b].kv[j] = x
    BY <1>0 DEF Holds
  <2> QED BY <1>4, <2>1, <2>2
<1>6. ASSUME NEW x PROVE Holds(k, x)' <=> x = v
  <2>1. \A b : Settled(b) /\ k \in Present(mem[b].kv) => b = a
    BY <1>a, OneHolder
  <2> QED BY <1>0, <1>1, <1>4, <2>1
<1> QED BY <1>a, <1>5, <1>6 DEF PutStore

\* Writing the right half of a leaf: it begins at the separator and ends where

\* the leaf ends, and nobody sees it yet.
LEMMA LeafSplitSiblingKeeps ==
  ASSUME TreeInv, TypeOK', NEW low, RangeInv(low), NEW c \in Clients,
         LeafSplitSibling(c)
  PROVE  (\E new : Preserved(low, new)) /\ SameStore
<1>a. PICK a, z, full : a = cl[c].p /\ z = top + 1 /\ full = Overfull(c)
  OBVIOUS
<1>0. /\ Guided(low, c) /\ Effect(c) /\ TypeOK /\ cl[c].k \in Keys
      /\ cl[c].pc = "leaf_insert" /\ InCritical(c) /\ InsertHere(c)
      /\ a \in Addrs /\ a # Null /\ cl[c] \in Locals /\ mem[a] \in Node
      /\ cl[c].v \in Vals \cup {kValueNull}
      /\ top < MaxAddr /\ top' = top + 1 /\ root' = root /\ cache' = cache
      /\ cl[c].k \notin Present(mem[a].kv) /\ low \in [Addrs -> Keys]
      /\ full = WithRecord(mem[a], cl[c].k, cl[c].v)
  BY <1>a, Here, Parts DEF LeafSplitSibling, InsertHere, InCritical, Critical, RangeInv,
     Overfull
<1>1. Settled(a) /\ low[a] <= cl[c].k /\ cl[c].k < End(low, a)
  BY <1>0, <1>a, KeyFits
<1>2. /\ End(low, a) \in Nat /\ End(low, a) - 1 \in Present(mem[a].kv)
      /\ End(low, a) <= KeyMax + 1 /\ KeyMax \in Nat /\ low[a] \in Nat
      /\ Present(mem[a].kv) \subseteq Keys
      /\ \A j \in Present(mem[a].kv) : low[a] <= j /\ j < End(low, a)
      /\ LeafRange(low, a) /\ a \in 1..top
  BY <1>0, <1>1, LeafFacts, TreeConstants DEF RangeInv, Tiling, Settled, Keys
<1>3. PICK s \in Present(full.kv), m \in UserKeys :
        /\ LET left == {j \in Present(full.kv) : j < s}
           IN m \in left /\ \A j \in left : j <= m
        /\ WriteNode(z, RightLeaf(full, m + 1))
        /\ Become(c, [cl[c] EXCEPT !.pc = "leaf_split", !.nsk = m + 1, !.nsp = z])
  BY <1>a DEF LeafSplitSibling
<1>b. PICK r, new : r = RightLeaf(full, m + 1) /\ new = [low EXCEPT ![z] = m + 1]
  OBVIOUS
<1>4. m + 1 \in Keys /\ m \in Nat
  BY <1>2 DEF UserKeys, Keys
<1>5. /\ Present(full.kv) = Present(mem[a].kv) \cup {cl[c].k}
      /\ Present(r.kv) = {j \in Present(full.kv) : j >= m + 1}
      /\ r.level = 0 /\ SibOf(r) = SibOf(mem[a]) /\ r.sib # Widest
  <2>1. /\ Present(full.kv) = Present(mem[a].kv) \cup {cl[c].k}
        /\ full \in Node /\ SibOf(full) = SibOf(mem[a])
    <3>1. mem[a] \in Node /\ cl[c].k \in Keys /\ cl[c].v \in Vals \cup {kValueNull}
      BY <1>0
    <3>2. /\ Present(WithRecord(mem[a], cl[c].k, cl[c].v).kv)
               = Present(mem[a].kv) \cup {cl[c].k}
          /\ WithRecord(mem[a], cl[c].k, cl[c].v) \in Node
          /\ SibOf(WithRecord(mem[a], cl[c].k, cl[c].v)) = SibOf(mem[a])
      BY <3>1, FullLeaf
    <3> QED BY <1>0, <3>2
  <2> QED BY <1>b, <1>4, <2>1, RightHalf
<1>6. /\ z \in Addrs /\ mem'[z] = r /\ z \in 1..top' /\ z \notin 1..top /\ z # Null
      /\ \A b \in 1..top : b # z /\ b \in 1..top' /\ mem'[b] = mem[b]
      /\ \A b \in 1..top' : b \in 1..top \/ b = z
  BY <1>0, <1>a, <1>b, <1>3, AddsNode
<1>7. /\ cl'[c] = [cl[c] EXCEPT !.pc = "leaf_split", !.nsk = m + 1, !.nsp = z]
      /\ \A d \in Clients \ {c} : cl'[d] = cl[d]
  BY <1>0, <1>3, BecomeIs
<1>8. /\ cl'[c].pc = "leaf_split" /\ cl'[c].nsk = m + 1 /\ cl'[c].nsp = z
      /\ cl'[c].k = cl[c].k /\ cl'[c].v = cl[c].v /\ cl'[c].p = a
      /\ cl'[c].op = cl[c].op /\ cl'[c].lin = cl[c].lin
      /\ cl'[c].ret = cl[c].ret /\ cl'[c].path = cl[c].path
      /\ cl'[c].sibp = cl[c].sibp /\ cl'[c].level = cl[c].level
  BY <1>0, <1>a, <1>7 DEF Locals
<1>9. new \in [Addrs -> Keys] /\ new[z] = m + 1 /\ \A b \in 1..top : new[b] = low[b]
  BY <1>0, <1>b, <1>4, <1>6, Allocated
<1>10. m < End(low, a) - 1 /\ m \in Present(full.kv)
  <2>1. s \in Nat /\ s < End(low, a)
    BY <1>0, <1>1, <1>2, <1>5 DEF Keys
  <2>2. m < s /\ m \in Present(full.kv)
    BY <1>3
  <2> QED BY <1>2, <1>4, <2>1, <2>2
<1>11. \A b \in 1..top : Fresh(b)' <=> Fresh(b)
  <2>1. ASSUME NEW b \in 1..top, NEW e \in Clients
        PROVE  (cl'[e].pc = "leaf_split" /\ cl'[e].nsp = b)
                 <=> (cl[e].pc = "leaf_split" /\ cl[e].nsp = b)
    <3>1. CASE e = c
      BY <1>0, <1>6, <1>8, <3>1
    <3>2. CASE e # c
      BY <1>7, <3>2
    <3> QED BY <3>1, <3>2
  <2> QED BY <2>1 DEF Fresh
<1>12. \A b : Settled(b)' <=> Settled(b)
  <2>1. Fresh(z)'
    BY <1>8 DEF Fresh
  <2> QED BY <1>6, <1>11, <2>1 DEF Settled
<1>13. Grows(low, new)
  BY <1>0, <1>6, <1>9, <1>12, Allocated DEF Grows
<1>14. ASSUME NEW b \in 1..top, LeafRange(low, b)
       PROVE  /\ End(new, b)' = End(low, b) /\ LeafRange(new, b)'
              /\ SibOf(mem[b])' = SibOf(mem[b])
  <2>1. SibOf(mem[b]) # Null => SibOf(mem[b]) \in 1..top
    BY <1>14 DEF LeafRange, Settled
  <2>2. End(new, b)' = End(low, b)
    BY <1>6, <1>9, <2>1 DEF End
  <2> QED BY <1>6, <1>9, <1>12, <1>14, <2>2 DEF LeafRange
<1>15. End(new, z)' = End(low, a) /\ LeafRange(new, z)'
  <2>1. SibOf(mem[a]) # Null => SibOf(mem[a]) \in 1..top /\ Settled(SibOf(mem[a]))
    BY <1>2 DEF LeafRange, Settled
  <2>2. End(new, z)' = End(low, a)
    BY <1>5, <1>6, <1>9, <2>1 DEF End
  <2>3. End(low, a) - 1 \in Present(r.kv)
    BY <1>2, <1>4, <1>5, <1>10
  <2>4. \A j \in Present(r.kv) : m + 1 <= j /\ j < End(low, a)
    BY <1>1, <1>2, <1>4, <1>5, <1>0 DEF Keys
  <2> QED BY <1>5, <1>6, <1>9, <1>12, <2>1, <2>2, <2>3, <2>4 DEF LeafRange
<1>16. Tiling(new)'
  <2>1. Tiling(low)
    BY DEF RangeInv
  <2>2. ASSUME NEW b, Settled(b)
        PROVE  /\ b \in 1..top /\ new[b] = low[b] /\ End(new, b)' = End(low, b)
               /\ SibOf(mem[b])' = SibOf(mem[b])
    BY <1>9, <1>14, <2>1, <2>2 DEF Settled, Tiling
  <2>3. ASSUME NEW b \in 1..top', mem'[b].level = 0 PROVE LeafRange(new, b)'
    <3>1. CASE b = z
      BY <1>15, <3>1
    <3>2. CASE b \in 1..top
      BY <1>6, <1>14, <2>1, <2>3, <3>2 DEF Tiling
    <3> QED BY <1>6, <3>1, <3>2
  <2> QED BY <1>12, <2>1, <2>2, <2>3 DEF Tiling
<1>17. Routing(new)'
  <2>1. Routing(low)
    BY DEF RangeInv
  <2>2. ASSUME NEW b \in 1..top', mem'[b].level > 0
        PROVE  b \in 1..top /\ mem'[b] = mem[b]
    BY <1>5, <1>6, <2>2
  <2> QED BY <1>0, <1>13, <2>1, <2>2, Kept DEF Routing
<1>18. OwnSibling'
  <2> SUFFICES ASSUME NEW d \in Clients, NEW e \in Clients,
                      cl'[d].pc = "leaf_split", cl'[e].pc = "leaf_split",
                      cl'[d].nsp = cl'[e].nsp
               PROVE  d = e
    BY DEF OwnSibling
  <2>1. ASSUME NEW f \in Clients \ {c}, cl'[f].pc = "leaf_split"
        PROVE  cl'[f] = cl[f] /\ cl[f].nsp # z
    BY <1>6, <1>7, <2>1, Apart
  <2> QED BY <1>8, <2>1 DEF RangeInv, OwnSibling
<1>19. Effect(c)' /\ Carries(new, c)'
  BY <1>0, <1>8 DEF Effect, Carries, Upward
<1>20. Guided(new, c)'
  <2>1. /\ cl[c].level = 1 /\ cl[c].op = "insert"
        /\ cl[c].sibp # Null => cl[c].sibp \in 1..top /\ cl[c].k < low[cl[c].sibp]
    BY <1>0 DEF Guided, LeafLevel, Effect
  <2>2. \A b, l : OfLevel(b, l) => OfLevel(b, l)'
    BY <1>0, <1>13, Kept
  <2>3. \A b \in 1..top : b \in 1..top'
    BY <1>6
  <2> QED BY <1>0, <1>1, <1>2, <1>8, <1>9, <1>12, <2>1, <2>2, <2>3
          DEF Guided, LeafLevel
<1>21. Halves(new, c)'
  <2>1. Overfull(c)' = full
    BY <1>0, <1>2, <1>6, <1>8 DEF Overfull
  <2>2. End(new, a)' = End(low, a)
    BY <1>2, <1>14
  <2>3. End(new, cl[c].p)' = End(low, a)
    BY <1>8, <2>2
  <2> QED BY <1>0, <1>b, <1>1, <1>2, <1>4, <1>6, <1>8, <1>9, <1>10, <2>1, <2>3
          DEF Halves
<1>22. ASSUME NEW d \in Clients \ {c}
       PROVE  /\ cl[d].pc \in {"leaf_split", "internal_split"} =>
                   mem'[cl[d].p] = mem[cl[d].p]
              /\ cl[d].pc = "leaf_split" => mem'[cl[d].nsp] = mem[cl[d].nsp]
  BY <1>6, Apart
<1>23. Placed(new, c)'
  BY <1>19, <1>20, <1>21 DEF Placed
<1>24. Preserved(low, new)
  BY <1>0, <1>7, <1>9, <1>13, <1>16, <1>17, <1>18, <1>19, <1>22, <1>23, StepKept
<1>25. SameStore
  <2>1. \A b : Settled(b) => mem'[b] = mem[b]
    BY <1>6 DEF Settled
  <2> QED BY <1>12, <2>1 DEF SameStore, Holds
<1> QED BY <1>24, <1>25

\* Where a client goes after a split: up one level, to a node of that level if

\* it knows one.
LEMMA ToParentFields ==
  ASSUME TreeInv, NEW low, RangeInv(low), NEW c \in Clients, NEW l \in Nat,
         ToParent(c, l) \/ ToNewRoot(c, l)
  PROVE  /\ cl'[c].pc \in {"newroot", "ii_root", "lock_internal"}
         /\ cl'[c].pc = "newroot" => cl'[c].p = cl[c].p
         /\ ToParent(c, l) => cl'[c].pc # "newroot"
         /\ cl'[c].pc = "lock_internal" => OfLevel(cl'[c].p, l)
         /\ cl'[c].sk = cl[c].nsk /\ cl'[c].sp = cl[c].nsp /\ cl'[c].tl = l
         /\ cl'[c].lin = TRUE /\ cl'[c].op = cl[c].op /\ cl'[c].ret = cl[c].ret
         /\ cl'[c].path = cl[c].path /\ cl'[c].k = cl[c].k /\ cl'[c].v = cl[c].v
         /\ \A d \in Clients \ {c} : cl'[d] = cl[d]
<1>0. /\ TypeOK /\ cl[c] \in Locals /\ Guided(low, c) /\ cl[c].nsk \in Keys
      /\ cl[c].path \in [1..MaxHeight -> AddrOrNull]
  BY Here, Parts
<1> DEFINE up == [cl[c] EXCEPT !.sk = cl[c].nsk, !.sp = cl[c].nsp, !.tl = l]
           onPath == IF l + 1 \in 1..MaxHeight THEN cl[c].path[l + 1] ELSE Null
<1>1. /\ up \in Locals /\ up.sk = cl[c].nsk /\ up.sp = cl[c].nsp /\ up.tl = l
      /\ up.op = cl[c].op /\ up.ret = cl[c].ret /\ up.path = cl[c].path
      /\ up.p = cl[c].p /\ up.k = cl[c].k /\ up.v = cl[c].v
  <2>1. up \in Locals
    BY ZenonT(60), <1>0, Parts DEF Locals
  <2> QED BY <1>0, <2>1 DEF Locals
<1>2. OfLevel(onPath, l)
  <2>1. CASE l + 1 \in 1..MaxHeight
    BY <1>0, <2>1 DEF Guided
  <2>2. CASE l + 1 \notin 1..MaxHeight
    BY <2>2 DEF OfLevel
  <2> QED BY <2>1, <2>2
<1> DEFINE Above == /\ cl'[c].sk = cl[c].nsk /\ cl'[c].sp = cl[c].nsp /\ cl'[c].tl = l
                    /\ cl'[c].lin = TRUE /\ cl'[c].op = cl[c].op
                    /\ cl'[c].ret = cl[c].ret /\ cl'[c].path = cl[c].path
                    /\ cl'[c].k = cl[c].k /\ cl'[c].v = cl[c].v
                    /\ \A d \in Clients \ {c} : cl'[d] = cl[d]
                    /\ cl'[c].pc = "lock_internal" => OfLevel(cl'[c].p, l)
<1>3. ASSUME ToNewRoot(c, l)
      PROVE  cl'[c].pc = "newroot" /\ cl'[c].p = cl[c].p /\ Above
  <2>1. /\ cl'[c] = [cl[c] EXCEPT !.pc = "newroot", !.sk = cl[c].nsk,
                                  !.sp = cl[c].nsp, !.tl = l, !.lin = TRUE]
        /\ \A d \in Clients \ {c} : cl'[d] = cl[d]
    BY <1>0, <1>3, BecomeIs DEF ToNewRoot
  <2>2. /\ cl'[c].pc = "newroot" /\ cl'[c].p = cl[c].p
        /\ cl'[c].sk = cl[c].nsk /\ cl'[c].sp = cl[c].nsp /\ cl'[c].tl = l
        /\ cl'[c].lin = TRUE /\ cl'[c].op = cl[c].op /\ cl'[c].ret = cl[c].ret
        /\ cl'[c].path = cl[c].path /\ cl'[c].k = cl[c].k /\ cl'[c].v = cl[c].v
    BY <1>0, <2>1 DEF Locals
  <2> QED BY <2>1, <2>2
<1> HIDE DEF up, onPath
<1>4. ASSUME Become(c, [up EXCEPT !.pc = "ii_root", !.lin = TRUE])
      PROVE  cl'[c].pc = "ii_root" /\ Above
  <2>1. /\ cl'[c] = [up EXCEPT !.pc = "ii_root", !.lin = TRUE]
        /\ \A d \in Clients \ {c} : cl'[d] = cl[d]
    BY <1>0, <1>4, BecomeIs
  <2>2. /\ cl'[c].pc = "ii_root"
        /\ cl'[c].sk = cl[c].nsk /\ cl'[c].sp = cl[c].nsp /\ cl'[c].tl = l
        /\ cl'[c].lin = TRUE /\ cl'[c].op = cl[c].op /\ cl'[c].ret = cl[c].ret
        /\ cl'[c].path = cl[c].path /\ cl'[c].k = cl[c].k /\ cl'[c].v = cl[c].v
    BY <1>1, <2>1 DEF Locals
  <2> QED BY <2>1, <2>2
<1>5. ASSUME Become(c, [up EXCEPT !.pc = "lock_internal", !.p = onPath,
                                  !.fc = FALSE, !.lin = TRUE])
      PROVE  cl'[c].pc = "lock_internal" /\ Above
  <2>1. /\ cl'[c] = [up EXCEPT !.pc = "lock_internal", !.p = onPath,
                               !.fc = FALSE, !.lin = TRUE]
        /\ \A d \in Clients \ {c} : cl'[d] = cl[d]
    BY <1>0, <1>5, BecomeIs
  <2>2. /\ cl'[c].pc = "lock_internal" /\ cl'[c].p = onPath
        /\ cl'[c].sk = cl[c].nsk /\ cl'[c].sp = cl[c].nsp /\ cl'[c].tl = l
        /\ cl'[c].lin = TRUE /\ cl'[c].op = cl[c].op /\ cl'[c].ret = cl[c].ret
        /\ cl'[c].path = cl[c].path /\ cl'[c].k = cl[c].k /\ cl'[c].v = cl[c].v
    BY <1>1, <2>1 DEF Locals
  <2> QED BY <1>2, <2>1, <2>2
<1>6. ASSUME NEW e \in CachePtrHits(CnOf[c], cl[c].nsk, l), NEW s \in 0..KeyMax,
             IsFloor(e.node, cl[c].nsk, s),
             Become(c, [up EXCEPT !.pc = "lock_internal", !.fc = TRUE,
                                  !.p = ChildAt(e.node, s), !.lo = e.lo,
                                  !.hi = e.hi, !.lin = TRUE])
      PROVE  cl'[c].pc = "lock_internal" /\ Above
  <2>1. /\ cl'[c] = [up EXCEPT !.pc = "lock_internal", !.fc = TRUE,
                               !.p = ChildAt(e.node, s), !.lo = e.lo,
                               !.hi = e.hi, !.lin = TRUE]
        /\ \A d \in Clients \ {c} : cl'[d] = cl[d]
    BY <1>0, <1>6, BecomeIs
  <2>2. /\ cl'[c].pc = "lock_internal" /\ cl'[c].p = ChildAt(e.node, s)
        /\ cl'[c].sk = cl[c].nsk /\ cl'[c].sp = cl[c].nsp /\ cl'[c].tl = l
        /\ cl'[c].lin = TRUE /\ cl'[c].op = cl[c].op /\ cl'[c].ret = cl[c].ret
        /\ cl'[c].path = cl[c].path /\ cl'[c].k = cl[c].k /\ cl'[c].v = cl[c].v
    BY <1>1, <2>1 DEF Locals
  <2>3. /\ CnOf[c] \in CNs /\ e \in Live(CnOf[c]) /\ e.lo <= cl[c].nsk
        /\ e.node.level = l + 1
    BY TreeConstants DEF CachePtrHits
  <2>4. /\ e.node \in Node /\ Truthful(low, e.node) /\ e.node.lo <= cl[c].nsk
    BY <1>0, <2>3, CacheTypes DEF RangeInv, CachesTrue
  <2>5. PICK x : Stands(low, ChildAt(e.node, s), x, e.node.level - 1)
    BY <1>0, <1>6, <2>4, ChildStands
  <2>6. OfLevel(ChildAt(e.node, s), l)
    BY <2>3, <2>5, StandsMeans
  <2> QED BY <2>1, <2>2, <2>6
<1>7. ASSUME ToParent(c, l)
      PROVE  cl'[c].pc \in {"ii_root", "lock_internal"} /\ Above
  <2>1. \/ Become(c, [up EXCEPT !.pc = "ii_root", !.lin = TRUE])
        \/ Become(c, [up EXCEPT !.pc = "lock_internal", !.p = onPath,
                                !.fc = FALSE, !.lin = TRUE])
        \/ \E e \in CachePtrHits(CnOf[c], cl[c].nsk, l), s \in 0..KeyMax :
             /\ IsFloor(e.node, cl[c].nsk, s)
             /\ Become(c, [up EXCEPT !.pc = "lock_internal", !.fc = TRUE,
                                     !.p = ChildAt(e.node, s), !.lo = e.lo,
                                     !.hi = e.hi, !.lin = TRUE])
    BY <1>7 DEF ToParent, up, onPath
  <2>2. CASE \E e \in CachePtrHits(CnOf[c], cl[c].nsk, l), s \in 0..KeyMax :
               /\ IsFloor(e.node, cl[c].nsk, s)
               /\ Become(c, [up EXCEPT !.pc = "lock_internal", !.fc = TRUE,
                                       !.p = ChildAt(e.node, s), !.lo = e.lo,
                                       !.hi = e.hi, !.lin = TRUE])
    BY <1>6, <2>2
  <2> HIDE DEF Above
  <2> QED BY <1>4, <1>5, <2>1, <2>2
<1> QED BY <1>3, <1>7

\* Writing the left half links the sibling: the leaf now ends at the separator,

\* the sibling takes over its end.
LEMMA LeafSplitCommitKeeps ==
  ASSUME TreeInv, TypeOK', NEW low, RangeInv(low), NEW c \in Clients,
         LeafSplitCommit(c)
  PROVE  Preserved(low, low) /\ PutStore(c)
<1>a. PICK a, z, s, full :
        a = cl[c].p /\ z = cl[c].nsp /\ s = cl[c].nsk /\ full = Overfull(c)
  OBVIOUS
<1>0. /\ Guided(low, c) /\ Effect(c) /\ Halves(low, c) /\ TypeOK /\ cl[c].k \in Keys
      /\ cl[c].pc = "leaf_split" /\ InCritical(c)
      /\ a \in Addrs /\ a # Null /\ mem[a] \in Node /\ s \in Keys
      /\ cl[c].v \in Vals \cup {kValueNull}
      /\ top' = top /\ root' = root /\ cache' = cache
      /\ full = WithRecord(mem[a], cl[c].k, cl[c].v)
      /\ low \in [Addrs -> Keys] /\ Tiling(low) /\ OwnSibling
      /\ WriteNode(a, LeftLeaf(full, s, z))
  BY <1>a, Here, Parts DEF LeafSplitCommit, InCritical, Critical, RangeInv, Overfull
<1>1. Settled(a) /\ low[a] <= cl[c].k /\ cl[c].op = "insert"
  BY <1>0, <1>a DEF Guided, LeafLevel, Effect
<1>2. /\ z \in 1..top /\ low[z] = s /\ mem[z] = RightLeaf(full, s)
      /\ s - 1 \in Present(full.kv) /\ cl[c].k < End(low, a) /\ s < End(low, a)
  BY <1>0, <1>a DEF Halves
<1>3. /\ End(low, a) \in Nat /\ End(low, a) - 1 \in Present(mem[a].kv)
      /\ low[a] \in Nat /\ Present(mem[a].kv) \subseteq Keys
      /\ \A j \in Present(mem[a].kv) : low[a] <= j /\ j < End(low, a)
      /\ LeafRange(low, a) /\ a \in 1..top /\ mem[a].level = 0
  BY <1>0, <1>1, LeafFacts DEF Tiling, Settled, Keys
<1>4. /\ Present(full.kv) = Present(mem[a].kv) \cup {cl[c].k}
      /\ full \in Node /\ SibOf(full) = SibOf(mem[a])
      /\ full.level = mem[a].level /\ full.lo = mem[a].lo
  <2>1. mem[a] \in Node /\ cl[c].k \in Keys /\ cl[c].v \in Vals \cup {kValueNull}
    BY <1>0
  <2>2. /\ Present(WithRecord(mem[a], cl[c].k, cl[c].v).kv)
             = Present(mem[a].kv) \cup {cl[c].k}
        /\ WithRecord(mem[a], cl[c].k, cl[c].v) \in Node
        /\ SibOf(WithRecord(mem[a], cl[c].k, cl[c].v)) = SibOf(mem[a])
        /\ WithRecord(mem[a], cl[c].k, cl[c].v).level = mem[a].level
        /\ WithRecord(mem[a], cl[c].k, cl[c].v).lo = mem[a].lo
    BY <2>1, FullLeaf
  <2> QED BY <1>0, <2>2
<1>5. /\ mem[z].level = 0 /\ SibOf(mem[z]) = SibOf(mem[a])
      /\ z # a /\ z \in Addrs /\ Fresh(z)
  <2>1. mem[z].level = 0 /\ SibOf(mem[z]) = SibOf(mem[a])
    BY <1>0, <1>2, <1>4, RightHalf
  <2>2. Fresh(z)
    BY <1>0, <1>a DEF Fresh
  <2>3. z \in Addrs
    BY <1>0, <1>2, Allocated
  <2> QED BY <1>1, <2>1, <2>2, <2>3 DEF Settled
<1>6. mem'[a] = LeftLeaf(full, s, z) /\ \A b \in Addrs : b # a => mem'[b] = mem[b]
  BY <1>0, WriteIs
<1>7. /\ Present(mem'[a].kv) = {j \in Present(full.kv) : j < s}
      /\ mem'[a].level = 0 /\ mem'[a].lo = mem[a].lo /\ mem'[a].sib = z
  BY <1>0, <1>3, <1>4, <1>6, LeftHalf
<1>8. SibOf(mem[a])' = z /\ z # Null /\ mem'[a].sib # Widest
  <2>1. z # Null /\ z # Widest
    BY <1>5, TreeConstants DEF Addrs, Null, Widest
  <2>2. SibOf(mem'[a]) = z
    BY <1>7, <2>1 DEF SibOf
  <2> QED BY <1>7, <2>1, <2>2
<1>9. /\ cl'[c].pc \in {"newroot", "ii_root", "lock_internal"}
      /\ cl'[c].pc = "newroot" => cl'[c].p = cl[c].p
      /\ ToParent(c, 1) => cl'[c].pc # "newroot"
      /\ cl'[c].pc = "lock_internal" => OfLevel(cl'[c].p, 1)
      /\ cl'[c].sk = cl[c].nsk /\ cl'[c].sp = cl[c].nsp /\ cl'[c].tl = 1
      /\ cl'[c].lin = TRUE /\ cl'[c].op = cl[c].op /\ cl'[c].ret = cl[c].ret
      /\ cl'[c].path = cl[c].path
      /\ \A d \in Clients \ {c} : cl'[d] = cl[d]
  BY ToParentFields DEF LeafSplitCommit
<1>10. \A b \in 1..top : b \in Addrs
  BY <1>0, Allocated
<1>11. \A b : Fresh(b)' <=> Fresh(b) /\ b # z
  <2>1. ASSUME NEW b, Fresh(b)' PROVE Fresh(b) /\ b # z
    <3>1. PICK d \in Clients : cl'[d].pc = "leaf_split" /\ cl'[d].nsp = b
      BY <2>1 DEF Fresh
    <3>2. d # c /\ cl'[d] = cl[d]
      BY <1>9, <3>1
    <3>3. b # z
      BY <1>0, <1>a, <3>1, <3>2 DEF OwnSibling
    <3> QED BY <3>1, <3>2, <3>3 DEF Fresh
  <2>2. ASSUME NEW b, Fresh(b), b # z PROVE Fresh(b)'
    <3>1. PICK d \in Clients : cl[d].pc = "leaf_split" /\ cl[d].nsp = b
      BY <2>2 DEF Fresh
    <3>2. cl'[d] = cl[d]
      BY <1>a, <1>9, <2>2, <3>1
    <3> QED BY <3>1, <3>2 DEF Fresh
  <2> QED BY <2>1, <2>2
<1>12. \A b \in 1..top : /\ mem'[b].level = mem[b].level /\ mem'[b].lo = mem[b].lo
                         /\ b # a => mem'[b] = mem[b]
  BY <1>3, <1>6, <1>7, <1>10
<1>13. \A b : Settled(b)' <=> Settled(b) \/ b = z
  BY <1>0, <1>2, <1>5, <1>11, <1>12 DEF Settled
<1>14. Grows(low, low)
  BY <1>0, <1>12, <1>13, Allocated DEF Grows
<1>15. /\ End(low, a)' = s
       /\ \A b \in 1..top : b # a => End(low, b)' = End(low, b)
       /\ End(low, z)' = End(low, a)
  <2>1. End(low, a)' = s
    BY <1>2, <1>8 DEF End
  <2>2. \A b \in 1..top : b # a => End(low, b)' = End(low, b)
    BY <1>12 DEF End
  <2>3. End(low, z) = End(low, a)
    BY <1>5 DEF End
  <2> QED BY <1>2, <1>5, <2>1, <2>2, <2>3
<1>16. low[a] < s /\ s \in Nat /\ low[z] = s
  BY <1>0, <1>1, <1>2, <1>3, <1>4 DEF Keys
<1>17. LeafRange(low, a)'
  <2>1. s - 1 \in Present(mem'[a].kv)
    BY <1>2, <1>7, <1>16
  <2>2. \A j \in Present(mem'[a].kv) : low[a] <= j /\ j < s
    BY <1>1, <1>3, <1>4, <1>7
  <2> QED BY <1>8, <1>13, <1>15, <2>1, <2>2 DEF LeafRange
<1>18. ASSUME NEW b \in 1..top, b # a, mem[b].level = 0 PROVE LeafRange(low, b)'
  <2>1. LeafRange(low, b)
    BY <1>0, <1>18 DEF Tiling
  <2>2. mem'[b] = mem[b] /\ End(low, b)' = End(low, b)
    BY <1>12, <1>15, <1>18
  <2> QED BY <1>13, <2>1, <2>2 DEF LeafRange
<1>19. Tiling(low)'
  <2>1. Settled(1)' /\ low[1] = 1
    BY <1>0, <1>13 DEF Tiling
  <2>2. \A b \in 1..top' : mem'[b].level = 0 => LeafRange(low, b)'
    BY <1>0, <1>12, <1>17, <1>18
  <2>3. ASSUME NEW b \in Addrs, NEW d \in Addrs, Settled(b)', Settled(d)', b # d
        PROVE  End(low, b)' <= low[d] \/ End(low, d)' <= low[b]
    <3>1. ASSUME NEW x \in Addrs, Settled(x), x # a
          PROVE  /\ End(low, x)' = End(low, x) /\ End(low, x) \in Nat
                 /\ low[x] \in Nat
                 /\ End(low, a) <= low[x] \/ End(low, x) <= low[a]
      <4>1. End(low, x) \in Nat /\ low[x] \in Nat /\ x \in 1..top
        BY <1>0, <3>1, LeafFacts DEF Settled, Keys
      <4> QED BY <1>0, <1>1, <1>15, <3>1, <4>1 DEF Tiling
    <3>2. CASE b = a /\ d = z
      BY <1>15, <1>16, <3>2
    <3>3. CASE b = z /\ d = a
      BY <1>15, <1>16, <3>3
    <3>4. CASE b \in {a, z} /\ d \notin {a, z}
      <4>1. Settled(d)
        BY <1>13, <2>3, <3>4
      <4>2. /\ End(low, d)' = End(low, d) /\ End(low, d) \in Nat /\ low[d] \in Nat
            /\ End(low, a) <= low[d] \/ End(low, d) <= low[a]
        BY <3>1, <3>4, <4>1
      <4> QED BY <1>2, <1>3, <1>15, <1>16, <3>4, <4>2
    <3>5. CASE b \notin {a, z} /\ d \in {a, z}
      <4>1. Settled(b)
        BY <1>13, <2>3, <3>5
      <4>2. /\ End(low, b)' = End(low, b) /\ End(low, b) \in Nat /\ low[b] \in Nat
            /\ End(low, a) <= low[b] \/ End(low, b) <= low[a]
        BY <3>1, <3>5, <4>1
      <4> QED BY <1>2, <1>3, <1>15, <1>16, <3>5, <4>2
    <3>6. CASE b \notin {a, z} /\ d \notin {a, z}
      <4>1. Settled(b) /\ Settled(d)
        BY <1>13, <2>3, <3>6
      <4>2. End(low, b)' = End(low, b) /\ End(low, d)' = End(low, d)
        BY <3>1, <3>6, <4>1
      <4> QED BY <1>0, <2>3, <4>1, <4>2 DEF Tiling
    <3> QED BY <2>3, <3>2, <3>3, <3>4, <3>5, <3>6
  <2>4. ASSUME NEW b \in Addrs, Settled(b)', b # 1
        PROVE  \E d \in Addrs : Settled(d)' /\ SibOf(mem[d])' = b
    <3>1. CASE b = z
      BY <1>0, <1>1, <1>8, <1>13, <3>1
    <3>2. CASE b # z
      <4>1. Settled(b)
        BY <1>13, <2>4, <3>2
      <4>2. PICK d \in Addrs : Settled(d) /\ SibOf(mem[d]) = b
        BY <1>0, <2>4, <4>1 DEF Tiling
      <4>3. CASE d = a
        <5>1. SibOf(mem'[z]) = b
          BY <1>5, <1>6, <4>2, <4>3
        <5> QED BY <1>5, <1>13, <5>1
      <4>4. CASE d # a
        <5>1. SibOf(mem'[d]) = b
          BY <1>6, <4>2, <4>4
        <5> QED BY <1>13, <4>2, <5>1
      <4> QED BY <4>3, <4>4
    <3> QED BY <3>1, <3>2
  <2> QED BY <2>1, <2>2, <2>3, <2>4 DEF Tiling
<1>20. Routing(low)'
  <2>1. Routing(low)
    BY DEF RangeInv
  <2>2. \A b \in 1..top : mem'[b].level > 0 => mem'[b] = mem[b]
    BY <1>7, <1>12
  <2> QED BY <1>0, <1>14, <2>1, <2>2, Kept DEF Routing
<1>21. OwnSibling'
  BY <1>0, <1>9, NoNewSplit
<1>22. Effect(c)' /\ Halves(low, c)'
  BY <1>0, <1>1, <1>9 DEF Effect, Halves, Upward
<1>k. /\ \A b, l : OfLevel(b, l) => OfLevel(b, l)'
      /\ \A b, x, l : Stands(low, b, x, l) => Stands(low, b, x, l)'
  BY <1>0, <1>14, Kept
<1>23. Guided(low, c)'
  BY <1>0, <1>9, <1>k DEF Guided, LeafLevel
<1>24. Carries(low, c)'
  <2>1. Stands(low, z, s, 0)'
    BY <1>0, <1>2, <1>5, <1>12, <1>13 DEF Stands
  <2>2. ASSUME cl'[c].pc = "newroot" PROVE Stands(low, a, 1, 0)
    <3>1. LeafIsRoot(mem[a])
      BY <1>a, <1>9, <2>2 DEF LeafSplitCommit
    <3>2. a = 1
      BY <1>3, <3>1 DEF LeafIsRoot, LeafRange
    <3> QED BY <1>0, <1>1, <1>3, <3>2 DEF Stands, Tiling
  <2>3. cl'[c].tl - 1 = 0
    BY <1>9
  <2> QED BY <1>a, <1>9, <1>k, <2>1, <2>2, <2>3 DEF Carries, Upward
<1>25. ASSUME NEW d \in Clients \ {c}
       PROVE  /\ cl[d].pc \in {"leaf_split", "internal_split"} =>
                   mem'[cl[d].p] = mem[cl[d].p]
              /\ cl[d].pc = "leaf_split" => mem'[cl[d].nsp] = mem[cl[d].nsp]
  BY <1>0, <1>a, <1>1, <1>6, Apart
<1>26. Placed(low, c)'
  BY <1>22, <1>23, <1>24 DEF Placed
<1>27. Preserved(low, low)
  BY <1>0, <1>9, <1>14, <1>19, <1>20, <1>21, <1>22, <1>25, <1>26, StepKept
<1>28. PutStore(c)
  <2>1. \A b : Settled(b) /\ b # a => mem'[b] = mem[b]
    BY <1>12 DEF Settled
  <2>2. ~Settled(z) /\ mem'[z] = RightLeaf(full, s)
    BY <1>2, <1>5, <1>6 DEF Settled
  <2> QED BY <1>0, <1>1, <1>2, <1>5, <1>6, <1>13, <2>1, <2>2, HalvesStored
<1> QED BY <1>27, <1>28

\* The level, the least key and the sibling are what a write of an internal

\* node may not change.
LEMMA InternalWrite ==
  ASSUME TreeInv, TypeOK', NEW low, RangeInv(low), NEW c \in Clients,
         cl[c].pc # "leaf_split", cl'[c].pc # "leaf_split",
         \A d \in Clients \ {c} : cl'[d] = cl[d],
         top <= top',
         \A b \in 1..top : /\ mem'[b].level = mem[b].level /\ mem'[b].lo = mem[b].lo
                           /\ mem[b].level = 0 => mem'[b] = mem[b],
         \A b \in 1..top' : b \in 1..top \/ mem'[b].level > 0
  PROVE  Grows(low, low) /\ Tiling(low)' /\ OwnSibling' /\ SameStore
<1>0. TypeOK /\ Tiling(low) /\ OwnSibling
  BY DEF TreeInv, RangeInv
<1>1. ASSUME NEW b PROVE Fresh(b)' <=> Fresh(b)
  <2>1. ASSUME NEW e \in Clients
        PROVE  (cl'[e].pc = "leaf_split" /\ cl'[e].nsp = b)
                 <=> (cl[e].pc = "leaf_split" /\ cl[e].nsp = b)
    <3>1. CASE e = c
      BY <3>1
    <3>2. CASE e # c
      BY <3>2
    <3> QED BY <3>1, <3>2
  <2> QED BY <2>1 DEF Fresh
<1>2. \A b \in 1..top : b \in 1..top'
  BY <1>0, TreeConstants DEF TypeOK, Addrs
<1>3. \A b : Settled(b)' <=> Settled(b)
  BY <1>1, <1>2 DEF Settled
<1>4. Grows(low, low)
  BY <1>3 DEF Grows
<1>5. ASSUME NEW b, b \in 1..top', mem'[b].level = 0
      PROVE  /\ b \in 1..top /\ mem'[b] = mem[b] /\ mem[b].level = 0
             /\ End(low, b)' = End(low, b) /\ LeafRange(low, b)'
  <2>1. b \in 1..top /\ mem'[b] = mem[b] /\ mem[b].level = 0
    BY <1>5
  <2>2. End(low, b)' = End(low, b)
    BY <2>1 DEF End
  <2>3. LeafRange(low, b)
    BY <1>0, <2>1 DEF Tiling
  <2> QED BY <1>3, <2>1, <2>2, <2>3 DEF LeafRange
<1>6. ASSUME NEW b, Settled(b)
      PROVE  /\ End(low, b)' = End(low, b) /\ SibOf(mem[b])' = SibOf(mem[b])
             /\ mem'[b] = mem[b]
  <2>1. b \in 1..top' /\ mem'[b].level = 0
    BY <1>2, <1>6 DEF Settled
  <2>2. End(low, b)' = End(low, b) /\ mem'[b] = mem[b]
    BY <1>5, <2>1
  <2> QED BY <2>2
<1>7. Tiling(low)'
  BY <1>0, <1>3, <1>5, <1>6 DEF Tiling
<1>8. OwnSibling'
  BY <1>0, NoNewSplit
<1>9. SameStore
  BY <1>3, <1>6 DEF SameStore, Holds
<1> QED BY <1>4, <1>7, <1>8, <1>9

\* A separator joins the parent that covers it.
LEMMA InternalInsertWriteKeeps ==
  ASSUME TreeInv, TypeOK', NEW low, RangeInv(low), NEW c \in Clients,
         InternalInsertWrite(c)
  PROVE  Preserved(low, low) /\ SameStore
<1>a. PICK a, n, t, s, z :
        /\ a = cl[c].p /\ n = mem[cl[c].p] /\ t = cl[c].tl
        /\ s = cl[c].sk /\ z = cl[c].sp
  OBVIOUS
<1>0. /\ Guided(low, c) /\ Carries(low, c) /\ Effect(c) /\ TypeOK
      /\ cl[c].pc = "internal_insert" /\ InCritical(c) /\ cl[c] \in Locals
      /\ a \in Addrs /\ a # Null /\ n \in Node /\ s \in Keys /\ t \in Nat
      /\ top' = top /\ root' = root /\ cache' = cache
      /\ low \in [Addrs -> Keys] /\ Routing(low)
      /\ WriteNode(a, WithSeparator(n, s, z)) /\ n.lo <= s /\ s < n.hi
  BY <1>a, Here, Parts DEF InternalInsertWrite, SeparatorFits, InCritical, Critical,
     RangeInv
<1>1. t > 0 /\ Stands(low, z, s, t - 1) /\ a \in 1..top /\ n.level = t
  BY <1>0, <1>a DEF Carries, Upward, OfLevel
<1>2. z \in 1..top /\ z # Null
  BY <1>0, <1>1, Allocated DEF Stands
<1>3. Truthful(low, n) /\ OfLevel(SibOf(n), t)
  BY <1>0, <1>a, <1>1 DEF Routing
<1>4. /\ mem'[a] = WithSeparator(n, s, z)
      /\ \A b \in Addrs : b # a => mem'[b] = mem[b]
  BY <1>0, WriteIs
<1>5. /\ mem'[a].level = n.level /\ mem'[a].lo = n.lo /\ mem'[a].hi = n.hi
      /\ mem'[a].sib = n.sib /\ mem'[a].sibleft = n.sibleft
      /\ mem'[a].leftmost = n.leftmost
      /\ mem'[a].recs = [n.recs EXCEPT ![s] = z]
  BY <1>0, <1>4 DEF WithSeparator, Node
<1>6. /\ mem'[a].recs[s] = z
      /\ \A j \in Keys : j # s => mem'[a].recs[j] = n.recs[j]
  BY <1>0, <1>5 DEF Node
<1>7. Seps(mem'[a]) = Seps(n) \cup {s}
  BY <1>0, <1>2, <1>6 DEF Seps
<1>8. Truthful(low, mem'[a])
  <2>1. \A j \in Seps(n) : j # s => mem'[a].recs[j] = n.recs[j]
    BY <1>6 DEF Seps
  <2> QED BY <1>0, <1>1, <1>3, <1>5, <1>6, <1>7, <2>1 DEF Truthful
<1>9. /\ cl'[c] = [cl[c] EXCEPT !.pc = "done"]
      /\ \A d \in Clients \ {c} : cl'[d] = cl[d]
  BY <1>0, BecomeIs DEF InternalInsertWrite
<1>10. cl'[c].pc = "done" /\ cl'[c].lin = cl[c].lin /\ cl'[c].path = cl[c].path
  BY <1>0, <1>9 DEF Locals
<1>11. \A b \in 1..top : /\ b \in Addrs
                         /\ mem'[b].level = mem[b].level /\ mem'[b].lo = mem[b].lo
                         /\ mem[b].level = 0 => mem'[b] = mem[b]
  BY <1>0, <1>a, <1>1, <1>4, <1>5, Allocated
<1>12. Grows(low, low) /\ Tiling(low)' /\ OwnSibling' /\ SameStore
  <2>1. /\ cl[c].pc # "leaf_split" /\ cl'[c].pc # "leaf_split" /\ top <= top'
        /\ \A b \in 1..top' : b \in 1..top \/ mem'[b].level > 0
    BY <1>0, <1>10, Allocated
  <2>2. \A b \in 1..top : /\ mem'[b].level = mem[b].level /\ mem'[b].lo = mem[b].lo
                          /\ mem[b].level = 0 => mem'[b] = mem[b]
    BY <1>11
  <2> QED BY <1>9, <2>1, <2>2, InternalWrite
<1>k. /\ \A b, l : OfLevel(b, l) => OfLevel(b, l)'
      /\ \A b, x, l : Stands(low, b, x, l) => Stands(low, b, x, l)'
      /\ \A m : Truthful(low, m) => Truthful(low, m)'
  BY <1>0, <1>12, Kept
<1>13. Routing(low)'
  <2>1. ASSUME NEW b \in 1..top, mem'[b].level > 0
        PROVE  Truthful(low, mem[b])' /\ OfLevel(SibOf(mem[b]), mem[b].level)'
    <3>1. CASE b = a
      <4>1. PICK m : m = mem'[a]
        OBVIOUS
      <4>2. Truthful(low, m)'
        BY <1>8, <1>k, <4>1
      <4>3. SibOf(m) = SibOf(n) /\ m.level = t
        BY <1>1, <1>5, <4>1 DEF SibOf
      <4> QED BY <1>3, <1>k, <3>1, <4>1, <4>2, <4>3
    <3>2. CASE b # a
      BY <1>0, <1>4, <1>11, <1>k, <2>1, <3>2 DEF Routing
    <3> QED BY <3>1, <3>2
  <2> QED BY <1>0, <1>k, <2>1 DEF Routing
<1>14. Effect(c)' /\ Carries(low, c)' /\ Halves(low, c)'
  BY <1>0, <1>10 DEF Effect, Carries, Halves, Upward
<1>15. Guided(low, c)'
  BY <1>0, <1>10, <1>k DEF Guided, LeafLevel
<1>16. ASSUME NEW d \in Clients \ {c}
       PROVE  /\ cl[d].pc \in {"leaf_split", "internal_split"} =>
                   mem'[cl[d].p] = mem[cl[d].p]
              /\ cl[d].pc = "leaf_split" => mem'[cl[d].nsp] = mem[cl[d].nsp]
  BY <1>0, <1>a, <1>4, <1>11, Apart
<1>17. Placed(low, c)'
  BY <1>14, <1>15 DEF Placed
<1> QED BY <1>0, <1>9, <1>12, <1>13, <1>14, <1>16, <1>17, StepKept

\* A separator that begins where its child does may join any node that covers it.
LEMMA SeparatorTrue ==
  ASSUME NEW low, NEW n \in Node, Truthful(low, n), NEW s \in Keys, NEW z,
         z # Null, Stands(low, z, s, n.level - 1), n.lo <= s, s < n.hi
  PROVE  /\ Truthful(low, WithSeparator(n, s, z))
         /\ WithSeparator(n, s, z).level = n.level /\ WithSeparator(n, s, z).lo = n.lo
         /\ WithSeparator(n, s, z).sib = n.sib
<1>a. PICK w : w = WithSeparator(n, s, z)
  OBVIOUS
<1>1. /\ w.level = n.level /\ w.lo = n.lo /\ w.hi = n.hi
      /\ w.sib = n.sib /\ w.sibleft = n.sibleft /\ w.leftmost = n.leftmost
      /\ w.recs = [n.recs EXCEPT ![s] = z]
  BY <1>a DEF WithSeparator, Node
<1>2. w.recs[s] = z /\ \A j \in Keys : j # s => w.recs[j] = n.recs[j]
  BY <1>1 DEF Node
<1>3. Seps(w) = Seps(n) \cup {s}
  BY <1>2 DEF Seps
<1>4. \A j \in Seps(n) : j # s => w.recs[j] = n.recs[j]
  BY <1>2 DEF Seps
<1>5. Truthful(low, w)
  BY <1>1, <1>2, <1>3, <1>4 DEF Truthful
<1> QED BY <1>a, <1>1, <1>5

\* The right half of a node says of its children what the node said.
LEMMA RightTrue ==
  ASSUME NEW low, NEW n \in Node, Truthful(low, n), NEW m \in Seps(n),
         NEW l, l = n.level
  PROVE  /\ Truthful(low, RightInternal(n, m, l))
         /\ RightInternal(n, m, l).level = l /\ RightInternal(n, m, l).lo = m
         /\ RightInternal(n, m, l).hi = n.hi
         /\ SibOf(RightInternal(n, m, l)) = SibOf(n)
<1>a. PICK r : r = RightInternal(n, m, l)
  OBVIOUS
<1>0. m \in Keys /\ n.lo <= m /\ m < n.hi /\ SibOf(n) # Widest
  BY NodeFields, TreeConstants DEF Truthful, AddrOrNull, Widest
<1>1. /\ r.level = l /\ r.lo = m /\ r.hi = n.hi /\ r.leftmost = n.recs[m]
      /\ r.sib = SibOf(n) /\ r.sibleft = n.sibleft
      /\ r.recs = [j \in Keys |-> IF j > m THEN n.recs[j] ELSE Null]
  BY <1>a DEF RightInternal, ZeroNode
<1>2. SibOf(r) = SibOf(n)
  BY <1>0, <1>1 DEF SibOf
<1>3. \A j \in Seps(r) : j \in Seps(n) /\ j > m /\ r.recs[j] = n.recs[j]
  BY <1>1 DEF Seps
<1>4. \A j \in Seps(r) : m <= j
  BY <1>0, <1>3 DEF Seps, Keys
<1>5. Truthful(low, r)
  BY <1>1, <1>3, <1>4 DEF Truthful
<1> QED BY <1>a, <1>1, <1>2, <1>5

\* So does the left half, whose next child is the one that moved to the head of

\* the sibling.
LEMMA LeftTrue ==
  ASSUME NEW low, NEW n \in Node, Truthful(low, n), NEW m \in Seps(n), NEW z,
         z \in Addrs
  PROVE  /\ Truthful(low, LeftInternal(n, m, z))
         /\ LeftInternal(n, m, z).level = n.level
         /\ LeftInternal(n, m, z).lo = n.lo /\ LeftInternal(n, m, z).hi = m
         /\ SibOf(LeftInternal(n, m, z)) = z
<1>a. PICK r : r = LeftInternal(n, m, z)
  OBVIOUS
<1>0. m \in Keys /\ n.lo <= m /\ m < n.hi /\ m <= KeyMax /\ z # Widest
  BY TreeConstants DEF Truthful, Seps, Keys, Widest, Addrs
<1>1. /\ r.level = n.level /\ r.lo = n.lo /\ r.hi = m /\ r.leftmost = n.leftmost
      /\ r.sib = z /\ r.sibleft = n.recs[m]
      /\ r.recs = [j \in Keys |-> IF j < m THEN n.recs[j] ELSE Null]
  BY <1>a DEF LeftInternal, Node
<1>2. SibOf(r) = z
  BY <1>0, <1>1 DEF SibOf
<1>3. \A j \in Seps(r) : j \in Seps(n) /\ j < m /\ r.recs[j] = n.recs[j]
  BY <1>1 DEF Seps
<1>4. Truthful(low, r)
  BY <1>0, <1>1, <1>3 DEF Truthful
<1> QED BY <1>a, <1>1, <1>2, <1>4

\* Writing the right half of an internal node: nothing points to it yet, and it

\* begins at the separator that will.
LEMMA InternalSplitSiblingKeeps ==
  ASSUME TreeInv, TypeOK', NEW low, RangeInv(low), NEW c \in Clients,
         InternalSplitSibling(c)
  PROVE  Preserved(low, low) /\ SameStore
<1>a. PICK a, n, t, s, z :
        /\ a = cl[c].p /\ n = mem[cl[c].p] /\ t = cl[c].tl
        /\ s = cl[c].sk /\ z = top + 1
  OBVIOUS
<1>0. /\ Guided(low, c) /\ Carries(low, c) /\ Effect(c) /\ TypeOK
      /\ cl[c].pc = "internal_insert" /\ InCritical(c) /\ cl[c] \in Locals
      /\ a \in Addrs /\ a # Null /\ n \in Node /\ s \in Keys /\ t \in Nat
      /\ top < MaxAddr /\ top' = top + 1 /\ root' = root /\ cache' = cache
      /\ low \in [Addrs -> Keys] /\ Routing(low)
      /\ n.lo <= s /\ s < n.hi
  BY <1>a, Here, Parts DEF InternalSplitSibling, SeparatorFits, InCritical, Critical,
     RangeInv
<1>1. t > 0 /\ Stands(low, cl[c].sp, s, t - 1) /\ a \in 1..top /\ n.level = t
  BY <1>0, <1>a DEF Carries, Upward, OfLevel
<1>2. cl[c].sp # Null
  BY <1>0, <1>1, Allocated DEF Stands
<1>3. Truthful(low, n) /\ OfLevel(SibOf(n), t)
  BY <1>0, <1>a, <1>1 DEF Routing
<1>4. PICK m \in Seps(n) :
        /\ WriteNode(z, IF s < m THEN RightInternal(n, m, t)
                        ELSE WithSeparator(RightInternal(n, m, t), s, cl[c].sp))
        /\ Become(c, [cl[c] EXCEPT !.pc = "internal_split", !.nsk = m, !.nsp = z])
  BY <1>a DEF InternalSplitSibling
<1>b. PICK r : r = IF s < m THEN RightInternal(n, m, t)
                   ELSE WithSeparator(RightInternal(n, m, t), s, cl[c].sp)
  OBVIOUS
<1>5. m \in Keys /\ n.lo <= m /\ m < n.hi
  BY <1>0, <1>3, NodeFields DEF Truthful
<1>6. Truthful(low, r) /\ r.level = t /\ r.lo = m /\ SibOf(r) = SibOf(n)
  <2>1. /\ RightInternal(n, m, t) \in Node /\ Truthful(low, RightInternal(n, m, t))
        /\ RightInternal(n, m, t).level = t /\ RightInternal(n, m, t).lo = m
        /\ RightInternal(n, m, t).hi = n.hi
        /\ SibOf(RightInternal(n, m, t)) = SibOf(n)
    <3>1. RightInternal(n, m, t) \in Node
      <4>1. Null \in AddrOrNull /\ kValueNull \in Vals \cup {kValueNull}
        BY TreeConstants DEF Null, AddrOrNull
      <4> QED BY <1>0, <1>5, <4>1, NodeOps
    <3> QED BY <1>0, <1>1, <1>3, <3>1, RightTrue
  <2>2. CASE s < m
    BY <1>b, <2>1, <2>2
  <2>3. CASE ~(s < m)
    <3>1. PICK q : q = RightInternal(n, m, t)
      OBVIOUS
    <3>2. /\ q \in Node /\ Truthful(low, q) /\ q.level = t /\ q.lo = m
          /\ q.hi = n.hi /\ SibOf(q) = SibOf(n) /\ m <= s
          /\ r = WithSeparator(q, s, cl[c].sp)
      BY <1>0, <1>b, <1>5, <2>1, <2>3, <3>1 DEF Keys
    <3>3. /\ Truthful(low, WithSeparator(q, s, cl[c].sp))
          /\ WithSeparator(q, s, cl[c].sp).level = q.level
          /\ WithSeparator(q, s, cl[c].sp).lo = q.lo
          /\ WithSeparator(q, s, cl[c].sp).sib = q.sib
      BY <1>0, <1>1, <1>2, <3>2, SeparatorTrue
    <3> QED BY <3>2, <3>3 DEF SibOf
  <2> QED BY <2>2, <2>3
<1>7. /\ z \in Addrs /\ mem'[z] = r /\ z \in 1..top' /\ z \notin 1..top /\ z # Null
      /\ \A b \in 1..top : b # z /\ b \in 1..top' /\ mem'[b] = mem[b]
      /\ \A b \in 1..top' : b \in 1..top \/ b = z
  BY <1>0, <1>a, <1>b, <1>4, AddsNode
<1>8. /\ cl'[c] = [cl[c] EXCEPT !.pc = "internal_split", !.nsk = m, !.nsp = z]
      /\ \A d \in Clients \ {c} : cl'[d] = cl[d]
  BY <1>0, <1>4, BecomeIs
<1>9. /\ cl'[c].pc = "internal_split" /\ cl'[c].nsk = m /\ cl'[c].nsp = z
      /\ cl'[c].p = a /\ cl'[c].op = cl[c].op /\ cl'[c].lin = cl[c].lin
      /\ cl'[c].ret = cl[c].ret /\ cl'[c].path = cl[c].path
      /\ cl'[c].sk = s /\ cl'[c].sp = cl[c].sp /\ cl'[c].tl = t
  BY <1>0, <1>a, <1>8 DEF Locals
<1>10. Grows(low, low) /\ Tiling(low)' /\ OwnSibling' /\ SameStore
  <2>1. /\ cl[c].pc # "leaf_split" /\ cl'[c].pc # "leaf_split" /\ top <= top'
        /\ \A b \in 1..top' : b \in 1..top \/ mem'[b].level > 0
    BY <1>0, <1>1, <1>6, <1>7, <1>9, Allocated
  <2>2. \A b \in 1..top : /\ mem'[b].level = mem[b].level /\ mem'[b].lo = mem[b].lo
                          /\ mem[b].level = 0 => mem'[b] = mem[b]
    BY <1>7
  <2> QED BY <1>8, <2>1, <2>2, InternalWrite
<1>k. /\ \A b, l : OfLevel(b, l) => OfLevel(b, l)'
      /\ \A b, x, l : Stands(low, b, x, l) => Stands(low, b, x, l)'
      /\ \A w : Truthful(low, w) => Truthful(low, w)'
  BY <1>0, <1>10, Kept
<1>11. Routing(low)'
  <2>1. ASSUME NEW b \in 1..top', mem'[b].level > 0
        PROVE  Truthful(low, mem[b])' /\ OfLevel(SibOf(mem[b]), mem[b].level)'
    <3>1. CASE b = z
      <4>1. Truthful(low, r)' /\ OfLevel(SibOf(r), r.level)'
        BY <1>3, <1>6, <1>k
      <4> QED BY <1>7, <3>1, <4>1
    <3>2. CASE b \in 1..top
      <4>1. PICK w : w = mem[b]
        OBVIOUS
      <4>2. mem'[b] = w /\ Truthful(low, w) /\ OfLevel(SibOf(w), w.level)
        BY <1>0, <1>7, <2>1, <3>2, <4>1 DEF Routing
      <4>3. Truthful(low, w)' /\ OfLevel(SibOf(w), w.level)'
        BY <1>k, <4>2
      <4> QED BY <4>2, <4>3
    <3> QED BY <1>7, <3>1, <3>2
  <2> QED BY <1>0, <1>k, <2>1 DEF Routing
<1>12. Effect(c)'
  BY <1>0, <1>9 DEF Effect, Upward
<1>13. Carries(low, c)'
  <2>a. PICK y : y = cl[c].sp
    OBVIOUS
  <2>1. Stands(low, y, s, t - 1)' /\ OfLevel(a, t)'
    <3>1. OfLevel(a, t)
      BY <1>0, <1>a DEF Carries
    <3> QED BY <1>1, <1>k, <2>a, <3>1
  <2> QED BY <1>1, <1>9, <2>a, <2>1 DEF Carries
<1>14. Halves(low, c)'
  <2>1. Stands(low, z, m, t)'
    BY <1>1, <1>6, <1>7 DEF Stands
  <2>2. mem'[a] = n
    BY <1>a, <1>1, <1>7
  <2> QED BY <1>0, <1>9, <2>1, <2>2 DEF Halves
<1>15. Guided(low, c)'
  BY <1>0, <1>9, <1>k DEF Guided, LeafLevel
<1>16. ASSUME NEW d \in Clients \ {c}
       PROVE  /\ cl[d].pc \in {"leaf_split", "internal_split"} =>
                   mem'[cl[d].p] = mem[cl[d].p]
              /\ cl[d].pc = "leaf_split" => mem'[cl[d].nsp] = mem[cl[d].nsp]
  BY <1>7, Apart
<1>17. Placed(low, c)'
  BY <1>13, <1>14, <1>15 DEF Placed
<1> QED BY <1>0, <1>8, <1>10, <1>11, <1>12, <1>16, <1>17, StepKept

\* Writing the left half of an internal node links the right one, and the

\* separator between them starts its way up.
LEMMA InternalSplitCommitKeeps ==
  ASSUME TreeInv, TypeOK', NEW low, RangeInv(low), NEW c \in Clients,
         InternalSplitCommit(c)
  PROVE  Preserved(low, low) /\ SameStore
<1>a. PICK a, n, t, s, y, m, z :
        /\ a = cl[c].p /\ n = mem[cl[c].p] /\ t = cl[c].tl
        /\ s = cl[c].sk /\ y = cl[c].sp /\ m = cl[c].nsk /\ z = cl[c].nsp
  OBVIOUS
<1>b. PICK r : r = IF s < m THEN WithSeparator(LeftInternal(n, m, z), s, y)
                            ELSE LeftInternal(n, m, z)
  OBVIOUS
<1>0. /\ Guided(low, c) /\ Carries(low, c) /\ Effect(c) /\ Halves(low, c) /\ TypeOK
      /\ cl[c].pc = "internal_split" /\ InCritical(c) /\ cl[c] \in Locals
      /\ a \in Addrs /\ a # Null /\ n \in Node /\ s \in Keys /\ t \in Nat
      /\ top' = top /\ root' = root /\ cache' = cache
      /\ low \in [Addrs -> Keys] /\ Routing(low)
      /\ WriteNode(a, r)
  BY <1>a, <1>b, Here, Parts DEF InternalSplitCommit, InCritical, Critical, RangeInv
<1>1. t > 0 /\ Stands(low, y, s, t - 1) /\ a \in 1..top /\ n.level = t
  BY <1>0, <1>a DEF Carries, Upward, OfLevel
<1>2. /\ m \in Seps(n) /\ Stands(low, z, m, t) /\ n.lo <= s /\ s < n.hi
  BY <1>0, <1>a DEF Halves
<1>3. y # Null /\ z \in Addrs /\ z \in 1..top /\ mem[z].level = t
  BY <1>0, <1>1, <1>2, Allocated DEF Stands
<1>4. Truthful(low, n) /\ OfLevel(SibOf(n), t)
  BY <1>0, <1>a, <1>1 DEF Routing
<1>5. Truthful(low, r) /\ r.level = t /\ r.lo = n.lo /\ SibOf(r) = z
  <2>1. PICK q : q = LeftInternal(n, m, z)
    OBVIOUS
  <2>2. /\ q \in Node /\ Truthful(low, q) /\ q.level = t /\ q.lo = n.lo
        /\ q.hi = m /\ SibOf(q) = z
    <3>1. LeftInternal(n, m, z) \in Node
      <4>1. /\ z \in AddrOrNull /\ Null \in AddrOrNull /\ m \in Keys
            /\ kValueNull \in Vals \cup {kValueNull}
        BY <1>2, <1>3, TreeConstants DEF Null, AddrOrNull, Addrs, Seps
      <4> QED BY <1>0, <4>1, NodeOps
    <3> QED BY <1>0, <1>1, <1>2, <1>3, <1>4, <2>1, <3>1, LeftTrue
  <2>3. CASE s < m
    <3>1. r = WithSeparator(q, s, y)
      BY <1>b, <2>1, <2>3
    <3>2. /\ Truthful(low, WithSeparator(q, s, y))
          /\ WithSeparator(q, s, y).level = q.level
          /\ WithSeparator(q, s, y).lo = q.lo
          /\ WithSeparator(q, s, y).sib = q.sib
      BY <1>0, <1>1, <1>2, <1>3, <2>2, <2>3, SeparatorTrue
    <3> QED BY <2>2, <3>1, <3>2 DEF SibOf
  <2>4. CASE ~(s < m)
    BY <1>b, <2>1, <2>2, <2>4
  <2> QED BY <2>3, <2>4
<1>6. mem'[a] = r /\ \A b \in Addrs : b # a => mem'[b] = mem[b]
  BY <1>0, WriteIs
<1>7. /\ cl'[c].pc \in {"newroot", "ii_root", "lock_internal"}
      /\ cl'[c].pc = "newroot" => cl'[c].p = a
      /\ ToParent(c, t + 1) => cl'[c].pc # "newroot"
      /\ cl'[c].pc = "lock_internal" => OfLevel(cl'[c].p, t + 1)
      /\ cl'[c].sk = m /\ cl'[c].sp = z /\ cl'[c].tl = t + 1
      /\ cl'[c].lin = TRUE /\ cl'[c].op = cl[c].op /\ cl'[c].ret = cl[c].ret
      /\ cl'[c].path = cl[c].path
      /\ \A d \in Clients \ {c} : cl'[d] = cl[d]
  <2>1. (ToParent(c, t + 1) \/ ToNewRoot(c, t + 1)) /\ t + 1 \in Nat
    BY <1>0, <1>a DEF InternalSplitCommit
  <2> QED BY <1>a, <2>1, ToParentFields
<1>8. \A b \in 1..top : /\ b \in Addrs
                        /\ mem'[b].level = mem[b].level /\ mem'[b].lo = mem[b].lo
                        /\ mem[b].level = 0 => mem'[b] = mem[b]
  BY <1>0, <1>a, <1>1, <1>5, <1>6, Allocated
<1>9. Grows(low, low) /\ Tiling(low)' /\ OwnSibling' /\ SameStore
  <2>1. /\ cl[c].pc # "leaf_split" /\ cl'[c].pc # "leaf_split" /\ top <= top'
        /\ \A b \in 1..top' : b \in 1..top \/ mem'[b].level > 0
    BY <1>0, <1>7, Allocated
  <2>2. \A b \in 1..top : /\ mem'[b].level = mem[b].level /\ mem'[b].lo = mem[b].lo
                          /\ mem[b].level = 0 => mem'[b] = mem[b]
    BY <1>8
  <2> QED BY <1>7, <2>1, <2>2, InternalWrite
<1>k. /\ \A b, l : OfLevel(b, l) => OfLevel(b, l)'
      /\ \A b, x, l : Stands(low, b, x, l) => Stands(low, b, x, l)'
      /\ \A w : Truthful(low, w) => Truthful(low, w)'
  BY <1>0, <1>9, Kept
<1>10. Routing(low)'
  <2>1. ASSUME NEW b \in 1..top, mem'[b].level > 0
        PROVE  Truthful(low, mem[b])' /\ OfLevel(SibOf(mem[b]), mem[b].level)'
    <3>1. CASE b = a
      <4>1. OfLevel(z, t)
        BY <1>3 DEF OfLevel
      <4>2. Truthful(low, r)' /\ OfLevel(SibOf(r), r.level)'
        BY <1>5, <1>k, <4>1
      <4> QED BY <1>6, <3>1, <4>2
    <3>2. CASE b # a
      <4>1. PICK w : w = mem[b]
        OBVIOUS
      <4>2. mem'[b] = w /\ Truthful(low, w) /\ OfLevel(SibOf(w), w.level)
        BY <1>0, <1>6, <1>8, <2>1, <3>2, <4>1 DEF Routing
      <4>3. Truthful(low, w)' /\ OfLevel(SibOf(w), w.level)'
        BY <1>k, <4>2
      <4> QED BY <4>2, <4>3
    <3> QED BY <3>1, <3>2
  <2> QED BY <1>0, <1>k, <2>1 DEF Routing
<1>11. Effect(c)' /\ Halves(low, c)'
  BY <1>0, <1>7 DEF Effect, Halves, Upward
<1>12. Guided(low, c)'
  BY <1>0, <1>7, <1>k DEF Guided, LeafLevel
<1>13. Carries(low, c)'
  <2>1. Stands(low, z, m, t)'
    BY <1>2, <1>k
  <2>2. ASSUME cl'[c].pc = "newroot" PROVE Stands(low, a, 1, t)'
    <3>1. n.lo = 1
      BY <1>a, <1>7, <2>2 DEF InternalSplitCommit, InternalIsRoot
    <3>2. Stands(low, a, 1, t)
      BY <1>a, <1>1, <3>1 DEF Stands
    <3> QED BY <1>k, <3>2
  <2>3. ASSUME cl'[c].pc = "lock_internal" PROVE OfLevel(cl[c].p, t + 1)'
    <3>1. PICK x : x = cl'[c].p
      OBVIOUS
    <3>2. OfLevel(x, t + 1)'
      BY <1>7, <1>k, <2>3, <3>1
    <3> QED BY <3>1, <3>2
  <2>4. cl'[c].tl - 1 = t /\ cl'[c].tl > 0
    BY <1>0, <1>7
  <2> QED BY <1>7, <2>1, <2>2, <2>3, <2>4 DEF Carries, Upward
<1>14. ASSUME NEW d \in Clients \ {c}
       PROVE  /\ cl[d].pc \in {"leaf_split", "internal_split"} =>
                   mem'[cl[d].p] = mem[cl[d].p]
              /\ cl[d].pc = "leaf_split" => mem'[cl[d].nsp] = mem[cl[d].nsp]
  BY <1>0, <1>a, <1>1, <1>6, Apart
<1>15. Placed(low, c)'
  BY <1>11, <1>12, <1>13 DEF Placed
<1> QED BY <1>0, <1>7, <1>9, <1>10, <1>11, <1>14, <1>15, StepKept

\* A new root stands over both halves of the old one.  When the swap of the

\* root pointer fails it stays behind, true but unused.
LEMMA NewRootKeeps ==
  ASSUME TreeInv, TypeOK', NEW low, RangeInv(low), NEW c \in Clients, NewRoot(c)
  PROVE  Preserved(low, low) /\ SameStore
<1>a. PICK a, t, s, y, z, ro :
        /\ a = cl[c].p /\ t = cl[c].tl /\ s = cl[c].sk /\ y = cl[c].sp
        /\ z = top + 1 /\ ro = root
  OBVIOUS
<1>b. PICK r : r = RootOver(t, a, s, y)
  OBVIOUS
<1>0. /\ Guided(low, c) /\ Carries(low, c) /\ Effect(c) /\ TypeOK
      /\ cl[c].pc = "newroot" /\ cl[c] \in Locals
      /\ s \in Keys /\ t \in Nat /\ KeyMax \in Nat
      /\ top < MaxAddr /\ top' = top + 1 /\ cache' = cache
      /\ low \in [Addrs -> Keys] /\ Routing(low)
      /\ WriteNode(z, r)
  BY <1>a, <1>b, Here, Parts, TreeConstants DEF NewRoot, RangeInv
<1>1. t > 0 /\ Stands(low, y, s, t - 1) /\ Stands(low, a, 1, t - 1)
  BY <1>0, <1>a DEF Carries, Upward
<1>2. y # Null
  BY <1>0, <1>1, Allocated DEF Stands
<1>3. Truthful(low, r) /\ r.level = t /\ r.lo = 1 /\ SibOf(r) = Null
  <2>1. PICK q : q = [ZeroNode EXCEPT !.level = t, !.leftmost = a]
    OBVIOUS
  <2>2. /\ q.level = t /\ q.leftmost = a /\ q.lo = 1 /\ q.hi = KeyMax + 1
        /\ q.sib = Null /\ q.sibleft = Null /\ q.recs = [k \in Keys |-> Null]
    BY <2>1 DEF ZeroNode
  <2>3. Truthful(low, q)
    <3>1. Seps(q) = {}
      BY <2>2 DEF Seps
    <3> QED BY <1>1, <2>2, <3>1 DEF Truthful
  <2>4. q \in Node
    <3>1. a \in AddrOrNull
      BY <1>0, <1>a, Parts
    <3> QED BY <1>0, <2>1, <3>1, InitialValues DEF Node
  <2>5. r = WithSeparator(q, s, y)
    BY <1>b, <2>1 DEF RootOver
  <2>6. /\ Truthful(low, WithSeparator(q, s, y))
        /\ WithSeparator(q, s, y).level = q.level
        /\ WithSeparator(q, s, y).lo = q.lo /\ WithSeparator(q, s, y).sib = q.sib
    <3>1. q.lo <= s /\ s < q.hi
      BY <1>0, <2>2 DEF Keys
    <3> QED BY <1>0, <1>1, <1>2, <2>2, <2>3, <2>4, <3>1, SeparatorTrue
  <2> QED BY <2>2, <2>5, <2>6 DEF SibOf
<1>4. /\ z \in Addrs /\ mem'[z] = r /\ z \in 1..top' /\ z \notin 1..top /\ z # Null
      /\ \A b \in 1..top : b # z /\ b \in 1..top' /\ mem'[b] = mem[b]
      /\ \A b \in 1..top' : b \in 1..top \/ b = z
  BY <1>0, <1>a, AddsNode
<1>5. /\ cl'[c].op = cl[c].op /\ cl'[c].lin = cl[c].lin /\ cl'[c].ret = cl[c].ret
      /\ cl'[c].path = cl[c].path /\ cl'[c].tl = t
      /\ cl'[c].sk = s /\ cl'[c].sp = y
      /\ \A d \in Clients \ {c} : cl'[d] = cl[d]
      /\ \/ /\ cl'[c].pc = "done"
            /\ root' = [level |-> t + 1, ptr |-> z]
         \/ /\ cl'[c].pc = "ii_next" /\ cl'[c].p = ro.ptr /\ cl'[c].level = ro.level
            /\ cl'[c].fc = FALSE /\ root' = root
  <2>1. CASE root = [level |-> t, ptr |-> a]
    <3>1. /\ cl'[c] = [cl[c] EXCEPT !.pc = "done"]
          /\ \A d \in Clients \ {c} : cl'[d] = cl[d]
      BY <1>0, <1>a, <2>1, BecomeIs DEF NewRoot
    <3>2. root' = [level |-> t + 1, ptr |-> z]
      BY <1>a, <2>1 DEF NewRoot
    <3>3. /\ cl'[c].op = cl[c].op /\ cl'[c].lin = cl[c].lin /\ cl'[c].ret = cl[c].ret
          /\ cl'[c].path = cl[c].path /\ cl'[c].tl = t
          /\ cl'[c].sk = s /\ cl'[c].sp = y /\ cl'[c].pc = "done"
      BY <1>0, <1>a, <3>1 DEF Locals
    <3> QED BY <3>1, <3>2, <3>3
  <2>2. CASE root # [level |-> t, ptr |-> a]
    <3>1. /\ cl'[c] = [cl[c] EXCEPT !.pc = "ii_next", !.p = ro.ptr, !.sibp = Null,
                                    !.level = ro.level, !.fc = FALSE]
          /\ \A d \in Clients \ {c} : cl'[d] = cl[d]
      BY <1>0, <1>a, <2>2, BecomeIs DEF NewRoot
    <3>2. root' = root
      BY <1>a, <2>2 DEF NewRoot
    <3>3. /\ cl'[c].op = cl[c].op /\ cl'[c].lin = cl[c].lin /\ cl'[c].ret = cl[c].ret
          /\ cl'[c].path = cl[c].path /\ cl'[c].tl = t
          /\ cl'[c].sk = s /\ cl'[c].sp = y /\ cl'[c].pc = "ii_next"
          /\ cl'[c].p = ro.ptr /\ cl'[c].level = ro.level /\ cl'[c].fc = FALSE
      BY <1>0, <1>a, <3>1 DEF Locals
    <3> QED BY <3>1, <3>2, <3>3
  <2> QED BY <2>1, <2>2
<1>6. Grows(low, low) /\ Tiling(low)' /\ OwnSibling' /\ SameStore
  <2>1. /\ cl[c].pc # "leaf_split" /\ cl'[c].pc # "leaf_split" /\ top <= top'
        /\ \A b \in 1..top' : b \in 1..top \/ mem'[b].level > 0
    BY <1>0, <1>1, <1>3, <1>4, <1>5, Allocated
  <2>2. \A b \in 1..top : /\ mem'[b].level = mem[b].level /\ mem'[b].lo = mem[b].lo
                          /\ mem[b].level = 0 => mem'[b] = mem[b]
    BY <1>4
  <2> QED BY <1>5, <2>1, <2>2, InternalWrite
<1>k. /\ \A b, l : OfLevel(b, l) => OfLevel(b, l)'
      /\ \A b, x, l : Stands(low, b, x, l) => Stands(low, b, x, l)'
      /\ \A w : Truthful(low, w) => Truthful(low, w)'
  BY <1>0, <1>6, Kept
<1>7. ro.level > 0 /\ ro.level \in Nat /\ Stands(low, ro.ptr, 1, ro.level - 1)
  BY <1>0, <1>a, Parts DEF Routing
<1>8. root'.level > 0 /\ Stands(low, root.ptr, 1, root.level - 1)'
  <2>1. CASE root' = [level |-> t + 1, ptr |-> z]
    <3>1. Stands(low, z, 1, t)'
      BY <1>0, <1>1, <1>3, <1>4 DEF Stands
    <3>2. root'.ptr = z /\ root'.level - 1 = t /\ root'.level > 0
      BY <1>0, <2>1
    <3> QED BY <3>1, <3>2
  <2>2. CASE root' = root
    <3>1. Stands(low, ro.ptr, 1, ro.level - 1)' /\ root' = ro
      BY <1>a, <1>7, <1>k, <2>2
    <3> QED BY <1>7, <3>1
  <2> QED BY <1>5, <2>1, <2>2
<1>9. Routing(low)'
  <2>1. ASSUME NEW b \in 1..top', mem'[b].level > 0
        PROVE  Truthful(low, mem[b])' /\ OfLevel(SibOf(mem[b]), mem[b].level)'
    <3>1. CASE b = z
      <4>1. OfLevel(Null, r.level)
        BY DEF OfLevel
      <4>2. Truthful(low, r)' /\ OfLevel(SibOf(r), r.level)'
        BY <1>3, <1>k, <4>1
      <4> QED BY <1>4, <3>1, <4>2
    <3>2. CASE b \in 1..top
      <4>1. PICK w : w = mem[b]
        OBVIOUS
      <4>2. mem'[b] = w /\ Truthful(low, w) /\ OfLevel(SibOf(w), w.level)
        BY <1>0, <1>4, <2>1, <3>2, <4>1 DEF Routing
      <4>3. Truthful(low, w)' /\ OfLevel(SibOf(w), w.level)'
        BY <1>k, <4>2
      <4> QED BY <4>2, <4>3
    <3> QED BY <1>4, <3>1, <3>2
  <2> QED BY <1>8, <2>1 DEF Routing
<1>10. Effect(c)' /\ Halves(low, c)'
  BY <1>0, <1>5 DEF Effect, Halves, Upward
<1>11. Guided(low, c)'
  <2>1. \A j \in 1..MaxHeight : OfLevel(cl[c].path[j], j - 1)'
    <3>1. PICK pa : pa = cl[c].path
      OBVIOUS
    <3>2. \A j \in 1..MaxHeight : OfLevel(pa[j], j - 1)'
      BY <1>0, <1>k, <3>1 DEF Guided
    <3> QED BY <1>5, <3>1, <3>2
  <2>2. OfLevel(ro.ptr, ro.level - 1)'
    BY <1>7, <1>k, StandsMeans
  <2> QED BY <1>5, <1>7, <2>1, <2>2 DEF Guided, LeafLevel
<1>12. Carries(low, c)'
  <2>1. Stands(low, y, s, t - 1)'
    BY <1>1, <1>k
  <2> QED BY <1>1, <1>5, <2>1 DEF Carries, Upward
<1>13. ASSUME NEW d \in Clients \ {c}
       PROVE  /\ cl[d].pc \in {"leaf_split", "internal_split"} =>
                   mem'[cl[d].p] = mem[cl[d].p]
              /\ cl[d].pc = "leaf_split" => mem'[cl[d].nsp] = mem[cl[d].nsp]
  BY <1>4, Apart
<1>14. Placed(low, c)'
  BY <1>10, <1>11, <1>12 DEF Placed
<1> QED BY <1>0, <1>5, <1>6, <1>9, <1>10, <1>13, <1>14, StepKept

\* The barrier and stuttering move nobody.
LEMMA NobodyMoves ==
  ASSUME TypeOK, NEW low, RangeInv(low),
         mem' = mem, top' = top, root' = root, cache' = cache, cl' = cl
  PROVE  Preserved(low, low)
<1>1. /\ \A a : Settled(a)' <=> Settled(a)
      /\ \A a : End(low, a)' = End(low, a)
      /\ \A a, l : OfLevel(a, l)' <=> OfLevel(a, l)
  BY DEF Settled, Fresh, End, OfLevel
<1>2. \A a, s, l : Stands(low, a, s, l)' <=> Stands(low, a, s, l)
  BY <1>1 DEF Stands
<1>3. \A n : Truthful(low, n)' <=> Truthful(low, n)
  BY <1>2 DEF Truthful
<1>4. \A a : LeafRange(low, a)' <=> LeafRange(low, a)
  BY <1>1 DEF LeafRange
<1>5. Tiling(low)' /\ OwnSibling'
  BY <1>1, <1>4 DEF RangeInv, Tiling, OwnSibling
<1>6. Routing(low)' /\ CachesTrue(low)'
  BY <1>1, <1>2, <1>3 DEF RangeInv, Routing, CachesTrue, Live
<1>7. ASSUME NEW c \in Clients PROVE Placed(low, c)' /\ Effect(c)'
  <2>1. Guided(low, c)'
    BY <1>1 DEF RangeInv, Placed, Guided, LeafLevel
  <2>2. Carries(low, c)'
    BY <1>1, <1>2 DEF RangeInv, Placed, Carries
  <2>3. Halves(low, c)'
    BY <1>1, <1>2 DEF RangeInv, Placed, Halves, Overfull
  <2>4. Effect(c)'
    BY DEF RangeInv, Effect
  <2> QED BY <2>1, <2>2, <2>3, <2>4 DEF Placed
<1>8. Grows(low, low)
  BY <1>1, Allocated DEF Grows
<1> QED BY <1>5, <1>6, <1>7, <1>8 DEF RangeInv, Preserved

\* Every step keeps the ranges and what is said of them.
LEMMA StepRange ==
  ASSUME TreeInv, [Next]_vars, NEW low, RangeInv(low)
  PROVE  \E new : Preserved(low, new)
<1>0. TreeInv' /\ TypeOK' /\ TypeOK
  BY StepInv DEF TreeInv
<1>1. ASSUME NEW c \in Clients, Step(c) PROVE \E new : Preserved(low, new)
  <2>1. CASE Traverse(c)
    BY <1>0, <2>1, TraverseKeeps
  <2>2. CASE LeafStep(c)
    <3>1. CASE LeafInsertWrite(c) \/ LeafUpdateWrite(c)
      BY <1>0, <3>1, LeafWriteKeeps
    <3>2. CASE LeafSplitSibling(c)
      BY <1>0, <3>2, LeafSplitSiblingKeeps
    <3>3. CASE LeafSplitCommit(c)
      BY <1>0, <3>3, LeafSplitCommitKeeps
    <3>4. CASE \/ LeafStale(c) \/ LeafInsertRight(c) \/ LeafUpdateRight(c)
               \/ LeafSearchStale(c) \/ LeafSearchFound(c) \/ LeafSearchOn(c)
      BY <1>0, <3>4, LeafReadKeeps
    <3> QED BY <2>2, <3>1, <3>2, <3>3, <3>4 DEF LeafStep
  <2>3. CASE ParentStep(c)
    <3>1. CASE InternalInsertWrite(c)
      BY <1>0, <3>1, InternalInsertWriteKeeps
    <3>2. CASE InternalSplitSibling(c)
      BY <1>0, <3>2, InternalSplitSiblingKeeps
    <3>3. CASE InternalSplitCommit(c)
      BY <1>0, <3>3, InternalSplitCommitKeeps
    <3>4. CASE NewRoot(c)
      BY <1>0, <3>4, NewRootKeeps
    <3>5. CASE InternalInsertStale(c) \/ InternalInsertRight(c)
      BY <1>0, <3>5, OtherReadKeeps
    <3> QED BY <2>3, <3>1, <3>2, <3>3, <3>4, <3>5 DEF ParentStep
  <2>4. CASE Start(c) \/ LockNode(c) \/ Finish(c)
    BY <1>0, <2>4, OtherReadKeeps
  <2> QED BY <1>1, <2>1, <2>2, <2>3, <2>4 DEF Step
<1>2. CASE Barrier
  BY <1>0, <1>2, NobodyMoves DEF Barrier
<1>3. CASE UNCHANGED vars
  BY <1>0, <1>3, NobodyMoves DEF vars
<1> QED BY <1>1, <1>2, <1>3 DEF Next, Terminated

\* The invariant is inductive.
LEMMA InitIndex == Init => IndexInv
BY InitInv, InitRange DEF IndexInv

\* Every step, stuttering included, keeps the invariant.
LEMMA StepIndex == IndexInv /\ [Next]_vars => IndexInv'
<1> SUFFICES ASSUME IndexInv, [Next]_vars PROVE IndexInv'
  OBVIOUS
<1>1. PICK low : RangeInv(low)
  BY DEF IndexInv
<1>2. TreeInv /\ TreeInv'
  BY StepInv DEF IndexInv
<1>3. PICK new : Preserved(low, new)
  BY <1>1, <1>2, StepRange
<1> QED BY <1>2, <1>3 DEF IndexInv, Preserved

-----------------------------------------------------------------------------
(* The leaf chain *)

\* Splits keep the leaf chain a partition of the key space, for any number of
\* clients, nodes, keys and any workload: every linked leaf has records, all
\* below those of its sibling, and only the last one holds the ghost key.
THEOREM ChainOrdered == Spec => []LeafChainOrdered
<1>1. IndexInv => LeafChainOrdered
  BY ChainFromRanges DEF IndexInv, TreeInv
<1> QED BY <1>1, InitIndex, StepIndex, PTL DEF Spec

\* The facts about settled leaves hold after a step as well as before it.
RangeFacts ==
  TypeOK => \A low : RangeInv(low) =>
    /\ \A a : a \in LinkedLeaves <=> Settled(a)
    /\ \A a : Settled(a) =>
         /\ a \in Addrs /\ low[a] \in Nat /\ End(low, a) \in Nat
         /\ low[a] < End(low, a) /\ End(low, a) <= KeyMax + 1
         /\ \A k \in Present(mem[a].kv) : low[a] <= k /\ k < End(low, a)
         /\ \A k \in Keys : Owns(a, k) <=> low[a] <= k /\ k < End(low, a)
    /\ \A a, b \in Addrs : Settled(a) /\ Settled(b) /\ a # b =>
         End(low, a) <= low[b] \/ End(low, b) <= low[a]

\* The facts follow from the types and the ranges.
LEMMA RangeFactsHold == RangeFacts
<1> SUFFICES ASSUME TypeOK, NEW low, RangeInv(low)
             PROVE  /\ \A a : a \in LinkedLeaves <=> Settled(a)
                    /\ \A a : Settled(a) =>
                         /\ a \in Addrs /\ low[a] \in Nat /\ End(low, a) \in Nat
                         /\ low[a] < End(low, a) /\ End(low, a) <= KeyMax + 1
                         /\ \A k \in Present(mem[a].kv) :
                              low[a] <= k /\ k < End(low, a)
                         /\ \A k \in Keys :
                              Owns(a, k) <=> low[a] <= k /\ k < End(low, a)
                    /\ \A a, b \in Addrs : Settled(a) /\ Settled(b) /\ a # b =>
                         End(low, a) <= low[b] \/ End(low, b) <= low[a]
  BY DEF RangeFacts
<1>1. \A a : a \in LinkedLeaves <=> Settled(a)
  BY LinkedIsSettled
<1>2. ASSUME NEW a, Settled(a)
      PROVE  /\ a \in Addrs /\ low[a] \in Nat /\ End(low, a) \in Nat
             /\ low[a] < End(low, a) /\ End(low, a) <= KeyMax + 1
             /\ \A k \in Present(mem[a].kv) : low[a] <= k /\ k < End(low, a)
  BY <1>2, LeafFacts DEF Keys
<1>3. ASSUME NEW a, Settled(a), NEW k \in Keys
      PROVE  Owns(a, k) <=> low[a] <= k /\ k < End(low, a)
  BY <1>3, OwnsRange
<1>4. \A a, b \in Addrs : Settled(a) /\ Settled(b) /\ a # b =>
        End(low, a) <= low[b] \/ End(low, b) <= low[a]
  BY DEF RangeInv, Tiling
<1> QED BY <1>1, <1>2, <1>3, <1>4

\* They follow in the state after a step as well.
LEMMA RangeFactsNext == RangeFacts'
BY RangeFactsHold, PTL

\* A leaf that is linked before and after a step begins where it began and

\* ends where it ended or earlier: it meets the next leaf at the same key.
LEMMA EndShrinks ==
  ASSUME TypeOK, TypeOK', NEW low, NEW new, RangeInv(low), RangeInv(new)',
         Grows(low, new), NEW a, Settled(a)
  PROVE  /\ Settled(a)' /\ new[a] = low[a]
         /\ End(new, a)' <= End(low, a)
<1>1. Settled(a)' /\ new[a] = low[a]
  BY DEF Grows, Settled
<1>2. /\ a \in Addrs /\ low[a] \in Nat /\ End(low, a) \in Nat
      /\ low[a] < End(low, a)
      /\ End(low, a) = KeyMax + 1 <=> SibOf(mem[a]) = Null
  BY LeafFacts DEF Keys
<1>3. /\ End(new, a)' \in Nat /\ End(new, a)' <= KeyMax + 1
  BY <1>1, RangeFactsNext DEF RangeFacts
<1>4. CASE SibOf(mem[a]) = Null
  BY <1>1, <1>2, <1>3, <1>4
<1>5. CASE SibOf(mem[a]) # Null
  <2>1. PICK b : b = SibOf(mem[a])
    OBVIOUS
  <2>2. Settled(b) /\ End(low, a) = low[b]
    BY <1>5, <2>1 DEF RangeInv, Tiling, LeafRange, Settled, End
  <2>3. Settled(b)' /\ new[b] = low[b] /\ b \in Addrs
    BY <2>2, Allocated DEF Grows, Settled
  <2>4. End(new, b)' \in Nat /\ new[b] < End(new, b)' /\ new[b] \in Nat
    BY <2>3, RangeFactsNext DEF RangeFacts
  <2>5. End(new, a)' <= new[b] \/ End(new, b)' <= new[a]
    <3>1. a # b
      BY <1>2, <2>2
    <3> QED BY <1>1, <1>2, <2>3, <3>1 DEF RangeInv, Tiling
  <2> QED BY <1>1, <1>2, <1>3, <2>2, <2>3, <2>4, <2>5
<1> QED BY <1>1, <1>4, <1>5

\* A leaf gives keys away when it splits and never gets one back, whatever the
\* clients do: a pointer to a leaf, however old, leads to the key or to its left.
THEOREM RangesShrink == Spec => RangesOnlyShrink
<1>1. ASSUME IndexInv, [Next]_vars
      PROVE  [\A a \in LinkedLeaves, k \in Keys : Owns(a, k)' => Owns(a, k)]_vars
  <2>1. PICK low : RangeInv(low)
    BY <1>1 DEF IndexInv
  <2>2. TreeInv /\ TypeOK /\ TypeOK'
    BY <1>1, StepInv DEF IndexInv, TreeInv
  <2>3. PICK new : RangeInv(new)' /\ Grows(low, new)
    BY <1>1, <2>1, <2>2, StepRange DEF Preserved
  <2>4. ASSUME NEW a \in LinkedLeaves, NEW k \in Keys, Owns(a, k)' PROVE Owns(a, k)
    <3>1. Settled(a)
      BY <2>1, <2>2, LinkedIsSettled
    <3>2. new[a] = low[a] /\ End(new, a)' <= End(low, a) /\ Settled(a)'
      BY <2>1, <2>2, <2>3, <3>1, EndShrinks
    <3>3. new[a] <= k /\ k < End(new, a)'
      BY <2>2, <2>3, <2>4, <3>2, RangeFactsNext DEF RangeFacts
    <3>4. End(low, a) \in Nat
      BY <2>1, <2>2, <3>1, LeafFacts
    <3>5. End(new, a)' \in Nat
      BY <2>2, <2>3, <3>2, RangeFactsNext DEF RangeFacts
    <3>6. low[a] <= k /\ k < End(low, a)
      BY <3>2, <3>3, <3>4, <3>5 DEF Keys
    <3> QED BY <2>1, <2>2, <3>1, <3>6, OwnsRange
  <2> QED BY <2>4
<1> QED BY <1>1, InitIndex, StepIndex, PTL DEF Spec, RangesOnlyShrink

-----------------------------------------------------------------------------
(* Separators *)

\* What a node in memory or in a cache says of its children: each separator lies
\* in the node's range and its child begins there, the leftmost child begins
\* where the node does, and the next node's leftmost child where it ends.
\* (SeparatorsRoute says the same and that no separator equals the lower fence.)
SeparatorsTrue ==
  \A n \in Routers :
    /\ \A s \in Seps(n) : n.lo <= s /\ s < n.hi /\ StandsAt(n, n.recs[s], s)
    /\ StandsAt(n, n.leftmost, n.lo)
    /\ n.hi <= KeyMax => StandsAt(n, n.sibleft, n.hi)

\* A truthful node's child stands where ChimeTree says it does.
LEMMA StandsIsStandsAt ==
  ASSUME TypeOK, NEW low, RangeInv(low), NEW n, n.level \in Nat, n.level > 0,
         NEW a, NEW s, Stands(low, a, s, n.level - 1)
  PROVE  StandsAt(n, a, s)
<1>1. CASE n.level = 1
  <2>1. Settled(a) /\ low[a] = s /\ a \in 1..top /\ mem[a].level = 0
    BY <1>1 DEF Stands
  <2>2. low[a] \in Keys /\ low[a] < End(low, a)
    BY <2>1, LeafFacts
  <2>3. Owns(a, s)
    BY <2>1, <2>2, OwnsRange DEF Keys
  <2> QED BY <1>1, <2>1, <2>3 DEF StandsAt
<1>2. CASE n.level # 1
  BY <1>2 DEF Stands, StandsAt
<1> QED BY <1>1, <1>2

\* Separators never lie, not even in a stale cached copy and not while splits of
\* neighbours overtake each other on their way to the parent.
THEOREM SeparatorsNeverLie == Spec => []SeparatorsTrue
<1>1. ASSUME IndexInv PROVE SeparatorsTrue
  <2>1. PICK low : RangeInv(low)
    BY <1>1 DEF IndexInv
  <2>2. TypeOK
    BY <1>1 DEF IndexInv, TreeInv
  <2>3. ASSUME NEW n \in Routers PROVE Truthful(low, n) /\ n.level \in Nat
    <3>1. CASE \E b \in 1..top : mem[b].level > 0 /\ n = mem[b]
      BY <2>1, <2>2, <3>1, Allocated DEF RangeInv, Routing, Node
    <3>2. CASE \E cn \in CNs : \E e \in Live(cn) : n = e.node
      <4>1. PICK cn \in CNs : \E e \in Live(cn) : n = e.node
        BY <3>2
      <4>2. PICK e \in Live(cn) : n = e.node
        BY <4>1
      <4>3. e \in Entry /\ e.node # NoNode
        BY <2>2, <4>2 DEF Live, TypeOK
      <4>4. e.node \in Node
        BY <4>3 DEF Entry
      <4> QED BY <2>1, <4>2, <4>4 DEF RangeInv, CachesTrue, Node
    <3> QED BY <3>1, <3>2 DEF Routers
  <2>4. ASSUME NEW n \in Routers
        PROVE  /\ \A s \in Seps(n) : n.lo <= s /\ s < n.hi /\ StandsAt(n, n.recs[s], s)
               /\ StandsAt(n, n.leftmost, n.lo)
               /\ n.hi <= KeyMax => StandsAt(n, n.sibleft, n.hi)
    <3>1. Truthful(low, n) /\ n.level \in Nat /\ n.level > 0 /\ KeyMax \in Nat
      BY <2>3, TreeConstants DEF Truthful
    <3>2. \A a, s : Stands(low, a, s, n.level - 1) => StandsAt(n, a, s)
      BY <2>1, <2>2, <3>1, StandsIsStandsAt
    <3> QED BY <3>1, <3>2 DEF Truthful
  <2> QED BY <2>4 DEF SeparatorsTrue
<1> QED BY <1>1, InitIndex, StepIndex, PTL DEF Spec

-----------------------------------------------------------------------------
(* The index above the leaves *)

\* x is a child of the internal node n.
Kid(n, x) == n.leftmost = x \/ \E s \in Seps(n) : n.recs[s] = x

\* The node a client writes back when it commits the split of its parent.
Committed(c) ==
  LET left == LeftInternal(mem[cl[c].p], cl[c].nsk, cl[c].nsp) IN
  IF cl[c].sk < cl[c].nsk THEN WithSeparator(left, cl[c].sk, cl[c].sp) ELSE left

\* Two images of a node agree on its place in the index.
SameIndex(x, n) ==
  /\ x.level = n.level /\ x.lo = n.lo /\ x.hi = n.hi
  /\ x.recs = n.recs /\ x.leftmost = n.leftmost

\* ix shows every node as it will be once the splits under way are committed.
Shows(ix) ==
  /\ ix \in [Addrs -> Node]
  /\ \A a \in 1..top :
       (\A c \in Clients : cl[c].pc = "internal_split" => cl[c].p # a)
         => SameIndex(ix[a], mem[a])
  /\ \A c \in Clients :
       cl[c].pc = "internal_split" => SameIndex(ix[cl[c].p], Committed(c))

\* The node, if any, that client c has yet to put under a parent.
Pend == [c \in Clients |->
           IF cl[c].pc \in {"leaf_split", "internal_split"} THEN cl[c].nsp
           ELSE IF cl[c].pc \in Upward THEN cl[c].sp ELSE Null]

\* The internal nodes: their separators lie inside their range, their children
\* are nodes, and nodes of one level do not overlap.
Inner(ix, tp) ==
  /\ \A b \in 1..tp : ix[b].level > 0 =>
       /\ ix[b].lo < ix[b].hi
       /\ \A s \in Seps(ix[b]) : ix[b].lo < s /\ s < ix[b].hi
       /\ \A x : Kid(ix[b], x) => x \in 1..tp
  /\ \A a, b \in 1..tp : a # b /\ ix[a].level = ix[b].level /\ ix[a].level > 0 =>
       ix[a].hi <= ix[b].lo \/ ix[b].hi <= ix[a].lo

\* A pending node has no parent, is not the root and is one client's only.
Loose(ix, pend, rt, tp) ==
  \A c \in Clients : pend[c] # Null =>
    /\ pend[c] \in 1..tp /\ pend[c] # rt.ptr
    /\ \A b \in 1..tp : ix[b].level > 0 => ~Kid(ix[b], pend[c])
    /\ \A d \in Clients : pend[d] = pend[c] => d = c

\* Every node is the root, pending, or under a parent of the next level.
Rooted(ix, pend, rt, tp) ==
  /\ rt.ptr \in 1..tp /\ rt.level \in Nat
  /\ \A b \in 1..tp : ix[b].level < rt.level
  /\ \A a \in 1..tp : \/ a = rt.ptr
                      \/ \E c \in Clients : pend[c] = a
                      \/ \E b \in 1..tp : ix[b].level = ix[a].level + 1 /\ Kid(ix[b], a)

Shape(ix, pend, rt, tp) ==
  Inner(ix, tp) /\ Loose(ix, pend, rt, tp) /\ Rooted(ix, pend, rt, tp)

\* The numbers of a node.
LEMMA Numbers ==
  ASSUME NEW n \in Node
  PROVE  /\ n.level \in Nat /\ n.lo \in Nat /\ n.hi \in Nat /\ n.lo >= 1
         /\ n.recs \in [Keys -> AddrOrNull] /\ \A s \in Seps(n) : s \in Nat
BY TreeConstants DEF Node, Fences, Keys, Seps

\* A new leaf that its writer keeps to itself.
LEMMA ShapeLeaf ==
  ASSUME NEW ix, NEW new, NEW pend, NEW pen2, NEW rt, NEW tp \in Nat,
         NEW c \in Clients, Shape(ix, pend, rt, tp),
         \A b \in 1..tp : ix[b].level \in Nat,
         pend[c] = Null, pen2[c] = tp + 1,
         \A d \in Clients \ {c} : pen2[d] = pend[d],
         \A b \in 1..tp : new[b] = ix[b], new[tp + 1].level = 0
  PROVE  Shape(new, pen2, rt, tp + 1)
<1>0. Inner(ix, tp) /\ Loose(ix, pend, rt, tp) /\ Rooted(ix, pend, rt, tp)
  BY DEF Shape
<1>1. /\ \A b \in 1..tp : b \in 1..(tp + 1) /\ b # tp + 1
      /\ \A b \in 1..(tp + 1) : b \in 1..tp \/ b = tp + 1
      /\ tp + 1 \in 1..(tp + 1) /\ tp + 1 # Null /\ tp + 1 \notin 1..tp
  BY DEF Null
<1>2. Inner(new, tp + 1)
  <2>1. \A b \in 1..(tp + 1) : new[b].level > 0 => b \in 1..tp /\ new[b] = ix[b]
    BY <1>1
  <2>2. ASSUME NEW b \in 1..(tp + 1), new[b].level > 0
        PROVE  /\ new[b].lo < new[b].hi
               /\ \A s \in Seps(new[b]) : new[b].lo < s /\ s < new[b].hi
               /\ \A x : Kid(new[b], x) => x \in 1..(tp + 1)
    BY <1>0, <1>1, <2>1, <2>2 DEF Inner
  <2>3. ASSUME NEW a \in 1..(tp + 1), NEW b \in 1..(tp + 1), a # b,
               new[a].level = new[b].level, new[a].level > 0
        PROVE  new[a].hi <= new[b].lo \/ new[b].hi <= new[a].lo
    <3>1. a \in 1..tp /\ b \in 1..tp /\ new[a] = ix[a] /\ new[b] = ix[b]
      BY <2>1, <2>3
    <3> QED BY <1>0, <2>3, <3>1 DEF Inner
  <2> QED BY <2>2, <2>3 DEF Inner
<1>3. Loose(new, pen2, rt, tp + 1)
  <2>1. ASSUME NEW d \in Clients, pen2[d] # Null
        PROVE  /\ pen2[d] \in 1..(tp + 1) /\ pen2[d] # rt.ptr
               /\ \A b \in 1..(tp + 1) : new[b].level > 0 => ~Kid(new[b], pen2[d])
    <3>1. CASE d = c
      BY <1>0, <1>1, <3>1 DEF Inner, Rooted
    <3>2. CASE d # c
      BY <1>0, <1>1, <2>1, <3>2 DEF Loose
    <3> QED BY <3>1, <3>2
  <2>2. ASSUME NEW d \in Clients, NEW e \in Clients, pen2[d] # Null, pen2[e] = pen2[d]
        PROVE  e = d
    <3>1. CASE d # c /\ e # c
      BY <1>0, <2>2, <3>1 DEF Loose
    <3>2. ASSUME NEW f \in Clients, f # c, pen2[f] # Null PROVE pen2[f] # pen2[c]
      BY <1>0, <1>1, <3>2 DEF Loose
    <3> QED BY <2>2, <3>1, <3>2
  <2> QED BY <2>1, <2>2 DEF Loose
<1>4. Rooted(new, pen2, rt, tp + 1)
  <2>1. ASSUME NEW b \in 1..(tp + 1) PROVE new[b].level < rt.level
    BY <1>0, <1>1 DEF Rooted
  <2>2. ASSUME NEW a \in 1..tp, a # rt.ptr, ~\E d \in Clients : pen2[d] = a
        PROVE  \E b \in 1..(tp + 1) : new[b].level = new[a].level + 1 /\ Kid(new[b], a)
    <3>1. a # Null
      BY DEF Null
    <3>2. ~\E d \in Clients : pend[d] = a
      BY <2>2, <3>1
    <3>3. PICK b \in 1..tp : ix[b].level = ix[a].level + 1 /\ Kid(ix[b], a)
      BY <1>0, <2>2, <3>2 DEF Rooted
    <3>4. b \in 1..(tp + 1) /\ new[b] = ix[b] /\ new[a] = ix[a]
      BY <1>1
    <3> QED BY <3>3, <3>4
  <2> QED BY <1>0, <1>1, <2>1, <2>2 DEF Rooted
<1> QED BY <1>2, <1>3, <1>4 DEF Shape

\* A pending node joins a parent.
LEMMA ShapeJoin ==
  ASSUME NEW ix, NEW new, NEW pend, NEW pen2, NEW rt, NEW tp \in Nat,
         NEW c \in Clients, NEW p \in 1..tp, NEW s \in Nat, NEW y \in 1..tp,
         Shape(ix, pend, rt, tp), pend[c] = y, y # Null, pen2[c] = Null,
         \A d \in Clients \ {c} : pen2[d] = pend[d],
         \A b \in 1..tp : b # p => new[b] = ix[b],
         ix[p].level > 0, ix[p].level = ix[y].level + 1,
         new[p].level = ix[p].level, new[p].lo = ix[p].lo, new[p].hi = ix[p].hi,
         \A t \in Seps(new[p]) : t \in Seps(ix[p]) \/ t = s,
         ix[p].lo < s, s < ix[p].hi,
         \A x : Kid(new[p], x) <=> Kid(ix[p], x) \/ x = y
  PROVE  Shape(new, pen2, rt, tp)
<1>0. Inner(ix, tp) /\ Loose(ix, pend, rt, tp) /\ Rooted(ix, pend, rt, tp)
  BY DEF Shape
<1>1. /\ \A b \in 1..tp : /\ new[b].level = ix[b].level /\ new[b].lo = ix[b].lo
                          /\ new[b].hi = ix[b].hi
                          /\ \A x : Kid(ix[b], x) => Kid(new[b], x)
                          /\ \A x : Kid(new[b], x) => Kid(ix[b], x) \/ x = y
      /\ y \in 1..tp /\ \A d \in Clients : pend[d] = y => d = c
  BY <1>0 DEF Loose
<1>2. Inner(new, tp)
  <2>1. ASSUME NEW b \in 1..tp, new[b].level > 0
        PROVE  \A t \in Seps(new[b]) : new[b].lo < t /\ t < new[b].hi
    <3>1. CASE b = p
      BY <1>0, <3>1 DEF Inner
    <3>2. CASE b # p
      BY <1>0, <2>1, <3>2 DEF Inner
    <3> QED BY <3>1, <3>2
  <2> QED BY <1>0, <1>1, <2>1 DEF Inner
<1>3. Loose(new, pen2, rt, tp)
  <2>1. \A d \in Clients : pen2[d] # Null => d # c /\ pen2[d] = pend[d] /\ pend[d] # y
    BY <1>1
  <2> QED BY <1>0, <1>1, <2>1 DEF Loose
<1>4. Rooted(new, pen2, rt, tp)
  <2>1. ASSUME NEW a \in 1..tp, a # rt.ptr, ~\E d \in Clients : pen2[d] = a
        PROVE  \E b \in 1..tp : new[b].level = new[a].level + 1 /\ Kid(new[b], a)
    <3>1. CASE a = y
      BY <1>1, <3>1
    <3>2. CASE a # y
      <4>1. ~\E d \in Clients : pend[d] = a
        BY <2>1, <3>2
      <4>2. PICK b \in 1..tp : ix[b].level = ix[a].level + 1 /\ Kid(ix[b], a)
        BY <1>0, <2>1, <4>1 DEF Rooted
      <4> QED BY <1>1, <4>2
    <3> QED BY <3>1, <3>2
  <2> QED BY <1>0, <1>1, <2>1 DEF Rooted
<1> QED BY <1>2, <1>3, <1>4 DEF Shape

\* An internal node is divided at m; the right half is pending.
LEMMA ShapeSplit ==
  ASSUME NEW ix, NEW new, NEW pend, NEW pen2, NEW rt, NEW tp \in Nat,
         NEW c \in Clients, NEW p \in 1..tp, NEW m \in Nat, NEW z,
         Shape(ix, pend, rt, tp),
         \A b \in 1..tp : ix[b].level \in Nat /\ ix[b].lo \in Nat /\ ix[b].hi \in Nat,
         z = tp + 1, pend[c] = Null, pen2[c] = z,
         \A d \in Clients \ {c} : pen2[d] = pend[d],
         \A b \in 1..tp : b # p => new[b] = ix[b],
         ix[p].level > 0, ix[p].lo < m, m < ix[p].hi,
         new[p].level = ix[p].level, new[p].lo = ix[p].lo, new[p].hi = m,
         new[z].level = ix[p].level, new[z].lo = m, new[z].hi = ix[p].hi,
         \A t \in Seps(new[p]) : t \in Seps(ix[p]) /\ t < m,
         \A t \in Seps(new[z]) : t \in Seps(ix[p]) /\ m < t,
         \A x : Kid(ix[p], x) <=> Kid(new[p], x) \/ Kid(new[z], x)
  PROVE  Shape(new, pen2, rt, tp + 1)
<1>0. Inner(ix, tp) /\ Loose(ix, pend, rt, tp) /\ Rooted(ix, pend, rt, tp)
  BY DEF Shape
<1>1. /\ \A b \in 1..tp : b \in 1..(tp + 1) /\ b # z
      /\ \A b \in 1..(tp + 1) : b \in 1..tp \/ b = z
      /\ z \in 1..(tp + 1) /\ z # Null /\ z \notin 1..tp /\ p \in 1..(tp + 1) /\ p # z
  BY DEF Null
<1>2. /\ \A b \in 1..tp : new[b].level = ix[b].level /\ new[b].lo = ix[b].lo
      /\ \A b \in 1..tp : ix[b].level > 0 => \A x : Kid(new[b], x) => Kid(ix[b], x)
  <2>1. ASSUME NEW b \in 1..tp
        PROVE  /\ new[b].level = ix[b].level /\ new[b].lo = ix[b].lo
               /\ ix[b].level > 0 => \A x : Kid(new[b], x) => Kid(ix[b], x)
    <3>1. CASE b = p
      BY <3>1
    <3>2. CASE b # p
      BY <3>2
    <3> QED BY <3>1, <3>2
  <2> QED BY <2>1
<1>3. ASSUME NEW b \in 1..(tp + 1), new[b].level > 0
      PROVE  \E a \in 1..tp : /\ ix[a].level > 0 /\ ix[a].level = new[b].level
                              /\ \A x : Kid(new[b], x) => Kid(ix[a], x)
                              /\ ix[a].lo <= new[b].lo /\ new[b].hi <= ix[a].hi
                              /\ b = z => a = p
                              /\ b # z => a = b
  <2>1. CASE b = z
    BY <2>1
  <2>2. CASE b = p
    BY <1>1, <2>2
  <2>3. CASE b # p /\ b # z
    <3>1. b \in 1..tp /\ new[b] = ix[b]
      BY <1>1, <2>3
    <3> QED BY <1>3, <2>3, <3>1
  <2> QED BY <2>1, <2>2, <2>3
<1>4. Inner(new, tp + 1)
  <2>1. ASSUME NEW b \in 1..(tp + 1), new[b].level > 0
        PROVE  /\ new[b].lo < new[b].hi
               /\ \A t \in Seps(new[b]) : new[b].lo < t /\ t < new[b].hi
    <3>1. CASE b = z
      BY <1>0, <3>1 DEF Inner
    <3>2. CASE b = p
      BY <1>0, <3>2 DEF Inner
    <3>3. CASE b # p /\ b # z
      <4>1. b \in 1..tp /\ new[b] = ix[b]
        BY <1>1, <3>3
      <4> QED BY <1>0, <2>1, <4>1 DEF Inner
    <3> QED BY <3>1, <3>2, <3>3
  <2>2. ASSUME NEW b \in 1..(tp + 1), new[b].level > 0, NEW x, Kid(new[b], x)
        PROVE  x \in 1..(tp + 1)
    BY <1>0, <1>1, <1>3, <2>2 DEF Inner
  <2>3. ASSUME NEW a \in 1..(tp + 1), NEW b \in 1..(tp + 1), a # b,
               new[a].level = new[b].level, new[a].level > 0
        PROVE  new[a].hi <= new[b].lo \/ new[b].hi <= new[a].lo
    <3>1. CASE {a, b} = {p, z}
      BY <2>3, <3>1, <1>1
    <3>2. CASE {a, b} # {p, z}
      <4>1. PICK a0 \in 1..tp : /\ ix[a0].level > 0 /\ ix[a0].level = new[a].level
                                /\ ix[a0].lo <= new[a].lo /\ new[a].hi <= ix[a0].hi
                                /\ a = z => a0 = p
                                /\ a # z => a0 = a
        BY <1>3, <2>3
      <4>2. PICK b0 \in 1..tp : /\ ix[b0].level > 0 /\ ix[b0].level = new[b].level
                                /\ ix[b0].lo <= new[b].lo /\ new[b].hi <= ix[b0].hi
                                /\ b = z => b0 = p
                                /\ b # z => b0 = b
        BY <1>3, <2>3
      <4>3. a0 # b0
        BY <2>3, <3>2, <4>1, <4>2
      <4>4. ix[a0].hi <= ix[b0].lo \/ ix[b0].hi <= ix[a0].lo
        BY <1>0, <2>3, <4>1, <4>2, <4>3 DEF Inner
      <4>5. /\ ix[a0].hi \in Nat /\ ix[b0].lo \in Nat /\ ix[b0].hi \in Nat
            /\ ix[a0].lo \in Nat
            /\ new[a].lo \in Nat /\ new[a].hi \in Nat /\ new[b].lo \in Nat /\ new[b].hi \in Nat
        <5>1. \A d \in 1..(tp + 1) : new[d].lo \in Nat /\ new[d].hi \in Nat
          <6>1. \A d \in 1..tp : d # p => new[d].lo \in Nat /\ new[d].hi \in Nat
            OBVIOUS
          <6> QED BY <1>1, <6>1
        <5> QED BY <5>1
      <4> QED BY <4>1, <4>2, <4>4, <4>5
    <3> QED BY <3>1, <3>2
  <2> QED BY <2>1, <2>2, <2>3 DEF Inner
<1>5. Loose(new, pen2, rt, tp + 1)
  <2>1. ASSUME NEW d \in Clients, pen2[d] # Null
        PROVE  /\ pen2[d] \in 1..(tp + 1) /\ pen2[d] # rt.ptr
               /\ \A b \in 1..(tp + 1) : new[b].level > 0 => ~Kid(new[b], pen2[d])
    <3>1. CASE d = c
      BY <1>0, <1>1, <1>3, <3>1 DEF Inner, Rooted
    <3>2. CASE d # c
      <4>1. /\ pend[d] # Null /\ pen2[d] = pend[d]
        BY <2>1, <3>2
      <4> QED BY <1>0, <1>1, <1>3, <4>1 DEF Loose
    <3> QED BY <3>1, <3>2
  <2>2. ASSUME NEW d \in Clients, NEW e \in Clients, pen2[d] # Null, pen2[e] = pen2[d]
        PROVE  e = d
    <3>1. CASE d # c /\ e # c
      BY <1>0, <2>2, <3>1 DEF Loose
    <3>2. ASSUME NEW f \in Clients, f # c, pen2[f] # Null PROVE pen2[f] # pen2[c]
      BY <1>0, <1>1, <3>2 DEF Loose
    <3> QED BY <2>2, <3>1, <3>2
  <2> QED BY <2>1, <2>2 DEF Loose
<1>6. Rooted(new, pen2, rt, tp + 1)
  <2>1. ASSUME NEW b \in 1..(tp + 1) PROVE new[b].level < rt.level
    BY <1>0, <1>1, <1>2 DEF Rooted
  <2>2. ASSUME NEW a \in 1..tp, a # rt.ptr, ~\E d \in Clients : pen2[d] = a
        PROVE  \E b \in 1..(tp + 1) : new[b].level = new[a].level + 1 /\ Kid(new[b], a)
    <3>1. a # Null
      BY DEF Null
    <3>2. ~\E d \in Clients : pend[d] = a
      BY <2>2, <3>1
    <3>3. PICK b \in 1..tp : ix[b].level = ix[a].level + 1 /\ Kid(ix[b], a)
      BY <1>0, <2>2, <3>2 DEF Rooted
    <3>4. CASE b = p
      BY <1>1, <1>2, <3>3, <3>4
    <3>5. CASE b # p
      BY <1>1, <1>2, <3>3, <3>5
    <3> QED BY <3>4, <3>5
  <2> QED BY <1>0, <1>1, <2>1, <2>2 DEF Rooted
<1> QED BY <1>4, <1>5, <1>6 DEF Shape

\* A new root over the old one and the pending node next to it.
LEMMA ShapeRoot ==
  ASSUME NEW ix, NEW new, NEW pend, NEW pen2, NEW rt, NEW rt2, NEW tp \in Nat,
         NEW c \in Clients, NEW s \in Nat, NEW y \in 1..tp, NEW z,
         Shape(ix, pend, rt, tp),
         \A b \in 1..tp : ix[b].level \in Nat,
         z = tp + 1, pend[c] = y, y # Null, pen2[c] = Null,
         \A d \in Clients \ {c} : pen2[d] = pend[d],
         \A b \in 1..tp : new[b] = ix[b],
         rt2.ptr = z, rt2.level = rt.level + 1,
         ix[rt.ptr].level = rt.level - 1, ix[y].level = rt.level - 1,
         new[z].level = rt.level, new[z].lo < s, s < new[z].hi, new[z].lo < new[z].hi,
         \A t \in Seps(new[z]) : t = s,
         \A x : Kid(new[z], x) <=> x = rt.ptr \/ x = y
  PROVE  Shape(new, pen2, rt2, tp + 1)
<1>0. Inner(ix, tp) /\ Loose(ix, pend, rt, tp) /\ Rooted(ix, pend, rt, tp)
  BY DEF Shape
<1>1. /\ \A b \in 1..tp : b \in 1..(tp + 1) /\ b # z
      /\ \A b \in 1..(tp + 1) : b \in 1..tp \/ b = z
      /\ z \in 1..(tp + 1) /\ z # Null /\ z \notin 1..tp
  BY DEF Null
<1>2. /\ y \in 1..tp /\ rt.ptr \in 1..tp /\ rt.level \in Nat
      /\ \A d \in Clients : pend[d] = y => d = c
      /\ \A b \in 1..tp : new[b].level < rt.level
  BY <1>0 DEF Loose, Rooted
<1>3. Inner(new, tp + 1)
  <2>1. ASSUME NEW b \in 1..(tp + 1), new[b].level > 0
        PROVE  /\ new[b].lo < new[b].hi
               /\ \A t \in Seps(new[b]) : new[b].lo < t /\ t < new[b].hi
               /\ \A x : Kid(new[b], x) => x \in 1..(tp + 1)
    <3>1. CASE b = z
      BY <1>1, <1>2, <3>1
    <3>2. CASE b # z
      BY <1>0, <1>1, <2>1, <3>2 DEF Inner
    <3> QED BY <3>1, <3>2
  <2>2. ASSUME NEW a \in 1..(tp + 1), NEW b \in 1..(tp + 1), a # b,
               new[a].level = new[b].level, new[a].level > 0
        PROVE  new[a].hi <= new[b].lo \/ new[b].hi <= new[a].lo
    <3>1. a # z /\ b # z
      BY <1>1, <1>2, <2>2
    <3>2. a \in 1..tp /\ b \in 1..tp /\ new[a] = ix[a] /\ new[b] = ix[b]
      BY <1>1, <3>1
    <3> QED BY <1>0, <2>2, <3>2 DEF Inner
  <2> QED BY <2>1, <2>2 DEF Inner
<1>4. Loose(new, pen2, rt2, tp + 1)
  <2>1. ASSUME NEW d \in Clients, pen2[d] # Null
        PROVE  /\ d # c /\ pen2[d] = pend[d] /\ pend[d] # y
               /\ pend[d] \in 1..tp /\ pend[d] # rt.ptr /\ pend[d] # z
               /\ \A b \in 1..tp : ix[b].level > 0 => ~Kid(ix[b], pend[d])
               /\ \A e \in Clients : pend[e] = pend[d] => e = d
    <3>1. d # c /\ pen2[d] = pend[d] /\ pend[d] # y
      BY <1>2, <2>1
    <3> QED BY <1>0, <1>1, <2>1, <3>1 DEF Loose
  <2>2. ASSUME NEW d \in Clients, pen2[d] # Null
        PROVE  \A b \in 1..(tp + 1) : new[b].level > 0 => ~Kid(new[b], pen2[d])
    BY <1>1, <2>1, <2>2
  <2> QED BY <1>1, <2>1, <2>2 DEF Loose
<1>5. Rooted(new, pen2, rt2, tp + 1)
  <2>1. ASSUME NEW b \in 1..(tp + 1) PROVE new[b].level < rt2.level
    BY <1>1, <1>2
  <2>2. ASSUME NEW a \in 1..tp, ~\E d \in Clients : pen2[d] = a
        PROVE  \E b \in 1..(tp + 1) : new[b].level = new[a].level + 1 /\ Kid(new[b], a)
    <3>1. CASE a = y \/ a = rt.ptr
      BY <1>1, <1>2, <3>1
    <3>2. CASE a # y /\ a # rt.ptr
      <4>1. ~\E d \in Clients : pend[d] = a
        BY <2>2, <3>2
      <4>2. PICK b \in 1..tp : ix[b].level = ix[a].level + 1 /\ Kid(ix[b], a)
        BY <1>0, <3>2, <4>1 DEF Rooted
      <4> QED BY <1>1, <4>2
    <3> QED BY <3>1, <3>2
  <2> QED BY <1>1, <1>2, <2>1, <2>2 DEF Rooted
<1> QED BY <1>3, <1>4, <1>5 DEF Shape
-----------------------------------------------------------------------------
(* Every node but the root gets a parent *)

\* A node that is tagged as the root or spans all keys.
Whole(n) == IF n.level = 0 THEN LeafIsRoot(n) ELSE InternalIsRoot(n)

\* Only the root is whole, and a client that is about to write a new root has
\* the one root pointer there is: its swap cannot fail.
RootAlone ==
  /\ \A a \in 1..top :
       Whole(mem[a]) => root.ptr = a /\ root.level = mem[a].level + 1
  /\ \A c \in Clients : cl[c].pc = "newroot" =>
       root.ptr = cl[c].p /\ root.level = cl[c].tl /\ ~Whole(mem[cl[c].p])
  /\ \A c, d \in Clients : cl[c].pc = "newroot" /\ cl[d].pc = "newroot" => c = d

\* No separator equals the lower fence, in memory or in a cache.
Strict(n) == \A s \in Seps(n) : n.lo < s
StrictAll ==
  /\ \A b \in 1..top : mem[b].level > 0 => Strict(mem[b])
  /\ \A cn \in CNs : \A e \in Live(cn) : Strict(e.node)

\* The separators on their way up are above the least key.
AboveLeast == \A c \in Clients : cl[c].pc \in Upward => cl[c].sk > 1

ParentInv(ix) ==
  /\ Shows(ix) /\ Shape(ix, Pend, root, top)
  /\ RootAlone /\ StrictAll /\ AboveLeast

FullIndexInv == IndexInv /\ \E ix : ParentInv(ix)

\* Client c moves without splitting anything or changing what it carries.
Ambles(c) ==
  /\ \A d \in Clients \ {c} : cl'[d] = cl[d]
  /\ cl[c].pc \notin {"leaf_split", "internal_split", "newroot"}
  /\ cl'[c].pc \notin {"leaf_split", "internal_split", "newroot"}
  /\ cl'[c].pc \in Upward <=> cl[c].pc \in Upward
  /\ cl'[c].pc \in Upward => cl'[c].sk = cl[c].sk /\ cl'[c].sp = cl[c].sp

\* What two images that agree on the index have in common.
LEMMA SameMeans ==
  ASSUME NEW x, NEW n, SameIndex(x, n)
  PROVE  /\ Seps(x) = Seps(n) /\ x.level = n.level /\ x.lo = n.lo /\ x.hi = n.hi
         /\ \A y : Kid(x, y) <=> Kid(n, y)
<1>1. Seps(x) = Seps(n)
  BY DEF Seps, SameIndex
<1> QED BY <1>1 DEF SameIndex, Kid

\* What clients that do not move have pending stays pending.
LEMMA PendIs ==
  ASSUME NEW d \in Clients
  PROVE  /\ cl[d].pc \in {"leaf_split", "internal_split"} => Pend[d] = cl[d].nsp
         /\ cl[d].pc \in Upward \ {"internal_split"} => Pend[d] = cl[d].sp
         /\ cl[d].pc \notin Upward \cup {"leaf_split"} => Pend[d] = Null
         /\ cl'[d].pc \in {"leaf_split", "internal_split"} => Pend'[d] = cl'[d].nsp
         /\ cl'[d].pc \in Upward \ {"internal_split"} => Pend'[d] = cl'[d].sp
         /\ cl'[d].pc \notin Upward \cup {"leaf_split"} => Pend'[d] = Null
         /\ cl'[d] = cl[d] => Pend'[d] = Pend[d]
BY DEF Pend, Upward

\* The index keeps its shape as long as nobody has anything else pending.
LEMMA PendSame ==
  ASSUME \A d \in Clients : Pend'[d] = Pend[d]
  PROVE  Pend' = Pend
BY DEF Pend

\* Steps that leave the index alone.
LEMMA AmblesKeep ==
  ASSUME TreeInv, TypeOK', NEW low, RangeInv(low), NEW ix, ParentInv(ix),
         NEW c \in Clients, Ambles(c), top' = top, root' = root,
         \A a \in 1..top : SameIndex(mem'[a], mem[a]) /\ mem'[a].sib = mem[a].sib,
         \A d \in Clients : cl[d].pc = "internal_split" => mem'[cl[d].p] = mem[cl[d].p],
         \A cn \in CNs : \A e \in Live(cn)' : Strict(e.node)
  PROVE  ParentInv(ix)'
<1>0. /\ Shows(ix) /\ Shape(ix, Pend, root, top)
      /\ RootAlone /\ StrictAll /\ AboveLeast
  BY DEF ParentInv
<1>1. ASSUME NEW d \in Clients
      PROVE  /\ cl'[d].pc = "internal_split" <=> cl[d].pc = "internal_split"
             /\ cl[d].pc = "internal_split" => cl'[d] = cl[d]
             /\ cl'[d].pc = "newroot" => cl'[d] = cl[d]
             /\ cl'[d].pc \in Upward => cl[d].pc \in Upward /\ cl'[d].sk = cl[d].sk
             /\ Pend'[d] = Pend[d]
  <2>1. CASE d = c
    BY <2>1, PendIs DEF Ambles
  <2>2. CASE d # c
    BY <2>2, PendIs DEF Ambles
  <2> QED BY <2>1, <2>2
<1>2. Shows(ix)'
  <2>1. ASSUME NEW a \in 1..top, \A d \in Clients : cl'[d].pc = "internal_split" => cl'[d].p # a
        PROVE  SameIndex(ix[a], mem'[a])
    <3>1. \A d \in Clients : cl[d].pc = "internal_split" => cl[d].p # a
      BY <1>1, <2>1
    <3>2. SameIndex(ix[a], mem[a]) /\ SameIndex(mem'[a], mem[a])
      BY <1>0, <3>1 DEF Shows
    <3> QED BY <3>2 DEF SameIndex
  <2>2. ASSUME NEW d \in Clients, cl'[d].pc = "internal_split"
        PROVE  SameIndex(ix[cl'[d].p], Committed(d)')
    <3>1. cl'[d] = cl[d] /\ cl[d].pc = "internal_split" /\ mem'[cl[d].p] = mem[cl[d].p]
      BY <1>1, <2>2
    <3>2. Committed(d)' = Committed(d)
      BY <3>1 DEF Committed
    <3> QED BY <1>0, <3>1, <3>2 DEF Shows
  <2>3. ix \in [Addrs -> Node]
    BY <1>0 DEF Shows
  <2> QED BY <2>1, <2>2, <2>3 DEF Shows
<1>3. Shape(ix, Pend, root, top)'
  <2>1. Pend' = Pend
    BY <1>1, PendSame
  <2> QED BY <1>0, <2>1
<1>4. RootAlone'
  <2>1. \A a \in 1..top : Whole(mem'[a]) <=> Whole(mem[a])
    BY DEF Whole, SameIndex, LeafIsRoot, InternalIsRoot
  <2>2. \A d \in Clients : cl[d].pc = "newroot" => cl[d].p \in 1..top
    BY DEF RangeInv, Placed, Carries, Stands
  <2> QED BY <1>0, <1>1, <2>1, <2>2 DEF RootAlone, SameIndex
<1>5. StrictAll'
  <2>1. ASSUME NEW b \in 1..top, mem'[b].level > 0 PROVE Strict(mem'[b])
    <3>1. Seps(mem'[b]) = Seps(mem[b]) /\ mem'[b].lo = mem[b].lo /\ mem[b].level > 0
      BY <2>1, SameMeans
    <3> QED BY <1>0, <3>1 DEF StrictAll, Strict
  <2> QED BY <2>1 DEF StrictAll
<1>6. AboveLeast'
  BY <1>0, <1>1 DEF AboveLeast
<1> QED BY <1>2, <1>3, <1>4, <1>5, <1>6 DEF ParentInv

\* No cached separator equals its lower fence as long as none in memory does.
LEMMA CacheStrict ==
  ASSUME TypeOK, StrictAll, NEW c \in Clients,
         \/ cache' = cache \/ Invalidate(c)
         \/ \E a \in 1..top : mem[a].level > 0 /\ AddToCache(c, mem[a])
  PROVE  \A cn \in CNs : \A e \in Live(cn)' : Strict(e.node)
<1>1. CASE cache' = cache \/ Invalidate(c)
  BY <1>1, CacheLoses DEF StrictAll
<1>2. CASE \E a \in 1..top : mem[a].level > 0 /\ AddToCache(c, mem[a])
  <2>1. PICK a \in 1..top : mem[a].level > 0 /\ AddToCache(c, mem[a])
    BY <1>2
  <2>2. PICK n : n = mem[a]
    OBVIOUS
  <2>3. n \in Node /\ Strict(n) /\ AddToCache(c, n)
    BY <2>1, <2>2, Allocated DEF StrictAll
  <2>4. ASSUME NEW cn \in CNs, NEW e \in Live(cn)' PROVE Strict(e.node)
    <3>1. e \in Live(cn) \/ e = [lo |-> n.lo, hi |-> n.hi, node |-> n]
      BY <2>3, CacheGains
    <3> QED BY <2>3, <3>1 DEF StrictAll
  <2> QED BY <2>4
<1> QED BY <1>1, <1>2

\* The steps of a client that neither divides a node nor adds a separator.
LEMMA QuietAmbles ==
  ASSUME TreeInv, NEW low, RangeInv(low), NEW c \in Clients,
         \/ Traverse(c) \/ Start(c) \/ LockNode(c) \/ Finish(c)
         \/ LeafStale(c) \/ LeafInsertRight(c) \/ LeafInsertWrite(c)
         \/ LeafUpdateWrite(c) \/ LeafUpdateRight(c) \/ LeafSearchStale(c)
         \/ LeafSearchFound(c) \/ LeafSearchOn(c)
         \/ InternalInsertStale(c) \/ InternalInsertRight(c)
  PROVE  Ambles(c) /\ top' = top /\ root' = root
<1>0. TypeOK /\ cl[c] \in Locals
  BY Here
<1> DEFINE Quick(l) == /\ l.pc \notin {"leaf_split", "internal_split", "newroot"}
                       /\ l.pc \in Upward <=> cl[c].pc \in Upward
                       /\ l.pc \in Upward => l.sk = cl[c].sk /\ l.sp = cl[c].sp
<1>1. ASSUME NEW l, Become(c, l), Quick(l),
             cl[c].pc \notin {"leaf_split", "internal_split", "newroot"}
      PROVE  Ambles(c)
  BY <1>0, <1>1, BecomeIs DEF Ambles
<1>2. CASE SearchFromCache(c)
  <2>1. cl[c].pc = "lookup" /\ top' = top /\ root' = root
    BY <1>2 DEF SearchFromCache
  <2>2. PICK l : Become(c, l) /\ l.pc \in {"root", "next"}
    <3>1. CASE Become(c, [cl[c] EXCEPT !.pc = "root"])
      BY <1>0, <3>1 DEF Locals
    <3>2. CASE ~Become(c, [cl[c] EXCEPT !.pc = "root"])
      <4>1. PICK a, b, f, g, h :
              Become(c, [cl[c] EXCEPT !.pc = "next", !.fc = TRUE, !.p = a, !.sibp = b,
                                      !.level = f, !.lo = g, !.hi = h])
        BY <1>2, <3>2 DEF SearchFromCache
      <4>2. [cl[c] EXCEPT !.pc = "next", !.fc = TRUE, !.p = a, !.sibp = b,
                          !.level = f, !.lo = g, !.hi = h].pc = "next"
        BY <1>0 DEF Locals
      <4> QED BY <4>1, <4>2
    <3> QED BY <3>1, <3>2
  <2> QED BY <1>1, <2>1, <2>2 DEF Upward
<1>3. CASE GetRootPtr(c)
  <2>1. cl[c].pc \in {"root", "ii_root"} /\ top' = top /\ root' = root
    BY <1>3 DEF GetRootPtr
  <2>2. PICK l : l = [cl[c] EXCEPT !.pc = IF @ = "root" THEN "next" ELSE "ii_next",
                      !.fc = FALSE, !.p = root.ptr,
                      !.sibp = Null, !.level = root.level]
    OBVIOUS
  <2>3. /\ l.pc = IF cl[c].pc = "root" THEN "next" ELSE "ii_next"
        /\ l.sk = cl[c].sk /\ l.sp = cl[c].sp
    BY <1>0, <2>2 DEF Locals
  <2>4. Become(c, l)
    BY <1>3, <2>2 DEF GetRootPtr
  <2> QED BY <1>1, <2>1, <2>3, <2>4 DEF Upward
<1>4. CASE InternalSearchStale(c)
  <2>1. cl[c].pc \in {"next", "ii_next"} /\ top' = top /\ root' = root /\ cl[c].fc
    BY <1>4 DEF InternalSearchStale, Traversing
  <2>2. cl[c].pc = "next"
    BY <2>1, Here DEF Effect
  <2>3. PICK l : l = [cl[c] EXCEPT !.pc = "lookup", !.path = Recorded(c, cl[c].p)]
    OBVIOUS
  <2>4. l.pc = "lookup" /\ Become(c, l)
    BY <1>0, <1>4, <2>3 DEF Locals, InternalSearchStale
  <2> QED BY <1>1, <2>1, <2>2, <2>4 DEF Upward
<1>5. CASE InternalSearchRight(c)
  <2>1. cl[c].pc \in {"next", "ii_next"} /\ top' = top /\ root' = root
    BY <1>5 DEF InternalSearchRight, Traversing
  <2>2. PICK l : l = [cl[c] EXCEPT !.p = SibOf(mem[cl[c].p]),
                      !.path = Recorded(c, SibOf(mem[cl[c].p]))]
    OBVIOUS
  <2>3. l.pc = cl[c].pc /\ l.sk = cl[c].sk /\ l.sp = cl[c].sp /\ Become(c, l)
    BY <1>0, <1>5, <2>2 DEF Locals, InternalSearchRight
  <2> QED BY <1>1, <2>1, <2>3
<1>6. CASE InternalSearchDown(c)
  <2>1. cl[c].pc \in {"next", "ii_next"} /\ top' = top /\ root' = root
    BY <1>6 DEF InternalSearchDown, Traversing
  <2>2. PICK a, b, f, g : Become(c, [cl[c] EXCEPT !.fc = FALSE, !.p = a, !.sibp = b,
                                       !.level = f, !.path = g])
    BY <1>6 DEF InternalSearchDown
  <2>3. PICK l : l = [cl[c] EXCEPT !.fc = FALSE, !.p = a, !.sibp = b,
                                       !.level = f, !.path = g]
    OBVIOUS
  <2>4. l.pc = cl[c].pc /\ l.sk = cl[c].sk /\ l.sp = cl[c].sp /\ Become(c, l)
    BY <1>0, <2>2, <2>3 DEF Locals
  <2> QED BY <1>1, <2>1, <2>4
<1>7. CASE InsertInternalArrive(c)
  <2>1. cl[c].pc = "ii_next" /\ top' = top /\ root' = root
    BY <1>7 DEF InsertInternalArrive
  <2>2. PICK l : l = [cl[c] EXCEPT !.pc = "lock_internal", !.fc = FALSE,
                      !.path = Recorded(c, cl[c].p)]
    OBVIOUS
  <2>3. l.pc = "lock_internal" /\ l.sk = cl[c].sk /\ l.sp = cl[c].sp /\ Become(c, l)
    BY <1>0, <1>7, <2>2 DEF Locals, InsertInternalArrive
  <2> QED BY <1>1, <2>1, <2>3 DEF Upward
<1>8. CASE Start(c)
  <2>1. cl[c].pc = "idle" /\ top' = top /\ root' = root
    BY <1>8 DEF Start
  <2>2. PICK l : /\ Become(c, l)
                 /\ l = [IdleLocals EXCEPT !.pc = "lookup", !.op = Head(todo[c]).op,
                                    !.k = Head(todo[c]).k, !.v = Head(todo[c]).v]
    BY <1>8 DEF Start
  <2>3. l.pc = "lookup"
    BY <2>2 DEF IdleLocals
  <2> QED BY <1>1, <2>1, <2>2, <2>3 DEF Upward
<1>9. CASE LockNode(c)
  <2>1. top' = top /\ root' = root
    BY <1>9 DEF LockNode
  <2>2. CASE cl[c].pc = "next"
    <3>1. PICK l : /\ Become(c, l)
                   /\ l = [cl[c] EXCEPT !.pc = IF cl[c].op = "insert"
                                        THEN "leaf_insert" ELSE "leaf_update"]
      BY <1>9, <2>2 DEF LockNode
    <3>2. l.pc \in {"leaf_insert", "leaf_update"}
      BY <1>0, <3>1 DEF Locals
    <3> QED BY <1>1, <2>1, <2>2, <3>1, <3>2 DEF Upward
  <2>3. CASE cl[c].pc # "next"
    <3>1. PICK l : /\ Become(c, l) /\ cl[c].pc = "lock_internal"
                   /\ l = [cl[c] EXCEPT !.pc = "internal_insert"]
      BY <1>9, <2>3 DEF LockNode
    <3>2. l.pc = "internal_insert" /\ l.sk = cl[c].sk /\ l.sp = cl[c].sp
      BY <1>0, <3>1 DEF Locals
    <3> QED BY <1>1, <2>1, <3>1, <3>2 DEF Upward
  <2> QED BY <2>2, <2>3
<1>10. CASE Finish(c)
  <2>1. /\ cl[c].pc = "done" /\ top' = top /\ root' = root /\ Become(c, IdleLocals)
        /\ IdleLocals.pc = "idle"
    BY <1>10 DEF Finish, IdleLocals
  <2> QED BY <1>1, <2>1 DEF Upward
<1>11. CASE \/ LeafStale(c) \/ LeafInsertRight(c) \/ LeafInsertWrite(c)
            \/ LeafUpdateWrite(c) \/ LeafUpdateRight(c) \/ LeafSearchStale(c)
            \/ LeafSearchFound(c) \/ LeafSearchOn(c)
  <2>1. /\ cl[c].pc \in {"leaf_insert", "leaf_update", "next"}
        /\ top' = top /\ root' = root
    BY <1>11 DEF LeafStale, LeafInsertRight, LeafInsertWrite, InsertHere,
       LeafUpdateWrite, LeafUpdateRight, LeafSearchStale, LeafSearchFound,
       LeafSearchOn, SearchingLeaf
  <2>2. PICK l : Become(c, l) /\ l.pc \in {"lookup", "next", "done"}
    <3>1. CASE LeafStale(c) \/ LeafSearchStale(c)
      <4>1. Become(c, [cl[c] EXCEPT !.pc = "lookup"])
        BY <3>1 DEF LeafStale, LeafSearchStale
      <4> QED BY <1>0, <4>1 DEF Locals
    <3>2. CASE LeafInsertRight(c) \/ LeafUpdateRight(c)
      <4>1. \/ Become(c, [cl[c] EXCEPT !.pc = "next", !.p = SibOf(mem[cl[c].p]),
                                       !.sibp = Null])
            \/ Become(c, [cl[c] EXCEPT !.pc = "next", !.p = SibOf(mem[cl[c].p])])
        BY <3>2 DEF LeafInsertRight, LeafUpdateRight
      <4>2. /\ [cl[c] EXCEPT !.pc = "next", !.p = SibOf(mem[cl[c].p]),
                                       !.sibp = Null].pc = "next"
            /\ [cl[c] EXCEPT !.pc = "next", !.p = SibOf(mem[cl[c].p])].pc = "next"
        BY <1>0 DEF Locals
      <4> QED BY <4>1, <4>2
    <3>3. CASE LeafInsertWrite(c) \/ LeafUpdateWrite(c)
      <4>1. Become(c, [cl[c] EXCEPT !.pc = "done", !.lin = TRUE])
        BY <3>3 DEF LeafInsertWrite, LeafUpdateWrite
      <4>2. [cl[c] EXCEPT !.pc = "done", !.lin = TRUE].pc = "done"
        BY <1>0 DEF Locals
      <4> QED BY <4>1, <4>2
    <3>4. CASE LeafSearchFound(c)
      <4>1. PICK x : Become(c, [cl[c] EXCEPT !.pc = "done", !.ret = x, !.lin = TRUE])
        BY <3>4 DEF LeafSearchFound
      <4>2. [cl[c] EXCEPT !.pc = "done", !.ret = x, !.lin = TRUE].pc = "done"
        BY <1>0 DEF Locals
      <4> QED BY <4>1, <4>2
    <3>5. CASE LeafSearchOn(c)
      <4>0. cl[c].pc = "next"
        BY <3>5 DEF LeafSearchOn, SearchingLeaf
      <4>1. PICK x, y :
              \/ Become(c, [cl[c] EXCEPT !.pc = "done", !.lin = x])
              \/ Become(c, [cl[c] EXCEPT !.p = y, !.lin = x])
        BY <3>5 DEF LeafSearchOn
      <4>2. /\ [cl[c] EXCEPT !.pc = "done", !.lin = x].pc = "done"
            /\ [cl[c] EXCEPT !.p = y, !.lin = x].pc = cl[c].pc
        BY <1>0 DEF Locals
      <4> QED BY <4>0, <4>1, <4>2
    <3> QED BY <1>11, <3>1, <3>2, <3>3, <3>4, <3>5
  <2> QED BY <1>1, <2>1, <2>2 DEF Upward
<1>12. CASE InternalInsertStale(c)
  <2>1. cl[c].pc = "internal_insert" /\ top' = top /\ root' = root
    BY <1>12 DEF InternalInsertStale
  <2>2. PICK l : Become(c, l) /\ l = [cl[c] EXCEPT !.pc = "ii_root"]
    BY <1>12 DEF InternalInsertStale
  <2>3. l.pc = "ii_root" /\ l.sk = cl[c].sk /\ l.sp = cl[c].sp
    BY <1>0, <2>2 DEF Locals
  <2> QED BY <1>1, <2>1, <2>2, <2>3 DEF Upward
<1>13. CASE InternalInsertRight(c)
  <2>1. cl[c].pc = "internal_insert" /\ top' = top /\ root' = root
    BY <1>13 DEF InternalInsertRight
  <2>2. PICK l : Become(c, l) /\ l = [cl[c] EXCEPT !.pc = "lock_internal",
                                                   !.p = SibOf(mem[cl[c].p])]
    BY <1>13 DEF InternalInsertRight
  <2>3. l.pc = "lock_internal" /\ l.sk = cl[c].sk /\ l.sp = cl[c].sp
    BY <1>0, <2>2 DEF Locals
  <2> QED BY <1>1, <2>1, <2>2, <2>3 DEF Upward
<1> QED BY <1>2, <1>3, <1>4, <1>5, <1>6, <1>7, <1>8, <1>9, <1>10, <1>11, <1>12, <1>13
        DEF Traverse

\* Nor do these steps change a node's place in the index.
LEMMA QuietKeeps ==
  ASSUME TreeInv, TypeOK', NEW low, RangeInv(low), NEW ix, ParentInv(ix),
         NEW c \in Clients,
         \/ Traverse(c) \/ Start(c) \/ LockNode(c) \/ Finish(c)
         \/ LeafStale(c) \/ LeafInsertRight(c) \/ LeafInsertWrite(c)
         \/ LeafUpdateWrite(c) \/ LeafUpdateRight(c) \/ LeafSearchStale(c)
         \/ LeafSearchFound(c) \/ LeafSearchOn(c)
         \/ InternalInsertStale(c) \/ InternalInsertRight(c)
  PROVE  ParentInv(ix)'
<1>0. /\ Ambles(c) /\ top' = top /\ root' = root /\ TypeOK /\ StrictAll
      /\ cl[c] \in Locals
  BY QuietAmbles, Here DEF ParentInv
<1>1. \A cn \in CNs : \A e \in Live(cn)' : Strict(e.node)
  <2>1. \/ cache' = cache \/ Invalidate(c)
        \/ \E a \in 1..top : mem[a].level > 0 /\ AddToCache(c, mem[a])
    <3>1. CASE InternalSearchDown(c)
      <4>1. /\ cl[c].pc \in {"next", "ii_next"} /\ cl[c].level > 1
            /\ cl[c].p \in Addrs /\ AddToCache(c, mem[cl[c].p])
        BY <3>1 DEF InternalSearchDown, Traversing
      <4>2. OfLevel(cl[c].p, cl[c].level - 1) /\ cl[c].level \in Nat
        BY <1>0, <4>1, Here DEF Guided, Locals
      <4>3. cl[c].p \in 1..top /\ mem[cl[c].p].level > 0
        BY <4>1, <4>2 DEF OfLevel, Null, Addrs
      <4> QED BY <4>1, <4>3
    <3>2. CASE InternalSearchStale(c) \/ LeafStale(c) \/ LeafSearchStale(c)
               \/ InternalInsertStale(c)
      BY <3>2 DEF InternalSearchStale, LeafStale, LeafSearchStale, InternalInsertStale
    <3>3. CASE \/ SearchFromCache(c) \/ GetRootPtr(c) \/ InternalSearchRight(c)
               \/ InsertInternalArrive(c) \/ Start(c) \/ LockNode(c) \/ Finish(c)
               \/ LeafInsertRight(c) \/ LeafInsertWrite(c) \/ LeafUpdateWrite(c)
               \/ LeafUpdateRight(c) \/ LeafSearchFound(c) \/ LeafSearchOn(c)
               \/ InternalInsertRight(c)
      BY <3>3 DEF SearchFromCache, GetRootPtr, InternalSearchRight,
         InsertInternalArrive, Start, LockNode, Finish, LeafInsertRight,
         LeafInsertWrite, LeafUpdateWrite, LeafUpdateRight, LeafSearchFound,
         LeafSearchOn, InternalInsertRight
    <3> QED BY <3>1, <3>2, <3>3 DEF Traverse
  <2> QED BY <1>0, <2>1, CacheStrict
<1>2. CASE mem' = mem
  BY <1>0, <1>1, <1>2, AmblesKeep DEF SameIndex
<1>3. CASE LeafInsertWrite(c) \/ LeafUpdateWrite(c)
  <2>1. PICK a : a = cl[c].p
    OBVIOUS
  <2>2. /\ cl[c].pc \in {"leaf_insert", "leaf_update"}
        /\ WriteNode(a, WithRecord(mem[a], cl[c].k, cl[c].v))
    BY <1>3, <2>1 DEF LeafInsertWrite, LeafUpdateWrite, InsertHere
  <2>3. InCritical(c) /\ a \in Addrs
    BY <2>1, <2>2, Here DEF InCritical, Critical
  <2>4. /\ mem'[a] = WithRecord(mem[a], cl[c].k, cl[c].v) /\ mem[a] \in Node
        /\ \A b \in Addrs : b # a => mem'[b] = mem[b]
    BY <1>0, <2>2, <2>3, WriteIs, Parts
  <2>5. SameIndex(mem'[a], mem[a]) /\ mem'[a].sib = mem[a].sib
    BY <2>4 DEF WithRecord, SameIndex, Node
  <2>6. \A b \in 1..top : SameIndex(mem'[b], mem[b]) /\ mem'[b].sib = mem[b].sib
    <3>1. \A b \in 1..top : b \in Addrs
      BY <1>0, Allocated
    <3>2. \A b \in 1..top : b # a => mem'[b] = mem[b]
      BY <2>4, <3>1
    <3> QED BY <2>5, <3>2 DEF SameIndex
  <2>7. \A d \in Clients : cl[d].pc = "internal_split" => mem'[cl[d].p] = mem[cl[d].p]
    <3>1. ASSUME NEW d \in Clients, cl[d].pc = "internal_split"
          PROVE  mem'[cl[d].p] = mem[cl[d].p]
      <4>1. d # c
        BY <2>2, <3>1
      <4>2. cl[d].p \in Addrs /\ cl[d].p # a
        BY <2>1, <2>3, <3>1, <4>1, Apart
      <4> QED BY <2>4, <4>2
    <3> QED BY <3>1
  <2> QED BY <1>0, <1>1, <2>6, <2>7, AmblesKeep
<1>4. mem' = mem \/ LeafInsertWrite(c) \/ LeafUpdateWrite(c)
  BY DEF Traverse, SearchFromCache, GetRootPtr, InternalSearchRight,
         InternalSearchDown, InternalSearchStale, LeafStale, LeafSearchStale,
         InternalInsertStale, InsertInternalArrive, Start, LockNode, Finish,
         LeafInsertRight, LeafUpdateRight, LeafSearchFound,
         LeafSearchOn, InternalInsertRight
<1> QED BY <1>2, <1>3, <1>4

-----------------------------------------------------------------------------
(* Steps that change the index *)

\* Nodes that are not being split are shown as they are; level and lower fence

\* are those in memory in any case.
LEMMA ShownAs ==
  ASSUME TreeInv, NEW low, RangeInv(low), NEW ix, Shows(ix), NEW a \in 1..top
  PROVE  /\ ix[a] \in Node /\ ix[a].level = mem[a].level /\ ix[a].lo = mem[a].lo
         /\ \A c \in Clients :
              InCritical(c) /\ cl[c].pc # "internal_split" /\ cl[c].p = a
                => SameIndex(ix[a], mem[a])
<1>0. TypeOK /\ a \in Addrs /\ mem[a] \in Node
  BY Allocated DEF TreeInv
<1>1. ix[a] \in Node
  BY <1>0 DEF Shows
<1>2. CASE \A c \in Clients : cl[c].pc = "internal_split" => cl[c].p # a
  BY <1>1, <1>2 DEF Shows, SameIndex
<1>3. CASE \E c \in Clients : cl[c].pc = "internal_split" /\ cl[c].p = a
  <2>1. PICK c \in Clients : cl[c].pc = "internal_split" /\ cl[c].p = a
    BY <1>3
  <2>2. SameIndex(ix[a], Committed(c))
    BY <2>1 DEF Shows
  <2>3. /\ cl[c].nsk \in Keys /\ cl[c].sk \in Keys /\ cl[c].nsp \in AddrOrNull
        /\ cl[c].sp \in AddrOrNull
    BY <1>0, Parts
  <2>4. Committed(c).level = mem[a].level /\ Committed(c).lo = mem[a].lo
    BY <1>0, <2>1, <2>3 DEF Committed, LeftInternal, WithSeparator, Node
  <2>5. \A d \in Clients : InCritical(d) /\ cl[d].p = a => d = c
    BY <2>1 DEF TreeInv, LockMutex, InCritical, Critical
  <2> QED BY <1>1, <2>1, <2>2, <2>4, <2>5 DEF SameIndex
<1> QED BY <1>1, <1>2, <1>3

\* The images stay true of the nodes that a step leaves alone.
LEMMA ShowsNext ==
  ASSUME TreeInv, NEW low, RangeInv(low), NEW ix, Shows(ix), NEW c \in Clients,
         \A d \in Clients \ {c} : cl'[d] = cl[d], NEW new \in [Addrs -> Node],
         NEW W, \A d \in Clients \ {c} : cl[d].pc = "internal_split" => cl[d].p \notin W,
         \A b \in 1..top : b \notin W => new[b] = ix[b] /\ mem'[b] = mem[b],
         \A b \in 1..top' : b \in 1..top \/ b \in W,
         cl[c].pc = "internal_split" => cl[c].p \in W,
         cl'[c].pc = "internal_split" => cl'[c].p \in W,
         cl'[c].pc = "internal_split" => SameIndex(new[cl'[c].p], Committed(c)'),
         \A b \in W : (cl'[c].pc = "internal_split" => cl'[c].p # b)
                        => SameIndex(new[b], mem'[b])
  PROVE  Shows(new)'
<1>0. TypeOK
  BY DEF TreeInv
<1>1. ASSUME NEW d \in Clients, cl'[d].pc = "internal_split"
      PROVE  SameIndex(new[cl'[d].p], Committed(d)')
  <2>1. CASE d = c
    BY <1>1, <2>1
  <2>2. CASE d # c
    <3>1. cl'[d] = cl[d] /\ cl[d].pc = "internal_split" /\ cl[d].p \notin W
      BY <1>1, <2>2
    <3>2. cl[d].p \in 1..top
      BY <2>2, <3>1, Apart
    <3>3. new[cl[d].p] = ix[cl[d].p] /\ mem'[cl[d].p] = mem[cl[d].p]
      BY <3>1, <3>2
    <3>4. Committed(d)' = Committed(d)
      BY <3>1, <3>3 DEF Committed
    <3> QED BY <3>1, <3>3, <3>4 DEF Shows
  <2> QED BY <2>1, <2>2
<1>2. ASSUME NEW a \in 1..top',
             \A d \in Clients : cl'[d].pc = "internal_split" => cl'[d].p # a
      PROVE  SameIndex(new[a], mem'[a])
  <2>1. CASE a \in W
    BY <1>2, <2>1
  <2>2. CASE a \notin W
    <3>1. a \in 1..top /\ new[a] = ix[a] /\ mem'[a] = mem[a]
      BY <2>2
    <3>2. \A d \in Clients : cl[d].pc = "internal_split" => cl[d].p # a
      BY <1>2, <2>2
    <3> QED BY <3>1, <3>2 DEF Shows
  <2> QED BY <2>1, <2>2
<1> QED BY <1>1, <1>2 DEF Shows

\* The root stays alone as long as no other node becomes whole and a client that
\* turns to writing a new root has just divided the old one.
LEMMA RootNext ==
  ASSUME TreeInv, NEW low, RangeInv(low), RootAlone, NEW c \in Clients,
         \A d \in Clients \ {c} : cl'[d] = cl[d], root' = root,
         cl[c].pc # "newroot",
         \A b \in 1..top : /\ b \in 1..top' /\ mem'[b].level = mem[b].level
                           /\ Whole(mem'[b]) => Whole(mem[b]),
         \A b \in 1..top' : b \in 1..top \/ ~Whole(mem'[b]),
         cl'[c].pc = "newroot" =>
           /\ cl'[c].p \in 1..top /\ cl'[c].tl = mem[cl'[c].p].level + 1
           /\ Whole(mem[cl'[c].p]) /\ ~Whole(mem'[cl'[c].p])
  PROVE  RootAlone'
<1>1. ASSUME NEW a \in 1..top', Whole(mem'[a])
      PROVE  root'.ptr = a /\ root'.level = mem'[a].level + 1
  <2>1. a \in 1..top /\ Whole(mem[a]) /\ mem'[a].level = mem[a].level
    BY <1>1
  <2> QED BY <2>1 DEF RootAlone
<1>2. ASSUME NEW d \in Clients, cl'[d].pc = "newroot"
      PROVE  root'.ptr = cl'[d].p /\ root'.level = cl'[d].tl /\ ~Whole(mem'[cl'[d].p])
  <2>1. CASE d = c
    BY <1>2, <2>1 DEF RootAlone
  <2>2. CASE d # c
    <3>1. cl'[d] = cl[d] /\ cl[d].p \in 1..top
      BY <1>2, <2>2 DEF RangeInv, Placed, Carries, Stands
    <3> QED BY <1>2, <3>1 DEF RootAlone
  <2> QED BY <2>1, <2>2
<1>3. ASSUME NEW d \in Clients, d # c, cl'[d].pc = "newroot", cl'[c].pc = "newroot"
      PROVE  FALSE
  <2>1. cl'[d] = cl[d] /\ cl[d].pc = "newroot" /\ root.ptr = cl[d].p
        /\ ~Whole(mem[cl[d].p])
    BY <1>3 DEF RootAlone
  <2>2. root.ptr = cl'[c].p /\ Whole(mem[cl'[c].p])
    BY <1>3 DEF RootAlone
  <2> QED BY <2>1, <2>2
<1>4. ASSUME NEW d \in Clients, NEW e \in Clients, cl'[d].pc = "newroot",
             cl'[e].pc = "newroot"
      PROVE  d = e
  <2>1. CASE d # c /\ e # c
    BY <1>4, <2>1 DEF RootAlone
  <2> QED BY <1>3, <1>4, <2>1
<1> QED BY <1>1, <1>2, <1>4 DEF RootAlone

\* What a step writes has no separator at its lower fence.
LEMMA StrictNext ==
  ASSUME StrictAll, cache' = cache, NEW W,
         \A b \in 1..top' : b \in W \/ (b \in 1..top /\ mem'[b] = mem[b]),
         \A b \in W : mem'[b].level > 0 => Strict(mem'[b])
  PROVE  StrictAll'
<1>1. ASSUME NEW b \in 1..top', mem'[b].level > 0 PROVE Strict(mem'[b])
  BY <1>1 DEF StrictAll
<1>2. \A cn \in CNs : \A e \in Live(cn)' : Strict(e.node)
  BY DEF StrictAll, Live
<1> QED BY <1>1, <1>2 DEF StrictAll

\* What others carry up they carry on.
LEMMA AboveNext ==
  ASSUME AboveLeast, NEW c \in Clients, \A d \in Clients \ {c} : cl'[d] = cl[d],
         cl'[c].pc \in Upward => cl'[c].sk > 1
  PROVE  AboveLeast'
BY DEF AboveLeast

\* The sibling of a leaf is written.
LEMMA LeafSiblingParent ==
  ASSUME TreeInv, TypeOK', NEW low, RangeInv(low), NEW ix, ParentInv(ix),
         NEW c \in Clients, LeafSplitSibling(c)
  PROVE  \E new : ParentInv(new)'
<1>0. /\ TypeOK /\ cl[c] \in Locals /\ cl[c].pc = "leaf_insert"
      /\ top < MaxAddr /\ top' = top + 1 /\ root' = root /\ cache' = cache
      /\ Shows(ix) /\ Shape(ix, Pend, root, top) /\ RootAlone /\ StrictAll /\ AboveLeast
  BY Here DEF LeafSplitSibling, InsertHere, ParentInv
<1>1. InCritical(c) /\ cl[c].p \in Addrs /\ Overfull(c) \in Node
  <2>1. InCritical(c) /\ cl[c].p \in Addrs
    BY <1>0, Here DEF InCritical, Critical
  <2>2. /\ mem[cl[c].p] \in Node /\ cl[c].k \in Keys
        /\ cl[c].v \in Vals \cup {kValueNull}
    BY <1>0, <2>1, Parts
  <2> QED BY <2>1, <2>2, FullLeaf DEF Overfull
<1>2. PICK m \in UserKeys :
        /\ WriteNode(top + 1, RightLeaf(Overfull(c), m + 1))
        /\ Become(c, [cl[c] EXCEPT !.pc = "leaf_split", !.nsk = m + 1, !.nsp = top + 1])
  BY DEF LeafSplitSibling
<1>3. PICK z, r : z = top + 1 /\ r = RightLeaf(Overfull(c), m + 1)
  OBVIOUS
<1>4. r.level = 0 /\ r.sib # Widest
  <2>1. m + 1 \in Keys
    BY TreeConstants DEF UserKeys, Keys
  <2> QED BY <1>1, <1>3, <2>1, RightHalf
<1>5. /\ z \in Addrs /\ mem'[z] = r /\ z \in 1..top' /\ z \notin 1..top /\ z # Null
      /\ \A b \in 1..top : b # z /\ b \in 1..top' /\ mem'[b] = mem[b]
      /\ \A b \in 1..top' : b \in 1..top \/ b = z
  BY <1>0, <1>2, <1>3, AddsNode
<1>6. /\ cl'[c].pc = "leaf_split" /\ cl'[c].nsp = z
      /\ \A d \in Clients \ {c} : cl'[d] = cl[d]
  <2>1. /\ cl'[c] = [cl[c] EXCEPT !.pc = "leaf_split", !.nsk = m + 1, !.nsp = top + 1]
        /\ \A d \in Clients \ {c} : cl'[d] = cl[d]
    BY <1>0, <1>2, BecomeIs
  <2> QED BY <1>0, <1>3, <2>1 DEF Locals
<1>7. PICK new : new = [ix EXCEPT ![z] = r]
  OBVIOUS
<1>8. /\ new \in [Addrs -> Node] /\ new[z] = r
      /\ \A b \in 1..top : new[b] = ix[b]
  <2>1. r \in Node /\ ix \in [Addrs -> Node]
    BY <1>0, <1>5 DEF TypeOK, Shows
  <2>2. \A b \in 1..top : b \in Addrs
    BY <1>0, Allocated
  <2> QED BY <1>5, <1>7, <2>1, <2>2
<1>9. Shows(new)'
  <2>0. PICK W : W = {z}
    OBVIOUS
  <2>1. \A d \in Clients \ {c} : cl[d].pc = "internal_split" => cl[d].p \notin W
    BY <1>5, <2>0, Apart
  <2>2. SameIndex(new[z], mem'[z])
    BY <1>5, <1>8 DEF SameIndex
  <2>3. \A b \in 1..top : b \notin W => new[b] = ix[b] /\ mem'[b] = mem[b]
    BY <1>5, <1>8
  <2>4. \A b \in 1..top' : b \in 1..top \/ b \in W
    BY <1>5, <2>0
  <2>5. \A b \in W : SameIndex(new[b], mem'[b])
    BY <2>0, <2>2
  <2>6. cl[c].pc # "internal_split" /\ cl'[c].pc # "internal_split"
    BY <1>0, <1>6
  <2> QED BY <1>0, <1>6, <1>8, <2>1, <2>3, <2>4, <2>5, <2>6, ShowsNext
<1>10. Shape(new, Pend', root', top')
  <2>1. /\ Pend[c] = Null /\ Pend'[c] = z
        /\ \A d \in Clients \ {c} : Pend'[d] = Pend[d]
    <3>1. Pend[c] = Null
      BY <1>0, PendIs DEF Upward
    <3>2. Pend'[c] = z
      BY <1>6, PendIs
    <3> QED BY <1>6, <3>1, <3>2, PendIs
  <2>2. \A b \in 1..top : ix[b].level \in Nat
    BY <1>0, ShownAs, Numbers
  <2>3. top \in Nat
    BY <1>0, Allocated
  <2>4. Shape(new, Pend', root, top + 1)
    BY <1>0, <1>3, <1>4, <1>8, <2>1, <2>2, <2>3, ShapeLeaf
  <2> QED BY <1>0, <2>4
<1>11. RootAlone'
  <2>1. ~Whole(mem'[z])
    BY <1>4, <1>5 DEF Whole, LeafIsRoot
  <2>2. cl[c].pc # "newroot" /\ cl'[c].pc # "newroot"
    BY <1>0, <1>6
  <2> QED BY <1>0, <1>5, <1>6, <2>1, <2>2, RootNext
<1>12. StrictAll'
  <2>0. PICK W : W = {z}
    OBVIOUS
  <2>1. /\ \A b \in 1..top' : b \in W \/ (b \in 1..top /\ mem'[b] = mem[b])
        /\ \A b \in W : mem'[b].level > 0 => Strict(mem'[b])
    BY <1>4, <1>5, <2>0
  <2> QED BY <1>0, <2>1, StrictNext
<1>13. AboveLeast'
  BY <1>0, <1>6, AboveNext DEF Upward
<1> QED BY <1>9, <1>10, <1>11, <1>12, <1>13 DEF ParentInv

\* A commit makes of the divided node what the index shows already.
LEMMA CommitKeeps ==
  ASSUME TreeInv, TypeOK', NEW low, RangeInv(low), NEW ix, ParentInv(ix),
         NEW c \in Clients, NEW a, a = cl[c].p, NEW l \in Nat,
         cl[c].pc \in {"leaf_split", "internal_split"}, l = mem[a].level + 1,
         IF Whole(mem[a]) THEN ToNewRoot(c, l) ELSE ToParent(c, l),
         top' = top, root' = root, cache' = cache,
         a \in 1..top, \A b \in Addrs : b # a => mem'[b] = mem[b],
         ~Whole(mem'[a]), mem'[a].level = mem[a].level, SameIndex(ix[a], mem'[a]),
         cl[c].nsk > 1
  PROVE  ParentInv(ix)'
<1>0. /\ TypeOK /\ cl[c] \in Locals
      /\ Shows(ix) /\ Shape(ix, Pend, root, top) /\ RootAlone /\ StrictAll /\ AboveLeast
      /\ InCritical(c)
  BY Here DEF ParentInv, InCritical, Critical
<1>1. /\ cl'[c].pc \in {"newroot", "ii_root", "lock_internal"}
      /\ cl'[c].pc = "newroot" => cl'[c].p = a /\ Whole(mem[a])
      /\ cl'[c].sk = cl[c].nsk /\ cl'[c].sp = cl[c].nsp /\ cl'[c].tl = l
      /\ \A d \in Clients \ {c} : cl'[d] = cl[d]
  <2>1. ToParent(c, l) \/ ToNewRoot(c, l)
    OBVIOUS
  <2>2. /\ cl'[c].pc \in {"newroot", "ii_root", "lock_internal"}
        /\ cl'[c].pc = "newroot" => cl'[c].p = cl[c].p
        /\ ToParent(c, l) => cl'[c].pc # "newroot"
        /\ cl'[c].sk = cl[c].nsk /\ cl'[c].sp = cl[c].nsp /\ cl'[c].tl = l
        /\ \A d \in Clients \ {c} : cl'[d] = cl[d]
    BY <2>1, ToParentFields
  <2> QED BY <2>2
<1>2. \A b \in 1..top : b \in Addrs /\ (b # a => mem'[b] = mem[b])
  BY <1>0, Allocated
<1>3. Shows(ix)'
  <2>0. PICK W : W = {a}
    OBVIOUS
  <2>1. \A d \in Clients \ {c} : cl[d].pc = "internal_split" => cl[d].p \notin W
    BY <1>0, <2>0, Apart
  <2>2. cl'[c].pc # "internal_split" /\ ix \in [Addrs -> Node]
    BY <1>0, <1>1 DEF Shows
  <2>3. \A b \in 1..top : b \notin W => ix[b] = ix[b] /\ mem'[b] = mem[b]
    BY <1>2, <2>0
  <2>4. \A b \in 1..top' : b \in 1..top \/ b \in W
    OBVIOUS
  <2>5. \A b \in W : SameIndex(ix[b], mem'[b])
    BY <2>0
  <2>6. cl[c].p \in W
    BY <2>0
  <2> QED BY <1>0, <1>1, <2>1, <2>2, <2>3, <2>4, <2>5, <2>6, ShowsNext
<1>4. Shape(ix, Pend, root, top)'
  <2>1. Pend[c] = cl[c].nsp /\ Pend'[c] = cl'[c].sp
    BY <1>1, PendIs DEF Upward
  <2>2. \A d \in Clients : Pend'[d] = Pend[d]
    BY <1>1, <2>1, PendIs
  <2> QED BY <1>0, <2>2, PendSame
<1>5. RootAlone'
  <2>1. \A b \in 1..top : /\ b \in 1..top' /\ mem'[b].level = mem[b].level
                          /\ Whole(mem'[b]) => Whole(mem[b])
    BY <1>2
  <2>2. cl'[c].pc = "newroot" =>
           /\ cl'[c].p \in 1..top /\ cl'[c].tl = mem[cl'[c].p].level + 1
           /\ Whole(mem[cl'[c].p]) /\ ~Whole(mem'[cl'[c].p])
    BY <1>1
  <2>3. cl[c].pc # "newroot"
    OBVIOUS
  <2> QED BY <1>0, <1>1, <2>1, <2>2, <2>3, RootNext
<1>6. StrictAll'
  <2>1. mem'[a].level > 0 => Strict(mem'[a])
    <3>1. mem'[a].level > 0 => \A s \in Seps(ix[a]) : ix[a].lo < s
      BY <1>0, SameMeans DEF Shape, Inner
    <3> QED BY <3>1, SameMeans DEF Strict
  <2>0. PICK W : W = {a}
    OBVIOUS
  <2>2. /\ \A b \in 1..top' : b \in W \/ (b \in 1..top /\ mem'[b] = mem[b])
        /\ \A b \in W : mem'[b].level > 0 => Strict(mem'[b])
    BY <1>2, <2>0, <2>1
  <2> QED BY <1>0, <2>2, StrictNext
<1>7. AboveLeast'
  BY <1>0, <1>1, AboveNext
<1> QED BY <1>3, <1>4, <1>5, <1>6, <1>7 DEF ParentInv

\* The left half of a leaf is written.
LEMMA LeafCommitParent ==
  ASSUME TreeInv, TypeOK', NEW low, RangeInv(low), NEW ix, ParentInv(ix),
         NEW c \in Clients, LeafSplitCommit(c)
  PROVE  ParentInv(ix)'
<1>a. PICK a, f : a = cl[c].p /\ f = Overfull(c)
  OBVIOUS
<1>0. /\ TypeOK /\ cl[c].pc = "leaf_split" /\ Guided(low, c) /\ Halves(low, c)
      /\ InCritical(c) /\ a \in Addrs /\ a # Null /\ mem[a] \in Node
      /\ top' = top /\ root' = root /\ cache' = cache
      /\ cl[c].nsk \in Keys /\ cl[c].nsp \in AddrOrNull
      /\ WriteNode(a, LeftLeaf(f, cl[c].nsk, cl[c].nsp)) /\ Shows(ix)
      /\ f = WithRecord(mem[a], cl[c].k, cl[c].v)
      /\ cl[c].k \in Keys /\ cl[c].v \in Vals \cup {kValueNull}
  BY <1>a, Here, Parts DEF LeafSplitCommit, InCritical, Critical, ParentInv, Overfull
<1>1. Settled(a) /\ a \in 1..top /\ mem[a].level = 0
  BY <1>0, <1>a DEF Guided, LeafLevel, Settled
<1>2. f \in Node /\ Present(f.kv) \subseteq Keys
  BY <1>0, FullLeaf, NodeFields
<1>3. cl[c].nsk > 1 /\ cl[c].nsp \in 1..top
  <2>1. cl[c].nsk - 1 \in Keys /\ cl[c].nsp \in 1..top
    BY <1>0, <1>a, <1>2 DEF Halves
  <2> QED BY <1>0, <2>1 DEF Keys
<1>4. /\ mem'[a] = LeftLeaf(f, cl[c].nsk, cl[c].nsp)
      /\ \A b \in Addrs : b # a => mem'[b] = mem[b]
  BY <1>0, WriteIs
<1>5. mem'[a].sib = cl[c].nsp /\ SameIndex(mem'[a], f)
  BY <1>2, <1>4 DEF LeftLeaf, SameIndex, Node
<1>6. SameIndex(f, mem[a])
  BY <1>0 DEF WithRecord, SameIndex, Node
<1>7. SameIndex(ix[a], mem[a])
  BY <1>0, <1>1, <1>a, ShownAs
<1>8. SameIndex(ix[a], mem'[a]) /\ mem'[a].level = mem[a].level
  BY <1>5, <1>6, <1>7 DEF SameIndex
<1>9. ~Whole(mem'[a])
  <2>1. cl[c].nsp # Widest
    BY <1>0, TreeConstants DEF AddrOrNull, Widest
  <2> QED BY <1>1, <1>5, <1>8, <2>1 DEF Whole, LeafIsRoot
<1>10. IF Whole(mem[a]) THEN ToNewRoot(c, 1) ELSE ToParent(c, 1)
  BY <1>1, <1>a DEF LeafSplitCommit, Whole
<1>11. 1 \in Nat /\ 1 = mem[a].level + 1
  BY <1>1
<1> QED BY <1>0, <1>1, <1>3, <1>4, <1>8, <1>9, <1>10, <1>11, <1>a, CommitKeeps

\* The left half of an internal node is written.
LEMMA InternalCommitParent ==
  ASSUME TreeInv, TypeOK', NEW low, RangeInv(low), NEW ix, ParentInv(ix),
         NEW c \in Clients, InternalSplitCommit(c)
  PROVE  ParentInv(ix)'
<1>a. PICK a, w, l : a = cl[c].p /\ w = Committed(c) /\ l = cl[c].tl + 1
  OBVIOUS
<1>0. /\ TypeOK /\ cl[c].pc = "internal_split" /\ Carries(low, c) /\ Halves(low, c)
      /\ InCritical(c) /\ a \in Addrs /\ a # Null /\ mem[a] \in Node
      /\ top' = top /\ root' = root /\ cache' = cache
      /\ cl[c].nsk \in Keys /\ cl[c].nsp \in AddrOrNull
      /\ cl[c].sk \in Keys /\ cl[c].sp \in AddrOrNull /\ cl[c].tl \in Nat
      /\ Shows(ix) /\ StrictAll
  BY <1>a, Here, Parts DEF InternalSplitCommit, InCritical, Critical, ParentInv
<1>1. /\ a \in 1..top /\ mem[a].level = cl[c].tl /\ cl[c].tl > 0
      /\ cl[c].nsk \in Seps(mem[a])
  BY <1>0, <1>a DEF Carries, Upward, OfLevel, Halves
<1>2. cl[c].nsk > 1 /\ cl[c].nsk <= KeyMax /\ KeyMax \in Nat
  <2>1. mem[a].lo < cl[c].nsk /\ mem[a].lo \in Nat /\ mem[a].lo >= 1
    BY <1>0, <1>1, Numbers DEF StrictAll, Strict
  <2> QED BY <1>0, <2>1, TreeConstants DEF Keys
<1>3. mem'[a] = w /\ \A b \in Addrs : b # a => mem'[b] = mem[b]
  <2>1. WriteNode(a, w)
    BY <1>a DEF InternalSplitCommit, Committed
  <2> QED BY <1>0, <2>1, WriteIs
<1>4. w.level = mem[a].level /\ w.hi = cl[c].nsk
  BY <1>0, <1>a DEF Committed, LeftInternal, WithSeparator, Node
<1>5. SameIndex(ix[a], mem'[a])
  BY <1>0, <1>3, <1>a DEF Shows
<1>6. ~Whole(mem'[a])
  BY <1>1, <1>2, <1>3, <1>4 DEF Whole, InternalIsRoot
<1>7. IF Whole(mem[a]) THEN ToNewRoot(c, l) ELSE ToParent(c, l)
  BY <1>1, <1>a DEF InternalSplitCommit, Whole
<1>8. l \in Nat /\ l = mem[a].level + 1 /\ mem'[a].level = mem[a].level
  BY <1>0, <1>1, <1>3, <1>4, <1>a
<1> QED BY <1>0, <1>1, <1>2, <1>3, <1>5, <1>6, <1>7, <1>8, <1>a, CommitKeeps

\* w is the node n with one more separator.
Joined(w, n, s, y) == w = WithSeparator(n, s, y)

\* The fences of a node that gains a separator stay.
LEMMA JoinFields ==
  ASSUME NEW n \in Node, NEW s \in Keys, s \notin Seps(n), NEW y, y # Null,
         NEW w, Joined(w, n, s, y)
  PROVE  w.level = n.level /\ w.lo = n.lo /\ w.hi = n.hi /\ w.leftmost = n.leftmost
BY DEF WithSeparator, Node, Joined

\* The separators of a node that gains one.
LEMMA JoinSeps ==
  ASSUME NEW n \in Node, NEW s \in Keys, s \notin Seps(n), NEW y, y # Null,
         NEW w, Joined(w, n, s, y)
  PROVE  Seps(w) = Seps(n) \cup {s}
<1>1. w.recs = [n.recs EXCEPT ![s] = y]
  BY DEF WithSeparator, Node, Joined
<1>2. w.recs[s] = y /\ \A j \in Keys : j # s => w.recs[j] = n.recs[j]
  BY <1>1 DEF Node
<1> QED BY <1>2 DEF Seps

\* The children of a node that gains a separator.
LEMMA JoinKids ==
  ASSUME NEW n \in Node, NEW s \in Keys, s \notin Seps(n), NEW y, y # Null,
         NEW w, Joined(w, n, s, y)
  PROVE  \A x : Kid(w, x) <=> Kid(n, x) \/ x = y
<1>1. w.leftmost = n.leftmost /\ w.recs = [n.recs EXCEPT ![s] = y]
  BY DEF WithSeparator, Node, Joined
<1>2. w.recs[s] = y /\ \A j \in Keys : j # s => w.recs[j] = n.recs[j]
  BY <1>1 DEF Node
<1>3. Seps(w) = Seps(n) \cup {s}
  BY <1>2 DEF Seps
<1>4. \A j \in Seps(n) : j # s /\ w.recs[j] = n.recs[j]
  BY <1>2 DEF Seps
<1> QED BY <1>1, <1>2, <1>3, <1>4 DEF Kid

\* The two halves of a node share out its children and those of the separator

\* that made it overflow.
LEMMA SplitKids ==
  ASSUME NEW n \in Node, NEW s \in Keys, s \notin Seps(n), NEW y, y # Null,
         NEW m \in Seps(n), NEW t, NEW z, NEW w, NEW l, NEW r,
         w = WithSeparator(n, s, y),
         l = IF s < m THEN WithSeparator(LeftInternal(n, m, z), s, y)
             ELSE LeftInternal(n, m, z),
         r = IF s < m THEN RightInternal(n, m, t)
             ELSE WithSeparator(RightInternal(n, m, t), s, y)
  PROVE  /\ l.level = n.level /\ l.lo = n.lo /\ l.hi = m
         /\ r.level = t /\ r.lo = m /\ r.hi = n.hi
         /\ \A j \in Seps(l) : j \in Seps(w) /\ j < m
         /\ \A j \in Seps(r) : j \in Seps(w) /\ m < j
         /\ \A x : Kid(w, x) <=> Kid(l, x) \/ Kid(r, x)
<1>0. m \in Keys /\ m # s /\ n.recs \in [Keys -> AddrOrNull] /\ Keys \subseteq Nat
  BY DEF Seps, Node, Keys
<1>1. /\ w.leftmost = n.leftmost /\ w.recs[s] = y
      /\ \A j \in Keys : j # s => w.recs[j] = n.recs[j]
      /\ Seps(w) = Seps(n) \cup {s}
  <2>1. w.leftmost = n.leftmost /\ w.recs = [n.recs EXCEPT ![s] = y]
    BY DEF WithSeparator, Node
  <2>2. w.recs[s] = y /\ \A j \in Keys : j # s => w.recs[j] = n.recs[j]
    BY <1>0, <2>1
  <2> QED BY <2>1, <2>2 DEF Seps
<1>2. /\ l.level = n.level /\ l.lo = n.lo /\ l.hi = m /\ l.leftmost = n.leftmost
      /\ \A j \in Keys : l.recs[j] = IF j < m THEN w.recs[j] ELSE Null
  <2>1. PICK q : q = LeftInternal(n, m, z)
    OBVIOUS
  <2>2. /\ q.level = n.level /\ q.lo = n.lo /\ q.hi = m /\ q.leftmost = n.leftmost
        /\ q.recs = [j \in Keys |-> IF j < m THEN n.recs[j] ELSE Null]
    BY <2>1 DEF LeftInternal, Node
  <2>3. CASE s < m
    <3>1. l = [q EXCEPT !.recs[s] = y]
      BY <2>1, <2>3 DEF WithSeparator
    <3>2. /\ l.level = q.level /\ l.lo = q.lo /\ l.hi = q.hi /\ l.leftmost = q.leftmost
          /\ l.recs = [q.recs EXCEPT ![s] = y]
      BY <2>1, <3>1 DEF LeftInternal, Node
    <3>3. \A j \in Keys : l.recs[j] = IF j = s THEN y ELSE q.recs[j]
      BY <2>2, <3>2
    <3> QED BY <1>0, <1>1, <2>2, <2>3, <3>2, <3>3
  <2>4. CASE ~(s < m)
    BY <1>0, <1>1, <2>1, <2>2, <2>4
  <2> QED BY <2>3, <2>4
<1>3. /\ r.level = t /\ r.lo = m /\ r.hi = n.hi /\ r.leftmost = w.recs[m]
      /\ \A j \in Keys : r.recs[j] = IF j > m THEN w.recs[j] ELSE Null
  <2>1. PICK q : q = RightInternal(n, m, t)
    OBVIOUS
  <2>2. /\ q.level = t /\ q.lo = m /\ q.hi = n.hi /\ q.leftmost = n.recs[m]
        /\ q.recs = [j \in Keys |-> IF j > m THEN n.recs[j] ELSE Null]
    BY <2>1 DEF RightInternal, ZeroNode
  <2>3. CASE ~(s < m)
    <3>1. r = [q EXCEPT !.recs[s] = y]
      BY <2>1, <2>3 DEF WithSeparator
    <3>2. /\ r.level = q.level /\ r.lo = q.lo /\ r.hi = q.hi /\ r.leftmost = q.leftmost
          /\ r.recs = [q.recs EXCEPT ![s] = y]
      BY <2>1, <3>1 DEF RightInternal, ZeroNode
    <3>3. \A j \in Keys : r.recs[j] = IF j = s THEN y ELSE q.recs[j]
      BY <2>2, <3>2
    <3> QED BY <1>0, <1>1, <2>2, <2>3, <3>2, <3>3
  <2>4. CASE s < m
    BY <1>0, <1>1, <2>1, <2>2, <2>4
  <2> QED BY <2>3, <2>4
<1>4. /\ \A j \in Seps(l) : j \in Seps(w) /\ j < m /\ l.recs[j] = w.recs[j]
      /\ \A j \in Seps(r) : j \in Seps(w) /\ m < j /\ r.recs[j] = w.recs[j]
  BY <1>0, <1>2, <1>3 DEF Seps
<1>5. \A j \in Seps(w) : \/ j \in Seps(l) /\ l.recs[j] = w.recs[j]
                         \/ j \in Seps(r) /\ r.recs[j] = w.recs[j]
                         \/ j = m
  <2>1. SUFFICES ASSUME NEW j \in Seps(w)
                 PROVE  \/ j \in Seps(l) /\ l.recs[j] = w.recs[j]
                        \/ j \in Seps(r) /\ r.recs[j] = w.recs[j]
                        \/ j = m
    OBVIOUS
  <2>2. j \in Keys /\ w.recs[j] # Null /\ (j < m \/ j > m \/ j = m)
    BY <1>0 DEF Seps, Keys
  <2>3. CASE j < m
    BY <1>2, <2>2, <2>3 DEF Seps
  <2>4. CASE j > m
    BY <1>3, <2>2, <2>4 DEF Seps
  <2> QED BY <2>2, <2>3, <2>4
<1>6. m \in Seps(w)
  BY <1>1
<1>7. \A x : Kid(w, x) <=> Kid(l, x) \/ Kid(r, x)
  BY <1>1, <1>2, <1>3, <1>4, <1>5, <1>6 DEF Kid
<1> QED BY <1>2, <1>3, <1>4, <1>7

\* Two nodes of a level that begin at the same key are one node.
LEMMA OneStands ==
  ASSUME TreeInv, NEW low, RangeInv(low), NEW ix, Shows(ix), NEW pend, NEW rt,
         Shape(ix, pend, rt, top), NEW a, NEW b, NEW s, NEW l \in Nat,
         Stands(low, a, s, l), Stands(low, b, s, l)
  PROVE  a = b
<1>0. TypeOK /\ a \in 1..top /\ b \in 1..top /\ a \in Addrs /\ b \in Addrs
  BY Allocated DEF TreeInv, Stands
<1>1. CASE l = 0
  <2>1. Settled(a) /\ Settled(b) /\ low[a] = s /\ low[b] = s
    BY <1>1 DEF Stands
  <2>2. /\ low[a] < End(low, a) /\ low[b] < End(low, b) /\ low[a] \in Nat
        /\ low[b] \in Nat /\ End(low, a) \in Nat /\ End(low, b) \in Nat
    BY <1>0, <2>1, LeafFacts DEF Keys
  <2>3. a # b => End(low, a) <= low[b] \/ End(low, b) <= low[a]
    BY <1>0, <2>1 DEF RangeInv, Tiling
  <2> QED BY <2>1, <2>2, <2>3
<1>2. CASE l # 0
  <2>1. /\ ix[a].level = l /\ ix[b].level = l /\ ix[a].lo = s /\ ix[b].lo = s
        /\ ix[a] \in Node /\ ix[b] \in Node
    BY <1>0, <1>2, ShownAs DEF Stands
  <2>2. /\ ix[a].lo < ix[a].hi /\ ix[b].lo < ix[b].hi
        /\ a # b => ix[a].hi <= ix[b].lo \/ ix[b].hi <= ix[a].lo
    BY <1>0, <1>2, <2>1 DEF Shape, Inner
  <2>3. /\ ix[a].lo \in Nat /\ ix[a].hi \in Nat /\ ix[b].lo \in Nat /\ ix[b].hi \in Nat
    BY <2>1, Numbers
  <2> QED BY <2>1, <2>2, <2>3
<1> QED BY <1>1, <1>2

\* A separator never meets the lower fence of the parent it joins: the leftmost

\* child begins there, and what c carries has no parent yet.
LEMMA AboveFence ==
  ASSUME TreeInv, NEW low, RangeInv(low), NEW ix, ParentInv(ix), NEW c \in Clients,
         SeparatorFits(c)
  PROVE  mem[cl[c].p].lo < cl[c].sk
<1>a. PICK a, n, y : a = cl[c].p /\ n = mem[a] /\ y = cl[c].sp
  OBVIOUS
<1>0. /\ TypeOK /\ cl[c].pc = "internal_insert" /\ InCritical(c) /\ Carries(low, c)
      /\ a \in Addrs /\ a # Null /\ n \in Node /\ n.lo <= cl[c].sk /\ cl[c].sk \in Keys
      /\ cl[c].tl \in Nat /\ Shows(ix) /\ Shape(ix, Pend, root, top)
  BY <1>a, Here, Parts DEF SeparatorFits, InCritical, Critical, ParentInv
<1>1. /\ a \in 1..top /\ n.level = cl[c].tl /\ cl[c].tl > 0
      /\ Stands(low, y, cl[c].sk, cl[c].tl - 1)
  BY <1>0, <1>a DEF Carries, Upward, OfLevel
<1>2. Stands(low, n.leftmost, n.lo, cl[c].tl - 1)
  BY <1>1, <1>a DEF RangeInv, Routing, Truthful
<1>3. n.lo # cl[c].sk
  <2>1. SUFFICES ASSUME n.lo = cl[c].sk PROVE FALSE
    OBVIOUS
  <2>2. cl[c].tl - 1 \in Nat
    BY <1>0, <1>1
  <2>3. n.leftmost = y
    BY <1>0, <1>1, <1>2, <2>1, <2>2, OneStands
  <2>4. SameIndex(ix[a], n)
    BY <1>0, <1>1, <1>a, ShownAs
  <2>5. Kid(ix[a], y) /\ ix[a].level > 0
    BY <1>1, <2>3, <2>4 DEF SameIndex, Kid
  <2>6. y # Null
    BY <1>1 DEF Stands, Null
  <2>7. Pend[c] = y
    BY <1>0, <1>a, PendIs DEF Upward
  <2> QED BY <1>0, <1>1, <2>5, <2>6, <2>7 DEF Shape, Loose
<1> QED BY <1>0, <1>3, <1>a, Numbers DEF Keys
\* new is ix with what c carries in the node a.
Joins(ix, new, c, a, n, s, y, w) ==
  /\ a = cl[c].p /\ n = mem[a] /\ s = cl[c].sk /\ y = cl[c].sp
  /\ w = WithSeparator(n, s, y) /\ new = [ix EXCEPT ![a] = w]

\* The locked parent with what c carries: the index keeps its shape, and c has

\* nothing pending any more.
LEMMA JoinShape ==
  ASSUME TreeInv, NEW low, RangeInv(low), NEW ix, ParentInv(ix), NEW c \in Clients,
         SeparatorFits(c), NEW a, NEW n, NEW s, NEW y, NEW w, NEW new, NEW pen2,
         Joins(ix, new, c, a, n, s, y, w),
         pen2[c] = Null, \A d \in Clients \ {c} : pen2[d] = Pend[d]
  PROVE  /\ Shape(new, pen2, root, top) /\ new \in [Addrs -> Node]
         /\ a \in 1..top /\ a \in Addrs /\ n \in Node /\ n.level > 0 /\ n.level = cl[c].tl
         /\ y # Null /\ n.lo < s /\ s \in Keys
         /\ s \notin Seps(n) /\ InCritical(c) /\ w \in Node
<1>a. a = cl[c].p /\ n = mem[a] /\ s = cl[c].sk /\ y = cl[c].sp
  BY DEF Joins
<1>b. Joined(w, n, s, y) /\ new = [ix EXCEPT ![a] = w]
  BY DEF Joins, Joined
<1>0. /\ TypeOK /\ cl[c].pc = "internal_insert" /\ InCritical(c) /\ Carries(low, c)
      /\ a \in Addrs /\ a # Null /\ n \in Node /\ s \in Keys /\ y \in AddrOrNull
      /\ n.lo <= s /\ s < n.hi /\ s \notin Seps(n)
      /\ cl[c].tl \in Nat /\ Shows(ix) /\ Shape(ix, Pend, root, top)
  BY <1>a, Here, Parts DEF SeparatorFits, InCritical, Critical, ParentInv
<1>1. /\ a \in 1..top /\ n.level = cl[c].tl /\ cl[c].tl > 0
      /\ Stands(low, y, s, cl[c].tl - 1)
  BY <1>0, <1>a DEF Carries, Upward, OfLevel
<1>2. y \in 1..top /\ y # Null /\ mem[y].level = cl[c].tl - 1
  BY <1>1 DEF Stands, Null
<1>3. n.lo < s
  BY <1>a, AboveFence
<1>4. Pend[c] = y
  BY <1>0, <1>a, PendIs DEF Upward
<1>5. /\ w.level = n.level /\ w.lo = n.lo /\ w.hi = n.hi
      /\ Seps(w) = Seps(n) \cup {s} /\ \A x : Kid(w, x) <=> Kid(n, x) \/ x = y
  <2>1. n \in Node /\ s \in Keys /\ s \notin Seps(n) /\ y # Null /\ Joined(w, n, s, y)
    BY <1>0, <1>2, <1>b
  <2>2. w.level = n.level /\ w.lo = n.lo /\ w.hi = n.hi
    BY <2>1, JoinFields
  <2>3. Seps(w) = Seps(n) \cup {s}
    BY <2>1, JoinSeps
  <2>4. \A x : Kid(w, x) <=> Kid(n, x) \/ x = y
    BY <2>1, JoinKids
  <2> QED BY <2>2, <2>3, <2>4
<1>6. /\ Seps(ix[a]) = Seps(n) /\ ix[a].level = n.level /\ ix[a].lo = n.lo
      /\ ix[a].hi = n.hi /\ \A x : Kid(ix[a], x) <=> Kid(n, x)
  <2>1. SameIndex(ix[a], n)
    BY <1>0, <1>1, <1>a, ShownAs
  <2> QED BY <2>1, SameMeans
<1>7. w \in Node
  <2>1. kValueNull \in Vals \cup {kValueNull} /\ n.level \in Nat
    BY <1>0, <1>1
  <2> QED BY <1>0, <1>b, <2>1, NodeOps DEF Joined
<1>8. /\ new \in [Addrs -> Node] /\ new[a] = w
      /\ \A b \in Addrs : b # a => new[b] = ix[b]
  BY <1>0, <1>7, <1>b DEF Shows
<1>9. \A b \in 1..top : b # a => new[b] = ix[b]
  BY <1>0, <1>8, Allocated
<1>10. ix[a].level = ix[y].level + 1
  BY <1>0, <1>1, <1>2, <1>6, ShownAs
<1>11. top \in Nat /\ s \in Nat
  BY <1>0, Allocated DEF Keys
<1>12. /\ \A t \in Seps(new[a]) : t \in Seps(ix[a]) \/ t = s
       /\ \A x : Kid(new[a], x) <=> Kid(ix[a], x) \/ x = y
       /\ new[a].level = ix[a].level /\ new[a].lo = ix[a].lo /\ new[a].hi = ix[a].hi
       /\ ix[a].level > 0 /\ ix[a].lo < s /\ s < ix[a].hi
  BY <1>0, <1>1, <1>3, <1>5, <1>6, <1>8
<1>13. Shape(new, pen2, root, top)
  BY <1>0, <1>1, <1>2, <1>4, <1>9, <1>10, <1>11, <1>12, ShapeJoin
<1> QED BY <1>0, <1>1, <1>2, <1>3, <1>7, <1>8, <1>13, <1>a

\* A separator joins its parent.
LEMMA InsertParent ==
  ASSUME TreeInv, TypeOK', NEW low, RangeInv(low), NEW ix, ParentInv(ix),
         NEW c \in Clients, InternalInsertWrite(c)
  PROVE  \E new : ParentInv(new)'
<1>a. PICK a, n, s, y, w, new : /\ a = cl[c].p /\ n = mem[a]
                                /\ s = cl[c].sk /\ y = cl[c].sp
                                /\ w = WithSeparator(n, s, y)
                                /\ new = [ix EXCEPT ![a] = w]
  OBVIOUS
<1>0. /\ TypeOK /\ cl[c].pc = "internal_insert" /\ cl[c] \in Locals
      /\ SeparatorFits(c) /\ top' = top /\ root' = root /\ cache' = cache
      /\ WriteNode(a, w)
      /\ Shows(ix) /\ RootAlone /\ StrictAll /\ AboveLeast
  BY <1>a, Here DEF InternalInsertWrite, SeparatorFits, ParentInv
<1>1. cl'[c].pc = "done" /\ \A d \in Clients \ {c} : cl'[d] = cl[d]
  <2>1. cl'[c] = [cl[c] EXCEPT !.pc = "done"] /\ \A d \in Clients \ {c} : cl'[d] = cl[d]
    BY <1>0, BecomeIs DEF InternalInsertWrite
  <2> QED BY <1>0, <2>1 DEF Locals
<1>2. Pend'[c] = Null /\ \A d \in Clients \ {c} : Pend'[d] = Pend[d]
  BY <1>1, PendIs DEF Upward
<1>3. /\ Shape(new, Pend', root, top) /\ new \in [Addrs -> Node]
      /\ a \in 1..top /\ a \in Addrs /\ n \in Node /\ n.level > 0
      /\ new[a] = w /\ \A b \in Addrs : b # a => new[b] = ix[b]
      /\ y # Null /\ n.lo < s /\ s \in Keys
      /\ s \notin Seps(n) /\ InCritical(c)
  <2>1. Joins(ix, new, c, a, n, s, y, w) /\ SeparatorFits(c)
    BY <1>0, <1>a DEF Joins
  <2>2. PICK pen2 : pen2 = Pend'
    OBVIOUS
  <2>3. pen2[c] = Null /\ \A d \in Clients \ {c} : pen2[d] = Pend[d]
    BY <1>2, <2>2
  <2>4. /\ Shape(new, pen2, root, top) /\ new \in [Addrs -> Node]
        /\ a \in 1..top /\ a \in Addrs /\ n \in Node /\ n.level > 0
        /\ y # Null /\ n.lo < s /\ s \in Keys
        /\ s \notin Seps(n) /\ InCritical(c) /\ w \in Node
    BY <2>1, <2>3, JoinShape
  <2>5. new[a] = w /\ \A b \in Addrs : b # a => new[b] = ix[b]
    BY <1>0, <1>a, <2>4 DEF Shows
  <2> QED BY <2>2, <2>4, <2>5
<1>4. mem'[a] = w /\ \A b \in Addrs : b # a => mem'[b] = mem[b]
  BY <1>0, <1>3, WriteIs
<1>5. /\ w.level = n.level /\ w.lo = n.lo /\ w.hi = n.hi
      /\ Seps(w) = Seps(n) \cup {s}
  <2>1. Joined(w, n, s, y)
    BY <1>a DEF Joined
  <2>2. n \in Node /\ s \in Keys /\ s \notin Seps(n) /\ y # Null
    BY <1>3
  <2>3. w.level = n.level /\ w.lo = n.lo /\ w.hi = n.hi
    BY <2>1, <2>2, JoinFields
  <2>4. Seps(w) = Seps(n) \cup {s}
    BY <2>1, <2>2, JoinSeps
  <2> QED BY <2>3, <2>4
<1>6. \A b \in 1..top : b \in Addrs /\ (b # a => new[b] = ix[b] /\ mem'[b] = mem[b])
  BY <1>0, <1>3, <1>4, Allocated
<1>w. PICK W : W = {a}
  OBVIOUS
<1>7. Shows(new)'
  <2>1. \A d \in Clients \ {c} : cl[d].pc = "internal_split" => cl[d].p \notin W
    BY <1>3, <1>a, <1>w, Apart
  <2>2. cl[c].pc # "internal_split" /\ cl'[c].pc # "internal_split"
    BY <1>0, <1>1
  <2>3. \A b \in 1..top : b \notin W => new[b] = ix[b] /\ mem'[b] = mem[b]
    BY <1>6, <1>w
  <2>4. \A b \in 1..top' : b \in 1..top \/ b \in W
    BY <1>0
  <2>5. \A b \in W : SameIndex(new[b], mem'[b])
    BY <1>3, <1>4, <1>w DEF SameIndex
  <2> QED BY <1>0, <1>1, <1>3, <2>1, <2>2, <2>3, <2>4, <2>5, ShowsNext
<1>8. RootAlone'
  <2>1. \A b \in 1..top : /\ b \in 1..top' /\ mem'[b].level = mem[b].level
                          /\ Whole(mem'[b]) => Whole(mem[b])
    <3>1. mem'[a].level = n.level /\ (Whole(mem'[a]) => Whole(n))
      BY <1>3, <1>4, <1>5 DEF Whole, InternalIsRoot
    <3> QED BY <1>0, <1>6, <1>a, <3>1
  <2>2. cl[c].pc # "newroot" /\ cl'[c].pc # "newroot"
    BY <1>0, <1>1
  <2>3. \A b \in 1..top' : b \in 1..top
    BY <1>0
  <2> QED BY <1>0, <1>1, <2>1, <2>2, <2>3, RootNext
<1>9. StrictAll'
  <2>1. Strict(n)
    BY <1>0, <1>3, <1>a DEF StrictAll
  <2>2. Strict(w)
    BY <1>3, <1>5, <2>1 DEF Strict
  <2>3. /\ \A b \in 1..top' : b \in W \/ (b \in 1..top /\ mem'[b] = mem[b])
        /\ \A b \in W : mem'[b].level > 0 => Strict(mem'[b])
    BY <1>0, <1>4, <1>6, <1>w, <2>2
  <2> QED BY <1>0, <2>3, StrictNext
<1>10. AboveLeast'
  BY <1>0, <1>1, AboveNext DEF Upward
<1>11. Shape(new, Pend, root, top)'
  BY <1>0, <1>3
<1> QED BY <1>7, <1>8, <1>9, <1>10, <1>11 DEF ParentInv

\* The sibling of an internal node is written: the index shows both halves.
LEMMA InternalSiblingParent ==
  ASSUME TreeInv, TypeOK', NEW low, RangeInv(low), NEW ix, ParentInv(ix),
         NEW c \in Clients, InternalSplitSibling(c)
  PROVE  \E new : ParentInv(new)'
<1>a. PICK a, n, s, y, t, z : /\ a = cl[c].p /\ n = mem[a] /\ s = cl[c].sk
                              /\ y = cl[c].sp /\ t = cl[c].tl /\ z = top + 1
  OBVIOUS
<1>b. PICK w : w = WithSeparator(n, s, y)
  OBVIOUS
<1>0. /\ TypeOK /\ cl[c].pc = "internal_insert" /\ cl[c] \in Locals
      /\ SeparatorFits(c) /\ top < MaxAddr /\ top' = top + 1
      /\ root' = root /\ cache' = cache
      /\ Shows(ix) /\ RootAlone /\ StrictAll /\ AboveLeast
  BY <1>a, Here DEF InternalSplitSibling, SeparatorFits, ParentInv
<1>c. PICK mid, pen1 : mid = [ix EXCEPT ![a] = w] /\ pen1 = [Pend EXCEPT ![c] = Null]
  OBVIOUS
<1>1. pen1[c] = Null /\ \A d \in Clients \ {c} : pen1[d] = Pend[d]
  BY <1>c DEF Pend
<1>2. /\ Shape(mid, pen1, root, top) /\ mid \in [Addrs -> Node]
      /\ a \in 1..top /\ a \in Addrs /\ n \in Node /\ n.level > 0 /\ n.level = t
      /\ mid[a] = w /\ \A b \in Addrs : b # a => mid[b] = ix[b]
      /\ y # Null /\ n.lo < s /\ s \in Keys
      /\ s \notin Seps(n) /\ InCritical(c) /\ w \in Node
  <2>1. Joins(ix, mid, c, a, n, s, y, w) /\ SeparatorFits(c)
    BY <1>0, <1>a, <1>b, <1>c DEF Joins
  <2>2. /\ Shape(mid, pen1, root, top) /\ mid \in [Addrs -> Node]
        /\ a \in 1..top /\ a \in Addrs /\ n \in Node /\ n.level > 0
        /\ n.level = cl[c].tl
        /\ y # Null /\ n.lo < s /\ s \in Keys
        /\ s \notin Seps(n) /\ InCritical(c) /\ w \in Node
    BY <1>1, <2>1, JoinShape
  <2>3. mid[a] = w /\ \A b \in Addrs : b # a => mid[b] = ix[b]
    BY <1>0, <1>c, <2>2 DEF Shows
  <2> QED BY <1>a, <2>2, <2>3
<1>3. PICK m \in Seps(n) :
        /\ WriteNode(z, IF s < m THEN RightInternal(n, m, t)
                        ELSE WithSeparator(RightInternal(n, m, t), s, y))
        /\ Become(c, [cl[c] EXCEPT !.pc = "internal_split", !.nsk = m, !.nsp = z])
  BY <1>a DEF InternalSplitSibling
<1>d. PICK l, r : /\ l = IF s < m THEN WithSeparator(LeftInternal(n, m, z), s, y)
                         ELSE LeftInternal(n, m, z)
                  /\ r = IF s < m THEN RightInternal(n, m, t)
                         ELSE WithSeparator(RightInternal(n, m, t), s, y)
  OBVIOUS
<1>4. /\ l.level = n.level /\ l.lo = n.lo /\ l.hi = m
      /\ r.level = t /\ r.lo = m /\ r.hi = n.hi
      /\ \A j \in Seps(l) : j \in Seps(w) /\ j < m
      /\ \A j \in Seps(r) : j \in Seps(w) /\ m < j
      /\ \A x : Kid(w, x) <=> Kid(l, x) \/ Kid(r, x)
  BY <1>2, <1>b, <1>d, SplitKids
<1>5. /\ z \in Addrs /\ mem'[z] = r /\ z \in 1..top' /\ z \notin 1..top /\ z # Null
      /\ \A b \in 1..top : b # z /\ b \in 1..top' /\ mem'[b] = mem[b]
      /\ \A b \in 1..top' : b \in 1..top \/ b = z
  BY <1>0, <1>3, <1>a, <1>d, AddsNode
<1>6. /\ cl'[c].pc = "internal_split" /\ cl'[c].nsk = m /\ cl'[c].nsp = z
      /\ cl'[c].p = a /\ cl'[c].sk = s /\ cl'[c].sp = y
      /\ \A d \in Clients \ {c} : cl'[d] = cl[d]
  <2>1. /\ cl'[c] = [cl[c] EXCEPT !.pc = "internal_split", !.nsk = m, !.nsp = z]
        /\ \A d \in Clients \ {c} : cl'[d] = cl[d]
    BY <1>0, <1>3, BecomeIs
  <2> QED BY <1>0, <1>a, <2>1 DEF Locals
<1>7. Committed(c)' = l
  <2>1. mem'[a] = n
    BY <1>2, <1>5, <1>a
  <2> QED BY <1>6, <1>d, <2>1 DEF Committed
<1>8. l \in Node /\ r \in Node /\ m \in Keys
  <2>1. r \in Node /\ m \in Keys /\ z \in AddrOrNull /\ y \in AddrOrNull
    <3>1. z \in AddrOrNull
      BY <1>5 DEF Addrs, AddrOrNull
    <3> QED BY <1>0, <1>2, <1>5, <1>a, <3>1, Parts, NodeFields DEF TypeOK
  <2>2. LeftInternal(n, m, z) \in Node
    <3>1. kValueNull \in Vals \cup {kValueNull} /\ n.level \in Nat
      BY <1>2, Numbers
    <3> QED BY <1>2, <2>1, <3>1, NodeOps
  <2>3. WithSeparator(LeftInternal(n, m, z), s, y) \in Node
    <3>1. kValueNull \in Vals \cup {kValueNull} /\ n.level \in Nat
      BY <1>2, Numbers
    <3> QED BY <1>2, <2>1, <2>2, <3>1, NodeOps
  <2> QED BY <1>d, <2>1, <2>2, <2>3
<1>e. PICK new : new = [mid EXCEPT ![a] = l, ![z] = r]
  OBVIOUS
<1>9. /\ new \in [Addrs -> Node] /\ new[a] = l /\ new[z] = r
      /\ \A b \in 1..top : b \in Addrs /\ (b # a => new[b] = mid[b] /\ mid[b] = ix[b])
  <2>1. \A b \in 1..top : b \in Addrs
    BY <1>0, Allocated
  <2>2. a # z
    BY <1>2, <1>5
  <2>3. \A b \in Addrs : new[b] = IF b = z THEN r ELSE IF b = a THEN l ELSE mid[b]
    BY <1>2, <1>e
  <2> QED BY <1>2, <1>5, <1>8, <1>e, <2>1, <2>2, <2>3
<1>w. PICK W : W = {a, z}
  OBVIOUS
<1>10. Shows(new)'
  <2>1. \A d \in Clients \ {c} : cl[d].pc = "internal_split" => cl[d].p \notin W
    BY <1>2, <1>5, <1>a, <1>w, Apart
  <2>2. cl[c].pc # "internal_split" /\ cl'[c].p \in W
    BY <1>0, <1>6, <1>w
  <2>3. \A b \in 1..top : b \notin W => new[b] = ix[b] /\ mem'[b] = mem[b]
    BY <1>5, <1>9, <1>w
  <2>4. \A b \in 1..top' : b \in 1..top \/ b \in W
    BY <1>5, <1>w
  <2>5. SameIndex(new[cl'[c].p], Committed(c)')
    BY <1>6, <1>7, <1>9 DEF SameIndex
  <2>6. \A b \in W : (cl'[c].pc = "internal_split" => cl'[c].p # b)
                       => SameIndex(new[b], mem'[b])
    BY <1>5, <1>6, <1>9, <1>w DEF SameIndex
  <2> QED BY <1>0, <1>6, <1>9, <2>1, <2>2, <2>3, <2>4, <2>5, <2>6, ShowsNext
<1>11. n.lo < m /\ m < n.hi /\ n.lo \in Nat /\ n.lo >= 1 /\ m \in Nat
  <2>1. n.lo < m
    BY <1>0, <1>2, <1>a DEF StrictAll, Strict
  <2>2. m < n.hi
    BY <1>2, <1>a DEF RangeInv, Routing, Truthful
  <2> QED BY <1>2, <1>8, <2>1, <2>2, Numbers DEF Keys
<1>12. Shape(new, Pend', root', top')
  <2>1. Pend'[c] = z /\ \A d \in Clients \ {c} : Pend'[d] = pen1[d]
    BY <1>1, <1>6, PendIs
  <2>2. \A b \in 1..top : mid[b].level \in Nat /\ mid[b].lo \in Nat /\ mid[b].hi \in Nat
    BY <1>2, <1>9, Numbers
  <2>3. top \in Nat
    BY <1>0, Allocated
  <2>4. /\ mid[a].level > 0 /\ mid[a].lo < m /\ m < mid[a].hi
        /\ new[a].level = mid[a].level /\ new[a].lo = mid[a].lo /\ new[a].hi = m
        /\ new[z].level = mid[a].level /\ new[z].lo = m /\ new[z].hi = mid[a].hi
    <3>1. w.level = n.level /\ w.lo = n.lo /\ w.hi = n.hi
      <4>1. Joined(w, n, s, y)
        BY <1>b DEF Joined
      <4>2. n \in Node /\ s \in Keys /\ s \notin Seps(n) /\ y # Null
        BY <1>2
      <4> QED BY <4>1, <4>2, JoinFields
    <3> QED BY <1>2, <1>4, <1>9, <1>11, <3>1
  <2>5. /\ \A j \in Seps(new[a]) : j \in Seps(mid[a]) /\ j < m
        /\ \A j \in Seps(new[z]) : j \in Seps(mid[a]) /\ m < j
        /\ \A x : Kid(mid[a], x) <=> Kid(new[a], x) \/ Kid(new[z], x)
    BY <1>2, <1>4, <1>9
  <2>6. \A b \in 1..top : b # a => new[b] = mid[b]
    BY <1>9
  <2>7. Shape(new, Pend', root, top + 1)
    BY <1>1, <1>2, <1>11, <1>a, <2>1, <2>2, <2>3, <2>4, <2>5, <2>6, ShapeSplit
  <2> QED BY <1>0, <2>7
<1>13. RootAlone'
  <2>1. ~Whole(mem'[z])
    BY <1>2, <1>4, <1>5, <1>11 DEF Whole, InternalIsRoot
  <2>2. cl[c].pc # "newroot" /\ cl'[c].pc # "newroot"
    BY <1>0, <1>6
  <2> QED BY <1>0, <1>5, <1>6, <2>1, <2>2, RootNext
<1>14. StrictAll'
  <2>1. Strict(r)
    BY <1>4 DEF Strict
  <2>2. PICK V : V = {z}
    OBVIOUS
  <2>3. /\ \A b \in 1..top' : b \in V \/ (b \in 1..top /\ mem'[b] = mem[b])
        /\ \A b \in V : mem'[b].level > 0 => Strict(mem'[b])
    BY <1>5, <2>1, <2>2
  <2> QED BY <1>0, <2>3, StrictNext
<1>15. AboveLeast'
  <2>1. cl'[c].sk > 1
    BY <1>0, <1>6, <1>a DEF AboveLeast, Upward
  <2> QED BY <1>0, <1>6, <2>1, AboveNext
<1>16. Shape(new, Pend, root, top)'
  BY <1>12
<1> QED BY <1>10, <1>13, <1>14, <1>15, <1>16 DEF ParentInv

\* The node NewRoot writes: one separator, two children, all keys.
LEMMA RootFields ==
  ASSUME NEW l \in Nat, NEW a \in AddrOrNull, NEW s \in Keys, NEW y \in AddrOrNull,
         y # Null, NEW r, r = RootOver(l, a, s, y)
  PROVE  /\ r \in Node /\ r.level = l /\ r.lo = 1 /\ r.hi = KeyMax + 1
         /\ Seps(r) = {s} /\ \A x : Kid(r, x) <=> x = a \/ x = y
<1>1. PICK n : n = [ZeroNode EXCEPT !.level = l, !.leftmost = a]
  OBVIOUS
<1>2. /\ n \in Node /\ n.level = l /\ n.lo = 1 /\ n.hi = KeyMax + 1 /\ n.leftmost = a
      /\ Seps(n) = {}
  <2>1. ZeroNode \in Node
    BY InitialValues
  <2>2. n \in Node /\ n.level = l /\ n.leftmost = a /\ n.recs = ZeroNode.recs
        /\ n.lo = ZeroNode.lo /\ n.hi = ZeroNode.hi
    BY <1>1, <2>1 DEF Node
  <2> QED BY <2>2 DEF ZeroNode, Seps
<1>3. Joined(r, n, s, y)
  BY <1>1 DEF RootOver, Joined
<1>4. s \notin Seps(n)
  BY <1>2
<1>5. r \in Node
  BY <1>2, <1>3 DEF Joined, WithSeparator, Node
<1>6. r.level = n.level /\ r.lo = n.lo /\ r.hi = n.hi
  BY <1>2, <1>3, <1>4, JoinFields
<1>7. Seps(r) = {s}
  <2>1. Seps(r) = Seps(n) \cup {s}
    BY <1>2, <1>3, <1>4, JoinSeps
  <2> QED BY <1>2, <2>1
<1>8. \A x : Kid(r, x) <=> x = a \/ x = y
  <2>1. \A x : Kid(r, x) <=> Kid(n, x) \/ x = y
    BY <1>2, <1>3, <1>4, JoinKids
  <2>2. \A x : Kid(n, x) <=> x = a
    BY <1>2 DEF Kid
  <2> QED BY <2>1, <2>2
<1> QED BY <1>2, <1>5, <1>6, <1>7, <1>8

\* The swap of the root pointer succeeds, and the new root holds the old root and

\* the node that was split off it.
LEMMA NewRootParent ==
  ASSUME TreeInv, TypeOK', NEW low, RangeInv(low), NEW ix, ParentInv(ix),
         NEW c \in Clients, NewRoot(c)
  PROVE  \E new : ParentInv(new)'
<1>a. PICK a, s, y, t, z, r : /\ a = cl[c].p /\ s = cl[c].sk /\ y = cl[c].sp
                              /\ t = cl[c].tl /\ z = top + 1 /\ r = RootOver(t, a, s, y)
  OBVIOUS
<1>0. /\ TypeOK /\ cl[c].pc = "newroot" /\ cl[c] \in Locals /\ Carries(low, c)
      /\ top < MaxAddr /\ top' = top + 1 /\ WriteNode(z, r) /\ cache' = cache
      /\ Shows(ix) /\ Shape(ix, Pend, root, top) /\ RootAlone /\ StrictAll /\ AboveLeast
  BY <1>a, Here DEF NewRoot, ParentInv
<1>1. root.ptr = a /\ root.level = t /\ ~Whole(mem[a])
  BY <1>0, <1>a DEF RootAlone
<1>2. root = [level |-> t, ptr |-> a]
  BY <1>0, <1>1 DEF TypeOK
<1>3. /\ root'.ptr = z /\ root'.level = t + 1 /\ cl'[c].pc = "done"
      /\ \A d \in Clients \ {c} : cl'[d] = cl[d]
  <2>1. /\ root' = [level |-> t + 1, ptr |-> z]
        /\ Become(c, [cl[c] EXCEPT !.pc = "done"])
    BY <1>2, <1>a DEF NewRoot
  <2>2. /\ cl'[c] = [cl[c] EXCEPT !.pc = "done"]
        /\ \A d \in Clients \ {c} : cl'[d] = cl[d]
    BY <1>0, <2>1, BecomeIs
  <2>3. cl'[c].pc = "done"
    BY <1>0, <2>2 DEF Locals
  <2> QED BY <2>1, <2>2, <2>3
<1>4. /\ t \in Nat /\ t > 0 /\ a \in 1..top /\ mem[a].level = t - 1
      /\ y \in 1..top /\ mem[y].level = t - 1 /\ y # Null
      /\ s \in Keys /\ s \in Nat /\ s > 1 /\ a \in AddrOrNull /\ y \in AddrOrNull
  <2>1. t \in Nat /\ s \in Keys /\ a \in AddrOrNull /\ y \in AddrOrNull
    BY <1>0, <1>a, Parts
  <2>2. t > 0 /\ Stands(low, y, s, t - 1) /\ Stands(low, a, 1, t - 1)
    BY <1>0, <1>a DEF Carries, Upward
  <2>3. s > 1
    BY <1>0, <1>a DEF AboveLeast, Upward
  <2> QED BY <2>1, <2>2, <2>3 DEF Stands, Null, Keys
<1>5. /\ r \in Node /\ r.level = t /\ r.lo = 1 /\ r.hi = KeyMax + 1
      /\ Seps(r) = {s} /\ \A x : Kid(r, x) <=> x = a \/ x = y
  <2>1. r = RootOver(t, a, s, y)
    BY <1>a
  <2> QED BY <1>4, <2>1, RootFields
<1>6. /\ z \in Addrs /\ mem'[z] = r /\ z \in 1..top' /\ z \notin 1..top /\ z # Null
      /\ \A b \in 1..top : b # z /\ b \in 1..top' /\ mem'[b] = mem[b]
      /\ \A b \in 1..top' : b \in 1..top \/ b = z
  BY <1>0, <1>a, AddsNode
<1>b. PICK new : new = [ix EXCEPT ![z] = r]
  OBVIOUS
<1>7. /\ new \in [Addrs -> Node] /\ new[z] = r
      /\ \A b \in 1..top : new[b] = ix[b] /\ ix[b] \in Node
  <2>1. \A b \in 1..top : b \in Addrs
    BY <1>0, Allocated
  <2> QED BY <1>0, <1>5, <1>6, <1>b, <2>1 DEF Shows
<1>w. PICK W : W = {z}
  OBVIOUS
<1>8. Shows(new)'
  <2>1. \A d \in Clients \ {c} : cl[d].pc = "internal_split" => cl[d].p \notin W
    BY <1>6, <1>w, Apart
  <2>2. cl[c].pc # "internal_split" /\ cl'[c].pc # "internal_split"
    BY <1>0, <1>3
  <2>3. \A b \in 1..top : b \notin W => new[b] = ix[b] /\ mem'[b] = mem[b]
    BY <1>6, <1>7
  <2>4. \A b \in 1..top' : b \in 1..top \/ b \in W
    BY <1>6, <1>w
  <2>5. \A b \in W : SameIndex(new[b], mem'[b])
    BY <1>6, <1>7, <1>w DEF SameIndex
  <2> QED BY <1>0, <1>3, <1>7, <2>1, <2>2, <2>3, <2>4, <2>5, ShowsNext
<1>9. Shape(new, Pend', root', top')
  <2>1. Pend[c] = y /\ Pend'[c] = Null /\ \A d \in Clients \ {c} : Pend'[d] = Pend[d]
    BY <1>0, <1>3, <1>a, PendIs DEF Upward
  <2>2. \A b \in 1..top : ix[b].level \in Nat
    BY <1>7, Numbers
  <2>3. top \in Nat
    BY <1>0, Allocated
  <2>4. ix[root.ptr].level = root.level - 1 /\ ix[y].level = root.level - 1
    BY <1>0, <1>1, <1>4, ShownAs
  <2>5. /\ new[z].level = root.level /\ new[z].lo < s /\ s < new[z].hi
        /\ new[z].lo < new[z].hi
    <3>1. 1 < s /\ s < KeyMax + 1 /\ 1 < KeyMax + 1
      BY <1>4, TreeConstants DEF Keys
    <3> QED BY <1>1, <1>5, <1>7, <3>1
  <2>6. /\ \A j \in Seps(new[z]) : j = s
        /\ \A x : Kid(new[z], x) <=> x = root.ptr \/ x = y
    BY <1>1, <1>5, <1>7
  <2>7. root'.ptr = z /\ root'.level = root.level + 1 /\ z = top + 1
    BY <1>1, <1>3, <1>a
  <2>8. PICK pen1, pen2, rt2 : pen1 = Pend /\ pen2 = Pend' /\ rt2 = root'
    OBVIOUS
  <2>9. Shape(new, pen2, rt2, top + 1)
    <3>1. /\ pen1[c] = y /\ pen2[c] = Null /\ \A d \in Clients \ {c} : pen2[d] = pen1[d]
          /\ Shape(ix, pen1, root, top) /\ rt2.ptr = z /\ rt2.level = root.level + 1
      BY <1>0, <2>1, <2>7, <2>8
    <3>2. \A b \in 1..top : new[b] = ix[b]
      BY <1>7
    <3>3. s \in Nat /\ y \in 1..top /\ y # Null /\ z = top + 1
      BY <1>4, <2>7
    <3>4. /\ ix[root.ptr].level = root.level - 1 /\ ix[y].level = root.level - 1
          /\ new[z].level = root.level /\ new[z].lo < s /\ s < new[z].hi /\ new[z].lo < new[z].hi
      BY <2>4, <2>5
    <3>5. /\ \A j \in Seps(new[z]) : j = s
          /\ \A x : Kid(new[z], x) <=> x = root.ptr \/ x = y
      BY <2>6
    <3>6. top \in Nat /\ \A b \in 1..top : ix[b].level \in Nat
      BY <2>2, <2>3
    <3> QED BY <3>1, <3>2, <3>3, <3>4, <3>5, <3>6, ShapeRoot
  <2> QED BY <1>0, <2>8, <2>9
<1>10. RootAlone'
  <2>1. ASSUME NEW b \in 1..top', Whole(mem'[b])
        PROVE  root'.ptr = b /\ root'.level = mem'[b].level + 1
    <3>1. CASE b = z
      BY <1>3, <1>5, <1>6, <3>1
    <3>2. CASE b # z
      <4>1. b \in 1..top /\ Whole(mem[b])
        BY <1>6, <2>1, <3>2
      <4> QED BY <1>0, <1>1, <4>1 DEF RootAlone
    <3> QED BY <3>1, <3>2
  <2>2. \A d \in Clients : cl'[d].pc # "newroot"
    BY <1>0, <1>3 DEF RootAlone
  <2> QED BY <2>1, <2>2 DEF RootAlone
<1>11. StrictAll'
  <2>1. Strict(r)
    BY <1>4, <1>5 DEF Strict
  <2>2. /\ \A b \in 1..top' : b \in W \/ (b \in 1..top /\ mem'[b] = mem[b])
        /\ \A b \in W : mem'[b].level > 0 => Strict(mem'[b])
    BY <1>6, <1>w, <2>1
  <2> QED BY <1>0, <2>2, StrictNext
<1>12. AboveLeast'
  BY <1>0, <1>3, AboveNext DEF Upward
<1>13. Shape(new, Pend, root, top)'
  BY <1>9
<1> QED BY <1>8, <1>10, <1>11, <1>12, <1>13 DEF ParentInv

\* The tree Tree::Tree leaves behind is one leaf, the root.
LEMMA InitParent == Init => ParentInv(mem)
<1> SUFFICES ASSUME Init PROVE ParentInv(mem)
  OBVIOUS
<1>1. /\ \A c \in Clients : cl[c].pc = "idle"
      /\ top = 1 /\ root.ptr = 1 /\ root.level = 1
      /\ \A cn \in CNs : Live(cn) = {}
  BY DEF Init, IdleLocals, Live
<1>2. TypeOK /\ mem \in [Addrs -> Node] /\ \A a \in 1..top : a = 1
  BY <1>1, InitInv DEF TreeInv, TypeOK
<1>3. 1 \in Addrs /\ mem[1].level = 0
  BY TreeConstants DEF Init, ZeroNode, Addrs
<1>4. \A c \in Clients : Pend[c] = Null
  BY <1>1 DEF Pend, Upward
<1>5. Shows(mem)
  BY <1>1, <1>2 DEF Shows, SameIndex
<1>6. Shape(mem, Pend, root, top)
  <2>1. Inner(mem, top)
    BY <1>2, <1>3 DEF Inner
  <2>2. Loose(mem, Pend, root, top)
    BY <1>4 DEF Loose
  <2>3. Rooted(mem, Pend, root, top)
    BY <1>1, <1>2, <1>3 DEF Rooted
  <2> QED BY <2>1, <2>2, <2>3 DEF Shape
<1>7. RootAlone
  BY <1>1, <1>2, <1>3 DEF RootAlone
<1>8. StrictAll
  BY <1>1, <1>2, <1>3 DEF StrictAll
<1>9. AboveLeast
  BY <1>1 DEF AboveLeast, Upward
<1> QED BY <1>5, <1>6, <1>7, <1>8, <1>9 DEF ParentInv

\* The barrier and stuttering leave the index alone.
LEMMA NobodyMovesParent ==
  ASSUME NEW ix, ParentInv(ix),
         mem' = mem, top' = top, root' = root, cache' = cache, cl' = cl
  PROVE  ParentInv(ix)'
<1>1. Pend' = Pend
  BY DEF Pend
<1>2. \A c \in Clients : Committed(c)' = Committed(c)
  BY DEF Committed
<1>3. Shows(ix)'
  BY <1>2 DEF ParentInv, Shows
<1>4. Shape(ix, Pend, root, top)'
  BY <1>1 DEF ParentInv
<1>5. RootAlone' /\ StrictAll' /\ AboveLeast'
  BY DEF ParentInv, RootAlone, StrictAll, AboveLeast, Live
<1> QED BY <1>3, <1>4, <1>5 DEF ParentInv

\* Every step keeps the index complete but for what is pending.
LEMMA StepParent ==
  ASSUME TreeInv, [Next]_vars, NEW low, RangeInv(low), NEW ix, ParentInv(ix)
  PROVE  \E new : ParentInv(new)'
<1>0. TypeOK'
  BY StepInv DEF TreeInv
<1>1. ASSUME NEW c \in Clients, Step(c) PROVE \E new : ParentInv(new)'
  <2>1. CASE LeafSplitSibling(c)
    BY <1>0, <2>1, LeafSiblingParent
  <2>2. CASE LeafSplitCommit(c)
    BY <1>0, <2>2, LeafCommitParent
  <2>3. CASE InternalInsertWrite(c)
    BY <1>0, <2>3, InsertParent
  <2>4. CASE InternalSplitSibling(c)
    BY <1>0, <2>4, InternalSiblingParent
  <2>5. CASE InternalSplitCommit(c)
    BY <1>0, <2>5, InternalCommitParent
  <2>6. CASE NewRoot(c)
    BY <1>0, <2>6, NewRootParent
  <2>7. CASE \/ Traverse(c) \/ Start(c) \/ LockNode(c) \/ Finish(c)
             \/ LeafStale(c) \/ LeafInsertRight(c) \/ LeafInsertWrite(c)
             \/ LeafUpdateWrite(c) \/ LeafUpdateRight(c) \/ LeafSearchStale(c)
             \/ LeafSearchFound(c) \/ LeafSearchOn(c)
             \/ InternalInsertStale(c) \/ InternalInsertRight(c)
    BY <1>0, <2>7, QuietKeeps
  <2> QED BY <1>1, <2>1, <2>2, <2>3, <2>4, <2>5, <2>6, <2>7
          DEF Step, LeafStep, ParentStep
<1>2. CASE Barrier
  BY <1>2, NobodyMovesParent DEF Barrier
<1>3. CASE UNCHANGED vars
  BY <1>3, NobodyMovesParent DEF vars
<1> QED BY <1>1, <1>2, <1>3 DEF Next, Terminated

\* The invariant with the parents is inductive.
LEMMA InitFull == Init => FullIndexInv
BY InitIndex, InitParent DEF FullIndexInv

\* Every step, stuttering included, keeps it.
LEMMA StepFull == FullIndexInv /\ [Next]_vars => FullIndexInv'
<1> SUFFICES ASSUME FullIndexInv, [Next]_vars PROVE FullIndexInv'
  OBVIOUS
<1>1. IndexInv /\ IndexInv' /\ TreeInv
  BY StepIndex DEF FullIndexInv, IndexInv
<1>2. PICK low : RangeInv(low)
  BY <1>1 DEF IndexInv
<1>3. PICK ix : ParentInv(ix)
  BY DEF FullIndexInv
<1>4. PICK new : ParentInv(new)'
  BY <1>1, <1>2, <1>3, StepParent
<1> QED BY <1>1, <1>4 DEF FullIndexInv

\* Separators lead to the right child, in memory and in every cached copy, and
\* none equals the lower fence of its node, where the leftmost child begins:
\* two children of a node never begin at the same key.
THEOREM SeparatorsLead == Spec => []SeparatorsRoute
<1>1. ASSUME FullIndexInv, SeparatorsTrue PROVE SeparatorsRoute
  <2>1. StrictAll
    BY <1>1 DEF FullIndexInv, ParentInv
  <2>2. ASSUME NEW n \in Routers PROVE Strict(n)
    <3>1. CASE \E b \in 1..top : mem[b].level > 0 /\ n = mem[b]
      BY <2>1, <3>1 DEF StrictAll
    <3>2. CASE \E cn \in CNs : \E e \in Live(cn) : n = e.node
      BY <2>1, <3>2 DEF StrictAll
    <3> QED BY <3>1, <3>2 DEF Routers
  <2> QED BY <1>1, <2>2 DEF SeparatorsTrue, SeparatorsRoute, Strict
<1> QED BY <1>1, InitFull, StepFull, SeparatorsNeverLie, PTL DEF Spec

\* No separator is lost: whatever splits, root changes and retries went before,
\* once every client is idle each node but the root is under a parent one level
\* up, and the root is at the height the root pointer says.
THEOREM NoSeparatorLost == Spec => []IndexCompleteAtRest
<1>1. ASSUME FullIndexInv PROVE IndexCompleteAtRest
  <2> SUFFICES ASSUME \A c \in Clients : cl[c].pc = "idle"
               PROVE  /\ mem[root.ptr].level = root.level - 1
                      /\ \A a \in 1..top : a = root.ptr \/ HasParent(a)
    BY DEF IndexCompleteAtRest
  <2>1. PICK low : RangeInv(low)
    BY <1>1 DEF FullIndexInv, IndexInv
  <2>2. PICK ix : Shows(ix) /\ Shape(ix, Pend, root, top)
    BY <1>1 DEF FullIndexInv, ParentInv
  <2>3. mem[root.ptr].level = root.level - 1
    BY <2>1 DEF RangeInv, Routing, Stands
  <2>4. \A a \in 1..top : SameIndex(ix[a], mem[a])
    BY <2>2 DEF Shows
  <2>5. \A c \in Clients : Pend[c] = Null
    BY DEF Pend, Upward
  <2>6. ASSUME NEW a \in 1..top, a # root.ptr PROVE HasParent(a)
    <3>1. a # Null
      BY DEF Null
    <3>2. PICK b \in 1..top : ix[b].level = ix[a].level + 1 /\ Kid(ix[b], a)
      BY <2>2, <2>5, <2>6, <3>1 DEF Shape, Rooted
    <3>3. SameIndex(ix[a], mem[a]) /\ SameIndex(ix[b], mem[b])
      BY <2>4
    <3>4. mem[b].level = mem[a].level + 1 /\ Kid(mem[b], a)
      BY <3>2, <3>3, SameMeans
    <3> QED BY <3>4 DEF HasParent, Kid
  <2> QED BY <2>3, <2>6
<1> QED BY <1>1, InitFull, StepFull, PTL DEF Spec

\* A client about to install a new root finds the root pointer as it read it.
RootSwapWins ==
  \A c \in Clients : cl[c].pc = "newroot" => root = [level |-> cl[c].tl, ptr |-> cl[c].p]

\* The swap of the root pointer never fails: only the client that split the root
\* while it was still the root gets there, and nobody else can until it is done.
\* The code's way out of a lost swap ("cas root fail, insert from new root",
\* Tree.cpp:861 and 1294), which would abandon the root just written, is never
\* taken.
THEOREM RootSwapNeverFails == Spec => []RootSwapWins
<1>1. ASSUME FullIndexInv PROVE RootSwapWins
  <2>1. RootAlone /\ TypeOK
    BY <1>1 DEF FullIndexInv, ParentInv, IndexInv, TreeInv
  <2>2. ASSUME NEW c \in Clients, cl[c].pc = "newroot"
        PROVE  root = [level |-> cl[c].tl, ptr |-> cl[c].p]
    <3>1. root.ptr = cl[c].p /\ root.level = cl[c].tl
      BY <2>1, <2>2 DEF RootAlone
    <3> QED BY <2>1, <3>1 DEF TypeOK
  <2> QED BY <2>2 DEF RootSwapWins
<1> QED BY <1>1, InitFull, StepFull, PTL DEF Spec
=============================================================================
