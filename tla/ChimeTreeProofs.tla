-------------------------- MODULE ChimeTreeProofs --------------------------
(***************************************************************************)
(* Type correctness and lock safety of ChimeTree, for every number of      *)
(* clients and nodes, every workload and every node size.                  *)
(***************************************************************************)
EXTENDS ChimeTree, TLAPS

\* The zeroed node and the locals of an idle client are well typed.
LEMMA InitialValues ==
  /\ ZeroNode \in Node
  /\ IdleLocals \in Locals
BY TreeConstants DEF ZeroNode, Node, IdleLocals, Locals, NullPath, PCs, Null,
  Addrs, AddrOrNull, Keys, UserKeys, Fences

\* What a node's fields are, once and for all.
LEMMA NodeFields ==
  ASSUME NEW n \in Node
  PROVE  /\ SibOf(n) \in AddrOrNull
         /\ \A s \in 0..KeyMax : ChildAt(n, s) \in AddrOrNull
         /\ \A t \in Fences : NextAt(n, t) \in AddrOrNull
         /\ Seps(n) \subseteq Keys
         /\ Present(n.kv) \subseteq Keys
BY TreeConstants DEF Node, SibOf, ChildAt, NextAt, Seps, Present, Null, Addrs,
  AddrOrNull, Widest, Keys, Fences

\* Cache operations keep a set of entries a set of entries.
LEMMA CacheTypes ==
  ASSUME TypeOK, NEW c \in Clients
  PROVE  /\ Invalidate(c) => cache' \in [CNs -> SUBSET Entry]
         /\ \A n \in Node : AddToCache(c, n) => cache' \in [CNs -> SUBSET Entry]
         /\ \A e \in Live(CnOf[c]) : e.node \in Node /\ e.lo \in Fences /\ e.hi \in Fences
<1>1. CnOf[c] \in CNs
  BY TreeConstants
<1>2. ASSUME NEW e \in Entry PROVE [e EXCEPT !.node = NoNode] \in Entry
  BY DEF Entry
<1>3. Invalidate(c) => cache' \in [CNs -> SUBSET Entry]
  <2>1. ASSUME NEW es \in SUBSET Entry, NEW lo, NEW hi
        PROVE  InvalidateIn(es, lo, hi) \in SUBSET Entry
    BY <1>2, Zenon DEF InvalidateIn
  <2>2. QED
    BY <1>1, <2>1 DEF Invalidate, TypeOK
<1>4. ASSUME NEW n \in Node, AddToCache(c, n)
      PROVE  cache' \in [CNs -> SUBSET Entry]
  <2> DEFINE old == {e \in Live(CnOf[c]) : e.lo = n.lo /\ e.hi = n.hi}
             added == {e \in cache[CnOf[c]] : e.lo # n.lo \/ e.hi # n.hi}
                        \cup {[lo |-> n.lo, hi |-> n.hi, node |-> n]}
             live == {e \in added : e.node # NoNode}
             without(keep) == {IF e \in live \ keep
                                 THEN [e EXCEPT !.node = NoNode] ELSE e :
                               e \in added}
  <2>1. added \subseteq Entry
    BY <1>1 DEF TypeOK, Entry, Node
  <2>2. ASSUME NEW keep PROVE without(keep) \subseteq Entry
    <3> HIDE DEF added, live
    <3> QED BY <1>2, <2>1, Zenon
  <2>3. \/ cache' = [cache EXCEPT ![CnOf[c]] = added]
        \/ \E keep \in SUBSET live : cache' = [cache EXCEPT ![CnOf[c]] = without(keep)]
    BY <1>4 DEF AddToCache
  <2>4. \E new \in SUBSET Entry : cache' = [cache EXCEPT ![CnOf[c]] = new]
    <3> HIDE DEF added, live, without
    <3> QED BY <2>1, <2>2, <2>3, Zenon
  <2> QED BY <1>1, <2>4 DEF TypeOK
<1>5. \A e \in Live(CnOf[c]) : e.node \in Node /\ e.lo \in Fences /\ e.hi \in Fences
  BY <1>1 DEF TypeOK, Live, Entry
<1> QED BY <1>3, <1>4, <1>5

\* The parts of the type invariant that the steps of c look at.
LEMMA Parts ==
  ASSUME TypeOK, NEW c \in Clients
  PROVE  /\ cl[c] \in Locals
         /\ \A a \in Addrs : mem[a] \in Node
         /\ root.level \in Nat /\ root.ptr \in AddrOrNull
         /\ cl[c].p \in AddrOrNull /\ cl[c].sibp \in AddrOrNull
         /\ cl[c].nsk \in Keys /\ cl[c].sk \in Keys
         /\ cl[c].nsp \in AddrOrNull /\ cl[c].sp \in AddrOrNull
         /\ cl[c].k \in Keys /\ cl[c].v \in Vals \cup {kValueNull}
         /\ cl[c].tl \in Nat
         /\ cl[c].path \in [1..MaxHeight -> AddrOrNull]
         /\ \A a \in AddrOrNull : Recorded(c, a) \in [1..MaxHeight -> AddrOrNull]
<1>1. cl[c] \in Locals
  BY DEF TypeOK
<1>2. /\ cl[c].p \in AddrOrNull /\ cl[c].sibp \in AddrOrNull
      /\ cl[c].nsk \in Keys /\ cl[c].sk \in Keys
      /\ cl[c].nsp \in AddrOrNull /\ cl[c].sp \in AddrOrNull
      /\ cl[c].v \in Vals \cup {kValueNull}
      /\ cl[c].tl \in Nat
      /\ cl[c].path \in [1..MaxHeight -> AddrOrNull]
  BY <1>1 DEF Locals
<1>3. cl[c].k \in Keys
  BY <1>1, TreeConstants DEF Locals, UserKeys, Keys
<1>4. root.level \in Nat /\ root.ptr \in AddrOrNull
  BY TreeConstants DEF TypeOK, Addrs, AddrOrNull
<1> QED BY <1>1, <1>2, <1>3, <1>4 DEF TypeOK, Recorded

\* The program counters that the steps assign are program counters.
LEMMA PcNames ==
  /\ "lookup" \in PCs /\ "root" \in PCs /\ "next" \in PCs
  /\ "leaf_insert" \in PCs /\ "leaf_update" \in PCs /\ "leaf_split" \in PCs
  /\ "newroot" \in PCs /\ "ii_root" \in PCs /\ "ii_next" \in PCs
  /\ "lock_internal" \in PCs /\ "internal_insert" \in PCs
  /\ "internal_split" \in PCs /\ "done" \in PCs
BY DEF PCs

\* A step that gives c well-typed locals keeps the client table well typed.
LEMMA BecomeType ==
  ASSUME TypeOK, NEW c \in Clients, NEW l \in Locals, Become(c, l)
  PROVE  cl' \in [Clients -> Locals]
BY DEF TypeOK, Become

\* The steps that only move through the tree keep the types.
LEMMA TraverseType ==
  ASSUME TypeOK, NEW c \in Clients, Traverse(c)
  PROVE  TypeOK'
<1>1. CASE SearchFromCache(c)
  <2>1. PICK l \in Locals : Become(c, l)
    <3>1. [cl[c] EXCEPT !.pc = "root"] \in Locals
      BY Parts, PcNames DEF Locals
    <3>2. ASSUME NEW e \in CacheHits(CnOf[c], cl[c].k), NEW s \in 0..KeyMax,
                 NEW t \in Fences
          PROVE  [cl[c] EXCEPT !.pc = "next", !.fc = TRUE,
                               !.p = ChildAt(e.node, s),
                               !.sibp = NextAt(e.node, t),
                               !.level = e.node.level,
                               !.lo = e.lo, !.hi = e.hi] \in Locals
      <4>1. e.node \in Node /\ e.lo \in Fences /\ e.hi \in Fences
        BY CacheTypes DEF CacheHits
      <4>2. ChildAt(e.node, s) \in AddrOrNull /\ NextAt(e.node, t) \in AddrOrNull
        BY <4>1, NodeFields
      <4>3. e.node.level \in Nat
        BY <4>1 DEF Node
      <4>4. /\ cl[c] \in Locals
            /\ "next" \in PCs
        BY Parts DEF PCs
      <4> QED BY <4>1, <4>2, <4>3, <4>4 DEF Locals
    <3> QED BY <1>1, <3>1, <3>2 DEF SearchFromCache
  <2> QED BY <1>1, <2>1, BecomeType DEF SearchFromCache, TypeOK
<1>2. CASE GetRootPtr(c)
  <2>1. PICK l \in Locals : Become(c, l)
    <3>1. Null \in AddrOrNull
      BY TreeConstants DEF Null, AddrOrNull
    <3>2. \A x \in PCs :
            [cl[c] EXCEPT !.pc = x, !.fc = FALSE, !.p = root.ptr,
                          !.sibp = Null, !.level = root.level] \in Locals
      BY ZenonT(60), <3>1, Parts DEF Locals
    <3>3. (IF cl[c].pc = "root" THEN "next" ELSE "ii_next") \in PCs
      BY DEF PCs
    <3> QED BY <1>2, <3>2, <3>3 DEF GetRootPtr
  <2> QED BY <1>2, <2>1, BecomeType DEF GetRootPtr, TypeOK
<1>3. CASE InternalSearchStale(c)
  <2>1. PICK l \in Locals : Become(c, l)
    <3>1. [cl[c] EXCEPT !.pc = "lookup", !.path = Recorded(c, cl[c].p)] \in Locals
      BY ZenonT(60), Parts, PcNames DEF Locals
    <3> QED BY <1>3, <3>1 DEF InternalSearchStale
  <2> QED BY <1>3, <2>1, BecomeType, CacheTypes DEF InternalSearchStale, TypeOK
<1>4. CASE InternalSearchRight(c)
  <2>1. SibOf(mem[cl[c].p]) \in AddrOrNull
    BY <1>4, Parts, NodeFields DEF InternalSearchRight, Traversing
  <2>2. PICK l \in Locals : Become(c, l)
    BY ZenonT(60), <1>4, <2>1, Parts DEF InternalSearchRight, Locals
  <2> QED BY <1>4, <2>2, BecomeType DEF InternalSearchRight, TypeOK
<1>5. CASE InternalSearchDown(c)
  <2> DEFINE n == mem[cl[c].p]
  <2>1. n \in Node
    BY <1>5, Parts DEF InternalSearchDown, Traversing
  <2>2. cache' \in [CNs -> SUBSET Entry]
    BY <1>5, <2>1, CacheTypes DEF InternalSearchDown
  <2>3. PICK l \in Locals : Become(c, l)
    <3>1. PICK s \in 0..KeyMax, t \in Fences :
             Become(c, [cl[c] EXCEPT !.fc = FALSE, !.p = ChildAt(n, s),
                              !.sibp = NextAt(n, t), !.level = n.level,
                              !.path = Recorded(c, cl[c].p)])
      BY <1>5 DEF InternalSearchDown
    <3>2. ChildAt(n, s) \in AddrOrNull /\ NextAt(n, t) \in AddrOrNull
      BY <2>1, NodeFields
    <3>3. n.level \in Nat
      BY <2>1 DEF Node
    <3> HIDE DEF n
    <3> QED BY ZenonT(60), <3>1, <3>2, <3>3, Parts DEF Locals
  <2> QED BY <1>5, <2>2, <2>3, BecomeType DEF InternalSearchDown, TypeOK
<1>6. CASE InsertInternalArrive(c)
  <2>1. PICK l \in Locals : Become(c, l)
    <3>1. [cl[c] EXCEPT !.pc = "lock_internal", !.fc = FALSE,
                        !.path = Recorded(c, cl[c].p)] \in Locals
      BY ZenonT(60), Parts, PcNames DEF Locals
    <3> QED BY <1>6, <3>1 DEF InsertInternalArrive
  <2> QED BY <1>6, <2>1, BecomeType DEF InsertInternalArrive, TypeOK
<1> QED BY <1>1, <1>2, <1>3, <1>4, <1>5, <1>6 DEF Traverse

\* What the splits build out of a node is a node.
LEMMA NodeOps ==
  ASSUME NEW n \in Node, NEW k \in Keys, NEW v \in Vals \cup {kValueNull},
         NEW a \in AddrOrNull, NEW b \in AddrOrNull, NEW l \in Nat
  PROVE  /\ WithRecord(n, k, v) \in Node
         /\ WithSeparator(n, k, a) \in Node
         /\ RightLeaf(n, k) \in Node
         /\ LeftLeaf(n, k, a) \in Node
         /\ RightInternal(n, k, l) \in Node
         /\ LeftInternal(n, k, a) \in Node
         /\ RootOver(l, a, k, b) \in Node
<1>1. WithRecord(n, k, v) \in Node
  BY DEF WithRecord, Node
<1>2. ASSUME NEW x \in Node, NEW y \in AddrOrNull
      PROVE  WithSeparator(x, k, y) \in Node
  BY DEF WithSeparator, Node
<1>3. /\ Null \in AddrOrNull
      /\ AddrOrNull \subseteq 0..(MaxAddr + 1)
      /\ Keys \subseteq Fences
  BY TreeConstants DEF Null, AddrOrNull, Keys, Fences
<1>4. SibOf(n) \in 0..(MaxAddr + 1)
  BY <1>3, NodeFields
<1>5. RightLeaf(n, k) \in Node
  BY <1>4, InitialValues DEF RightLeaf, Node
<1>6. LeftLeaf(n, k, a) \in Node
  BY <1>3 DEF LeftLeaf, Node
<1>7. RightInternal(n, k, l) \in Node
  BY <1>3, <1>4, InitialValues DEF RightInternal, Node
<1>8. LeftInternal(n, k, a) \in Node
  BY <1>3 DEF LeftInternal, Node
<1>9. RootOver(l, a, k, b) \in Node
  <2>1. [ZeroNode EXCEPT !.level = l, !.leftmost = a] \in Node
    BY InitialValues DEF Node
  <2> QED BY <1>2, <2>1 DEF RootOver
<1> QED BY <1>1, <1>2, <1>5, <1>6, <1>7, <1>8, <1>9

\* Writing a node keeps the memory well typed.
LEMMA WriteType ==
  ASSUME TypeOK, NEW a, NEW n \in Node, WriteNode(a, n)
  PROVE  mem' \in [Addrs -> Node]
BY DEF TypeOK, WriteNode

\* Setting or clearing a lock bit keeps the lock bits well typed.
LEMMA LockType ==
  ASSUME TypeOK, NEW a, NEW b \in BOOLEAN, locked' = [locked EXCEPT ![a] = b]
  PROVE  locked' \in [Addrs -> BOOLEAN]
BY DEF TypeOK

\* A client on its way to the parent has well-typed locals.
LEMMA ToParentType ==
  ASSUME TypeOK, NEW c \in Clients, NEW l \in Nat,
         ToParent(c, l) \/ ToNewRoot(c, l)
  PROVE  cl' \in [Clients -> Locals]
<1> DEFINE up == [cl[c] EXCEPT !.sk = cl[c].nsk, !.sp = cl[c].nsp, !.tl = l]
           onPath == IF l + 1 \in 1..MaxHeight THEN cl[c].path[l + 1] ELSE Null
<1>1. up \in Locals
  BY ZenonT(60), Parts DEF Locals
<1>2. onPath \in AddrOrNull
  BY Parts, TreeConstants DEF Null, AddrOrNull
<1>3. CASE ToNewRoot(c, l)
  <2>1. [cl[c] EXCEPT !.pc = "newroot", !.sk = cl[c].nsk,
                   !.sp = cl[c].nsp, !.tl = l, !.lin = TRUE] \in Locals
    BY ZenonT(60), Parts, PcNames DEF Locals
  <2> QED BY <1>3, <2>1, BecomeType DEF ToNewRoot
<1>4. CASE ToParent(c, l)
  <2>1. [up EXCEPT !.pc = "lock_internal", !.p = onPath, !.fc = FALSE,
                   !.lin = TRUE] \in Locals
    <3> HIDE DEF up, onPath
    <3> QED BY <1>1, <1>2, PcNames DEF Locals
  <2>2. [up EXCEPT !.pc = "ii_root", !.lin = TRUE] \in Locals
    <3> HIDE DEF up
    <3> QED BY <1>1, PcNames DEF Locals
  <2>3. ASSUME NEW e \in CachePtrHits(CnOf[c], cl[c].nsk, l), NEW s \in 0..KeyMax
        PROVE  [up EXCEPT !.pc = "lock_internal", !.fc = TRUE,
                          !.p = ChildAt(e.node, s), !.lo = e.lo,
                          !.hi = e.hi, !.lin = TRUE] \in Locals
    <3>1. e.node \in Node /\ e.lo \in Fences /\ e.hi \in Fences
      BY CacheTypes DEF CachePtrHits
    <3>2. ChildAt(e.node, s) \in AddrOrNull
      BY <3>1, NodeFields
    <3> HIDE DEF up
    <3> QED BY <1>1, <3>1, <3>2, PcNames DEF Locals
  <2>4. \E r \in Locals : Become(c, r)
    BY <1>4, <2>1, <2>2, <2>3 DEF ToParent
  <2> QED BY <2>4, BecomeType
<1> QED BY <1>3, <1>4

\* A client between its lock and its unlock is at a node.
CriticalOnNode == \A c \in Clients : InCritical(c) => cl[c].p \in Addrs

\* The steps at a leaf keep the types.
LEMMA LeafType ==
  ASSUME TypeOK, CriticalOnNode, NEW c \in Clients, LeafStep(c)
  PROVE  TypeOK'
<1> DEFINE n == mem[cl[c].p]
<1>n. InCritical(c) => n \in Node /\ SibOf(n) \in AddrOrNull /\ Overfull(c) \in Node
  BY Parts, NodeFields, NodeOps, TreeConstants
     DEF CriticalOnNode, Overfull, Null, AddrOrNull
<1>s. SearchingLeaf(c) => n \in Node /\ SibOf(n) \in AddrOrNull
  BY Parts, NodeFields DEF SearchingLeaf
<1>0. Null \in AddrOrNull /\ FALSE \in BOOLEAN
  BY TreeConstants DEF Null, AddrOrNull
<1>c. {"leaf_insert", "leaf_update", "leaf_split"} \subseteq Critical
  BY DEF Critical
<1>1. CASE LeafStale(c)
  <2>1. [cl[c] EXCEPT !.pc = "lookup"] \in Locals
    BY Parts, PcNames DEF Locals
  <2> QED BY <1>1, <1>0, <2>1, BecomeType, CacheTypes, LockType
          DEF LeafStale, Unlock, TypeOK
<1>2. CASE LeafInsertRight(c)
  <2>1. SibOf(n) \in AddrOrNull
    BY <1>2, <1>n, <1>c DEF LeafInsertRight, InCritical
  <2>2. [cl[c] EXCEPT !.pc = "next", !.p = SibOf(n), !.sibp = Null] \in Locals
    BY ZenonT(60), <1>0, <2>1, Parts, PcNames DEF Locals
  <2> QED BY <1>2, <1>0, <2>2, BecomeType, LockType
          DEF LeafInsertRight, Unlock, TypeOK
<1>3. CASE LeafInsertWrite(c) \/ LeafUpdateWrite(c)
  <2>1. WithRecord(n, cl[c].k, cl[c].v) \in Node
    BY <1>3, <1>n, <1>c DEF LeafInsertWrite, LeafUpdateWrite, InsertHere,
       InCritical, Overfull
  <2>2. [cl[c] EXCEPT !.pc = "done", !.lin = TRUE] \in Locals
    BY ZenonT(60), Parts, PcNames DEF Locals
  <2> QED BY <1>3, <1>0, <2>1, <2>2, BecomeType, LockType, WriteType
          DEF LeafInsertWrite, LeafUpdateWrite, Unlock, TypeOK
<1>4. CASE LeafSplitSibling(c)
  <2>1. top + 1 \in Addrs /\ top + 1 \in AddrOrNull
    BY <1>4, TreeConstants DEF LeafSplitSibling, TypeOK, Addrs, AddrOrNull
  <2>2. PICK m \in UserKeys :
          /\ WriteNode(top + 1, RightLeaf(Overfull(c), m + 1))
          /\ Become(c, [cl[c] EXCEPT !.pc = "leaf_split", !.nsk = m + 1,
                                     !.nsp = top + 1])
    BY <1>4 DEF LeafSplitSibling
  <2>3. m + 1 \in Keys
    BY TreeConstants DEF UserKeys, Keys
  <2>4. Overfull(c) \in Node
    BY <1>4, <1>n, <1>c DEF LeafSplitSibling, InsertHere, InCritical
  <2>5. RightLeaf(Overfull(c), m + 1) \in Node
    BY <2>3, <2>4, <1>0, NodeOps, Parts
  <2>6. [cl[c] EXCEPT !.pc = "leaf_split", !.nsk = m + 1, !.nsp = top + 1]
          \in Locals
    BY ZenonT(60), <2>1, <2>3, Parts, PcNames DEF Locals
  <2> QED BY <1>4, <2>1, <2>2, <2>5, <2>6, BecomeType, WriteType
          DEF LeafSplitSibling, TypeOK
<1>5. CASE LeafSplitCommit(c)
  <2>1. LeftLeaf(Overfull(c), cl[c].nsk, cl[c].nsp) \in Node
    BY <1>5, <1>n, <1>c, Parts, NodeOps DEF LeafSplitCommit, InCritical
  <2>2. cl' \in [Clients -> Locals]
    BY <1>5, ToParentType DEF LeafSplitCommit
  <2> QED BY <1>5, <1>0, <2>1, <2>2, LockType, WriteType
          DEF LeafSplitCommit, Unlock, TypeOK
<1>6. CASE LeafUpdateRight(c)
  <2>1. SibOf(n) \in AddrOrNull
    BY <1>6, <1>n, <1>c DEF LeafUpdateRight, InCritical
  <2>2. [cl[c] EXCEPT !.pc = "next", !.p = SibOf(n)] \in Locals
    BY ZenonT(60), <2>1, Parts, PcNames DEF Locals
  <2> QED BY <1>6, <1>0, <2>2, BecomeType, LockType
          DEF LeafUpdateRight, Unlock, TypeOK
<1>7. CASE LeafSearchStale(c)
  <2>1. [cl[c] EXCEPT !.pc = "lookup"] \in Locals
    BY Parts, PcNames DEF Locals
  <2> QED BY <1>7, <2>1, BecomeType, CacheTypes DEF LeafSearchStale, TypeOK
<1>8. CASE LeafSearchFound(c)
  <2>1. n.kv[cl[c].k] \in Vals \cup {kValueNull}
    BY <1>8, <1>s, Parts DEF LeafSearchFound, Present, Node
  <2>2. [cl[c] EXCEPT !.pc = "done", !.ret = n.kv[cl[c].k], !.lin = TRUE] \in Locals
    BY ZenonT(60), <2>1, Parts, PcNames DEF Locals
  <2> QED BY <1>8, <2>2, BecomeType DEF LeafSearchFound, TypeOK
<1>9. CASE LeafSearchOn(c)
  <2> DEFINE seen == cl[c].lin \/ Owns(cl[c].p, cl[c].k)
  <2>1. SibOf(n) \in AddrOrNull /\ seen \in BOOLEAN
    BY <1>9, <1>s DEF LeafSearchOn
  <2>2. /\ [cl[c] EXCEPT !.pc = "done", !.lin = seen] \in Locals
        /\ [cl[c] EXCEPT !.p = SibOf(n), !.lin = seen] \in Locals
    <3> HIDE DEF seen, n
    <3> QED BY ZenonT(60), <2>1, Parts, PcNames DEF Locals
  <2>3. \E r \in Locals : Become(c, r)
    BY <1>9, <2>2 DEF LeafSearchOn
  <2> QED BY <1>9, <2>3, BecomeType DEF LeafSearchOn, TypeOK
<1> QED BY <1>1, <1>2, <1>3, <1>4, <1>5, <1>6, <1>7, <1>8, <1>9 DEF LeafStep

\* The steps that carry a separator up keep the types.
LEMMA ParentType ==
  ASSUME TypeOK, CriticalOnNode, NEW c \in Clients, ParentStep(c)
  PROVE  TypeOK'
<1> DEFINE n == mem[cl[c].p]
<1>n. InCritical(c) => n \in Node /\ SibOf(n) \in AddrOrNull
  BY Parts, NodeFields DEF CriticalOnNode
<1>0. Null \in AddrOrNull /\ FALSE \in BOOLEAN
  BY TreeConstants DEF Null, AddrOrNull
<1>c. {"internal_insert", "internal_split"} \subseteq Critical
  BY DEF Critical
<1>t. top < MaxAddr => top + 1 \in Addrs /\ top + 1 \in AddrOrNull
  BY TreeConstants DEF TypeOK, Addrs, AddrOrNull
<1>1. CASE InternalInsertStale(c)
  <2>1. [cl[c] EXCEPT !.pc = "ii_root"] \in Locals
    BY Parts, PcNames DEF Locals
  <2> QED BY <1>1, <1>0, <2>1, BecomeType, CacheTypes, LockType
          DEF InternalInsertStale, Unlock, TypeOK
<1>2. CASE InternalInsertRight(c)
  <2>1. SibOf(n) \in AddrOrNull
    BY <1>2, <1>n, <1>c DEF InternalInsertRight, InCritical
  <2>2. [cl[c] EXCEPT !.pc = "lock_internal", !.p = SibOf(n)] \in Locals
    BY ZenonT(60), <2>1, Parts, PcNames DEF Locals
  <2> QED BY <1>2, <1>0, <2>2, BecomeType, LockType
          DEF InternalInsertRight, Unlock, TypeOK
<1>3. CASE InternalInsertWrite(c)
  <2>1. WithSeparator(n, cl[c].sk, cl[c].sp) \in Node
    BY <1>3, <1>n, <1>c, Parts, NodeOps
       DEF InternalInsertWrite, SeparatorFits, InCritical
  <2>2. [cl[c] EXCEPT !.pc = "done"] \in Locals
    BY Parts, PcNames DEF Locals
  <2> QED BY <1>3, <1>0, <2>1, <2>2, BecomeType, LockType, WriteType
          DEF InternalInsertWrite, Unlock, TypeOK
<1>4. CASE InternalSplitSibling(c)
  <2>1. n \in Node /\ top < MaxAddr
    BY <1>4, <1>n, <1>c DEF InternalSplitSibling, SeparatorFits, InCritical
  <2>2. PICK m \in Seps(n) :
          /\ WriteNode(top + 1,
                       IF cl[c].sk < m THEN RightInternal(n, m, cl[c].tl)
                       ELSE WithSeparator(RightInternal(n, m, cl[c].tl),
                                          cl[c].sk, cl[c].sp))
          /\ Become(c, [cl[c] EXCEPT !.pc = "internal_split", !.nsk = m,
                                     !.nsp = top + 1])
    BY <1>4 DEF InternalSplitSibling
  <2>3. m \in Keys
    BY <2>1, NodeFields
  <2>4. RightInternal(n, m, cl[c].tl) \in Node
    BY <2>1, <2>3, Parts, NodeOps
  <2>5. WithSeparator(RightInternal(n, m, cl[c].tl), cl[c].sk, cl[c].sp) \in Node
    BY <2>4, Parts, NodeOps
  <2>6. [cl[c] EXCEPT !.pc = "internal_split", !.nsk = m, !.nsp = top + 1]
          \in Locals
    BY ZenonT(60), <1>t, <2>1, <2>3, Parts, PcNames DEF Locals
  <2>7. mem' \in [Addrs -> Node]
    BY <2>2, <2>4, <2>5, WriteType
  <2>8. cl' \in [Clients -> Locals]
    BY <2>2, <2>6, BecomeType
  <2> QED BY <1>4, <1>t, <2>1, <2>7, <2>8 DEF InternalSplitSibling, TypeOK
<1>5. CASE InternalSplitCommit(c)
  <2> DEFINE left == LeftInternal(n, cl[c].nsk, cl[c].nsp)
  <2>1. left \in Node
    BY <1>5, <1>n, <1>c, Parts, NodeOps DEF InternalSplitCommit, InCritical
  <2>2. WithSeparator(left, cl[c].sk, cl[c].sp) \in Node
    BY <2>1, Parts, NodeOps
  <2>3. mem' \in [Addrs -> Node]
    BY <1>5, <2>1, <2>2, WriteType DEF InternalSplitCommit
  <2>4. cl' \in [Clients -> Locals]
    BY <1>5, ToParentType, Parts DEF InternalSplitCommit
  <2> QED BY <1>5, <1>0, <2>3, <2>4, LockType
          DEF InternalSplitCommit, Unlock, TypeOK
<1>6. CASE NewRoot(c)
  <2>1. RootOver(cl[c].tl, cl[c].p, cl[c].sk, cl[c].sp) \in Node
    BY Parts, NodeOps, InitialValues
  <2>2. [cl[c] EXCEPT !.pc = "done"] \in Locals
    BY Parts, PcNames DEF Locals
  <2>3. [cl[c] EXCEPT !.pc = "ii_next", !.p = root.ptr, !.sibp = Null,
                      !.level = root.level, !.fc = FALSE] \in Locals
    BY ZenonT(60), <1>0, Parts, PcNames DEF Locals
  <2>4. cl' \in [Clients -> Locals]
    BY <1>6, <2>2, <2>3, BecomeType DEF NewRoot
  <2>5. mem' \in [Addrs -> Node]
    BY <1>6, <2>1, WriteType DEF NewRoot
  <2>6. top' \in Addrs /\ root' \in [level : Nat, ptr : Addrs]
    BY <1>6, <1>t, Parts DEF NewRoot, TypeOK
  <2> QED BY <1>6, <2>4, <2>5, <2>6 DEF NewRoot, TypeOK
<1> QED BY <1>1, <1>2, <1>3, <1>4, <1>5, <1>6 DEF ParentStep

\* Head and Tail of a program that is not finished.
LEMMA ProgramParts ==
  ASSUME NEW S, NEW s \in Seq(S), s # <<>>
  PROVE  Head(s) \in S /\ Tail(s) \in Seq(S)
BY SMT

\* Issuing an operation, locking, finishing and the barrier keep the types.
LEMMA OtherType ==
  ASSUME TypeOK, \/ \E c \in Clients : Start(c) \/ LockNode(c) \/ Finish(c)
                 \/ Barrier
  PROVE  TypeOK'
<1>1. ASSUME NEW c \in Clients, Start(c) PROVE TypeOK'
  <2> DEFINE o == Head(todo[c])
  <2>1. /\ todo[c] \in Seq(Ops \cup {BarrierOp}) /\ todo[c] # <<>>
        /\ todo \in [Clients -> Seq(Ops \cup {BarrierOp})]
        /\ todo' = [todo EXCEPT ![c] = Tail(todo[c])]
        /\ o # BarrierOp
    BY <1>1 DEF Start, TypeOK
  <2>a. o \in Ops \cup {BarrierOp} /\ Tail(todo[c]) \in Seq(Ops \cup {BarrierOp})
    BY <2>1, ProgramParts
  <2>2. o \in Ops
    BY <2>1, <2>a
  <2>3. todo' \in [Clients -> Seq(Ops \cup {BarrierOp})]
    BY <2>1, <2>a, Zenon
  <2>4. [IdleLocals EXCEPT !.pc = "lookup", !.op = o.op, !.k = o.k, !.v = o.v]
          \in Locals
    <3> HIDE DEF o
    <3> QED BY <2>2, InitialValues, PcNames DEF Locals, Ops
  <2> QED BY <1>1, <2>3, <2>4, BecomeType DEF Start, TypeOK
<1>2. ASSUME NEW c \in Clients, LockNode(c) PROVE TypeOK'
  <2>1. \A x \in PCs : [cl[c] EXCEPT !.pc = x] \in Locals
    BY Parts DEF Locals
  <2>2. cl' \in [Clients -> Locals]
    BY <1>2, <2>1, PcNames, BecomeType DEF LockNode
  <2> QED BY <1>2, <2>2, LockType DEF LockNode, TypeOK
<1>3. ASSUME NEW c \in Clients, Finish(c) PROVE TypeOK'
  BY <1>3, InitialValues, BecomeType DEF Finish, TypeOK
<1>4. CASE Barrier
  BY <1>4 DEF Barrier, TypeOK
<1> QED BY <1>1, <1>2, <1>3, <1>4

-----------------------------------------------------------------------------
(* Locks *)

\* How a step of client c may treat the node lock: stay outside, acquire the
\* free lock of the node it stands on, stay inside on that node, or release it.
Outside(c) == ~InCritical(c) /\ ~InCritical(c)' /\ locked' = locked
Acquires(c) ==
  /\ ~InCritical(c) /\ InCritical(c)' /\ cl'[c].p = cl[c].p
  /\ cl[c].p \in Addrs /\ ~locked[cl[c].p]
  /\ locked' = [locked EXCEPT ![cl[c].p] = TRUE]
Inside(c) ==
  InCritical(c) /\ InCritical(c)' /\ cl'[c].p = cl[c].p /\ locked' = locked
Releases(c) ==
  /\ InCritical(c) /\ ~InCritical(c)'
  /\ locked' = [locked EXCEPT ![cl[c].p] = FALSE]

Disciplined(c) == Outside(c) \/ Acquires(c) \/ Inside(c) \/ Releases(c)

\* What a client becomes is what it is in the next state.
LEMMA BecomeIs ==
  ASSUME TypeOK, NEW c \in Clients, NEW l, Become(c, l)
  PROVE  cl'[c] = l /\ \A d \in Clients \ {c} : cl'[d] = cl[d]
BY DEF TypeOK, Become

\* Moving through the tree touches no lock.
LEMMA TraverseDiscipline ==
  ASSUME TypeOK, NEW c \in Clients, Traverse(c)
  PROVE  Outside(c) /\ \A d \in Clients \ {c} : cl'[d] = cl[d]
<1>1. CASE SearchFromCache(c)
  <2>0. cl[c].pc = "lookup" /\ locked' = locked
    BY <1>1 DEF SearchFromCache
  <2>1. PICK l : Become(c, l) /\ l.pc \in {"root", "next"}
    <3>1. [cl[c] EXCEPT !.pc = "root"].pc = "root"
      BY Parts DEF Locals
    <3>2. \A e, s, t : [cl[c] EXCEPT !.pc = "next", !.fc = TRUE,
                          !.p = ChildAt(e.node, s), !.sibp = NextAt(e.node, t),
                          !.level = e.node.level, !.lo = e.lo, !.hi = e.hi].pc
                     = "next"
      BY Parts DEF Locals
    <3>3. CASE Become(c, [cl[c] EXCEPT !.pc = "root"])
      BY <3>1, <3>3
    <3>4. CASE \E e, s, t : Become(c, [cl[c] EXCEPT !.pc = "next", !.fc = TRUE,
                          !.p = ChildAt(e.node, s), !.sibp = NextAt(e.node, t),
                          !.level = e.node.level, !.lo = e.lo, !.hi = e.hi])
      BY <3>2, <3>4
    <3> QED BY <1>1, <3>3, <3>4 DEF SearchFromCache
  <2>2. cl'[c].pc \in {"root", "next"} /\ \A d \in Clients \ {c} : cl'[d] = cl[d]
    BY <2>1, BecomeIs
  <2> QED BY <2>0, <2>2 DEF Outside, InCritical, Critical
<1>2. CASE GetRootPtr(c)
  <2> DEFINE x == IF cl[c].pc = "root" THEN "next" ELSE "ii_next"
             l == [cl[c] EXCEPT !.pc = x, !.fc = FALSE, !.p = root.ptr,
                                !.sibp = Null, !.level = root.level]
  <2>1. l.pc = x
    BY Parts DEF Locals
  <2>2. cl'[c].pc = x /\ \A d \in Clients \ {c} : cl'[d] = cl[d]
    BY <1>2, <2>1, BecomeIs DEF GetRootPtr
  <2> QED BY <1>2, <2>2 DEF GetRootPtr, Outside, InCritical, Critical
<1>3. CASE InternalSearchStale(c)
  <2> DEFINE l == [cl[c] EXCEPT !.pc = "lookup", !.path = Recorded(c, cl[c].p)]
  <2>1. l.pc = "lookup"
    BY Parts DEF Locals
  <2>2. cl'[c].pc = "lookup" /\ \A d \in Clients \ {c} : cl'[d] = cl[d]
    BY <1>3, <2>1, BecomeIs DEF InternalSearchStale
  <2> QED BY <1>3, <2>2
          DEF InternalSearchStale, Traversing, Outside, InCritical, Critical
<1>4. CASE InternalSearchRight(c)
  <2> DEFINE l == [cl[c] EXCEPT !.p = SibOf(mem[cl[c].p]),
                                !.path = Recorded(c, SibOf(mem[cl[c].p]))]
  <2>1. l.pc = cl[c].pc
    BY Parts DEF Locals
  <2>2. cl'[c].pc = cl[c].pc /\ \A d \in Clients \ {c} : cl'[d] = cl[d]
    BY <1>4, <2>1, BecomeIs DEF InternalSearchRight
  <2> QED BY <1>4, <2>2
          DEF InternalSearchRight, Traversing, Outside, InCritical, Critical
<1>5. CASE InternalSearchDown(c)
  <2>1. PICK l : Become(c, l) /\ l.pc = cl[c].pc
    <3> DEFINE n == mem[cl[c].p]
    <3>1. \A s, t : [cl[c] EXCEPT !.fc = FALSE, !.p = ChildAt(n, s),
                       !.sibp = NextAt(n, t), !.level = n.level,
                       !.path = Recorded(c, cl[c].p)].pc = cl[c].pc
      BY Parts DEF Locals
    <3> QED BY <1>5, <3>1 DEF InternalSearchDown
  <2>2. cl'[c].pc = cl[c].pc /\ \A d \in Clients \ {c} : cl'[d] = cl[d]
    BY <2>1, BecomeIs
  <2> QED BY <1>5, <2>2
          DEF InternalSearchDown, Traversing, Outside, InCritical, Critical
<1>6. CASE InsertInternalArrive(c)
  <2> DEFINE l == [cl[c] EXCEPT !.pc = "lock_internal", !.fc = FALSE,
                                !.path = Recorded(c, cl[c].p)]
  <2>1. l.pc = "lock_internal"
    BY Parts DEF Locals
  <2>2. cl'[c].pc = "lock_internal" /\ \A d \in Clients \ {c} : cl'[d] = cl[d]
    BY <1>6, <2>1, BecomeIs DEF InsertInternalArrive
  <2> QED BY <1>6, <2>2
          DEF InsertInternalArrive, Outside, InCritical, Critical
<1> QED BY <1>1, <1>2, <1>3, <1>4, <1>5, <1>6 DEF Traverse

\* After a split's last write the client is outside again.
LEMMA ToParentLeaves ==
  ASSUME TypeOK, NEW c \in Clients, NEW l \in Nat,
         ToParent(c, l) \/ ToNewRoot(c, l)
  PROVE  ~InCritical(c)' /\ \A d \in Clients \ {c} : cl'[d] = cl[d]
<1> DEFINE up == [cl[c] EXCEPT !.sk = cl[c].nsk, !.sp = cl[c].nsp, !.tl = l]
<1>1. up \in Locals
  BY ZenonT(60), Parts DEF Locals
<1>2. PICK r : Become(c, r) /\ r.pc \in {"newroot", "ii_root", "lock_internal"}
  <2>1. [cl[c] EXCEPT !.pc = "newroot", !.sk = cl[c].nsk,
                   !.sp = cl[c].nsp, !.tl = l, !.lin = TRUE].pc = "newroot"
    BY Parts DEF Locals
  <2>2. [up EXCEPT !.pc = "ii_root", !.lin = TRUE].pc = "ii_root"
    <3> HIDE DEF up
    <3> QED BY <1>1 DEF Locals
  <2>3. \A a : [up EXCEPT !.pc = "lock_internal", !.p = a, !.fc = FALSE,
                         !.lin = TRUE].pc = "lock_internal"
    <3> HIDE DEF up
    <3> QED BY <1>1 DEF Locals
  <2>4. \A a, lo, hi : [up EXCEPT !.pc = "lock_internal", !.fc = TRUE, !.p = a,
                         !.lo = lo, !.hi = hi, !.lin = TRUE].pc = "lock_internal"
    <3> HIDE DEF up
    <3> QED BY <1>1 DEF Locals
  <2> HIDE DEF up
  <2>5. CASE ToNewRoot(c, l)
    BY <2>1, <2>5 DEF ToNewRoot
  <2>6. CASE ToParent(c, l)
    <3>1. CASE Become(c, [up EXCEPT !.pc = "ii_root", !.lin = TRUE])
      BY <2>2, <3>1
    <3>2. CASE \E a : Become(c, [up EXCEPT !.pc = "lock_internal", !.p = a,
                                 !.fc = FALSE, !.lin = TRUE])
      BY <2>3, <3>2
    <3>3. CASE \E a, lo, hi :
                 Become(c, [up EXCEPT !.pc = "lock_internal", !.fc = TRUE,
                              !.p = a, !.lo = lo, !.hi = hi, !.lin = TRUE])
      <4>1. PICK a, lo, hi :
              Become(c, [up EXCEPT !.pc = "lock_internal", !.fc = TRUE,
                              !.p = a, !.lo = lo, !.hi = hi, !.lin = TRUE])
        BY <3>3
      <4>2. [up EXCEPT !.pc = "lock_internal", !.fc = TRUE, !.p = a,
                       !.lo = lo, !.hi = hi, !.lin = TRUE].pc = "lock_internal"
        BY <2>4
      <4> QED BY <4>1, <4>2
    <3> QED BY <2>6, <3>1, <3>2, <3>3 DEF ToParent, up
  <2> QED BY <2>5, <2>6
<1> QED BY <1>2, BecomeIs DEF InCritical, Critical

\* At a leaf, a client keeps its lock or releases it, and takes none.
LEMMA LeafDiscipline ==
  ASSUME TypeOK, NEW c \in Clients, LeafStep(c)
  PROVE  Disciplined(c) /\ \A d \in Clients \ {c} : cl'[d] = cl[d]
<1> USE DEF Disciplined
<1>1. CASE LeafStale(c)
  <2>1. [cl[c] EXCEPT !.pc = "lookup"].pc = "lookup"
    BY Parts DEF Locals
  <2>2. cl'[c].pc = "lookup" /\ \A d \in Clients \ {c} : cl'[d] = cl[d]
    BY <1>1, <2>1, BecomeIs DEF LeafStale
  <2> QED BY <1>1, <2>2
          DEF LeafStale, Unlock, Releases, InCritical, Critical
<1>2. CASE LeafInsertRight(c)
  <2> DEFINE l == [cl[c] EXCEPT !.pc = "next", !.p = SibOf(mem[cl[c].p]),
                                !.sibp = Null]
  <2>1. l.pc = "next"
    BY Parts DEF Locals
  <2>2. cl'[c].pc = "next" /\ \A d \in Clients \ {c} : cl'[d] = cl[d]
    BY <1>2, <2>1, BecomeIs DEF LeafInsertRight
  <2> QED BY <1>2, <2>2
          DEF LeafInsertRight, Unlock, Releases, InCritical, Critical
<1>3. CASE LeafInsertWrite(c)
  <2>1. [cl[c] EXCEPT !.pc = "done", !.lin = TRUE].pc = "done"
    BY Parts DEF Locals
  <2>2. cl'[c].pc = "done" /\ \A d \in Clients \ {c} : cl'[d] = cl[d]
    BY <1>3, <2>1, BecomeIs DEF LeafInsertWrite
  <2> QED BY <1>3, <2>2
          DEF LeafInsertWrite, InsertHere, Unlock, Releases, InCritical, Critical
<1>4. CASE LeafSplitSibling(c)
  <2>0. PICK x, y : Become(c, [cl[c] EXCEPT !.pc = "leaf_split", !.nsk = x,
                                            !.nsp = y])
    BY <1>4 DEF LeafSplitSibling
  <2>1. LET l == [cl[c] EXCEPT !.pc = "leaf_split", !.nsk = x, !.nsp = y]
        IN l.pc = "leaf_split" /\ l.p = cl[c].p
    BY Parts DEF Locals
  <2>2. cl'[c].pc = "leaf_split" /\ cl'[c].p = cl[c].p /\ \A d \in Clients \ {c} : cl'[d] = cl[d]
    BY <2>0, <2>1, BecomeIs
  <2> QED BY <1>4, <2>2 DEF LeafSplitSibling, InsertHere, Inside, InCritical, Critical
<1>5. CASE LeafSplitCommit(c)
  <2>1. ~InCritical(c)' /\ \A d \in Clients \ {c} : cl'[d] = cl[d]
    BY <1>5, ToParentLeaves DEF LeafSplitCommit
  <2> QED BY <1>5, <2>1 DEF LeafSplitCommit, Unlock, Releases, InCritical, Critical
<1>6. CASE LeafUpdateWrite(c)
  <2>1. [cl[c] EXCEPT !.pc = "done", !.lin = TRUE].pc = "done"
    BY Parts DEF Locals
  <2>2. cl'[c].pc = "done" /\ \A d \in Clients \ {c} : cl'[d] = cl[d]
    BY <1>6, <2>1, BecomeIs DEF LeafUpdateWrite
  <2> QED BY <1>6, <2>2
          DEF LeafUpdateWrite, Unlock, Releases, InCritical, Critical
<1>7. CASE LeafUpdateRight(c)
  <2>1. [cl[c] EXCEPT !.pc = "next", !.p = SibOf(mem[cl[c].p])].pc = "next"
    BY Parts DEF Locals
  <2>2. cl'[c].pc = "next" /\ \A d \in Clients \ {c} : cl'[d] = cl[d]
    BY <1>7, <2>1, BecomeIs DEF LeafUpdateRight
  <2> QED BY <1>7, <2>2
          DEF LeafUpdateRight, Unlock, Releases, InCritical, Critical
<1>8. CASE LeafSearchStale(c)
  <2>1. [cl[c] EXCEPT !.pc = "lookup"].pc = "lookup"
    BY Parts DEF Locals
  <2>2. cl'[c].pc = "lookup" /\ \A d \in Clients \ {c} : cl'[d] = cl[d]
    BY <1>8, <2>1, BecomeIs DEF LeafSearchStale
  <2> QED BY <1>8, <2>2
          DEF LeafSearchStale, SearchingLeaf, Outside, InCritical, Critical
<1>9. CASE LeafSearchFound(c)
  <2> DEFINE l == [cl[c] EXCEPT !.pc = "done", !.ret = mem[cl[c].p].kv[cl[c].k],
                                !.lin = TRUE]
  <2>1. l.pc = "done"
    BY Parts DEF Locals
  <2>2. cl'[c].pc = "done" /\ \A d \in Clients \ {c} : cl'[d] = cl[d]
    BY <1>9, <2>1, BecomeIs DEF LeafSearchFound
  <2> QED BY <1>9, <2>2
          DEF LeafSearchFound, SearchingLeaf, Outside, InCritical, Critical
<1>10. CASE LeafSearchOn(c)
  <2>1. PICK l : Become(c, l) /\ l.pc \in {"done", "next"}
    <3> DEFINE now == cl[c].lin \/ Owns(cl[c].p, cl[c].k)
    <3>1. [cl[c] EXCEPT !.pc = "done", !.lin = now].pc = "done"
      BY Parts DEF Locals
    <3>2. [cl[c] EXCEPT !.p = SibOf(mem[cl[c].p]), !.lin = now].pc = cl[c].pc
      BY Parts DEF Locals
    <3> QED BY <1>10, <3>1, <3>2 DEF LeafSearchOn, SearchingLeaf
  <2>2. cl'[c].pc \in {"done", "next"} /\ \A d \in Clients \ {c} : cl'[d] = cl[d]
    BY <2>1, BecomeIs
  <2> QED BY <1>10, <2>2
          DEF LeafSearchOn, SearchingLeaf, Outside, InCritical, Critical
<1> QED BY <1>1, <1>2, <1>3, <1>4, <1>5, <1>6, <1>7, <1>8, <1>9, <1>10
        DEF LeafStep

\* The same for a separator's way into a parent.
LEMMA ParentDiscipline ==
  ASSUME TypeOK, NEW c \in Clients, ParentStep(c)
  PROVE  Disciplined(c) /\ \A d \in Clients \ {c} : cl'[d] = cl[d]
<1> USE DEF Disciplined
<1>1. CASE InternalInsertStale(c)
  <2>1. [cl[c] EXCEPT !.pc = "ii_root"].pc = "ii_root"
    BY Parts DEF Locals
  <2>2. cl'[c].pc = "ii_root" /\ \A d \in Clients \ {c} : cl'[d] = cl[d]
    BY <1>1, <2>1, BecomeIs DEF InternalInsertStale
  <2> QED BY <1>1, <2>2
          DEF InternalInsertStale, Unlock, Releases, InCritical, Critical
<1>2. CASE InternalInsertRight(c)
  <2> DEFINE l == [cl[c] EXCEPT !.pc = "lock_internal", !.p = SibOf(mem[cl[c].p])]
  <2>1. l.pc = "lock_internal"
    BY Parts DEF Locals
  <2>2. cl'[c].pc = "lock_internal" /\ \A d \in Clients \ {c} : cl'[d] = cl[d]
    BY <1>2, <2>1, BecomeIs DEF InternalInsertRight
  <2> QED BY <1>2, <2>2
          DEF InternalInsertRight, Unlock, Releases, InCritical, Critical
<1>3. CASE InternalInsertWrite(c)
  <2>1. [cl[c] EXCEPT !.pc = "done"].pc = "done"
    BY Parts DEF Locals
  <2>2. cl'[c].pc = "done" /\ \A d \in Clients \ {c} : cl'[d] = cl[d]
    BY <1>3, <2>1, BecomeIs DEF InternalInsertWrite
  <2> QED BY <1>3, <2>2
          DEF InternalInsertWrite, SeparatorFits, Unlock, Releases, InCritical, Critical
<1>4. CASE InternalSplitSibling(c)
  <2>0. PICK x, y : Become(c, [cl[c] EXCEPT !.pc = "internal_split", !.nsk = x,
                                            !.nsp = y])
    BY <1>4 DEF InternalSplitSibling
  <2>1. LET l == [cl[c] EXCEPT !.pc = "internal_split", !.nsk = x, !.nsp = y]
        IN l.pc = "internal_split" /\ l.p = cl[c].p
    BY Parts DEF Locals
  <2>2. cl'[c].pc = "internal_split" /\ cl'[c].p = cl[c].p /\ \A d \in Clients \ {c} : cl'[d] = cl[d]
    BY <2>0, <2>1, BecomeIs
  <2> QED BY <1>4, <2>2 DEF InternalSplitSibling, SeparatorFits, Inside, InCritical, Critical
<1>5. CASE InternalSplitCommit(c)
  <2>1. ~InCritical(c)' /\ \A d \in Clients \ {c} : cl'[d] = cl[d]
    BY <1>5, Parts, ToParentLeaves DEF InternalSplitCommit
  <2> QED BY <1>5, <2>1
          DEF InternalSplitCommit, Unlock, Releases, InCritical, Critical
<1>6. CASE NewRoot(c)
  <2>1. PICK l : Become(c, l) /\ l.pc \in {"done", "ii_next"}
    <3>1. [cl[c] EXCEPT !.pc = "done"].pc = "done"
      BY Parts DEF Locals
    <3>2. [cl[c] EXCEPT !.pc = "ii_next", !.p = root.ptr, !.sibp = Null,
                        !.level = root.level, !.fc = FALSE].pc = "ii_next"
      BY Parts DEF Locals
    <3> QED BY <1>6, <3>1, <3>2 DEF NewRoot
  <2>2. cl'[c].pc \in {"done", "ii_next"} /\ \A d \in Clients \ {c} : cl'[d] = cl[d]
    BY <2>1, BecomeIs
  <2> QED BY <1>6, <2>2 DEF NewRoot, Outside, InCritical, Critical
<1> QED BY <1>1, <1>2, <1>3, <1>4, <1>5, <1>6 DEF ParentStep

\* Every step of a client treats the locks in one of the four ways.
LEMMA StepDiscipline ==
  ASSUME TypeOK, NEW c \in Clients, Step(c)
  PROVE  Disciplined(c) /\ \A d \in Clients \ {c} : cl'[d] = cl[d]
<1>1. CASE Start(c)
  <2> DEFINE o == Head(todo[c])
             l == [IdleLocals EXCEPT !.pc = "lookup", !.op = o.op, !.k = o.k,
                                     !.v = o.v]
  <2>0. l.pc = "lookup"
    BY DEF IdleLocals
  <2>1. cl'[c].pc = "lookup" /\ \A d \in Clients \ {c} : cl'[d] = cl[d]
    BY <1>1, <2>0, BecomeIs DEF Start
  <2> QED BY <1>1, <2>1 DEF Start, Disciplined, Outside, InCritical, Critical
<1>2. CASE Traverse(c)
  BY <1>2, TraverseDiscipline DEF Disciplined
<1>3. CASE LockNode(c)
  <2>1. \A x : /\ [cl[c] EXCEPT !.pc = x].pc = x
               /\ [cl[c] EXCEPT !.pc = x].p = cl[c].p
    BY Parts DEF Locals
  <2>2. PICK x \in {"leaf_insert", "leaf_update", "internal_insert"} :
           Become(c, [cl[c] EXCEPT !.pc = x])
    BY <1>3 DEF LockNode
  <2>3. /\ cl'[c].pc \in {"leaf_insert", "leaf_update", "internal_insert"}
        /\ cl'[c].p = cl[c].p /\ \A d \in Clients \ {c} : cl'[d] = cl[d]
    <3>1. cl'[c] = [cl[c] EXCEPT !.pc = x] /\ \A d \in Clients \ {c} : cl'[d] = cl[d]
      BY <2>2, BecomeIs
    <3> QED BY <2>1, <3>1
  <2> QED BY <1>3, <2>3 DEF LockNode, Disciplined, Acquires, InCritical, Critical
<1>4. CASE LeafStep(c)
  BY <1>4, LeafDiscipline
<1>5. CASE ParentStep(c)
  BY <1>5, ParentDiscipline
<1>6. CASE Finish(c)
  BY <1>6, BecomeIs
     DEF Finish, Disciplined, Outside, InCritical, Critical, IdleLocals
<1> QED BY <1>1, <1>2, <1>3, <1>4, <1>5, <1>6 DEF Step

\* A disciplined step keeps the locks exclusive.
LEMMA DisciplineKeepsMutex ==
  ASSUME TypeOK, CriticalOnNode, LockMutex, NEW c \in Clients, Disciplined(c),
         \A d \in Clients \ {c} : cl'[d] = cl[d]
  PROVE  CriticalOnNode' /\ LockMutex'
<1>0. /\ locked \in [Addrs -> BOOLEAN]
      /\ \A d \in Clients \ {c} : InCritical(d)' <=> InCritical(d)
  BY DEF TypeOK, InCritical
<1>1. CASE Outside(c)
  BY <1>0, <1>1 DEF Outside, CriticalOnNode, LockMutex
<1>2. CASE Acquires(c)
  BY <1>0, <1>2 DEF Acquires, CriticalOnNode, LockMutex
<1>3. CASE Inside(c)
  BY <1>0, <1>3 DEF Inside, CriticalOnNode, LockMutex
<1>4. CASE Releases(c)
  BY <1>0, <1>4 DEF Releases, CriticalOnNode, LockMutex
<1> QED BY <1>1, <1>2, <1>3, <1>4 DEF Disciplined

-----------------------------------------------------------------------------
\* What every state of the protocol satisfies.  The types are not inductive by
\* themselves: a write under a lock needs the locked node to exist.
TreeInv == TypeOK /\ CriticalOnNode /\ LockMutex

\* The tree Tree::Tree leaves behind satisfies it.
LEMMA InitInv == Init => TreeInv
<1> SUFFICES ASSUME Init PROVE TreeInv
  OBVIOUS
<1>1. mem \in [Addrs -> Node]
  <2>1. /\ Widest \in 0..(MaxAddr + 1) /\ KeyMax \in Keys
    BY TreeConstants DEF Widest, Keys
  <2>2. [ZeroNode EXCEPT !.sib = Widest, !.kv[KeyMax] = kValueNull] \in Node
    BY <2>1, InitialValues DEF Node
  <2> QED BY <2>2, InitialValues DEF Init
<1>2. 1 \in Addrs
  BY TreeConstants DEF Addrs
<1>3. TypeOK
  BY <1>1, <1>2, InitialValues, WorkloadsAssumption DEF Init, TypeOK
<1>4. \A c \in Clients : ~InCritical(c)
  BY DEF Init, IdleLocals, InCritical, Critical
<1>5. \A a \in Addrs : ~locked[a]
  BY DEF Init
<1> QED BY <1>3, <1>4, <1>5 DEF TreeInv, CriticalOnNode, LockMutex

\* Every step preserves it.
LEMMA StepInv == TreeInv /\ [Next]_vars => TreeInv'
<1> SUFFICES ASSUME TreeInv, [Next]_vars PROVE TreeInv'
  OBVIOUS
<1> USE DEF TreeInv
<1>1. ASSUME NEW c \in Clients, Step(c) PROVE TreeInv'
  <2>1. TypeOK'
    BY <1>1, TraverseType, LeafType, ParentType, OtherType DEF Step
  <2>2. CriticalOnNode' /\ LockMutex'
    BY <1>1, StepDiscipline, DisciplineKeepsMutex
  <2> QED BY <2>1, <2>2
<1>2. CASE Barrier
  <2>1. TypeOK'
    BY <1>2, OtherType
  <2>2. CriticalOnNode' /\ LockMutex'
    BY <1>2 DEF Barrier, CriticalOnNode, LockMutex, InCritical
  <2> QED BY <2>1, <2>2
<1>3. CASE UNCHANGED vars
  BY <1>3 DEF vars, TypeOK, CriticalOnNode, LockMutex, InCritical
<1> QED BY <1>1, <1>2, <1>3 DEF Next, Terminated

\* For any number of clients, compute nodes, keys and nodes: all locals, cache
\* entries and node images stay well typed, in particular every address a
\* client writes through is a node and the root tag never leaks into one.
THEOREM TypeCorrect == Spec => []TypeOK
<1>1. TreeInv => TypeOK
  BY DEF TreeInv
<1> QED BY <1>1, InitInv, StepInv, PTL DEF Spec

\* For any number of clients: although unlock_node and the combined write and
\* unlock are plain writes, a lock bit is set exactly while one client is
\* between its lock_node and its unlock of that node.
THEOREM LockSafety == Spec => []LockMutex
<1>1. TreeInv => LockMutex
  BY DEF TreeInv
<1> QED BY <1>1, InitInv, StepInv, PTL DEF Spec
=============================================================================
