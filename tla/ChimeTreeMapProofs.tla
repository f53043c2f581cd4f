------------------------- MODULE ChimeTreeMapProofs -------------------------
(***************************************************************************)
(* ChimeTree implements KVMap: insert, update and search are linearizable  *)
(* for every instance.  The map is what the linked leaves hold; an insert  *)
(* or update takes effect with the write that releases the leaf, a search  *)
(* when it reads the leaf that owns its key; every other step of a client  *)
(* is a stuttering step of the map.                                        *)
(***************************************************************************)
EXTENDS ChimeTreeChainProofs

\* The abstract map holds exactly the records of the linked leaves.
StoreFacts ==
  TypeOK => \A low : RangeInv(low) => \A j \in UserKeys :
    /\ \A x : Holds(j, x) => AbsStore[j] = x
    /\ (\A x : ~Holds(j, x)) => AbsStore[j] = kValueNull

\* The keys of the map are keys of the tree.
LEMMA MapKeys == UserKeys \subseteq Keys
BY TreeConstants DEF UserKeys, Keys

\* The facts about the store follow from the ranges: no two linked leaves
\* hold the same key.
LEMMA StoreFactsHold == StoreFacts
<1> SUFFICES ASSUME TypeOK, NEW low, RangeInv(low), NEW j \in UserKeys
             PROVE  /\ \A x : Holds(j, x) => AbsStore[j] = x
                    /\ (\A x : ~Holds(j, x)) => AbsStore[j] = kValueNull
  BY DEF StoreFacts
<1>1. \A a : a \in LinkedLeaves <=> Settled(a)
  BY LinkedIsSettled
<1> DEFINE Holding(a) == a \in LinkedLeaves /\ j \in Present(mem[a].kv)
           b == CHOOSE a \in LinkedLeaves : j \in Present(mem[a].kv)
<1>2. AbsStore[j] = IF \E a \in LinkedLeaves : j \in Present(mem[a].kv)
                      THEN mem[b].kv[j] ELSE kValueNull
  BY DEF AbsStore
<1>3. (\E a : Holding(a)) => Holding(b)
  OBVIOUS
<1> HIDE DEF b
<1>4. ASSUME NEW x, Holds(j, x) PROVE AbsStore[j] = x
  <2>1. PICK a : Settled(a) /\ j \in Present(mem[a].kv) /\ mem[a].kv[j] = x
    BY <1>4 DEF Holds
  <2>2. Holding(b) /\ Settled(b)
    BY <1>1, <1>3, <2>1
  <2>3. low[a] <= j /\ j < End(low, a)
    BY <2>1, LeafFacts
  <2>4. a = b
    BY <2>1, <2>2, <2>3, OneHolder
  <2> QED BY <1>1, <1>2, <2>1, <2>4
<1>5. ASSUME \A x : ~Holds(j, x) PROVE AbsStore[j] = kValueNull
  <2>1. \A a : ~Holding(a)
    BY <1>1, <1>5, Allocated DEF Holds, Settled
  <2> QED BY <1>2, <2>1
<1> QED BY <1>4, <1>5

\* They hold after a step as well.
LEMMA StoreFactsNext == StoreFacts'
BY StoreFactsHold, PTL

\* The map is a function of the user's keys.
LEMMA StoreShape ==
  /\ AbsStore = [j \in UserKeys |-> AbsStore[j]]
  /\ AbsStore' = [j \in UserKeys |-> AbsStore'[j]]
BY DEF AbsStore

\* A step that keeps the records keeps the map.
LEMMA SameStoreSameMap ==
  ASSUME TypeOK, TypeOK', NEW low, NEW new, RangeInv(low), RangeInv(new)', SameStore
  PROVE  AbsStore' = AbsStore
<1>1. ASSUME NEW j \in UserKeys PROVE AbsStore'[j] = AbsStore[j]
  <2>1. j \in Keys
    BY MapKeys
  <2>2. CASE \E x : Holds(j, x)
    <3>1. PICK x : Holds(j, x)
      BY <2>2
    <3>2. Holds(j, x)'
      BY <2>1, <3>1 DEF SameStore
    <3> QED BY <3>1, <3>2, StoreFactsHold, StoreFactsNext DEF StoreFacts
  <2>3. CASE \A x : ~Holds(j, x)
    <3>1. \A x : ~Holds(j, x)'
      BY <2>1, <2>3 DEF SameStore
    <3> QED BY <2>3, <3>1, StoreFactsHold, StoreFactsNext DEF StoreFacts
  <2> QED BY <2>2, <2>3
<1> QED BY <1>1, StoreShape

\* A step that stores c's value changes the map at c's key.
LEMMA PutStorePuts ==
  ASSUME TypeOK, TypeOK', NEW low, NEW new, RangeInv(low), RangeInv(new)',
         NEW c \in Clients, PutStore(c)
  PROVE  AbsStore' = [AbsStore EXCEPT ![cl[c].k] = cl[c].v]
<1>a. PICK k, v : k = cl[c].k /\ v = cl[c].v
  OBVIOUS
<1>1. ASSUME NEW j \in UserKeys
      PROVE  AbsStore'[j] = IF j = k THEN v ELSE AbsStore[j]
  <2>1. j \in Keys
    BY MapKeys
  <2>2. CASE j = k
    <3>1. Holds(j, v)'
      BY <1>a, <2>1, <2>2 DEF PutStore
    <3> QED BY <2>2, <3>1, StoreFactsNext DEF StoreFacts
  <2>3. CASE j # k /\ \E x : Holds(j, x)
    <3>1. PICK x : Holds(j, x)
      BY <2>3
    <3>2. Holds(j, x)'
      BY <1>a, <2>1, <2>3, <3>1 DEF PutStore
    <3> QED BY <2>3, <3>1, <3>2, StoreFactsHold, StoreFactsNext DEF StoreFacts
  <2>4. CASE j # k /\ \A x : ~Holds(j, x)
    <3>1. \A x : ~Holds(j, x)'
      BY <1>a, <2>1, <2>4 DEF PutStore
    <3> QED BY <2>4, <3>1, StoreFactsHold, StoreFactsNext DEF StoreFacts
  <2> QED BY <2>2, <2>3, <2>4
<1>2. AbsStore' = [j \in UserKeys |-> IF j = k THEN v ELSE AbsStore[j]]
  BY <1>1, StoreShape
<1>3. [AbsStore EXCEPT ![k] = v]
        = [j \in UserKeys |-> IF j = k THEN v ELSE AbsStore[j]]
  BY StoreShape
<1> QED BY <1>a, <1>2, <1>3

\* A step that writes no node keeps the map.
LEMMA ReadKeepsMap ==
  ASSUME mem' = mem, top' = top
  PROVE  AbsStore' = AbsStore
BY DEF AbsStore, LinkedLeaves

-----------------------------------------------------------------------------
(* The refinement mapping *)

\* status, request and answer of KV.
Status == [c \in Clients |-> IF cl[c].pc = "idle" THEN "idle"
                             ELSE IF cl[c].lin THEN "done" ELSE "pending"]
Request == [c \in Clients |-> [op |-> cl[c].op, k |-> cl[c].k, v |-> cl[c].v]]
Answer == [c \in Clients |-> cl[c].ret]

\* A step of c that the map does not see.
Quiet(c) ==
  /\ cl[c].pc # "idle" /\ cl'[c].pc # "idle"
  /\ cl'[c].lin = cl[c].lin /\ cl'[c].op = cl[c].op /\ cl'[c].k = cl[c].k
  /\ cl'[c].v = cl[c].v /\ cl'[c].ret = cl[c].ret
  /\ \A d \in Clients \ {c} : cl'[d] = cl[d]

\* Such a step, if it leaves the store alone, stutters in the map.
LEMMA QuietStutters ==
  ASSUME NEW c \in Clients, Quiet(c), AbsStore' = AbsStore
  PROVE  UNCHANGED KV!mapVars
<1>1. ASSUME NEW d \in Clients
      PROVE  /\ cl'[d].pc = "idle" <=> cl[d].pc = "idle"
             /\ cl'[d].lin = cl[d].lin /\ cl'[d].op = cl[d].op /\ cl'[d].k = cl[d].k
             /\ cl'[d].v = cl[d].v /\ cl'[d].ret = cl[d].ret
  <2>1. CASE d = c
    BY <2>1 DEF Quiet
  <2>2. CASE d # c
    BY <2>2 DEF Quiet
  <2> QED BY <2>1, <2>2
<1>2. Status' = Status
  BY <1>1 DEF Status
<1>3. Request' = Request
  BY <1>1 DEF Request
<1>4. Answer' = Answer
  BY <1>1 DEF Answer
<1> QED BY <1>2, <1>3, <1>4 DEF KV!mapVars, Status, Request, Answer

\* An operation of c takes effect.
Effective(c) ==
  /\ cl[c].pc # "idle" /\ cl'[c].pc # "idle"
  /\ cl[c].lin = FALSE /\ cl'[c].lin = TRUE /\ cl'[c].op = cl[c].op
  /\ cl'[c].k = cl[c].k /\ cl'[c].v = cl[c].v
  /\ \A d \in Clients \ {c} : cl'[d] = cl[d]
  /\ \/ /\ cl[c].op = "search" /\ cl'[c].ret = AbsStore[cl[c].k]
        /\ AbsStore' = AbsStore
     \/ /\ cl[c].op # "search" /\ cl'[c].ret = cl[c].ret
        /\ AbsStore' = [AbsStore EXCEPT ![cl[c].k] = cl[c].v]

\* Such a step is the step TakeEffect of the map.
LEMMA EffectiveTakesEffect ==
  ASSUME NEW c \in Clients, Effective(c)
  PROVE  KV!TakeEffect(c)
<1>1. ASSUME NEW d \in Clients, d # c PROVE cl'[d] = cl[d]
  BY <1>1 DEF Effective
<1>2. Status[c] = "pending" /\ Status' = [Status EXCEPT ![c] = "done"]
  <2>1. Status[c] = "pending" /\ Status'[c] = "done"
    BY DEF Status, Effective
  <2>2. \A d \in Clients : d # c => Status'[d] = Status[d]
    BY <1>1 DEF Status
  <2>3. /\ Status = [d \in Clients |-> Status[d]]
        /\ Status' = [d \in Clients |-> Status'[d]]
    BY DEF Status
  <2> QED BY <2>1, <2>2, <2>3
<1>3. Request' = Request /\ Request[c].op = cl[c].op /\ Request[c].k = cl[c].k
      /\ Request[c].v = cl[c].v
  <2>1. ASSUME NEW d \in Clients
        PROVE  cl'[d].op = cl[d].op /\ cl'[d].k = cl[d].k /\ cl'[d].v = cl[d].v
    BY <1>1 DEF Effective
  <2> QED BY <2>1 DEF Request
<1>4. Answer' = [Answer EXCEPT ![c] = cl'[c].ret]
  <2>1. \A d \in Clients : d # c => Answer'[d] = Answer[d]
    BY <1>1 DEF Answer
  <2>2. /\ Answer = [d \in Clients |-> Answer[d]]
        /\ Answer' = [d \in Clients |-> Answer'[d]] /\ Answer'[c] = cl'[c].ret
    BY DEF Answer
  <2> QED BY <2>1, <2>2
<1>5. cl'[c].ret = cl[c].ret => Answer' = Answer
  <2>1. ASSUME cl'[c].ret = cl[c].ret, NEW d \in Clients PROVE cl'[d].ret = cl[d].ret
    BY <1>1, <2>1
  <2> QED BY <2>1 DEF Answer
<1>6. \/ /\ Request[c].op = "search"
         /\ Answer' = [Answer EXCEPT ![c] = AbsStore[Request[c].k]]
         /\ AbsStore' = AbsStore
      \/ /\ Request[c].op # "search"
         /\ AbsStore' = [AbsStore EXCEPT ![Request[c].k] = Request[c].v]
         /\ Answer' = Answer
  BY <1>3, <1>4, <1>5 DEF Effective
<1> QED BY <1>2, <1>3, <1>6 DEF KV!TakeEffect, Status, Request, Answer

-----------------------------------------------------------------------------
(* Steps the map does not see *)

\* Moving through the tree.
LEMMA TraverseQuiet ==
  ASSUME TypeOK, NEW c \in Clients, Traverse(c)
  PROVE  Quiet(c) /\ mem' = mem /\ top' = top
<1>0. cl[c] \in Locals
  BY Parts
<1>1. CASE SearchFromCache(c)
  <2>1. CASE Become(c, [cl[c] EXCEPT !.pc = "root"])
    <3>1. /\ cl'[c] = [cl[c] EXCEPT !.pc = "root"]
          /\ \A d \in Clients \ {c} : cl'[d] = cl[d]
      BY <2>1, BecomeIs
    <3> QED BY <1>0, <1>1, <3>1 DEF SearchFromCache, Quiet, Locals
  <2>2. ASSUME NEW e, NEW s, NEW t,
               Become(c, [cl[c] EXCEPT !.pc = "next", !.fc = TRUE,
                                       !.p = ChildAt(e.node, s),
                                       !.sibp = NextAt(e.node, t),
                                       !.level = e.node.level,
                                       !.lo = e.lo, !.hi = e.hi])
        PROVE  Quiet(c)
    <3>1. /\ cl'[c] = [cl[c] EXCEPT !.pc = "next", !.fc = TRUE,
                                    !.p = ChildAt(e.node, s),
                                    !.sibp = NextAt(e.node, t),
                                    !.level = e.node.level,
                                    !.lo = e.lo, !.hi = e.hi]
          /\ \A d \in Clients \ {c} : cl'[d] = cl[d]
      BY <2>2, BecomeIs
    <3> QED BY <1>0, <1>1, <3>1 DEF SearchFromCache, Quiet, Locals
  <2> QED BY <1>1, <2>1, <2>2 DEF SearchFromCache
<1>2. CASE GetRootPtr(c)
  <2>1. PICK x \in {"next", "ii_next"} :
          /\ cl'[c] = [cl[c] EXCEPT !.pc = x, !.fc = FALSE, !.p = root.ptr,
                                    !.sibp = Null, !.level = root.level]
          /\ \A d \in Clients \ {c} : cl'[d] = cl[d]
    <3>1. [cl[c] EXCEPT !.pc = IF @ = "root" THEN "next" ELSE "ii_next",
                        !.fc = FALSE, !.p = root.ptr,
                        !.sibp = Null, !.level = root.level]
            = [cl[c] EXCEPT !.pc = IF cl[c].pc = "root" THEN "next" ELSE "ii_next",
                            !.fc = FALSE, !.p = root.ptr,
                            !.sibp = Null, !.level = root.level]
      OBVIOUS
    <3> QED BY <1>2, <3>1, BecomeIs DEF GetRootPtr
  <2> QED BY <1>0, <1>2, <2>1 DEF GetRootPtr, Quiet, Locals
<1>3. CASE InternalSearchStale(c)
  <2>1. /\ cl'[c] = [cl[c] EXCEPT !.pc = "lookup", !.path = Recorded(c, cl[c].p)]
        /\ \A d \in Clients \ {c} : cl'[d] = cl[d]
    BY <1>3, BecomeIs DEF InternalSearchStale
  <2> QED BY <1>0, <1>3, <2>1 DEF InternalSearchStale, Traversing, Quiet, Locals
<1>4. CASE InternalSearchRight(c)
  <2>1. /\ cl'[c] = [cl[c] EXCEPT !.p = SibOf(mem[cl[c].p]),
                                  !.path = Recorded(c, SibOf(mem[cl[c].p]))]
        /\ \A d \in Clients \ {c} : cl'[d] = cl[d]
    BY <1>4, BecomeIs DEF InternalSearchRight
  <2> QED BY <1>0, <1>4, <2>1 DEF InternalSearchRight, Traversing, Quiet, Locals
<1>5. CASE InternalSearchDown(c)
  <2> DEFINE n == mem[cl[c].p]
  <2>1. PICK s \in 0..KeyMax, t \in Fences :
          Become(c, [cl[c] EXCEPT !.fc = FALSE, !.p = ChildAt(n, s),
                                  !.sibp = NextAt(n, t), !.level = n.level,
                                  !.path = Recorded(c, cl[c].p)])
    BY <1>5 DEF InternalSearchDown
  <2>2. /\ cl'[c] = [cl[c] EXCEPT !.fc = FALSE, !.p = ChildAt(n, s),
                                  !.sibp = NextAt(n, t), !.level = n.level,
                                  !.path = Recorded(c, cl[c].p)]
        /\ \A d \in Clients \ {c} : cl'[d] = cl[d]
    BY <2>1, BecomeIs
  <2> QED BY <1>0, <1>5, <2>2 DEF InternalSearchDown, Traversing, Quiet, Locals
<1>6. CASE InsertInternalArrive(c)
  <2>1. /\ cl'[c] = [cl[c] EXCEPT !.pc = "lock_internal", !.fc = FALSE,
                                  !.path = Recorded(c, cl[c].p)]
        /\ \A d \in Clients \ {c} : cl'[d] = cl[d]
    BY <1>6, BecomeIs DEF InsertInternalArrive
  <2> QED BY <1>0, <1>6, <2>1 DEF InsertInternalArrive, Quiet, Locals
<1> QED BY <1>1, <1>2, <1>3, <1>4, <1>5, <1>6 DEF Traverse

\* Locking, and leaving a leaf or a node without a change.
LEMMA LeaveQuiet ==
  ASSUME TypeOK, NEW c \in Clients,
         \/ LockNode(c) \/ LeafStale(c) \/ LeafInsertRight(c) \/ LeafUpdateRight(c)
         \/ LeafSearchStale(c) \/ InternalInsertStale(c) \/ InternalInsertRight(c)
  PROVE  Quiet(c) /\ mem' = mem /\ top' = top
<1>0. cl[c] \in Locals
  BY Parts
<1>1. CASE LockNode(c)
  <2>1. PICK x \in {"leaf_insert", "leaf_update", "internal_insert"} :
          /\ cl'[c] = [cl[c] EXCEPT !.pc = x]
          /\ \A d \in Clients \ {c} : cl'[d] = cl[d]
    BY <1>1, BecomeIs DEF LockNode
  <2> QED BY <1>0, <1>1, <2>1 DEF LockNode, Quiet, Locals
<1>2. CASE LeafStale(c)
  <2>1. /\ cl'[c] = [cl[c] EXCEPT !.pc = "lookup"]
        /\ \A d \in Clients \ {c} : cl'[d] = cl[d]
    BY <1>2, BecomeIs DEF LeafStale
  <2> QED BY <1>0, <1>2, <2>1 DEF LeafStale, Quiet, Locals
<1>3. CASE LeafInsertRight(c)
  <2>1. /\ cl'[c] = [cl[c] EXCEPT !.pc = "next", !.p = SibOf(mem[cl[c].p]),
                                  !.sibp = Null]
        /\ \A d \in Clients \ {c} : cl'[d] = cl[d]
    BY <1>3, BecomeIs DEF LeafInsertRight
  <2> QED BY <1>0, <1>3, <2>1 DEF LeafInsertRight, Quiet, Locals
<1>4. CASE LeafUpdateRight(c)
  <2>1. /\ cl'[c] = [cl[c] EXCEPT !.pc = "next", !.p = SibOf(mem[cl[c].p])]
        /\ \A d \in Clients \ {c} : cl'[d] = cl[d]
    BY <1>4, BecomeIs DEF LeafUpdateRight
  <2> QED BY <1>0, <1>4, <2>1 DEF LeafUpdateRight, Quiet, Locals
<1>5. CASE LeafSearchStale(c)
  <2>1. /\ cl'[c] = [cl[c] EXCEPT !.pc = "lookup"]
        /\ \A d \in Clients \ {c} : cl'[d] = cl[d]
    BY <1>5, BecomeIs DEF LeafSearchStale
  <2> QED BY <1>0, <1>5, <2>1 DEF LeafSearchStale, SearchingLeaf, Quiet, Locals
<1>6. CASE InternalInsertStale(c)
  <2>1. /\ cl'[c] = [cl[c] EXCEPT !.pc = "ii_root"]
        /\ \A d \in Clients \ {c} : cl'[d] = cl[d]
    BY <1>6, BecomeIs DEF InternalInsertStale
  <2> QED BY <1>0, <1>6, <2>1 DEF InternalInsertStale, Quiet, Locals
<1>7. CASE InternalInsertRight(c)
  <2>1. /\ cl'[c] = [cl[c] EXCEPT !.pc = "lock_internal", !.p = SibOf(mem[cl[c].p])]
        /\ \A d \in Clients \ {c} : cl'[d] = cl[d]
    BY <1>7, BecomeIs DEF InternalInsertRight
  <2> QED BY <1>0, <1>7, <2>1 DEF InternalInsertRight, Quiet, Locals
<1> QED BY <1>1, <1>2, <1>3, <1>4, <1>5, <1>6, <1>7

\* Carrying a separator up, and writing the right half of a leaf.
LEMMA CarryQuiet ==
  ASSUME TreeInv, NEW low, RangeInv(low), NEW c \in Clients,
         \/ LeafSplitSibling(c) \/ InternalInsertWrite(c) \/ InternalSplitSibling(c)
         \/ InternalSplitCommit(c) \/ NewRoot(c)
  PROVE  Quiet(c)
<1>0. cl[c] \in Locals /\ TypeOK /\ Effect(c) /\ cl[c].tl \in Nat
  BY Here, Parts
<1>1. CASE LeafSplitSibling(c)
  <2>1. PICK m : Become(c, [cl[c] EXCEPT !.pc = "leaf_split", !.nsk = m + 1,
                                         !.nsp = top + 1])
    BY <1>1 DEF LeafSplitSibling
  <2>2. /\ cl'[c] = [cl[c] EXCEPT !.pc = "leaf_split", !.nsk = m + 1, !.nsp = top + 1]
        /\ \A d \in Clients \ {c} : cl'[d] = cl[d]
    BY <1>0, <2>1, BecomeIs
  <2> QED BY <1>0, <1>1, <2>2 DEF LeafSplitSibling, InsertHere, Quiet, Locals
<1>2. CASE InternalInsertWrite(c)
  <2>1. /\ cl'[c] = [cl[c] EXCEPT !.pc = "done"]
        /\ \A d \in Clients \ {c} : cl'[d] = cl[d]
    BY <1>0, <1>2, BecomeIs DEF InternalInsertWrite
  <2> QED BY <1>0, <1>2, <2>1 DEF InternalInsertWrite, SeparatorFits, Quiet, Locals
<1>3. CASE InternalSplitSibling(c)
  <2>1. PICK m : Become(c, [cl[c] EXCEPT !.pc = "internal_split", !.nsk = m,
                                         !.nsp = top + 1])
    BY <1>3 DEF InternalSplitSibling
  <2>2. /\ cl'[c] = [cl[c] EXCEPT !.pc = "internal_split", !.nsk = m, !.nsp = top + 1]
        /\ \A d \in Clients \ {c} : cl'[d] = cl[d]
    BY <1>0, <2>1, BecomeIs
  <2> QED BY <1>0, <1>3, <2>2 DEF InternalSplitSibling, SeparatorFits, Quiet, Locals
<1>4. CASE InternalSplitCommit(c)
  <2>1. /\ ToParent(c, cl[c].tl + 1) \/ ToNewRoot(c, cl[c].tl + 1)
        /\ cl[c].tl + 1 \in Nat /\ cl[c].pc = "internal_split"
    BY <1>0, <1>4 DEF InternalSplitCommit
  <2>2. cl[c].lin = TRUE
    BY <1>0, <2>1 DEF Effect, Upward, Locals
  <2>3. /\ cl'[c].pc \in {"newroot", "ii_root", "lock_internal"}
        /\ cl'[c].lin = TRUE /\ cl'[c].op = cl[c].op /\ cl'[c].ret = cl[c].ret
        /\ cl'[c].k = cl[c].k /\ cl'[c].v = cl[c].v
        /\ \A d \in Clients \ {c} : cl'[d] = cl[d]
    BY <2>1, ToParentFields
  <2> QED BY <2>1, <2>2, <2>3 DEF Quiet
<1>5. CASE NewRoot(c)
  <2>1. \/ cl'[c] = [cl[c] EXCEPT !.pc = "done"]
        \/ cl'[c] = [cl[c] EXCEPT !.pc = "ii_next", !.p = root.ptr,
                                  !.sibp = Null, !.level = root.level, !.fc = FALSE]
    BY <1>0, <1>5, BecomeIs DEF NewRoot
  <2>2. \A d \in Clients \ {c} : cl'[d] = cl[d]
    BY <1>0, <1>5, BecomeIs DEF NewRoot
  <2> QED BY <1>0, <1>5, <2>1, <2>2 DEF NewRoot, Quiet, Locals
<1> QED BY <1>1, <1>2, <1>3, <1>4, <1>5

-----------------------------------------------------------------------------
(* Steps in which an operation takes effect *)

\* An insert or an update does so with the write that releases the leaf.
LEMMA WriteTakesEffect ==
  ASSUME TreeInv, TypeOK', NEW low, RangeInv(low), NEW c \in Clients,
         LeafInsertWrite(c) \/ LeafUpdateWrite(c) \/ LeafSplitCommit(c)
  PROVE  Effective(c)
<1>0. cl[c] \in Locals /\ TypeOK /\ Effect(c)
  BY Here
<1>1. Preserved(low, low) /\ PutStore(c)
  BY LeafWriteKeeps, LeafSplitCommitKeeps
<1>2. AbsStore' = [AbsStore EXCEPT ![cl[c].k] = cl[c].v]
  BY <1>0, <1>1, PutStorePuts DEF Preserved
<1>3. /\ cl[c].pc \in {"leaf_insert", "leaf_update", "leaf_split"}
      /\ cl[c].lin = FALSE /\ cl[c].op # "search"
  <2>1. cl[c].pc \in {"leaf_insert", "leaf_update", "leaf_split"}
    BY DEF LeafInsertWrite, InsertHere, LeafUpdateWrite, LeafSplitCommit
  <2> QED BY <1>0, <2>1 DEF Effect, Locals
<1>4. /\ cl'[c].pc # "idle" /\ cl'[c].lin = TRUE /\ cl'[c].op = cl[c].op
      /\ cl'[c].ret = cl[c].ret /\ cl'[c].k = cl[c].k /\ cl'[c].v = cl[c].v
      /\ \A d \in Clients \ {c} : cl'[d] = cl[d]
  <2>1. CASE LeafInsertWrite(c) \/ LeafUpdateWrite(c)
    <3>1. /\ cl'[c] = [cl[c] EXCEPT !.pc = "done", !.lin = TRUE]
          /\ \A d \in Clients \ {c} : cl'[d] = cl[d]
      BY <1>0, <2>1, BecomeIs DEF LeafInsertWrite, LeafUpdateWrite
    <3> QED BY <1>0, <3>1 DEF Locals
  <2>2. CASE LeafSplitCommit(c)
    <3>1. ToParent(c, 1) \/ ToNewRoot(c, 1)
      BY <2>2 DEF LeafSplitCommit
    <3> QED BY <3>1, ToParentFields
  <2> QED BY <2>1, <2>2
<1> QED BY <1>2, <1>3, <1>4 DEF Effective

\* A search does so when it finds its key, or when it reads the leaf that owns
\* its key and the key is not there.
LEMMA SearchTakesEffect ==
  ASSUME TreeInv, NEW low, RangeInv(low), NEW c \in Clients,
         LeafSearchFound(c) \/ LeafSearchOn(c)
  PROVE  Effective(c) \/ (Quiet(c) /\ AbsStore' = AbsStore)
<1>0. /\ cl[c] \in Locals /\ TypeOK /\ Effect(c) /\ Guided(low, c)
      /\ cl[c].k \in UserKeys /\ cl[c].k \in Keys /\ cl[c].lin \in BOOLEAN
  BY Here, MapKeys DEF Locals
<1>1. /\ cl[c].pc = "next" /\ cl[c].op = "search" /\ LeafLevel(c) /\ cl[c].p \in Addrs
      /\ mem' = mem /\ top' = top
  BY DEF LeafSearchFound, LeafSearchOn, SearchingLeaf, LeafLevel
<1>2. AbsStore' = AbsStore
  BY <1>1, ReadKeepsMap
<1>3. /\ Settled(cl[c].p) /\ (cl[c].lin <=> cl[c].k < low[cl[c].p])
      /\ cl[c].ret = kValueNull
  <2>1. cl[c].p # Null
    BY <1>1 DEF Null, Addrs
  <2> QED BY <1>0, <1>1, <2>1 DEF Guided, Effect
<1>4. CASE LeafSearchFound(c)
  <2>1. /\ cl'[c] = [cl[c] EXCEPT !.pc = "done", !.ret = mem[cl[c].p].kv[cl[c].k],
                                  !.lin = TRUE]
        /\ \A d \in Clients \ {c} : cl'[d] = cl[d]
    BY <1>0, <1>4, BecomeIs DEF LeafSearchFound
  <2>2. /\ cl'[c].pc = "done" /\ cl'[c].lin = TRUE /\ cl'[c].op = cl[c].op
        /\ cl'[c].k = cl[c].k /\ cl'[c].v = cl[c].v
        /\ cl'[c].ret = mem[cl[c].p].kv[cl[c].k]
    BY <1>0, <2>1 DEF Locals
  <2>3. cl[c].k \in Present(mem[cl[c].p].kv)
    BY <1>4 DEF LeafSearchFound
  <2>4. cl[c].lin = FALSE
    <3>1. low[cl[c].p] <= cl[c].k /\ low[cl[c].p] \in Nat /\ cl[c].k \in Nat
      BY <1>0, <1>3, <2>3, LeafFacts DEF Keys
    <3> QED BY <1>0, <1>3, <3>1
  <2>5. Holds(cl[c].k, mem[cl[c].p].kv[cl[c].k])
    BY <1>1, <1>3, <2>3 DEF Holds
  <2>6. AbsStore[cl[c].k] = mem[cl[c].p].kv[cl[c].k]
    BY <1>0, <2>5, StoreFactsHold DEF StoreFacts
  <2> QED BY <1>1, <1>2, <2>1, <2>2, <2>4, <2>6 DEF Effective
<1>5. CASE LeafSearchOn(c)
  <2> DEFINE After ==
        /\ cl'[c].pc # "idle" /\ cl'[c].op = cl[c].op /\ cl'[c].ret = cl[c].ret
        /\ cl'[c].k = cl[c].k /\ cl'[c].v = cl[c].v
        /\ cl'[c].lin = (cl[c].lin \/ Owns(cl[c].p, cl[c].k))
        /\ \A d \in Clients \ {c} : cl'[d] = cl[d]
  <2> HIDE DEF After
  <2>1. ASSUME Become(c, [cl[c] EXCEPT !.pc = "done",
                                       !.lin = @ \/ Owns(cl[c].p, cl[c].k)])
        PROVE  After
    <3>1. /\ cl'[c] = [cl[c] EXCEPT !.pc = "done",
                                    !.lin = cl[c].lin \/ Owns(cl[c].p, cl[c].k)]
          /\ \A d \in Clients \ {c} : cl'[d] = cl[d]
      BY <1>0, <2>1, BecomeIs
    <3> QED BY <1>0, <3>1 DEF After, Locals
  <2>a. ASSUME Become(c, [cl[c] EXCEPT !.p = SibOf(mem[cl[c].p]),
                                       !.lin = @ \/ Owns(cl[c].p, cl[c].k)])
        PROVE  After
    <3>1. /\ cl'[c] = [cl[c] EXCEPT !.p = SibOf(mem[cl[c].p]),
                                    !.lin = cl[c].lin \/ Owns(cl[c].p, cl[c].k)]
          /\ \A d \in Clients \ {c} : cl'[d] = cl[d]
      BY <1>0, <2>a, BecomeIs
    <3> QED BY <1>0, <1>1, <3>1 DEF After, Locals
  <2>2. After
    BY <1>5, <2>1, <2>a DEF LeafSearchOn
  <2>3. CASE cl[c].lin \/ ~Owns(cl[c].p, cl[c].k)
    <3>1. cl'[c].lin = cl[c].lin
      BY <1>0, <2>2, <2>3 DEF After
    <3> QED BY <1>1, <1>2, <2>2, <3>1 DEF Quiet, After
  <2>4. CASE ~cl[c].lin /\ Owns(cl[c].p, cl[c].k)
    <3>1. low[cl[c].p] <= cl[c].k /\ cl[c].k < End(low, cl[c].p)
      BY <1>0, <2>4, OwnsRange
    <3>2. cl[c].k \notin Present(mem[cl[c].p].kv)
      BY <1>5 DEF LeafSearchOn
    <3>3. \A b : Settled(b) => cl[c].k \notin Present(mem[b].kv)
      BY <1>0, <1>3, <3>1, <3>2, OneHolder
    <3>4. AbsStore[cl[c].k] = kValueNull
      BY <1>0, <3>3, StoreFactsHold DEF StoreFacts, Holds
    <3>5. cl[c].lin = FALSE /\ cl'[c].lin = TRUE
      BY <1>0, <2>2, <2>4 DEF After
    <3> QED BY <1>1, <1>2, <1>3, <2>2, <3>4, <3>5 DEF Effective, After
  <2> QED BY <1>0, <2>3, <2>4
<1> QED BY <1>4, <1>5

-----------------------------------------------------------------------------
(* Invocation and response *)

\* Start invokes an operation.
LEMMA StartInvokes ==
  ASSUME TreeInv, NEW low, RangeInv(low), NEW c \in Clients, Start(c)
  PROVE  KV!Invoke(c)
<1>a. PICK o : o = Head(todo[c])
  OBVIOUS
<1>0. TypeOK /\ Effect(c) /\ cl[c].pc = "idle" /\ cl[c] = IdleLocals
  BY Here DEF Start, Effect
<1>1. o \in Ops
  <2>1. todo[c] \in Seq(Ops \cup {BarrierOp}) /\ todo[c] # <<>> /\ o # BarrierOp
    BY <1>0, <1>a DEF TypeOK, Start
  <2>2. Head(todo[c]) \in Ops \cup {BarrierOp}
    BY <2>1, ProgramParts
  <2> QED BY <1>a, <2>1, <2>2
<1>2. /\ cl'[c] = [IdleLocals EXCEPT !.pc = "lookup", !.op = o.op, !.k = o.k, !.v = o.v]
      /\ \A d \in Clients \ {c} : cl'[d] = cl[d]
  BY <1>0, <1>a, BecomeIs DEF Start
<1>3. /\ cl'[c].pc = "lookup" /\ cl'[c].lin = FALSE /\ cl'[c].ret = kValueNull
      /\ cl'[c].op = o.op /\ cl'[c].k = o.k /\ cl'[c].v = o.v
      /\ cl[c].ret = kValueNull
  BY <1>0, <1>2 DEF IdleLocals
<1>4. AbsStore' = AbsStore
  BY ReadKeepsMap DEF Start
<1>5. Status[c] = "idle" /\ Status' = [Status EXCEPT ![c] = "pending"]
  <2>1. Status[c] = "idle" /\ Status'[c] = "pending"
    BY <1>0, <1>3 DEF Status
  <2>2. \A d \in Clients : d # c => Status'[d] = Status[d]
    BY <1>2 DEF Status
  <2>3. /\ Status = [d \in Clients |-> Status[d]]
        /\ Status' = [d \in Clients |-> Status'[d]]
    BY DEF Status
  <2> QED BY <2>1, <2>2, <2>3
<1>6. Answer' = Answer
  <2>1. ASSUME NEW d \in Clients PROVE cl'[d].ret = cl[d].ret
    BY <1>2, <1>3
  <2> QED BY <2>1 DEF Answer
<1>7. PICK r : r = [op |-> o.op, k |-> o.k, v |-> o.v]
  OBVIOUS
<1>8. r \in KV!Requests
  BY <1>1, <1>7 DEF KV!Requests, Ops
<1>9. Request' = [Request EXCEPT ![c] = r]
  <2>1. Request'[c] = r
    BY <1>3, <1>7 DEF Request
  <2>2. \A d \in Clients : d # c => Request'[d] = Request[d]
    BY <1>2 DEF Request
  <2>3. /\ Request = [d \in Clients |-> Request[d]]
        /\ Request' = [d \in Clients |-> Request'[d]]
    BY DEF Request
  <2> QED BY <2>1, <2>2, <2>3
<1> QED BY <1>4, <1>5, <1>6, <1>8, <1>9 DEF KV!Invoke, Status, Request, Answer

\* Finish responds: every operation that is done has taken effect.
LEMMA FinishResponds ==
  ASSUME TreeInv, NEW low, RangeInv(low), NEW c \in Clients, Finish(c)
  PROVE  KV!Respond(c)
<1>0. TypeOK /\ Effect(c) /\ cl[c].pc = "done"
  BY Here DEF Finish
<1>1. cl'[c] = IdleLocals /\ \A d \in Clients \ {c} : cl'[d] = cl[d]
  BY <1>0, BecomeIs DEF Finish
<1>2. AbsStore' = AbsStore
  BY ReadKeepsMap DEF Finish
<1>3. Status[c] = "done" /\ Status' = [Status EXCEPT ![c] = "idle"]
  <2>1. Status[c] = "done" /\ Status'[c] = "idle"
    BY <1>0, <1>1 DEF Status, Effect, IdleLocals
  <2>2. \A d \in Clients : d # c => Status'[d] = Status[d]
    BY <1>1 DEF Status
  <2>3. /\ Status = [d \in Clients |-> Status[d]]
        /\ Status' = [d \in Clients |-> Status'[d]]
    BY DEF Status
  <2> QED BY <2>1, <2>2, <2>3
<1>4. Answer' = [Answer EXCEPT ![c] = kValueNull]
  <2>1. Answer'[c] = kValueNull
    BY <1>1 DEF Answer, IdleLocals
  <2>2. \A d \in Clients : d # c => Answer'[d] = Answer[d]
    BY <1>1 DEF Answer
  <2>3. /\ Answer = [d \in Clients |-> Answer[d]]
        /\ Answer' = [d \in Clients |-> Answer'[d]]
    BY DEF Answer
  <2> QED BY <2>1, <2>2, <2>3
<1>5. Request' = [Request EXCEPT ![c] = KV!NoRequest]
  <2>1. Request'[c] = KV!NoRequest
    BY <1>1 DEF Request, IdleLocals, KV!NoRequest
  <2>2. \A d \in Clients : d # c => Request'[d] = Request[d]
    BY <1>1 DEF Request
  <2>3. /\ Request = [d \in Clients |-> Request[d]]
        /\ Request' = [d \in Clients |-> Request'[d]]
    BY DEF Request
  <2> QED BY <2>1, <2>2, <2>3
<1> QED BY <1>2, <1>3, <1>4, <1>5 DEF KV!Respond, Status, Request, Answer

-----------------------------------------------------------------------------
(* The tree implements the map *)

\* The empty tree is the empty map: the ghost key is not a user's.
LEMMA InitMap == Init => KV!MapInit
<1> SUFFICES ASSUME Init PROVE KV!MapInit
  OBVIOUS
<1>1. \A c \in Clients : cl[c] = IdleLocals
  BY DEF Init
<1>2. AbsStore = [j \in UserKeys |-> kValueNull]
  <2>1. ASSUME NEW a \in LinkedLeaves, NEW j \in UserKeys
        PROVE  j \notin Present(mem[a].kv)
    <3>1. a = 1 /\ 1 \in Addrs
      BY TreeConstants DEF Init, LinkedLeaves, Addrs
    <3>2. mem[1] = [ZeroNode EXCEPT !.sib = Widest, !.kv[KeyMax] = kValueNull]
      BY <3>1 DEF Init
    <3>3. j # KeyMax
      BY TreeConstants DEF UserKeys
    <3> QED BY <3>1, <3>2, <3>3 DEF ZeroNode, Present
  <2> QED BY <2>1 DEF AbsStore
<1>3. Status = [c \in Clients |-> "idle"]
  BY <1>1 DEF Status, IdleLocals
<1>4. Request = [c \in Clients |-> KV!NoRequest]
  BY <1>1 DEF Request, IdleLocals, KV!NoRequest
<1>5. Answer = [c \in Clients |-> kValueNull]
  BY <1>1 DEF Answer, IdleLocals
<1> QED BY <1>2, <1>3, <1>4, <1>5 DEF KV!MapInit, Status, Request, Answer

\* Every step of the tree is a step of the map or one it does not see.
LEMMA StepMap ==
  ASSUME IndexInv, [Next]_vars
  PROVE  [KV!MapNext]_(KV!mapVars)
<1>1. PICK low : RangeInv(low)
  BY DEF IndexInv
<1>0. TreeInv /\ TypeOK /\ TypeOK'
  BY StepInv DEF IndexInv, TreeInv
<1>2. PICK new : RangeInv(new)'
  BY <1>0, <1>1, StepRange DEF Preserved
<1>3. ASSUME NEW c \in Clients, Step(c)
      PROVE  \/ KV!Invoke(c) \/ KV!TakeEffect(c) \/ KV!Respond(c)
             \/ UNCHANGED KV!mapVars
  <2>1. CASE Start(c)
    BY <1>0, <1>1, <2>1, StartInvokes
  <2>2. CASE Finish(c)
    BY <1>0, <1>1, <2>2, FinishResponds
  <2>3. CASE Traverse(c)
    <3>1. Quiet(c) /\ AbsStore' = AbsStore
      BY <1>0, <2>3, TraverseQuiet, ReadKeepsMap
    <3> QED BY <3>1, QuietStutters
  <2>4. CASE \/ LockNode(c) \/ LeafStale(c) \/ LeafInsertRight(c)
             \/ LeafUpdateRight(c) \/ LeafSearchStale(c) \/ InternalInsertStale(c)
             \/ InternalInsertRight(c)
    <3>1. Quiet(c) /\ AbsStore' = AbsStore
      BY <1>0, <2>4, LeaveQuiet, ReadKeepsMap
    <3> QED BY <3>1, QuietStutters
  <2>5. CASE \/ LeafSplitSibling(c) \/ InternalInsertWrite(c)
             \/ InternalSplitSibling(c) \/ InternalSplitCommit(c) \/ NewRoot(c)
    <3>1. SameStore
      BY <1>0, <1>1, <2>5, LeafSplitSiblingKeeps, InternalInsertWriteKeeps,
         InternalSplitSiblingKeeps, InternalSplitCommitKeeps, NewRootKeeps
    <3>2. AbsStore' = AbsStore
      BY <1>0, <1>1, <1>2, <3>1, SameStoreSameMap
    <3>3. Quiet(c)
      BY <1>0, <1>1, <2>5, CarryQuiet
    <3> QED BY <3>2, <3>3, QuietStutters
  <2>6. CASE LeafInsertWrite(c) \/ LeafUpdateWrite(c) \/ LeafSplitCommit(c)
    <3>1. Effective(c)
      BY <1>0, <1>1, <2>6, WriteTakesEffect
    <3> QED BY <3>1, EffectiveTakesEffect
  <2>7. CASE LeafSearchFound(c) \/ LeafSearchOn(c)
    <3>1. Effective(c) \/ (Quiet(c) /\ AbsStore' = AbsStore)
      BY <1>0, <1>1, <2>7, SearchTakesEffect
    <3> QED BY <3>1, EffectiveTakesEffect, QuietStutters
  <2> QED BY <1>3, <2>1, <2>2, <2>3, <2>4, <2>5, <2>6, <2>7
          DEF Step, LeafStep, ParentStep
<1>4. ASSUME cl' = cl, mem' = mem, top' = top PROVE UNCHANGED KV!mapVars
  <2>1. AbsStore' = AbsStore
    BY <1>4, ReadKeepsMap
  <2> QED BY <1>4, <2>1 DEF KV!mapVars
<1>5. CASE Barrier
  BY <1>4, <1>5 DEF Barrier
<1>6. CASE UNCHANGED vars
  BY <1>4, <1>6 DEF vars
<1> QED BY <1>3, <1>5, <1>6 DEF Next, Terminated, KV!MapNext

\* insert, update and search are linearizable, for any number of clients,
\* compute nodes, keys and nodes of the tree and for any workload: whatever
\* splits, stale cache entries and stale paths an operation meets, it takes
\* effect at one instant between its invocation and its response.
THEOREM TreeImplementsMap == Spec => Linearizable
BY InitIndex, StepIndex, InitMap, StepMap, PTL DEF Spec, Linearizable, KV!MapSpec
=============================================================================
