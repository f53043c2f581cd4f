----------------------------- MODULE ChimeTree -----------------------------
(***************************************************************************)
(* The one-sided B-link tree protocol of src/Tree.cpp, with the internal-  *)
(* node cache of include/TreeCache.h.  Compute-side clients (coroutines)   *)
(* traverse nodes that live in remote memory, lock at most one node at a   *)
(* time, split nodes to the right and then insert the separator into the   *)
(* parent without holding any lock.                                        *)
(*                                                                         *)
(* A read of one node is atomic here; the version and hop-bitmap checks    *)
(* that make it so are not part of this module.  A leaf is the set of its  *)
(* pairs: where hopscotch hashing puts them is abstracted to when an       *)
(* insertion may and when it must split (HopFailAt, LeafSpan).  Module     *)
(* HopscotchLeaf is about the inside of a leaf.                            *)
(***************************************************************************)
EXTENDS Naturals, Sequences, FiniteSets

CONSTANTS
  Clients,       \* application coroutines
  CNs,           \* compute nodes; one TreeCache each
  CnOf,          \* the compute node a client runs on
  Workloads,     \* the programs the clients may be given
  Vals,          \* values
  kValueNull,    \* define::kValueNull
  Absent,        \* marks a key that has no record in a leaf
  NoNode,        \* an invalidated cache entry's pointer (nullptr)
  KeyMax,        \* the ghost key 0xff..fe, largest key of the rightmost leaf
  MaxAddr,       \* bound: nodes the memory pool has room for
  MaxHeight,     \* MAX_TREE_HEIGHT
  LeafSpan,      \* define::leafSpanSize
  HopFailAt,     \* least occupancy at which a hopscotch insertion can fail
  InternalSpan,  \* define::internalSpanSize
  CacheCap       \* entries of a TreeCache before evict() runs

ASSUME TreeConstants ==
  /\ CnOf \in [Clients -> CNs]
  /\ KeyMax \in Nat /\ KeyMax > 1
  /\ MaxAddr \in Nat /\ MaxAddr > 0
  /\ MaxHeight \in Nat
  /\ LeafSpan \in Nat /\ LeafSpan > 0
  /\ HopFailAt \in 1..LeafSpan
  /\ InternalSpan \in Nat /\ InternalSpan > 2
  /\ CacheCap \in Nat
  /\ Absent \notin Vals \cup {kValueNull}

-----------------------------------------------------------------------------
Null == 0                             \* GlobalAddress::Null()
Addrs == 1..MaxAddr
AddrOrNull == 0..MaxAddr
Widest == MaxAddr + 1                 \* GlobalAddress::Widest(), the root tag
Keys == 1..KeyMax
UserKeys == 1..(KeyMax - 1)
Fences == 1..(KeyMax + 1)             \* FenceKeys bounds; KeyMax + 1 is 0xff..ff

Ops == [op : {"insert", "update", "search"}, k : UserKeys,
        v : Vals \cup {kValueNull}]
\* The load and run phases of the benchmark are separated by DSM::barrier.
BarrierOp == [op |-> "barrier", k |-> 1, v |-> kValueNull]

ASSUME WorkloadsAssumption ==
  Workloads \subseteq [Clients -> Seq(Ops \cup {BarrierOp})]

(***************************************************************************)
(* A node of either kind.  kv: leaf records; recs: separator -> child of   *)
(* an internal node; [lo, hi): its fence keys.  Leaves are level 0.  The   *)
(* valid flag is left out: every constructor sets it and nothing clears it.*)
(***************************************************************************)
Node == [level : Nat, kv : [Keys -> Vals \cup {kValueNull, Absent}],
         recs : [Keys -> AddrOrNull], leftmost : AddrOrNull,
         sib : 0..(MaxAddr + 1), sibleft : AddrOrNull,
         lo : Fences, hi : Fences]

ZeroNode == [level |-> 0, kv |-> [k \in Keys |-> Absent],
             recs |-> [k \in Keys |-> Null], leftmost |-> Null,
             sib |-> Null, sibleft |-> Null, lo |-> 1, hi |-> KeyMax + 1]

\* A TreeCache entry: a copy of a node under its fence range.
Entry == [lo : Fences, hi : Fences, node : Node \cup {NoNode}]

PCs == {"idle", "lookup", "root", "next", "leaf_insert", "leaf_update",
        "leaf_split", "newroot", "ii_root", "ii_next", "lock_internal",
        "internal_insert", "internal_split", "done"}

Critical == {"leaf_insert", "leaf_update", "leaf_split", "internal_insert",
             "internal_split"}

VARIABLES
  mem,     \* the nodes
  locked,  \* bit 63 of each node's lock word
  root,    \* RootEntry: the level above the root node, and its address
  top,     \* nodes allocated so far
  cache,   \* per compute node: set of TreeCache entries
  todo,    \* per client: the operations still to be issued
  cl       \* per client: the locals of its current operation

vars == <<mem, locked, root, top, cache, todo, cl>>

\* The locals of insert / update / search and of the calls below them:
\*   p, sibp, level, fc, ent   node_addr, sibling_addr, level, from_cache,
\*                             cache_entry
\*   sk, sp, tl                separator, pointer and level being inserted
\*                             into a parent
\*   nsk, nsp                  the same for the node this client is splitting
\*   path                      path_stack
\*   ret                       v of search;  lin: the operation took effect
Locals == [pc : PCs, op : {"insert", "update", "search"}, k : UserKeys,
           v : Vals \cup {kValueNull}, p : AddrOrNull, sibp : AddrOrNull,
           level : Nat, fc : BOOLEAN, lo : Fences, hi : Fences,
           sk : Keys, sp : AddrOrNull, tl : Nat, nsk : Keys,
           nsp : AddrOrNull, path : [1..MaxHeight -> AddrOrNull],
           ret : Vals \cup {kValueNull}, lin : BOOLEAN]

NullPath == [i \in 1..MaxHeight |-> Null]

IdleLocals == [pc |-> "idle", op |-> "search", k |-> 1, v |-> kValueNull,
               p |-> Null, sibp |-> Null, level |-> 0, fc |-> FALSE,
               lo |-> 1, hi |-> 1, sk |-> 1, sp |-> Null, tl |-> 0,
               nsk |-> 1, nsp |-> Null, path |-> NullPath,
               ret |-> kValueNull, lin |-> FALSE]

\* Nodes, lock words, root pointer, cached copies and the local variables of
\* every operation keep their types: no step of Tree.cpp leaves a pointer,
\* level or key outside its range.
TypeOK ==
  /\ mem \in [Addrs -> Node]
  /\ locked \in [Addrs -> BOOLEAN]
  /\ root \in [level : Nat, ptr : Addrs]
  /\ top \in Addrs
  /\ cache \in [CNs -> SUBSET Entry]
  /\ todo \in [Clients -> Seq(Ops \cup {BarrierOp})]
  /\ cl \in [Clients -> Locals]

WriteNode(a, n) == mem' = [mem EXCEPT ![a] = n]

\* Client c's locals after a step of its own.
Become(c, l) == cl' = [cl EXCEPT ![c] = l]

-----------------------------------------------------------------------------
(* Nodes *)

Present(kv) == {k \in Keys : kv[k] # Absent}
Seps(n) == {k \in Keys : n.recs[k] # Null}

\* Mutant: the root tag is taken for an address.
SibOfTagged(n) == n.sib

\* The address a leaf's sibling pointer stands for once the root tag is off.
SibOf(n) == IF n.sib = Widest THEN Null ELSE n.sib

LeafIsRoot(n) == n.sib = Widest
InternalIsRoot(n) == n.lo = 1 /\ n.hi = KeyMax + 1

\* Mutant: binary search one too far to the right.
IsFloorOffByOne(n, k, s) ==
  /\ s = 0 \/ (s \in Seps(n) /\ s <= k + 1)
  /\ \A t \in Seps(n) : t <= k + 1 => t <= s

\* s is the last separator of n that is <= k (0: none, leftmost_ptr is taken)
IsFloor(n, k, s) ==
  /\ s = 0 \/ (s \in Seps(n) /\ s <= k)
  /\ \A t \in Seps(n) : t <= k => t <= s

\* t is the next separator after k (KeyMax + 1: none, k is under the last one)
IsCeiling(n, k, t) ==
  /\ t = KeyMax + 1 \/ (t \in Seps(n) /\ t > k)
  /\ \A u \in Seps(n) : u > k => t <= u

\* A record overwritten or added; a separator added.
WithRecord(n, k, v) == [n EXCEPT !.kv[k] = v]
WithSeparator(n, k, a) == [n EXCEPT !.recs[k] = a]

\* Mutant: the moved records stay.
LeftLeafKeeps(n, s, a) == [n EXCEPT !.sib = a]

\* The halves of a split leaf: the sibling takes the records from s on and the
\* old sibling pointer without its root tag.
RightLeaf(n, s) ==
  [ZeroNode EXCEPT !.sib = SibOf(n),
     !.kv = [j \in Keys |-> IF j >= s THEN n.kv[j] ELSE Absent]]
LeftLeaf(n, s, a) ==
  [n EXCEPT !.sib = a,
     !.kv = [j \in Keys |-> IF j < s THEN n.kv[j] ELSE Absent]]

\* Mutant: the leftmost child is not taken over.
RightInternalLeftmost(n, m, l) ==
  [ZeroNode EXCEPT !.level = l, !.lo = m, !.hi = n.hi, !.leftmost = n.leftmost,
     !.sib = SibOf(n), !.sibleft = n.sibleft,
     !.recs = [j \in Keys |-> IF j > m THEN n.recs[j] ELSE Null]]

\* The halves of a split internal node: separator m goes up and its child
\* becomes the sibling's leftmost.
RightInternal(n, m, l) ==
  [ZeroNode EXCEPT !.level = l, !.lo = m, !.hi = n.hi, !.leftmost = n.recs[m],
     !.sib = SibOf(n), !.sibleft = n.sibleft,
     !.recs = [j \in Keys |-> IF j > m THEN n.recs[j] ELSE Null]]
LeftInternal(n, m, a) ==
  [n EXCEPT !.hi = m, !.sib = a, !.sibleft = n.recs[m],
     !.recs = [j \in Keys |-> IF j < m THEN n.recs[j] ELSE Null]]

RootOver(l, a, k, b) ==
  WithSeparator([ZeroNode EXCEPT !.level = l, !.leftmost = a], k, b)

ChildAt(n, s) == IF s = 0 THEN n.leftmost ELSE n.recs[s]
NextAt(n, t) == IF t = KeyMax + 1 THEN n.sibleft ELSE n.recs[t]

-----------------------------------------------------------------------------
(* TreeCache *)

Live(cn) == {e \in cache[cn] : e.node # NoNode}

\* Skip-list order: by upper bound, then the narrower range first.
Before(e, f) == e.hi < f.hi \/ (e.hi = f.hi /\ e.lo >= f.lo)

\* seek_entry: the first live entry at or after k, if it surrounds k.
CacheHits(cn, k) ==
  {e \in Live(cn) : /\ e.lo <= k /\ k < e.hi
                    /\ \A f \in Live(cn) : f.hi > k => Before(e, f)}

\* search_ptr_from_cache: the first live entry of level l + 1, as long as
\* every entry passed on the way, invalidated ones too, surrounds k.
CachePtrHits(cn, k, l) ==
  {e \in Live(cn) :
     /\ e.node.level = l + 1
     /\ \A f \in cache[cn] : f.hi > k /\ Before(f, e) => f.lo <= k
     /\ \A f \in Live(cn) : f.hi > k /\ Before(f, e) /\ f.node.level = l + 1
                              => f = e
     /\ e.lo <= k /\ k < e.hi}

InvalidateIn(es, lo, hi) ==
  {IF e.lo = lo /\ e.hi = hi THEN [e EXCEPT !.node = NoNode] ELSE e : e \in es}

\* Mutant: a stale entry stays.
InvalidateNothing(c) == cache' = cache

\* invalidate(cache_entry): whatever node the entry holds by now is dropped.
Invalidate(c) ==
  cache' = [cache EXCEPT ![CnOf[c]] = InvalidateIn(@, cl[c].lo, cl[c].hi)]

\* add_to_cache replaces the entry of the same range.  A new entry is counted
\* against the size; when the size was already overrun before it came,
\* evict() drops sampled entries until it no longer is.
AddToCache(c, n) ==
  LET cn == CnOf[c]
      old == {e \in Live(cn) : e.lo = n.lo /\ e.hi = n.hi}
      added == {e \in cache[cn] : e.lo # n.lo \/ e.hi # n.hi}
                 \cup {[lo |-> n.lo, hi |-> n.hi, node |-> n]}
      live == {e \in added : e.node # NoNode}
  IN IF old # {} \/ Cardinality(Live(cn)) <= CacheCap
       THEN cache' = [cache EXCEPT ![cn] = added]
       ELSE \E keep \in SUBSET live :
              /\ Cardinality(keep) = CacheCap
              /\ cache' = [cache EXCEPT ![cn] =
                             {IF e \in live \ keep
                                THEN [e EXCEPT !.node = NoNode] ELSE e :
                              e \in added}]

-----------------------------------------------------------------------------
(* Traversal *)

\* The locals an insert, update or search starts with (before_operation).
Start(c) ==
  /\ cl[c].pc = "idle"
  /\ todo[c] # <<>>
  /\ Head(todo[c]) # BarrierOp
  /\ todo' = [todo EXCEPT ![c] = Tail(@)]
  /\ LET o == Head(todo[c]) IN
       Become(c, [IdleLocals EXCEPT !.pc = "lookup",
                                       !.op = o.op, !.k = o.k, !.v = o.v])
  /\ UNCHANGED <<mem, locked, root, top, cache>>

\* DSM::barrier between the load and the run phase of the benchmark.
Barrier ==
  /\ \A c \in Clients : /\ cl[c].pc = "idle"
                        /\ todo[c] # <<>>
                        /\ Head(todo[c]) = BarrierOp
  /\ todo' = [c \in Clients |-> Tail(todo[c])]
  /\ UNCHANGED <<mem, locked, root, top, cache, cl>>

\* search_from_cache, then the root pointer when there is no hit.
SearchFromCache(c) ==
  /\ cl[c].pc = "lookup"
  /\ LET k == cl[c].k
         hits == CacheHits(CnOf[c], k)
     IN \/ /\ hits = {}
           /\ Become(c, [cl[c] EXCEPT !.pc = "root"])
        \/ \E e \in hits, s \in 0..KeyMax, t \in Fences :
             /\ IsFloor(e.node, k, s) /\ IsCeiling(e.node, k, t)
             /\ Become(c, [cl[c] EXCEPT !.pc = "next", !.fc = TRUE,
                                 !.p = ChildAt(e.node, s),
                                 !.sibp = NextAt(e.node, t),
                                 !.level = e.node.level,
                                 !.lo = e.lo, !.hi = e.hi])
  /\ UNCHANGED <<mem, locked, root, top, cache, todo>>

\* get_root_ptr, on behalf of an operation or of insert_internal.
GetRootPtr(c) ==
  /\ cl[c].pc \in {"root", "ii_root"}
  /\ Become(c, [cl[c] EXCEPT !.pc = IF @ = "root" THEN "next" ELSE "ii_next",
                      !.fc = FALSE, !.p = root.ptr,
                      !.sibp = Null, !.level = root.level])
  /\ UNCHANGED <<mem, locked, root, top, cache, todo>>

\* Both traversals record the node at their level (only inserts use it).
Recorded(c, a) ==
  IF cl[c].op = "insert"
    THEN [cl[c].path EXCEPT ![cl[c].level] = a] ELSE cl[c].path

\* Which key steers the traversal: the operation's, or the separator that
\* insert_internal carries up.
Steer(c) == IF cl[c].pc = "ii_next" THEN cl[c].sk ELSE cl[c].k

\* c is about to read an internal node above the level it is looking for.
Traversing(c) ==
  /\ cl[c].level > 1
  /\ cl[c].p \in Addrs
  /\ \/ cl[c].pc = "next"
     \/ cl[c].pc = "ii_next" /\ cl[c].level - 1 # cl[c].tl

\* Mutant: a stale cached entry is met but not invalidated.
InternalSearchStaleKept(c) ==
  /\ Traversing(c)
  /\ cl[c].fc
  /\ \/ Steer(c) < mem[cl[c].p].lo
     \/ Steer(c) >= mem[cl[c].p].hi
  /\ Become(c, [cl[c] EXCEPT !.pc = "lookup"])
  /\ UNCHANGED <<mem, locked, root, top, cache, todo>>

InternalSearchStale(c) ==
  /\ Traversing(c)
  /\ cl[c].fc
  /\ \/ Steer(c) < mem[cl[c].p].lo
     \/ Steer(c) >= mem[cl[c].p].hi
  /\ Invalidate(c)
  /\ Become(c, [cl[c] EXCEPT !.pc = "lookup", !.path = Recorded(c, cl[c].p)])
  /\ UNCHANGED <<mem, locked, root, top, todo>>

InternalSearchRight(c) ==
  /\ Traversing(c)
  /\ ~cl[c].fc
  /\ Steer(c) >= mem[cl[c].p].hi
  /\ Become(c, [cl[c] EXCEPT !.p = SibOf(mem[cl[c].p]),
                      !.path = Recorded(c, SibOf(mem[cl[c].p]))])
  /\ UNCHANGED <<mem, locked, root, top, cache, todo>>

InternalSearchDown(c) ==
  /\ Traversing(c)
  /\ LET n == mem[cl[c].p]
         k == Steer(c)
     IN /\ n.lo <= k /\ k < n.hi
        /\ AddToCache(c, n)
        /\ \E s \in 0..KeyMax, t \in Fences :
             /\ IsFloor(n, k, s) /\ IsCeiling(n, k, t)
             /\ Become(c, [cl[c] EXCEPT !.fc = FALSE,
                                 !.p = ChildAt(n, s),
                                 !.sibp = NextAt(n, t),
                                 !.level = n.level,
                                 !.path = Recorded(c, cl[c].p)])
  /\ UNCHANGED <<mem, locked, root, top, todo>>

\* insert_internal reached the level the separator belongs to.
InsertInternalArrive(c) ==
  /\ cl[c].pc = "ii_next"
  /\ cl[c].level > 1
  /\ cl[c].level - 1 = cl[c].tl
  /\ Become(c, [cl[c] EXCEPT !.pc = "lock_internal", !.fc = FALSE,
                      !.path = Recorded(c, cl[c].p)])
  /\ UNCHANGED <<mem, locked, root, top, cache, todo>>

-----------------------------------------------------------------------------
(* Leaves *)

\* Mutant: the lock is taken without testing it.
LockNodeUntested(c) ==
  /\ cl[c].p \in Addrs
  /\ \/ /\ cl[c].pc = "next" /\ cl[c].level = 1 /\ cl[c].op # "search"
        /\ Become(c, [cl[c] EXCEPT !.pc = IF cl[c].op = "insert"
                                        THEN "leaf_insert" ELSE "leaf_update"])
     \/ /\ cl[c].pc = "lock_internal"
        /\ Become(c, [cl[c] EXCEPT !.pc = "internal_insert"])
  /\ locked' = [locked EXCEPT ![cl[c].p] = TRUE]
  /\ UNCHANGED <<mem, root, top, cache, todo>>

\* lock_node: the masked compare-and-swap on bit 63 that finally succeeds.
LockNode(c) ==
  /\ cl[c].p \in Addrs
  /\ ~locked[cl[c].p]
  /\ \/ /\ cl[c].pc = "next" /\ cl[c].level = 1 /\ cl[c].op # "search"
        /\ Become(c, [cl[c] EXCEPT !.pc = IF cl[c].op = "insert"
                                        THEN "leaf_insert" ELSE "leaf_update"])
     \/ /\ cl[c].pc = "lock_internal"
        /\ Become(c, [cl[c] EXCEPT !.pc = "internal_insert"])
  /\ locked' = [locked EXCEPT ![cl[c].p] = TRUE]
  /\ UNCHANGED <<mem, root, top, cache, todo>>

\* unlock_node, and the unlock that rides on the last write of a node.
Unlock(c) == locked' = [locked EXCEPT ![cl[c].p] = FALSE]

SiblingDiffers(c) == cl[c].sibp # SibOf(mem[cl[c].p])

\* Mutant: a leaf is never left for its sibling.
NeverBeyond(c) == FALSE

\* k >= max_key + 1 : every record of the leaf is below the key.
BeyondLeaf(c) ==
  /\ ~LeafIsRoot(mem[cl[c].p])
  /\ \A j \in Present(mem[cl[c].p].kv) : j < cl[c].k

\* A cached parent no longer describes this leaf: unlock, invalidate the
\* entry and look the key up again.
LeafStale(c) ==
  /\ cl[c].pc \in {"leaf_insert", "leaf_update"}
  /\ cl[c].fc /\ SiblingDiffers(c)
  /\ Unlock(c)
  /\ Invalidate(c)
  /\ Become(c, [cl[c] EXCEPT !.pc = "lookup"])
  /\ UNCHANGED <<mem, root, top, todo>>

LeafInsertRight(c) ==
  /\ cl[c].pc = "leaf_insert"
  /\ ~cl[c].fc /\ SiblingDiffers(c)
  /\ BeyondLeaf(c)
  /\ Unlock(c)
  /\ Become(c, [cl[c] EXCEPT !.pc = "next", !.p = SibOf(mem[cl[c].p]),
                      !.sibp = Null])
  /\ UNCHANGED <<mem, root, top, cache, todo>>

\* leaf_node_insert has found the leaf the key belongs to.
InsertHere(c) ==
  /\ cl[c].pc = "leaf_insert"
  /\ ~SiblingDiffers(c) \/ (~cl[c].fc /\ ~BeyondLeaf(c))

\* An existing record is overwritten, or hopscotch finds a slot.
LeafInsertWrite(c) ==
  /\ InsertHere(c)
  /\ LET kv == mem[cl[c].p].kv IN
       \/ cl[c].k \in Present(kv)
       \/ Cardinality(Present(kv)) < LeafSpan
  /\ WriteNode(cl[c].p, WithRecord(mem[cl[c].p], cl[c].k, cl[c].v))
  /\ Unlock(c)
  /\ Become(c, [cl[c] EXCEPT !.pc = "done", !.lin = TRUE])
  /\ UNCHANGED <<root, top, cache, todo>>

\* The locked leaf with the new record in it, before it is divided.
Overfull(c) == WithRecord(mem[cl[c].p], cl[c].k, cl[c].v)

\* hopscotch_split_and_unlock up to the write of the sibling: the records
\* from a split key s on, the new one included, go right; the separator is
\* the largest key left behind, m, plus one.
LeafSplitSibling(c) ==
  /\ InsertHere(c)
  /\ cl[c].k \notin Present(mem[cl[c].p].kv)
  /\ Cardinality(Present(mem[cl[c].p].kv)) >= HopFailAt
  /\ top < MaxAddr
  /\ \E s \in Present(Overfull(c).kv), m \in UserKeys :
       /\ LET left == {j \in Present(Overfull(c).kv) : j < s}
          IN m \in left /\ \A j \in left : j <= m
       /\ WriteNode(top + 1, RightLeaf(Overfull(c), m + 1))
       /\ Become(c, [cl[c] EXCEPT !.pc = "leaf_split", !.nsk = m + 1,
                                  !.nsp = top + 1])
  /\ top' = top + 1
  /\ UNCHANGED <<locked, root, cache, todo>>

\* Mutant: the separator of a node whose parent is not at hand is dropped.
ToParentForgets(c, l) ==
  LET up == [cl[c] EXCEPT !.sk = cl[c].nsk, !.sp = cl[c].nsp, !.tl = l]
      onPath == IF l + 1 \in 1..MaxHeight THEN cl[c].path[l + 1] ELSE Null
  IN \/ /\ onPath # Null
        /\ Become(c, [up EXCEPT !.pc = "lock_internal",
                                      !.p = onPath, !.fc = FALSE, !.lin = TRUE])
     \/ /\ onPath = Null
        /\ Become(c, [up EXCEPT !.pc = "done", !.lin = TRUE])

\* Where the separator goes next: path_stack, then a cached parent, then the
\* root.  It is called with the separator and its level in nsk, nsp and l.
ToParent(c, l) ==
  LET up == [cl[c] EXCEPT !.sk = cl[c].nsk, !.sp = cl[c].nsp, !.tl = l]
      onPath == IF l + 1 \in 1..MaxHeight THEN cl[c].path[l + 1] ELSE Null
      hits == CachePtrHits(CnOf[c], cl[c].nsk, l)
  IN \/ /\ onPath # Null
        /\ Become(c, [up EXCEPT !.pc = "lock_internal",
                                      !.p = onPath, !.fc = FALSE, !.lin = TRUE])
     \/ /\ onPath = Null /\ hits = {}
        /\ Become(c, [up EXCEPT !.pc = "ii_root", !.lin = TRUE])
     \/ /\ onPath = Null
        /\ \E e \in hits, s \in 0..KeyMax :
             /\ IsFloor(e.node, cl[c].nsk, s)
             /\ Become(c, [up EXCEPT !.pc = "lock_internal", !.fc = TRUE,
                            !.p = ChildAt(e.node, s), !.lo = e.lo,
                            !.hi = e.hi, !.lin = TRUE])

ToNewRoot(c, l) ==
  Become(c, [cl[c] EXCEPT !.pc = "newroot", !.sk = cl[c].nsk,
                   !.sp = cl[c].nsp, !.tl = l, !.lin = TRUE])

\* The shrunk leaf and its unlocked lock word go out in one write.
LeafSplitCommit(c) ==
  /\ cl[c].pc = "leaf_split"
  /\ WriteNode(cl[c].p, LeftLeaf(Overfull(c), cl[c].nsk, cl[c].nsp))
  /\ IF LeafIsRoot(mem[cl[c].p]) THEN ToNewRoot(c, 1) ELSE ToParent(c, 1)
  /\ Unlock(c)
  /\ UNCHANGED <<root, top, cache, todo>>

\* A speculative read (IdxCache) that hits the key skips the validation, so a
\* leaf that holds the key may be used although the cached parent is stale.
LeafUpdateWrite(c) ==
  /\ cl[c].pc = "leaf_update"
  /\ cl[c].k \in Present(mem[cl[c].p].kv)
  /\ WriteNode(cl[c].p, WithRecord(mem[cl[c].p], cl[c].k, cl[c].v))
  /\ Unlock(c)
  /\ Become(c, [cl[c] EXCEPT !.pc = "done", !.lin = TRUE])
  /\ UNCHANGED <<root, top, cache, todo>>

LeafUpdateRight(c) ==
  /\ cl[c].pc = "leaf_update"
  /\ ~cl[c].fc /\ SiblingDiffers(c)
  /\ cl[c].k \notin Present(mem[cl[c].p].kv)
  /\ Unlock(c)
  /\ Become(c, [cl[c] EXCEPT !.pc = "next", !.p = SibOf(mem[cl[c].p])])
  /\ UNCHANGED <<mem, root, top, cache, todo>>

(***************************************************************************)
(* Ghost: the leaf that owns a key is the linked leaf with the smallest    *)
(* largest key that is not below it.  A sibling that is written but not    *)
(* yet pointed to is not linked.                                           *)
(***************************************************************************)
LinkedLeaves ==
  {a \in 1..top : /\ mem[a].level = 0
                  /\ a = 1 \/ \E b \in 1..top : mem[b].level = 0 /\ mem[b].sib = a}

Reaches(a, k) == \E j \in Present(mem[a].kv) : j >= k

Owns(a, k) ==
  /\ a \in LinkedLeaves /\ Reaches(a, k)
  /\ \A b \in LinkedLeaves : Reaches(b, k) =>
       \E j \in Present(mem[b].kv) : \A i \in Present(mem[a].kv) : i <= j

\* c is about to read a leaf without a lock.
SearchingLeaf(c) ==
  /\ cl[c].pc = "next" /\ cl[c].level = 1 /\ cl[c].op = "search"
  /\ cl[c].p \in Addrs

LeafSearchStale(c) ==
  /\ SearchingLeaf(c)
  /\ cl[c].fc /\ SiblingDiffers(c)
  /\ Invalidate(c)
  /\ Become(c, [cl[c] EXCEPT !.pc = "lookup"])
  /\ UNCHANGED <<mem, locked, root, top, todo>>

\* With or without validation, as in LeafUpdateWrite.
LeafSearchFound(c) ==
  /\ SearchingLeaf(c)
  /\ LET kv == mem[cl[c].p].kv IN
       /\ cl[c].k \in Present(kv)
       /\ Become(c, [cl[c] EXCEPT !.pc = "done", !.ret = kv[cl[c].k],
                           !.lin = TRUE])
  /\ UNCHANGED <<mem, locked, root, top, cache, todo>>

\* Mutant: a search gives up at the first leaf without the key.
LeafSearchOnStops(c) ==
  /\ SearchingLeaf(c)
  /\ cl[c].k \notin Present(mem[cl[c].p].kv)
  /\ Become(c, [cl[c] EXCEPT !.pc = "done", !.lin = TRUE])
  /\ UNCHANGED <<mem, locked, root, top, cache, todo>>

\* The key is not here.  The search goes on until the expected sibling.
LeafSearchOn(c) ==
  /\ SearchingLeaf(c)
  /\ cl[c].k \notin Present(mem[cl[c].p].kv)
  /\ \/ /\ ~SiblingDiffers(c)
        /\ Become(c, [cl[c] EXCEPT !.pc = "done",
                            !.lin = @ \/ Owns(cl[c].p, cl[c].k)])
     \/ /\ ~cl[c].fc /\ SiblingDiffers(c)
        /\ Become(c, [cl[c] EXCEPT !.p = SibOf(mem[cl[c].p]),
                            !.lin = @ \/ Owns(cl[c].p, cl[c].k)])
  /\ UNCHANGED <<mem, locked, root, top, cache, todo>>

-----------------------------------------------------------------------------
(* Separators go up *)

\* A cached grandparent named a node that no longer covers the separator.
InternalInsertStale(c) ==
  /\ cl[c].pc = "internal_insert"
  /\ cl[c].fc
  /\ cl[c].sk < mem[cl[c].p].lo \/ cl[c].sk >= mem[cl[c].p].hi
  /\ Unlock(c)
  /\ Invalidate(c)
  /\ Become(c, [cl[c] EXCEPT !.pc = "ii_root"])
  /\ UNCHANGED <<mem, root, top, todo>>

InternalInsertRight(c) ==
  /\ cl[c].pc = "internal_insert"
  /\ ~cl[c].fc
  /\ cl[c].sk >= mem[cl[c].p].hi
  /\ Unlock(c)
  /\ Become(c, [cl[c] EXCEPT !.pc = "lock_internal", !.p = SibOf(mem[cl[c].p])])
  /\ UNCHANGED <<mem, root, top, cache, todo>>

\* The separator belongs in the locked node and is not there yet.
SeparatorFits(c) ==
  LET n == mem[cl[c].p] IN
    /\ cl[c].pc = "internal_insert"
    /\ n.lo <= cl[c].sk /\ cl[c].sk < n.hi
    /\ cl[c].sk \notin Seps(n)

InternalInsertWrite(c) ==
  /\ SeparatorFits(c)
  /\ Cardinality(Seps(mem[cl[c].p])) < InternalSpan
  /\ WriteNode(cl[c].p, WithSeparator(mem[cl[c].p], cl[c].sk, cl[c].sp))
  /\ Unlock(c)
  /\ Become(c, [cl[c] EXCEPT !.pc = "done"])
  /\ UNCHANGED <<root, top, cache, todo>>

\* node_split_and_unlock for an internal node, up to the sibling's write; the
\* new separator goes into the half it belongs to.
InternalSplitSibling(c) ==
  /\ SeparatorFits(c)
  /\ Cardinality(Seps(mem[cl[c].p])) = InternalSpan
  /\ top < MaxAddr
  /\ \E m \in Seps(mem[cl[c].p]) :
       LET right == RightInternal(mem[cl[c].p], m, cl[c].tl) IN
         /\ Cardinality({s \in Seps(mem[cl[c].p]) : s < m}) = InternalSpan \div 2
         /\ WriteNode(top + 1,
                      IF cl[c].sk < m THEN right
                      ELSE WithSeparator(right, cl[c].sk, cl[c].sp))
         /\ Become(c, [cl[c] EXCEPT !.pc = "internal_split", !.nsk = m,
                                    !.nsp = top + 1])
  /\ top' = top + 1
  /\ UNCHANGED <<locked, root, cache, todo>>

InternalSplitCommit(c) ==
  /\ cl[c].pc = "internal_split"
  /\ LET left == LeftInternal(mem[cl[c].p], cl[c].nsk, cl[c].nsp) IN
       WriteNode(cl[c].p, IF cl[c].sk < cl[c].nsk
                            THEN WithSeparator(left, cl[c].sk, cl[c].sp)
                            ELSE left)
  /\ IF InternalIsRoot(mem[cl[c].p]) THEN ToNewRoot(c, cl[c].tl + 1)
                                     ELSE ToParent(c, cl[c].tl + 1)
  /\ Unlock(c)
  /\ UNCHANGED <<root, top, cache, todo>>

\* The old root has been split: write a new root over both halves and swing
\* the root pointer, or fall back to insert_internal when the swap fails.
NewRoot(c) ==
  /\ cl[c].pc = "newroot"
  /\ top < MaxAddr
  /\ WriteNode(top + 1, RootOver(cl[c].tl, cl[c].p, cl[c].sk, cl[c].sp))
  /\ top' = top + 1
  /\ IF root = [level |-> cl[c].tl, ptr |-> cl[c].p]
       THEN /\ root' = [level |-> cl[c].tl + 1, ptr |-> top + 1]
            /\ Become(c, [cl[c] EXCEPT !.pc = "done"])
       ELSE /\ Become(c, [cl[c] EXCEPT !.pc = "ii_next", !.p = root.ptr,
                                !.sibp = Null, !.level = root.level,
                                !.fc = FALSE])
            /\ UNCHANGED root
  /\ UNCHANGED <<locked, cache, todo>>

Finish(c) ==
  /\ cl[c].pc = "done"
  /\ Become(c, IdleLocals)
  /\ UNCHANGED <<mem, locked, root, top, cache, todo>>

-----------------------------------------------------------------------------
\* Tree::Tree on node 0: one leaf that holds the ghost key and the root tag.
Init ==
  /\ mem = [a \in Addrs |->
              IF a = 1 THEN [ZeroNode EXCEPT !.sib = Widest,
                               !.kv[KeyMax] = kValueNull]
              ELSE ZeroNode]
  /\ locked = [a \in Addrs |-> FALSE]
  /\ root = [level |-> 1, ptr |-> 1]
  /\ top = 1
  /\ cache = [cn \in CNs |-> {}]
  /\ todo \in Workloads
  /\ cl = [c \in Clients |-> IdleLocals]

Traverse(c) ==
  \/ SearchFromCache(c) \/ GetRootPtr(c) \/ InternalSearchStale(c)
  \/ InternalSearchRight(c) \/ InternalSearchDown(c) \/ InsertInternalArrive(c)

LeafStep(c) ==
  \/ LeafStale(c) \/ LeafInsertRight(c) \/ LeafInsertWrite(c)
  \/ LeafSplitSibling(c) \/ LeafSplitCommit(c) \/ LeafUpdateWrite(c)
  \/ LeafUpdateRight(c) \/ LeafSearchStale(c) \/ LeafSearchFound(c)
  \/ LeafSearchOn(c)

ParentStep(c) ==
  \/ InternalInsertStale(c) \/ InternalInsertRight(c) \/ InternalInsertWrite(c)
  \/ InternalSplitSibling(c) \/ InternalSplitCommit(c) \/ NewRoot(c)

Step(c) == \/ Start(c) \/ Traverse(c) \/ LockNode(c) \/ LeafStep(c)
           \/ ParentStep(c) \/ Finish(c)

\* Every operation issued and answered.
AllDone == \A c \in Clients : cl[c].pc = "idle" /\ todo[c] = <<>>

Terminated == AllDone /\ UNCHANGED vars

Next == (\E c \in Clients : Step(c)) \/ Barrier \/ Terminated

Spec == Init /\ [][Next]_vars

\* The coroutine scheduler runs every worker and re-queues one that waits
\* for a lock, so no coroutine that can go on is left out for ever.
FairSpec == Spec /\ WF_vars(Barrier) /\ \A c \in Clients : WF_vars(Step(c))

-----------------------------------------------------------------------------
(* Properties *)

InCritical(c) == cl[c].pc \in Critical

\* lock_node / unlock_node: the unlock is a plain write that nobody checks,
\* yet a node's lock bit is set exactly while one client is between its lock
\* and its unlock, and no two clients are there on the same node.
LockMutex ==
  /\ \A a \in Addrs :
       locked[a] <=> \E c \in Clients : InCritical(c) /\ cl[c].p = a
  /\ \A c, d \in Clients :
       InCritical(c) /\ InCritical(d) /\ cl[c].p = cl[d].p => c = d

\* insert_internal's assert(level > 1): a separator is never looked a place
\* for at the leaf level.
SeparatorAboveLeaves ==
  \A c \in Clients : cl[c].pc = "ii_next" => cl[c].level > 1

\* The assertions of the traversals and of both node insertions: a node that
\* was not taken from the cache never lies to the right of the key, a right
\* turn finds a sibling, an update finds its key, a separator is new.
AssertsHold ==
  /\ SeparatorAboveLeaves
  /\ \A c \in Clients :
       LET n == mem[cl[c].p] IN
         /\ cl[c].pc \in {"next", "ii_next", "lock_internal"} =>
              cl[c].p # Null
         /\ Traversing(c) /\ ~cl[c].fc => Steer(c) >= n.lo
         /\ cl[c].pc = "leaf_update" /\ ~SiblingDiffers(c) =>
              cl[c].k \in Present(n.kv)
         /\ cl[c].pc = "internal_insert" =>
              /\ cl[c].fc \/ cl[c].sk >= n.lo
              /\ cl[c].sk \notin Seps(n)

\* Splits keep the leaf chain a partition of the key space: every linked leaf
\* has records, all below those of its sibling, and only the last one, which
\* has no sibling, holds the ghost key that the turn-right check relies on.
LeafChainOrdered ==
  \A a \in LinkedLeaves :
    LET keys == Present(mem[a].kv)
        s == SibOf(mem[a])
    IN /\ keys # {}
       /\ KeyMax \in keys <=> s = Null
       /\ s # Null => \A i \in keys, j \in Present(mem[s].kv) : i < j

\* The nodes a client can route by: those in memory and the cached copies.
Routers ==
  {mem[a] : a \in {b \in 1..top : mem[b].level > 0}}
    \cup UNION {{e.node : e \in Live(cn)} : cn \in CNs}

\* A child stands where its separator says: at level 1 the child owns the
\* separator's key, above that its fences start there.
StandsAt(n, a, s) ==
  /\ a \in 1..top
  /\ mem[a].level = n.level - 1
  /\ IF n.level = 1 THEN Owns(a, s) ELSE mem[a].lo = s

\* Separators never lie, not even those in a stale cached copy and not while
\* splits of neighbours overtake each other on their way to the parent: the
\* child, the leftmost child and the next node's leftmost child (the expected
\* sibling of sibling-based validation) each start at their key.
SeparatorsRoute ==
  \A n \in Routers :
    /\ \A s \in Seps(n) : n.lo < s /\ s < n.hi /\ StandsAt(n, n.recs[s], s)
    /\ StandsAt(n, n.leftmost, n.lo)
    /\ n.hi <= KeyMax => StandsAt(n, n.sibleft, n.hi)

\* A node that internal_node_insert or NewRoot put in a parent.
HasParent(a) ==
  \E b \in 1..top :
    /\ mem[b].level = mem[a].level + 1
    /\ mem[b].leftmost = a \/ \E s \in Seps(mem[b]) : mem[b].recs[s] = a

\* No separator is lost: once no operation is in progress, every leaf and
\* every internal node but the root is under a parent, and the root pointer's
\* level is the root node's.
IndexCompleteAtRest ==
  (\A c \in Clients : cl[c].pc = "idle") =>
    /\ mem[root.ptr].level = root.level - 1
    /\ \A a \in 1..top : a = root.ptr \/ HasParent(a)

\* A leaf gives keys away when it splits and never gets one back, which is
\* what makes a pointer to it, however old, lead to the key or to its left.
RangesOnlyShrink ==
  [][\A a \in LinkedLeaves, k \in Keys : Owns(a, k)' => Owns(a, k)]_vars

\* The map the linked leaves hold.
AbsStore ==
  [k \in UserKeys |->
     IF \E a \in LinkedLeaves : k \in Present(mem[a].kv)
       THEN mem[CHOOSE a \in LinkedLeaves : k \in Present(mem[a].kv)].kv[k]
       ELSE kValueNull]

KV == INSTANCE KVMap WITH
        store <- AbsStore,
        status <- [c \in Clients |-> IF cl[c].pc = "idle" THEN "idle"
                                     ELSE IF cl[c].lin THEN "done"
                                     ELSE "pending"],
        request <- [c \in Clients |-> [op |-> cl[c].op, k |-> cl[c].k,
                                       v |-> cl[c].v]],
        answer <- [c \in Clients |-> cl[c].ret]

\* insert, update and search are linearizable: inserts and updates take effect
\* with the write that releases the leaf, a search with its read of the leaf
\* that owned the key, whatever splits and stale cache entries it met.
Linearizable == KV!MapSpec

\* Every operation is answered in the end: no client waits for ever for a
\* lock, walks right for ever, or is sent round by stale cache entries.
EveryOpAnswered == <>AllDone
=============================================================================
