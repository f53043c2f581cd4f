---------------------------- MODULE MCChimeTree ----------------------------
(* Instances of ChimeTree for TLC: the programs given to the clients. *)
EXTENDS ChimeTree, TLC

CONSTANTS c1, c2, n1, n2, v1, v2

Ins(k, v) == [op |-> "insert", k |-> k, v |-> v]
Upd(k, v) == [op |-> "update", k |-> k, v |-> v]
Get(k) == [op |-> "search", k |-> k, v |-> kValueNull]

MCTwoCNs == [c \in Clients |-> IF c = c1 THEN n1 ELSE n2]

\* A cold tree: both clients start on the empty root leaf.
MCCold ==
  {(c1 :> <<Ins(i, v1), Ins(j, v1)>>) @@ (c2 :> <<Ins(x, v2), Get(y)>>) :
     i \in 1..3, j \in 1..3, x \in 1..3, y \in 1..3}

\* c1 loads, then two clients run one operation each.
Loaded(load, o1, o2) ==
  (c1 :> (load \o <<BarrierOp>> \o o1)) @@ (c2 :> (<<BarrierOp>> \o o2))

\* Leaves of two records under one internal node: inserts that split leaves
\* against each other, searches and updates of what they move.
MCWarm ==
  {Loaded(<<Ins(2, v1), Ins(4, v1)>>, <<o1, o2>>, <<Get(4), o3>>) :
     o1 \in {Ins(3, v2), Ins(5, v2), Upd(4, v2)},
     o2 \in {Ins(4, v2), Upd(2, v2), Get(5)},
     o3 \in {Ins(1, v2), Ins(3, v1), Ins(5, v1), Upd(4, v1), Get(3)}}

\* Leaves of one record under a full internal root: each insert splits a leaf
\* and one of them splits the root.
MCFull ==
  {Loaded(<<Ins(2, v1), Ins(4, v1), Ins(6, v1)>>, <<Ins(i, v2)>>, <<o2>>) :
     i \in {1, 3, 5}, o2 \in {Ins(1, v1), Ins(3, v1), Ins(5, v1), Get(4), Get(6), Upd(4, v2)}}

\* Two levels of internal nodes, both in c1's cache; c2 splits the level-1
\* node that c1's copies still describe.
MCTall ==
  {Loaded(<<Ins(2, v1), Ins(4, v1), Ins(6, v1), Ins(8, v1), Get(8)>>, o1, o2) :
     o1 \in {<<Ins(9, v2)>>, <<Get(8), Upd(8, v2)>>, <<Ins(7, v2)>>},
     o2 \in {<<Ins(5, v1), Ins(7, v1)>>, <<Ins(7, v1), Upd(6, v1), Ins(5, v2)>>}}
MCClimb == MCTall \cup MCFull
=============================================================================
