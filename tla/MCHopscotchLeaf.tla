-------------------------- MODULE MCHopscotchLeaf --------------------------
(* Instances of HopscotchLeaf for TLC. *)
EXTENDS HopscotchLeaf

\* Keys spread evenly over the slots, consecutive keys far from each other.
MCHome == [k \in LeafKeys |-> (k * (Span - 1)) % Span]
=============================================================================
