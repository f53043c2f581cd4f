-------------------------- MODULE MCLocalLockTable --------------------------
(* Instances of LocalLockTable for TLC. *)
EXTENDS LocalLockTable, TLC

CONSTANTS c1, c2, c3, k1, k2

W(k, n) == [side |-> "w", k |-> k, v |-> <<k, n>>]
R(k) == [side |-> "r", k |-> k, v |-> InitVal(k)]

\* Writers of one key, some of them twice.
MCWriters ==
  {(c1 :> <<W(k1, 1), W(k1, 4)>>) @@ (c2 :> <<W(k1, 2)>>) @@ (c3 :> <<W(k1, 3)>>)}

\* Readers of two keys and a writer.
MCReaders ==
  {(c1 :> <<R(k1), R(x)>>) @@ (c2 :> <<R(k1)>>) @@ (c3 :> <<o>>) :
     x \in {k1, k2}, o \in {W(k1, 1), R(k2)}}

MCSlot == MCWriters \cup MCReaders

\* One key, read and written.
MCMixed ==
  {(c1 :> <<W(k1, 1), W(k1, 3)>>) @@ (c2 :> <<W(k1, 2)>>) @@ (c3 :> <<R(k1)>>)}

\* Writers of two keys.
MCTwoKeys ==
  {(c1 :> <<W(k1, 1)>>) @@ (c2 :> <<W(k1, 2)>>) @@ (c3 :> <<W(k2, 3)>>)}
=============================================================================
