--------------------------- MODULE HopscotchLeaf ---------------------------
(***************************************************************************)
(* The inside of one locked leaf: the hopscotch hash table of              *)
(* include/LeafNode.h, the vacancy bitmap and max_key_idx that travel in   *)
(* its lock word (VALOCK, include/Metadata.h), and the insert, split and   *)
(* update code of src/Tree.cpp that works on them.  ChimeTree sees a leaf  *)
(* as a map from keys to values; this module is about whether it is one.   *)
(*                                                                         *)
(* The lock is held from the read to the write, so one operation at a time *)
(* is in progress.  After a split the model follows either of the halves.  *)
(***************************************************************************)
EXTENDS Naturals, Integers, FiniteSets, FiniteSetsExt

CONSTANTS
  Span,         \* define::leafSpanSize
  Neighbor,     \* define::neighborSize
  VacancyBits,  \* define::vacancyMapBit
  MaxKey,       \* the ghost key 0xff..fe
  Home,         \* get_hashed_leaf_entry_index
  Versions,     \* bound: values a key may be written with, one after another
  Upserts       \* keys for which insert is called although the leaf may hold them

LeafKeys == 1..MaxKey
kkeyNull == 0
Slots == 0..(Span - 1)
Offsets == 0..(Neighbor - 1)
Buckets == 0..(VacancyBits - 1)

ASSUME LeafConstants ==
  /\ Neighbor \in Nat /\ Neighbor > 1
  /\ Span \in Nat /\ Span > Neighbor /\ Span % Neighbor = 0
  /\ VacancyBits \in 1..Span
  /\ MaxKey \in Nat /\ MaxKey > 1
  /\ Home \in [LeafKeys -> Slots]
  /\ Versions \in Nat /\ Versions > 0
  /\ Upserts \subseteq LeafKeys

VARIABLES
  leaf,    \* the records: key, val and hop (hop_bitmap, a set of offsets)
  vac,     \* vacancy_bitmap: the buckets whose bit is set
  maxidx,  \* max_key_idx
  lo,      \* the separator that leads here: no smaller key is routed to it
  latest,  \* ghost: per key the value last written, 0 when there is none
  op       \* the insertion in progress

leafVars == <<leaf, vac, maxidx, lo, latest, op>>

Image == [key : [Slots -> 0..MaxKey], val : [Slots -> 0..Versions],
          hop : [Slots -> SUBSET Offsets]]

EmptyImage == [key |-> [i \in Slots |-> kkeyNull], val |-> [i \in Slots |-> 0],
               hop |-> [i \in Slots |-> {}]]

\* pc: "hop" and "local" are the loops of hopscotch_insert_and_unlock and of
\* hopscotch_insert_locally; img: the copy they work on; e: where the empty
\* slot was found, j: where it has been moved to; hopped: hopped_idxes.
NoOp == [pc |-> "idle", k |-> 1, img |-> EmptyImage, e |-> 0, j |-> 0,
         hopped |-> {}]

\* The leaf, its lock word and the image an insertion works on keep their
\* types: no hop leaves the slots, no entry moves out of its neighbourhood.
LeafTypeOK ==
  /\ leaf \in Image
  /\ vac \in SUBSET Buckets
  /\ maxidx \in Slots
  /\ lo \in LeafKeys
  /\ latest \in [LeafKeys -> 0..Versions]
  /\ op \in [pc : {"idle", "hop", "split", "local"}, k : LeafKeys, img : Image,
             e : 0..(2 * Span), j : 0..(2 * Span), hopped : SUBSET Slots]

At(i) == i % Span
Occupied(img) == {i \in Slots : img.key[i] # kkeyNull}

-----------------------------------------------------------------------------
(* VALOCK *)

find_bucket(i) == (i * VacancyBits) \div Span

\* get_idx_range_in_bucket
FirstIn(b) == (b * Span + VacancyBits - 1) \div VacancyBits
LastIn(b) == FirstIn(b + 1) - 1

\* The buckets with a clear bit that start at or after slot l.
VacantFrom(l) == {b \in Buckets : b \notin vac /\ FirstIn(b) >= l}

\* get_read_entry_num_from_bitmap: read up to the end of the next bucket that
\* has a vacancy, or everything.
VacancyRead(l) ==
  IF VacantFrom(l) = {} THEN Span ELSE LastIn(Min(VacantFrom(l))) - l + 1

\* leaf_node_insert reads on up to a replica of the metadata.
EntriesRead(l) ==
  LET n == VacancyRead(l)
      r == l + n
  IN IF n < Neighbor /\ l % Neighbor # 0 /\ l \div Neighbor = (r - 1) \div Neighbor
       THEN ((r - 1 + Neighbor) \div Neighbor) * Neighbor + 1 - l
       ELSE n

\* Mutant: a segment that wraps around is not marked.
UpdateVacancyUnwrapped(l, r, img) ==
  (vac \cup (find_bucket(l)..find_bucket(r)))
    \ {find_bucket(i) : i \in (l..r) \ Occupied(img)}

\* update_vacancy for the segment from slot l to slot r, cyclically: every
\* bucket it touches is full but for those where it has an empty slot.
UpdateVacancy(l, r, img) ==
  LET lb == find_bucket(l)
      rb == find_bucket(r)
      touched == IF lb <= rb THEN lb..rb ELSE (0..rb) \cup (lb..(VacancyBits - 1))
      segment == IF l <= r THEN l..r ELSE (0..r) \cup (l..(Span - 1))
  IN (vac \cup touched)
       \ {find_bucket(i) : i \in segment \ Occupied(img)}

\* get_max_key_idx of hopscotch_split_and_unlock
MaxKeyIdx(img) ==
  CHOOSE i \in Slots : \A j \in Slots : img.key[j] <= img.key[i]

\* Mutant: max_key_idx is not maintained by a segment write.
MaxIdxAfterSame(hopped, img) == maxidx

\* max_key_idx after a segment write: the largest key can only have hopped.
MaxIdxAfter(hopped, img) ==
  IF maxidx \in hopped
    THEN CHOOSE i \in hopped : \A j \in hopped : img.key[j] <= img.key[i]
    ELSE maxidx

-----------------------------------------------------------------------------
(* Records *)

\* What the locked client has of the leaf when it has read n entries from l.
ReadFrom(l, n) ==
  LET seen == {At(l + i) : i \in 0..(n - 1)} IN
    [key |-> [i \in Slots |-> IF i \in seen THEN leaf.key[i] ELSE kkeyNull],
     val |-> [i \in Slots |-> IF i \in seen THEN leaf.val[i] ELSE 0],
     hop |-> [i \in Slots |-> IF i \in seen THEN leaf.hop[i] ELSE {}]]

\* Mutant: the hop bit is the distance of the physical slots.
PlacedUnwrapped(img, k, v, j) ==
  [img EXCEPT !.key[At(j)] = k, !.val[At(j)] = v,
              !.hop[Home[k]] = @ \cup {At(j) - Home[k]}]

\* LeafEntry::update and set_hop_bit of a key that is placed at logical slot j.
Placed(img, k, v, j) ==
  [img EXCEPT !.key[At(j)] = k, !.val[At(j)] = v,
              !.hop[Home[k]] = @ \cup {j - Home[k]}]

\* Mutant: the hop bit of the slot an entry leaves stays set.
HoppedKeepsBit(img, h, z, j) ==
  [img EXCEPT !.key[At(j)] = img.key[At(h)], !.val[At(j)] = img.val[At(h)],
              !.hop[At(Span + h - z)] = @ \cup {j - (h - z)}]

\* The entry at h, z slots from its home, hops to j.
Hopped(img, h, z, j) ==
  [img EXCEPT !.key[At(j)] = img.key[At(h)], !.val[At(j)] = img.val[At(h)],
              !.hop[At(Span + h - z)] = (@ \ {z}) \cup {j - (h - z)}]

\* The entries that may hop to j, as slot and distance from home.
Hoppers(img, j) ==
  {p \in ((j - Neighbor + 1)..(j - 1)) \X Offsets :
     /\ p[1] - p[2] + Neighbor > j
     /\ p[2] \in img.hop[At(Span + p[1] - p[2])]}

\* The one the loops find first: the farthest, by its farthest home.
NextHopper(img, j) ==
  CHOOSE p \in Hoppers(img, j) :
    \A q \in Hoppers(img, j) : p[1] < q[1] \/ (p[1] = q[1] /\ p[2] >= q[2])

FirstEmpty(img, l, n) ==
  Min({i \in l..(l + n - 1) : img.key[At(i)] = kkeyNull})

HasEmpty(img, l, n) == \E i \in l..(l + n - 1) : img.key[At(i)] = kkeyNull

-----------------------------------------------------------------------------
(* leaf_node_insert *)

\* The parent routes keys from the separator to the largest key here: a
\* split's separator is the largest key left behind plus one.
Insertable(k) ==
  /\ op.pc = "idle"
  /\ lo <= k /\ k <= leaf.key[maxidx] /\ k # MaxKey
  /\ latest[k] < Versions
  /\ k \in Upserts \/ latest[k] = 0

\* The value the next write of k carries.
NextVal(k) == latest[k] + 1

\* "search for existing key (update)", among the entries that were read.
InsertExisting(k) ==
  /\ Insertable(k)
  /\ LET img == ReadFrom(Home[k], EntriesRead(Home[k])) IN
       \E i \in Slots :
         /\ img.key[i] = k /\ \A j \in Slots : img.key[j] = k => i <= j
         /\ leaf' = [leaf EXCEPT !.val[i] = NextVal(k)]
  /\ latest' = [latest EXCEPT ![k] = NextVal(k)]
  /\ UNCHANGED <<vac, maxidx, lo, op>>

\* hopscotch_insert_and_unlock looks for an empty slot to start from.
InsertNew(k) ==
  /\ Insertable(k)
  /\ LET n == EntriesRead(Home[k])
         img == ReadFrom(Home[k], n)
     IN /\ \A i \in Slots : img.key[i] # k
        /\ op' = IF HasEmpty(img, Home[k], n)
                   THEN LET e == FirstEmpty(img, Home[k], n) IN
                          [pc |-> "hop", k |-> k, img |-> img, e |-> e, j |-> e,
                           hopped |-> {At(e)}]
                   ELSE [NoOp EXCEPT !.pc = "split", !.k = k]
  /\ UNCHANGED <<leaf, vac, maxidx, lo, latest>>

Hopping == op.pc \in {"hop", "local"} /\ op.j >= Home[op.k] + Neighbor

Hop ==
  /\ Hopping /\ Hoppers(op.img, op.j) # {}
  /\ LET p == NextHopper(op.img, op.j) IN
       op' = [op EXCEPT !.img = Hopped(op.img, p[1], p[2], op.j), !.j = p[1],
                        !.hopped = @ \cup {At(p[1])}]
  /\ UNCHANGED <<leaf, vac, maxidx, lo, latest>>

\* The copy is thrown away and the leaf is split.
HopFails ==
  /\ op.pc = "hop" /\ Hopping /\ Hoppers(op.img, op.j) = {}
  /\ op' = [NoOp EXCEPT !.pc = "split", !.k = op.k]
  /\ UNCHANGED <<leaf, vac, maxidx, lo, latest>>

Final == Placed(op.img, op.k, NextVal(op.k), op.j)

\* segment_write_and_unlock: only the slots from the home to where the empty
\* slot was found are written back.
InsertPlace ==
  /\ op.pc = "hop" /\ ~Hopping
  /\ LET l == Home[op.k]
         r == At(op.e)
         written == IF l <= r THEN l..r ELSE (0..r) \cup (l..(Span - 1))
     IN /\ leaf' = [key |-> [i \in Slots |-> IF i \in written THEN Final.key[i]
                                             ELSE leaf.key[i]],
                    val |-> [i \in Slots |-> IF i \in written THEN Final.val[i]
                                             ELSE leaf.val[i]],
                    hop |-> [i \in Slots |-> IF i \in written THEN Final.hop[i]
                                             ELSE leaf.hop[i]]]
        /\ vac' = UpdateVacancy(l, r, Final)
  /\ maxidx' = MaxIdxAfter(op.hopped, Final)
  /\ latest' = [latest EXCEPT ![op.k] = NextVal(op.k)]
  /\ op' = NoOp
  /\ UNCHANGED lo

-----------------------------------------------------------------------------
(* hopscotch_split_and_unlock *)

\* The keys up to the first empty slot after k's home.
RunLength(k) ==
  IF HasEmpty(leaf, Home[k], Span) THEN FirstEmpty(leaf, Home[k], Span) - Home[k]
  ELSE Span

\* hopscotch_get_split_key: the home of the entry at h, and the entries that
\* may hop to j because their homes are near enough.
HomeAt(h) == h - At(Span + h - Home[leaf.key[At(h)]])
NearEnough(j) == {h \in (j - Neighbor + 1)..(j - 1) : HomeAt(h) + Neighbor > j}

\* Where a free slot gets to, each hop taking the farthest entry, on its way
\* to the neighbourhood of l.
Lands(l) ==
  LET lands[j \in l..(l + Span - 1)] ==
        IF j < l + Neighbor \/ NearEnough(j) = {} THEN j
        ELSE lands[Min(NearEnough(j))]
  IN lands

\* The slots that would make room for k if they were freed.
Reachable(k) ==
  {e \in Home[k]..(Home[k] + RunLength(k) - 1) : Lands(Home[k])[e] < Home[k] + Neighbor}

\* The key in the middle of the sorted keys of slots es and k.
MedianWith(k, es) ==
  LET keyOf(e) == IF e = -1 THEN k ELSE leaf.key[At(e)]
      all == es \cup {-1}
      rank == Cardinality(all) \div 2
  IN CHOOSE x \in {keyOf(e) : e \in all} :
       /\ Cardinality({e \in all : keyOf(e) < x}) <= rank
       /\ rank < Cardinality({e \in all : keyOf(e) <= x})

\* Mutant: the median of all keys of the leaf.
SplitKeyPlain(k) == MedianWith(k, Occupied(leaf))

SplitKey(k) == MedianWith(k, Reachable(k))

\* Mutant: the record with the split key stays.
MovesStrict(i, s) == leaf.key[i] > s

\* The records that stay and those that move to the sibling.  Both keep their
\* slots; the hop bits of the moved ones are unset here and set there.
Moves(i, s) == leaf.key[i] >= s
MovedBits(i, s) == {z \in Offsets : /\ Moves(At(i + z), s)
                                    /\ Home[leaf.key[At(i + z)]] = i}
LeftHalf(s) ==
  [key |-> [i \in Slots |-> IF Moves(i, s) THEN kkeyNull ELSE leaf.key[i]],
   val |-> [i \in Slots |-> IF Moves(i, s) THEN 0 ELSE leaf.val[i]],
   hop |-> [i \in Slots |-> leaf.hop[i] \ MovedBits(i, s)]]
RightHalf(s) ==
  [key |-> [i \in Slots |-> IF Moves(i, s) THEN leaf.key[i] ELSE kkeyNull],
   val |-> [i \in Slots |-> IF Moves(i, s) THEN leaf.val[i] ELSE 0],
   hop |-> [i \in Slots |-> MovedBits(i, s)]]

\* Write the half: vacancy bitmap and max_key_idx are computed anew.
Rewrite(img) ==
  /\ leaf' = img
  /\ vac' = Buckets \ {find_bucket(i) : i \in Slots \ Occupied(img)}
  /\ maxidx' = MaxKeyIdx(img)
  /\ op' = NoOp

\* The model goes on with one half, img, of the keys in keep.  The new record
\* is inserted into the half it belongs to before that is written; the code
\* asserts that there is an empty slot for it.
SplitInto(img, keep) ==
  /\ latest' = [j \in LeafKeys |-> IF j \in keep THEN latest[j] ELSE 0]
  /\ IF op.k \notin keep
       THEN Rewrite(img)
       ELSE LET e == FirstEmpty(img, Home[op.k], Span) IN
              /\ HasEmpty(img, Home[op.k], Span)
              /\ op' = [NoOp EXCEPT !.pc = "local", !.k = op.k, !.img = img,
                                    !.e = e, !.j = e]
              /\ UNCHANGED <<leaf, vac, maxidx>>

SplitLeft ==
  /\ op.pc = "split"
  /\ SplitInto(LeftHalf(SplitKey(op.k)), 1..(SplitKey(op.k) - 1))
  /\ UNCHANGED lo

\* The new separator follows the largest key of the left half.
SplitRight ==
  /\ op.pc = "split"
  /\ LET s == SplitKey(op.k)
         left == {x \in {leaf.key[i] : i \in Slots} \cup {op.k} : x < s}
     IN SplitInto(RightHalf(s), s..MaxKey) /\ lo' = Max(left \cup {kkeyNull}) + 1

SplitPlace ==
  /\ op.pc = "local" /\ ~Hopping
  /\ Rewrite(Final)
  /\ latest' = [latest EXCEPT ![op.k] = NextVal(op.k)]
  /\ UNCHANGED lo

-----------------------------------------------------------------------------
(* leaf_node_update; search looks in the same places *)

\* Where update and search may find k: the first match in the neighbourhood,
\* or whichever match the index cache (IdxCache) remembers.
Matches(k) == {i \in Slots : /\ leaf.key[i] = k
                             /\ \E z \in Offsets : i = At(Home[k] + z)}

Update(k) ==
  /\ op.pc = "idle"
  /\ latest[k] \in 1..(Versions - 1)
  /\ \E i \in Matches(k) : leaf' = [leaf EXCEPT !.val[i] = NextVal(k)]
  /\ latest' = [latest EXCEPT ![k] = NextVal(k)]
  /\ UNCHANGED <<vac, maxidx, lo, op>>

-----------------------------------------------------------------------------
\* Tree::Tree: the root leaf with the ghost key; its bucket's bit is set.
LeafInit ==
  /\ leaf = Placed(EmptyImage, MaxKey, 1, Home[MaxKey])
  /\ vac = {find_bucket(Home[MaxKey])}
  /\ maxidx = Home[MaxKey]
  /\ lo = 1
  /\ latest = [k \in LeafKeys |-> IF k = MaxKey THEN 1 ELSE 0]
  /\ op = NoOp

LeafNext ==
  \/ \E k \in LeafKeys : InsertExisting(k) \/ InsertNew(k) \/ Update(k)
  \/ Hop \/ HopFails \/ InsertPlace \/ SplitLeft \/ SplitRight
  \/ SplitPlace

LeafSpec == LeafInit /\ [][LeafNext]_leafVars

-----------------------------------------------------------------------------
(* Properties *)

\* Hop bitmaps are exact: bit z of a slot is set just when the entry z slots
\* further on has this slot for its home.  Hops touch bitmaps of entries other
\* than the two that they exchange, and only a segment is written back.
HopBitmapExact ==
  \A i \in Slots, z \in Offsets :
    z \in leaf.hop[i] <=> /\ leaf.key[At(i + z)] # kkeyNull
                          /\ Home[leaf.key[At(i + z)]] = i

\* A clear vacancy bit is believed by the next insertion: the bucket has an
\* empty slot.
VacancySound ==
  \A b \in Buckets \ vac :
    \E i \in FirstIn(b)..LastIn(b) : leaf.key[i] = kkeyNull

\* max_key_idx, on which the turn-right check relies, is where the largest
\* key is.
MaxKeyKnown == \A i \in Slots : leaf.key[i] <= leaf.key[maxidx]

\* A vacancy is found where the bitmap promised it.
VacancyPromised ==
  \A k \in LeafKeys :
    LET n == EntriesRead(Home[k]) IN
      Insertable(k) /\ n < Span => HasEmpty(leaf, Home[k], n)

\* There is a key to split at, and the split frees a slot in the half of the
\* new key.
SplitMakesRoom ==
  op.pc = "split" =>
    LET s == SplitKey(op.k) IN
      /\ Reachable(op.k) # {}
      /\ HasEmpty(IF op.k < s THEN LeftHalf(s) ELSE RightHalf(s), Home[op.k], Span)

\* From there hops take it to the neighbourhood of the new key.
HopsArrive == op.pc = "local" /\ Hopping => Hoppers(op.img, op.j) # {}

\* set_hop_bit: the bit is not set yet.
HopBitFree ==
  op.pc \in {"hop", "local"} /\ ~Hopping =>
    op.j - Home[op.k] \notin op.img.hop[Home[op.k]]

\* The assertions on the way: a vacancy is found where the bitmap promised it,
\* there is a key to split at, the split makes room for the new key in its
\* half, where hops can take it, and no hop bit is set twice.
LeafAsserts == VacancyPromised /\ SplitMakesRoom /\ HopsArrive /\ HopBitFree

Found(k) ==
  op.pc = "idle" =>
    /\ latest[k] # 0 <=> Matches(k) # {}
    /\ \A i \in Matches(k) : leaf.val[i] = latest[k]

\* A leaf is a map: whatever slot an update or a search finds the key in, it
\* has the value last written, and a key never inserted is in no slot.  Stated
\* of the keys that are inserted only once.
LatestFound == \A k \in LeafKeys \ Upserts : Found(k)

\* The same of the keys that insert is called for again, "search for existing
\* key (update)".
UpsertFound == \A k \in Upserts : Found(k)
=============================================================================
