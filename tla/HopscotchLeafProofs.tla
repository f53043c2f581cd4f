------------------------ MODULE HopscotchLeafProofs ------------------------
(***************************************************************************)
(* The bookkeeping of a leaf is right for every span, neighbourhood,       *)
(* vacancy bitmap and hash function: hop bitmaps are exact, a clear        *)
(* vacancy bit is true, max_key_idx points at the largest key, and a key   *)
(* that is inserted once is found with the value last written.             *)
(*                                                                         *)
(* Between the read and the write an insertion works on a copy in which    *)
(* one slot, op.j, is free: its record has hopped on.  The invariant       *)
(* speaks of Back, what the leaf would be if the copy were written back    *)
(* now, and leaves that slot out.  Hops move the hole towards the home of  *)
(* the new key and keep Back right but for the hole; placing the key       *)
(* fills it.                                                               *)
(***************************************************************************)
EXTENDS HopscotchLeaf, FiniteSetTheorems, WellFoundedInduction, TLAPS

\* The slots from logical slot l to logical slot e, cyclically.
Segment(l, e) == IF l <= At(e) THEN l..At(e) ELSE (0..At(e)) \cup (l..(Span - 1))

\* old with the slots of W taken from img.
Merge(img, old, W) ==
  [key |-> [i \in Slots |-> IF i \in W THEN img.key[i] ELSE old.key[i]],
   val |-> [i \in Slots |-> IF i \in W THEN img.val[i] ELSE old.val[i]],
   hop |-> [i \in Slots |-> IF i \in W THEN img.hop[i] ELSE old.hop[i]]]

\* What the insertion in progress will write, as far as it has got.
Written == IF op.pc = "local" THEN Slots ELSE Segment(Home[op.k], op.e)
Back == Merge(op.img, leaf, Written)
Hole == At(op.j)
InLoop == op.pc \in {"hop", "local"}

\* The hop bitmaps of img are exact if the slot hole counts as empty.
ExactBut(img, hole) ==
  \A i \in Slots, z \in Offsets :
    z \in img.hop[i] <=> /\ At(i + z) # hole
                         /\ img.key[At(i + z)] # kkeyNull
                         /\ Home[img.key[At(i + z)]] = i

\* img has the value last written of k, once and near its home, or not at all.
HoldsBut(img, last, hole, k) ==
  /\ \A i \in Slots \ {hole} : img.key[i] = k =>
       /\ img.val[i] = last[k] /\ last[k] # 0
       /\ \E z \in Offsets : i = At(Home[k] + z)
       /\ \A j \in Slots \ {hole} : img.key[j] = k => i = j
  /\ last[k] # 0 => \E i \in Slots \ {hole} : img.key[i] = k

\* The hole is between the home of the key and the first empty slot.
LoopInv ==
  InLoop => /\ op.e \in Home[op.k]..(Home[op.k] + Span - 1)
            /\ op.j \in Home[op.k]..op.e
            /\ ExactBut(Back, Hole)

\* Where the largest key is, once the copy is written back.
HoppedInv ==
  op.pc = "hop" =>
    /\ op.k <= leaf.key[maxidx]
    /\ op.hopped \subseteq Written /\ Hole \in op.hopped
    /\ \A i \in Slots \ op.hopped : Back.key[i] = leaf.key[i]
    /\ \A i \in Slots \ {Hole} : Back.key[i] <= leaf.key[maxidx]
    /\ maxidx \in op.hopped =>
         \E i \in op.hopped \ {Hole} : Back.key[i] = leaf.key[maxidx]

\* The slots up to the first empty one are taken.
RunInv ==
  op.pc = "hop" => \A x \in Home[op.k]..(op.e - 1) : leaf.key[At(x)] # kkeyNull

OpInv ==
  op.pc # "idle" => /\ latest[op.k] < Versions
                    /\ op.k \notin Upserts => latest[op.k] = 0

ValueInv ==
  \A k \in LeafKeys \ Upserts :
    /\ op.pc # "local" => HoldsBut(leaf, latest, Span, k)
    /\ InLoop => HoldsBut(Back, latest, Hole, k)

LeafInv ==
  /\ LeafTypeOK /\ HopBitmapExact /\ VacancySound /\ MaxKeyKnown
  /\ LoopInv /\ HoppedInv /\ RunInv /\ OpInv

-----------------------------------------------------------------------------
(* Slots and buckets *)

\* A logical slot wraps around at most twice.
LEMMA AtValue ==
  ASSUME NEW x \in 0..(3 * Span - 1)
  PROVE  /\ At(x) \in Slots
         /\ At(x) = IF x < Span THEN x ELSE IF x < 2 * Span THEN x - Span ELSE x - 2 * Span
<1>1. Span \in Nat /\ Span > 0
  BY LeafConstants
<1>2. CASE x < Span
  BY <1>1, <1>2 DEF At, Slots
<1>3. CASE x >= Span /\ x < 2 * Span
  BY <1>1, <1>3 DEF At, Slots
<1>4. CASE x >= 2 * Span
  BY <1>1, <1>4 DEF At, Slots
<1> QED BY <1>1, <1>2, <1>3, <1>4

\* Two offsets from a home lead to two slots.
LEMMA OffsetUnique ==
  ASSUME NEW i \in Slots, NEW z \in Offsets, NEW y \in Offsets, At(i + z) = At(i + y)
  PROVE  z = y
<1>1. Span \in Nat /\ Neighbor \in Nat /\ Neighbor < Span /\ Neighbor > 1
  BY LeafConstants
<1>2. i + z \in 0..(3 * Span - 1) /\ i + y \in 0..(3 * Span - 1)
  BY <1>1 DEF Slots, Offsets
<1>3. PICK a \in 0..(3 * Span - 1), b \in 0..(3 * Span - 1) : a = i + z /\ b = i + y
  BY <1>2
<1>4. At(a) = At(b)
  BY <1>3
<1>5. At(a) = IF a < Span THEN a ELSE IF a < 2 * Span THEN a - Span ELSE a - 2 * Span
  BY AtValue
<1>6. At(b) = IF b < Span THEN b ELSE IF b < 2 * Span THEN b - Span ELSE b - 2 * Span
  BY AtValue
<1> QED BY <1>1, <1>3, <1>4, <1>5, <1>6 DEF Slots, Offsets

\* Division, as the products that bound it.
LEMMA DivBounds ==
  ASSUME NEW a \in Nat, NEW m \in Nat, m > 0
  PROVE  /\ a \div m \in Nat
         /\ (a \div m) * m <= a
         /\ a < (a \div m) * m + m
OBVIOUS

\* Multiplication is monotone.
LEMMA MulMono ==
  ASSUME NEW a \in Nat, NEW b \in Nat, NEW m \in Nat, a <= b
  PROVE  a * m <= b * m
<1>1. PICK d \in Nat : b = a + d
  <2>1. b - a \in Nat /\ b = a + (b - a)
    OBVIOUS
  <2> QED BY <2>1
<1>2. b * m = a * m + d * m
  BY <1>1
<1>3. d * m >= 0 /\ d * m \in Nat /\ a * m \in Nat
  OBVIOUS
<1> QED BY <1>2, <1>3

\* What get_idx_range_in_bucket computes: the slots whose records start in
\* the bucket's share of the leaf.
LEMMA FirstInBounds ==
  ASSUME NEW b \in 0..VacancyBits
  PROVE  /\ FirstIn(b) \in Nat
         /\ FirstIn(b) * VacancyBits >= b * Span
         /\ FirstIn(b) * VacancyBits < b * Span + VacancyBits
<1>1. Span \in Nat /\ VacancyBits \in Nat /\ VacancyBits > 0 /\ b \in Nat
  BY LeafConstants
<1>2. PICK a \in Nat : a = b * Span + VacancyBits - 1
  <2>1. b * Span \in Nat
    BY <1>1
  <2> QED BY <1>1, <2>1
<1>3. PICK m \in Nat : m = VacancyBits
  BY <1>1
<1>4. /\ a \div m \in Nat
      /\ (a \div m) * m <= a
      /\ a < (a \div m) * m + m
  BY <1>1, <1>3, DivBounds
<1>5. FirstIn(b) = a \div m
  BY <1>2, <1>3 DEF FirstIn
<1>6. b * Span \in Nat
  BY <1>1
<1> QED BY <1>1, <1>2, <1>3, <1>4, <1>5, <1>6

\* Every slot is in the range of its bucket.
LEMMA BucketRange ==
  ASSUME NEW i \in Slots
  PROVE  /\ find_bucket(i) \in Buckets
         /\ i \in FirstIn(find_bucket(i))..LastIn(find_bucket(i))
<1>1. /\ Span \in Nat /\ Span > 0 /\ VacancyBits \in Nat /\ VacancyBits > 0
      /\ i \in Nat /\ i + 1 <= Span
  BY LeafConstants DEF Slots
<1>2. PICK a \in Nat : a = i * VacancyBits
  BY <1>1
<1>3. PICK b \in Nat : b = a \div Span /\ b * Span <= a /\ a < b * Span + Span
  BY <1>1, DivBounds
<1>4. find_bucket(i) = b
  BY <1>2, <1>3 DEF find_bucket
<1>5. b < VacancyBits
  <2>1. SUFFICES ASSUME VacancyBits <= b PROVE FALSE
    BY <1>1
  <2>2. VacancyBits * Span <= b * Span
    BY <1>1, <2>1, MulMono
  <2>3. (i + 1) * VacancyBits <= Span * VacancyBits
    BY <1>1, MulMono
  <2>4. (i + 1) * VacancyBits = a + VacancyBits
    BY <1>1, <1>2
  <2>5. Span * VacancyBits = VacancyBits * Span
    BY <1>1
  <2>6. b * Span \in Nat /\ VacancyBits * Span \in Nat
    BY <1>1
  <2> QED BY <1>1, <1>3, <2>2, <2>3, <2>4, <2>5, <2>6
<1>6. b \in 0..VacancyBits /\ b + 1 \in 0..VacancyBits
  BY <1>1, <1>5
<1>7. PICK f \in Nat : /\ f = FirstIn(b)
                       /\ f * VacancyBits >= b * Span
                       /\ f * VacancyBits < b * Span + VacancyBits
  BY <1>6, FirstInBounds
<1>8. PICK g \in Nat : /\ g = FirstIn(b + 1)
                       /\ g * VacancyBits >= (b + 1) * Span
  BY <1>6, FirstInBounds
<1>9. b * Span \in Nat /\ (b + 1) * Span = b * Span + Span
  BY <1>1
<1>10. f <= i
  <2>1. SUFFICES ASSUME i + 1 <= f PROVE FALSE
    BY <1>1
  <2>2. (i + 1) * VacancyBits <= f * VacancyBits
    BY <1>1, <2>1, MulMono
  <2>3. (i + 1) * VacancyBits = a + VacancyBits
    BY <1>1, <1>2
  <2>4. f * VacancyBits \in Nat
    BY <1>1
  <2> QED BY <1>1, <1>3, <1>7, <1>9, <2>2, <2>3, <2>4
<1>11. i <= g - 1
  <2>1. SUFFICES ASSUME g <= i PROVE FALSE
    BY <1>1
  <2>2. g * VacancyBits <= i * VacancyBits
    BY <1>1, <2>1, MulMono
  <2>4. g * VacancyBits \in Nat
    BY <1>1
  <2> QED BY <1>1, <1>2, <1>3, <1>8, <1>9, <2>2, <2>4
<1>12. LastIn(b) = g - 1
  BY <1>8 DEF LastIn
<1> QED BY <1>1, <1>4, <1>5, <1>7, <1>10, <1>11, <1>12 DEF Buckets

\* A bucket has a slot, and its slots are slots of the leaf.
LEMMA BucketSlots ==
  ASSUME NEW b \in Buckets
  PROVE  /\ FirstIn(b) \in Slots /\ LastIn(b) \in Slots /\ FirstIn(b) <= LastIn(b)
         /\ find_bucket(FirstIn(b)) = b
<1>1. /\ Span \in Nat /\ Span > 0 /\ VacancyBits \in Nat /\ VacancyBits > 0 /\ VacancyBits <= Span
      /\ b \in Nat /\ b + 1 <= VacancyBits
  BY LeafConstants DEF Buckets
<1>2. b \in 0..VacancyBits /\ b + 1 \in 0..VacancyBits
  BY <1>1
<1>3. PICK f \in Nat : /\ f = FirstIn(b)
                       /\ f * VacancyBits >= b * Span
                       /\ f * VacancyBits < b * Span + VacancyBits
  BY <1>2, FirstInBounds
<1>4. PICK g \in Nat : /\ g = FirstIn(b + 1)
                       /\ g * VacancyBits >= (b + 1) * Span
                       /\ g * VacancyBits < (b + 1) * Span + VacancyBits
  BY <1>2, FirstInBounds
<1>5. /\ b * Span \in Nat /\ (b + 1) * Span = b * Span + Span
      /\ f * VacancyBits \in Nat /\ g * VacancyBits \in Nat
  BY <1>1
<1>6. f < g
  <2>1. SUFFICES ASSUME g <= f PROVE FALSE
    OBVIOUS
  <2>2. g * VacancyBits <= f * VacancyBits
    BY <1>1, <2>1, MulMono
  <2> QED BY <1>1, <1>3, <1>4, <1>5, <2>2
<1>7. g <= Span
  <2>1. SUFFICES ASSUME Span + 1 <= g PROVE FALSE
    BY <1>1
  <2>2. (Span + 1) * VacancyBits <= g * VacancyBits
    BY <1>1, <2>1, MulMono
  <2>3. (b + 1) * Span <= VacancyBits * Span
    BY <1>1, MulMono
  <2>4. (Span + 1) * VacancyBits = VacancyBits * Span + VacancyBits
    BY <1>1
  <2>5. VacancyBits * Span \in Nat
    BY <1>1
  <2> QED BY <1>1, <1>4, <1>5, <2>2, <2>3, <2>4, <2>5
<1>8. f \in Slots /\ LastIn(b) \in Slots /\ f <= LastIn(b)
  BY <1>1, <1>3, <1>4, <1>6, <1>7 DEF LastIn, Slots
<1>9. find_bucket(f) = b
  <2>1. PICK a \in Nat : a = f * VacancyBits
    BY <1>5
  <2>2. PICK c \in Nat : c = a \div Span /\ c * Span <= a /\ a < c * Span + Span
    BY <1>1, DivBounds
  <2>3. c * Span \in Nat
    BY <1>1
  <2>4. ~(c <= b - 1)
    <3>1. SUFFICES ASSUME c + 1 <= b PROVE FALSE
      BY <1>1
    <3>2. (c + 1) * Span <= b * Span
      BY <1>1, <3>1, MulMono
    <3>3. (c + 1) * Span = c * Span + Span
      BY <1>1
    <3> QED BY <1>1, <1>3, <1>5, <2>1, <2>2, <2>3, <3>2, <3>3
  <2>5. ~(b + 1 <= c)
    <3>1. SUFFICES ASSUME b + 1 <= c PROVE FALSE
      BY <1>1
    <3>2. (b + 1) * Span <= c * Span
      BY <1>1, <3>1, MulMono
    <3> QED BY <1>1, <1>3, <1>5, <2>1, <2>2, <2>3, <3>2
  <2>6. c = b
    BY <1>1, <2>4, <2>5
  <2> QED BY <2>1, <2>2, <2>6 DEF find_bucket
<1> QED BY <1>3, <1>8, <1>9

-----------------------------------------------------------------------------
(* Smallest and largest elements *)

\* A set of numbers has a smallest element.
LEMMA LeastNat ==
  ASSUME NEW S, S \subseteq Nat, S # {}
  PROVE  \E x \in S : \A y \in S : x <= y
<1> DEFINE R == OpToRel(<, Nat)
<1>1. IsWellFoundedOn(R, Nat)
  BY NatLessThanWellFounded
<1>2. \A x, y \in Nat : x < y => <<x, y>> \in R
  BY DEF OpToRel
<1> HIDE DEF R
<1>3. PICK x \in S : \A y \in S : ~(<<y, x>> \in R)
  BY <1>1, WFMin
<1>4. \A y \in S : ~(y < x)
  BY <1>2, <1>3
<1> QED BY <1>4

\* A bounded one has a largest element.
LEMMA GreatestNat ==
  ASSUME NEW m \in Nat, NEW S, S \subseteq 0..m, S # {}
  PROVE  \E x \in S : \A y \in S : y <= x
<1>1. PICK T : T = {m - y : y \in S}
  OBVIOUS
<1>2. T \subseteq Nat /\ T # {}
  <2>1. PICK s : s \in S
    OBVIOUS
  <2>2. m - s \in T
    BY <1>1, <2>1
  <2>3. T \subseteq Nat
    BY <1>1
  <2> QED BY <2>2, <2>3
<1>3. PICK t \in T : \A y \in T : t <= y
  BY <1>2, LeastNat
<1>4. PICK x \in S : t = m - x
  BY <1>1
<1>5. \A y \in S : m - x <= m - y
  BY <1>1, <1>3, <1>4
<1>6. \A y \in S : y <= x
  BY <1>5
<1> QED BY <1>6

\* Min and Max are what their names say.
LEMMA MinOfNat ==
  ASSUME NEW S, S \subseteq Nat, S # {}
  PROVE  Min(S) \in S /\ \A y \in S : Min(S) <= y
<1>1. \E x \in S : \A y \in S : x <= y
  BY LeastNat
<1> QED BY <1>1 DEF Min

\* Max is the greatest element of a bounded set of numbers.
LEMMA MaxOfNat ==
  ASSUME NEW m \in Nat, NEW S, S \subseteq 0..m, S # {}
  PROVE  Max(S) \in S /\ \A y \in S : y <= Max(S)
<1>1. \E x \in S : \A y \in S : x >= y
  BY GreatestNat
<1> QED BY <1>1 DEF Max

\* leaf_node_insert reads at least the home and at most the whole leaf.  When
\* it does not read everything it reads a bucket whose vacancy bit is clear.
LEMMA EntriesReadBounds ==
  ASSUME vac \subseteq Buckets, NEW l \in Slots
  PROVE  /\ EntriesRead(l) \in 1..Span
         /\ EntriesRead(l) < Span =>
              \E b \in Buckets \ vac : FirstIn(b) >= l /\ LastIn(b) <= l + EntriesRead(l) - 1
<1>1. /\ Span \in Nat /\ Span > 0 /\ Neighbor \in Nat /\ Neighbor > 1 /\ Neighbor < Span
      /\ l \in Nat /\ l < Span
  BY LeafConstants DEF Slots
<1>2. 2 * Neighbor <= Span
  <2>1. PICK q \in Nat : q = Span \div Neighbor /\ q * Neighbor <= Span /\ Span < q * Neighbor + Neighbor
    BY <1>1, DivBounds
  <2>2. Span = q * Neighbor
    <3>1. Span % Neighbor = 0
      BY LeafConstants
    <3> QED BY <1>1, <2>1, <3>1
  <2>3. q >= 2
    <3>1. q # 0 /\ q # 1
      BY <1>1, <2>2
    <3> QED BY <3>1
  <2>4. 2 * Neighbor <= q * Neighbor
    BY <1>1, <2>3, MulMono
  <2> QED BY <2>2, <2>4
<1>3. CASE VacantFrom(l) = {}
  <2>1. VacancyRead(l) = Span
    BY <1>3 DEF VacancyRead
  <2>2. EntriesRead(l) = Span
    BY <1>1, <2>1 DEF EntriesRead
  <2> QED BY <1>1, <2>2
<1>4. CASE VacantFrom(l) # {}
  <2>1. VacantFrom(l) \subseteq Nat /\ VacantFrom(l) \subseteq Buckets
    BY LeafConstants DEF VacantFrom, Buckets
  <2>2. PICK b : b = Min(VacantFrom(l))
    OBVIOUS
  <2>3. b \in VacantFrom(l)
    BY <1>4, <2>1, <2>2, MinOfNat
  <2>4. b \in Buckets \ vac /\ FirstIn(b) >= l
    BY <2>3 DEF VacantFrom
  <2>5. FirstIn(b) \in Slots /\ LastIn(b) \in Slots /\ FirstIn(b) <= LastIn(b)
    BY <2>4, BucketSlots
  <2>6. PICK n \in Nat : n = VacancyRead(l) /\ n = LastIn(b) - l + 1 /\ n >= 1 /\ n <= Span - l
    BY <1>1, <1>4, <2>2, <2>4, <2>5 DEF VacancyRead, Slots
  <2>7. CASE EntriesRead(l) = n
    BY <1>1, <2>4, <2>5, <2>6, <2>7 DEF Slots
  <2>8. CASE EntriesRead(l) # n
    <3>1. /\ n < Neighbor
          /\ EntriesRead(l) = ((l + n - 1 + Neighbor) \div Neighbor) * Neighbor + 1 - l
      BY <1>1, <2>6, <2>8 DEF EntriesRead
    <3>2. PICK a \in Nat : a = l + n - 1 + Neighbor
      BY <1>1, <2>6
    <3>3. PICK q \in Nat : q = a \div Neighbor /\ q * Neighbor <= a /\ a < q * Neighbor + Neighbor
      <4>1. Neighbor \in Nat /\ Neighbor > 0
        BY <1>1
      <4> QED BY <4>1, DivBounds
    <3>4. PICK c \in Nat : c = q * Neighbor
      BY <1>1
    <3>5. EntriesRead(l) = c + 1 - l
      BY <3>1, <3>2, <3>3, <3>4
    <3>6. c <= l + n - 1 + Neighbor /\ l + n - 1 < c
      BY <1>1, <2>6, <3>2, <3>3, <3>4
    <3> QED BY <1>1, <1>2, <2>4, <2>5, <2>6, <3>1, <3>5, <3>6 DEF Slots
  <2> QED BY <2>7, <2>8
<1> QED BY <1>3, <1>4

-----------------------------------------------------------------------------
(* Images of a leaf *)

\* A hop and a placement in terms of physical slots: p moves to q, c is the
\* home, z and y are the distances.
HoppedAt(img, p, q, c, z, y) ==
  [img EXCEPT !.key[q] = img.key[p], !.val[q] = img.val[p], !.hop[c] = (@ \ {z}) \cup {y}]
PlacedAt(img, k, v, q, y) ==
  [img EXCEPT !.key[q] = k, !.val[q] = v, !.hop[Home[k]] = @ \cup {y}]

\* The slots of an image after a hop.
LEMMA HoppedSlots ==
  ASSUME NEW img \in Image, NEW p \in Slots, NEW q \in Slots, NEW c \in Slots,
         NEW z \in Offsets, NEW y \in Offsets
  PROVE  /\ HoppedAt(img, p, q, c, z, y) \in Image
         /\ \A i \in Slots :
              /\ HoppedAt(img, p, q, c, z, y).key[i] = IF i = q THEN img.key[p] ELSE img.key[i]
              /\ HoppedAt(img, p, q, c, z, y).val[i] = IF i = q THEN img.val[p] ELSE img.val[i]
              /\ \A x \in Offsets : x \in HoppedAt(img, p, q, c, z, y).hop[i] <=>
                   IF i = c THEN x = y \/ (x \in img.hop[i] /\ x # z) ELSE x \in img.hop[i]
<1>1. /\ img.key \in [Slots -> 0..MaxKey] /\ img.val \in [Slots -> 0..Versions]
      /\ img.hop \in [Slots -> SUBSET Offsets]
  BY DEF Image
<1>2. PICK r : r = HoppedAt(img, p, q, c, z, y)
  OBVIOUS
<1>3. /\ r.key = [img.key EXCEPT ![q] = img.key[p]]
      /\ r.val = [img.val EXCEPT ![q] = img.val[p]]
      /\ r.hop = [img.hop EXCEPT ![c] = (img.hop[c] \ {z}) \cup {y}]
      /\ r = [key |-> r.key, val |-> r.val, hop |-> r.hop]
  BY <1>2 DEF HoppedAt, Image
<1>4. img.key[p] \in 0..MaxKey /\ img.val[p] \in 0..Versions
  BY <1>1
<1>5. r.key \in [Slots -> 0..MaxKey] /\ r.val \in [Slots -> 0..Versions]
  BY <1>1, <1>3, <1>4
<1>6. PICK A \in SUBSET Offsets : A = (img.hop[c] \ {z}) \cup {y}
  BY <1>1
<1>7. r.hop = [img.hop EXCEPT ![c] = A]
  BY <1>3, <1>6
<1>8. r.hop \in [Slots -> SUBSET Offsets]
  BY <1>1, <1>7
<1>9. r \in Image
  BY <1>3, <1>5, <1>8 DEF Image
<1>10. \A i \in Slots : /\ r.key[i] = IF i = q THEN img.key[p] ELSE img.key[i]
                        /\ r.val[i] = IF i = q THEN img.val[p] ELSE img.val[i]
  BY <1>1, <1>3
<1>11. \A i \in Slots : r.hop[i] = IF i = c THEN A ELSE img.hop[i]
  BY <1>1, <1>7
<1>12. \A i \in Slots, x \in Offsets : x \in r.hop[i] <=>
         IF i = c THEN x = y \/ (x \in img.hop[i] /\ x # z) ELSE x \in img.hop[i]
  BY <1>6, <1>11
<1> QED BY <1>2, <1>9, <1>10, <1>12

\* The slots of an image after a key has been placed.
LEMMA PlacedSlots ==
  ASSUME NEW img \in Image, NEW k \in LeafKeys, NEW v \in 0..Versions,
         NEW q \in Slots, NEW y \in Offsets
  PROVE  /\ PlacedAt(img, k, v, q, y) \in Image
         /\ \A i \in Slots :
              /\ PlacedAt(img, k, v, q, y).key[i] = IF i = q THEN k ELSE img.key[i]
              /\ PlacedAt(img, k, v, q, y).val[i] = IF i = q THEN v ELSE img.val[i]
              /\ \A x \in Offsets : x \in PlacedAt(img, k, v, q, y).hop[i] <=>
                   x \in img.hop[i] \/ (i = Home[k] /\ x = y)
<1>1. /\ img.key \in [Slots -> 0..MaxKey] /\ img.val \in [Slots -> 0..Versions]
      /\ img.hop \in [Slots -> SUBSET Offsets]
  BY DEF Image
<1>2. PICK r : r = PlacedAt(img, k, v, q, y)
  OBVIOUS
<1>3. PICK c \in Slots : c = Home[k]
  BY LeafConstants
<1>4. /\ r.key = [img.key EXCEPT ![q] = k]
      /\ r.val = [img.val EXCEPT ![q] = v]
      /\ r.hop = [img.hop EXCEPT ![c] = img.hop[c] \cup {y}]
      /\ r = [key |-> r.key, val |-> r.val, hop |-> r.hop]
  BY <1>2, <1>3 DEF PlacedAt, Image
<1>5. k \in 0..MaxKey
  BY LeafConstants DEF LeafKeys
<1>6. r.key \in [Slots -> 0..MaxKey] /\ r.val \in [Slots -> 0..Versions]
  BY <1>1, <1>4, <1>5
<1>7. PICK A \in SUBSET Offsets : A = img.hop[c] \cup {y}
  BY <1>1
<1>8. r.hop = [img.hop EXCEPT ![c] = A]
  BY <1>4, <1>7
<1>9. r.hop \in [Slots -> SUBSET Offsets]
  BY <1>1, <1>8
<1>10. r \in Image
  BY <1>4, <1>6, <1>9 DEF Image
<1>11. \A i \in Slots : /\ r.key[i] = IF i = q THEN k ELSE img.key[i]
                        /\ r.val[i] = IF i = q THEN v ELSE img.val[i]
  BY <1>1, <1>4
<1>12. \A i \in Slots : r.hop[i] = IF i = c THEN A ELSE img.hop[i]
  BY <1>1, <1>8
<1>13. \A i \in Slots, x \in Offsets : x \in r.hop[i] <=> x \in img.hop[i] \/ (i = c /\ x = y)
  BY <1>7, <1>12
<1> QED BY <1>2, <1>3, <1>10, <1>11, <1>13

\* Merging is by slots.
LEMMA MergeSlots ==
  ASSUME NEW img \in Image, NEW old \in Image, NEW W
  PROVE  /\ Merge(img, old, W) \in Image
         /\ \A i \in Slots :
              /\ Merge(img, old, W).key[i] = IF i \in W THEN img.key[i] ELSE old.key[i]
              /\ Merge(img, old, W).val[i] = IF i \in W THEN img.val[i] ELSE old.val[i]
              /\ Merge(img, old, W).hop[i] = IF i \in W THEN img.hop[i] ELSE old.hop[i]
BY DEF Merge, Image

\* Images that agree on every slot are equal.
LEMMA ImageEqual ==
  ASSUME NEW a \in Image, NEW b \in Image,
         \A i \in Slots : /\ a.key[i] = b.key[i] /\ a.val[i] = b.val[i]
                          /\ \A x \in Offsets : x \in a.hop[i] <=> x \in b.hop[i]
  PROVE  a = b
<1>1. /\ a.key \in [Slots -> 0..MaxKey] /\ a.val \in [Slots -> 0..Versions]
      /\ a.hop \in [Slots -> SUBSET Offsets]
      /\ b.key \in [Slots -> 0..MaxKey] /\ b.val \in [Slots -> 0..Versions]
      /\ b.hop \in [Slots -> SUBSET Offsets]
  BY DEF Image
<1>2. \A i \in Slots : a.hop[i] = b.hop[i]
  BY <1>1
<1>3. a.key = b.key /\ a.val = b.val /\ a.hop = b.hop
  BY <1>1, <1>2
<1>4. /\ a = [key |-> a.key, val |-> a.val, hop |-> a.hop]
      /\ b = [key |-> b.key, val |-> b.val, hop |-> b.hop]
  BY DEF Image
<1> QED BY <1>3, <1>4

\* A hop inside the segment may be made before or after the merge.
LEMMA MergeHopped ==
  ASSUME NEW img \in Image, NEW old \in Image, NEW W,
         NEW p \in Slots, NEW q \in Slots, NEW c \in Slots, p \in W, q \in W, c \in W,
         NEW z \in Offsets, NEW y \in Offsets
  PROVE  Merge(HoppedAt(img, p, q, c, z, y), old, W) = HoppedAt(Merge(img, old, W), p, q, c, z, y)
<1>0. ASSUME NEW g \in Image
      PROVE  /\ HoppedAt(g, p, q, c, z, y) \in Image
             /\ \A i \in Slots :
                  /\ HoppedAt(g, p, q, c, z, y).key[i] = IF i = q THEN g.key[p] ELSE g.key[i]
                  /\ HoppedAt(g, p, q, c, z, y).val[i] = IF i = q THEN g.val[p] ELSE g.val[i]
                  /\ \A x \in Offsets : x \in HoppedAt(g, p, q, c, z, y).hop[i] <=>
                       IF i = c THEN x = y \/ (x \in g.hop[i] /\ x # z) ELSE x \in g.hop[i]
  BY HoppedSlots
<1>1. PICK m \in Image : /\ m = Merge(img, old, W)
         /\ \A i \in Slots : /\ m.key[i] = IF i \in W THEN img.key[i] ELSE old.key[i]
                             /\ m.val[i] = IF i \in W THEN img.val[i] ELSE old.val[i]
                             /\ m.hop[i] = IF i \in W THEN img.hop[i] ELSE old.hop[i]
  BY MergeSlots
<1>2. PICK r \in Image : /\ r = HoppedAt(img, p, q, c, z, y)
         /\ \A i \in Slots : /\ r.key[i] = IF i = q THEN img.key[p] ELSE img.key[i]
                             /\ r.val[i] = IF i = q THEN img.val[p] ELSE img.val[i]
                             /\ \A x \in Offsets : x \in r.hop[i] <=>
                                  IF i = c THEN x = y \/ (x \in img.hop[i] /\ x # z)
                                           ELSE x \in img.hop[i]
  BY <1>0
<1>3. PICK s \in Image : /\ s = HoppedAt(m, p, q, c, z, y)
         /\ \A i \in Slots : /\ s.key[i] = IF i = q THEN m.key[p] ELSE m.key[i]
                             /\ s.val[i] = IF i = q THEN m.val[p] ELSE m.val[i]
                             /\ \A x \in Offsets : x \in s.hop[i] <=>
                                  IF i = c THEN x = y \/ (x \in m.hop[i] /\ x # z)
                                           ELSE x \in m.hop[i]
  BY <1>0
<1>4. PICK n \in Image : /\ n = Merge(r, old, W)
         /\ \A i \in Slots : /\ n.key[i] = IF i \in W THEN r.key[i] ELSE old.key[i]
                             /\ n.val[i] = IF i \in W THEN r.val[i] ELSE old.val[i]
                             /\ n.hop[i] = IF i \in W THEN r.hop[i] ELSE old.hop[i]
  BY MergeSlots
<1>5. \A i \in Slots : /\ n.key[i] = s.key[i] /\ n.val[i] = s.val[i]
                       /\ \A x \in Offsets : x \in n.hop[i] <=> x \in s.hop[i]
  BY <1>1, <1>2, <1>3, <1>4
<1>6. n = s
  BY <1>5, ImageEqual
<1> QED BY <1>1, <1>2, <1>3, <1>4, <1>6

\* So may the new key be placed.
LEMMA MergePlaced ==
  ASSUME NEW img \in Image, NEW old \in Image, NEW W,
         NEW k \in LeafKeys, NEW v \in 0..Versions, NEW q \in Slots, NEW y \in Offsets,
         q \in W, Home[k] \in W
  PROVE  Merge(PlacedAt(img, k, v, q, y), old, W) = PlacedAt(Merge(img, old, W), k, v, q, y)
<1>1. PICK m \in Image : /\ m = Merge(img, old, W)
         /\ \A i \in Slots : /\ m.key[i] = IF i \in W THEN img.key[i] ELSE old.key[i]
                             /\ m.val[i] = IF i \in W THEN img.val[i] ELSE old.val[i]
                             /\ m.hop[i] = IF i \in W THEN img.hop[i] ELSE old.hop[i]
  BY MergeSlots
<1>2. PICK r \in Image : /\ r = PlacedAt(img, k, v, q, y)
         /\ \A i \in Slots : /\ r.key[i] = IF i = q THEN k ELSE img.key[i]
                             /\ r.val[i] = IF i = q THEN v ELSE img.val[i]
                             /\ \A x \in Offsets : x \in r.hop[i] <=>
                                  x \in img.hop[i] \/ (i = Home[k] /\ x = y)
  BY PlacedSlots
<1>3. PICK s \in Image : /\ s = PlacedAt(m, k, v, q, y)
         /\ \A i \in Slots : /\ s.key[i] = IF i = q THEN k ELSE m.key[i]
                             /\ s.val[i] = IF i = q THEN v ELSE m.val[i]
                             /\ \A x \in Offsets : x \in s.hop[i] <=>
                                  x \in m.hop[i] \/ (i = Home[k] /\ x = y)
  BY PlacedSlots
<1>4. PICK n \in Image : /\ n = Merge(r, old, W)
         /\ \A i \in Slots : /\ n.key[i] = IF i \in W THEN r.key[i] ELSE old.key[i]
                             /\ n.val[i] = IF i \in W THEN r.val[i] ELSE old.val[i]
                             /\ n.hop[i] = IF i \in W THEN r.hop[i] ELSE old.hop[i]
  BY MergeSlots
<1>5. \A i \in Slots : /\ n.key[i] = s.key[i] /\ n.val[i] = s.val[i]
                       /\ \A x \in Offsets : x \in n.hop[i] <=> x \in s.hop[i]
  BY <1>1, <1>2, <1>3, <1>4
<1>6. n = s
  BY <1>5, ImageEqual
<1> QED BY <1>1, <1>2, <1>3, <1>4, <1>6

-----------------------------------------------------------------------------
(* Hops and placements *)

\* The slots from a home to the first empty slot are the segment between them.
LEMMA SegmentSlots ==
  ASSUME NEW l \in Slots, NEW e \in l..(l + Span - 1)
  PROVE  /\ Segment(l, e) \subseteq Slots
         /\ \A x \in l..e : At(x) \in Segment(l, e)
         /\ \A i \in Segment(l, e) : \E x \in l..e : i = At(x)
<1>1. Span \in Nat /\ Span > 0 /\ l \in Nat /\ l < Span /\ e \in Nat
  BY LeafConstants DEF Slots
<1>2. \A x \in l..e : /\ At(x) \in Slots
                      /\ At(x) = IF x < Span THEN x ELSE x - Span
  <2>1. TAKE x \in l..e
  <2>2. x \in 0..(3 * Span - 1) /\ x < 2 * Span
    BY <1>1
  <2> QED BY <1>1, <2>2, AtValue
<1>3. At(e) = IF e < Span THEN e ELSE e - Span
  BY <1>1, <1>2
<1>4. CASE e < Span
  <2>1. Segment(l, e) = l..e
    BY <1>1, <1>3, <1>4 DEF Segment
  <2>2. \A x \in l..e : At(x) = x
    BY <1>1, <1>2, <1>4
  <2> QED BY <1>1, <1>4, <2>1, <2>2 DEF Slots
<1>5. CASE e >= Span
  <2>1. Segment(l, e) = (0..(e - Span)) \cup (l..(Span - 1))
    BY <1>1, <1>3, <1>5 DEF Segment
  <2>2. Segment(l, e) \subseteq Slots
    BY <1>1, <2>1 DEF Slots
  <2>3. ASSUME NEW x \in l..e PROVE At(x) \in Segment(l, e)
    BY <1>1, <1>2, <1>5, <2>1
  <2>4. ASSUME NEW i \in Segment(l, e) PROVE \E x \in l..e : i = At(x)
    <3>1. CASE i \in l..(Span - 1)
      <4>1. i \in l..e /\ At(i) = i
        BY <1>1, <1>2, <1>5, <3>1
      <4> QED BY <4>1
    <3>2. CASE i \in 0..(e - Span)
      <4>1. i + Span \in l..e
        BY <1>1, <1>5, <3>2
      <4>2. PICK x \in l..e : x = i + Span
        BY <4>1
      <4>3. At(x) = i
        BY <1>1, <1>2, <3>2, <4>2
      <4> QED BY <4>3
    <3> QED BY <2>1, <2>4, <3>1, <3>2
  <2> QED BY <2>2, <2>3, <2>4
<1> QED BY <1>1, <1>4, <1>5

\* Where an entry, its home and the slot it hops to are.
LEMMA HopGeometry ==
  ASSUME NEW j \in 0..(2 * Span - 1), NEW h \in Int, NEW z \in Offsets,
         h < j, h - z >= 0, j - (h - z) \in Offsets
  PROVE  /\ At(j) \in Slots /\ At(h) \in Slots /\ At(Span + h - z) \in Slots
         /\ At(Span + h - z) = At(h - z)
         /\ At(At(Span + h - z) + z) = At(h)
         /\ At(At(Span + h - z) + (j - (h - z))) = At(j)
         /\ At(h) # At(j)
<1>1. Span \in Nat /\ Neighbor \in Nat /\ Neighbor > 1 /\ Neighbor < Span
  BY LeafConstants
<1>2. z \in 0..(Neighbor - 1) /\ j - (h - z) \in 0..(Neighbor - 1)
  BY DEF Offsets
<1>3. PICK g \in 0..(2 * Span - 1) : g = h - z
  BY <1>1, <1>2
<1>4. PICK a \in 0..(3 * Span - 1) : a = Span + h - z
  BY <1>1, <1>3
<1>5. a = Span + g /\ j \in 0..(3 * Span - 1) /\ g \in 0..(3 * Span - 1) /\ h \in 0..(3 * Span - 1)
  BY <1>1, <1>2, <1>3, <1>4
<1>6. At(a) \in Slots /\ At(a) = IF g < Span THEN g ELSE g - Span
  BY <1>1, <1>3, <1>5, AtValue
<1>7. At(g) = IF g < Span THEN g ELSE g - Span
  BY <1>1, <1>3, <1>5, AtValue
<1>8. At(h) \in Slots /\ At(h) = IF h < Span THEN h ELSE h - Span
  BY <1>1, <1>5, AtValue
<1>9. At(j) \in Slots /\ At(j) = IF j < Span THEN j ELSE j - Span
  BY <1>1, <1>5, AtValue
<1>10. PICK b \in 0..(3 * Span - 1) : b = At(a) + z
  <2>1. PICK w \in Slots : w = At(a)
    BY <1>6
  <2>2. w \in Nat /\ w < Span
    BY <1>1 DEF Slots
  <2>3. w + z \in 0..(3 * Span - 1)
    BY <1>1, <1>2, <2>2
  <2> QED BY <2>1, <2>3
<1>11. At(b) = IF b < Span THEN b ELSE IF b < 2 * Span THEN b - Span ELSE b - 2 * Span
  BY AtValue
<1>12. At(b) = At(h)
  BY <1>1, <1>2, <1>3, <1>6, <1>8, <1>10, <1>11
<1>13. PICK c \in 0..(3 * Span - 1) : c = At(a) + (j - (h - z))
  BY <1>1, <1>2, <1>6 DEF Slots
<1>14. At(c) = IF c < Span THEN c ELSE IF c < 2 * Span THEN c - Span ELSE c - 2 * Span
  BY AtValue
<1>15. At(c) = At(j)
  BY <1>1, <1>2, <1>3, <1>6, <1>9, <1>13, <1>14
<1>16. At(h) # At(j)
  BY <1>1, <1>2, <1>5, <1>8, <1>9
<1> QED BY <1>3, <1>4, <1>6, <1>7, <1>8, <1>9, <1>10, <1>12, <1>13, <1>15, <1>16

\* A slot an offset from another is a slot.
LEMMA OffsetSlot ==
  ASSUME NEW i \in Slots, NEW z \in Offsets
  PROVE  At(i + z) \in Slots
<1>1. Span \in Nat /\ Neighbor \in Nat /\ Neighbor > 1 /\ Neighbor < Span
  BY LeafConstants
<1>2. i + z \in 0..(3 * Span - 1)
  BY <1>1 DEF Slots, Offsets
<1> QED BY <1>2, AtValue

\* A hop moves the hole and keeps the bitmaps exact.
LEMMA HopKeepsExact ==
  ASSUME NEW img \in Image, NEW p \in Slots, NEW q \in Slots, NEW c \in Slots,
         NEW z \in Offsets, NEW y \in Offsets,
         p # q, At(c + z) = p, At(c + y) = q,
         z \in img.hop[c], ExactBut(img, q)
  PROVE  /\ ExactBut(HoppedAt(img, p, q, c, z, y), p)
         /\ img.key[p] # kkeyNull
         /\ Home[img.key[p]] = c
<1>1. \A i \in Slots, x \in Offsets :
        x \in img.hop[i] <=> /\ At(i + x) # q
                             /\ img.key[At(i + x)] # kkeyNull
                             /\ Home[img.key[At(i + x)]] = i
  BY DEF ExactBut
<1>2. img.key[p] # kkeyNull /\ Home[img.key[p]] = c
  BY <1>1
<1>3. z # y
  OBVIOUS
<1>4. PICK r \in Image : /\ r = HoppedAt(img, p, q, c, z, y)
         /\ \A i \in Slots : /\ r.key[i] = IF i = q THEN img.key[p] ELSE img.key[i]
                             /\ \A x \in Offsets : x \in r.hop[i] <=>
                                  IF i = c THEN x = y \/ (x \in img.hop[i] /\ x # z)
                                           ELSE x \in img.hop[i]
  BY HoppedSlots
<1>5. ASSUME NEW i \in Slots, NEW x \in Offsets
      PROVE  x \in r.hop[i] <=> /\ At(i + x) # p
                                /\ r.key[At(i + x)] # kkeyNull
                                /\ Home[r.key[At(i + x)]] = i
  <2>1. PICK s \in Slots : s = At(i + x)
    BY OffsetSlot
  <2>2. x \in img.hop[i] <=> s # q /\ img.key[s] # kkeyNull /\ Home[img.key[s]] = i
    BY <1>1, <2>1
  <2>3. r.key[s] = IF s = q THEN img.key[p] ELSE img.key[s]
    BY <1>4
  <2>4. x \in r.hop[i] <=>
          IF i = c THEN x = y \/ (x \in img.hop[i] /\ x # z) ELSE x \in img.hop[i]
    BY <1>4
  <2>5. i = c => (s = p <=> x = z) /\ (s = q <=> x = y)
    BY <2>1, OffsetUnique
  <2>6. x \in r.hop[i] <=> s # p /\ r.key[s] # kkeyNull /\ Home[r.key[s]] = i
    <3>1. CASE i = c
      BY <1>2, <1>3, <2>2, <2>3, <2>4, <2>5, <3>1
    <3>2. CASE i # c
      BY <1>2, <2>2, <2>3, <2>4, <3>2
    <3> QED BY <3>1, <3>2
  <2> QED BY <2>1, <2>6
<1>6. ExactBut(r, p)
  BY <1>5 DEF ExactBut
<1> QED BY <1>2, <1>4, <1>6

\* Placing the key fills the hole.
LEMMA PlaceKeepsExact ==
  ASSUME NEW img \in Image, NEW k \in LeafKeys, NEW v \in 0..Versions,
         NEW q \in Slots, NEW y \in Offsets, At(Home[k] + y) = q, ExactBut(img, q)
  PROVE  ExactBut(PlacedAt(img, k, v, q, y), Span)
<1>1. Span \in Nat /\ Span > 0 /\ k # kkeyNull
  BY LeafConstants DEF LeafKeys, kkeyNull
<1>2. PICK c \in Slots : c = Home[k]
  BY LeafConstants
<1>3. \A i \in Slots, x \in Offsets :
        x \in img.hop[i] <=> /\ At(i + x) # q
                             /\ img.key[At(i + x)] # kkeyNull
                             /\ Home[img.key[At(i + x)]] = i
  BY DEF ExactBut
<1>4. PICK r \in Image : /\ r = PlacedAt(img, k, v, q, y)
         /\ \A i \in Slots : /\ r.key[i] = IF i = q THEN k ELSE img.key[i]
                             /\ \A x \in Offsets : x \in r.hop[i] <=>
                                  x \in img.hop[i] \/ (i = Home[k] /\ x = y)
  BY PlacedSlots
<1>5. ASSUME NEW i \in Slots, NEW x \in Offsets
      PROVE  x \in r.hop[i] <=> /\ At(i + x) # Span
                                /\ r.key[At(i + x)] # kkeyNull
                                /\ Home[r.key[At(i + x)]] = i
  <2>1. PICK s \in Slots : s = At(i + x)
    BY OffsetSlot
  <2>2. x \in img.hop[i] <=> s # q /\ img.key[s] # kkeyNull /\ Home[img.key[s]] = i
    BY <1>3, <2>1
  <2>3. r.key[s] = IF s = q THEN k ELSE img.key[s]
    BY <1>4
  <2>4. x \in r.hop[i] <=> x \in img.hop[i] \/ (i = c /\ x = y)
    BY <1>2, <1>4
  <2>5. i = c => (s = q <=> x = y)
    BY <1>2, <2>1, OffsetUnique
  <2>6. x \in r.hop[i] <=> r.key[s] # kkeyNull /\ Home[r.key[s]] = i
    <3>1. CASE i = c
      BY <1>1, <1>2, <2>2, <2>3, <2>4, <2>5, <3>1
    <3>2. CASE i # c
      BY <1>2, <2>2, <2>3, <2>4, <3>2
    <3> QED BY <3>1, <3>2
  <2>7. s # Span
    BY <1>1 DEF Slots
  <2> QED BY <2>1, <2>6, <2>7
<1>6. ExactBut(r, Span)
  BY <1>5 DEF ExactBut
<1> QED BY <1>4, <1>6

-----------------------------------------------------------------------------
(* Empty slots and the split key *)

\* The search for an empty slot finds the first one.
LEMMA FirstEmptySlot ==
  ASSUME NEW img, NEW l \in Slots, NEW n \in 0..Span, HasEmpty(img, l, n)
  PROVE  /\ FirstEmpty(img, l, n) \in l..(l + n - 1)
         /\ img.key[At(FirstEmpty(img, l, n))] = kkeyNull
         /\ \A x \in l..(FirstEmpty(img, l, n) - 1) : img.key[At(x)] # kkeyNull
<1>1. Span \in Nat /\ Span > 0 /\ l \in Nat /\ n \in Nat
  BY LeafConstants DEF Slots
<1>2. PICK S : S = {i \in l..(l + n - 1) : img.key[At(i)] = kkeyNull}
  OBVIOUS
<1>3. S \subseteq Nat /\ S # {}
  BY <1>1, <1>2 DEF HasEmpty
<1>4. PICK e : e = Min(S)
  OBVIOUS
<1>5. e \in S /\ \A y \in S : e <= y
  BY <1>3, <1>4, MinOfNat
<1>6. FirstEmpty(img, l, n) = e
  BY <1>2, <1>4 DEF FirstEmpty
<1>7. ASSUME NEW x \in l..(e - 1) PROVE img.key[At(x)] # kkeyNull
  <2>1. x \notin S /\ x \in l..(l + n - 1)
    BY <1>1, <1>2, <1>5
  <2> QED BY <1>2, <2>1
<1> QED BY <1>2, <1>5, <1>6, <1>7

\* The values of f on A, and the elements with values below x and up to x.
Values(A, f) == {f[e] : e \in A}
Under(A, f, x) == {e \in A : f[e] < x}
UpTo(A, f, x) == {e \in A : f[e] <= x}

\* The middle of a finite family of numbers exists.
LEMMA MedianExists ==
  ASSUME NEW A, IsFiniteSet(A), A # {}, NEW m \in Nat, NEW f \in [A -> 0..m]
  PROVE  \E x \in Values(A, f) : /\ Cardinality(Under(A, f, x)) <= Cardinality(A) \div 2
                                 /\ Cardinality(A) \div 2 < Cardinality(UpTo(A, f, x))
<1>1. PICK c \in Nat : c = Cardinality(A) /\ c > 0
  <2>1. Cardinality(A) \in Nat /\ Cardinality(A) # 0
    BY FS_CardinalityType, FS_EmptySet
  <2> QED BY <2>1
<1>2. PICK r \in Nat : r = c \div 2 /\ r < c
  BY <1>1
<1>3. PICK V : V = Values(A, f)
  OBVIOUS
<1>4. PICK U : U = {x \in V : r < Cardinality(UpTo(A, f, x))}
  OBVIOUS
<1>5. V \subseteq 0..m /\ V # {}
  BY <1>3 DEF Values
<1>6. U # {}
  <2>1. PICK t \in V : \A y \in V : y <= t
    BY <1>5, GreatestNat
  <2>2. UpTo(A, f, t) = A
    BY <1>3, <2>1 DEF UpTo, Values
  <2>3. t \in U
    BY <1>1, <1>2, <1>4, <2>2
  <2> QED BY <2>3
<1>7. PICK x \in U : \A y \in U : x <= y
  <2>1. U \subseteq V
    BY <1>4
  <2>2. U \subseteq Nat
    BY <1>5, <2>1
  <2> QED BY <1>6, <2>2, LeastNat
<1>8. x \in V /\ x \in Nat /\ r < Cardinality(UpTo(A, f, x))
  BY <1>4, <1>5
<1>9. Cardinality(Under(A, f, x)) <= r
  <2>1. CASE Under(A, f, x) = {}
    <3>1. Cardinality({}) = 0
      BY FS_EmptySet
    <3> QED BY <1>2, <2>1, <3>1
  <2>2. CASE Under(A, f, x) # {}
    <3>1. PICK L : L = {y \in V : y < x}
      OBVIOUS
    <3>2. L # {} /\ L \subseteq 0..m
      BY <1>3, <1>5, <2>2, <3>1 DEF Under, Values
    <3>3. PICK t \in L : \A y \in L : y <= t
      BY <3>2, GreatestNat
    <3>4. Under(A, f, x) = UpTo(A, f, t)
      <4>1. ASSUME NEW e \in A PROVE f[e] < x <=> f[e] <= t
        <5>1. f[e] \in V /\ f[e] \in Nat /\ t \in Nat /\ t < x
          BY <1>3, <3>1, <3>2, <3>3 DEF Values
        <5>2. f[e] < x => f[e] <= t
          BY <3>1, <3>3, <5>1
        <5> QED BY <1>8, <5>1, <5>2
      <4> QED BY <4>1 DEF Under, UpTo
    <3>5. t \in V /\ t \notin U
      <4>1. t \in V /\ t < x /\ t \in Nat
        BY <3>1, <3>2, <3>3
      <4>2. t \in U => x <= t
        BY <1>7
      <4> QED BY <1>8, <4>1, <4>2
    <3>6. ~(r < Cardinality(UpTo(A, f, t)))
      BY <1>4, <3>5
    <3>7. Cardinality(UpTo(A, f, t)) \in Nat
      <4>1. IsFiniteSet(UpTo(A, f, t))
        BY FS_Subset DEF UpTo
      <4> QED BY <4>1, FS_CardinalityType
    <3> QED BY <3>4, <3>6, <3>7
  <2> QED BY <2>1, <2>2
<1> QED BY <1>1, <1>2, <1>3, <1>8, <1>9

\* The keys a split key is chosen from are in the run of taken slots.
LEMMA ReachableInRun ==
  ASSUME NEW k
  PROVE  Reachable(k) \subseteq Home[k]..(Home[k] + RunLength(k) - 1)
BY DEF Reachable

\* The slots of the run are taken.
LEMMA RunSlots ==
  ASSUME NEW k \in LeafKeys
  PROVE  /\ RunLength(k) \in 0..Span
         /\ \A x \in Home[k]..(Home[k] + RunLength(k) - 1) : leaf.key[At(x)] # kkeyNull
<1>1. Span \in Nat /\ Span > 0
  BY LeafConstants
<1>2. PICK l \in Slots : l = Home[k]
  BY LeafConstants
<1>3. l \in Nat /\ l < Span
  BY <1>1 DEF Slots
<1>4. CASE HasEmpty(leaf, l, Span)
  <2>1. Span \in 0..Span
    BY <1>1
  <2>2. PICK e : e = FirstEmpty(leaf, l, Span)
    OBVIOUS
  <2>3. /\ e \in l..(l + Span - 1)
        /\ \A x \in l..(e - 1) : leaf.key[At(x)] # kkeyNull
    BY <1>4, <2>1, <2>2, FirstEmptySlot
  <2>4. RunLength(k) = e - l
    BY <1>2, <1>4, <2>2 DEF RunLength
  <2>5. l + RunLength(k) - 1 = e - 1 /\ RunLength(k) \in 0..Span
    BY <1>1, <1>3, <2>3, <2>4
  <2> QED BY <1>2, <2>3, <2>5
<1>5. CASE ~HasEmpty(leaf, l, Span)
  <2>1. RunLength(k) = Span
    BY <1>2, <1>5 DEF RunLength
  <2> QED BY <1>1, <1>2, <1>5, <2>1 DEF HasEmpty
<1> QED BY <1>4, <1>5

\* The key a leaf is split at is the median of the keys counted on and k.
LEMMA SplitKeyMedian ==
  ASSUME leaf \in Image, NEW k \in LeafKeys
  PROVE  \E A, f :
           /\ A = Reachable(k) \cup {-1} /\ IsFiniteSet(A)
           /\ \A e \in A : f[e] \in LeafKeys /\ f[e] = IF e = -1 THEN k ELSE leaf.key[At(e)]
           /\ SplitKey(k) \in Values(A, f)
           /\ Cardinality(Under(A, f, SplitKey(k))) <= Cardinality(A) \div 2
           /\ Cardinality(A) \div 2 < Cardinality(UpTo(A, f, SplitKey(k)))
<1>1. Span \in Nat /\ Span > 0 /\ MaxKey \in Nat
  BY LeafConstants
<1>2. PICK l \in Slots : l = Home[k]
  BY LeafConstants
<1>3. l \in Nat /\ l < Span
  BY <1>1 DEF Slots
<1>4. /\ RunLength(k) \in 0..Span
      /\ \A x \in l..(l + RunLength(k) - 1) : leaf.key[At(x)] # kkeyNull
  BY <1>2, RunSlots
<1>5. PICK es : es = Reachable(k)
  OBVIOUS
<1>6. es \subseteq l..(l + RunLength(k) - 1)
  BY <1>2, <1>5, ReachableInRun
<1>7. IsFiniteSet(es)
  <2>1. l \in Int /\ l + RunLength(k) - 1 \in Int
    BY <1>3, <1>4
  <2>2. IsFiniteSet(l..(l + RunLength(k) - 1))
    BY <2>1, FS_Interval
  <2> QED BY <1>6, <2>2, FS_Subset
<1>8. \A e \in es : leaf.key[At(e)] \in LeafKeys
  <2>1. TAKE e \in es
  <2>2. e \in l..(l + RunLength(k) - 1) /\ leaf.key[At(e)] # kkeyNull
    BY <1>4, <1>6
  <2>3. e \in 0..(3 * Span - 1)
    BY <1>1, <1>3, <1>4, <2>2
  <2>4. At(e) \in Slots
    BY <2>3, AtValue
  <2>5. leaf.key[At(e)] \in 0..MaxKey
    BY <2>4 DEF Image
  <2> QED BY <1>1, <2>2, <2>5 DEF LeafKeys, kkeyNull
<1>9. PICK A : A = es \cup {-1}
  OBVIOUS
<1>10. IsFiniteSet(A) /\ A # {}
  BY <1>7, <1>9, FS_AddElement
<1>11. PICK f : f = [e \in A |-> IF e = -1 THEN k ELSE leaf.key[At(e)]]
  OBVIOUS
<1>12. \A e \in A : f[e] \in LeafKeys /\ f[e] = IF e = -1 THEN k ELSE leaf.key[At(e)]
  BY <1>8, <1>9, <1>11
<1>13. f \in [A -> 0..MaxKey]
  BY <1>1, <1>11, <1>12 DEF LeafKeys
<1>14. \E x \in Values(A, f) : /\ Cardinality(Under(A, f, x)) <= Cardinality(A) \div 2
                               /\ Cardinality(A) \div 2 < Cardinality(UpTo(A, f, x))
  BY <1>1, <1>10, <1>13, MedianExists
<1>15. SplitKey(k) = CHOOSE x \in Values(A, f) :
                       /\ Cardinality(Under(A, f, x)) <= Cardinality(A) \div 2
                       /\ Cardinality(A) \div 2 < Cardinality(UpTo(A, f, x))
  <2>1. {IF e = -1 THEN k ELSE leaf.key[At(e)] : e \in A} = Values(A, f)
    BY <1>12 DEF Values
  <2>2. \A x : {e \in A : (IF e = -1 THEN k ELSE leaf.key[At(e)]) < x} = Under(A, f, x)
    BY <1>12 DEF Under
  <2>3. \A x : {e \in A : (IF e = -1 THEN k ELSE leaf.key[At(e)]) <= x} = UpTo(A, f, x)
    BY <1>12 DEF UpTo
  <2> QED BY <1>5, <1>9, <2>1, <2>2, <2>3 DEF SplitKey, MedianWith
<1>16. /\ SplitKey(k) \in Values(A, f)
       /\ Cardinality(Under(A, f, SplitKey(k))) <= Cardinality(A) \div 2
       /\ Cardinality(A) \div 2 < Cardinality(UpTo(A, f, SplitKey(k)))
  BY <1>14, <1>15
<1> QED BY <1>5, <1>9, <1>10, <1>12, <1>16

\* It is a key.
LEMMA SplitKeyType ==
  ASSUME leaf \in Image, NEW k \in LeafKeys
  PROVE  SplitKey(k) \in LeafKeys
BY SplitKeyMedian DEF Values

\* The slots in the range of a bucket are those find_bucket maps to it.
LEMMA BucketOf ==
  ASSUME NEW b \in Buckets, NEW i \in FirstIn(b)..LastIn(b)
  PROVE  i \in Slots /\ find_bucket(i) = b
<1>1. /\ Span \in Nat /\ Span > 0 /\ VacancyBits \in Nat /\ VacancyBits > 0
      /\ b \in Nat /\ b + 1 <= VacancyBits
  BY LeafConstants DEF Buckets
<1>2. b \in 0..VacancyBits /\ b + 1 \in 0..VacancyBits
  BY <1>1
<1>3. FirstIn(b) \in Slots /\ LastIn(b) \in Slots
  BY BucketSlots
<1>4. i \in Slots /\ i \in Nat
  BY <1>1, <1>3 DEF Slots
<1>5. PICK f \in Nat : f = FirstIn(b) /\ f * VacancyBits >= b * Span
  BY <1>2, FirstInBounds
<1>6. PICK g \in Nat : g = FirstIn(b + 1) /\ g * VacancyBits < (b + 1) * Span + VacancyBits
  BY <1>2, FirstInBounds
<1>7. f <= i /\ i + 1 <= g
  BY <1>4, <1>5, <1>6 DEF LastIn
<1>8. PICK a \in Nat : a = i * VacancyBits
  BY <1>1, <1>4
<1>9. /\ b * Span \in Nat /\ (b + 1) * Span = b * Span + Span
      /\ f * VacancyBits \in Nat /\ g * VacancyBits \in Nat
      /\ (i + 1) * VacancyBits = a + VacancyBits
  BY <1>1, <1>4, <1>8
<1>10. f * VacancyBits <= i * VacancyBits /\ (i + 1) * VacancyBits <= g * VacancyBits
  BY <1>1, <1>4, <1>7, MulMono
<1>11. b * Span <= a /\ a < b * Span + Span
  BY <1>1, <1>5, <1>6, <1>8, <1>9, <1>10
<1>12. PICK c \in Nat : c = a \div Span /\ c * Span <= a /\ a < c * Span + Span
  BY <1>1, DivBounds
<1>13. c * Span \in Nat /\ (c + 1) * Span = c * Span + Span
  BY <1>1
<1>14. ~(c + 1 <= b)
  <2>1. SUFFICES ASSUME c + 1 <= b PROVE FALSE
    OBVIOUS
  <2>2. (c + 1) * Span <= b * Span
    BY <1>1, <2>1, MulMono
  <2> QED BY <1>1, <1>9, <1>11, <1>12, <1>13, <2>2
<1>15. ~(b + 1 <= c)
  <2>1. SUFFICES ASSUME b + 1 <= c PROVE FALSE
    OBVIOUS
  <2>2. (b + 1) * Span <= c * Span
    BY <1>1, <2>1, MulMono
  <2> QED BY <1>1, <1>9, <1>11, <1>12, <1>13, <2>2
<1>16. c = b
  BY <1>1, <1>14, <1>15
<1> QED BY <1>4, <1>8, <1>12, <1>16 DEF find_bucket

\* There is no slot Span: without a hole the bitmaps are just exact.
LEMMA ExactIsExact ==
  ASSUME NEW img
  PROVE  ExactBut(img, Span) <=>
           \A i \in Slots, z \in Offsets :
             z \in img.hop[i] <=> /\ img.key[At(i + z)] # kkeyNull
                                  /\ Home[img.key[At(i + z)]] = i
<1>1. \A i \in Slots, z \in Offsets : At(i + z) # Span
  <2>1. TAKE i \in Slots, z \in Offsets
  <2>2. At(i + z) \in Slots
    BY OffsetSlot
  <2> QED BY <2>2, LeafConstants DEF Slots
<1> QED BY <1>1 DEF ExactBut

\* An empty slot may be taken for the hole.
LEMMA EmptyIsHole ==
  ASSUME NEW img, NEW q, img.key[q] = kkeyNull, ExactBut(img, Span)
  PROVE  ExactBut(img, q)
<1>1. \A i \in Slots, z \in Offsets : At(i + z) # Span
  <2>1. TAKE i \in Slots, z \in Offsets
  <2>2. At(i + z) \in Slots
    BY OffsetSlot
  <2> QED BY <2>2, LeafConstants DEF Slots
<1>2. \A i \in Slots, z \in Offsets : img.key[At(i + z)] # kkeyNull => At(i + z) # q
  OBVIOUS
<1> QED BY <1>1, <1>2 DEF ExactBut

\* The halves of a split are images with exact bitmaps.
LEMMA LeftHalfExact ==
  ASSUME leaf \in Image, ExactBut(leaf, Span), NEW s \in LeafKeys
  PROVE  LeftHalf(s) \in Image /\ ExactBut(LeftHalf(s), Span)
<1>1. /\ leaf.key \in [Slots -> 0..MaxKey] /\ leaf.val \in [Slots -> 0..Versions]
      /\ leaf.hop \in [Slots -> SUBSET Offsets]
  BY DEF Image
<1>2. PICK r : r = LeftHalf(s)
  OBVIOUS
<1>3. /\ r.key = [i \in Slots |-> IF Moves(i, s) THEN kkeyNull ELSE leaf.key[i]]
      /\ r.val = [i \in Slots |-> IF Moves(i, s) THEN 0 ELSE leaf.val[i]]
      /\ r.hop = [i \in Slots |-> leaf.hop[i] \ MovedBits(i, s)]
      /\ r = [key |-> r.key, val |-> r.val, hop |-> r.hop]
  BY <1>2 DEF LeftHalf
<1>4. r.key \in [Slots -> 0..MaxKey] /\ r.val \in [Slots -> 0..Versions]
  BY <1>1, <1>3, LeafConstants DEF kkeyNull
<1>5. r.hop \in [Slots -> SUBSET Offsets]
  BY <1>1, <1>3
<1>6. r \in Image
  BY <1>3, <1>4, <1>5 DEF Image
<1>7. ASSUME NEW i \in Slots, NEW z \in Offsets
      PROVE  z \in r.hop[i] <=> /\ At(i + z) # Span
                                /\ r.key[At(i + z)] # kkeyNull
                                /\ Home[r.key[At(i + z)]] = i
  <2>1. PICK a \in Slots : a = At(i + z)
    BY OffsetSlot
  <2>2. z \in leaf.hop[i] <=> a # Span /\ leaf.key[a] # kkeyNull /\ Home[leaf.key[a]] = i
    BY <2>1 DEF ExactBut
  <2>3. z \in r.hop[i] <=> z \in leaf.hop[i] /\ ~(Moves(a, s) /\ Home[leaf.key[a]] = i)
    BY <1>3, <2>1 DEF MovedBits
  <2>4. r.key[a] = IF Moves(a, s) THEN kkeyNull ELSE leaf.key[a]
    BY <1>3
  <2> QED BY <2>1, <2>2, <2>3, <2>4
<1>8. ExactBut(r, Span)
  BY <1>7 DEF ExactBut
<1> QED BY <1>2, <1>6, <1>8

\* So are those of the half that goes to the new leaf.
LEMMA RightHalfExact ==
  ASSUME leaf \in Image, ExactBut(leaf, Span), NEW s \in LeafKeys
  PROVE  RightHalf(s) \in Image /\ ExactBut(RightHalf(s), Span)
<1>1. /\ leaf.key \in [Slots -> 0..MaxKey] /\ leaf.val \in [Slots -> 0..Versions]
      /\ leaf.hop \in [Slots -> SUBSET Offsets]
  BY DEF Image
<1>2. PICK r : r = RightHalf(s)
  OBVIOUS
<1>3. /\ r.key = [i \in Slots |-> IF Moves(i, s) THEN leaf.key[i] ELSE kkeyNull]
      /\ r.val = [i \in Slots |-> IF Moves(i, s) THEN leaf.val[i] ELSE 0]
      /\ r.hop = [i \in Slots |-> MovedBits(i, s)]
      /\ r = [key |-> r.key, val |-> r.val, hop |-> r.hop]
  BY <1>2 DEF RightHalf
<1>4. r.key \in [Slots -> 0..MaxKey] /\ r.val \in [Slots -> 0..Versions]
  BY <1>1, <1>3, LeafConstants DEF kkeyNull
<1>5. r.hop \in [Slots -> SUBSET Offsets]
  <2>1. \A i \in Slots : MovedBits(i, s) \subseteq Offsets
    BY DEF MovedBits
  <2> QED BY <1>3, <2>1
<1>6. r \in Image
  BY <1>3, <1>4, <1>5 DEF Image
<1>7. ASSUME NEW i \in Slots, NEW z \in Offsets
      PROVE  z \in r.hop[i] <=> /\ At(i + z) # Span
                                /\ r.key[At(i + z)] # kkeyNull
                                /\ Home[r.key[At(i + z)]] = i
  <2>1. PICK a \in Slots : a = At(i + z)
    BY OffsetSlot
  <2>2. z \in leaf.hop[i] <=> a # Span /\ leaf.key[a] # kkeyNull /\ Home[leaf.key[a]] = i
    BY <2>1 DEF ExactBut
  <2>3. z \in r.hop[i] <=> Moves(a, s) /\ Home[leaf.key[a]] = i
    BY <1>3, <2>1 DEF MovedBits
  <2>4. r.key[a] = IF Moves(a, s) THEN leaf.key[a] ELSE kkeyNull
    BY <1>3
  <2>5. Moves(a, s) => leaf.key[a] # kkeyNull
    BY LeafConstants DEF Moves, kkeyNull, LeafKeys
  <2>6. a # Span
    BY LeafConstants DEF Slots
  <2> QED BY <2>1, <2>3, <2>4, <2>5, <2>6
<1>8. ExactBut(r, Span)
  BY <1>7 DEF ExactBut
<1> QED BY <1>2, <1>6, <1>8

-----------------------------------------------------------------------------
(* The steps *)

\* What the invariant says of the leaf when no insertion is in its loop.
LeafGood == /\ leaf \in Image /\ vac \in SUBSET Buckets /\ maxidx \in Slots
            /\ HopBitmapExact /\ VacancySound /\ MaxKeyKnown

\* Writing a whole image makes vacancy bitmap and max_key_idx right.
LEMMA RewriteGood ==
  ASSUME NEW img \in Image, ExactBut(img, Span), Rewrite(img)
  PROVE  LeafGood' /\ op' = NoOp
<1>1. /\ leaf' = img /\ maxidx' = MaxKeyIdx(img) /\ op' = NoOp
      /\ vac' = Buckets \ {find_bucket(i) : i \in Slots \ Occupied(img)}
  BY DEF Rewrite
<1>2. Span \in Nat /\ Span > 0 /\ MaxKey \in Nat
  BY LeafConstants
<1>3. img.key \in [Slots -> 0..MaxKey]
  BY DEF Image
<1>4. HopBitmapExact'
  BY <1>1, ExactIsExact DEF HopBitmapExact
<1>5. VacancySound'
  <2>1. SUFFICES ASSUME NEW b \in Buckets \ vac'
                 PROVE  \E i \in FirstIn(b)..LastIn(b) : img.key[i] = kkeyNull
    BY <1>1 DEF VacancySound
  <2>2. PICK i \in Slots \ Occupied(img) : b = find_bucket(i)
    BY <1>1, <2>1
  <2>3. i \in FirstIn(b)..LastIn(b)
    BY <2>2, BucketRange
  <2>4. img.key[i] = kkeyNull
    BY <2>2 DEF Occupied
  <2> QED BY <2>3, <2>4
<1>6. \E i \in Slots : \A j \in Slots : img.key[j] <= img.key[i]
  <2>1. PICK S : S = {img.key[i] : i \in Slots}
    OBVIOUS
  <2>2. S \subseteq 0..MaxKey
    BY <1>3, <2>1
  <2>3. S # {}
    <3>1. 0 \in Slots
      BY <1>2 DEF Slots
    <3> QED BY <2>1, <3>1
  <2>4. PICK x \in S : \A y \in S : y <= x
    BY <1>2, <2>2, <2>3, GreatestNat
  <2>5. PICK i \in Slots : x = img.key[i]
    BY <2>1
  <2>6. \A j \in Slots : img.key[j] <= img.key[i]
    BY <2>1, <2>4, <2>5
  <2> QED BY <2>6
<1>7. MaxKeyIdx(img) \in Slots /\ \A j \in Slots : img.key[j] <= img.key[MaxKeyIdx(img)]
  BY <1>6 DEF MaxKeyIdx
<1>8. MaxKeyKnown'
  BY <1>1, <1>7 DEF MaxKeyKnown
<1> QED BY <1>1, <1>4, <1>5, <1>7, <1>8 DEF LeafGood

\* NoOp is a value of op.
LEMMA NoOpType ==
  /\ NoOp \in [pc : {"idle", "hop", "split", "local"}, k : LeafKeys, img : Image,
               e : 0..(2 * Span), j : 0..(2 * Span), hopped : SUBSET Slots]
  /\ EmptyImage \in Image /\ NoOp.pc = "idle"
<1>1. Span \in Nat /\ 1 \in LeafKeys /\ 0 \in 0..(2 * Span) /\ 0 \in 0..MaxKey /\ 0 \in 0..Versions
  BY LeafConstants DEF LeafKeys
<1>2. EmptyImage \in Image
  BY <1>1 DEF EmptyImage, Image, kkeyNull
<1>3. NoOp.pc = "idle"
  BY DEF NoOp
<1> QED BY <1>1, <1>2, <1>3 DEF NoOp

\* The root leaf that Tree::Tree writes.
LEMMA InitLeaf == LeafInit => LeafInv
<1> SUFFICES ASSUME LeafInit PROVE LeafInv
  OBVIOUS
<1>1. /\ Span \in Nat /\ Span > 0 /\ Neighbor \in Nat /\ Neighbor > 1 /\ MaxKey \in Nat /\ MaxKey > 1
      /\ Versions \in Nat /\ Versions > 0
  BY LeafConstants
<1>2. MaxKey \in LeafKeys /\ 1 \in LeafKeys /\ 1 \in 0..Versions /\ 0 \in Offsets
  BY <1>1 DEF LeafKeys, Offsets
<1>3. PICK l \in Slots : l = Home[MaxKey]
  BY <1>2, LeafConstants
<1>4. l \in 0..(3 * Span - 1) /\ l \in Nat /\ l < Span /\ l - l = 0 /\ l + 0 = l
  BY <1>1 DEF Slots
<1>5. At(l) = l
  BY <1>1, <1>4, AtValue
<1>6. leaf = PlacedAt(EmptyImage, MaxKey, 1, l, 0)
  BY <1>3, <1>4, <1>5 DEF LeafInit, Placed, PlacedAt
<1>7. EmptyImage \in Image
  BY NoOpType
<1>8. ExactBut(EmptyImage, l)
  <2>1. ASSUME NEW i \in Slots, NEW z \in Offsets
        PROVE  z \notin EmptyImage.hop[i] /\ EmptyImage.key[At(i + z)] = kkeyNull
    <3>1. At(i + z) \in Slots
      BY OffsetSlot
    <3> QED BY <3>1 DEF EmptyImage
  <2> QED BY <2>1 DEF ExactBut
<1>9. ExactBut(leaf, Span)
  <2>1. At(Home[MaxKey] + 0) = l
    BY <1>3, <1>4, <1>5
  <2> QED BY <1>2, <1>6, <1>7, <1>8, <2>1, PlaceKeepsExact
<1>10. /\ leaf \in Image
       /\ \A i \in Slots : leaf.key[i] = IF i = l THEN MaxKey ELSE EmptyImage.key[i]
  BY <1>2, <1>6, <1>7, PlacedSlots
<1>11. \A i \in Slots : leaf.key[i] = IF i = l THEN MaxKey ELSE 0
  BY <1>10 DEF EmptyImage, kkeyNull
<1>12. HopBitmapExact
  BY <1>9, ExactIsExact DEF HopBitmapExact
<1>13. VacancySound
  <2>1. SUFFICES ASSUME NEW b \in Buckets \ vac
                 PROVE  \E i \in FirstIn(b)..LastIn(b) : leaf.key[i] = kkeyNull
    BY DEF VacancySound
  <2>2. b # find_bucket(l)
    BY <1>3 DEF LeafInit
  <2>3. PICK f \in Slots : f = FirstIn(b) /\ f <= LastIn(b) /\ LastIn(b) \in Slots /\ find_bucket(f) = b
    BY BucketSlots
  <2>4. f # l
    BY <2>2, <2>3
  <2>5. leaf.key[f] = kkeyNull
    BY <1>11, <2>4 DEF kkeyNull
  <2>6. f \in FirstIn(b)..LastIn(b)
    BY <1>1, <2>3 DEF Slots
  <2> QED BY <2>5, <2>6
<1>14. MaxKeyKnown
  BY <1>1, <1>3, <1>11 DEF MaxKeyKnown, LeafInit
<1>15. LeafTypeOK
  <2>1. vac \in SUBSET Buckets
    BY <1>3, BucketRange DEF LeafInit
  <2>2. latest \in [LeafKeys -> 0..Versions]
    BY <1>1 DEF LeafInit
  <2> QED BY <1>2, <1>3, <1>10, <2>1, <2>2, NoOpType DEF LeafTypeOK, LeafInit
<1>16. op.pc = "idle"
  BY NoOpType DEF LeafInit
<1>17. LoopInv /\ HoppedInv /\ RunInv /\ OpInv
  BY <1>16 DEF LoopInv, HoppedInv, RunInv, OpInv, InLoop
<1> QED BY <1>12, <1>13, <1>14, <1>15, <1>17 DEF LeafInv

\* The fields of op.
LEMMA OpFields ==
  ASSUME LeafTypeOK
  PROVE  /\ op.pc \in {"idle", "hop", "split", "local"} /\ op.k \in LeafKeys
         /\ op.img \in Image /\ op.hopped \subseteq Slots
         /\ op.e \in 0..(2 * Span) /\ op.j \in 0..(2 * Span)
         /\ op = [pc |-> op.pc, k |-> op.k, img |-> op.img, e |-> op.e, j |-> op.j,
                  hopped |-> op.hopped]
BY DEF LeafTypeOK

\* Writing a value in place disturbs nothing.
LEMMA WriteValue ==
  ASSUME LeafInv, op.pc = "idle", NEW k \in LeafKeys, NEW i \in Slots, latest[k] < Versions,
         leaf' = [leaf EXCEPT !.val[i] = NextVal(k)],
         latest' = [latest EXCEPT ![k] = NextVal(k)],
         UNCHANGED <<vac, maxidx, lo, op>>
  PROVE  /\ LeafInv' /\ leaf'.key = leaf.key
         /\ leaf'.val = [leaf.val EXCEPT ![i] = NextVal(k)]
         /\ leaf'.val \in [Slots -> 0..Versions]
<1>1. LeafTypeOK /\ HopBitmapExact /\ VacancySound /\ MaxKeyKnown
  BY DEF LeafInv
<1>2. /\ leaf.key \in [Slots -> 0..MaxKey] /\ leaf.val \in [Slots -> 0..Versions]
      /\ leaf.hop \in [Slots -> SUBSET Offsets] /\ latest \in [LeafKeys -> 0..Versions]
  BY <1>1 DEF LeafTypeOK, Image
<1>3. NextVal(k) \in 0..Versions
  BY <1>2, LeafConstants DEF NextVal
<1>4. PICK v \in 0..Versions : v = NextVal(k)
  BY <1>3
<1>5. PICK r : r = leaf'
  OBVIOUS
<1>6. /\ r.key = leaf.key /\ r.hop = leaf.hop /\ r.val = [leaf.val EXCEPT ![i] = v]
      /\ r = [key |-> r.key, val |-> r.val, hop |-> r.hop]
  BY <1>1, <1>4, <1>5 DEF LeafTypeOK, Image
<1>7. r.val \in [Slots -> 0..Versions]
  BY <1>2, <1>6
<1>8. r \in Image
  BY <1>2, <1>6, <1>7 DEF Image
<1>9. latest' \in [LeafKeys -> 0..Versions]
  BY <1>2, <1>3
<1>10. LeafTypeOK'
  BY <1>1, <1>5, <1>8, <1>9 DEF LeafTypeOK
<1>11. HopBitmapExact' /\ VacancySound' /\ MaxKeyKnown'
  BY <1>1, <1>5, <1>6 DEF HopBitmapExact, VacancySound, MaxKeyKnown
<1>12. LoopInv' /\ HoppedInv' /\ RunInv' /\ OpInv'
  BY DEF LoopInv, HoppedInv, RunInv, OpInv, InLoop
<1> QED BY <1>4, <1>5, <1>6, <1>7, <1>10, <1>11, <1>12 DEF LeafInv

\* An insertion that finds the key among the entries it has read.
LEMMA InsertExistingStep ==
  ASSUME LeafInv, NEW k \in LeafKeys, InsertExisting(k)
  PROVE  LeafInv'
<1>1. op.pc = "idle" /\ latest[k] < Versions
  BY DEF InsertExisting, Insertable
<1>2. PICK i \in Slots : leaf' = [leaf EXCEPT !.val[i] = NextVal(k)]
  BY DEF InsertExisting
<1>3. latest' = [latest EXCEPT ![k] = NextVal(k)] /\ UNCHANGED <<vac, maxidx, lo, op>>
  BY DEF InsertExisting
<1> QED BY <1>1, <1>2, <1>3, WriteValue

\* An update.
LEMMA UpdateStep ==
  ASSUME LeafInv, NEW k \in LeafKeys, Update(k)
  PROVE  LeafInv'
<1>1. op.pc = "idle" /\ latest[k] < Versions
  BY LeafConstants DEF Update
<1>2. PICK i \in Slots : leaf' = [leaf EXCEPT !.val[i] = NextVal(k)]
  BY DEF Update, Matches
<1>3. latest' = [latest EXCEPT ![k] = NextVal(k)] /\ UNCHANGED <<vac, maxidx, lo, op>>
  BY DEF Update
<1> QED BY <1>1, <1>2, <1>3, WriteValue

\* What has been read of the leaf is what is there.
LEMMA ReadSlots ==
  ASSUME leaf \in Image, NEW l \in Slots, NEW n \in 1..Span
  PROVE  /\ ReadFrom(l, n) \in Image
         /\ \A x \in l..(l + n - 1) :
              /\ At(x) \in Slots
              /\ ReadFrom(l, n).key[At(x)] = leaf.key[At(x)]
              /\ ReadFrom(l, n).val[At(x)] = leaf.val[At(x)]
              /\ ReadFrom(l, n).hop[At(x)] = leaf.hop[At(x)]
<1>1. Span \in Nat /\ Span > 0 /\ l \in Nat /\ l < Span /\ n \in Nat
  BY LeafConstants DEF Slots
<1>2. PICK seen : seen = {At(l + i) : i \in 0..(n - 1)}
  OBVIOUS
<1>3. PICK r : r = ReadFrom(l, n)
  OBVIOUS
<1>4. /\ r.key = [i \in Slots |-> IF i \in seen THEN leaf.key[i] ELSE kkeyNull]
      /\ r.val = [i \in Slots |-> IF i \in seen THEN leaf.val[i] ELSE 0]
      /\ r.hop = [i \in Slots |-> IF i \in seen THEN leaf.hop[i] ELSE {}]
      /\ r = [key |-> r.key, val |-> r.val, hop |-> r.hop]
  BY <1>2, <1>3 DEF ReadFrom
<1>5. /\ leaf.key \in [Slots -> 0..MaxKey] /\ leaf.val \in [Slots -> 0..Versions]
      /\ leaf.hop \in [Slots -> SUBSET Offsets] /\ 0 \in 0..MaxKey /\ 0 \in 0..Versions
  BY LeafConstants DEF Image
<1>6. r.key \in [Slots -> 0..MaxKey] /\ r.val \in [Slots -> 0..Versions]
  BY <1>4, <1>5 DEF kkeyNull
<1>7. r.hop \in [Slots -> SUBSET Offsets]
  BY <1>4, <1>5
<1>8. r \in Image
  BY <1>4, <1>6, <1>7 DEF Image
<1>9. ASSUME NEW x \in l..(l + n - 1)
      PROVE  /\ At(x) \in Slots
             /\ r.key[At(x)] = leaf.key[At(x)] /\ r.val[At(x)] = leaf.val[At(x)]
             /\ r.hop[At(x)] = leaf.hop[At(x)]
  <2>1. x \in 0..(3 * Span - 1) /\ x - l \in 0..(n - 1) /\ l + (x - l) = x
    BY <1>1
  <2>2. At(x) \in Slots
    BY <2>1, AtValue
  <2>3. At(x) \in seen
    <3>1. PICK i \in 0..(n - 1) : i = x - l
      BY <2>1
    <3>2. At(l + i) \in seen
      BY <1>2
    <3>3. l + i = x
      BY <2>1, <3>1
    <3> QED BY <3>2, <3>3
  <2> QED BY <1>4, <2>2, <2>3
<1> QED BY <1>3, <1>8, <1>9

\* Nothing of an insertion has been written yet: the copy, written back over
\* the segment it was read from, is the leaf.
LEMMA FreshCopy ==
  ASSUME leaf \in Image, NEW l \in Slots, NEW n \in 1..Span, NEW e \in l..(l + n - 1)
  PROVE  Merge(ReadFrom(l, n), leaf, Segment(l, e)) = leaf
<1>1. Span \in Nat /\ Span > 0 /\ l \in Nat /\ l < Span /\ n \in Nat /\ n <= Span
  BY LeafConstants DEF Slots
<1>2. e \in l..(l + Span - 1)
  BY <1>1
<1>3. PICK W : W = Segment(l, e)
  OBVIOUS
<1>4. \A i \in W : \E x \in l..e : i = At(x)
  BY <1>2, <1>3, SegmentSlots
<1>5. PICK r \in Image : /\ r = ReadFrom(l, n)
                         /\ \A x \in l..(l + n - 1) :
                              /\ r.key[At(x)] = leaf.key[At(x)]
                              /\ r.val[At(x)] = leaf.val[At(x)]
                              /\ r.hop[At(x)] = leaf.hop[At(x)]
  BY ReadSlots
<1>6. \A i \in W : r.key[i] = leaf.key[i] /\ r.val[i] = leaf.val[i] /\ r.hop[i] = leaf.hop[i]
  <2>1. TAKE i \in W
  <2>2. PICK x \in l..e : i = At(x)
    BY <1>4
  <2>3. x \in l..(l + n - 1)
    BY <1>1
  <2> QED BY <1>5, <2>2, <2>3
<1>7. PICK m \in Image : /\ m = Merge(r, leaf, W)
         /\ \A i \in Slots : /\ m.key[i] = IF i \in W THEN r.key[i] ELSE leaf.key[i]
                             /\ m.val[i] = IF i \in W THEN r.val[i] ELSE leaf.val[i]
                             /\ m.hop[i] = IF i \in W THEN r.hop[i] ELSE leaf.hop[i]
  BY MergeSlots
<1>8. \A i \in Slots : /\ m.key[i] = leaf.key[i] /\ m.val[i] = leaf.val[i]
                       /\ \A x \in Offsets : x \in m.hop[i] <=> x \in leaf.hop[i]
  BY <1>6, <1>7
<1>9. m = leaf
  BY <1>8, ImageEqual
<1> QED BY <1>3, <1>5, <1>7, <1>9

\* An insertion that does not find its key looks for an empty slot.
LEMMA InsertNewStep ==
  ASSUME LeafInv, NEW k \in LeafKeys, InsertNew(k)
  PROVE  /\ LeafInv'
         /\ op'.pc \in {"hop", "split"} /\ UNCHANGED <<leaf, latest>>
         /\ op'.pc = "hop" => Back' = leaf /\ leaf.key[Hole'] = kkeyNull
<1>1. LeafTypeOK /\ HopBitmapExact /\ VacancySound /\ MaxKeyKnown
  BY DEF LeafInv
<1>2. /\ leaf \in Image /\ vac \subseteq Buckets /\ maxidx \in Slots
      /\ leaf.key \in [Slots -> 0..MaxKey]
  BY <1>1 DEF LeafTypeOK, Image
<1>3. /\ k <= leaf.key[maxidx] /\ latest[k] < Versions
      /\ k \notin Upserts => latest[k] = 0
      /\ UNCHANGED <<leaf, vac, maxidx, lo, latest>>
  BY DEF InsertNew, Insertable
<1>4. /\ Span \in Nat /\ Span > 0 /\ MaxKey \in Nat /\ k \in Nat /\ k > 0
  BY LeafConstants DEF LeafKeys
<1>5. PICK l \in Slots : l = Home[k]
  BY LeafConstants
<1>6. PICK n \in 1..Span : n = EntriesRead(l)
  BY <1>2, EntriesReadBounds
<1>7. PICK img \in Image : img = ReadFrom(l, n)
  BY <1>2, ReadSlots
<1>8. op' = IF HasEmpty(img, l, n)
              THEN [pc |-> "hop", k |-> k, img |-> img, e |-> FirstEmpty(img, l, n),
                    j |-> FirstEmpty(img, l, n), hopped |-> {At(FirstEmpty(img, l, n))}]
              ELSE [NoOp EXCEPT !.pc = "split", !.k = k]
  BY <1>5, <1>6, <1>7 DEF InsertNew
<1>9. HopBitmapExact' /\ VacancySound' /\ MaxKeyKnown'
  BY <1>1, <1>3 DEF HopBitmapExact, VacancySound, MaxKeyKnown
<1>10. CASE HasEmpty(img, l, n)
  <2>1. n \in 0..Span
    BY <1>4
  <2>2. PICK e : e = FirstEmpty(img, l, n)
    OBVIOUS
  <2>3. /\ e \in l..(l + n - 1) /\ img.key[At(e)] = kkeyNull
        /\ \A x \in l..(e - 1) : img.key[At(x)] # kkeyNull
    BY <1>10, <2>1, <2>2, FirstEmptySlot
  <2>4. /\ l \in Nat /\ l < Span /\ e \in l..(l + Span - 1) /\ e \in 0..(2 * Span)
        /\ e \in l..e /\ e \in Nat
    BY <1>4, <2>3 DEF Slots
  <2>5. \A x \in l..(l + n - 1) : At(x) \in Slots /\ img.key[At(x)] = leaf.key[At(x)]
    BY <1>2, <1>7, ReadSlots
  <2>6. PICK q \in Slots : q = At(e) /\ leaf.key[q] = kkeyNull
    BY <2>3, <2>5
  <2>7. op' = [pc |-> "hop", k |-> k, img |-> img, e |-> e, j |-> e, hopped |-> {q}]
    BY <1>8, <1>10, <2>2, <2>6
  <2>8. /\ op'.pc = "hop" /\ op'.k = k /\ op'.img = img /\ op'.e = e /\ op'.j = e
        /\ op'.hopped = {q}
    BY <2>7
  <2>9. Written' = Segment(l, e) /\ Hole' = q
    BY <1>5, <2>6, <2>8 DEF Written, Hole
  <2>10. Back' = leaf
    <3>1. Back' = Merge(op'.img, leaf', Written')
      BY DEF Back
    <3>2. Merge(img, leaf, Segment(l, e)) = leaf
      BY <1>2, <1>7, <2>3, FreshCopy
    <3> QED BY <1>3, <2>8, <2>9, <3>1, <3>2
  <2>11. LeafTypeOK'
    <3>1. {q} \in SUBSET Slots
      OBVIOUS
    <3>2. op' \in [pc : {"idle", "hop", "split", "local"}, k : LeafKeys, img : Image,
                   e : 0..(2 * Span), j : 0..(2 * Span), hopped : SUBSET Slots]
      BY <2>4, <2>7, <3>1
    <3> QED BY <1>1, <1>3, <3>2 DEF LeafTypeOK
  <2>12. LoopInv'
    <3>1. ExactBut(leaf, Span)
      BY <1>1, ExactIsExact DEF HopBitmapExact
    <3>2. ExactBut(leaf, q)
      BY <2>6, <3>1, EmptyIsHole
    <3>3. ExactBut(Back', Hole')
      BY <2>9, <2>10, <3>2
    <3> QED BY <1>5, <2>4, <2>8, <3>3 DEF LoopInv
  <2>13. HoppedInv'
    <3>1. maxidx # q
      BY <1>2, <1>3, <1>4, <2>6 DEF kkeyNull
    <3>2. q \in Segment(l, e)
      BY <2>4, <2>6, SegmentSlots
    <3>3. \A i \in Slots : leaf.key[i] <= leaf.key[maxidx]
      BY <1>1 DEF MaxKeyKnown
    <3> QED BY <1>3, <2>8, <2>9, <2>10, <3>1, <3>2, <3>3 DEF HoppedInv
  <2>14. RunInv'
    <3>1. \A x \in l..(e - 1) : leaf.key[At(x)] # kkeyNull
      <4>1. TAKE x \in l..(e - 1)
      <4>2. x \in l..(l + n - 1)
        BY <1>4, <2>3, <2>4
      <4> QED BY <2>3, <2>5, <4>2
    <3> QED BY <1>3, <1>5, <2>8, <3>1 DEF RunInv
  <2>15. OpInv'
    BY <1>3, <2>8 DEF OpInv
  <2> QED BY <1>3, <1>9, <2>6, <2>8, <2>9, <2>10, <2>11, <2>12, <2>13, <2>14, <2>15 DEF LeafInv
<1>11. CASE ~HasEmpty(img, l, n)
  <2>1. op' = [NoOp EXCEPT !.pc = "split", !.k = k]
    BY <1>8, <1>11
  <2>2. op'.pc = "split" /\ op'.k = k
    BY <2>1 DEF NoOp
  <2>3. LeafTypeOK'
    BY <1>1, <1>3, <2>1, NoOpType DEF LeafTypeOK
  <2>4. LoopInv' /\ HoppedInv' /\ RunInv' /\ OpInv'
    BY <1>3, <2>2 DEF LoopInv, HoppedInv, RunInv, OpInv, InLoop
  <2> QED BY <1>3, <1>9, <2>2, <2>3, <2>4 DEF LeafInv
<1> QED BY <1>10, <1>11

\* The copy of a failed attempt is dropped.
LEMMA HopFailsStep ==
  ASSUME LeafInv, HopFails
  PROVE  LeafInv'
<1>1. LeafTypeOK /\ HopBitmapExact /\ VacancySound /\ MaxKeyKnown /\ OpInv
  BY DEF LeafInv
<1>2. /\ op.pc = "hop" /\ op' = [NoOp EXCEPT !.pc = "split", !.k = op.k]
      /\ UNCHANGED <<leaf, vac, maxidx, lo, latest>>
  BY DEF HopFails
<1>3. PICK k \in LeafKeys : k = op.k
  BY <1>1, OpFields
<1>4. op'.pc = "split" /\ op'.k = k
  BY <1>2, <1>3 DEF NoOp
<1>5. HopBitmapExact' /\ VacancySound' /\ MaxKeyKnown'
  BY <1>1, <1>2 DEF HopBitmapExact, VacancySound, MaxKeyKnown
<1>6. LeafTypeOK'
  BY <1>1, <1>2, <1>3, NoOpType DEF LeafTypeOK
<1>7. LoopInv' /\ HoppedInv' /\ RunInv' /\ OpInv'
  BY <1>1, <1>2, <1>3, <1>4 DEF LoopInv, HoppedInv, RunInv, OpInv, InLoop
<1> QED BY <1>5, <1>6, <1>7 DEF LeafInv

\* The loops of a hop find an entry if there is one that may hop.
LEMMA NextHopperIn ==
  ASSUME NEW img, NEW j \in Nat, j >= Neighbor, Hoppers(img, j) # {}
  PROVE  /\ NextHopper(img, j) \in Hoppers(img, j)
         /\ \A q \in Hoppers(img, j) :
              LET u == NextHopper(img, j) IN u[1] < q[1] \/ (u[1] = q[1] /\ u[2] >= q[2])
<1>1. Neighbor \in Nat /\ Neighbor > 1
  BY LeafConstants
<1>2. PICK P : P = Hoppers(img, j)
  OBVIOUS
<1>3. P \subseteq ((j - Neighbor + 1)..(j - 1)) \X Offsets /\ P # {}
  BY <1>2 DEF Hoppers
<1>4. \A p \in P : p[1] \in Nat /\ p[2] \in 0..(Neighbor - 1)
  BY <1>1, <1>3 DEF Offsets
<1>5. PICK A : A = {p[1] : p \in P}
  OBVIOUS
<1>6. A \subseteq Nat /\ A # {}
  BY <1>3, <1>4, <1>5
<1>7. PICK a \in A : \A y \in A : a <= y
  BY <1>6, LeastNat
<1>8. PICK B : B = {p[2] : p \in {p \in P : p[1] = a}}
  OBVIOUS
<1>9. B # {}
  BY <1>5, <1>7, <1>8
<1>10. B \subseteq 0..(Neighbor - 1) /\ Neighbor - 1 \in Nat
  BY <1>1, <1>4, <1>8
<1>11. PICK b \in B : \A y \in B : y <= b
  BY <1>9, <1>10, GreatestNat
<1>12. PICK p \in P : p[1] = a /\ p[2] = b
  BY <1>8, <1>11
<1>13. ASSUME NEW q \in P PROVE p[1] < q[1] \/ (p[1] = q[1] /\ p[2] >= q[2])
  <2>1. q[1] \in A /\ a <= q[1] /\ a \in Nat /\ q[1] \in Nat
    BY <1>4, <1>5, <1>6, <1>7
  <2>2. CASE q[1] = a
    <3>1. q[2] \in B
      BY <1>8, <2>2
    <3>2. q[2] <= b /\ q[2] \in Nat /\ b \in Nat
      BY <1>4, <1>10, <1>11, <3>1
    <3> QED BY <1>12, <2>2, <3>2
  <2>3. CASE q[1] # a
    BY <1>12, <2>1, <2>3
  <2> QED BY <2>2, <2>3
<1>14. \E x \in P : \A q \in P : x[1] < q[1] \/ (x[1] = q[1] /\ x[2] >= q[2])
  BY <1>13
<1> QED BY <1>2, <1>14 DEF NextHopper

\* Back is an image, and the same as the copy in the slots to be written.
LEMMA BackSlots ==
  ASSUME LeafTypeOK
  PROVE  /\ Back \in Image
         /\ \A i \in Slots :
              /\ Back.key[i] = IF i \in Written THEN op.img.key[i] ELSE leaf.key[i]
              /\ Back.val[i] = IF i \in Written THEN op.img.val[i] ELSE leaf.val[i]
              /\ Back.hop[i] = IF i \in Written THEN op.img.hop[i] ELSE leaf.hop[i]
<1>1. leaf \in Image /\ op.img \in Image
  BY OpFields DEF LeafTypeOK
<1> QED BY <1>1, MergeSlots DEF Back

\* The slots between the home of the key and the first empty slot are written.
LEMMA LoopSlots ==
  ASSUME LeafTypeOK, LoopInv, InLoop
  PROVE  /\ Written \subseteq Slots
         /\ \A x \in Home[op.k]..op.e : At(x) \in Written
<1>1. PICK l \in Slots : l = Home[op.k]
  BY OpFields, LeafConstants
<1>2. op.e \in l..(l + Span - 1)
  BY <1>1 DEF LoopInv
<1>3. CASE op.pc = "local"
  <2>1. Written = Slots
    BY <1>3 DEF Written
  <2>2. \A x \in l..op.e : x \in 0..(3 * Span - 1)
    BY <1>2, LeafConstants DEF Slots
  <2>3. \A x \in l..op.e : At(x) \in Slots
    BY <2>2, AtValue
  <2> QED BY <1>1, <2>1, <2>3
<1>4. CASE op.pc # "local"
  <2>1. Written = Segment(l, op.e)
    BY <1>1, <1>4 DEF Written
  <2> QED BY <1>1, <1>2, <2>1, SegmentSlots
<1> QED BY <1>3, <1>4

\* A hop: the entry at p of home c, z from it, moves into the hole q.
HopFacts(h, p, q, c, z, y) ==
  /\ p # q /\ p \in Written /\ q \in Written /\ c \in Written
  /\ q = Hole /\ p = At(h)
  /\ At(c + z) = p /\ At(c + y) = q
  /\ z \in Back.hop[c]
  /\ h \in Home[op.k]..op.e /\ h = NextHopper(op.img, op.j)[1]
  /\ op' = [op EXCEPT !.img = HoppedAt(op.img, p, q, c, z, y), !.j = h,
                      !.hopped = @ \cup {p}]

\* Such a hop is what Hop does: one entry found by NextHopper moves nearer.
LEMMA HopIs ==
  ASSUME LeafInv, Hop
  PROVE  \E h \in Nat, p, q, c \in Slots, z, y \in Offsets : HopFacts(h, p, q, c, z, y)
<1>1. LeafTypeOK /\ LoopInv
  BY DEF LeafInv
<1>2. /\ Hopping /\ Hoppers(op.img, op.j) # {} /\ InLoop
      /\ LET u == NextHopper(op.img, op.j) IN
           op' = [op EXCEPT !.img = Hopped(op.img, u[1], u[2], op.j), !.j = u[1],
                            !.hopped = @ \cup {At(u[1])}]
  BY DEF Hop, Hopping, InLoop
<1>3. /\ Span \in Nat /\ Span > 0 /\ Neighbor \in Nat /\ Neighbor > 1 /\ Neighbor < Span
  BY LeafConstants
<1>4. PICK l \in Slots : l = Home[op.k]
  BY <1>1, OpFields, LeafConstants
<1>5. PICK j \in Nat, e \in Nat : /\ j = op.j /\ e = op.e /\ l \in Nat /\ l < Span
                                  /\ l <= j /\ j <= e /\ e < l + Span /\ l + Neighbor <= j
  <2>1. op.e \in l..(l + Span - 1) /\ op.j \in l..op.e /\ op.j >= l + Neighbor
    BY <1>1, <1>2, <1>4 DEF LoopInv, Hopping
  <2>2. l \in Nat /\ l < Span
    BY <1>3 DEF Slots
  <2>3. op.e \in Nat /\ l <= op.e /\ op.e < l + Span
    BY <1>3, <2>1, <2>2
  <2>4. op.j \in Nat /\ l <= op.j /\ op.j <= op.e
    BY <2>1, <2>2, <2>3
  <2> QED BY <2>1, <2>2, <2>3, <2>4
<1>6. PICK u : u = NextHopper(op.img, j)
  OBVIOUS
<1>7. u \in Hoppers(op.img, j)
  BY <1>2, <1>3, <1>5, <1>6, NextHopperIn
<1>8. PICK h \in (j - Neighbor + 1)..(j - 1), z \in Offsets :
         /\ u = <<h, z>> /\ h - z + Neighbor > j
         /\ z \in op.img.hop[At(Span + h - z)]
  BY <1>7 DEF Hoppers
<1>9. /\ h \in Nat /\ h < j /\ h - z >= l + 1 /\ z \in Nat /\ z < Neighbor
      /\ j - (h - z) \in Nat /\ j - (h - z) < Neighbor
  BY <1>3, <1>5, <1>8 DEF Offsets
<1>10. PICK y \in Offsets : y = j - (h - z)
  BY <1>3, <1>9 DEF Offsets
<1>11. j \in 0..(2 * Span - 1) /\ h \in Int /\ h - z >= 0
  BY <1>3, <1>5, <1>9
<1>20. /\ At(j) \in Slots /\ At(h) \in Slots /\ At(Span + h - z) \in Slots
       /\ At(Span + h - z) = At(h - z)
       /\ At(At(Span + h - z) + z) = At(h)
       /\ At(At(Span + h - z) + (j - (h - z))) = At(j)
       /\ At(h) # At(j)
  <2>1. j - (h - z) \in Offsets
    BY <1>10
  <2> QED BY <1>9, <1>11, <2>1, HopGeometry
<1>12. PICK p \in Slots, q \in Slots, c \in Slots :
          /\ p = At(h) /\ q = At(j) /\ c = At(Span + h - z) /\ c = At(h - z)
          /\ p # q /\ At(c + z) = p /\ At(c + y) = q
  BY <1>10, <1>20
<1>13. Hopped(op.img, h, z, j) = HoppedAt(op.img, p, q, c, z, y)
  BY <1>10, <1>12 DEF Hopped, HoppedAt
<1>14. op' = [op EXCEPT !.img = HoppedAt(op.img, p, q, c, z, y), !.j = h, !.hopped = @ \cup {p}]
  <2>1. u[1] = h /\ u[2] = z
    BY <1>8
  <2>2. PICK g : g = Hopped(op.img, h, z, j)
    OBVIOUS
  <2>3. Hopped(op.img, u[1], u[2], op.j) = g
    BY <1>5, <2>1, <2>2
  <2>4. op' = [op EXCEPT !.img = Hopped(op.img, u[1], u[2], op.j), !.j = u[1],
                         !.hopped = @ \cup {At(u[1])}]
    BY <1>2, <1>5, <1>6
  <2>5. op' = [op EXCEPT !.img = g, !.j = h, !.hopped = @ \cup {p}]
    BY <1>12, <2>1, <2>3, <2>4
  <2> QED BY <1>13, <2>2, <2>5
<1>15. h \in l..op.e /\ j \in l..op.e /\ h - z \in l..op.e
  BY <1>5, <1>9
<1>16. p \in Written /\ q \in Written /\ c \in Written
  BY <1>1, <1>2, <1>4, <1>12, <1>15, LoopSlots
<1>17. z \in Back.hop[c]
  BY <1>1, <1>8, <1>12, <1>16, BackSlots
<1>18. HopFacts(h, p, q, c, z, y)
  <2>1. h = NextHopper(op.img, op.j)[1]
    BY <1>5, <1>6, <1>8
  <2> QED BY <2>1, <1>4, <1>5, <1>12, <1>14, <1>15, <1>16, <1>17 DEF HopFacts, Hole
<1> QED BY <1>9, <1>18

\* What a hop does to the leaf that would be written back.
LEMMA HopBack ==
  ASSUME LeafInv, Hop, NEW h \in Nat, NEW p \in Slots, NEW q \in Slots, NEW c \in Slots,
         NEW z \in Offsets, NEW y \in Offsets, HopFacts(h, p, q, c, z, y)
  PROVE  /\ op'.pc = op.pc /\ op'.k = op.k /\ op'.e = op.e /\ op'.j = h
         /\ op'.hopped = op.hopped \cup {p} /\ op'.img = HoppedAt(op.img, p, q, c, z, y)
         /\ UNCHANGED <<leaf, vac, maxidx, lo, latest>>
         /\ Written' = Written /\ Hole' = p
         /\ Back' = HoppedAt(Back, p, q, c, z, y)
         /\ LeafTypeOK'
<1>1. LeafTypeOK /\ LoopInv
  BY DEF LeafInv
<1>2. UNCHANGED <<leaf, vac, maxidx, lo, latest>>
  BY DEF Hop
<1>3. PICK g \in Image : g = HoppedAt(op.img, p, q, c, z, y)
  BY <1>1, OpFields, HoppedSlots
<1>4. op' = [op EXCEPT !.img = g, !.j = h, !.hopped = @ \cup {p}]
  BY <1>3 DEF HopFacts
<1>5. op' = [pc |-> op.pc, k |-> op.k, img |-> g, e |-> op.e, j |-> h,
             hopped |-> op.hopped \cup {p}]
  BY <1>1, <1>4 DEF LeafTypeOK
<1>6. /\ op'.pc = op.pc /\ op'.k = op.k /\ op'.e = op.e /\ op'.j = h /\ op'.img = g
      /\ op'.hopped = op.hopped \cup {p}
  BY <1>5
<1>7. Written' = Written
  BY <1>6 DEF Written
<1>8. Hole' = p
  BY <1>6 DEF Hole, HopFacts
<1>9. Back' = HoppedAt(Back, p, q, c, z, y)
  <2>1. Back' = Merge(op'.img, leaf', Written')
    BY DEF Back
  <2>2. Back' = Merge(g, leaf, Written)
    BY <1>2, <1>6, <1>7, <2>1
  <2>3. op.img \in Image /\ leaf \in Image /\ p \in Written /\ q \in Written /\ c \in Written
    BY <1>1, OpFields DEF LeafTypeOK, HopFacts
  <2>4. Merge(g, leaf, Written) = HoppedAt(Merge(op.img, leaf, Written), p, q, c, z, y)
    BY <1>3, <2>3, MergeHopped
  <2> QED BY <2>2, <2>4 DEF Back
<1>10. LeafTypeOK'
  <2>1. PICK S \in SUBSET Slots : S = op.hopped \cup {p}
    BY <1>1, OpFields
  <2>2. h \in 0..(2 * Span)
    <3>1. h \in Home[op.k]..op.e /\ op.e \in 0..(2 * Span)
      BY <1>1, OpFields DEF HopFacts
    <3> QED BY <3>1, LeafConstants
  <2>3. /\ op.pc \in {"idle", "hop", "split", "local"} /\ op.k \in LeafKeys
        /\ op.e \in 0..(2 * Span)
    BY <1>1, OpFields
  <2>4. op' = [pc |-> op.pc, k |-> op.k, img |-> g, e |-> op.e, j |-> h, hopped |-> S]
    BY <1>5, <2>1
  <2>5. op' \in [pc : {"idle", "hop", "split", "local"}, k : LeafKeys, img : Image,
                 e : 0..(2 * Span), j : 0..(2 * Span), hopped : SUBSET Slots]
    BY <2>2, <2>3, <2>4
  <2> QED BY <1>1, <1>2, <2>5 DEF LeafTypeOK
<1> QED BY <1>2, <1>3, <1>6, <1>7, <1>8, <1>9, <1>10

\* A hop moves the hole.
LEMMA HopStep ==
  ASSUME LeafInv, Hop
  PROVE  LeafInv'
<1>1. /\ LeafTypeOK /\ HopBitmapExact /\ VacancySound /\ MaxKeyKnown
      /\ LoopInv /\ HoppedInv /\ RunInv /\ OpInv
  BY DEF LeafInv
<1>2. PICK h \in Nat, p \in Slots, q \in Slots, c \in Slots, z \in Offsets, y \in Offsets :
         HopFacts(h, p, q, c, z, y)
  BY HopIs
<1>3. /\ op'.pc = op.pc /\ op'.k = op.k /\ op'.e = op.e /\ op'.j = h
      /\ op'.hopped = op.hopped \cup {p}
      /\ UNCHANGED <<leaf, vac, maxidx, lo, latest>>
      /\ Written' = Written /\ Hole' = p
      /\ Back' = HoppedAt(Back, p, q, c, z, y)
      /\ LeafTypeOK'
  BY <1>2, HopBack
<1>4. /\ p # q /\ p \in Written /\ q \in Written /\ q = Hole
      /\ At(c + z) = p /\ At(c + y) = q /\ z \in Back.hop[c]
      /\ h \in Home[op.k]..op.e /\ InLoop
  BY <1>2 DEF HopFacts, Hop, Hopping, InLoop
<1>5. HopBitmapExact' /\ VacancySound' /\ MaxKeyKnown'
  BY <1>1, <1>3 DEF HopBitmapExact, VacancySound, MaxKeyKnown
<1>6. PICK b \in Image : b = Back
  BY <1>1, BackSlots
<1>7. ExactBut(b, q) /\ op.e \in Home[op.k]..(Home[op.k] + Span - 1)
  BY <1>1, <1>4, <1>6 DEF LoopInv
<1>8. ExactBut(HoppedAt(b, p, q, c, z, y), p)
  BY <1>4, <1>6, <1>7, HopKeepsExact
<1>9. LoopInv'
  BY <1>3, <1>4, <1>6, <1>7, <1>8 DEF LoopInv
<1>10. HoppedInv'
  <2>1. SUFFICES ASSUME op.pc = "hop"
                 PROVE  /\ op.k <= leaf.key[maxidx]
                        /\ op.hopped \cup {p} \subseteq Written
                        /\ \A i \in Slots \ (op.hopped \cup {p}) : Back'.key[i] = leaf.key[i]
                        /\ \A i \in Slots \ {p} : Back'.key[i] <= leaf.key[maxidx]
                        /\ maxidx \in op.hopped \cup {p} =>
                             \E i \in (op.hopped \cup {p}) \ {p} : Back'.key[i] = leaf.key[maxidx]
    BY <1>3 DEF HoppedInv
  <2>2. /\ op.k <= leaf.key[maxidx] /\ op.hopped \subseteq Written /\ q \in op.hopped
        /\ \A i \in Slots \ op.hopped : b.key[i] = leaf.key[i]
        /\ \A i \in Slots \ {q} : b.key[i] <= leaf.key[maxidx]
        /\ maxidx \in op.hopped => \E i \in op.hopped \ {q} : b.key[i] = leaf.key[maxidx]
    BY <1>1, <1>4, <1>6, <2>1 DEF HoppedInv
  <2>3. \A i \in Slots : Back'.key[i] = IF i = q THEN b.key[p] ELSE b.key[i]
    <3>1. \A i \in Slots : HoppedAt(b, p, q, c, z, y).key[i] =
                            IF i = q THEN b.key[p] ELSE b.key[i]
      BY HoppedSlots
    <3> QED BY <1>3, <1>6, <3>1
  <2>4. op.hopped \subseteq Slots /\ maxidx \in Slots
    BY <1>1, OpFields DEF LeafTypeOK
  <2>5. \A i \in Slots \ {p} : Back'.key[i] <= leaf.key[maxidx]
    BY <1>4, <2>2, <2>3
  <2>6. ASSUME maxidx \in op.hopped \cup {p}
        PROVE  \E i \in (op.hopped \cup {p}) \ {p} : Back'.key[i] = leaf.key[maxidx]
    <3>1. CASE maxidx \in op.hopped
      <4>1. PICK i \in op.hopped \ {q} : b.key[i] = leaf.key[maxidx]
        BY <2>2, <3>1
      <4>2. CASE i = p
        <5>1. Back'.key[q] = leaf.key[maxidx]
          BY <2>3, <4>1, <4>2
        <5> QED BY <1>4, <2>2, <5>1
      <4>3. CASE i # p
        <5>1. Back'.key[i] = leaf.key[maxidx]
          BY <2>3, <2>4, <4>1
        <5> QED BY <4>1, <4>3, <5>1
      <4> QED BY <4>2, <4>3
    <3>2. CASE maxidx \notin op.hopped
      <4>1. maxidx = p /\ b.key[p] = leaf.key[p]
        BY <2>2, <2>4, <2>6, <3>2
      <4>2. Back'.key[q] = leaf.key[maxidx]
        BY <2>3, <4>1
      <4> QED BY <1>4, <2>2, <4>2
    <3> QED BY <3>1, <3>2
  <2> QED BY <1>4, <2>2, <2>3, <2>5, <2>6
<1>11. RunInv' /\ OpInv'
  BY <1>1, <1>3 DEF RunInv, OpInv
<1> QED BY <1>3, <1>5, <1>9, <1>10, <1>11 DEF LeafInv

\* The new key goes into the hole once that is near enough to its home.
LEMMA FinalIs ==
  ASSUME LeafInv, InLoop, ~Hopping
  PROVE  \E q \in Slots, y \in Offsets, v \in 0..Versions :
           /\ q = Hole /\ q \in Written /\ Home[op.k] \in Written
           /\ y = op.j - Home[op.k] /\ At(Home[op.k] + y) = q /\ v = NextVal(op.k)
           /\ Final = PlacedAt(op.img, op.k, v, q, y)
           /\ Merge(Final, leaf, Written) = PlacedAt(Back, op.k, v, q, y)
<1>1. LeafTypeOK /\ LoopInv /\ OpInv
  BY DEF LeafInv
<1>2. /\ Span \in Nat /\ Span > 0 /\ Neighbor \in Nat /\ Neighbor > 1 /\ Versions \in Nat
  BY LeafConstants
<1>3. op.k \in LeafKeys /\ op.img \in Image /\ leaf \in Image
  BY <1>1, OpFields DEF LeafTypeOK
<1>4. PICK l \in Slots : l = Home[op.k]
  BY <1>3, LeafConstants
<1>5. /\ op.e \in l..(l + Span - 1) /\ op.j \in l..op.e /\ ~(op.j >= l + Neighbor)
  BY <1>1, <1>4 DEF LoopInv, Hopping, InLoop
<1>6. l \in Nat /\ l < Span
  BY <1>2 DEF Slots
<1>7. op.e \in Nat /\ l <= op.e /\ op.e < l + Span
  BY <1>2, <1>5, <1>6
<1>8. /\ op.j \in Nat /\ l <= op.j /\ op.j <= op.e /\ op.j < l + Neighbor
      /\ op.j \in 0..(3 * Span - 1)
  BY <1>2, <1>5, <1>6, <1>7
<1>9. PICK y \in Offsets : y = op.j - l
  BY <1>2, <1>6, <1>8 DEF Offsets
<1>10. PICK q \in Slots : q = At(op.j)
  BY <1>8, AtValue
<1>11. At(l + y) = q
  <2>1. l + y = op.j
    BY <1>6, <1>8, <1>9
  <2> QED BY <1>10, <2>1
<1>12. PICK v \in 0..Versions : v = NextVal(op.k)
  <2>1. latest[op.k] \in 0..Versions /\ latest[op.k] < Versions
    BY <1>1, <1>3 DEF OpInv, InLoop, LeafTypeOK
  <2>2. latest[op.k] + 1 \in 0..Versions
    BY <1>2, <2>1
  <2> QED BY <2>2 DEF NextVal
<1>13. q \in Written /\ l \in Written
  <2>1. op.j \in l..op.e /\ l \in l..op.e
    BY <1>5, <1>6, <1>7
  <2>2. At(op.j) \in Written /\ At(l) \in Written
    BY <1>1, <1>4, <2>1, LoopSlots
  <2>3. At(l) = l
    BY <1>2, <1>6, AtValue
  <2> QED BY <1>10, <2>2, <2>3
<1>14. Final = PlacedAt(op.img, op.k, v, q, y)
  BY <1>4, <1>9, <1>10, <1>12 DEF Final, Placed, PlacedAt
<1>15. Merge(Final, leaf, Written) = PlacedAt(Back, op.k, v, q, y)
  BY <1>3, <1>4, <1>13, <1>14, MergePlaced DEF Back
<1> QED BY <1>4, <1>9, <1>10, <1>11, <1>12, <1>13, <1>14, <1>15 DEF Hole

\* The write of the segment: the hole is filled, the key is in the leaf.
LEMMA InsertPlaceExact ==
  ASSUME LeafInv, InsertPlace
  PROVE  /\ Final \in Image /\ leaf' \in Image /\ HopBitmapExact'
         /\ \E q \in Slots, y \in Offsets, v \in 0..Versions :
              /\ q = Hole /\ q \in Written /\ q = At(Home[op.k] + y) /\ v = NextVal(op.k)
              /\ \A i \in Slots :
                   /\ leaf'.key[i] = IF i = q THEN op.k ELSE Back.key[i]
                   /\ leaf'.val[i] = IF i = q THEN v ELSE Back.val[i]
                   /\ Final.key[i] = IF i = q THEN op.k ELSE op.img.key[i]
<1>1. LeafTypeOK /\ LoopInv
  BY DEF LeafInv
<1>2. op.pc = "hop" /\ ~Hopping /\ InLoop
  BY DEF InsertPlace, InLoop
<1>3. PICK q \in Slots, y \in Offsets, v \in 0..Versions :
        /\ q = Hole /\ q \in Written
        /\ At(Home[op.k] + y) = q /\ v = NextVal(op.k)
        /\ Final = PlacedAt(op.img, op.k, v, q, y)
        /\ Merge(Final, leaf, Written) = PlacedAt(Back, op.k, v, q, y)
  BY <1>2, FinalIs
<1>4. op.k \in LeafKeys /\ op.img \in Image /\ Back \in Image
  BY <1>1, OpFields, BackSlots
<1>5. leaf' = Merge(Final, leaf, Written)
  BY <1>2 DEF InsertPlace, Merge, Written, Segment
<1>6. PICK k \in LeafKeys, b \in Image : k = op.k /\ b = Back
  BY <1>4
<1>7. leaf' = PlacedAt(b, k, v, q, y)
  BY <1>3, <1>5, <1>6
<1>8. /\ PlacedAt(b, k, v, q, y) \in Image
      /\ \A i \in Slots :
           /\ PlacedAt(b, k, v, q, y).key[i] = IF i = q THEN k ELSE b.key[i]
           /\ PlacedAt(b, k, v, q, y).val[i] = IF i = q THEN v ELSE b.val[i]
  BY PlacedSlots
<1>9. ExactBut(b, q)
  BY <1>1, <1>2, <1>3, <1>6 DEF LoopInv
<1>10. ExactBut(PlacedAt(b, k, v, q, y), Span)
  BY <1>3, <1>6, <1>9, PlaceKeepsExact
<1>11. HopBitmapExact'
  <2>1. ExactBut(leaf', Span)
    BY <1>7, <1>10
  <2> QED BY <2>1, ExactIsExact DEF HopBitmapExact
<1>12. /\ Final \in Image
       /\ \A i \in Slots : Final.key[i] = IF i = q THEN k ELSE op.img.key[i]
  <2>1. /\ PlacedAt(op.img, k, v, q, y) \in Image
        /\ \A i \in Slots : PlacedAt(op.img, k, v, q, y).key[i] = IF i = q THEN k ELSE op.img.key[i]
    BY <1>4, PlacedSlots
  <2> QED BY <1>3, <1>6, <2>1
<1> QED BY <1>3, <1>6, <1>7, <1>8, <1>11, <1>12

\* max_key_idx after a segment write.
LEMMA InsertPlaceMax ==
  ASSUME LeafInv, InsertPlace
  PROVE  maxidx' \in Slots /\ MaxKeyKnown'
<1>1. /\ LeafTypeOK /\ LoopInv /\ HoppedInv /\ MaxKeyKnown
  BY DEF LeafInv
<1>2. op.pc = "hop" /\ maxidx' = MaxIdxAfter(op.hopped, Final) /\ InLoop
  BY DEF InsertPlace, InLoop
<1>3. PICK q \in Slots :
        /\ q = Hole /\ q \in Written
        /\ \A i \in Slots :
             /\ leaf'.key[i] = IF i = q THEN op.k ELSE Back.key[i]
             /\ Final.key[i] = IF i = q THEN op.k ELSE op.img.key[i]
  BY InsertPlaceExact
<1>4. /\ op.k <= leaf.key[maxidx]
      /\ op.hopped \subseteq Written /\ q \in op.hopped
      /\ \A i \in Slots \ op.hopped : Back.key[i] = leaf.key[i]
      /\ \A i \in Slots \ {q} : Back.key[i] <= leaf.key[maxidx]
      /\ maxidx \in op.hopped => \E i \in op.hopped \ {q} : Back.key[i] = leaf.key[maxidx]
  BY <1>1, <1>2, <1>3 DEF HoppedInv
<1>5. op.hopped \subseteq Slots /\ maxidx \in Slots
  BY <1>1, OpFields DEF LeafTypeOK
<1>6. \A i \in op.hopped : leaf'.key[i] = Final.key[i]
  BY <1>1, <1>3, <1>4, <1>5, BackSlots
<1>7. \A i \in Slots : leaf'.key[i] <= leaf.key[maxidx]
  BY <1>3, <1>4
<1>8. CASE maxidx \notin op.hopped
  <2>1. maxidx' = maxidx
    BY <1>2, <1>8 DEF MaxIdxAfter
  <2>2. leaf'.key[maxidx] = leaf.key[maxidx]
    BY <1>3, <1>4, <1>5, <1>8
  <2> QED BY <1>5, <1>7, <2>1, <2>2 DEF MaxKeyKnown
<1>9. CASE maxidx \in op.hopped
  <2>1. PICK m \in op.hopped \ {q} : Back.key[m] = leaf.key[maxidx]
    BY <1>4, <1>9
  <2>2. leaf'.key[m] = leaf.key[maxidx]
    BY <1>3, <1>5, <2>1
  <2>3. \A i \in op.hopped : Final.key[i] <= Final.key[m]
    BY <1>5, <1>6, <1>7, <2>1, <2>2
  <2>4. PICK n : n = MaxIdxAfter(op.hopped, Final)
    OBVIOUS
  <2>5. n = CHOOSE i \in op.hopped : \A j \in op.hopped : Final.key[j] <= Final.key[i]
    BY <1>9, <2>4 DEF MaxIdxAfter
  <2>6. n \in op.hopped /\ \A j \in op.hopped : Final.key[j] <= Final.key[n]
    BY <2>1, <2>3, <2>5
  <2>7. leaf'.key[m] <= leaf'.key[n]
    BY <1>6, <2>1, <2>6
  <2>8. \A i \in Slots : leaf'.key[i] <= leaf'.key[n]
    <3>1. leaf' \in Image /\ leaf'.key \in [Slots -> 0..MaxKey]
      BY InsertPlaceExact DEF Image
    <3>2. \A i \in Slots : leaf'.key[i] \in Nat
      BY <3>1, LeafConstants
    <3> QED BY <1>5, <1>7, <2>2, <2>6, <2>7, <3>2
  <2> QED BY <1>2, <1>5, <2>4, <2>6, <2>8 DEF MaxKeyKnown
<1> QED BY <1>8, <1>9

\* The vacancy bitmap after a segment write.
LEMMA InsertPlaceVacancy ==
  ASSUME LeafInv, InsertPlace
  PROVE  vac' \in SUBSET Buckets /\ VacancySound'
<1>1. /\ LeafTypeOK /\ LoopInv /\ RunInv /\ VacancySound
  BY DEF LeafInv
<1>2. op.pc = "hop" /\ InLoop
  BY DEF InsertPlace, InLoop
<1>3. PICK q \in Slots :
        /\ q \in Written
        /\ \A i \in Slots :
             /\ leaf'.key[i] = IF i = q THEN op.k ELSE Back.key[i]
             /\ Final.key[i] = IF i = q THEN op.k ELSE op.img.key[i]
  BY InsertPlaceExact
<1>4. Span \in Nat /\ Span > 0 /\ VacancyBits \in Nat /\ vac \subseteq Buckets
  BY <1>1, LeafConstants DEF LeafTypeOK
<1>5. PICK l \in Slots : l = Home[op.k]
  BY <1>1, OpFields, LeafConstants
<1>6. op.e \in l..(l + Span - 1)
  BY <1>1, <1>2, <1>5 DEF LoopInv
<1>7. /\ l \in Nat /\ l < Span /\ op.e \in Nat /\ l <= op.e /\ op.e \in 0..(3 * Span - 1)
  BY <1>4, <1>6 DEF Slots
<1>8. PICK r \in Slots : r = At(op.e)
  BY <1>7, AtValue
<1>9. PICK lb \in Buckets, rb \in Buckets : lb = find_bucket(l) /\ rb = find_bucket(r)
  BY BucketRange
<1>10. PICK T : T = IF lb <= rb THEN lb..rb ELSE (0..rb) \cup (lb..(VacancyBits - 1))
  OBVIOUS
<1>11. T \subseteq Buckets /\ rb \in T
  <2>1. lb \in Nat /\ rb \in Nat /\ lb < VacancyBits /\ rb < VacancyBits
    BY <1>4 DEF Buckets
  <2>2. CASE lb <= rb
    BY <1>4, <1>10, <2>1, <2>2 DEF Buckets
  <2>3. CASE ~(lb <= rb)
    BY <1>4, <1>10, <2>1, <2>3 DEF Buckets
  <2> QED BY <2>2, <2>3
<1>12. Written = Segment(l, op.e) /\ Written \subseteq Slots
  BY <1>2, <1>5, <1>6, SegmentSlots DEF Written
<1>13. vac' = (vac \cup T) \ {find_bucket(i) : i \in Written \ Occupied(Final)}
  <2>1. vac' = UpdateVacancy(l, r, Final)
    BY <1>5, <1>8 DEF InsertPlace
  <2>2. Written = IF l <= r THEN l..r ELSE (0..r) \cup (l..(Span - 1))
    BY <1>8, <1>12 DEF Segment
  <2> QED BY <1>9, <1>10, <2>1, <2>2 DEF UpdateVacancy
<1>14. vac' \in SUBSET Buckets
  BY <1>4, <1>11, <1>13
<1>15. \A i \in Slots : leaf'.key[i] = IF i \in Written THEN Final.key[i] ELSE leaf.key[i]
  BY <1>1, <1>3, BackSlots
<1>16. ASSUME NEW b \in Buckets \ vac'
       PROVE  \E i \in FirstIn(b)..LastIn(b) : leaf'.key[i] = kkeyNull
  <2>1. CASE \E i \in Written \ Occupied(Final) : b = find_bucket(i)
    <3>1. PICK i \in Written \ Occupied(Final) : b = find_bucket(i)
      BY <2>1
    <3>2. i \in Slots /\ Final.key[i] = kkeyNull
      BY <1>12, <3>1 DEF Occupied
    <3>3. i \in FirstIn(b)..LastIn(b)
      BY <3>1, <3>2, BucketRange
    <3>4. leaf'.key[i] = kkeyNull
      BY <1>15, <3>1, <3>2
    <3> QED BY <3>3, <3>4
  <2>2. CASE ~\E i \in Written \ Occupied(Final) : b = find_bucket(i)
    <3>1. b \in Buckets \ vac /\ b \notin T
      BY <1>13, <1>16, <2>2
    <3>2. PICK i \in FirstIn(b)..LastIn(b) : leaf.key[i] = kkeyNull
      BY <1>1, <3>1 DEF VacancySound
    <3>3. i \in Slots /\ find_bucket(i) = b
      BY <3>1, BucketOf
    <3>4. i \notin Written
      <4>1. SUFFICES ASSUME i \in Written PROVE FALSE
        OBVIOUS
      <4>2. PICK x \in l..op.e : i = At(x)
        BY <1>6, <1>12, <4>1, SegmentSlots
      <4>3. CASE x = op.e
        BY <1>8, <1>9, <1>11, <3>1, <3>3, <4>2, <4>3
      <4>4. CASE x # op.e
        <5>1. x \in l..(op.e - 1)
          BY <1>7, <4>4
        <5>2. leaf.key[At(x)] # kkeyNull
          BY <1>1, <1>2, <1>5, <5>1 DEF RunInv
        <5> QED BY <3>2, <4>2, <5>2
      <4> QED BY <4>3, <4>4
    <3>5. leaf'.key[i] = kkeyNull
      BY <1>15, <3>2, <3>3, <3>4
    <3> QED BY <3>2, <3>5
  <2> QED BY <2>1, <2>2
<1> QED BY <1>14, <1>16 DEF VacancySound

\* The insertion is complete.
LEMMA InsertPlaceStep ==
  ASSUME LeafInv, InsertPlace
  PROVE  LeafInv'
<1>1. LeafTypeOK /\ OpInv
  BY DEF LeafInv
<1>2. /\ op.pc = "hop" /\ op' = NoOp /\ lo' = lo
      /\ latest' = [latest EXCEPT ![op.k] = NextVal(op.k)]
  BY DEF InsertPlace
<1>3. leaf' \in Image /\ HopBitmapExact'
  BY InsertPlaceExact
<1>4. maxidx' \in Slots /\ MaxKeyKnown'
  BY InsertPlaceMax
<1>5. vac' \in SUBSET Buckets /\ VacancySound'
  BY InsertPlaceVacancy
<1>6. latest' \in [LeafKeys -> 0..Versions]
  <2>1. NextVal(op.k) \in 0..Versions
    <3>1. latest[op.k] \in 0..Versions /\ latest[op.k] < Versions
      BY <1>1, <1>2, OpFields DEF OpInv, LeafTypeOK
    <3> QED BY <3>1, LeafConstants DEF NextVal
  <2> QED BY <1>1, <1>2, <2>1 DEF LeafTypeOK
<1>7. LeafTypeOK'
  BY <1>1, <1>2, <1>3, <1>4, <1>5, <1>6, NoOpType DEF LeafTypeOK
<1>8. op'.pc = "idle"
  BY <1>2, NoOpType
<1>9. LoopInv' /\ HoppedInv' /\ RunInv' /\ OpInv'
  BY <1>8 DEF LoopInv, HoppedInv, RunInv, OpInv, InLoop
<1> QED BY <1>3, <1>4, <1>5, <1>7, <1>9 DEF LeafInv

\* One half of a split: it is written, or becomes the image the new key is
\* placed in.
LEMMA SplitIntoStep ==
  ASSUME LeafInv, op.pc = "split", NEW img \in Image, ExactBut(img, Span),
         NEW keep, SplitInto(img, keep), lo' \in LeafKeys
  PROVE  /\ LeafInv'
         /\ op.k \notin keep => op'.pc = "idle" /\ leaf' = img
         /\ op.k \in keep => op'.pc = "local" /\ Back' = img /\ img.key[Hole'] = kkeyNull
<1>1. /\ LeafTypeOK /\ HopBitmapExact /\ VacancySound /\ MaxKeyKnown /\ OpInv
  BY DEF LeafInv
<1>2. PICK k \in LeafKeys : k = op.k
  BY <1>1, OpFields
<1>3. /\ latest \in [LeafKeys -> 0..Versions] /\ Versions \in Nat /\ Versions > 0
      /\ Span \in Nat /\ Span > 0
  BY <1>1, LeafConstants DEF LeafTypeOK
<1>4. /\ latest' \in [LeafKeys -> 0..Versions]
      /\ latest'[k] < Versions /\ (k \notin Upserts => latest'[k] = 0)
  <2>1. latest' = [j \in LeafKeys |-> IF j \in keep THEN latest[j] ELSE 0]
    BY DEF SplitInto
  <2>2. latest[k] < Versions /\ (k \notin Upserts => latest[k] = 0)
    BY <1>1, <1>2 DEF OpInv
  <2> QED BY <1>3, <2>1, <2>2
<1>5. CASE k \notin keep
  <2>1. Rewrite(img)
    BY <1>2, <1>5 DEF SplitInto
  <2>2. LeafGood' /\ op' = NoOp /\ leaf' = img
    BY <2>1, RewriteGood DEF Rewrite
  <2>3. op'.pc = "idle"
    BY <2>2, NoOpType
  <2>4. LeafTypeOK'
    BY <1>4, <2>2, NoOpType DEF LeafTypeOK, LeafGood
  <2>5. LoopInv' /\ HoppedInv' /\ RunInv' /\ OpInv'
    BY <2>3 DEF LoopInv, HoppedInv, RunInv, OpInv, InLoop
  <2> QED BY <1>2, <1>5, <2>2, <2>3, <2>4, <2>5 DEF LeafInv, LeafGood
<1>6. CASE k \in keep
  <2>1. PICK l \in Slots : l = Home[k]
    BY LeafConstants
  <2>2. PICK e : e = FirstEmpty(img, l, Span)
    OBVIOUS
  <2>3. /\ HasEmpty(img, l, Span)
        /\ op' = [NoOp EXCEPT !.pc = "local", !.k = k, !.img = img, !.e = e, !.j = e]
        /\ UNCHANGED <<leaf, vac, maxidx>>
    BY <1>2, <1>6, <2>1, <2>2 DEF SplitInto
  <2>4. Span \in 0..Span
    BY <1>3
  <2>5. e \in l..(l + Span - 1) /\ img.key[At(e)] = kkeyNull
    BY <2>2, <2>3, <2>4, FirstEmptySlot
  <2>6. /\ l \in Nat /\ l < Span
    BY <1>3 DEF Slots
  <2>7. e \in Nat /\ e \in 0..(2 * Span) /\ e \in l..e
    BY <1>3, <2>5, <2>6
  <2>8. op' = [pc |-> "local", k |-> k, img |-> img, e |-> e, j |-> e, hopped |-> {}]
    BY <2>3 DEF NoOp
  <2>9. op'.pc = "local" /\ op'.k = k /\ op'.img = img /\ op'.e = e /\ op'.j = e
    BY <2>8
  <2>10. Written' = Slots /\ Hole' = At(e)
    BY <2>9 DEF Written, Hole
  <2>11. Back' = img
    <3>1. Back' = Merge(img, leaf, Slots)
      BY <2>3, <2>9, <2>10 DEF Back
    <3>2. leaf \in Image
      BY <1>1 DEF LeafTypeOK
    <3>3. PICK m \in Image : /\ m = Merge(img, leaf, Slots)
             /\ \A i \in Slots : /\ m.key[i] = IF i \in Slots THEN img.key[i] ELSE leaf.key[i]
                                 /\ m.val[i] = IF i \in Slots THEN img.val[i] ELSE leaf.val[i]
                                 /\ m.hop[i] = IF i \in Slots THEN img.hop[i] ELSE leaf.hop[i]
      BY <3>2, MergeSlots
    <3>4. m = img
      BY <3>3, ImageEqual
    <3> QED BY <3>1, <3>3, <3>4
  <2>12. LeafTypeOK'
    <3>1. op' \in [pc : {"idle", "hop", "split", "local"}, k : LeafKeys, img : Image,
                   e : 0..(2 * Span), j : 0..(2 * Span), hopped : SUBSET Slots]
      BY <2>7, <2>8
    <3> QED BY <1>1, <1>4, <2>3, <3>1 DEF LeafTypeOK
  <2>13. LoopInv'
    <3>1. ExactBut(img, At(e))
      BY <2>5, EmptyIsHole
    <3> QED BY <2>1, <2>5, <2>7, <2>9, <2>10, <2>11, <3>1 DEF LoopInv
  <2>14. HoppedInv' /\ RunInv' /\ OpInv'
    BY <1>4, <2>9 DEF HoppedInv, RunInv, OpInv
  <2>15. HopBitmapExact' /\ VacancySound' /\ MaxKeyKnown'
    BY <1>1, <2>3 DEF HopBitmapExact, VacancySound, MaxKeyKnown
  <2> QED BY <1>2, <1>6, <2>5, <2>9, <2>10, <2>11, <2>12, <2>13, <2>14, <2>15 DEF LeafInv
<1> QED BY <1>5, <1>6

\* The model goes on with the left half.
LEMMA SplitLeftStep ==
  ASSUME LeafInv, SplitLeft
  PROVE  LeafInv'
<1>1. LeafTypeOK /\ HopBitmapExact
  BY DEF LeafInv
<1>2. leaf \in Image /\ lo \in LeafKeys /\ op.k \in LeafKeys
  BY <1>1, OpFields DEF LeafTypeOK
<1>3. PICK s \in LeafKeys : s = SplitKey(op.k)
  BY <1>2, SplitKeyType
<1>4. ExactBut(leaf, Span)
  BY <1>1, ExactIsExact DEF HopBitmapExact
<1>5. LeftHalf(s) \in Image /\ ExactBut(LeftHalf(s), Span)
  BY <1>2, <1>4, LeftHalfExact
<1>6. op.pc = "split" /\ SplitInto(LeftHalf(s), 1..(s - 1)) /\ lo' = lo
  BY <1>3 DEF SplitLeft
<1> QED BY <1>2, <1>5, <1>6, SplitIntoStep

\* The model goes on with the right half.
LEMMA SplitRightStep ==
  ASSUME LeafInv, SplitRight
  PROVE  LeafInv'
<1>1. LeafTypeOK /\ HopBitmapExact
  BY DEF LeafInv
<1>2. leaf \in Image /\ op.k \in LeafKeys /\ leaf.key \in [Slots -> 0..MaxKey]
  BY <1>1, OpFields DEF LeafTypeOK, Image
<1>3. PICK s \in LeafKeys : s = SplitKey(op.k)
  BY <1>2, SplitKeyType
<1>4. ExactBut(leaf, Span)
  BY <1>1, ExactIsExact DEF HopBitmapExact
<1>5. RightHalf(s) \in Image /\ ExactBut(RightHalf(s), Span)
  BY <1>2, <1>4, RightHalfExact
<1>6. PICK S : S = {x \in {leaf.key[i] : i \in Slots} \cup {op.k} : x < s} \cup {kkeyNull}
  OBVIOUS
<1>7. op.pc = "split" /\ SplitInto(RightHalf(s), s..MaxKey) /\ lo' = Max(S) + 1
  BY <1>3, <1>6 DEF SplitRight
<1>8. lo' \in LeafKeys
  <2>1. MaxKey \in Nat /\ s \in Nat /\ s > 0 /\ s <= MaxKey /\ s - 1 \in Nat
    BY LeafConstants DEF LeafKeys
  <2>2. S \subseteq 0..(s - 1)
    BY <1>2, <1>6, <2>1 DEF kkeyNull, LeafKeys
  <2>3. S # {}
    BY <1>6
  <2>4. Max(S) \in S
    BY <2>1, <2>2, <2>3, MaxOfNat
  <2>5. Max(S) \in 0..(s - 1)
    BY <2>2, <2>4
  <2> QED BY <1>7, <2>1, <2>5 DEF LeafKeys
<1> QED BY <1>5, <1>7, <1>8, SplitIntoStep

\* The half is written with the new key in it.
LEMMA SplitPlaceStep ==
  ASSUME LeafInv, SplitPlace
  PROVE  /\ LeafInv'
         /\ \E q \in Slots, y \in Offsets, v \in 0..Versions :
              /\ q = Hole /\ q = At(Home[op.k] + y) /\ v = NextVal(op.k)
              /\ \A i \in Slots :
                   /\ leaf'.key[i] = IF i = q THEN op.k ELSE Back.key[i]
                   /\ leaf'.val[i] = IF i = q THEN v ELSE Back.val[i]
<1>1. LeafTypeOK /\ LoopInv /\ OpInv
  BY DEF LeafInv
<1>2. /\ op.pc = "local" /\ ~Hopping /\ InLoop /\ Rewrite(Final) /\ lo' = lo
      /\ latest' = [latest EXCEPT ![op.k] = NextVal(op.k)]
  BY DEF SplitPlace, InLoop
<1>3. PICK q \in Slots, y \in Offsets, v \in 0..Versions :
        /\ q = Hole /\ q \in Written
        /\ At(Home[op.k] + y) = q /\ v = NextVal(op.k)
        /\ Final = PlacedAt(op.img, op.k, v, q, y)
  BY <1>2, FinalIs
<1>4. PICK k \in LeafKeys, b \in Image : k = op.k /\ b = Back
  BY <1>1, OpFields, BackSlots
<1>5. op.img = b
  <2>1. op.img \in Image /\ Written = Slots
    BY <1>1, <1>2, OpFields DEF Written
  <2>2. \A i \in Slots : b.key[i] = op.img.key[i] /\ b.val[i] = op.img.val[i] /\ b.hop[i] = op.img.hop[i]
    BY <1>1, <1>4, <2>1, BackSlots
  <2> QED BY <2>1, <2>2, ImageEqual
<1>6. PICK g \in Image :
        /\ g = PlacedAt(b, k, v, q, y)
        /\ \A i \in Slots : /\ g.key[i] = IF i = q THEN k ELSE b.key[i]
                            /\ g.val[i] = IF i = q THEN v ELSE b.val[i]
  BY PlacedSlots
<1>7. g = Final
  BY <1>3, <1>4, <1>5, <1>6
<1>8. ExactBut(b, q)
  BY <1>1, <1>2, <1>3, <1>4 DEF LoopInv
<1>9. ExactBut(g, Span)
  BY <1>3, <1>4, <1>6, <1>8, PlaceKeepsExact
<1>10. LeafGood' /\ op' = NoOp /\ leaf' = g
  BY <1>2, <1>7, <1>9, RewriteGood DEF Rewrite
<1>11. op'.pc = "idle"
  BY <1>10, NoOpType
<1>12. latest' \in [LeafKeys -> 0..Versions]
  BY <1>1, <1>2, <1>3 DEF LeafTypeOK
<1>13. LeafTypeOK'
  BY <1>1, <1>2, <1>10, <1>12, NoOpType DEF LeafTypeOK, LeafGood
<1>14. LoopInv' /\ HoppedInv' /\ RunInv' /\ OpInv'
  BY <1>11 DEF LoopInv, HoppedInv, RunInv, OpInv, InLoop
<1> QED BY <1>3, <1>4, <1>6, <1>10, <1>13, <1>14 DEF LeafInv, LeafGood

\* The invariant is inductive.
LEMMA StepLeaf == LeafInv /\ [LeafNext]_leafVars => LeafInv'
<1> SUFFICES ASSUME LeafInv, [LeafNext]_leafVars PROVE LeafInv'
  OBVIOUS
<1>1. ASSUME NEW k \in LeafKeys, InsertExisting(k) PROVE LeafInv'
  BY <1>1, InsertExistingStep
<1>2. ASSUME NEW k \in LeafKeys, InsertNew(k) PROVE LeafInv'
  BY <1>2, InsertNewStep
<1>3. ASSUME NEW k \in LeafKeys, Update(k) PROVE LeafInv'
  BY <1>3, UpdateStep
<1>4. CASE Hop
  BY <1>4, HopStep
<1>5. CASE HopFails
  BY <1>5, HopFailsStep
<1>6. CASE InsertPlace
  BY <1>6, InsertPlaceStep
<1>7. CASE SplitLeft
  BY <1>7, SplitLeftStep
<1>8. CASE SplitRight
  BY <1>8, SplitRightStep
<1>9. CASE SplitPlace
  BY <1>9, SplitPlaceStep
<1>10. CASE UNCHANGED leafVars
  <2>1. UNCHANGED <<leaf, vac, maxidx, lo, latest, op>>
    BY <1>10 DEF leafVars
  <2>2. LeafTypeOK' /\ HopBitmapExact' /\ VacancySound' /\ MaxKeyKnown'
    BY <2>1 DEF LeafInv, LeafTypeOK, HopBitmapExact, VacancySound, MaxKeyKnown
  <2>3. Back' = Back /\ Hole' = Hole /\ Written' = Written /\ InLoop' = InLoop
    BY <2>1 DEF Back, Hole, Written, InLoop
  <2>4. LoopInv' /\ HoppedInv' /\ RunInv' /\ OpInv'
    BY <2>1, <2>3 DEF LeafInv, LoopInv, HoppedInv, RunInv, OpInv
  <2> QED BY <2>2, <2>4 DEF LeafInv
<1> QED BY <1>1, <1>2, <1>3, <1>4, <1>5, <1>6, <1>7, <1>8, <1>9, <1>10 DEF LeafNext

\* The invariant of a leaf holds whatever insertions, updates and splits do.
THEOREM LeafInvariant == LeafSpec => []LeafInv
<1>1. LeafInit => LeafInv
  BY InitLeaf
<1>2. LeafInv /\ [LeafNext]_leafVars => LeafInv'
  BY StepLeaf
<1> QED BY <1>1, <1>2, PTL DEF LeafSpec

\* The leaf, its lock word and the copy of an insertion keep their types: no
\* hop of hopscotch_insert_and_unlock leaves the leaf or the neighbourhood.
THEOREM LeafTypes == LeafSpec => []LeafTypeOK
<1>1. LeafInv => LeafTypeOK
  BY DEF LeafInv
<1> QED BY <1>1, LeafInvariant, PTL

\* Hop bitmaps are exact after every segment write and every split.
THEOREM HopBitmapsExact == LeafSpec => []HopBitmapExact
<1>1. LeafInv => HopBitmapExact
  BY DEF LeafInv
<1> QED BY <1>1, LeafInvariant, PTL

\* A clear bit of the vacancy bitmap in the lock word is true.
THEOREM VacancyBitsSound == LeafSpec => []VacancySound
<1>1. LeafInv => VacancySound
  BY DEF LeafInv
<1> QED BY <1>1, LeafInvariant, PTL

\* max_key_idx in the lock word is where the largest key is.
THEOREM MaxKeyIndexRight == LeafSpec => []MaxKeyKnown
<1>1. LeafInv => MaxKeyKnown
  BY DEF LeafInv
<1> QED BY <1>1, LeafInvariant, PTL

-----------------------------------------------------------------------------
(* A leaf is a map *)

\* An empty slot may be taken for the hole, or the hole for an empty slot.
LEMMA HoldsEmpty ==
  ASSUME NEW img, NEW last, NEW q \in Slots, img.key[q] = kkeyNull, NEW k \in LeafKeys,
         HoldsBut(img, last, Span, k)
  PROVE  HoldsBut(img, last, q, k)
<1>1. k # kkeyNull /\ \A i \in Slots : i # Span
  BY LeafConstants DEF LeafKeys, kkeyNull, Slots
<1>2. \A i \in Slots : i \in Slots \ {Span}
  BY <1>1
<1>3. \A i \in Slots : img.key[i] = k => i # q
  BY <1>1
<1> QED BY <1>2, <1>3 DEF HoldsBut

\* A value written in place is the value last written of its key.
LEMMA HoldsWrite ==
  ASSUME leaf \in Image, latest \in [LeafKeys -> 0..Versions],
         NEW c \in LeafKeys, NEW i \in Slots, leaf.key[i] = c,
         leaf'.key = leaf.key, leaf'.val = [leaf.val EXCEPT ![i] = NextVal(c)],
         latest' = [latest EXCEPT ![c] = NextVal(c)],
         NEW k \in LeafKeys, HoldsBut(leaf, latest, Span, k)
  PROVE  HoldsBut(leaf', latest', Span, k)
<1>1. NextVal(c) # 0
  BY LeafConstants DEF NextVal
<1>2. PICK v : v = NextVal(c) /\ v # 0
  BY <1>1
<1>3. PICK g, last : g = leaf' /\ last = latest'
  OBVIOUS
<1>4. /\ \A j \in Slots : g.key[j] = leaf.key[j] /\ g.val[j] = IF j = i THEN v ELSE leaf.val[j]
      /\ last[k] = IF k = c THEN v ELSE latest[k]
  BY <1>2, <1>3 DEF Image
<1>5. \A j \in Slots : j \in Slots \ {Span}
  BY LeafConstants DEF Slots
<1>6. /\ \A j \in Slots : leaf.key[j] = k =>
           /\ leaf.val[j] = latest[k] /\ latest[k] # 0
           /\ \E z \in Offsets : j = At(Home[k] + z)
           /\ \A m \in Slots : leaf.key[m] = k => j = m
      /\ latest[k] # 0 => \E j \in Slots : leaf.key[j] = k
  BY <1>5 DEF HoldsBut
<1>7. /\ \A j \in Slots : g.key[j] = k =>
           /\ g.val[j] = last[k] /\ last[k] # 0
           /\ \E z \in Offsets : j = At(Home[k] + z)
           /\ \A m \in Slots : g.key[m] = k => j = m
      /\ last[k] # 0 => \E j \in Slots : g.key[j] = k
  <2>1. CASE k = c
    BY <1>2, <1>4, <1>6, <2>1
  <2>2. CASE k # c
    BY <1>4, <1>6, <2>2
  <2> QED BY <2>1, <2>2
<1>8. HoldsBut(g, last, Span, k)
  BY <1>5, <1>7 DEF HoldsBut
<1> QED BY <1>3, <1>8

\* A hop takes the entry and its value along.
LEMMA HoldsHop ==
  ASSUME NEW img, NEW g, NEW last, NEW k \in LeafKeys,
         NEW p \in Slots, NEW q \in Slots, NEW y \in Offsets, p # q,
         img.key[p] = k => At(Home[k] + y) = q,
         \A i \in Slots : /\ g.key[i] = IF i = q THEN img.key[p] ELSE img.key[i]
                          /\ g.val[i] = IF i = q THEN img.val[p] ELSE img.val[i],
         HoldsBut(img, last, q, k)
  PROVE  HoldsBut(g, last, p, k)
<1>1. \A i \in Slots \ {q} : img.key[i] = k =>
        /\ img.val[i] = last[k] /\ last[k] # 0
        /\ \E z \in Offsets : i = At(Home[k] + z)
        /\ \A j \in Slots \ {q} : img.key[j] = k => i = j
  BY DEF HoldsBut
<1>2. ASSUME NEW i \in Slots \ {p}, g.key[i] = k
      PROVE  /\ g.val[i] = last[k] /\ last[k] # 0
             /\ \E z \in Offsets : i = At(Home[k] + z)
             /\ \A j \in Slots \ {p} : g.key[j] = k => i = j
  <2>1. CASE i = q
    <3>1. img.key[p] = k /\ g.val[i] = img.val[p]
      BY <1>2, <2>1
    <3>2. ASSUME NEW j \in Slots \ {p}, g.key[j] = k PROVE i = j
      BY <1>1, <2>1, <3>1, <3>2
    <3> QED BY <1>1, <2>1, <3>1, <3>2
  <2>2. CASE i # q
    <3>1. img.key[i] = k /\ g.val[i] = img.val[i]
      BY <1>2, <2>2
    <3>2. ASSUME NEW j \in Slots \ {p}, g.key[j] = k PROVE i = j
      <4>1. CASE j = q
        BY <1>1, <1>2, <2>2, <3>1, <3>2, <4>1
      <4>2. CASE j # q
        BY <1>1, <2>2, <3>1, <3>2, <4>2
      <4> QED BY <4>1, <4>2
    <3> QED BY <1>1, <2>2, <3>1, <3>2
  <2> QED BY <2>1, <2>2
<1>3. ASSUME last[k] # 0 PROVE \E i \in Slots \ {p} : g.key[i] = k
  <2>1. PICK i \in Slots \ {q} : img.key[i] = k
    BY <1>3 DEF HoldsBut
  <2>2. CASE i = p
    <3>1. g.key[q] = k
      BY <2>1, <2>2
    <3> QED BY <3>1
  <2>3. CASE i # p
    <3>1. g.key[i] = k
      BY <2>1
    <3> QED BY <2>3, <3>1
  <2> QED BY <2>2, <2>3
<1> QED BY <1>2, <1>3 DEF HoldsBut

\* Placing a key that the leaf does not have makes it present, once.
LEMMA HoldsPlace ==
  ASSUME NEW img, NEW g, NEW last, NEW next, NEW k \in LeafKeys, NEW c \in LeafKeys,
         NEW q \in Slots, NEW y \in Offsets, q = At(Home[c] + y), NEW v, v # 0,
         \A i \in Slots : /\ g.key[i] = IF i = q THEN c ELSE img.key[i]
                          /\ g.val[i] = IF i = q THEN v ELSE img.val[i],
         next[k] = IF k = c THEN v ELSE last[k],
         k = c => last[k] = 0,
         HoldsBut(img, last, q, k)
  PROVE  HoldsBut(g, next, Span, k)
<1>1. \A i \in Slots \ {q} : img.key[i] = k =>
        /\ img.val[i] = last[k] /\ last[k] # 0
        /\ \E z \in Offsets : i = At(Home[k] + z)
        /\ \A j \in Slots \ {q} : img.key[j] = k => i = j
  BY DEF HoldsBut
<1>2. last[k] # 0 => \E i \in Slots \ {q} : img.key[i] = k
  BY DEF HoldsBut
<1>3. \A i \in Slots : i \in Slots \ {Span}
  BY LeafConstants DEF Slots
<1>4. CASE k = c
  <2>1. \A i \in Slots : g.key[i] = k => i = q
    BY <1>1, <1>4
  <2>2. g.key[q] = k /\ g.val[q] = v /\ next[k] = v
    BY <1>4
  <2> QED BY <1>3, <1>4, <2>1, <2>2 DEF HoldsBut
<1>5. CASE k # c
  <2>1. \A i \in Slots : g.key[i] = k <=> i # q /\ img.key[i] = k
    BY <1>5
  <2>2. \A i \in Slots : i # q => g.val[i] = img.val[i]
    OBVIOUS
  <2>3. next[k] = last[k]
    BY <1>5
  <2> QED BY <1>1, <1>2, <1>3, <2>1, <2>2, <2>3 DEF HoldsBut
<1> QED BY <1>4, <1>5

\* The half of a split that takes the keys in keep.
LEMMA HoldsHalf ==
  ASSUME NEW img, NEW g, NEW last, NEW next, NEW k \in LeafKeys, NEW keep,
         \A i \in Slots : /\ g.key[i] = k <=> img.key[i] = k /\ k \in keep
                          /\ k \in keep /\ img.key[i] = k => g.val[i] = img.val[i],
         next[k] = IF k \in keep THEN last[k] ELSE 0,
         HoldsBut(img, last, Span, k)
  PROVE  HoldsBut(g, next, Span, k)
BY DEF HoldsBut

\* The root leaf holds the ghost key.
LEMMA InitValues == LeafInit => ValueInv
<1> SUFFICES ASSUME LeafInit PROVE ValueInv
  OBVIOUS
<1>1. op.pc = "idle"
  BY NoOpType DEF LeafInit
<1>2. MaxKey \in LeafKeys /\ 1 \in 0..Versions /\ 0 \in Offsets /\ Span \in Nat /\ Span > 0
  BY LeafConstants DEF LeafKeys, Offsets
<1>3. PICK l \in Slots : l = Home[MaxKey]
  BY <1>2, LeafConstants
<1>4. l \in 0..(3 * Span - 1) /\ l \in Nat /\ l < Span /\ l - l = 0 /\ l + 0 = l
  BY <1>2 DEF Slots
<1>5. At(l) = l
  BY <1>2, <1>4, AtValue
<1>6. leaf = PlacedAt(EmptyImage, MaxKey, 1, l, 0)
  BY <1>3, <1>4, <1>5 DEF LeafInit, Placed, PlacedAt
<1>7. \A i \in Slots : /\ leaf.key[i] = IF i = l THEN MaxKey ELSE EmptyImage.key[i]
                       /\ leaf.val[i] = IF i = l THEN 1 ELSE EmptyImage.val[i]
  BY <1>2, <1>6, NoOpType, PlacedSlots
<1>8. ASSUME NEW k \in LeafKeys PROVE HoldsBut(leaf, latest, Span, k)
  <2>1. PICK last : last = [j \in LeafKeys |-> 0]
    OBVIOUS
  <2>2. HoldsBut(EmptyImage, last, l, k)
    <3>1. \A i \in Slots : EmptyImage.key[i] # k
      BY LeafConstants DEF EmptyImage, kkeyNull, LeafKeys
    <3> QED BY <2>1, <3>1 DEF HoldsBut
  <2>3. last[k] = 0 /\ latest[k] = IF k = MaxKey THEN 1 ELSE last[k]
    BY <2>1 DEF LeafInit
  <2>4. l = At(Home[MaxKey] + 0)
    BY <1>3, <1>4, <1>5
  <2> QED BY <1>2, <1>7, <2>2, <2>3, <2>4, HoldsPlace
<1> QED BY <1>1, <1>8 DEF ValueInv, InLoop

\* Writes in place: an insertion that finds the key, and an update.
LEMMA WriteValues ==
  ASSUME LeafInv, ValueInv, NEW c \in LeafKeys, InsertExisting(c) \/ Update(c)
  PROVE  ValueInv'
<1>1. /\ LeafTypeOK /\ op.pc = "idle" /\ latest[c] < Versions
      /\ latest' = [latest EXCEPT ![c] = NextVal(c)] /\ UNCHANGED <<vac, maxidx, lo, op>>
  BY LeafConstants DEF LeafInv, InsertExisting, Insertable, Update
<1>2. leaf \in Image /\ vac \subseteq Buckets /\ latest \in [LeafKeys -> 0..Versions]
  BY <1>1 DEF LeafTypeOK
<1>3. PICK i \in Slots : leaf.key[i] = c /\ leaf' = [leaf EXCEPT !.val[i] = NextVal(c)]
  <2>1. CASE Update(c)
    BY <2>1 DEF Update, Matches
  <2>2. CASE InsertExisting(c)
    <3>1. PICK img : img = ReadFrom(Home[c], EntriesRead(Home[c]))
      OBVIOUS
    <3>2. PICK i \in Slots : img.key[i] = c /\ leaf' = [leaf EXCEPT !.val[i] = NextVal(c)]
      BY <2>2, <3>1 DEF InsertExisting
    <3>3. c # kkeyNull
      BY LeafConstants DEF LeafKeys, kkeyNull
    <3>4. img.key[i] = leaf.key[i] \/ img.key[i] = kkeyNull
      BY <3>1 DEF ReadFrom
    <3> QED BY <3>2, <3>3, <3>4
  <2> QED BY <2>1, <2>2
<1>4. leaf'.key = leaf.key /\ leaf'.val = [leaf.val EXCEPT ![i] = NextVal(c)]
  BY <1>1, <1>3, WriteValue
<1>5. ASSUME NEW k \in LeafKeys \ Upserts PROVE HoldsBut(leaf', latest', Span, k)
  <2>1. HoldsBut(leaf, latest, Span, k)
    BY <1>1 DEF ValueInv
  <2> QED BY <1>1, <1>2, <1>3, <1>4, <2>1, HoldsWrite
<1> QED BY <1>1, <1>5 DEF ValueInv, InLoop

\* An insertion that starts has moved nothing.
LEMMA InsertNewValues ==
  ASSUME LeafInv, ValueInv, NEW c \in LeafKeys, InsertNew(c)
  PROVE  ValueInv'
<1>1. /\ LeafInv' /\ op'.pc \in {"hop", "split"} /\ UNCHANGED <<leaf, latest>>
      /\ op'.pc = "hop" => Back' = leaf /\ leaf.key[Hole'] = kkeyNull
  BY InsertNewStep
<1>2. op.pc = "idle"
  BY DEF InsertNew, Insertable
<1>3. ASSUME NEW k \in LeafKeys \ Upserts
      PROVE  /\ HoldsBut(leaf', latest', Span, k)
             /\ op'.pc = "hop" => HoldsBut(Back', latest', Hole', k)
  <2>1. HoldsBut(leaf, latest, Span, k)
    BY <1>2 DEF ValueInv
  <2>2. ASSUME op'.pc = "hop" PROVE HoldsBut(leaf, latest, Hole', k)
    <3>1. LeafTypeOK' /\ LoopInv' /\ InLoop'
      BY <1>1, <2>2 DEF LeafInv, InLoop
    <3>2. Hole' \in Slots
      <4>1. op'.j \in Home[op'.k]..op'.e /\ op'.e \in Home[op'.k]..(Home[op'.k] + Span - 1)
        BY <3>1 DEF LoopInv
      <4>2. Home[op'.k] \in Slots
        BY <3>1, LeafConstants DEF LeafTypeOK
      <4>3. op'.j \in 0..(3 * Span - 1)
        BY <4>1, <4>2, LeafConstants DEF Slots
      <4> QED BY <4>3, AtValue DEF Hole
    <3> QED BY <1>1, <2>1, <2>2, <3>2, HoldsEmpty
  <2> QED BY <1>1, <2>1, <2>2
<1> QED BY <1>1, <1>3 DEF ValueInv, InLoop

\* A hop.
LEMMA HopValues ==
  ASSUME LeafInv, ValueInv, Hop
  PROVE  ValueInv'
<1>1. LeafTypeOK /\ LoopInv /\ InLoop
  BY DEF LeafInv, Hop, Hopping, InLoop
<1>2. PICK h \in Nat, p \in Slots, q \in Slots, c \in Slots, z \in Offsets, y \in Offsets :
         HopFacts(h, p, q, c, z, y)
  BY HopIs
<1>3. /\ op'.pc = op.pc /\ UNCHANGED <<leaf, latest>> /\ Hole' = p
      /\ Back' = HoppedAt(Back, p, q, c, z, y)
  BY <1>2, HopBack
<1>4. /\ p # q /\ q = Hole /\ At(c + z) = p /\ At(c + y) = q /\ z \in Back.hop[c]
  BY <1>2 DEF HopFacts
<1>5. PICK b \in Image : b = Back
  BY <1>1, BackSlots
<1>6. PICK g \in Image :
        /\ g = HoppedAt(b, p, q, c, z, y)
        /\ \A i \in Slots : /\ g.key[i] = IF i = q THEN b.key[p] ELSE b.key[i]
                            /\ g.val[i] = IF i = q THEN b.val[p] ELSE b.val[i]
  BY HoppedSlots
<1>7. Home[b.key[p]] = c
  <2>1. ExactBut(b, q)
    BY <1>1, <1>4, <1>5 DEF LoopInv
  <2> QED BY <1>4, <1>5, <2>1, HopKeepsExact
<1>8. ASSUME NEW k \in LeafKeys \ Upserts
      PROVE  HoldsBut(g, latest, p, k) /\ (op.pc # "local" => HoldsBut(leaf, latest, Span, k))
  <2>1. HoldsBut(b, latest, q, k) /\ (op.pc # "local" => HoldsBut(leaf, latest, Span, k))
    BY <1>1, <1>4, <1>5 DEF ValueInv
  <2>2. b.key[p] = k => At(Home[k] + y) = q
    BY <1>4, <1>7
  <2> QED BY <1>4, <1>6, <2>1, <2>2, HoldsHop
<1> QED BY <1>3, <1>5, <1>6, <1>8 DEF ValueInv

\* The new key is written.
LEMMA PlaceValues ==
  ASSUME LeafInv, ValueInv, InsertPlace \/ SplitPlace
  PROVE  ValueInv'
<1>1. /\ LeafTypeOK /\ InLoop /\ OpInv
      /\ latest' = [latest EXCEPT ![op.k] = NextVal(op.k)] /\ op' = NoOp
  BY DEF LeafInv, InsertPlace, SplitPlace, InLoop, Rewrite
<1>2. PICK c \in LeafKeys : c = op.k
  BY <1>1, OpFields
<1>3. PICK q \in Slots, y \in Offsets, v \in 0..Versions :
        /\ q = Hole /\ q = At(Home[c] + y) /\ v = NextVal(c)
        /\ \A i \in Slots : /\ leaf'.key[i] = IF i = q THEN c ELSE Back.key[i]
                            /\ leaf'.val[i] = IF i = q THEN v ELSE Back.val[i]
  BY <1>2, InsertPlaceExact, SplitPlaceStep
<1>4. latest \in [LeafKeys -> 0..Versions] /\ v # 0
  BY <1>1, <1>3, LeafConstants DEF LeafTypeOK, NextVal
<1>5. op'.pc = "idle"
  BY <1>1, NoOpType
<1>6. PICK b, g, next : b = Back /\ g = leaf' /\ next = latest'
  OBVIOUS
<1>7. \A i \in Slots : /\ g.key[i] = IF i = q THEN c ELSE b.key[i]
                       /\ g.val[i] = IF i = q THEN v ELSE b.val[i]
  BY <1>3, <1>6
<1>8. ASSUME NEW k \in LeafKeys \ Upserts PROVE HoldsBut(g, next, Span, k)
  <2>1. HoldsBut(b, latest, q, k)
    BY <1>1, <1>3, <1>6 DEF ValueInv
  <2>2. next[k] = IF k = c THEN v ELSE latest[k]
    BY <1>1, <1>2, <1>3, <1>4, <1>6
  <2>3. k = c => latest[k] = 0
    BY <1>1, <1>2 DEF OpInv, InLoop
  <2>4. q = At(Home[c] + y) /\ v # 0 /\ k \in LeafKeys
    BY <1>3, <1>4
  <2> QED BY <1>7, <2>1, <2>2, <2>3, <2>4, HoldsPlace
<1> QED BY <1>5, <1>6, <1>8 DEF ValueInv, InLoop

\* The halves keep the records of their keys.
LEMMA SplitIntoValues ==
  ASSUME LeafInv, ValueInv, op.pc = "split", NEW img \in Image, ExactBut(img, Span),
         NEW keep, SplitInto(img, keep), lo' \in LeafKeys,
         \A i \in Slots : IF leaf.key[i] \in keep
                            THEN img.key[i] = leaf.key[i] /\ img.val[i] = leaf.val[i]
                            ELSE img.key[i] = kkeyNull
  PROVE  ValueInv'
<1>1. /\ LeafInv'
      /\ op.k \notin keep => op'.pc = "idle" /\ leaf' = img
      /\ op.k \in keep => op'.pc = "local" /\ Back' = img /\ img.key[Hole'] = kkeyNull
  BY SplitIntoStep
<1>2. PICK next : next = latest'
  OBVIOUS
<1>3. ASSUME NEW k \in LeafKeys \ Upserts PROVE HoldsBut(img, next, Span, k)
  <2>1. HoldsBut(leaf, latest, Span, k)
    BY DEF ValueInv
  <2>2. next[k] = IF k \in keep THEN latest[k] ELSE 0
    BY <1>2 DEF SplitInto
  <2>3. k # kkeyNull
    BY LeafConstants DEF LeafKeys, kkeyNull
  <2>4. \A i \in Slots : /\ img.key[i] = k <=> leaf.key[i] = k /\ k \in keep
                         /\ k \in keep /\ leaf.key[i] = k => img.val[i] = leaf.val[i]
    BY <2>3
  <2> QED BY <2>1, <2>2, <2>4, HoldsHalf
<1>4. CASE op.k \notin keep
  BY <1>1, <1>2, <1>3, <1>4 DEF ValueInv, InLoop
<1>5. CASE op.k \in keep
  <2>1. LeafTypeOK' /\ LoopInv' /\ InLoop'
    BY <1>1, <1>5 DEF LeafInv, InLoop
  <2>2. Hole' \in Slots
    <3>1. op'.j \in Home[op'.k]..op'.e /\ op'.e \in Home[op'.k]..(Home[op'.k] + Span - 1)
      BY <2>1 DEF LoopInv
    <3>2. Home[op'.k] \in Slots
      BY <2>1, LeafConstants DEF LeafTypeOK
    <3>3. op'.j \in 0..(3 * Span - 1)
      BY <3>1, <3>2, LeafConstants DEF Slots
    <3> QED BY <3>3, AtValue DEF Hole
  <2>3. ASSUME NEW k \in LeafKeys \ Upserts PROVE HoldsBut(img, next, Hole', k)
    BY <1>1, <1>3, <1>5, <2>2, HoldsEmpty
  <2> QED BY <1>1, <1>2, <1>5, <2>3 DEF ValueInv
<1> QED BY <1>4, <1>5

\* A split.
LEMMA SplitValues ==
  ASSUME LeafInv, ValueInv, SplitLeft \/ SplitRight
  PROVE  ValueInv'
<1>1. LeafTypeOK /\ HopBitmapExact /\ op.pc = "split"
  BY DEF LeafInv, SplitLeft, SplitRight
<1>2. leaf \in Image /\ op.k \in LeafKeys /\ leaf.key \in [Slots -> 0..MaxKey]
  BY <1>1, OpFields DEF LeafTypeOK, Image
<1>3. PICK s \in LeafKeys : s = SplitKey(op.k)
  BY <1>2, SplitKeyType
<1>4. ExactBut(leaf, Span)
  BY <1>1, ExactIsExact DEF HopBitmapExact
<1>5. s \in Nat /\ s > 0 /\ MaxKey \in Nat /\ s <= MaxKey
  BY LeafConstants DEF LeafKeys
<1>6. CASE SplitLeft
  <2>1. PICK g \in Image : g = LeftHalf(s) /\ ExactBut(g, Span)
    BY <1>2, <1>4, LeftHalfExact
  <2>2. \A i \in Slots : IF leaf.key[i] \in 1..(s - 1)
                           THEN g.key[i] = leaf.key[i] /\ g.val[i] = leaf.val[i]
                           ELSE g.key[i] = kkeyNull
    <3>1. TAKE i \in Slots
    <3>2. /\ g.key[i] = IF leaf.key[i] >= s THEN kkeyNull ELSE leaf.key[i]
          /\ g.val[i] = IF leaf.key[i] >= s THEN 0 ELSE leaf.val[i]
      BY <2>1 DEF LeftHalf, Moves
    <3>3. leaf.key[i] \in Nat
      BY <1>2, <1>5
    <3> QED BY <1>5, <3>2, <3>3 DEF kkeyNull
  <2>3. SplitInto(g, 1..(s - 1)) /\ lo' = lo
    BY <1>3, <1>6, <2>1 DEF SplitLeft
  <2>4. lo' \in LeafKeys
    BY <1>1, <2>3 DEF LeafTypeOK
  <2> QED BY <1>1, <2>1, <2>2, <2>3, <2>4, SplitIntoValues
<1>7. CASE SplitRight
  <2>1. PICK g \in Image : g = RightHalf(s) /\ ExactBut(g, Span)
    BY <1>2, <1>4, RightHalfExact
  <2>2. \A i \in Slots : IF leaf.key[i] \in s..MaxKey
                           THEN g.key[i] = leaf.key[i] /\ g.val[i] = leaf.val[i]
                           ELSE g.key[i] = kkeyNull
    <3>1. TAKE i \in Slots
    <3>2. /\ g.key[i] = IF leaf.key[i] >= s THEN leaf.key[i] ELSE kkeyNull
          /\ g.val[i] = IF leaf.key[i] >= s THEN leaf.val[i] ELSE 0
      BY <2>1 DEF RightHalf, Moves
    <3>3. leaf.key[i] \in 0..MaxKey
      BY <1>2
    <3> QED BY <1>5, <3>2, <3>3
  <2>3. SplitInto(g, s..MaxKey)
    BY <1>3, <1>7, <2>1 DEF SplitRight
  <2>4. lo' \in LeafKeys
    BY <1>7, SplitRightStep DEF LeafInv, LeafTypeOK
  <2> QED BY <1>1, <2>1, <2>2, <2>3, <2>4, SplitIntoValues
<1> QED BY <1>6, <1>7

\* The invariant about values is kept.
LEMMA StepValues == LeafInv /\ ValueInv /\ [LeafNext]_leafVars => ValueInv'
<1> SUFFICES ASSUME LeafInv, ValueInv, [LeafNext]_leafVars PROVE ValueInv'
  OBVIOUS
<1>1. ASSUME NEW k \in LeafKeys, InsertExisting(k) PROVE ValueInv'
  BY <1>1, WriteValues
<1>2. ASSUME NEW k \in LeafKeys, InsertNew(k) PROVE ValueInv'
  BY <1>2, InsertNewValues
<1>3. ASSUME NEW k \in LeafKeys, Update(k) PROVE ValueInv'
  BY <1>3, WriteValues
<1>4. CASE Hop
  BY <1>4, HopValues
<1>5. CASE HopFails
  <2>1. op.pc = "hop" /\ op'.pc = "split" /\ UNCHANGED <<leaf, latest>>
    BY <1>5 DEF HopFails, NoOp
  <2> QED BY <2>1 DEF ValueInv, InLoop
<1>6. CASE InsertPlace
  BY <1>6, PlaceValues
<1>7. CASE SplitLeft
  BY <1>7, SplitValues
<1>8. CASE SplitRight
  BY <1>8, SplitValues
<1>9. CASE SplitPlace
  BY <1>9, PlaceValues
<1>10. CASE UNCHANGED leafVars
  <2>1. UNCHANGED <<leaf, vac, maxidx, lo, latest, op>>
    BY <1>10 DEF leafVars
  <2>2. Back' = Back /\ Hole' = Hole /\ InLoop' = InLoop
    BY <2>1 DEF Back, Hole, Written, InLoop
  <2> QED BY <2>1, <2>2 DEF ValueInv
<1> QED BY <1>1, <1>2, <1>3, <1>4, <1>5, <1>6, <1>7, <1>8, <1>9, <1>10 DEF LeafNext

\* A key that insert is called for only while the leaf does not hold it is
\* found in its neighbourhood with the value last written, and only there; one
\* that was never inserted, or went to the other half of a split, is not found.
THEOREM LeafIsAMap == LeafSpec => []LatestFound
<1>1. LeafInit => LeafInv /\ ValueInv
  BY InitLeaf, InitValues
<1>2. LeafInv /\ ValueInv /\ [LeafNext]_leafVars => LeafInv' /\ ValueInv'
  BY StepLeaf, StepValues
<1>3. ValueInv => LatestFound
  <2> SUFFICES ASSUME ValueInv, NEW k \in LeafKeys \ Upserts, op.pc = "idle"
               PROVE  /\ latest[k] # 0 <=> Matches(k) # {}
                      /\ \A i \in Matches(k) : leaf.val[i] = latest[k]
    BY DEF LatestFound, Found
  <2>1. \A i \in Slots : i \in Slots \ {Span}
    BY LeafConstants DEF Slots
  <2>2. /\ \A i \in Slots : leaf.key[i] = k =>
             /\ leaf.val[i] = latest[k] /\ latest[k] # 0
             /\ \E z \in Offsets : i = At(Home[k] + z)
        /\ latest[k] # 0 => \E i \in Slots : leaf.key[i] = k
    BY <2>1 DEF ValueInv, HoldsBut
  <2> QED BY <2>2 DEF Matches
<1> QED BY <1>1, <1>2, <1>3, PTL DEF LeafSpec

-----------------------------------------------------------------------------
(* The assertions *)

\* The farthest entry that may hop to j is nearer to l than j.
LEMMA NearMin ==
  ASSUME NEW l \in Nat, NEW j \in Nat, j >= l + Neighbor, NearEnough(j) # {}
  PROVE  /\ Min(NearEnough(j)) \in NearEnough(j)
         /\ \A h \in NearEnough(j) : Min(NearEnough(j)) <= h
         /\ Min(NearEnough(j)) \in l..(j - 1)
<1>1. Neighbor \in Nat /\ Neighbor > 1
  BY LeafConstants
<1>2. \A h \in NearEnough(j) : h \in (j - Neighbor + 1)..(j - 1)
  BY DEF NearEnough
<1>3. PICK S : S = NearEnough(j)
  OBVIOUS
<1>4. S \subseteq Nat
  BY <1>1, <1>2, <1>3
<1>5. Min(S) \in S /\ \A h \in S : Min(S) <= h
  BY <1>3, <1>4, MinOfNat
<1>6. Min(S) \in l..(j - 1)
  BY <1>1, <1>2, <1>3, <1>5
<1> QED BY <1>3, <1>5, <1>6

\* f says where free slots get to, up to the n-th slot from l.
LandsTo(l, n, f) ==
  /\ f = [j \in l..(l + n) |-> f[j]]
  /\ \A j \in l..(l + n) :
       f[j] = IF j < l + Neighbor \/ NearEnough(j) = {} THEN j ELSE f[Min(NearEnough(j))]

\* There is such an f for every n.
LEMMA LandsExists ==
  ASSUME NEW l \in Nat, NEW n \in Nat
  PROVE  \E f : LandsTo(l, n, f)
<1>1. Neighbor \in Nat /\ Neighbor > 1
  BY LeafConstants
<1>2. PICK T : T = {m \in Nat : ~\E f : LandsTo(l, m, f)}
  OBVIOUS
<1>3. SUFFICES ASSUME T # {} PROVE FALSE
  BY <1>2
<1>4. T \subseteq Nat
  BY <1>2
<1>5. PICK m \in T : \A y \in T : m <= y
  BY <1>3, <1>4, LeastNat
<1>6. m \in Nat /\ ~\E f : LandsTo(l, m, f)
  BY <1>2
<1>7. CASE m = 0
  <2>1. PICK f : f = [j \in l..(l + m) |-> j]
    OBVIOUS
  <2>2. \A j \in l..(l + m) : j < l + Neighbor /\ f[j] = j
    BY <1>1, <1>7, <2>1
  <2>3. f = [j \in l..(l + m) |-> f[j]]
    BY <2>1
  <2>4. LandsTo(l, m, f)
    BY <2>2, <2>3 DEF LandsTo
  <2> QED BY <1>6, <2>4
<1>8. CASE m > 0
  <2>1. m - 1 \in Nat /\ m - 1 \notin T
    BY <1>5, <1>6, <1>8
  <2>2. PICK g : LandsTo(l, m - 1, g)
    BY <1>2, <2>1
  <2>3. \A j \in l..(l + (m - 1)) :
          g[j] = IF j < l + Neighbor \/ NearEnough(j) = {} THEN j ELSE g[Min(NearEnough(j))]
    BY <2>2 DEF LandsTo
  <2>4. PICK t : t = l + m
    OBVIOUS
  <2>5. PICK last : last = IF t < l + Neighbor \/ NearEnough(t) = {} THEN t
                           ELSE g[Min(NearEnough(t))]
    OBVIOUS
  <2>6. PICK f : f = [j \in l..(l + m) |-> IF j = t THEN last ELSE g[j]]
    OBVIOUS
  <2>7. \A j \in l..(l + m) : f[j] = IF j = t THEN last ELSE g[j]
    BY <2>6
  <2>8. ASSUME NEW j \in l..(l + m)
        PROVE  f[j] = IF j < l + Neighbor \/ NearEnough(j) = {} THEN j ELSE f[Min(NearEnough(j))]
    <3>1. CASE j < l + Neighbor \/ NearEnough(j) = {}
      <4>1. CASE j = t
        BY <2>5, <2>7, <3>1, <4>1
      <4>2. CASE j # t
        <5>1. j \in l..(l + (m - 1))
          BY <1>6, <2>4, <4>2
        <5> QED BY <2>3, <2>7, <3>1, <4>2, <5>1
      <4> QED BY <4>1, <4>2
    <3>2. CASE ~(j < l + Neighbor \/ NearEnough(j) = {})
      <4>1. j \in Nat /\ j >= l + Neighbor /\ NearEnough(j) # {}
        BY <1>1, <1>6, <3>2
      <4>2. PICK h : h = Min(NearEnough(j))
        OBVIOUS
      <4>3. h \in l..(j - 1)
        BY <4>1, <4>2, NearMin
      <4>4. h \in l..(l + m) /\ h # t
        BY <1>6, <2>4, <4>1, <4>3
      <4>5. f[h] = g[h]
        BY <2>7, <4>4
      <4>6. CASE j = t
        BY <2>5, <2>7, <3>2, <4>2, <4>5, <4>6
      <4>7. CASE j # t
        <5>1. j \in l..(l + (m - 1))
          BY <1>6, <2>4, <4>7
        <5> QED BY <2>3, <2>7, <3>2, <4>2, <4>5, <4>7, <5>1
      <4> QED BY <4>6, <4>7
    <3> QED BY <3>1, <3>2
  <2>9. f = [j \in l..(l + m) |-> f[j]]
    BY <2>6
  <2>10. LandsTo(l, m, f)
    BY <2>8, <2>9 DEF LandsTo
  <2> QED BY <1>6, <2>10
<1> QED BY <1>6, <1>7, <1>8

\* Where a free slot gets to, unfolded.
LEMMA LandsIs ==
  ASSUME NEW l \in Slots, NEW j \in l..(l + Span - 1)
  PROVE  Lands(l)[j] = IF j < l + Neighbor \/ NearEnough(j) = {} THEN j
                       ELSE Lands(l)[Min(NearEnough(j))]
<1>1. Span \in Nat /\ Span > 0 /\ l \in Nat /\ Span - 1 \in Nat /\ l + (Span - 1) = l + Span - 1
  BY LeafConstants DEF Slots
<1>2. PICK f : LandsTo(l, Span - 1, f)
  BY <1>1, LandsExists
<1>3. f = [i \in l..(l + Span - 1) |-> IF i < l + Neighbor \/ NearEnough(i) = {} THEN i
                                       ELSE f[Min(NearEnough(i))]]
  BY <1>1, <1>2 DEF LandsTo
<1>4. Lands(l) = CHOOSE g : g = [i \in l..(l + Span - 1) |->
                                   IF i < l + Neighbor \/ NearEnough(i) = {} THEN i
                                   ELSE g[Min(NearEnough(i))]]
  BY DEF Lands
<1>5. Lands(l) = [i \in l..(l + Span - 1) |->
                    IF i < l + Neighbor \/ NearEnough(i) = {} THEN i
                    ELSE Lands(l)[Min(NearEnough(i))]]
  BY <1>3, <1>4
<1> QED BY <1>5

\* If a free slot gets to the neighbourhood of l, so does every slot before
\* it: a hop that passes over the nearer slot could have ended there.
LEMMA LandsNearer ==
  ASSUME NEW l \in Slots, NEW x \in l..(l + Span - 1), Lands(l)[x] < l + Neighbor,
         \A i \in l..(x - 1) : HomeAt(i) \in Int, NEW y \in l..x
  PROVE  Lands(l)[y] < l + Neighbor
<1>1. /\ Span \in Nat /\ Span > 0 /\ l \in Nat /\ Neighbor \in Nat /\ Neighbor > 1
      /\ x \in Nat /\ y \in Nat
  BY LeafConstants DEF Slots
<1>2. PICK f : f = Lands(l)
  OBVIOUS
<1>3. \A j \in l..(l + Span - 1) :
        f[j] = IF j < l + Neighbor \/ NearEnough(j) = {} THEN j ELSE f[Min(NearEnough(j))]
  BY <1>2, LandsIs
<1>4. PICK T : T = {j \in l..x : ~(f[j] < l + Neighbor)}
  OBVIOUS
<1>5. SUFFICES ASSUME T # {} PROVE FALSE
  BY <1>2, <1>4
<1>6. T \subseteq Nat
  BY <1>1, <1>4
<1>7. PICK t \in T : \A j \in T : t <= j
  BY <1>5, <1>6, LeastNat
<1>8. t \in Nat /\ t \in l..x /\ t \in l..(l + Span - 1) /\ ~(f[t] < l + Neighbor)
  BY <1>1, <1>4, <1>6
<1>9. t # x /\ t < x
  BY <1>1, <1>2, <1>8
<1>10. t >= l + Neighbor
  BY <1>1, <1>3, <1>8
<1>11. PICK U : U = {j \in (t + 1)..x : f[j] < l + Neighbor}
  OBVIOUS
<1>12. U \subseteq Nat /\ x \in U
  BY <1>1, <1>2, <1>8, <1>9, <1>11
<1>13. PICK a \in U : \A j \in U : a <= j
  BY <1>12, LeastNat
<1>14. /\ a \in Nat /\ a \in l..(l + Span - 1) /\ a > t /\ a <= x /\ f[a] < l + Neighbor
  BY <1>1, <1>8, <1>11, <1>12
<1>15. a >= l + Neighbor
  BY <1>1, <1>8, <1>10, <1>14
<1>16. NearEnough(a) # {} /\ f[a] = f[Min(NearEnough(a))]
  BY <1>1, <1>3, <1>14, <1>15
<1>17. PICK b : b = Min(NearEnough(a))
  OBVIOUS
<1>18. b \in NearEnough(a) /\ b \in l..(a - 1) /\ f[b] < l + Neighbor
  BY <1>1, <1>14, <1>15, <1>16, <1>17, NearMin
<1>19. b < t
  <2>1. b # t
    BY <1>8, <1>18
  <2>2. ~(b > t)
    <3>1. SUFFICES ASSUME b > t PROVE FALSE
      OBVIOUS
    <3>2. b \in U
      BY <1>1, <1>8, <1>11, <1>14, <1>18, <3>1
    <3> QED BY <1>1, <1>13, <1>14, <1>18, <3>2
  <2> QED BY <1>1, <1>8, <1>14, <1>18, <2>1, <2>2
<1>20. b \in NearEnough(t)
  <2>1. b \in (a - Neighbor + 1)..(a - 1) /\ HomeAt(b) + Neighbor > a
    BY <1>18 DEF NearEnough
  <2>2. b \in (t - Neighbor + 1)..(t - 1)
    BY <1>1, <1>8, <1>14, <1>19, <2>1
  <2>3. HomeAt(b) \in Int
    <3>1. b \in l..(x - 1)
      BY <1>1, <1>14, <1>18
    <3> QED BY <3>1
  <2>4. HomeAt(b) + Neighbor > t
    BY <1>1, <1>8, <1>14, <2>1, <2>3
  <2> QED BY <2>2, <2>4 DEF NearEnough
<1>21. PICK m : m = Min(NearEnough(t))
  OBVIOUS
<1>22. m \in l..(t - 1) /\ f[t] = f[m]
  BY <1>1, <1>3, <1>8, <1>10, <1>20, <1>21, NearMin
<1>23. m \notin T
  BY <1>1, <1>7, <1>8, <1>22
<1>24. f[m] < l + Neighbor
  BY <1>1, <1>4, <1>8, <1>22, <1>23
<1> QED BY <1>8, <1>22, <1>24

\* The distance from a home c to the entry at h.
LEMMA HomeDistance ==
  ASSUME NEW h \in 0..(2 * Span - 1), NEW c \in Slots, Home[leaf.key[At(h)]] = c
  PROVE  \E z \in Slots : /\ HomeAt(h) = h - z /\ HomeAt(h) \in Int
                          /\ At(Span + h - z) = c /\ At(c + z) = At(h)
<1>1. Span \in Nat /\ Span > 0 /\ c \in Nat /\ c < Span /\ h \in Nat /\ h < 2 * Span
  BY LeafConstants DEF Slots
<1>2. PICK a \in 0..(3 * Span - 1) : a = Span + h - c
  BY <1>1
<1>3. At(a) \in Slots
      /\ At(a) = IF a < Span THEN a ELSE IF a < 2 * Span THEN a - Span ELSE a - 2 * Span
  BY AtValue
<1>4. PICK z \in Slots : z = At(a)
  BY <1>3
<1>5. z \in Nat /\ z < Span
  BY <1>1 DEF Slots
<1>6. HomeAt(h) = h - z /\ HomeAt(h) \in Int
  BY <1>1, <1>2, <1>4, <1>5 DEF HomeAt
<1>7. PICK d \in 0..(3 * Span - 1), g \in 0..(3 * Span - 1) : d = Span + h - z /\ g = c + z
  BY <1>1, <1>5
<1>8. /\ At(d) = IF d < Span THEN d ELSE IF d < 2 * Span THEN d - Span ELSE d - 2 * Span
      /\ At(g) = IF g < Span THEN g ELSE IF g < 2 * Span THEN g - Span ELSE g - 2 * Span
  BY AtValue
<1>9. h \in 0..(3 * Span - 1)
  BY <1>1
<1>10. At(h) = IF h < Span THEN h ELSE IF h < 2 * Span THEN h - Span ELSE h - 2 * Span
  BY <1>9, AtValue
<1>11. At(d) = c
  BY <1>1, <1>2, <1>3, <1>4, <1>5, <1>7, <1>8
<1>12. At(g) = At(h)
  BY <1>1, <1>2, <1>3, <1>4, <1>5, <1>7, <1>8, <1>10
<1> QED BY <1>6, <1>7, <1>11, <1>12

\* It is the distance that a hop bit records.
LEMMA BitDistance ==
  ASSUME NEW h \in 0..(2 * Span - 1), NEW z \in Offsets, h - z >= 0,
         Home[leaf.key[At(h)]] = At(Span + h - z)
  PROVE  HomeAt(h) = h - z
<1>1. /\ Span \in Nat /\ Span > 0 /\ h \in Nat /\ h < 2 * Span
      /\ Neighbor \in Nat /\ Neighbor < Span /\ z \in Nat /\ z < Span
  BY LeafConstants DEF Offsets
<1>2. PICK d \in 0..(3 * Span - 1) : d = Span + h - z
  BY <1>1
<1>3. At(d) \in Slots
      /\ At(d) = IF d < Span THEN d ELSE IF d < 2 * Span THEN d - Span ELSE d - 2 * Span
  BY AtValue
<1>4. PICK c \in Slots : c = At(d)
  BY <1>3
<1>5. c \in Nat /\ c < Span
  BY <1>1 DEF Slots
<1>6. PICK a \in 0..(3 * Span - 1) : a = Span + h - c
  BY <1>1, <1>5
<1>7. At(a) = IF a < Span THEN a ELSE IF a < 2 * Span THEN a - Span ELSE a - 2 * Span
  BY AtValue
<1>8. At(a) = z
  BY <1>1, <1>2, <1>3, <1>4, <1>5, <1>6, <1>7
<1> QED BY <1>2, <1>4, <1>6, <1>8 DEF HomeAt

\* Logical slots less than a leaf apart are different slots.
LEMMA SlotUnique ==
  ASSUME NEW l \in Slots, NEW x \in l..(l + Span - 1), NEW y \in l..(l + Span - 1), At(x) = At(y)
  PROVE  x = y
<1>1. Span \in Nat /\ Span > 0 /\ l \in Nat /\ l < Span /\ x \in Nat /\ y \in Nat
  BY LeafConstants DEF Slots
<1>2. x \in 0..(3 * Span - 1) /\ y \in 0..(3 * Span - 1)
  BY <1>1
<1>3. /\ At(x) = IF x < Span THEN x ELSE IF x < 2 * Span THEN x - Span ELSE x - 2 * Span
      /\ At(y) = IF y < Span THEN y ELSE IF y < 2 * Span THEN y - Span ELSE y - 2 * Span
  BY <1>2, AtValue
<1>4. l <= x /\ x < l + Span /\ l <= y /\ y < l + Span
  BY <1>1
<1>5. PICK a, b : a = At(x) /\ b = At(y) /\ a = b
  OBVIOUS
<1>6. /\ a = IF x < Span THEN x ELSE x - Span
      /\ b = IF y < Span THEN y ELSE y - Span
  BY <1>1, <1>3, <1>4, <1>5
<1> QED BY <1>1, <1>4, <1>5, <1>6

\* After a split: the slots before the hole are taken, by what was there
\* before, and the hole gets to the neighbourhood of the key.
RoomInv ==
  op.pc = "local" =>
    /\ \A x \in Home[op.k]..(op.j - 1) :
         op.img.key[At(x)] = leaf.key[At(x)] /\ leaf.key[At(x)] # kkeyNull
    /\ Lands(Home[op.k])[op.j] < Home[op.k] + Neighbor

\* The split begins with the home of the key taken.
SplitInv == op.pc = "split" => leaf.key[Home[op.k]] # kkeyNull

\* The entries that may hop are those that hopscotch_get_split_key counted on.
LEMMA HoppersAreNear ==
  ASSUME LeafInv, RoomInv, op.pc = "local", Hopping
  PROVE  /\ \A p \in Hoppers(op.img, op.j) : p[1] \in NearEnough(op.j)
         /\ \A h \in NearEnough(op.j) : \E p \in Hoppers(op.img, op.j) : p[1] = h
<1>1. LeafTypeOK /\ LoopInv /\ InLoop
  BY DEF LeafInv, InLoop
<1>2. Span \in Nat /\ Span > 0 /\ Neighbor \in Nat /\ Neighbor > 1 /\ Neighbor < Span
  BY LeafConstants
<1>3. PICK l \in Slots : l = Home[op.k]
  BY <1>1, OpFields, LeafConstants
<1>4. PICK j \in Nat : /\ j = op.j /\ l \in Nat /\ l < Span /\ j < l + Span /\ l + Neighbor <= j
  <2>1. op.e \in l..(l + Span - 1) /\ op.j \in l..op.e /\ op.j >= l + Neighbor
    BY <1>1, <1>3 DEF LoopInv, Hopping
  <2>2. l \in Nat /\ l < Span
    BY <1>2 DEF Slots
  <2>3. op.e \in Nat /\ op.e < l + Span
    BY <1>2, <2>1, <2>2
  <2>4. op.j \in Nat /\ op.j <= op.e
    BY <2>1, <2>2, <2>3
  <2>5. op.j < l + Span
    BY <1>2, <2>2, <2>3, <2>4
  <2> QED BY <2>1, <2>2, <2>4, <2>5
<1>5. PICK q \in Slots : q = At(j) /\ q = Hole
  <2>1. j \in 0..(3 * Span - 1)
    BY <1>2, <1>4
  <2> QED BY <1>4, <2>1, AtValue DEF Hole
<1>6. PICK b \in Image : b = op.img /\ ExactBut(b, q) /\ leaf \in Image
  <2>1. op.img \in Image /\ leaf \in Image /\ Written = Slots
    BY <1>1, OpFields DEF Written, LeafTypeOK
  <2>2. Back \in Image /\ \A i \in Slots : /\ Back.key[i] = op.img.key[i]
                                           /\ Back.val[i] = op.img.val[i]
                                           /\ Back.hop[i] = op.img.hop[i]
    BY <1>1, <2>1, BackSlots
  <2>3. Back = op.img
    BY <2>1, <2>2, ImageEqual
  <2> QED BY <1>1, <1>5, <2>1, <2>3 DEF LoopInv
<1>7. \A x \in l..(j - 1) : b.key[At(x)] = leaf.key[At(x)] /\ leaf.key[At(x)] # kkeyNull
  BY <1>3, <1>4, <1>6 DEF RoomInv
<1>8. ASSUME NEW p \in Hoppers(b, j) PROVE p[1] \in NearEnough(j)
  <2>1. PICK h \in (j - Neighbor + 1)..(j - 1), z \in Offsets :
           /\ p = <<h, z>> /\ h - z + Neighbor > j
           /\ z \in b.hop[At(Span + h - z)]
    BY DEF Hoppers
  <2>2. /\ h \in Nat /\ h < j /\ h - z > l /\ z \in Nat /\ z < Neighbor
        /\ h \in l..(j - 1) /\ h \in 0..(2 * Span - 1)
        /\ j - (h - z) \in Nat /\ j - (h - z) < Neighbor
    BY <1>2, <1>4, <2>1 DEF Offsets
  <2>3. j \in 0..(2 * Span - 1) /\ h \in Int /\ h - z >= 0 /\ j - (h - z) \in Offsets
    BY <1>2, <1>4, <2>2 DEF Offsets
  <2>4. /\ At(Span + h - z) \in Slots /\ At(At(Span + h - z) + z) = At(h)
    BY <2>2, <2>3, HopGeometry
  <2>5. PICK c \in Slots : c = At(Span + h - z) /\ At(c + z) = At(h)
    BY <2>4
  <2>6. z \in b.hop[c] <=> At(c + z) # q /\ b.key[At(c + z)] # kkeyNull /\ Home[b.key[At(c + z)]] = c
    BY <1>6 DEF ExactBut
  <2>7. Home[leaf.key[At(h)]] = At(Span + h - z)
    BY <1>7, <2>1, <2>2, <2>5, <2>6
  <2>8. HomeAt(h) = h - z
    BY <2>2, <2>3, <2>7, BitDistance
  <2>9. h \in NearEnough(j)
    BY <2>1, <2>8 DEF NearEnough
  <2> QED BY <2>1, <2>9
<1>9. ASSUME NEW h \in NearEnough(j) PROVE \E p \in Hoppers(b, j) : p[1] = h
  <2>1. h \in (j - Neighbor + 1)..(j - 1) /\ HomeAt(h) + Neighbor > j
    BY DEF NearEnough
  <2>2. h \in Nat /\ h \in l..(j - 1) /\ h \in 0..(2 * Span - 1) /\ h < j
    BY <1>2, <1>4, <2>1
  <2>3. PICK a \in Slots : a = At(h) /\ a # q
    <3>1. h \in 0..(3 * Span - 1) /\ h \in l..(l + Span - 1) /\ j \in l..(l + Span - 1)
      BY <1>2, <1>4, <2>2
    <3>2. At(h) \in Slots
      BY <3>1, AtValue
    <3>3. At(h) # At(j)
      BY <2>2, <3>1, SlotUnique
    <3> QED BY <1>5, <3>2, <3>3
  <2>4. PICK c \in Slots : Home[leaf.key[a]] = c
    <3>1. leaf.key[a] \in 0..MaxKey /\ leaf.key[a] # kkeyNull
      BY <1>6, <1>7, <2>2, <2>3 DEF Image
    <3>2. leaf.key[a] \in LeafKeys
      BY <3>1, LeafConstants DEF LeafKeys, kkeyNull
    <3> QED BY <3>2, LeafConstants
  <2>5. PICK z \in Slots : /\ HomeAt(h) = h - z
                           /\ At(Span + h - z) = c /\ At(c + z) = a
    BY <2>2, <2>3, <2>4, HomeDistance
  <2>6. z \in Offsets
    BY <1>2, <1>4, <2>1, <2>2, <2>5 DEF Offsets, Slots
  <2>7. z \in b.hop[c] <=> At(c + z) # q /\ b.key[At(c + z)] # kkeyNull /\ Home[b.key[At(c + z)]] = c
    BY <1>6, <2>6 DEF ExactBut
  <2>8. z \in b.hop[At(Span + h - z)]
    BY <1>7, <2>2, <2>3, <2>4, <2>5, <2>7
  <2>9. h - z + Neighbor > j
    BY <2>1, <2>5
  <2>10. <<h, z>> \in Hoppers(b, j)
    BY <2>1, <2>6, <2>8, <2>9 DEF Hoppers
  <2>11. <<h, z>>[1] = h
    OBVIOUS
  <2> QED BY <2>10, <2>11
<1> QED BY <1>4, <1>6, <1>8, <1>9

\* The home of the key is one of the slots that would make room for it.
LEMMA HomeReachable ==
  ASSUME NEW k \in LeafKeys, leaf.key[Home[k]] # kkeyNull
  PROVE  Home[k] \in Reachable(k)
<1>1. Span \in Nat /\ Span > 0 /\ Neighbor \in Nat /\ Neighbor > 1
  BY LeafConstants
<1>2. PICK l \in Slots : l = Home[k]
  BY LeafConstants
<1>3. l \in Nat /\ l < Span /\ l \in 0..(3 * Span - 1) /\ l \in l..(l + Span - 1)
  BY <1>1 DEF Slots
<1>4. At(l) = l
  BY <1>1, <1>3, AtValue
<1>5. RunLength(k) \in Nat /\ RunLength(k) > 0
  <2>1. CASE HasEmpty(leaf, l, Span)
    <3>1. PICK e : e = FirstEmpty(leaf, l, Span)
      OBVIOUS
    <3>2. Span \in 0..Span
      BY <1>1
    <3>3. e \in l..(l + Span - 1) /\ leaf.key[At(e)] = kkeyNull
      BY <2>1, <3>1, <3>2, FirstEmptySlot
    <3>4. e # l
      BY <1>2, <1>4, <3>3
    <3>5. RunLength(k) = e - l
      BY <1>2, <2>1, <3>1 DEF RunLength
    <3> QED BY <1>1, <1>3, <3>3, <3>4, <3>5
  <2>2. CASE ~HasEmpty(leaf, l, Span)
    BY <1>1, <1>2, <2>2 DEF RunLength
  <2> QED BY <2>1, <2>2
<1>6. l \in l..(l + RunLength(k) - 1)
  BY <1>3, <1>5
<1>7. l < l + Neighbor
  BY <1>1, <1>3
<1>8. Lands(l)[l] = l
  BY <1>3, <1>7, LandsIs
<1> QED BY <1>2, <1>6, <1>7, <1>8 DEF Reachable

\* The keys of the leaf are different, and the one to be inserted is none of
\* them.
KeysOnce ==
  /\ \A i, j \in Slots : leaf.key[i] # kkeyNull /\ leaf.key[i] = leaf.key[j] => i = j
  /\ \A i \in Slots : leaf.key[i] # op.k

\* They are when insert is called only for keys that the leaf does not hold.
LEMMA KeysAreOnce ==
  ASSUME LeafInv, ValueInv, Upserts = {}, op.pc = "split"
  PROVE  KeysOnce
<1>1. LeafTypeOK /\ OpInv
  BY DEF LeafInv
<1>2. leaf.key \in [Slots -> 0..MaxKey] /\ op.k \in LeafKeys
  BY <1>1, OpFields DEF LeafTypeOK, Image
<1>3. \A i \in Slots : i \in Slots \ {Span}
  BY LeafConstants DEF Slots
<1>4. \A k \in LeafKeys, i \in Slots : leaf.key[i] = k =>
        /\ latest[k] # 0
        /\ \A j \in Slots : leaf.key[j] = k => i = j
  BY <1>3 DEF ValueInv, HoldsBut
<1>5. latest[op.k] = 0
  BY <1>1 DEF OpInv
<1>6. \A i \in Slots : leaf.key[i] # kkeyNull => leaf.key[i] \in LeafKeys
  BY <1>2, LeafConstants DEF LeafKeys, kkeyNull
<1> QED BY <1>2, <1>4, <1>5, <1>6 DEF KeysOnce

\* A split takes one of the slots that would make room out of the half of the
\* new key.
LEMMA SplitFrees ==
  ASSUME LeafTypeOK, SplitInv, KeysOnce, op.pc = "split"
  PROVE  \E e \in Reachable(op.k) :
           IF op.k < SplitKey(op.k) THEN leaf.key[At(e)] >= SplitKey(op.k)
                                    ELSE leaf.key[At(e)] < SplitKey(op.k)
<1>1. Span \in Nat /\ Span > 0 /\ MaxKey \in Nat
  BY LeafConstants
<1>2. PICK k \in LeafKeys : k = op.k /\ leaf \in Image
  BY OpFields DEF LeafTypeOK
<1>3. PICK l \in Slots : l = Home[k]
  BY LeafConstants
<1>4. l \in Nat /\ l < Span
  BY <1>1 DEF Slots
<1>5. PICK A, f :
        /\ A = Reachable(k) \cup {-1} /\ IsFiniteSet(A)
        /\ \A e \in A : f[e] \in LeafKeys /\ f[e] = IF e = -1 THEN k ELSE leaf.key[At(e)]
        /\ SplitKey(k) \in Values(A, f)
        /\ Cardinality(Under(A, f, SplitKey(k))) <= Cardinality(A) \div 2
        /\ Cardinality(A) \div 2 < Cardinality(UpTo(A, f, SplitKey(k)))
  BY <1>2, SplitKeyMedian
<1>6. PICK s \in LeafKeys : s = SplitKey(k)
  BY <1>2, SplitKeyType
<1>7. \A e \in A : f[e] \in Nat /\ s \in Nat /\ k \in Nat
  BY <1>1, <1>5 DEF LeafKeys
<1>8. l \in Reachable(k)
  BY <1>2, <1>3, HomeReachable DEF SplitInv
<1>9. \A e \in Reachable(k) : e \in l..(l + Span - 1) /\ e # -1 /\ At(e) \in Slots
  <2>1. TAKE e \in Reachable(k)
  <2>2. e \in l..(l + RunLength(k) - 1)
    BY <1>3, ReachableInRun
  <2>3. RunLength(k) \in 0..Span
    BY RunSlots
  <2>4. e \in l..(l + Span - 1) /\ e # -1 /\ e \in 0..(3 * Span - 1)
    BY <1>1, <1>4, <2>2, <2>3
  <2> QED BY <2>4, AtValue
<1>10. CASE k < s
  <2>1. PICK e \in A : s = f[e]
    BY <1>5, <1>6 DEF Values
  <2>2. e # -1
    BY <1>5, <1>7, <1>10, <2>1
  <2>3. e \in Reachable(k) /\ leaf.key[At(e)] = s
    BY <1>5, <2>1, <2>2
  <2>4. leaf.key[At(e)] >= s
    BY <1>7, <2>1, <2>3
  <2> QED BY <1>2, <1>6, <1>10, <2>3, <2>4
<1>11. CASE ~(k < s)
  <2>1. SUFFICES ASSUME ~\E e \in Reachable(k) : leaf.key[At(e)] < s PROVE FALSE
    BY <1>2, <1>6, <1>11
  <2>2. \A e \in A : ~(f[e] < s)
    BY <1>5, <1>9, <1>11, <2>1
  <2>3. \A e \in UpTo(A, f, s) : e \in A /\ f[e] = s
    BY <1>7, <2>2 DEF UpTo
  <2>4. PICK t \in A : f[t] = s
    BY <1>5, <1>6 DEF Values
  <2>5. ASSUME NEW e \in A, f[e] = s PROVE e = t
    <3>1. s # kkeyNull
      BY LeafConstants DEF LeafKeys, kkeyNull
    <3>2. CASE e = -1 /\ t # -1
      <4>1. t \in Reachable(k) /\ leaf.key[At(t)] = k
        BY <1>5, <2>4, <2>5, <3>2
      <4> QED BY <1>2, <1>9, <4>1 DEF KeysOnce
    <3>3. CASE e # -1 /\ t = -1
      <4>1. e \in Reachable(k) /\ leaf.key[At(e)] = k
        BY <1>5, <2>4, <2>5, <3>3
      <4> QED BY <1>2, <1>9, <4>1 DEF KeysOnce
    <3>4. CASE e # -1 /\ t # -1
      <4>1. /\ e \in Reachable(k) /\ leaf.key[At(e)] = s
            /\ t \in Reachable(k) /\ leaf.key[At(t)] = s
        BY <1>5, <2>4, <2>5, <3>4
      <4>2. At(e) = At(t)
        BY <1>9, <3>1, <4>1 DEF KeysOnce
      <4> QED BY <1>9, <4>1, <4>2, SlotUnique
    <3> QED BY <3>2, <3>3, <3>4
  <2>6. UpTo(A, f, s) \subseteq {t}
    BY <2>3, <2>5
  <2>7. IsFiniteSet({t}) /\ Cardinality({t}) = 1
    BY FS_Singleton
  <2>8. Cardinality(UpTo(A, f, s)) \in Nat /\ Cardinality(UpTo(A, f, s)) <= 1
    <3>1. IsFiniteSet(UpTo(A, f, s)) /\ Cardinality(UpTo(A, f, s)) <= Cardinality({t})
      BY <2>6, <2>7, FS_Subset
    <3> QED BY <2>7, <3>1, FS_CardinalityType
  <2>9. Cardinality(A) \in Nat /\ Cardinality(A) >= 2
    <3>1. IsFiniteSet({l}) /\ Cardinality({l}) = 1
      BY FS_Singleton
    <3>2. -1 \notin {l}
      BY <1>4
    <3>3. IsFiniteSet({l} \cup {-1}) /\ Cardinality({l} \cup {-1}) = 2
      <4>1. /\ IsFiniteSet({l} \cup {-1})
            /\ Cardinality({l} \cup {-1}) = IF -1 \in {l} THEN Cardinality({l})
                                             ELSE Cardinality({l}) + 1
        BY <3>1, FS_AddElement
      <4> QED BY <3>1, <3>2, <4>1
    <3>4. {l} \cup {-1} \subseteq A
      BY <1>5, <1>8
    <3>5. Cardinality({l} \cup {-1}) <= Cardinality(A) /\ Cardinality(A) \in Nat
      BY <1>5, <3>4, FS_Subset, FS_CardinalityType
    <3> QED BY <3>3, <3>5
  <2>10. PICK n \in Nat : n = Cardinality(A) /\ n >= 2
    BY <2>9
  <2>11. n \div 2 >= 1
    BY <2>10
  <2> QED BY <1>5, <1>6, <2>8, <2>10, <2>11
<1> QED BY <1>10, <1>11

\* In the run every entry has a home.
LEMMA RunHomes ==
  ASSUME leaf \in Image, NEW l \in Slots, NEW x \in l..(l + Span - 1), leaf.key[At(x)] # kkeyNull
  PROVE  HomeAt(x) \in Int
<1>1. Span \in Nat /\ Span > 0 /\ l \in Nat /\ l < Span /\ MaxKey \in Nat
  BY LeafConstants DEF Slots
<1>2. x \in 0..(2 * Span - 1) /\ x \in 0..(3 * Span - 1)
  BY <1>1
<1>3. PICK a \in Slots : a = At(x)
  BY <1>2, AtValue
<1>4. leaf.key[a] \in LeafKeys
  BY <1>1, <1>3 DEF Image, LeafKeys, kkeyNull
<1>5. PICK c \in Slots : c = Home[leaf.key[At(x)]]
  BY <1>3, <1>4, LeafConstants
<1> QED BY <1>2, <1>5, HomeDistance

\* The half that the new key belongs to has room for it.
LEMMA SplitIntoRoom ==
  ASSUME LeafTypeOK, op.pc = "split", NEW img, NEW keep, SplitInto(img, keep), op.k \in keep,
         \A i \in Slots : leaf.key[i] \in keep => img.key[i] = leaf.key[i],
         \A i \in Slots : leaf.key[i] \notin keep => img.key[i] = kkeyNull,
         \E x \in Reachable(op.k) : leaf.key[At(x)] \notin keep
  PROVE  RoomInv'
<1>1. Span \in Nat /\ Span > 0 /\ Neighbor \in Nat
  BY LeafConstants
<1>2. PICK k \in LeafKeys : k = op.k /\ leaf \in Image
  BY OpFields DEF LeafTypeOK
<1>3. PICK l \in Slots : l = Home[k]
  BY LeafConstants
<1>4. l \in Nat /\ l < Span
  BY <1>1 DEF Slots
<1>5. PICK e : e = FirstEmpty(img, l, Span)
  OBVIOUS
<1>6. /\ HasEmpty(img, l, Span) /\ leaf' = leaf
      /\ op' = [NoOp EXCEPT !.pc = "local", !.k = k, !.img = img, !.e = e, !.j = e]
  BY <1>2, <1>3, <1>5 DEF SplitInto
<1>7. op'.pc = "local" /\ op'.k = k /\ op'.img = img /\ op'.j = e
  BY <1>6 DEF NoOp
<1>8. Span \in 0..Span
  BY <1>1
<1>9. /\ e \in l..(l + Span - 1)
      /\ \A x \in l..(e - 1) : img.key[At(x)] # kkeyNull
  BY <1>5, <1>6, <1>8, FirstEmptySlot
<1>10. \A x \in l..(l + Span - 1) : At(x) \in Slots
  <2>1. \A x \in l..(l + Span - 1) : x \in 0..(3 * Span - 1)
    BY <1>1, <1>4
  <2> QED BY <2>1, AtValue
<1>11. \A x \in l..(e - 1) : img.key[At(x)] = leaf.key[At(x)] /\ leaf.key[At(x)] # kkeyNull
  <2>1. TAKE x \in l..(e - 1)
  <2>2. x \in l..(l + Span - 1)
    BY <1>1, <1>4, <1>9
  <2>3. PICK i \in Slots : i = At(x)
    BY <1>10, <2>2
  <2>4. img.key[i] # kkeyNull
    BY <1>9, <2>1, <2>3
  <2> QED BY <2>3, <2>4
<1>12. PICK x \in Reachable(k) : leaf.key[At(x)] \notin keep
  BY <1>2
<1>13. /\ x \in l..(l + RunLength(k) - 1) /\ Lands(l)[x] < l + Neighbor
  BY <1>3 DEF Reachable
<1>14. RunLength(k) \in 0..Span
       /\ \A y \in l..(l + RunLength(k) - 1) : leaf.key[At(y)] # kkeyNull
  BY <1>3, RunSlots
<1>15. x \in l..(l + Span - 1) /\ x \in Nat /\ e \in Nat
  BY <1>1, <1>4, <1>9, <1>13, <1>14
<1>16. e <= x
  <2>1. img.key[At(x)] = kkeyNull
    BY <1>10, <1>12, <1>15
  <2>2. ~(x < e)
    BY <1>9, <1>15, <2>1
  <2> QED BY <1>15, <2>2
<1>17. e \in l..x
  BY <1>9, <1>15, <1>16
<1>18. \A y \in l..(x - 1) : HomeAt(y) \in Int
  <2>1. TAKE y \in l..(x - 1)
  <2>2. y \in l..(l + Span - 1) /\ y \in l..(l + RunLength(k) - 1)
    BY <1>1, <1>4, <1>13, <1>14, <1>15
  <2> QED BY <1>2, <1>14, <2>2, RunHomes
<1>19. Lands(l)[e] < l + Neighbor
  BY <1>13, <1>15, <1>17, <1>18, LandsNearer
<1>20. Lands(l)' = Lands(l)
  BY <1>6 DEF Lands, NearEnough, HomeAt
<1> QED BY <1>3, <1>6, <1>7, <1>11, <1>19, <1>20 DEF RoomInv

\* Both halves of a split.
LEMMA SplitRoom ==
  ASSUME LeafTypeOK, SplitInv, KeysOnce, SplitLeft \/ SplitRight
  PROVE  op'.pc # "idle" => RoomInv'
<1>1. op.pc = "split"
  BY DEF SplitLeft, SplitRight
<1>2. leaf \in Image /\ op.k \in LeafKeys /\ leaf.key \in [Slots -> 0..MaxKey]
  BY OpFields DEF LeafTypeOK, Image
<1>3. PICK s \in LeafKeys : s = SplitKey(op.k)
  BY <1>2, SplitKeyType
<1>4. s \in Nat /\ s > 0 /\ MaxKey \in Nat /\ op.k \in 1..MaxKey /\ op.k \in Nat
  BY <1>2, LeafConstants DEF LeafKeys
<1>5. \A i \in Slots : leaf.key[i] \in 0..MaxKey /\ leaf.key[i] \in Nat
  BY <1>2, <1>4
<1>6. PICK x \in Reachable(op.k) : IF op.k < s THEN leaf.key[At(x)] >= s ELSE leaf.key[At(x)] < s
  BY <1>1, <1>3, SplitFrees
<1>7. CASE SplitLeft
  <2>1. PICK g : g = LeftHalf(s)
    OBVIOUS
  <2>2. SplitInto(g, 1..(s - 1))
    BY <1>3, <1>7, <2>1 DEF SplitLeft
  <2>3. CASE op.k \in 1..(s - 1)
    <3>1. leaf.key[At(x)] \notin 1..(s - 1)
      BY <1>4, <1>6, <2>3
    <3>2. \A i \in Slots : g.key[i] = IF leaf.key[i] >= s THEN kkeyNull ELSE leaf.key[i]
      BY <2>1 DEF LeftHalf, Moves
    <3>3. /\ \A i \in Slots : leaf.key[i] \in 1..(s - 1) => g.key[i] = leaf.key[i]
          /\ \A i \in Slots : leaf.key[i] \notin 1..(s - 1) => g.key[i] = kkeyNull
      BY <1>4, <1>5, <3>2 DEF kkeyNull
    <3> QED BY <1>1, <2>2, <2>3, <3>1, <3>3, SplitIntoRoom
  <2>4. CASE op.k \notin 1..(s - 1)
    BY <2>2, <2>4, NoOpType DEF SplitInto, Rewrite
  <2> QED BY <2>3, <2>4
<1>8. CASE SplitRight
  <2>1. PICK g : g = RightHalf(s)
    OBVIOUS
  <2>2. SplitInto(g, s..MaxKey)
    BY <1>3, <1>8, <2>1 DEF SplitRight
  <2>3. CASE op.k \in s..MaxKey
    <3>1. leaf.key[At(x)] \notin s..MaxKey
      BY <1>4, <1>6, <2>3
    <3>2. \A i \in Slots : g.key[i] = IF leaf.key[i] >= s THEN leaf.key[i] ELSE kkeyNull
      BY <2>1 DEF RightHalf, Moves
    <3>3. /\ \A i \in Slots : leaf.key[i] \in s..MaxKey => g.key[i] = leaf.key[i]
          /\ \A i \in Slots : leaf.key[i] \notin s..MaxKey => g.key[i] = kkeyNull
      BY <1>4, <1>5, <3>2
    <3> QED BY <1>1, <2>2, <2>3, <3>1, <3>3, SplitIntoRoom
  <2>4. CASE op.k \notin s..MaxKey
    BY <2>2, <2>4, NoOpType DEF SplitInto, Rewrite
  <2> QED BY <2>3, <2>4
<1> QED BY <1>7, <1>8

\* A hop takes the hole on its way.
LEMMA HopRoom ==
  ASSUME LeafInv, RoomInv, Hop
  PROVE  RoomInv'
<1>1. LeafTypeOK /\ LoopInv /\ Hopping /\ Hoppers(op.img, op.j) # {} /\ InLoop
  BY DEF LeafInv, Hop, Hopping, InLoop
<1>2. PICK h \in Nat, p \in Slots, q \in Slots, c \in Slots, z \in Offsets, y \in Offsets :
         HopFacts(h, p, q, c, z, y)
  BY HopIs
<1>3. /\ op'.pc = op.pc /\ op'.k = op.k /\ op'.j = h /\ leaf' = leaf
      /\ op'.img = HoppedAt(op.img, p, q, c, z, y)
  BY <1>2, HopBack
<1>4. SUFFICES ASSUME op.pc = "local" PROVE RoomInv'
  BY <1>3 DEF RoomInv
<1>5. Span \in Nat /\ Span > 0 /\ Neighbor \in Nat /\ Neighbor > 1 /\ Neighbor < Span
  BY LeafConstants
<1>6. PICK l \in Slots : l = Home[op.k]
  BY <1>1, OpFields, LeafConstants
<1>7. PICK j \in Nat : /\ j = op.j /\ l \in Nat /\ l < Span /\ j < l + Span /\ l + Neighbor <= j
                       /\ j \in l..(l + Span - 1)
  <2>1. op.e \in l..(l + Span - 1) /\ op.j \in l..op.e /\ op.j >= l + Neighbor
    BY <1>1, <1>6 DEF LoopInv, Hopping
  <2>2. l \in Nat /\ l < Span
    BY <1>5 DEF Slots
  <2>3. op.e \in Nat /\ op.e < l + Span
    BY <1>5, <2>1, <2>2
  <2>4. op.j \in Nat /\ op.j <= op.e
    BY <2>1, <2>2, <2>3
  <2>5. op.j < l + Span /\ op.j \in l..(l + Span - 1)
    BY <1>5, <2>1, <2>2, <2>3, <2>4
  <2> QED BY <2>1, <2>2, <2>4, <2>5
<1>8. PICK u : u = NextHopper(op.img, j)
  OBVIOUS
<1>9. /\ u \in Hoppers(op.img, j) /\ u[1] = h
      /\ \A t \in Hoppers(op.img, j) : u[1] < t[1] \/ (u[1] = t[1] /\ u[2] >= t[2])
  <2>1. j >= Neighbor
    BY <1>5, <1>7
  <2> QED BY <1>1, <1>2, <1>7, <1>8, <2>1, NextHopperIn DEF HopFacts
<1>10. /\ \A t \in Hoppers(op.img, j) : t[1] \in NearEnough(j)
       /\ \A g \in NearEnough(j) : \E t \in Hoppers(op.img, j) : t[1] = g
  BY <1>1, <1>4, <1>7, HoppersAreNear
<1>11. NearEnough(j) # {} /\ h \in NearEnough(j)
  BY <1>9, <1>10
<1>12. PICK m : m = Min(NearEnough(j))
  OBVIOUS
<1>13. m \in NearEnough(j) /\ m <= h /\ m \in l..(j - 1)
  BY <1>7, <1>11, <1>12, NearMin
<1>14. h = m
  <2>1. PICK t \in Hoppers(op.img, j) : t[1] = m
    BY <1>10, <1>13
  <2>2. h < m \/ h = m
    BY <1>9, <2>1
  <2> QED BY <1>7, <1>13, <2>2
<1>15. Lands(l)[h] < l + Neighbor
  <2>1. Lands(l)[j] < l + Neighbor
    BY <1>4, <1>6, <1>7 DEF RoomInv
  <2>2. ~(j < l + Neighbor)
    BY <1>5, <1>7
  <2>3. Lands(l)[j] = Lands(l)[m]
    <3>1. Lands(l)[j] = IF j < l + Neighbor \/ NearEnough(j) = {} THEN j
                        ELSE Lands(l)[Min(NearEnough(j))]
      BY <1>7, LandsIs
    <3> QED BY <1>11, <1>12, <2>2, <3>1
  <2> QED BY <1>14, <2>1, <2>3
<1>16. ASSUME NEW x \in l..(h - 1)
       PROVE  op'.img.key[At(x)] = leaf.key[At(x)] /\ leaf.key[At(x)] # kkeyNull
  <2>0. h < j /\ x \in Nat /\ l <= x /\ x < h
    BY <1>7, <1>13, <1>14
  <2>1. x \in l..(j - 1) /\ x \in l..(l + Span - 1) /\ x # j
    BY <1>5, <1>7, <2>0
  <2>2. op.img.key[At(x)] = leaf.key[At(x)] /\ leaf.key[At(x)] # kkeyNull
    BY <1>4, <1>6, <1>7, <2>1 DEF RoomInv
  <2>3. PICK i \in Slots : i = At(x)
    <3>1. x \in 0..(3 * Span - 1)
      BY <1>5, <1>7, <2>1
    <3> QED BY <3>1, AtValue
  <2>4. q = At(j)
    BY <1>2, <1>7 DEF HopFacts, Hole
  <2>5. i # q
    BY <1>7, <2>1, <2>3, <2>4, SlotUnique
  <2>6. PICK b \in Image : b = op.img
    BY <1>1, OpFields
  <2>7. HoppedAt(b, p, q, c, z, y).key[i] = IF i = q THEN b.key[p] ELSE b.key[i]
    BY HoppedSlots
  <2> QED BY <1>3, <2>2, <2>3, <2>5, <2>6, <2>7
<1>17. Lands(l)' = Lands(l)
  BY <1>3 DEF Lands, NearEnough, HomeAt
<1> QED BY <1>3, <1>6, <1>15, <1>16, <1>17 DEF RoomInv

\* When the leaf is split the home of the new key is taken.
LEMMA SplitBegins ==
  ASSUME LeafInv, HopFails \/ \E k \in LeafKeys : InsertNew(k)
  PROVE  SplitInv'
<1>1. LeafTypeOK /\ LoopInv /\ RunInv
  BY DEF LeafInv
<1>2. Span \in Nat /\ Span > 0 /\ Neighbor \in Nat /\ Neighbor > 1
  BY LeafConstants
<1>3. ASSUME NEW l \in Slots PROVE l \in Nat /\ l < Span /\ At(l) = l
  <2>1. l \in Nat /\ l < Span /\ l \in 0..(3 * Span - 1)
    BY <1>2 DEF Slots
  <2> QED BY <1>2, <2>1, AtValue
<1>4. CASE HopFails
  <2>1. op.pc = "hop" /\ Hopping /\ InLoop /\ op'.k = op.k /\ leaf' = leaf
    BY <1>4 DEF HopFails, InLoop, NoOp
  <2>2. PICK l \in Slots : l = Home[op.k]
    BY <1>1, OpFields, LeafConstants
  <2>3. op.e \in l..(l + Span - 1) /\ op.j \in l..op.e /\ op.j >= l + Neighbor
    BY <1>1, <2>1, <2>2 DEF LoopInv, Hopping
  <2>4. l \in Nat /\ At(l) = l
    BY <1>3
  <2>5. op.e \in Nat
    BY <1>2, <2>3, <2>4
  <2>6. op.j \in Nat /\ op.j <= op.e
    BY <2>3, <2>4, <2>5
  <2>7. l \in l..(op.e - 1)
    BY <1>2, <2>3, <2>4, <2>5, <2>6
  <2>8. leaf.key[At(l)] # kkeyNull
    BY <1>1, <2>1, <2>2, <2>7 DEF RunInv
  <2> QED BY <2>1, <2>2, <2>4, <2>8 DEF SplitInv
<1>5. ASSUME NEW k \in LeafKeys, InsertNew(k) PROVE SplitInv'
  <2>1. leaf \in Image /\ vac \subseteq Buckets /\ leaf' = leaf
    BY <1>1, <1>5 DEF LeafTypeOK, InsertNew
  <2>2. PICK l \in Slots : l = Home[k]
    BY LeafConstants
  <2>3. PICK n \in 1..Span : n = EntriesRead(l)
    BY <2>1, EntriesReadBounds
  <2>4. PICK img : img = ReadFrom(l, n)
    OBVIOUS
  <2>5. op' = IF HasEmpty(img, l, n)
                THEN [pc |-> "hop", k |-> k, img |-> img, e |-> FirstEmpty(img, l, n),
                      j |-> FirstEmpty(img, l, n), hopped |-> {At(FirstEmpty(img, l, n))}]
                ELSE [NoOp EXCEPT !.pc = "split", !.k = k]
    BY <1>5, <2>2, <2>3, <2>4 DEF InsertNew
  <2>6. CASE HasEmpty(img, l, n)
    <3>1. op'.pc = "hop"
      BY <2>5, <2>6
    <3> QED BY <3>1 DEF SplitInv
  <2>7. CASE ~HasEmpty(img, l, n)
    <3>1. op'.k = k
      BY <2>5, <2>7 DEF NoOp
    <3>2. l \in Nat /\ At(l) = l
      BY <1>3
    <3>3. l \in l..(l + n - 1)
      BY <1>2, <3>2
    <3>4. img.key[At(l)] = leaf.key[At(l)]
      BY <2>1, <2>4, <3>3, ReadSlots
    <3>5. img.key[At(l)] # kkeyNull
      BY <2>7, <3>3 DEF HasEmpty
    <3> QED BY <2>1, <2>2, <3>1, <3>2, <3>4, <3>5 DEF SplitInv
  <2> QED BY <2>6, <2>7
<1> QED BY <1>4, <1>5

\* Room is made when keys are inserted only once.
LEMMA StepRoom ==
  ASSUME Upserts = {}
  PROVE  LeafInv /\ ValueInv /\ RoomInv /\ SplitInv /\ [LeafNext]_leafVars => RoomInv' /\ SplitInv'
<1> SUFFICES ASSUME LeafInv, ValueInv, RoomInv, SplitInv, [LeafNext]_leafVars
             PROVE  RoomInv' /\ SplitInv'
  OBVIOUS
<1>1. LeafTypeOK
  BY DEF LeafInv
<1>2. ASSUME NEW k \in LeafKeys, InsertExisting(k) \/ Update(k) PROVE RoomInv' /\ SplitInv'
  <2>1. op.pc = "idle" /\ op' = op
    BY <1>2 DEF InsertExisting, Insertable, Update
  <2> QED BY <2>1 DEF RoomInv, SplitInv
<1>3. ASSUME NEW k \in LeafKeys, InsertNew(k) PROVE RoomInv' /\ SplitInv'
  <2>1. op'.pc \in {"hop", "split"}
    BY <1>3, InsertNewStep
  <2> QED BY <1>3, <2>1, SplitBegins DEF RoomInv
<1>4. CASE Hop
  <2>1. op.pc # "split" /\ op'.pc = op.pc
    BY <1>1, <1>4 DEF Hop, Hopping, LeafTypeOK
  <2> QED BY <1>4, <2>1, HopRoom DEF SplitInv
<1>5. CASE HopFails
  <2>1. op'.pc = "split"
    BY <1>5 DEF HopFails, NoOp
  <2> QED BY <1>5, <2>1, SplitBegins DEF RoomInv
<1>6. CASE InsertPlace \/ SplitPlace
  <2>1. op'.pc = "idle"
    BY <1>6, NoOpType DEF InsertPlace, SplitPlace, Rewrite
  <2> QED BY <2>1 DEF RoomInv, SplitInv
<1>7. CASE SplitLeft \/ SplitRight
  <2>1. op.pc = "split"
    BY <1>7 DEF SplitLeft, SplitRight
  <2>2. op'.pc \in {"idle", "local"}
    BY <1>7, NoOpType DEF SplitLeft, SplitRight, SplitInto, Rewrite, NoOp
  <2>3. KeysOnce
    BY <2>1, KeysAreOnce
  <2>4. op'.pc # "idle" => RoomInv'
    BY <1>1, <1>7, <2>3, SplitRoom
  <2> QED BY <2>2, <2>4 DEF RoomInv, SplitInv
<1>8. CASE UNCHANGED leafVars
  <2>1. leaf' = leaf /\ op' = op
    BY <1>8 DEF leafVars
  <2>2. PICK l : l = Home[op.k]
    OBVIOUS
  <2>3. Lands(l)' = Lands(l)
    BY <2>1 DEF Lands, NearEnough, HomeAt
  <2> QED BY <2>1, <2>2, <2>3 DEF RoomInv, SplitInv
<1> QED BY <1>2, <1>3, <1>4, <1>5, <1>6, <1>7, <1>8 DEF LeafNext

\* What the bitmap says of a vacancy is true of what is read.
LEMMA VacancyIsPromised == LeafInv => VacancyPromised
<1> SUFFICES ASSUME LeafInv, NEW k \in LeafKeys, EntriesRead(Home[k]) < Span
             PROVE  HasEmpty(leaf, Home[k], EntriesRead(Home[k]))
  BY DEF VacancyPromised
<1>1. vac \subseteq Buckets /\ VacancySound
  BY DEF LeafInv, LeafTypeOK
<1>2. Span \in Nat /\ Span > 0
  BY LeafConstants
<1>3. PICK l \in Slots : l = Home[k]
  BY LeafConstants
<1>4. PICK n \in 1..Span : n = EntriesRead(l)
  BY <1>1, EntriesReadBounds
<1>5. PICK b \in Buckets \ vac : FirstIn(b) >= l /\ LastIn(b) <= l + n - 1
  BY <1>1, <1>3, <1>4, EntriesReadBounds
<1>6. PICK i \in FirstIn(b)..LastIn(b) : leaf.key[i] = kkeyNull
  BY <1>1 DEF VacancySound
<1>7. i \in Slots /\ FirstIn(b) \in Slots /\ LastIn(b) \in Slots
  BY BucketOf, BucketSlots
<1>8. i \in Nat /\ i \in 0..(3 * Span - 1) /\ i < Span
  BY <1>2, <1>7 DEF Slots
<1>9. At(i) = i
  BY <1>2, <1>8, AtValue
<1>10. i \in l..(l + n - 1)
  <2>1. FirstIn(b) \in Nat /\ LastIn(b) \in Nat /\ l \in Nat
    BY <1>2, <1>7 DEF Slots
  <2> QED BY <1>5, <1>8, <2>1
<1> QED BY <1>3, <1>4, <1>6, <1>9, <1>10 DEF HasEmpty

\* The assertions of insertions and splits hold when insert is called only for
\* keys that the leaf does not hold: the promised vacancy is there
\* (hopscotch_insert_and_unlock), a split finds a key to split at and makes
\* room (hopscotch_get_split_key, hopscotch_insert_locally), the hops that
\* hopscotch_get_split_key counted on can be made, and set_hop_bit sets a bit
\* that was clear.
THEOREM LeafAssertionsHold ==
  ASSUME Upserts = {}
  PROVE  LeafSpec => []LeafAsserts
<1>1. LeafInit => LeafInv /\ ValueInv /\ RoomInv /\ SplitInv
  <2>1. LeafInit => op.pc = "idle"
    BY NoOpType DEF LeafInit
  <2> QED BY <2>1, InitLeaf, InitValues DEF RoomInv, SplitInv
<1>2. LeafInv /\ ValueInv /\ RoomInv /\ SplitInv /\ [LeafNext]_leafVars
        => LeafInv' /\ ValueInv' /\ RoomInv' /\ SplitInv'
  BY StepLeaf, StepValues, StepRoom
<1>3. LeafInv /\ ValueInv /\ RoomInv /\ SplitInv => LeafAsserts
  <2> SUFFICES ASSUME LeafInv, ValueInv, RoomInv, SplitInv PROVE LeafAsserts
    OBVIOUS
  <2>1. LeafTypeOK /\ LoopInv
    BY DEF LeafInv
  <2>2. Span \in Nat /\ Span > 0 /\ Neighbor \in Nat /\ Neighbor > 1
    BY LeafConstants
  <2>3. PICK k \in LeafKeys, l \in Slots : k = op.k /\ l = Home[k]
    BY <2>1, OpFields, LeafConstants
  <2>4. l \in Nat /\ l < Span
    BY <2>2 DEF Slots
  <2>5. SplitMakesRoom
    <3>1. SUFFICES ASSUME op.pc = "split"
                   PROVE  /\ Reachable(k) # {}
                          /\ HasEmpty(IF k < SplitKey(k) THEN LeftHalf(SplitKey(k))
                                      ELSE RightHalf(SplitKey(k)), l, Span)
      BY <2>3 DEF SplitMakesRoom
    <3>2. KeysOnce
      BY <3>1, KeysAreOnce
    <3>3. PICK s : s = SplitKey(k)
      OBVIOUS
    <3>4. PICK e \in Reachable(k) : IF k < s THEN leaf.key[At(e)] >= s ELSE leaf.key[At(e)] < s
      BY <2>1, <2>3, <3>1, <3>2, <3>3, SplitFrees
    <3>5. e \in l..(l + RunLength(k) - 1) /\ RunLength(k) \in 0..Span
      BY <2>3, ReachableInRun, RunSlots
    <3>6. e \in l..(l + Span - 1) /\ e \in 0..(3 * Span - 1)
      BY <2>2, <2>4, <3>5
    <3>7. PICK i \in Slots : i = At(e)
      BY <3>6, AtValue
    <3>8. s \in Nat /\ leaf.key[i] \in Nat
      <4>1. leaf \in Image
        BY <2>1 DEF LeafTypeOK
      <4>2. s \in LeafKeys /\ leaf.key[i] \in 0..MaxKey
        BY <3>3, <4>1, SplitKeyType DEF Image
      <4> QED BY <4>2, LeafConstants DEF LeafKeys
    <3>9. CASE k < s
      <4>1. LeftHalf(s).key[i] = kkeyNull
        BY <3>4, <3>7, <3>9 DEF LeftHalf, Moves
      <4> QED BY <3>3, <3>4, <3>6, <3>7, <3>9, <4>1 DEF HasEmpty
    <3>10. CASE ~(k < s)
      <4>1. RightHalf(s).key[i] = kkeyNull
        BY <3>4, <3>7, <3>8, <3>10 DEF RightHalf, Moves
      <4> QED BY <3>3, <3>4, <3>6, <3>7, <3>10, <4>1 DEF HasEmpty
    <3> QED BY <3>9, <3>10
  <2>6. HopsArrive
    <3>1. SUFFICES ASSUME op.pc = "local", Hopping PROVE Hoppers(op.img, op.j) # {}
      BY DEF HopsArrive
    <3>2. op.e \in l..(l + Span - 1) /\ op.j \in l..op.e /\ op.j >= l + Neighbor
      BY <2>1, <2>3, <3>1 DEF LoopInv, Hopping, InLoop
    <3>3. op.e \in Nat /\ op.e < l + Span
      BY <2>2, <2>4, <3>2
    <3>4. PICK j \in Nat : j = op.j /\ j \in l..(l + Span - 1) /\ j >= l + Neighbor
      BY <2>2, <2>4, <3>2, <3>3
    <3>5. Lands(l)[j] < l + Neighbor
      BY <2>3, <3>1, <3>4 DEF RoomInv
    <3>6. NearEnough(j) # {}
      <4>1. Lands(l)[j] = IF j < l + Neighbor \/ NearEnough(j) = {} THEN j
                          ELSE Lands(l)[Min(NearEnough(j))]
        BY <3>4, LandsIs
      <4> QED BY <2>2, <2>4, <3>4, <3>5, <4>1
    <3> QED BY <3>1, <3>4, <3>6, HoppersAreNear
  <2>7. HopBitFree
    <3>1. SUFFICES ASSUME InLoop, ~Hopping PROVE op.j - l \notin op.img.hop[l]
      BY <2>3 DEF HopBitFree, InLoop
    <3>2. PICK q \in Slots, y \in Offsets :
             q = Hole /\ l \in Written /\ y = op.j - l /\ At(l + y) = q
      BY <2>3, <3>1, FinalIs
    <3>3. y \notin Back.hop[l]
      BY <2>1, <3>1, <3>2 DEF LoopInv, ExactBut
    <3>4. Back.hop[l] = op.img.hop[l]
      BY <2>1, <3>2, BackSlots
    <3> QED BY <3>2, <3>3, <3>4
  <2> QED BY <2>5, <2>6, <2>7, VacancyIsPromised DEF LeafAsserts
<1> QED BY <1>1, <1>2, <1>3, PTL DEF LeafSpec
=============================================================================
