-------------------------- MODULE MaskCodecProofs ---------------------------
(***************************************************************************)
(* RoundTrip for nodes of any size, any values and any format.  The facts  *)
(* that carry it: the scan finds values of inactive entries (ScanFinds),   *)
(* and the flag names the inactive values exactly (the Flag lemmas).       *)
(***************************************************************************)
EXTENDS MaskCodec, WellFoundedInduction, TLAPS

LEMMA LeastVoxel ==
  ASSUME NEW S \in SUBSET Voxel, S # {}
  PROVE  \E i \in S : \A j \in S : i <= j
<1>1. S \subseteq Nat
  BY CodecAssumption
<1>2. PICK i \in S : \A j \in S : ~ (<<j, i>> \in OpToRel(<, Nat))
  BY <1>1, NatLessThanWellFounded, WFMin
<1>3. ASSUME NEW j \in S PROVE i <= j
  <2>1. ~ (j < i)
    BY <1>1, <1>2 DEF OpToRel
  <2> QED BY <1>1, <2>1
<1> QED BY <1>3

\* The scan over the inactive entries returns one of the values it looks for.
LEMMA ScanFinds ==
  ASSUME NEW n \in Node, NEW Of, Of \cap Kinds(n) # {}
  PROVE  Earliest(n, Of) \in Of \cap Kinds(n)
<1> DEFINE at == {i \in Inactive(n) : n.val[i] \in Of}
<1>1. at # {} /\ at \in SUBSET Voxel
  BY DEF Kinds, Inactive
<1>2. (CHOOSE i \in at : \A j \in at : i <= j) \in at
  BY <1>1, LeastVoxel
<1> HIDE DEF at
<1>3. Earliest(n, Of) = n.val[CHOOSE i \in at : \A j \in at : i <= j]
  BY DEF Earliest, at
<1> QED BY <1>2, <1>3 DEF at, Kinds

LEMMA KindsAreValues == ASSUME NEW n \in Node PROVE Kinds(n) \subseteq Value
BY DEF Node, Kinds, Inactive

LEMMA FirstKnown ==
  ASSUME NEW n \in Node, Kinds(n) # {}
  PROVE  First(n) \in Kinds(n)
BY ScanFinds DEF First

LEMMA SecondKnown ==
  ASSUME NEW n \in Node, Kinds(n) # {}, Kinds(n) # {First(n)}
  PROVE  Second(n) \in Kinds(n) \ {First(n)}
<1>1. (Kinds(n) \ {First(n)}) \cap Kinds(n) # {}
  BY FirstKnown
<1> QED BY <1>1, ScanFinds DEF Second

\* The two values of a node with exactly two inactive values: the first is never
\* the background.
LEMMA PairKnown ==
  ASSUME NEW f \in Format, NEW n \in Node, Kinds(n) # {}, Kinds(n) # {First(n)},
         Kinds(n) = {First(n), Second(n)}
  PROVE  /\ Pair(f, n)[1] # Pair(f, n)[2] /\ Pair(f, n)[1] # f.bg
         /\ Kinds(n) = {Pair(f, n)[1], Pair(f, n)[2]}
<1>1. First(n) # Second(n)
  BY SecondKnown
<1>2. CASE First(n) = f.bg
  BY <1>1, <1>2 DEF Pair
<1>3. CASE First(n) # f.bg
  BY <1>1, <1>3 DEF Pair
<1> QED BY <1>2, <1>3

Few(n) == \E v, w \in Value : Kinds(n) \subseteq {v, w}

LEMMA ManyKinds ==
  ASSUME NEW n \in Node, Kinds(n) # {}, Kinds(n) # {First(n)}, Kinds(n) # {First(n), Second(n)}
  PROVE  ~ Few(n)
<1>1. First(n) \in Kinds(n) /\ Second(n) \in Kinds(n) /\ Second(n) # First(n)
  BY FirstKnown, SecondKnown
<1>2. PICK u \in Kinds(n) : u # First(n) /\ u # Second(n)
  BY <1>1
<1> QED BY <1>1, <1>2 DEF Few

\* What each flag says of the inactive values.
LEMMA FlagMeans ==
  ASSUME NEW f \in Format, NEW n \in Node
  PROVE  \/ Flag(f, n) = "NO_MASK_AND_ALL_VALS" /\ (~f.mask \/ ~ Few(n))
         \/ f.mask /\ Flag(f, n) = "NO_MASK_OR_INACTIVE_VALS" /\ Kinds(n) \subseteq {f.bg}
         \/ f.mask /\ Flag(f, n) = "NO_MASK_AND_MINUS_BG" /\ Kinds(n) = {f.negBg}
         \/ f.mask /\ Flag(f, n) = "NO_MASK_AND_ONE_INACTIVE_VAL" /\ Kinds(n) = {First(n)}
            /\ First(n) \notin {f.bg, f.negBg}
         \/ /\ f.mask /\ ReadsMask(Flag(f, n))
            /\ Kinds(n) = {Pair(f, n)[1], Pair(f, n)[2]}
            /\ Pair(f, n)[1] # Pair(f, n)[2] /\ Pair(f, n)[1] # f.bg
            /\ Flag(f, n) = IF Pair(f, n)[2] # f.bg THEN "MASK_AND_TWO_INACTIVE_VALS"
                            ELSE IF Pair(f, n)[1] = f.negBg THEN "MASK_AND_NO_INACTIVE_VALS"
                            ELSE "MASK_AND_ONE_INACTIVE_VAL"
<1>0. f.mask \in BOOLEAN
  BY DEF Format
<1>1. CASE ~f.mask
  BY <1>1 DEF Flag
<1>2. CASE f.mask /\ Kinds(n) = {}
  BY <1>2 DEF Flag
<1>3. CASE f.mask /\ Kinds(n) # {} /\ Kinds(n) = {First(n)}
  <2>1. Flag(f, n) = IF First(n) = f.bg THEN "NO_MASK_OR_INACTIVE_VALS"
                     ELSE IF First(n) = f.negBg THEN "NO_MASK_AND_MINUS_BG"
                     ELSE "NO_MASK_AND_ONE_INACTIVE_VAL"
    BY <1>3 DEF Flag
  <2> QED BY <1>3, <2>1
<1>4. CASE f.mask /\ Kinds(n) # {} /\ Kinds(n) # {First(n)} /\ Kinds(n) = {First(n), Second(n)}
  <2>1. Flag(f, n) = IF Pair(f, n)[2] # f.bg THEN "MASK_AND_TWO_INACTIVE_VALS"
                     ELSE IF Pair(f, n)[1] = f.negBg THEN "MASK_AND_NO_INACTIVE_VALS"
                     ELSE "MASK_AND_ONE_INACTIVE_VAL"
    BY <1>4 DEF Flag
  <2>2. ReadsMask(Flag(f, n))
    BY <2>1 DEF ReadsMask
  <2> QED BY <1>4, <2>1, <2>2, PairKnown
<1>5. CASE f.mask /\ Kinds(n) # {} /\ Kinds(n) # {First(n)} /\ Kinds(n) # {First(n), Second(n)}
  <2>1. Flag(f, n) = "NO_MASK_AND_ALL_VALS"
    BY <1>5 DEF Flag
  <2> QED BY <1>5, <2>1, ManyKinds
<1> QED BY <1>0, <1>1, <1>2, <1>3, <1>4, <1>5

LEMMA StoredIdempotent ==
  ASSUME NEW f \in Format, NEW v \in Value
  PROVE  Stored(f, v) \in Value /\ Stored(f, Stored(f, v)) = Stored(f, v)
BY DEF Format, Stored

\* What an entry comes back as, by the flag of its node.
LEMMA PlainNode ==
  ASSUME NEW f \in Format, NEW n \in Node, Flag(f, n) = "NO_MASK_AND_ALL_VALS"
  PROVE  Reloaded(f, n) = [on |-> n.on, val |-> [i \in Voxel |-> Stored(f, n.val[i])]]
<1>1. Expects(f, n.on, Encode(f, n).flag) = Voxel
  BY DEF Encode, Expects
<1>2. ASSUME Voxel # {}
      PROVE  Encode(f, n).chunk[1] = [i \in Voxel |-> Stored(f, n.val[i])]
  BY <1>2 DEF Encode
<1> QED BY <1>1, <1>2 DEF Reloaded, Decode

LEMMA MaskedNode ==
  ASSUME NEW f \in Format, NEW n \in Node, Flag(f, n) # "NO_MASK_AND_ALL_VALS"
  PROVE  Reloaded(f, n) =
           [on  |-> n.on,
            val |-> [i \in Voxel |->
                      IF i \in n.on \/ (n.val[i] # f.bg /\ ~ Kinds(n) \subseteq {f.bg, f.negBg})
                      THEN Stored(f, n.val[i]) ELSE n.val[i]]]
<1> DEFINE b == Encode(f, n)
           val1   == IF ReadsSecond(b.flag) THEN b.second[1] ELSE f.bg
           val0   == IF ReadsFirst(b.flag) THEN b.first[1]
                     ELSE IF b.flag = "NO_MASK_OR_INACTIVE_VALS" THEN f.bg ELSE f.negBg
           select == IF ReadsMask(b.flag) THEN b.select[1] ELSE {}
           kept(i) == IF n.val[i] # f.bg /\ ~ Kinds(n) \subseteq {f.bg, f.negBg}
                      THEN Stored(f, n.val[i]) ELSE n.val[i]
<1>1. f.mask /\ b.flag = Flag(f, n) /\ Expects(f, n.on, b.flag) = n.on
  BY FlagMeans DEF Encode, Expects
<1>2. ASSUME NEW i \in n.on PROVE b.chunk[1][i] = Stored(f, n.val[i])
  BY <1>2 DEF Encode
<1>3. \A i \in Inactive(n) : n.val[i] \in Kinds(n)
  BY DEF Kinds
<1>4. ASSUME NEW i \in Inactive(n) PROVE (IF i \in select THEN val1 ELSE val0) = kept(i)
  <2>1. CASE Flag(f, n) = "NO_MASK_OR_INACTIVE_VALS" /\ Kinds(n) \subseteq {f.bg}
    BY <1>1, <1>3, <2>1 DEF ReadsFirst, ReadsMask
  <2>2. CASE Flag(f, n) = "NO_MASK_AND_MINUS_BG" /\ Kinds(n) = {f.negBg}
    BY <1>1, <1>3, <2>2 DEF ReadsFirst, ReadsMask
  <2>3. CASE /\ Flag(f, n) = "NO_MASK_AND_ONE_INACTIVE_VAL" /\ Kinds(n) = {First(n)}
             /\ First(n) \notin {f.bg, f.negBg}
    <3>1. b.first = <<Stored(f, First(n))>>
      BY <2>3 DEF Encode, ReadsFirst, ReadsMask
    <3> QED BY <1>1, <1>3, <2>3, <3>1 DEF ReadsFirst, ReadsMask
  <2>4. CASE /\ ReadsMask(Flag(f, n)) /\ Kinds(n) = {Pair(f, n)[1], Pair(f, n)[2]}
             /\ Pair(f, n)[1] # Pair(f, n)[2] /\ Pair(f, n)[1] # f.bg
             /\ Flag(f, n) = IF Pair(f, n)[2] # f.bg THEN "MASK_AND_TWO_INACTIVE_VALS"
                             ELSE IF Pair(f, n)[1] = f.negBg THEN "MASK_AND_NO_INACTIVE_VALS"
                             ELSE "MASK_AND_ONE_INACTIVE_VAL"
    <3>1. select = {j \in Inactive(n) : n.val[j] = Pair(f, n)[2]}
      BY <1>1, <2>4 DEF Encode
    <3>2. CASE Pair(f, n)[2] # f.bg
      <4>1. b.first = <<Stored(f, Pair(f, n)[1])>> /\ b.second = <<Stored(f, Pair(f, n)[2])>>
        BY <2>4, <3>2 DEF Encode, ReadsFirst, ReadsSecond
      <4> QED BY <1>1, <1>3, <2>4, <3>1, <3>2, <4>1 DEF ReadsFirst, ReadsSecond
    <3>3. CASE Pair(f, n)[2] = f.bg /\ Pair(f, n)[1] = f.negBg
      BY <1>1, <1>3, <2>4, <3>1, <3>3 DEF ReadsFirst, ReadsSecond
    <3>4. CASE Pair(f, n)[2] = f.bg /\ Pair(f, n)[1] # f.negBg
      <4>1. b.first = <<Stored(f, Pair(f, n)[1])>>
        BY <2>4, <3>4 DEF Encode, ReadsFirst
      <4> QED BY <1>1, <1>3, <2>4, <3>1, <3>4, <4>1 DEF ReadsFirst, ReadsSecond
    <3> QED BY <3>2, <3>3, <3>4
  <2> QED BY <2>1, <2>2, <2>3, <2>4, FlagMeans
<1>5. \A i \in Voxel : i \in n.on \/ i \in Inactive(n)
  BY DEF Inactive
<1>6. Reloaded(f, n) = [on |-> n.on, val |-> [i \in Voxel |->
        IF i \in n.on THEN b.chunk[1][i] ELSE IF i \in select THEN val1 ELSE val0]]
  BY <1>1 DEF Reloaded, Decode
<1> HIDE DEF b, val1, val0, select
<1> QED BY <1>2, <1>4, <1>5, <1>6

LEMMA ReloadedIsNode ==
  ASSUME NEW f \in Format, NEW n \in Node
  PROVE  Reloaded(f, n) \in Node
<1>1. \A i \in Voxel : n.val[i] \in Value /\ Stored(f, n.val[i]) \in Value
  BY StoredIdempotent DEF Node
<1>2. CASE Flag(f, n) = "NO_MASK_AND_ALL_VALS"
  BY <1>1, <1>2, PlainNode DEF Node
<1>3. CASE Flag(f, n) # "NO_MASK_AND_ALL_VALS"
  BY <1>1, <1>3, MaskedNode DEF Node
<1> QED BY <1>2, <1>3

LEMMA AlignedHolds == ASSUME NEW f \in Format, NEW n \in Node PROVE Aligned(f, n)
<1> DEFINE b == Encode(f, n)
           stored == IF Flag(f, n) = "NO_MASK_AND_ALL_VALS" THEN Voxel ELSE n.on
<1>1. b.flag = Flag(f, n) /\ Expects(f, n.on, b.flag) = stored
  BY FlagMeans DEF Encode, Expects
<1>2. b.chunk = IF f.half /\ stored = {} THEN <<>> ELSE <<[i \in stored |-> Stored(f, n.val[i])]>>
  BY DEF Encode
<1>3. /\ ReadsFirst(b.flag) <=> b.first # <<>>
      /\ ReadsSecond(b.flag) <=> b.second # <<>>
      /\ ReadsMask(b.flag) <=> b.select # <<>>
  BY DEF Encode
<1> HIDE DEF b, stored
<1>4. ~(f.half /\ stored = {}) <=> b.chunk # <<>>
  BY <1>2
<1>5. b.chunk # <<>> => DOMAIN b.chunk[1] = stored
  BY <1>2
<1> QED BY <1>1, <1>3, <1>4, <1>5 DEF Aligned, b

LEMMA FaithfulHolds == ASSUME NEW f \in Format, NEW n \in Node PROVE Faithful(f, n)
<1>1. n.on \subseteq Voxel /\ \A i \in Inactive(n) : i \in Voxel /\ i \notin n.on
  BY DEF Node, Inactive
<1>2. CASE Flag(f, n) = "NO_MASK_AND_ALL_VALS"
  <2>1. ~ (f.mask /\ (\E v, w \in Value : Kinds(n) \subseteq {v, w}))
    BY <1>2, FlagMeans DEF ReadsMask, Few
  <2> QED BY <1>1, <1>2, <2>1, PlainNode DEF Faithful
<1>3. CASE Flag(f, n) # "NO_MASK_AND_ALL_VALS"
  BY <1>1, <1>3, MaskedNode DEF Faithful
<1> QED BY <1>2, <1>3

\* A node that storing does not change: every value is representable, or the
\* flag restores the values that are not.
Settled(f, n) ==
  /\ \A i \in n.on : Stored(f, n.val[i]) = n.val[i]
  /\ \/ \A i \in Voxel : Stored(f, n.val[i]) = n.val[i]
     \/ /\ Flag(f, n) # "NO_MASK_AND_ALL_VALS"
        /\ Kinds(n) \subseteq {f.bg, f.negBg}
           \/ \A v \in Kinds(n) : v = f.bg \/ Stored(f, v) = v

LEMMA SettledIsKept ==
  ASSUME NEW f \in Format, NEW n \in Node, Settled(f, n)
  PROVE  Reloaded(f, n) = n
<1>1. \A i \in Voxel : i \notin n.on => n.val[i] \in Kinds(n)
  BY DEF Kinds, Inactive
<1>2. n = [on |-> n.on, val |-> [i \in Voxel |-> n.val[i]]]
  BY DEF Node
<1>3. CASE Flag(f, n) = "NO_MASK_AND_ALL_VALS"
  <2>1. \A i \in Voxel : Stored(f, n.val[i]) = n.val[i]
    BY <1>3 DEF Settled
  <2> QED BY <1>2, <1>3, <2>1, PlainNode
<1>4. CASE Flag(f, n) # "NO_MASK_AND_ALL_VALS"
  <2>1. \A i \in Voxel : (i \in n.on \/ (n.val[i] # f.bg /\ ~ Kinds(n) \subseteq {f.bg, f.negBg}))
                           => Stored(f, n.val[i]) = n.val[i]
    BY <1>1 DEF Settled
  <2> QED BY <1>2, <1>4, <2>1, MaskedNode
<1> QED BY <1>3, <1>4

LEMMA ReloadedSettles ==
  ASSUME NEW f \in Format, NEW n \in Node
  PROVE  Settled(f, Reloaded(f, n))
<1> DEFINE m == Reloaded(f, n)
<1>1. \A i \in Voxel : n.val[i] \in Value /\ Stored(f, Stored(f, n.val[i])) = Stored(f, n.val[i])
  BY StoredIdempotent DEF Node
<1>2. n.on \subseteq Voxel /\ m \in Node
  BY ReloadedIsNode DEF Node
<1>3. CASE Flag(f, n) = "NO_MASK_AND_ALL_VALS"
  BY <1>1, <1>2, <1>3, PlainNode DEF Settled
<1>4. CASE Flag(f, n) # "NO_MASK_AND_ALL_VALS"
  <2>1. m.on = n.on /\ \A i \in n.on : m.val[i] = Stored(f, n.val[i])
    BY <1>2, <1>4, MaskedNode
  <2>2. \A i \in n.on : Stored(f, m.val[i]) = m.val[i]
    BY <1>1, <1>2, <2>1
  <2>3. Inactive(m) = Inactive(n) /\ Inactive(n) \subseteq Voxel
    BY <2>1 DEF Inactive
  <2>4. \A i \in Inactive(n) : n.val[i] \in Kinds(n) /\ i \notin n.on
    BY DEF Kinds, Inactive
  <2>5. f.mask /\ Few(n)
    <3>1. f.bg \in Value /\ f.negBg \in Value
      BY DEF Format
    <3>2. Kinds(n) \subseteq Value
      BY KindsAreValues
    <3> QED BY <1>4, <3>1, <3>2, FlagMeans DEF Few, ReadsMask
  <2>6. \A i \in Inactive(n) : m.val[i] = IF n.val[i] # f.bg /\ ~ Kinds(n) \subseteq {f.bg, f.negBg}
                                          THEN Stored(f, n.val[i]) ELSE n.val[i]
    BY <1>4, <2>3, <2>4, MaskedNode
  <2>7. Few(m)
    <3>1. PICK v, w \in Value : Kinds(n) \subseteq {v, w}
      BY <2>5 DEF Few
    <3> DEFINE image(u) == IF u # f.bg /\ ~ Kinds(n) \subseteq {f.bg, f.negBg}
                           THEN Stored(f, u) ELSE u
    <3>2. image(v) \in Value /\ image(w) \in Value
      BY StoredIdempotent
    <3>3. \A i \in Inactive(n) : m.val[i] = image(n.val[i]) /\ n.val[i] \in {v, w}
      BY <2>4, <2>6, <3>1
    <3> HIDE DEF image, m
    <3>4. \A i \in Inactive(n) : m.val[i] \in {image(v), image(w)}
      BY <3>3
    <3>5. Kinds(m) \subseteq {image(v), image(w)}
      BY <2>3, <3>4 DEF Kinds
    <3> QED BY <3>2, <3>5 DEF Few
  <2>8. Flag(f, m) # "NO_MASK_AND_ALL_VALS"
    BY <1>2, <2>5, <2>7, FlagMeans DEF ReadsMask
  <2>9. CASE Kinds(n) \subseteq {f.bg, f.negBg}
    <3>1. Kinds(m) \subseteq {f.bg, f.negBg}
      BY <2>3, <2>4, <2>6, <2>9 DEF Kinds
    <3> QED BY <2>1, <2>2, <2>8, <3>1 DEF Settled
  <2>10. CASE ~ Kinds(n) \subseteq {f.bg, f.negBg}
    <3>1. \A v \in Kinds(m) : v = f.bg \/ Stored(f, v) = v
      BY <1>1, <2>3, <2>6, <2>10 DEF Kinds
    <3> QED BY <2>1, <2>2, <2>8, <3>1 DEF Settled
  <2> QED BY <2>9, <2>10
<1> QED BY <1>3, <1>4

\* RoundTrip: for nodes of any size, in any format, the reader of
\* tvdb__read_mask_values stays in step with the stream tvdb__write_mask_values
\* emits, gives back every value up to half truncation, and settles at once.
THEOREM RoundTripHolds == RoundTrip
<1>1. ASSUME NEW f \in Format, NEW n \in Node
      PROVE  Aligned(f, n) /\ Faithful(f, n) /\ Stable(f, n)
  BY AlignedHolds, FaithfulHolds, ReloadedIsNode, ReloadedSettles, SettledIsKept DEF Stable
<1> QED BY <1>1 DEF RoundTrip
=============================================================================
