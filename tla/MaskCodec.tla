----------------------------- MODULE MaskCodec ------------------------------
(***************************************************************************)
(* The mask compression of a tree node's values in a .vdb file: what       *)
(* tvdb__write_mask_values stores and what tvdb__read_mask_values makes of *)
(* it.  The bytes of a node are a record of its sections, each a sequence  *)
(* of one element or empty; the reader decides from the flag and from the  *)
(* format which sections it reads.                                         *)
(***************************************************************************)
EXTENDS Integers

CONSTANTS
  Voxel,  \* the entries of a node, in storage order
  Value   \* values as bit patterns: tvdb__values_equal is memcmp

ASSUME CodecAssumption == Voxel \subseteq Nat

\* What a file and a grid fix for every node: the background, its negation (the
\* same pattern for types that are not negated), TVDB_COMPRESS_ACTIVE_MASK, and
\* for half grids what demotion to half and promotion back make of a value.
Format == {f \in [bg : Value, negBg : Value, mask : BOOLEAN, half : BOOLEAN,
                  trunc : [Value -> Value]] :
             \A v \in Value : f.trunc[f.trunc[v]] = f.trunc[v]}
Node == [on : SUBSET Voxel, val : [Voxel -> Value]]

\* tvdb__value_to_half, then tvdb__half_to_value.
Stored(f, v) == IF f.half THEN f.trunc[v] ELSE v

Inactive(n) == Voxel \ n.on
Kinds(n)    == {n.val[i] : i \in Inactive(n)}

\* The value of Of that the scan over the inactive entries meets first.
Earliest(n, Of) ==
  LET at == {i \in Inactive(n) : n.val[i] \in Of}
  IN  n.val[CHOOSE i \in at : \A j \in at : i <= j]
First(n)  == Earliest(n, Kinds(n))
Second(n) == Earliest(n, Kinds(n) \ {First(n)})

\* Mutant: the background is not recognised when it is met first.
PairNoSwap(f, n) == <<First(n), Second(n)>>

\* inactive_val[0] and inactive_val[1] of a node with two inactive values: the
\* background, when it is one of them, is the second.
Pair(f, n) == IF First(n) = f.bg THEN <<Second(n), First(n)>> ELSE <<First(n), Second(n)>>

Flag(f, n) ==
  CASE ~f.mask -> "NO_MASK_AND_ALL_VALS"
    [] f.mask /\ Kinds(n) = {} -> "NO_MASK_OR_INACTIVE_VALS"
    [] f.mask /\ Kinds(n) # {} /\ Kinds(n) = {First(n)} ->
         IF First(n) = f.bg THEN "NO_MASK_OR_INACTIVE_VALS"
         ELSE IF First(n) = f.negBg THEN "NO_MASK_AND_MINUS_BG"
         ELSE "NO_MASK_AND_ONE_INACTIVE_VAL"
    [] f.mask /\ Kinds(n) # {First(n)} /\ Kinds(n) = {First(n), Second(n)} ->
         IF Pair(f, n)[2] # f.bg THEN "MASK_AND_TWO_INACTIVE_VALS"
         ELSE IF Pair(f, n)[1] = f.negBg THEN "MASK_AND_NO_INACTIVE_VALS"
         ELSE "MASK_AND_ONE_INACTIVE_VAL"
    [] OTHER -> "NO_MASK_AND_ALL_VALS"

ReadsFirst(flag)  == flag \in {"NO_MASK_AND_ONE_INACTIVE_VAL", "MASK_AND_ONE_INACTIVE_VAL",
                               "MASK_AND_TWO_INACTIVE_VALS"}
ReadsSecond(flag) == flag = "MASK_AND_TWO_INACTIVE_VALS"
ReadsMask(flag)   == flag \in {"MASK_AND_NO_INACTIVE_VALS", "MASK_AND_ONE_INACTIVE_VAL",
                               "MASK_AND_TWO_INACTIVE_VALS"}

\* tvdb__write_mask_values.  Values are compared at full width, inactive ones
\* are stored truncated but at full width; HalfWriter emits nothing for no value.
Encode(f, n) ==
  LET flag   == Flag(f, n)
      stored == IF flag = "NO_MASK_AND_ALL_VALS" THEN Voxel ELSE n.on
      val    == IF ReadsMask(flag) THEN Pair(f, n) ELSE <<First(n), f.bg>>
  IN  [flag   |-> flag,
       first  |-> IF ReadsFirst(flag) THEN <<Stored(f, val[1])>> ELSE <<>>,
       second |-> IF ReadsSecond(flag) THEN <<Stored(f, val[2])>> ELSE <<>>,
       select |-> IF ReadsMask(flag) THEN <<{i \in Inactive(n) : n.val[i] = val[2]}>> ELSE <<>>,
       chunk  |-> IF f.half /\ stored = {} THEN <<>>
                  ELSE <<[i \in stored |-> Stored(f, n.val[i])]>>]

\* The entries whose values the reader expects in the chunk (read_count).
Expects(f, on, flag) == IF f.mask /\ flag # "NO_MASK_AND_ALL_VALS" THEN on ELSE Voxel

\* tvdb__read_mask_values, given the value mask that the topology stored.
Decode(f, on, b) ==
  LET val1   == IF ReadsSecond(b.flag) THEN b.second[1] ELSE f.bg
      val0   == IF ReadsFirst(b.flag) THEN b.first[1]
                ELSE IF b.flag = "NO_MASK_OR_INACTIVE_VALS" THEN f.bg ELSE f.negBg
      select == IF ReadsMask(b.flag) THEN b.select[1] ELSE {}
  IN  [on  |-> on,
       val |-> [i \in Voxel |-> IF i \in Expects(f, on, b.flag) THEN b.chunk[1][i]
                                ELSE IF i \in select THEN val1 ELSE val0]]

Reloaded(f, n) == Decode(f, n.on, Encode(f, n))

\* The reader consumes exactly the sections the writer emitted: one section too
\* many or too few and every later node of the grid is read from a wrong offset
\* (the note at tinyvdb_io.h:2359).
Aligned(f, n) ==
  LET b == Encode(f, n)
  IN  /\ ReadsFirst(b.flag) <=> b.first # <<>>
      /\ ReadsSecond(b.flag) <=> b.second # <<>>
      /\ ReadsMask(b.flag) <=> b.select # <<>>
      /\ ~(f.half /\ Expects(f, n.on, b.flag) = {}) <=> b.chunk # <<>>
      /\ b.chunk # <<>> => DOMAIN b.chunk[1] = Expects(f, n.on, b.flag)

\* What a node is worth after it was saved and loaded: a full-width grid is
\* unchanged; in a half grid every value is kept or truncated, active ones are
\* truncated, and the background survives exactly in the inactive entries of a
\* mask-compressed node of at most two inactive values.
Faithful(f, n) ==
  LET m == Reloaded(f, n)
  IN  /\ m.on = n.on
      /\ \A i \in Voxel : m.val[i] \in {n.val[i], Stored(f, n.val[i])}
      /\ \A i \in n.on : m.val[i] = Stored(f, n.val[i])
      /\ f.mask /\ (\E v, w \in Value : Kinds(n) \subseteq {v, w}) =>
           \A i \in Inactive(n) : n.val[i] = f.bg => m.val[i] = f.bg

\* Saving what was loaded, and loading it again, changes nothing more.
Stable(f, n) == Reloaded(f, Reloaded(f, n)) = Reloaded(f, n)

\* A node that is saved and loaded keeps its stream in step, its values up to
\* the half truncation of its format, and settles after one round
\* (tvdb__write_mask_values against tvdb__read_mask_values).
RoundTrip == \A f \in Format, n \in Node : Aligned(f, n) /\ Faithful(f, n) /\ Stable(f, n)
=============================================================================
