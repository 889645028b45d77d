--------------------------- MODULE MCGpuResident ----------------------------
(***************************************************************************)
(* Instances of GpuResident for TLC.  Which of the free buffers an         *)
(* allocation gets makes no difference, so MCView describes a state up to  *)
(* the names of buffers and topologies: by who owns a cell, what is in it  *)
(* and how often it is counted.  It leaves out what is in scratch buffers  *)
(* that the operation in progress does not use: an operation writes its    *)
(* scratch before it reads it (Allowed and passed of the invariant).       *)
(***************************************************************************)
EXTENDS GpuResidentInvariants, TLC

CONSTANTS h1, h2, d1, d2

MCBuffer   == 1..14
MCTopology == 21..26

Seen(c) == IF c = None THEN <<>>
           ELSE <<data[c], {s \in DOMAIN own : c \in Cells(s)},
                  IF c \in Topology THEN refs[c] ELSE 0,
                  {<<d, k>> \in Dense \X (0..2) : dense[d][k] = c}>>

Kept == {x \in IF job = Idle THEN {} ELSE Handle \cup Dense : AsBefore(x)}

MCSymmetry == Permutations({h1, h2}) \cup Permutations({d1, d2})

MCView == <<[s \in DOMAIN own |-> <<Seen(own[s].topology), Seen(own[s].values)>>],
            [d \in Dense |-> [k \in 0..2 |-> IF k = 0 \/ d = job.out THEN Seen(dense[d][k])
                                            ELSE dense[d][k] # None]],
            Cardinality(Free(Buffer)), Cardinality(Free(Topology)),
            known, [job EXCEPT !.before = <<>>], Kept>>
=============================================================================
