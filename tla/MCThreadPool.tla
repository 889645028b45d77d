---------------------------- MODULE MCThreadPool ----------------------------
(* Small pools for TLC: three threads at most, ranges of up to three indices. *)
EXTENDS ThreadPoolInvariants

R(b, e, g) == [begin |-> b, end |-> e, grain |-> g]

\* One index beyond every range, which no callback may reach.
MCIndex == 0 .. 4

\* One parallel range per shape that differs: chunks of one, an uneven tail; one
\* that is small enough to be serial; an empty, an inverted and a grainless one.
MCRanges == {R(0, 2, 1), R(1, 4, 2), R(2, 4, 2), R(1, 1, 1), R(2, 1, 1)}

\* For liveness: parallel ranges only.
LiveRanges == {R(0, 2, 1)}
=============================================================================
