---------------------------- MODULE MCPoolNesting ---------------------------
(* Two pools of two threads each, one application thread or two. *)
EXTENDS PoolNestingInvariants

CONSTANTS a, b, aw, bw

MCWorkers == [p \in {a, b} |-> IF p = a THEN {aw} ELSE {bw}]

\* Callbacks of a may call a and b, callbacks of b may call b only.
Ordered == {<<a, a>>, <<a, b>>, <<b, b>>}

\* Callbacks of each pool may call the other one.
Mutual == {<<a, b>>, <<b, a>>}
=============================================================================
