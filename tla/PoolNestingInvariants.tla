------------------------ MODULE PoolNestingInvariants -----------------------
(***************************************************************************)
(* The inductive invariant of PoolNesting: what the frames of a call stack *)
(* are to one another and to executing_pool, and in which order the pools  *)
(* of a stack come when they are nested in one order only.                 *)
(***************************************************************************)
EXTENDS PoolNesting

Depth(t) == Len(stack[t])

\* Under the innermost call of a thread there are only calls that are in a callback.
OthersInCallback(t) == \A i \in 1 .. (Depth(t) - 1) : stack[t][i].pc = "in"

\* A worker serves a job at the bottom of its stack, and only a pool_for that submits
\* takes the submit mutex, waits for the workers, and did so for a pool other than the
\* one its thread was in.
KindsRight(t) ==
  \A i \in 1 .. Depth(t) :
    /\ stack[t][i].kind = "worker" => i = 1 /\ t \in Workers[stack[t][i].pool]
    /\ stack[t][i].pc \in {"submit", "wait"} => stack[t][i].kind = "caller"
    /\ stack[t][i].pc = "submit" => stack[t][i].pool # stack[t][i].saved

\* Each call saved the pool of the call around it.
SavedIsOuter(t) ==
  \A i \in 1 .. Depth(t) : stack[t][i].saved = IF i = 1 THEN NoPool ELSE stack[t][i - 1].pool

\* executing_pool, by the innermost call.
ExecutingExpected(t) ==
  executing[t] = IF Depth(t) = 0 THEN NoPool
                 ELSE IF Top(t).pc \in {"loop", "in"} THEN Top(t).pool ELSE Top(t).saved

Orderly(t) == OthersInCallback(t) /\ KindsRight(t) /\ SavedIsOuter(t) /\ ExecutingExpected(t)

IInv == TypeOK /\ \A t \in Thread : Orderly(t)

\* The pools can be ranked so that a callback calls its own pool or a higher one.
NestsUpwards(Rank) == \A p, q \in Pools : <<p, q>> \in Nests => p = q \/ Rank[p] < Rank[q]

\* Then the pools of a stack come in that order.
Upwards(Rank, t) ==
  \A i, j \in 1 .. Depth(t) :
    i < j => stack[t][i].pool = stack[t][j].pool \/ Rank[stack[t][i].pool] < Rank[stack[t][j].pool]
=============================================================================
