----------------------------- MODULE ParallelFor ----------------------------
(***************************************************************************)
(* What tinyvdb_thread.h promises of tvdb_thread_pool_for, with no pool in *)
(* sight: a call divides its range into disjoint chunks of at most grain   *)
(* indices, runs a callback on each, and returns once all have completed.  *)
(* Calls of different callers are independent.                             *)
(***************************************************************************)
EXTENDS Integers

CONSTANTS Caller, Ranges

VARIABLES
  status,  \* "none", "running", "ok" or "invalid": the last call of a caller
  range,   \* its arguments
  todo,    \* the indices no callback was started for
  active   \* the chunks, <<first, last + 1>>, whose callback is running

vars == <<status, range, todo, active>>

Init ==
  /\ status = [c \in Caller |-> "none"]
  /\ range = [c \in Caller |-> [begin |-> 0, end |-> 0, grain |-> 0]]
  /\ todo = [c \in Caller |-> {}]
  /\ active = [c \in Caller |-> {}]

Start(c, r) ==
  /\ status[c] # "running"
  /\ range' = [range EXCEPT ![c] = r]
  /\ IF r.grain = 0 \/ r.begin > r.end
     THEN status' = [status EXCEPT ![c] = "invalid"] /\ UNCHANGED todo
     ELSE IF r.begin = r.end
     THEN status' = [status EXCEPT ![c] = "ok"] /\ UNCHANGED todo
     ELSE /\ status' = [status EXCEPT ![c] = "running"]
          /\ todo' = [todo EXCEPT ![c] = r.begin .. (r.end - 1)]
  /\ UNCHANGED active

Take(c) ==
  \E b, e \in range[c].begin .. range[c].end :
    /\ status[c] = "running"
    /\ b < e /\ e - b <= range[c].grain /\ b .. (e - 1) \subseteq todo[c]
    /\ todo' = [todo EXCEPT ![c] = @ \ (b .. (e - 1))]
    /\ active' = [active EXCEPT ![c] = @ \cup {<<b, e>>}]
    /\ UNCHANGED <<status, range>>

Complete(c) ==
  \E k \in active[c] :
    /\ active' = [active EXCEPT ![c] = @ \ {k}]
    /\ UNCHANGED <<status, range, todo>>

Return(c) ==
  /\ status[c] = "running" /\ todo[c] = {} /\ active[c] = {}
  /\ status' = [status EXCEPT ![c] = "ok"]
  /\ UNCHANGED <<range, todo, active>>

Next == \E c \in Caller : \/ \E r \in Ranges : Start(c, r)
                          \/ Take(c) \/ Complete(c) \/ Return(c)

Spec == Init /\ [][Next]_vars
=============================================================================
