------------------------ MODULE ThreadPoolDataProofs ------------------------
(***************************************************************************)
(* What the pool covers, proved for any number of threads, calls and       *)
(* ranges: the data invariant, on top of the control invariant, and from   *)
(* both that the pool implements ParallelFor: every step of the pool is a  *)
(* step of its contract or no step.                                        *)
(***************************************************************************)
EXTENDS ThreadPoolProofs

USE ThreadAssumption DEF Thread, Worker, PC, WorkerPC, CallerPC, DrainPC, ctlVars, lockVars,
  workVars, runVars, callVars, restVars, Goto, Lock, Unlock

-----------------------------------------------------------------------------
(* Consequences of the control invariant. *)

\* At most one call is current.
LEMMA OneCurrent ==
  ASSUME Control, NEW c \in Caller, NEW d \in Caller,
         pc[c] \in HoldsSubmit, pc[d] \in HoldsSubmit
  PROVE  c = d
  BY DEF Control, SubmitHeld

\* A thread is inside drain_job only while a call is current.
LEMMA DrainersServe ==
  ASSUME Control, NEW t \in Thread, pc[t] \in DrainPC
  PROVE  \E c \in Caller : pc[c] \in Working
<1>1. CASE t \in Caller
  BY <1>1 DEF Working
<1>2. CASE t \in Worker
  BY <1>2 DEF Control, QuietBetweenJobs, Owing, Started
<1> QED BY <1>1, <1>2

\* A chunk starts where it is asked to, is not empty, is no longer than the grain and
\* ends within the range.
LEMMA ChunkEndBounds ==
  ASSUME NEW b \in Nat, NEW e \in Nat, NEW g \in Nat, b < e, g > 0
  PROVE  /\ ChunkEnd(b, e, g) \in Nat /\ b < ChunkEnd(b, e, g)
         /\ ChunkEnd(b, e, g) <= e /\ ChunkEnd(b, e, g) - b <= g
  BY DEF ChunkEnd

-----------------------------------------------------------------------------
(* Steps that the data does not see. *)

\* Places that are alike for the data: a thread may move among those of one set.
Alike == { WorkerPC \cup {"load"}, {"finish", "settle", "done"},
           {"submit", "lockSlot", "fill"}, {"in", "nested"} }

\* A step that moves threads among alike places only, and changes neither the slot nor
\* the chunks nor the calls, keeps the data invariant.
LEMMA QuietStep ==
  ASSUME TypeOK, TypeOK', Data,
         \A t \in Thread : pc'[t] = pc[t] \/ \E A \in Alike : pc[t] \in A /\ pc'[t] \in A,
         UNCHANGED <<job, lo, hi, user, args, hits, result>>
  PROVE  Data'
<1>1. \A t \in Thread :
        \/ pc'[t] = pc[t]
        \/ pc[t] \in WorkerPC \cup {"load"} /\ pc'[t] \in WorkerPC \cup {"load"}
        \/ pc[t] \in {"finish", "settle", "done"} /\ pc'[t] \in {"finish", "settle", "done"}
        \/ pc[t] \in {"submit", "lockSlot", "fill"} /\ pc'[t] \in {"submit", "lockSlot", "fill"}
        \/ pc[t] \in {"in", "nested"} /\ pc'[t] \in {"in", "nested"}
  BY DEF Alike
<1>2. \A t \in Thread :
        /\ Claimed(t) <=> Claimed(t)'
        /\ pc[t] \in {"take", "cas", "call", "publish", "idle", "leave", "serial", "inSerial"}
             \/ pc'[t] \in {"take", "cas", "call", "publish", "idle", "leave", "serial", "inSerial"}
               => pc'[t] = pc[t]
  BY <1>1 DEF Claimed
<1>3. \A c \in Caller :
        /\ pc[c] \in Working <=> pc'[c] \in Working
        /\ pc[c] \in Unclaimed <=> pc'[c] \in Unclaimed
        /\ pc[c] \in {"finish", "settle", "done"} <=> pc'[c] \in {"finish", "settle", "done"}
  BY <1>1 DEF Working, Unclaimed, TypeOK, PcType
<1>4. CallKnown' /\ SlotKnown' /\ SerialKnown'
  BY <1>2, <1>3 DEF Data, CallKnown, Running, SlotKnown, SerialKnown, InSerial
<1>5. ChunkKnown' /\ ClaimsDisjoint'
  <2>1. \A t \in Thread : pc[t] \in {"in", "nested"} <=> pc'[t] \in {"in", "nested"}
    BY <1>1
  <2> QED BY <1>2, <1>3, <2>1 DEF Data, ChunkKnown, ChunkEnd, ClaimsDisjoint
<1>6. HitsKnown'
  <2>1. \A i \in Index : Completed(i)' <=> Completed(i)
    BY <1>2 DEF Completed
  <2> QED BY <1>2, <1>3, <2>1 DEF Data, HitsKnown, InSerial
<1> QED BY <1>4, <1>5, <1>6 DEF Data
-----------------------------------------------------------------------------
(* drain_job *)

\* A step of t between the places of drain_job where it has claimed nothing.
LEMMA UnclaimedStep ==
  ASSUME Control, Control', Data, NEW t \in Thread,
         pc[t] \in {"load", "take", "cas"}, NEW l \in {"take", "cas"}, pc' = [pc EXCEPT ![t] = l],
         \A u \in Thread \ {t} : lo'[u] = lo[u] /\ hi'[u] = hi[u],
         UNCHANGED <<job, user, args, hits, result>>,
         lo'[t] <= job.next,
         l = "cas" => lo'[t] < job.end /\ hi'[t] = ChunkEnd(lo'[t], job.end, job.grain)
  PROVE  Data'
<1> USE DEF Control, TypeOK, PcType
<1>1. \A u \in Thread : Claimed(u)' = Claimed(u) /\ (Claimed(u) => u # t)
  BY DEF Claimed
<1>2. CallKnown' /\ SlotKnown' /\ SerialKnown'
  BY DEF Data, CallKnown, Running, SlotKnown, SerialKnown, InSerial, Working
<1>3. ChunkKnown'
  <2>1. \A c \in Caller : pc'[c] \in Working => pc[c] \in Working
    BY DEF Working
  <2> QED BY <1>1, <2>1 DEF Data, ChunkKnown, ChunkEnd
<1>4. ClaimsDisjoint'
  BY <1>1 DEF Data, ClaimsDisjoint
<1>5. HitsKnown'
  <2>1. \A i \in Index : Completed(i)' = Completed(i)
    BY <1>1 DEF Completed
  <2> QED BY <2>1 DEF Data, HitsKnown, InSerial, Unclaimed, Working
<1> QED BY <1>2, <1>3, <1>4, <1>5 DEF Data

\* drain_job: claims, and what the callbacks of the current call cover.
LEMMA DrainData ==
  ASSUME Control, Control', Data, NEW t \in Thread, Drain(t)
  PROVE  Data'
<1>t. CtlType /\ LockType /\ WorkType /\ PcType /\ RunType /\ CallType /\ ExecutingKnown
  BY DEF Control, TypeOK
<1> USE <1>t DEF PcType
<1>0. PICK c \in Caller : pc[c] \in Working
  BY DrainersServe DEF Drain, Load, TakeChunk, Drained, Claim, ClaimFails, EnterCallback,
    Reenter, NestedReturn, LeaveCallback
<1>a. \A d \in Caller : pc[d] \in Working => d = c
  BY <1>0, OneCurrent DEF HoldsSubmit
<1>b. /\ job.user = c /\ job.end = args[c].end /\ job.grain = args[c].grain
      /\ args[c].begin <= job.next /\ job.next <= job.end /\ job.grain > 0
  BY <1>0 DEF Data, SlotKnown, CallKnown, Working
<1>1. CASE Load(t)
  <2>1. /\ pc[t] = "load" /\ pc' = [pc EXCEPT ![t] = "take"] /\ lo'[t] <= job.next
        /\ \A u \in Thread \ {t} : lo'[u] = lo[u] /\ hi'[u] = hi[u]
        /\ UNCHANGED <<job, user, args, hits, result>>
    BY <1>1 DEF Load, RunType, WorkType
  <2> QED BY <2>1, UnclaimedStep
<1>2. CASE TakeChunk(t)
  <2>1. /\ pc[t] = "take" /\ pc' = [pc EXCEPT ![t] = "cas"] /\ lo'[t] <= job.next
        /\ \A u \in Thread \ {t} : lo'[u] = lo[u] /\ hi'[u] = hi[u]
        /\ UNCHANGED <<job, user, args, hits, result>>
        /\ lo'[t] < job.end /\ hi'[t] = ChunkEnd(lo'[t], job.end, job.grain)
    BY <1>2 DEF TakeChunk, RunType, Data, ChunkKnown
  <2> QED BY <2>1, UnclaimedStep
<1>3. CASE ClaimFails(t)
  <2>1. /\ pc[t] = "cas" /\ pc' = [pc EXCEPT ![t] = "take"] /\ lo'[t] <= job.next
        /\ \A u \in Thread \ {t} : lo'[u] = lo[u] /\ hi'[u] = hi[u]
        /\ UNCHANGED <<job, user, args, hits, result>>
    BY <1>3 DEF ClaimFails, RunType, WorkType
  <2> QED BY <2>1, UnclaimedStep
<1>4. CASE Reenter(t) \/ NestedReturn(t)
  <2>1. executing[t]
    BY <1>4 DEF Reenter, NestedReturn, ExecutingKnown
  <2>2. \A u \in Thread : \/ pc'[u] = pc[u]
                          \/ pc[u] \in {"in", "nested"} /\ pc'[u] \in {"in", "nested"}
    <3>1. PICK l \in {"in", "nested"} : pc' = [pc EXCEPT ![t] = l]
      BY <1>4, <2>1 DEF Reenter, NestedReturn
    <3>2. pc[t] \in {"in", "nested"}
      BY <1>4 DEF Reenter, NestedReturn
    <3>3. pc'[t] = l /\ \A u \in Thread \ {t} : pc'[u] = pc[u]
      BY <3>1
    <3> QED BY <3>2, <3>3
  <2>3. UNCHANGED <<job, lo, hi, user, args, hits, result>>
    BY <1>4 DEF Reenter, NestedReturn
  <2> QED BY <2>2, <2>3, QuietStep DEF Alike, Control
<1>5. CASE Drained(t)
  <2>1. job.next = job.end
    BY <1>5, <1>b DEF Drained, Data, ChunkKnown, RunType, WorkType
  <2>2. \A u \in Thread : Claimed(u)' = Claimed(u) /\ (Claimed(u) => u # t)
    BY <1>5 DEF Drained, Claimed
  <2>3. CallKnown' /\ SerialKnown'
    BY <1>5 DEF Drained, Data, CallKnown, Running, SerialKnown, InSerial
  <2>4. SlotKnown'
    BY <1>5, <2>1 DEF Drained, Data, SlotKnown, Working
  <2>5. ChunkKnown'
    <3>1. \A d \in Caller : pc'[d] \in Working => pc[d] \in Working
      BY <1>5 DEF Drained, Working
    <3> QED BY <1>5, <2>2, <3>1 DEF Drained, Data, ChunkKnown, ChunkEnd
  <2>6. ClaimsDisjoint'
    BY <1>5, <2>2 DEF Drained, Data, ClaimsDisjoint
  <2>7. HitsKnown'
    <3>1. \A i \in Index : Completed(i)' = Completed(i)
      BY <1>5, <2>2 DEF Drained, Completed
    <3> QED BY <1>5, <3>1 DEF Drained, Data, HitsKnown, InSerial, Unclaimed, Working
  <2> QED BY <2>3, <2>4, <2>5, <2>6, <2>7 DEF Data
<1>6. CASE Claim(t)
  <2>1. /\ lo[t] = job.next /\ lo[t] < job.end /\ hi[t] = ChunkEnd(lo[t], job.end, job.grain)
        /\ lo[t] \in Nat /\ hi[t] \in Nat /\ job.next \in Nat /\ job.end \in Nat /\ job.grain \in Nat
    BY <1>6 DEF Claim, CursorUnmoved, Data, ChunkKnown, RunType, WorkType
  <2>2. lo[t] < hi[t] /\ hi[t] <= job.end /\ hi[t] - lo[t] <= job.grain
    <3>1. job.grain > 0
      BY <1>b
    <3> QED BY ONLY <2>1, <3>1, ChunkEndBounds
  <2>3. /\ job'.next = hi[t] /\ job'.end = job.end /\ job'.grain = job.grain /\ job'.user = job.user
        /\ lo' = lo /\ hi' = hi /\ user' = user /\ args' = args /\ hits' = hits /\ result' = result
    BY <1>6 DEF Claim, WorkType
  <2>4. \A u \in Thread : /\ u # t => pc'[u] = pc[u] /\ Claimed(u)' = Claimed(u)
                          /\ Claimed(t)' /\ ~ Claimed(t) /\ pc'[t] = "call" /\ pc[t] = "cas"
    BY <1>6 DEF Claim, Claimed
  <2>5. CallKnown' /\ SerialKnown'
    BY <1>6, <2>3 DEF Claim, Data, CallKnown, Running, SerialKnown, InSerial
  <2>6. SlotKnown'
    <3>1. \A d \in Caller : pc'[d] \in Working <=> pc[d] \in Working
      BY <1>6 DEF Claim, Working
    <3>2. \A d \in Caller : pc'[d] \in {"finish", "settle", "done"} => job.next = job.end
      BY <2>4 DEF Data, SlotKnown
    <3>3. \A d \in Caller : pc'[d] # "publish"
      BY <1>0, <1>a, <2>4, OneCurrent DEF HoldsSubmit, Working
    <3>4. args[c].begin \in Nat
      BY DEF CallType
    <3> QED BY <1>a, <1>b, <2>1, <2>2, <2>3, <3>1, <3>2, <3>3, <3>4 DEF SlotKnown
  <2>7. ChunkKnown'
    <3>1. \A d \in Caller : pc'[d] \in Working => d = c
      BY <1>6, <1>a DEF Claim, Working
    <3>2. ASSUME NEW u \in Thread, u # t
          PROVE  /\ pc[u] \in {"take", "cas"} => lo[u] <= job'.next
                 /\ Claimed(u) => hi[u] <= job'.next
      BY <3>2, <2>1, <2>2, <2>3 DEF Data, ChunkKnown, RunType
    <3>3. \A u \in Thread : Claimed(u)' => args[c].begin <= lo[u]
      BY <1>0, <1>b, <2>1, <2>4 DEF Data, ChunkKnown
    <3> QED BY <2>1, <2>2, <2>3, <2>4, <3>1, <3>2, <3>3 DEF Data, ChunkKnown
  <2>8. ClaimsDisjoint'
    <3>1. \A u \in Thread : Claimed(u) => hi[u] <= lo[t]
      BY <2>1 DEF Data, ChunkKnown
    <3> QED BY <2>3, <2>4, <3>1 DEF Data, ClaimsDisjoint
  <2>9. HitsKnown'
    <3>1. \A i \in Index : Completed(i)' = Completed(i)
      <4> SUFFICES ASSUME NEW i \in Index PROVE Completed(i)' = Completed(i)
        OBVIOUS
      <4>1. i \in Nat
        BY RangeAssumption
      <4>2. \A u \in Thread : u # t => (Claimed(u)' /\ ~ (i < lo'[u] \/ hi'[u] <= i)
                                        <=> Claimed(u) /\ ~ (i < lo[u] \/ hi[u] <= i))
        BY <2>3, <2>4
      <4>3. (i < job'.next /\ (i < lo[t] \/ hi[t] <= i)) <=> i < job.next
        BY <2>1, <2>2, <2>3, <4>1
      <4> QED BY <2>3, <2>4, <4>2, <4>3 DEF Completed
    <3> QED BY <2>3, <2>4, <3>1 DEF Data, HitsKnown, InSerial, Unclaimed, Working
  <2> QED BY <2>5, <2>6, <2>7, <2>8, <2>9 DEF Data
<1>7. CASE EnterCallback(t)
  <2>1. \A u \in Thread : Claimed(u)' = Claimed(u)
    BY <1>7 DEF EnterCallback, Claimed
  <2>2. CallKnown' /\ SlotKnown' /\ SerialKnown'
    BY <1>7 DEF EnterCallback, Data, CallKnown, Running, SlotKnown, SerialKnown, InSerial, Working
  <2>3. ChunkKnown'
    <3>1. \A d \in Caller : pc'[d] \in Working => pc[d] \in Working
      BY <1>7 DEF EnterCallback, Working
    <3> QED BY <1>7, <2>1, <3>1 DEF EnterCallback, Data, ChunkKnown, ChunkEnd, RunType
  <2>4. ClaimsDisjoint'
    BY <1>7, <2>1 DEF EnterCallback, Data, ClaimsDisjoint
  <2>5. HitsKnown'
    <3>1. \A i \in Index : Completed(i)' = Completed(i)
      BY <1>7, <2>1 DEF EnterCallback, Completed
    <3> QED BY <1>7, <3>1 DEF EnterCallback, Data, HitsKnown, InSerial, Unclaimed, Working
  <2> QED BY <2>2, <2>3, <2>4, <2>5 DEF Data
<1>8. CASE LeaveCallback(t)
  <2>1. /\ user[t] = c /\ pc[t] = "in" /\ pc' = [pc EXCEPT ![t] = "load"] /\ job' = job
        /\ lo' = [lo EXCEPT ![t] = 0] /\ hi' = [hi EXCEPT ![t] = 0]
        /\ user' = [user EXCEPT ![t] = None] /\ args' = args /\ result' = result
    BY <1>8, <1>b DEF LeaveCallback, Data, ChunkKnown
  <2>2. \A u \in Thread : /\ u # t => /\ pc'[u] = pc[u] /\ Claimed(u)' = Claimed(u)
                                      /\ lo'[u] = lo[u] /\ hi'[u] = hi[u] /\ user'[u] = user[u]
                          /\ Claimed(t) /\ ~ Claimed(t)'
    BY <2>1 DEF Claimed
  <2>3. CallKnown' /\ SlotKnown' /\ SerialKnown'
    BY <2>1, <2>2 DEF Data, CallKnown, Running, SlotKnown, SerialKnown, InSerial, Working
  <2>4. ChunkKnown'
    <3>1. \A d \in Caller : pc'[d] \in Working => pc[d] \in Working
      BY <2>1 DEF Working
    <3> QED BY <2>1, <2>2, <3>1 DEF Data, ChunkKnown, ChunkEnd
  <2>5. ClaimsDisjoint'
    BY <2>2 DEF Data, ClaimsDisjoint
  <2>6. HitsKnown'
    <3> SUFFICES ASSUME NEW d \in Caller, NEW i \in Index
                 PROVE  /\ pc'[d] \in Unclaimed => hits'[d][i] = 0
                        /\ pc'[d] \in InSerial =>
                             hits'[d][i] = IF args[d].begin <= i /\ i < lo'[d] THEN 1 ELSE 0
                        /\ pc'[d] \in Working =>
                             hits'[d][i] = IF args[d].begin <= i /\ Completed(i)' THEN 1 ELSE 0
                        /\ pc'[d] = "leave" \/ result'[d] = "ok" =>
                             hits'[d][i] = IF args[d].begin <= i /\ i < args[d].end THEN 1 ELSE 0
      BY <2>1 DEF HitsKnown
    <3>0. i \in Nat /\ lo[t] \in Nat /\ hi[t] \in Nat /\ args[c].begin \in Nat /\ job.next \in Nat
      BY RangeAssumption DEF RunType, CallType, WorkType
    <3>1. CASE d # c
      <4>1. hits'[d] = hits[d] /\ pc'[d] \notin Working
        BY <3>1, <1>8, <1>a, <2>1 DEF LeaveCallback, Cover, CallType, Working
      <4> QED BY <3>1, <4>1, <1>a, <2>1, <2>2 DEF Data, HitsKnown, InSerial, Unclaimed, Working
    <3>2. CASE d = c
      <4>1. hits'[c][i] = IF lo[t] <= i /\ i < hi[t] THEN hits[c][i] + 1 ELSE hits[c][i]
        BY <1>8, <2>1 DEF LeaveCallback, Cover, CallType
      <4>2. hits[c][i] = IF args[c].begin <= i /\ Completed(i) THEN 1 ELSE 0
        BY <1>0 DEF Data, HitsKnown
      <4>3. pc'[c] \in Working /\ pc'[c] # "leave" /\ pc'[c] \notin Unclaimed \cup InSerial
        BY <1>0, <2>1 DEF Working, Unclaimed, InSerial
      <4>4. args[c].begin <= lo[t] /\ hi[t] <= job.next
        BY <1>0, <2>2 DEF Data, ChunkKnown
      <4>5. lo[t] <= i /\ i < hi[t] => ~ Completed(i) /\ Completed(i)'
        <5> SUFFICES ASSUME lo[t] <= i, i < hi[t] PROVE ~ Completed(i) /\ Completed(i)'
          OBVIOUS
        <5>1. ~ Completed(i)
          BY <2>2, <3>0 DEF Completed
        <5>2. \A u \in Thread : u # t /\ Claimed(u) => i < lo[u] \/ hi[u] <= i
          <6> SUFFICES ASSUME NEW u \in Thread, u # t, Claimed(u) PROVE i < lo[u] \/ hi[u] <= i
            OBVIOUS
          <6>1. hi[t] <= lo[u] \/ hi[u] <= lo[t]
            BY <2>2 DEF Data, ClaimsDisjoint
          <6>2. lo[u] \in Nat /\ hi[u] \in Nat
            BY DEF RunType
          <6> QED BY <3>0, <6>1, <6>2
        <5>3. i < job.next
          BY <3>0, <4>4
        <5> QED BY <5>1, <5>2, <5>3, <2>1, <2>2 DEF Completed
      <4>6. ~ (lo[t] <= i /\ i < hi[t]) => Completed(i)' = Completed(i)
        BY <2>1, <2>2, <3>0 DEF Completed
      <4>7. result[c] # "ok"
        BY <1>0 DEF Data, CallKnown, Running, Working
      <4> QED BY <3>2, <2>1, <3>0, <4>1, <4>2, <4>3, <4>4, <4>5, <4>6, <4>7
    <3> QED BY <3>1, <3>2
  <2> QED BY <2>3, <2>4, <2>5, <2>6 DEF Data
<1> QED BY <1>1, <1>2, <1>3, <1>4, <1>5, <1>6, <1>7, <1>8 DEF Drain

-----------------------------------------------------------------------------
(* tvdb_thread_pool_for *)

\* A step of a caller outside the job, which changes what is its own only: the rest of
\* the data invariant is about c alone.
LEMMA OutsideStep ==
  ASSUME Control, Data, NEW c \in Caller, NEW l \in {"idle", "serial", "inSerial", "submit"},
         pc[c] \notin DrainPC \cup Working, pc' = [pc EXCEPT ![c] = l], UNCHANGED job,
         \A u \in Thread \ {c} : lo'[u] = lo[u] /\ hi'[u] = hi[u] /\ user'[u] = user[u],
         \A d \in Caller \ {c} : args'[d] = args[d] /\ hits'[d] = hits[d] /\ result'[d] = result[d],
         l # "idle" <=> result'[c] = "running",
         l # "idle" => args'[c].begin < args'[c].end /\ args'[c].grain > 0,
         l \in InSerial => args'[c].begin <= lo'[c] /\ lo'[c] <= args'[c].end,
         l = "inSerial" => /\ lo'[c] < args'[c].end /\ user'[c] = c
                           /\ hi'[c] = ChunkEnd(lo'[c], args'[c].end, args'[c].grain),
         \A i \in Index :
           /\ l = "submit" => hits'[c][i] = 0
           /\ l \in InSerial =>
                hits'[c][i] = IF args'[c].begin <= i /\ i < lo'[c] THEN 1 ELSE 0
           /\ result'[c] = "ok" =>
                hits'[c][i] = IF args'[c].begin <= i /\ i < args'[c].end THEN 1 ELSE 0
  PROVE  Data'
<1>t. PcType
  BY DEF Control, TypeOK
<1> USE <1>t DEF PcType
<1>1. \A u \in Thread : Claimed(u)' = Claimed(u) /\ (Claimed(u) => u # c)
  BY DEF Claimed
<1>2. pc'[c] = l /\ l \notin Working /\ \A u \in Thread \ {c} : pc'[u] = pc[u]
  BY DEF Working
<1>3. CallKnown'
  BY <1>2 DEF Data, CallKnown, Running
<1>4. SlotKnown'
  BY <1>2 DEF Data, SlotKnown
<1>5. SerialKnown'
  <2> SUFFICES ASSUME NEW d \in Caller
               PROVE  /\ pc'[d] \in InSerial => args'[d].begin <= lo'[d] /\ lo'[d] <= args'[d].end
                      /\ pc'[d] = "inSerial" =>
                           /\ lo'[d] < args'[d].end /\ user'[d] = d
                           /\ hi'[d] = ChunkEnd(lo'[d], args'[d].end, args'[d].grain)
    BY DEF SerialKnown, ChunkEnd
  <2>1. CASE d = c
    BY <2>1, <1>2
  <2>2. CASE d # c
    BY <2>2, <1>2 DEF Data, SerialKnown
  <2> QED BY <2>1, <2>2
<1>6. ChunkKnown'
  BY <1>1, <1>2 DEF Data, ChunkKnown, ChunkEnd
<1>7. ClaimsDisjoint'
  BY <1>1 DEF Data, ClaimsDisjoint
<1>8. HitsKnown'
  <2>1. \A i \in Index : Completed(i)' = Completed(i)
    BY <1>1 DEF Completed
  <2> QED BY <1>2, <2>1 DEF Data, HitsKnown, InSerial, Unclaimed
<1> QED BY <1>3, <1>4, <1>5, <1>6, <1>7, <1>8 DEF Data

\* Nobody is inside drain_job while its caller is not and its workers are not.
LEMMA NobodyDrains ==
  ASSUME Control, NEW c \in Caller, pc[c] \in HoldsSubmit \ DrainPC,
         \A w \in Worker : pc[w] \notin DrainPC
  PROVE  \A t \in Thread : pc[t] \notin DrainPC
  BY OneCurrent DEF HoldsSubmit, Working

\* The ways a call starts.
LEMMA StartData ==
  ASSUME Control, Data, NEW c \in Caller, NEW r \in Ranges,
         CallRefused(c, r) \/ CallEmpty(c, r) \/ CallSerial(c, r) \/ CallParallel(c, r)
  PROVE  Data'
<1>t. PcType /\ CallType /\ RunType /\ c \in Thread
  BY DEF Control, TypeOK
<1>r. r.begin \in Nat /\ r.end \in Nat /\ r.grain \in Nat
  BY RangeAssumption
<1>1. /\ pc[c] = "idle" /\ args' = [args EXCEPT ![c] = r] /\ hits' = [hits EXCEPT ![c] = NoHits]
      /\ job' = job /\ hi' = hi /\ user' = user
  BY DEF CallRefused, CallEmpty, CallSerial, CallParallel, Begin
<1>2. /\ pc[c] \notin DrainPC \cup Working /\ args'[c] = r /\ \A i \in Index : hits'[c][i] = 0
      /\ \A d \in Caller \ {c} : args'[d] = args[d] /\ hits'[d] = hits[d]
  BY <1>t, <1>1 DEF CallType, NoHits, Working
<1>3. CASE CallRefused(c, r)
  <2>1. /\ pc' = [pc EXCEPT ![c] = "idle"] /\ lo' = lo /\ result'[c] = "invalid"
        /\ \A d \in Caller \ {c} : result'[d] = result[d]
    BY <1>3, <1>t, <1>1 DEF CallRefused, PcType, CallType
  <2> QED BY <1>1, <1>2, <2>1, OutsideStep DEF InSerial
<1>4. CASE CallEmpty(c, r)
  <2>1. /\ pc' = [pc EXCEPT ![c] = "idle"] /\ lo' = lo /\ result'[c] = "ok"
        /\ \A d \in Caller \ {c} : result'[d] = result[d]
    BY <1>4, <1>t, <1>1 DEF CallEmpty, PcType, CallType
  <2>2. \A i \in Index :
          hits'[c][i] = IF args'[c].begin <= i /\ i < args'[c].end THEN 1 ELSE 0
    <3>1. r.begin = r.end
      BY <1>4 DEF CallEmpty
    <3>2. \A i \in Index : i \in Nat /\ ~ (r.begin <= i /\ i < r.end)
      BY <1>r, <3>1, RangeAssumption
    <3> QED BY <1>2, <3>2
  <2>3. "idle" \notin InSerial
    BY DEF InSerial
  <2> QED BY <1>1, <1>2, <2>1, <2>2, <2>3, OutsideStep
<1>5. CASE CallSerial(c, r)
  <2>1. /\ pc' = [pc EXCEPT ![c] = "serial"] /\ result'[c] = "running" /\ lo'[c] = r.begin
        /\ \A d \in Caller \ {c} : result'[d] = result[d]
        /\ \A u \in Thread \ {c} : lo'[u] = lo[u]
        /\ r.begin < r.end /\ r.grain > 0 /\ r.begin <= r.end
    BY <1>5, <1>t, <1>1, <1>r DEF CallSerial, PcType, CallType, RunType
  <2>2. \A i \in Index :
          hits'[c][i] = IF args'[c].begin <= i /\ i < lo'[c] THEN 1 ELSE 0
    <3>1. \A i \in Index : i \in Nat /\ ~ (r.begin <= i /\ i < r.begin)
      BY <1>r, RangeAssumption
    <3> QED BY <1>2, <2>1, <3>1
  <2>3. args'[c].begin <= lo'[c] /\ lo'[c] <= args'[c].end
    BY <1>2, <1>r, <2>1
  <2>4. args'[c].begin < args'[c].end /\ args'[c].grain > 0
    BY <1>2, <2>1
  <2> QED BY ZenonT(90), <1>1, <1>2, <2>1, <2>2, <2>3, <2>4, OutsideStep
<1>6. CASE CallParallel(c, r)
  <2>1. /\ pc' = [pc EXCEPT ![c] = "submit"] /\ result'[c] = "running" /\ lo' = lo
        /\ \A d \in Caller \ {c} : result'[d] = result[d]
        /\ r.begin < r.end /\ r.grain > 0
    BY <1>6, <1>t, <1>1, <1>r DEF CallParallel, PcType, CallType
  <2> QED BY <1>1, <1>2, <2>1, OutsideStep DEF InSerial
<1> QED BY <1>3, <1>4, <1>5, <1>6

\* The serial calls, the publication of a job and its end.
LEMMA CallerData ==
  ASSUME Control, Control', Data, NEW c \in Caller, CallerStep(c)
  PROVE  Data'
<1>t. PcType /\ CallType /\ RunType /\ WorkType /\ c \in Thread
  BY DEF Control, TypeOK
<1>1. CASE SerialChunk(c)
  <2>1. /\ pc[c] = "serial" /\ pc' = [pc EXCEPT ![c] = "inSerial"] /\ lo[c] < args[c].end
        /\ hi'[c] = ChunkEnd(lo[c], args[c].end, args[c].grain) /\ user'[c] = c
        /\ \A u \in Thread \ {c} : hi'[u] = hi[u] /\ user'[u] = user[u]
        /\ UNCHANGED <<job, lo, args, hits, result>>
    BY <1>1, <1>t DEF SerialChunk, RunType
  <2>2. /\ args[c].begin < args[c].end /\ args[c].grain > 0 /\ result[c] = "running"
        /\ args[c].begin <= lo[c] /\ lo[c] <= args[c].end
        /\ \A i \in Index : hits[c][i] = IF args[c].begin <= i /\ i < lo[c] THEN 1 ELSE 0
    BY <2>1 DEF Data, CallKnown, Running, SerialKnown, HitsKnown, InSerial
  <2>3. pc[c] \notin DrainPC \cup Working
    BY <2>1 DEF Working
  <2> QED BY <2>1, <2>2, <2>3, OutsideStep
<1>2. CASE SerialNext(c)
  <2>1. /\ pc[c] = "inSerial" /\ pc' = [pc EXCEPT ![c] = "serial"] /\ lo'[c] = hi[c]
        /\ \A u \in Thread \ {c} : lo'[u] = lo[u] /\ hi'[u] = hi[u] /\ user'[u] = user[u]
        /\ UNCHANGED <<job, args, result>>
        /\ \A d \in Caller \ {c} : hits'[d] = hits[d]
        /\ \A i \in Index :
             hits'[c][i] = IF lo[c] <= i /\ i < hi[c] THEN hits[c][i] + 1 ELSE hits[c][i]
    BY <1>2, <1>t DEF SerialNext, Cover, RunType, CallType
  <2>2. /\ args[c].begin < args[c].end /\ args[c].grain > 0 /\ result[c] = "running"
        /\ args[c].begin <= lo[c] /\ lo[c] < args[c].end
        /\ hi[c] = ChunkEnd(lo[c], args[c].end, args[c].grain)
        /\ \A i \in Index : hits[c][i] = IF args[c].begin <= i /\ i < lo[c] THEN 1 ELSE 0
    BY <2>1 DEF Data, CallKnown, Running, SerialKnown, HitsKnown, InSerial
  <2>3. /\ lo[c] \in Nat /\ hi[c] \in Nat /\ args[c].begin \in Nat /\ args[c].end \in Nat
        /\ args[c].grain \in Nat
    BY <1>t DEF RunType, CallType
  <2>4. lo[c] < hi[c] /\ hi[c] <= args[c].end
    <3>1. /\ lo[c] < args[c].end /\ args[c].grain > 0
          /\ hi[c] = ChunkEnd(lo[c], args[c].end, args[c].grain)
      BY <2>2
    <3> QED BY ONLY <2>3, <3>1 DEF ChunkEnd
  <2>5. \A i \in Index : hits'[c][i] = IF args[c].begin <= i /\ i < hi[c] THEN 1 ELSE 0
    <3> SUFFICES ASSUME NEW i \in Index
                 PROVE  hits'[c][i] = IF args[c].begin <= i /\ i < hi[c] THEN 1 ELSE 0
      OBVIOUS
    <3>1. i \in Nat
      BY RangeAssumption
    <3>2. hits[c][i] = IF args[c].begin <= i /\ i < lo[c] THEN 1 ELSE 0
      BY <2>2
    <3>3. hits'[c][i] = IF lo[c] <= i /\ i < hi[c] THEN hits[c][i] + 1 ELSE hits[c][i]
      BY <2>1
    <3>4. CASE lo[c] <= i /\ i < hi[c]
      BY <3>1, <3>2, <3>3, <3>4, <2>2, <2>3
    <3>5. CASE ~ (lo[c] <= i /\ i < hi[c])
      BY <3>1, <3>2, <3>3, <3>5, <2>2, <2>3, <2>4
    <3> QED BY <3>4, <3>5
  <2>6. pc[c] \notin DrainPC \cup Working
    BY <2>1 DEF Working
  <2>7. args[c].begin <= hi[c]
    BY <2>2, <2>3, <2>4
  <2> QED BY ZenonT(90), <2>1, <2>2, <2>4, <2>5, <2>6, <2>7, OutsideStep
<1>3. CASE SerialReturn(c)
  <2>1. /\ pc[c] = "serial" /\ pc' = [pc EXCEPT ![c] = "idle"] /\ lo[c] >= args[c].end
        /\ \A u \in Thread \ {c} : lo'[u] = lo[u]
        /\ result'[c] = "ok" /\ \A d \in Caller \ {c} : result'[d] = result[d]
        /\ UNCHANGED <<job, hi, user, args, hits>>
    BY <1>3, <1>t DEF SerialReturn, RunType, CallType
  <2>2. /\ lo[c] <= args[c].end
        /\ \A i \in Index : hits[c][i] = IF args[c].begin <= i /\ i < lo[c] THEN 1 ELSE 0
    BY <2>1 DEF Data, SerialKnown, HitsKnown, InSerial
  <2>3. lo[c] = args[c].end
    BY <1>t, <2>1, <2>2 DEF RunType, CallType
  <2>4. pc[c] \notin DrainPC \cup Working /\ "idle" \notin InSerial
    BY <2>1 DEF Working, InSerial
  <2> QED BY <2>1, <2>2, <2>3, <2>4, OutsideStep
<1>4. CASE LockSlot(c) \/ LockFinish(c) \/ WaitDone(c)
  <2>1. PICK l \in {"fill", "settle", "done"} :
          /\ pc' = [pc EXCEPT ![c] = l]
          /\ \/ pc[c] \in {"lockSlot"} /\ l = "fill"
             \/ pc[c] \in {"finish", "settle"} /\ l \in {"settle", "done"}
    BY <1>4 DEF LockSlot, LockFinish, WaitDone
  <2>2. \A u \in Thread : pc'[u] = pc[u] \/ \E A \in Alike : pc[u] \in A /\ pc'[u] \in A
    BY <1>t, <2>1 DEF Alike, PcType
  <2>3. UNCHANGED <<job, lo, hi, user, args, hits, result>>
    BY <1>4 DEF LockSlot, LockFinish, WaitDone
  <2> QED BY <2>2, <2>3, QuietStep DEF Control
<1>5. CASE FillCursor(c)
  <2>1. /\ pc[c] = "fill" /\ pc' = [pc EXCEPT ![c] = "publish"] /\ job'.next = args[c].begin
        /\ UNCHANGED <<lo, hi, user, args, hits, result>>
    BY <1>5, <1>t DEF FillCursor, WorkType
  <2>2. \A t \in Thread : pc[t] \notin DrainPC /\ pc'[t] \notin DrainPC /\ ~ Claimed(t)'
    BY <2>1, <1>t, FillsAlone DEF SlotQuietWhenFilled, PcType, Claimed
  <2>3. \A d \in Caller : pc[d] \notin Working /\ pc'[d] \notin Working
    BY <2>1, <1>t, OneCurrent DEF HoldsSubmit, Working, PcType
  <2>4. \A d \in Caller \ {c} : pc'[d] = pc[d]
    BY <2>1, <1>t DEF PcType
  <2>5. pc'[c] = "publish"
    BY <2>1, <1>t DEF PcType
  <2>6. CallKnown' /\ SerialKnown'
    BY <2>1, <2>4, <2>5 DEF Data, CallKnown, Running, SerialKnown, InSerial, ChunkEnd
  <2>7. SlotKnown'
    <3>1. \A d \in Caller : pc'[d] = "publish" => d = c
      BY <2>1, <2>4, OneCurrent DEF HoldsSubmit
    <3> QED BY <2>1, <2>3, <3>1 DEF SlotKnown, Working
  <2>8. ChunkKnown' /\ ClaimsDisjoint'
    BY <2>2 DEF ChunkKnown, ClaimsDisjoint
  <2>9. HitsKnown'
    BY <2>1, <2>3, <2>4, <2>5 DEF Data, HitsKnown, InSerial, Unclaimed
  <2> QED BY <2>6, <2>7, <2>8, <2>9 DEF Data
<1>6. CASE Publish(c)
  <2>1. /\ pc[c] = "publish" /\ pc' = [WakeAll("ready", "enter") EXCEPT ![c] = "load"]
        /\ job' = [job EXCEPT !.end = args[c].end, !.grain = args[c].grain, !.user = c]
        /\ UNCHANGED <<lo, hi, user, args, hits, result>>
    BY <1>6 DEF Publish
  <2>2. /\ job'.next = args[c].begin /\ job'.end = args[c].end /\ job'.grain = args[c].grain
        /\ job'.user = c
    BY <2>1, <1>t DEF Data, SlotKnown, WorkType
  <2>3. pc'[c] = "load" /\ \A d \in Caller \ {c} : pc'[d] = pc[d]
    BY <2>1, <1>t DEF WakeAll, PcType
  <2>4. \A t \in Thread : ~ Claimed(t)' /\ pc'[t] \notin {"take", "cas", "in", "nested"}
    BY <2>1, <1>t, FillsAlone DEF SlotQuietWhenFilled, WakeAll, PcType, Claimed
  <2>5. \A d \in Caller : /\ d # c => pc'[d] \notin Working
                           /\ pc'[d] # "publish"
    BY <2>1, <2>3, OneCurrent DEF HoldsSubmit, Working
  <2>6. CallKnown' /\ SerialKnown'
    BY <2>1, <2>3 DEF Data, CallKnown, Running, SerialKnown, InSerial, ChunkEnd
  <2>7. SlotKnown'
    <3>1. args[c].begin \in Nat /\ args[c].end \in Nat /\ args[c].begin < args[c].end
      BY <1>t, <2>1 DEF Data, CallKnown, CallType
    <3> QED BY <2>1, <2>2, <2>3, <2>5, <3>1 DEF SlotKnown, Working
  <2>8. ChunkKnown' /\ ClaimsDisjoint'
    BY <2>4 DEF ChunkKnown, ClaimsDisjoint
  <2>9. HitsKnown'
    <3>1. \A i \in Index : hits[c][i] = 0 /\ ~ (args[c].begin <= i /\ Completed(i)')
      <4> SUFFICES ASSUME NEW i \in Index
                   PROVE  hits[c][i] = 0 /\ ~ (args[c].begin <= i /\ Completed(i)')
        OBVIOUS
      <4>1. i \in Nat /\ args[c].begin \in Nat
        BY <1>t, RangeAssumption DEF CallType
      <4> QED BY <2>1, <2>2, <4>1 DEF Data, HitsKnown, Unclaimed, Completed
    <3>2. result[c] = "running"
      BY <2>1 DEF Data, CallKnown, Running
    <3> QED BY <2>1, <2>3, <2>5, <3>1, <3>2 DEF Data, HitsKnown, InSerial, Unclaimed, Working
  <2> QED BY <2>6, <2>7, <2>8, <2>9 DEF Data
<1>7. CASE Settle(c)
  <2>1. /\ pc[c] = "settle" /\ pc' = [pc EXCEPT ![c] = "leave"]
        /\ UNCHANGED <<job, lo, hi, user, args, hits, result>>
    BY <1>7 DEF Settle
  <2>2. Owing = {}
    BY <1>7, NobodyOwes DEF Settle, AllArrived, Control
  <2>3. \A t \in Thread : pc[t] \notin DrainPC
    <3>1. \A w \in Worker : pc[w] \notin DrainPC
      BY <2>2 DEF Owing, Started
    <3> QED BY <2>1, <3>1, NobodyDrains DEF HoldsSubmit, Working
  <2>4. pc'[c] = "leave" /\ \A u \in Thread \ {c} : pc'[u] = pc[u]
    BY <2>1, <1>t DEF PcType
  <2>5. \A t \in Thread : ~ Claimed(t) /\ ~ Claimed(t)' /\ pc'[t] \notin DrainPC
    BY <2>3, <2>4 DEF Claimed
  <2>6. CallKnown' /\ SerialKnown' /\ SlotKnown'
    BY <2>1, <2>4 DEF Data, CallKnown, Running, SerialKnown, SlotKnown, InSerial, ChunkEnd, Working
  <2>7. ChunkKnown' /\ ClaimsDisjoint'
    BY <2>5 DEF ChunkKnown, ClaimsDisjoint
  <2>8. HitsKnown'
    <3>1. job.next = args[c].end
      BY <2>1 DEF Data, SlotKnown, Working
    <3>2. \A i \in Index : Completed(i) <=> i < args[c].end
      BY <2>5, <3>1 DEF Completed
    <3>3. \A i \in Index :
            hits[c][i] = IF args[c].begin <= i /\ i < args[c].end THEN 1 ELSE 0
      BY <2>1, <3>2 DEF Data, HitsKnown, Working
    <3>4. \A d \in Caller \ {c} : pc[d] \notin Working
      BY <2>1, OneCurrent DEF HoldsSubmit, Working
    <3>5. pc'[c] \notin Unclaimed \cup InSerial \cup Working
      BY <2>4 DEF Unclaimed, InSerial, Working
    <3> QED BY <2>1, <2>4, <3>3, <3>4, <3>5 DEF Data, HitsKnown
  <2> QED BY <2>6, <2>7, <2>8 DEF Data
<1>8. CASE UnlockSubmit(c)
  <2>1. /\ pc[c] = "leave" /\ pc' = [pc EXCEPT ![c] = "idle"]
        /\ result'[c] = "ok" /\ \A d \in Caller \ {c} : result'[d] = result[d]
        /\ UNCHANGED <<job, lo, hi, user, args, hits>>
    BY <1>8, <1>t DEF UnlockSubmit, CallType
  <2>2. \A i \in Index : hits[c][i] = IF args[c].begin <= i /\ i < args[c].end THEN 1 ELSE 0
    BY <2>1 DEF Data, HitsKnown
  <2>3. pc[c] \notin DrainPC \cup Working /\ "idle" \notin InSerial
    BY <2>1 DEF Working, InSerial
  <2> QED BY <2>1, <2>2, <2>3, OutsideStep
<1> QED BY <1>1, <1>2, <1>3, <1>4, <1>5, <1>6, <1>7, <1>8 DEF CallerStep
-----------------------------------------------------------------------------
(* Everything else moves threads among places that are alike, and no more. *)

\* Create, destroy, worker_loop, the submit lock and the wakeups without a broadcast.
LEMMA OtherData ==
  ASSUME Control, Control', Data,
         \/ Create \/ Destroy \/ Rest \/ UNCHANGED vars
         \/ \E t \in Thread : LockSubmit(t) \/ SpuriousWake(t)
         \/ \E w \in Worker : WorkerStep(w)
  PROVE  Data'
<1>t. PcType /\ TypeOK /\ TypeOK'
  BY DEF Control, TypeOK
<1> DEFINE Moves == \A t \in Thread : \/ pc'[t] = pc[t]
                                        \/ \E A \in Alike : pc[t] \in A /\ pc'[t] \in A
           Still == UNCHANGED <<job, lo, hi, user, args, hits, result>>
<1>1. CASE Create
  <2>1. CASE Spawn
    <3>1. Still
      BY <2>1 DEF Spawn
    <3>2. \A t \in Thread : \/ pc'[t] = pc[t]
                            \/ t = created + 1 /\ pc'[t] = "enter"
      <4>1. pc' = pc \/ pc' = [pc EXCEPT ![created + 1] = "enter"]
        BY <2>1 DEF Spawn
      <4>2. pc \in [Thread -> PC]
        BY <1>t DEF PcType
      <4> HIDE DEF Thread, PC
      <4> QED BY <4>1, <4>2
    <3>3. created < size - 1 /\ created \in Nat
      BY <2>1, <1>t DEF Spawn, TypeOK, CtlType
    <3>4. \A t \in Thread : t = created + 1 => pc[t] = "none"
      BY <3>3, <1>t DEF Control, WorkersKnown, TypeOK, CtlType
    <3>5. Moves
      BY <3>2, <3>4 DEF Alike
    <3> QED BY <3>1, <3>5, <1>t, QuietStep
  <2>2. CASE ~ Spawn
    <3>1. Moves /\ Still
      BY <1>1, <2>2 DEF Create, Allocate, InitPrimitive, AllocHandles, HandOut
    <3> QED BY <3>1, <1>t, QuietStep
  <2> QED BY <2>1, <2>2
<1>2. CASE Destroy
  <2>1. Still
    BY <1>2 DEF Destroy, BeginDestroy, SkipStop, LockStop, Stop, Join, Release
  <2>2. \A t \in Thread : pc'[t] = pc[t] \/ (pc[t] = "ready" /\ pc'[t] = "enter")
    BY <1>2 DEF Destroy, BeginDestroy, SkipStop, LockStop, Stop, Join, Release, WakeAll
  <2>3. Moves
    BY <2>2 DEF Alike
  <2> QED BY <2>1, <2>3, <1>t, QuietStep
<1>3. CASE Rest \/ UNCHANGED vars
  <2>1. Moves /\ Still
    BY <1>3 DEF Rest, vars
  <2> QED BY <2>1, <1>t, QuietStep
<1>4. CASE \E t \in Thread : LockSubmit(t) \/ SpuriousWake(t)
  <2>1. Still
    BY <1>4 DEF LockSubmit, SpuriousWake
  <2>2. \A t \in Thread : \/ pc'[t] = pc[t]
                          \/ pc[t] = "submit" /\ pc'[t] = "lockSlot"
                          \/ pc[t] = "ready" /\ pc'[t] = "enter"
                          \/ pc[t] = "done" /\ pc'[t] = "finish"
    BY <1>4, <1>t DEF LockSubmit, SpuriousWake, PcType
  <2>3. Moves
    BY <2>2 DEF Alike
  <2> QED BY <2>1, <2>3, <1>t, QuietStep
<1>5. CASE \E w \in Worker : WorkerStep(w)
  <2>1. PICK w \in Worker : WorkerStep(w)
    BY <1>5
  <2>2. Still
    BY <2>1 DEF WorkerStep, WorkerLock, WorkerWait, WorkerExit, WorkerTake, Arrive, Finished
  <2>3. \A t \in Thread : \/ pc'[t] = pc[t]
                          \/ /\ pc[t] \in WorkerPC \cup {"load"}
                             /\ pc'[t] \in WorkerPC \cup {"load"}
                          \/ pc[t] = "done" /\ pc'[t] = "finish"
    <3>1. CASE Finished(w)
      BY <3>1, <1>t DEF Finished, WakeAll, PcType
    <3>2. CASE ~ Finished(w)
      BY <2>1, <3>2, <1>t DEF WorkerStep, WorkerLock, WorkerWait, WorkerExit, WorkerTake, Arrive,
        PcType
    <3> QED BY <3>1, <3>2
  <2>4. Moves
    BY <2>3 DEF Alike
  <2> QED BY <2>2, <2>4, <1>t, QuietStep
<1> QED BY <1>1, <1>2, <1>3, <1>4, <1>5

-----------------------------------------------------------------------------
(* The theorems *)

LEMMA InitData == Init => Data
<1> SUFFICES ASSUME Init PROVE Data
  OBVIOUS
<1>1. \A c \in Caller : pc[c] = "idle" /\ result[c] = "none"
  BY DEF Init
<1>2. \A t \in Thread : pc[t] \in {"idle", "none"}
  BY DEF Init
<1>3. CallKnown /\ SlotKnown /\ SerialKnown
  BY <1>1 DEF CallKnown, Running, SlotKnown, SerialKnown, InSerial, Working
<1>4. ChunkKnown /\ ClaimsDisjoint
  BY <1>2 DEF ChunkKnown, ClaimsDisjoint, Claimed
<1>5. HitsKnown
  BY <1>1 DEF HitsKnown, InSerial, Working, Unclaimed
<1> QED BY <1>3, <1>4, <1>5 DEF Data

LEMMA NextData == Control /\ Control' /\ Data /\ [Next]_vars => Data'
<1> SUFFICES ASSUME Control, Control', Data, [Next]_vars PROVE Data'
  OBVIOUS
<1>1. CASE \E t \in Thread : Drain(t)
  BY <1>1, DrainData
<1>2. CASE \E c \in Caller : Call(c) \/ CallerStep(c)
  BY <1>2, StartData, CallerData DEF Call
<1>3. CASE \/ Create \/ Destroy \/ Rest \/ UNCHANGED vars
           \/ \E t \in Thread : LockSubmit(t) \/ SpuriousWake(t)
           \/ \E w \in Worker : WorkerStep(w)
  BY <1>3, OtherData
<1> QED BY <1>1, <1>2, <1>3 DEF Next

\* The data invariant holds throughout: the slot holds the current call, claimed chunks
\* lie behind the cursor and apart, and a call has covered what lies behind the cursor
\* less the chunks in progress.
THEOREM DataHolds == Spec => []Data
<1>1. Init => Control /\ Data
  BY InitControl, InitData
<1>2. Control /\ Data /\ [Next]_vars => Control' /\ Data'
  BY NextControl, NextData
<1> QED BY <1>1, <1>2, PTL DEF Spec

\* Each index of the range of a call that returned is covered exactly once, and no
\* index outside it.
THEOREM CoveredOnce == Spec => []CoveredExactlyOnce
<1>1. Control /\ Data => CoveredExactlyOnce
  <2> SUFFICES ASSUME Control, Data, NEW c \in Caller, result[c] = "ok"
               PROVE  hits[c] = [i \in Index |-> IF i \in Covers(args[c]) THEN 1 ELSE 0]
    BY DEF CoveredExactlyOnce
  <2>1. hits[c] \in [Index -> Nat] /\ args[c].begin \in Nat /\ args[c].end \in Nat
    BY DEF Control, TypeOK, CallType
  <2>2. ASSUME NEW i \in Index
        PROVE  hits[c][i] = IF i \in Covers(args[c]) THEN 1 ELSE 0
    <3>1. i \in Nat
      BY RangeAssumption
    <3>2. hits[c][i] = IF args[c].begin <= i /\ i < args[c].end THEN 1 ELSE 0
      BY DEF Data, HitsKnown
    <3>3. i \in Covers(args[c]) <=> args[c].begin <= i /\ i < args[c].end
      BY <2>1, <3>1 DEF Covers
    <3> QED BY <3>2, <3>3
  <2> QED BY <2>1, <2>2
<1> QED BY <1>1, ControlHolds, DataHolds, PTL

\* Two callbacks in progress for one call share no index and keep to its grain.
THEOREM DisjointChunks == Spec => []ChunksDisjoint
<1>1. Control /\ Data => ChunksDisjoint
  <2> SUFFICES ASSUME Control, Data, NEW t \in InCallback
               PROVE  /\ hi[t] - lo[t] <= args[user[t]].grain
                      /\ \A u \in InCallback \ {t} : user[u] = user[t] => Chunk(t) \cap Chunk(u) = {}
    BY DEF ChunksDisjoint
  <2>t. PcType /\ lo \in [Thread -> Nat] /\ hi \in [Thread -> Nat]
    BY DEF Control, TypeOK, RunType
  <2>1. ASSUME NEW u \in InCallback, pc[u] # "inSerial"
        PROVE  /\ Claimed(u) /\ user[u] \in Caller /\ pc[user[u]] \in Working
               /\ hi[u] - lo[u] <= args[user[u]].grain
    <3>1. u \in Thread /\ pc[u] \in {"in", "nested"}
      BY <2>1 DEF InCallback
    <3>2. PICK c \in Caller : pc[c] \in Working
      BY <3>1, DrainersServe
    <3>3. job.user = c /\ job.grain = args[c].grain
      BY <3>2 DEF Data, SlotKnown
    <3>4. Claimed(u)
      BY <3>1 DEF Claimed
    <3>5. user[u] = job.user /\ hi[u] - lo[u] <= job.grain
      BY <3>1, <3>4 DEF Data, ChunkKnown
    <3> QED BY <3>2, <3>3, <3>4, <3>5
  <2>2. ASSUME NEW u \in InCallback, pc[u] = "inSerial"
        PROVE  u \in Caller /\ user[u] = u /\ hi[u] - lo[u] <= args[user[u]].grain
    <3>1. u \in Caller
      BY <2>2, <2>t DEF InCallback, PcType
    <3>2. user[u] = u /\ lo[u] < args[u].end /\ hi[u] = ChunkEnd(lo[u], args[u].end, args[u].grain)
      BY <2>2, <3>1 DEF Data, SerialKnown
    <3>3. /\ args[u].grain > 0 /\ lo[u] \in Nat /\ hi[u] \in Nat /\ args[u].end \in Nat
          /\ args[u].grain \in Nat
      BY <2>2, <2>t, <3>1 DEF Data, CallKnown, Control, TypeOK, CallType
    <3>4. hi[u] - lo[u] <= args[u].grain
      BY ONLY <3>2, <3>3, ChunkEndBounds
    <3> QED BY <3>1, <3>2, <3>4
  <2>3. hi[t] - lo[t] <= args[user[t]].grain
    BY <2>1, <2>2
  <2>4. ASSUME NEW u \in InCallback \ {t}, user[u] = user[t]
        PROVE  Chunk(t) \cap Chunk(u) = {}
    <3>1. pc[t] # "inSerial" /\ pc[u] # "inSerial"
      BY <2>1, <2>2, <2>4 DEF Working
    <3>2. t \in Thread /\ u \in Thread /\ Claimed(t) /\ Claimed(u)
      BY <2>1, <3>1 DEF InCallback
    <3>3. hi[t] <= lo[u] \/ hi[u] <= lo[t]
      BY <2>4, <3>2 DEF Data, ClaimsDisjoint
    <3>4. lo[t] \in Nat /\ hi[t] \in Nat /\ lo[u] \in Nat /\ hi[u] \in Nat
      BY <2>t, <3>2
    <3> QED BY <3>3, <3>4 DEF Chunk
  <2> QED BY <2>3, <2>4
<1> QED BY <1>1, ControlHolds, DataHolds, PTL

\* A callback runs only while the call it was started for is in progress.
THEOREM ReturnsLast == Spec => []NoCallbackAfterReturn
<1>1. Control /\ Data => NoCallbackAfterReturn
  <2> SUFFICES ASSUME Control, Data, NEW t \in InCallback
               PROVE  Running(user[t])
    BY DEF NoCallbackAfterReturn
  <2>1. CASE pc[t] = "inSerial"
    <3>1. t \in Caller
      BY <2>1 DEF InCallback, Control, TypeOK, PcType
    <3> QED BY <2>1, <3>1 DEF Data, SerialKnown, CallKnown
  <2>2. CASE pc[t] # "inSerial"
    <3>1. t \in Thread /\ pc[t] \in {"in", "nested"}
      BY <2>2 DEF InCallback
    <3>2. PICK c \in Caller : pc[c] \in Working
      BY <3>1, DrainersServe
    <3>3. user[t] = c
      BY <3>1, <3>2 DEF Data, SlotKnown, ChunkKnown
    <3> QED BY <3>2, <3>3 DEF Data, CallKnown, Working
  <2> QED BY <2>1, <2>2
<1> QED BY <1>1, ControlHolds, DataHolds, PTL

-----------------------------------------------------------------------------
(* What the refinement mapping shows, told by where the caller is. *)

\* The chunks that threads have claimed and not completed.
Chunks == {<<lo[t], hi[t]>> : t \in {u \in Thread : Claimed(u)}}

View(c) ==
  /\ pc[c] \in {"idle", "leave"} => Todo[c] = {} /\ Active[c] = {}
  /\ pc[c] \in Unclaimed => Todo[c] = Covers(args[c]) /\ Active[c] = {}
  /\ pc[c] \in Working => Todo[c] = job.next .. (job.end - 1) /\ Active[c] = Chunks
  /\ pc[c] = "serial" => Todo[c] = lo[c] .. (args[c].end - 1) /\ Active[c] = {}
  /\ pc[c] = "inSerial" => Todo[c] = hi[c] .. (args[c].end - 1) /\ Active[c] = {<<lo[c], hi[c]>>}

Views == \A c \in Caller : View(c)

\* A callback serves the call of the caller that is in the job, or its own.
LEMMA ServesIs ==
  ASSUME Control, Data, NEW t \in Thread, NEW c \in Caller
  PROVE  Serves(t, c) <=> \/ Claimed(t) /\ pc[c] \in Working
                          \/ t = c /\ pc[c] = "inSerial"
<1>t. PcType
  BY DEF Control, TypeOK
<1>1. CASE Claimed(t)
  <2>1. pc[t] \in {"call", "in", "nested"}
    BY <1>1 DEF Claimed
  <2>2. PICK d \in Caller : pc[d] \in Working
    BY <2>1, DrainersServe
  <2>3. job.user = d
    BY <2>2 DEF Data, SlotKnown
  <2>4. pc[t] \in {"in", "nested"} => user[t] = d
    BY <2>3 DEF Data, ChunkKnown
  <2>5. pc[c] \in Working <=> c = d
    BY <2>2, OneCurrent DEF HoldsSubmit
  <2>6. ~ (t = c /\ pc[c] = "inSerial")
    BY <2>1
  <2>7. Serves(t, c) <=> c = d
    BY <2>1, <2>3, <2>4 DEF Serves, InCallback
  <2> QED BY <1>1, <2>5, <2>6, <2>7
<1>2. CASE pc[t] = "inSerial"
  <2>1. t \in Caller
    BY <1>2, <1>t DEF PcType
  <2>2. user[t] = t
    BY <1>2, <2>1 DEF Data, SerialKnown
  <2> QED BY <1>2, <2>2 DEF Serves, InCallback, Claimed
<1>3. CASE ~ Claimed(t) /\ pc[t] # "inSerial"
  BY <1>3 DEF Serves, InCallback, Claimed
<1> QED BY <1>1, <1>2, <1>3

LEMMA ViewsHold == Control /\ Data => Views
<1> SUFFICES ASSUME Control, Data, NEW c \in Caller PROVE View(c)
  BY DEF Views
<1>1. Active[c] = {<<lo[t], hi[t]>> : t \in {u \in Thread : Serves(u, c)}}
  BY DEF Active
<1>2. pc[c] \in Working => Active[c] = Chunks
  <2> SUFFICES ASSUME pc[c] \in Working PROVE Active[c] = Chunks
    OBVIOUS
  <2>1. \A t \in Thread : Serves(t, c) <=> Claimed(t)
    BY ServesIs DEF Working
  <2> QED BY <1>1, <2>1 DEF Chunks
<1>3. pc[c] = "inSerial" => Active[c] = {<<lo[c], hi[c]>>}
  <2> SUFFICES ASSUME pc[c] = "inSerial" PROVE Active[c] = {<<lo[c], hi[c]>>}
    OBVIOUS
  <2>1. \A t \in Thread : Serves(t, c) <=> t = c
    BY ServesIs DEF Working
  <2>2. {u \in Thread : Serves(u, c)} = {c}
    BY <2>1
  <2> QED BY <1>1, <2>2
<1>4. pc[c] \notin Working \cup {"inSerial"} => Active[c] = {}
  <2> SUFFICES ASSUME pc[c] \notin Working \cup {"inSerial"} PROVE Active[c] = {}
    OBVIOUS
  <2>1. \A t \in Thread : ~ Serves(t, c)
    BY ServesIs
  <2> QED BY <1>1, <2>1
<1>5. /\ pc[c] \in {"idle", "leave"} => Todo[c] = {}
      /\ pc[c] \in Unclaimed => Todo[c] = Covers(args[c])
      /\ pc[c] \in Working => Todo[c] = job.next .. (job.end - 1)
      /\ pc[c] = "serial" => Todo[c] = lo[c] .. (args[c].end - 1)
      /\ pc[c] = "inSerial" => Todo[c] = hi[c] .. (args[c].end - 1)
  BY DEF Todo, InJob, Unclaimed, Working
<1> QED BY <1>2, <1>3, <1>4, <1>5 DEF View, Unclaimed, Working

LEMMA ViewsNext == Control' /\ Data' => Views'
  BY ViewsHold, PTL

-----------------------------------------------------------------------------
(* Steps that the contract does not see. *)

\* The contract sees no step that leaves every caller's view as it was.
LEMMA Unseen ==
  ASSUME UNCHANGED <<args, result>>,
         \A c \in Caller : Todo'[c] = Todo[c] /\ Active'[c] = Active[c]
  PROVE  UNCHANGED Promise!vars
<1>1. Todo' = Todo
  BY DEF Todo
<1>2. Active' = Active
  BY DEF Active
<1> QED BY <1>1, <1>2 DEF Promise!vars

\* Chunks stay while the threads that claimed them do.
LEMMA SameChunks ==
  ASSUME \A t \in Thread : /\ Claimed(t)' = Claimed(t)
                           /\ Claimed(t) => lo'[t] = lo[t] /\ hi'[t] = hi[t]
  PROVE  Chunks' = Chunks
  BY DEF Chunks

\* Places outside the callbacks: a caller at one of them has the whole slot to do.
Plain == WorkerPC \cup {"load", "take", "cas", "finish", "settle", "done"}

\* A step that moves threads among places that look alike changes nobody's view.
LEMMA UnseenMoves ==
  ASSUME Control, Control', Data, Data',
         UNCHANGED <<job, args, result>>,
         \A t \in Thread :
           \/ pc'[t] = pc[t] /\ lo'[t] = lo[t] /\ hi'[t] = hi[t]
           \/ pc[t] \in Plain /\ pc'[t] \in Plain
           \/ pc[t] \in Unclaimed /\ pc'[t] \in Unclaimed
           \/ Claimed(t) /\ Claimed(t)' /\ lo'[t] = lo[t] /\ hi'[t] = hi[t]
  PROVE  UNCHANGED Promise!vars
<1>t. PcType /\ PcType'
  BY DEF Control, TypeOK
<1>1. Views /\ Views'
  BY ViewsHold, ViewsNext
<1>2. Chunks' = Chunks
  <2>1. \A t \in Thread : /\ Claimed(t)' = Claimed(t)
                          /\ Claimed(t) => lo'[t] = lo[t] /\ hi'[t] = hi[t]
    BY DEF Plain, Unclaimed, Claimed
  <2> QED BY <2>1, SameChunks
<1>3. ASSUME NEW c \in Caller
      PROVE  Todo'[c] = Todo[c] /\ Active'[c] = Active[c]
  <2>1. View(c) /\ View(c)'
    BY <1>1 DEF Views
  <2>2. \/ pc'[c] = pc[c] /\ lo'[c] = lo[c] /\ hi'[c] = hi[c]
        \/ pc[c] \in Working /\ pc'[c] \in Working
        \/ pc[c] \in Unclaimed /\ pc'[c] \in Unclaimed
    BY <1>t DEF PcType, Plain, Unclaimed, Claimed, Working
  <2>3. pc[c] \in {"idle", "leave", "serial", "inSerial"} \cup Unclaimed \cup Working
    BY <1>t DEF PcType, Unclaimed, Working
  <2>4. CASE pc[c] \in Working /\ pc'[c] \in Working
    BY <2>1, <2>4, <1>2 DEF View
  <2>5. CASE pc[c] \in Unclaimed /\ pc'[c] \in Unclaimed
    BY <2>1, <2>5 DEF View, Covers
  <2>6. CASE pc'[c] = pc[c] /\ lo'[c] = lo[c] /\ hi'[c] = hi[c]
    BY <2>1, <2>3, <2>6, <1>2 DEF View, Covers
  <2> QED BY <2>2, <2>4, <2>5, <2>6
<1> QED BY <1>3, Unseen

-----------------------------------------------------------------------------
(* Steps of one call that the contract sees. *)

\* A step of the call of c leaves the others' views as they were.
LEMMA OthersKept ==
  ASSUME Views, Views', PcType, NEW c \in Caller,
         \A d \in Caller \ {c} :
           /\ pc'[d] = pc[d] /\ lo'[d] = lo[d] /\ hi'[d] = hi[d] /\ args'[d] = args[d]
           /\ pc[d] \in Working => Chunks' = Chunks /\ job' = job
  PROVE  \A d \in Caller \ {c} : Todo'[d] = Todo[d] /\ Active'[d] = Active[d]
<1> SUFFICES ASSUME NEW d \in Caller \ {c}
             PROVE  Todo'[d] = Todo[d] /\ Active'[d] = Active[d]
  OBVIOUS
<1>1. View(d) /\ View(d)'
  BY DEF Views
<1>2. pc[d] \in {"idle", "leave", "serial", "inSerial"} \cup Unclaimed \cup Working
  BY DEF PcType, Unclaimed, Working
<1>3. CASE pc[d] \in Working
  BY <1>1, <1>3 DEF View
<1>4. CASE pc[d] \notin Working
  BY <1>1, <1>2, <1>4 DEF View, Covers
<1> QED BY <1>3, <1>4

\* Only c's view changed.
LEMMA Changed ==
  ASSUME NEW c \in Caller,
         \A d \in Caller \ {c} : Todo'[d] = Todo[d] /\ Active'[d] = Active[d]
  PROVE  /\ Todo' = [Todo EXCEPT ![c] = Todo'[c]]
         /\ Active' = [Active EXCEPT ![c] = Active'[c]]
<1>1. Todo = [d \in Caller |-> Todo[d]] /\ Todo' = [d \in Caller |-> Todo'[d]]
  BY DEF Todo
<1>2. Active = [d \in Caller |-> Active[d]] /\ Active' = [d \in Caller |-> Active'[d]]
  BY DEF Active
<1> QED BY <1>1, <1>2

\* A thread takes a chunk of the call of c.
LEMMA TakeSeen ==
  ASSUME NEW c \in Caller, NEW b \in Nat, NEW e \in Nat, NEW m \in Nat,
         UNCHANGED <<args, result>>, args[c] \in [begin : Nat, end : Nat, grain : Nat],
         result[c] = "running", args[c].begin <= b, b < e, e <= args[c].end,
         e - b <= args[c].grain,
         Todo[c] = b .. (args[c].end - 1), Todo'[c] = e .. (args[c].end - 1),
         Active'[c] = Active[c] \cup {<<b, e>>},
         \A d \in Caller \ {c} : Todo'[d] = Todo[d] /\ Active'[d] = Active[d]
  PROVE  Promise!Take(c)
<1>1. b .. (e - 1) \subseteq Todo[c] /\ Todo'[c] = Todo[c] \ (b .. (e - 1))
  OBVIOUS
<1>2. b \in args[c].begin .. args[c].end /\ e \in args[c].begin .. args[c].end
  OBVIOUS
<1>3. /\ Todo' = [Todo EXCEPT ![c] = Todo[c] \ (b .. (e - 1))]
      /\ Active' = [Active EXCEPT ![c] = Active[c] \cup {<<b, e>>}]
  BY <1>1, Changed
<1> QED BY ONLY <1>1, <1>2, <1>3, UNCHANGED <<args, result>>, result[c] = "running", b < e,
             e - b <= args[c].grain DEF Promise!Take

\* A callback of the call of c completes.
LEMMA CompleteSeen ==
  ASSUME NEW c \in Caller, NEW k \in Active[c], UNCHANGED <<args, result>>,
         Todo'[c] = Todo[c], Active'[c] = Active[c] \ {k},
         \A d \in Caller \ {c} : Todo'[d] = Todo[d] /\ Active'[d] = Active[d]
  PROVE  Promise!Complete(c)
<1>1. Todo' = Todo
  BY DEF Todo
<1>2. Active' = [Active EXCEPT ![c] = Active[c] \ {k}]
  BY Changed
<1> QED BY <1>1, <1>2 DEF Promise!Complete

\* The call of c returns.
LEMMA ReturnSeen ==
  ASSUME NEW c \in Caller, result[c] = "running", result' = [result EXCEPT ![c] = "ok"],
         args' = args, Todo[c] = {}, Active[c] = {}, Todo'[c] = {}, Active'[c] = {},
         \A d \in Caller \ {c} : Todo'[d] = Todo[d] /\ Active'[d] = Active[d]
  PROVE  Promise!Return(c)
<1>1. Todo' = Todo /\ Active' = Active
  BY DEF Todo, Active
<1> QED BY <1>1 DEF Promise!Return

-----------------------------------------------------------------------------
(* drain_job *)

LEMMA DrainSeen ==
  ASSUME Control, Control', Data, Data', NEW t \in Thread, Drain(t)
  PROVE  Promise!Next \/ UNCHANGED Promise!vars
<1>t. PcType /\ WorkType /\ RunType /\ CallType /\ ExecutingKnown
  BY DEF Control, TypeOK
<1>v. Views /\ Views'
  BY ViewsHold, ViewsNext
<1>0. PICK c \in Caller : pc[c] \in Working
  BY DrainersServe DEF Drain, Load, TakeChunk, Drained, Claim, ClaimFails, EnterCallback,
    Reenter, NestedReturn, LeaveCallback
<1>a. \A d \in Caller \ {c} : pc[d] \notin Working
  BY <1>0, OneCurrent DEF HoldsSubmit
<1>b. job.end = args[c].end /\ job.grain = args[c].grain /\ args[c].begin <= job.next
  BY <1>0 DEF Data, SlotKnown
<1>c. result[c] = "running"
  BY <1>0 DEF Data, CallKnown, Running, Working
<1>1. CASE Load(t) \/ TakeChunk(t) \/ Drained(t) \/ ClaimFails(t)
  <2>1. UNCHANGED <<job, args, result>>
    BY <1>1 DEF Load, TakeChunk, Drained, ClaimFails
  <2>2. \A u \in Thread : \/ pc'[u] = pc[u] /\ lo'[u] = lo[u] /\ hi'[u] = hi[u]
                          \/ pc[u] \in Plain /\ pc'[u] \in Plain
    BY <1>1, <1>t DEF Load, TakeChunk, Drained, ClaimFails, Plain, PcType, RunType
  <2> QED BY <2>1, <2>2, UnseenMoves
<1>2. CASE EnterCallback(t) \/ Reenter(t) \/ NestedReturn(t)
  <2>1. UNCHANGED <<job, args, result, lo, hi>>
    BY <1>2 DEF EnterCallback, Reenter, NestedReturn
  <2>2. \A u \in Thread : pc'[u] = pc[u] \/ (Claimed(u) /\ Claimed(u)')
    <3>1. Reenter(t) => executing[t]
      BY <1>t DEF Reenter, ExecutingKnown
    <3> QED BY <1>2, <1>t, <3>1 DEF EnterCallback, Reenter, NestedReturn, Claimed, PcType
  <2> QED BY <2>1, <2>2, UnseenMoves
<1>3. CASE Claim(t)
  <2>1. /\ lo[t] = job.next /\ lo[t] < job.end /\ hi[t] = ChunkEnd(lo[t], job.end, job.grain)
        /\ lo[t] \in Nat /\ hi[t] \in Nat /\ job.end \in Nat /\ job.grain \in Nat /\ job.grain > 0
    BY <1>0, <1>3, <1>b, <1>t DEF Claim, CursorUnmoved, Data, ChunkKnown, CallKnown, RunType,
      WorkType, Working
  <2>2. lo[t] < hi[t] /\ hi[t] <= job.end /\ hi[t] - lo[t] <= job.grain
    BY ONLY <2>1 DEF ChunkEnd
  <2>3. /\ job'.next = hi[t] /\ job'.end = job.end
        /\ lo' = lo /\ hi' = hi /\ UNCHANGED <<args, result>>
        /\ pc' = [pc EXCEPT ![t] = "call"] /\ pc[t] = "cas"
    BY <1>3, <1>t DEF Claim, WorkType
  <2>4. \A u \in Thread : Claimed(u)' <=> Claimed(u) \/ u = t
    BY <2>3, <1>t DEF Claimed, PcType
  <2>5. Chunks' = Chunks \cup {<<lo[t], hi[t]>>}
    BY <2>3, <2>4 DEF Chunks
  <2>6. pc'[c] \in Working /\ \A d \in Caller \ {c} : pc'[d] = pc[d]
    BY <1>0, <1>a, <1>t, <2>3 DEF PcType, Working
  <2>7. /\ Todo[c] = lo[t] .. (args[c].end - 1) /\ Todo'[c] = hi[t] .. (args[c].end - 1)
        /\ Active'[c] = Active[c] \cup {<<lo[t], hi[t]>>}
    BY <1>0, <1>b, <1>v, <2>1, <2>3, <2>5, <2>6 DEF Views, View
  <2>8. \A d \in Caller \ {c} : Todo'[d] = Todo[d] /\ Active'[d] = Active[d]
    BY <1>a, <1>t, <1>v, <2>3, <2>6, OthersKept
  <2>9. args[c] \in [begin : Nat, end : Nat, grain : Nat]
    BY <1>t DEF CallType
  <2>10. Promise!Take(c)
    BY <1>b, <1>c, <2>1, <2>2, <2>3, <2>7, <2>8, <2>9, TakeSeen
  <2> QED BY <2>10 DEF Promise!Next
<1>4. CASE LeaveCallback(t)
  <2>1. /\ pc[t] = "in" /\ pc' = [pc EXCEPT ![t] = "load"] /\ job' = job
        /\ lo' = [lo EXCEPT ![t] = 0] /\ hi' = [hi EXCEPT ![t] = 0]
        /\ UNCHANGED <<args, result>>
    BY <1>4 DEF LeaveCallback
  <2>2. \A u \in Thread : /\ Claimed(u)' <=> Claimed(u) /\ u # t
                          /\ u # t => lo'[u] = lo[u] /\ hi'[u] = hi[u] /\ pc'[u] = pc[u]
    BY <2>1, <1>t DEF Claimed, PcType, RunType
  <2>3. Claimed(t)
    BY <2>1 DEF Claimed
  <2>4. \A u \in Thread : Claimed(u) /\ u # t => <<lo[u], hi[u]>> # <<lo[t], hi[t]>>
    <3> SUFFICES ASSUME NEW u \in Thread, Claimed(u), u # t
                 PROVE  <<lo[u], hi[u]>> # <<lo[t], hi[t]>>
      OBVIOUS
    <3>1. hi[u] <= lo[t] \/ hi[t] <= lo[u]
      BY <2>3 DEF Data, ClaimsDisjoint
    <3>2. lo[t] < hi[t]
      BY <2>3 DEF Data, ChunkKnown
    <3>3. lo[t] \in Nat /\ hi[t] \in Nat
      BY <1>t DEF RunType
    <3> QED BY <3>1, <3>2, <3>3
  <2>5. <<lo[t], hi[t]>> \in Chunks /\ Chunks' = Chunks \ {<<lo[t], hi[t]>>}
    <3>1. \A u \in Thread : Claimed(u)' => lo'[u] = lo[u] /\ hi'[u] = hi[u]
      BY <2>2
    <3> QED BY <2>2, <2>3, <2>4, <3>1 DEF Chunks
  <2>6. pc'[c] \in Working /\ \A d \in Caller \ {c} : pc'[d] = pc[d] /\ d # t
    BY <1>0, <1>a, <1>t, <2>1 DEF PcType, Working
  <2>7. Todo'[c] = Todo[c] /\ Active[c] = Chunks /\ Active'[c] = Chunks'
    BY <1>0, <1>v, <2>1, <2>6 DEF Views, View
  <2>8. \A d \in Caller \ {c} : Todo'[d] = Todo[d] /\ Active'[d] = Active[d]
    BY <1>a, <1>t, <1>v, <2>1, <2>2, <2>6, OthersKept
  <2>9. Promise!Complete(c)
    BY <2>1, <2>5, <2>7, <2>8, CompleteSeen
  <2> QED BY <2>9 DEF Promise!Next
<1> QED BY <1>1, <1>2, <1>3, <1>4 DEF Drain

-----------------------------------------------------------------------------
(* tvdb_thread_pool_for *)

\* A call starts.
LEMMA StartSeen ==
  ASSUME Control, Control', Data, Data', NEW c \in Caller, NEW r \in Ranges,
         CallRefused(c, r) \/ CallEmpty(c, r) \/ CallSerial(c, r) \/ CallParallel(c, r)
  PROVE  Promise!Start(c, r)
<1>t. PcType /\ RunType /\ CallType
  BY DEF Control, TypeOK
<1>v. Views /\ Views'
  BY ViewsHold, ViewsNext
<1>1. /\ pc[c] = "idle" /\ args' = [args EXCEPT ![c] = r] /\ job' = job /\ hi' = hi
      /\ \A d \in Caller \ {c} : args'[d] = args[d]
      /\ args'[c] = r
  BY <1>t DEF CallRefused, CallEmpty, CallSerial, CallParallel, Begin, CallType
<1>2. \A u \in Thread \ {c} : pc'[u] = pc[u] /\ lo'[u] = lo[u]
  BY <1>t DEF CallRefused, CallEmpty, CallSerial, CallParallel, PcType, RunType
<1>3. Chunks' = Chunks
  <2>1. pc'[c] \in {"idle", "serial", "submit"}
    BY <1>1, <1>t DEF CallRefused, CallEmpty, CallSerial, CallParallel, PcType
  <2>2. \A u \in Thread : /\ Claimed(u)' = Claimed(u)
                          /\ Claimed(u) => lo'[u] = lo[u] /\ hi'[u] = hi[u]
    BY <1>1, <1>2, <2>1 DEF Claimed
  <2> QED BY <2>2, SameChunks
<1>4. \A d \in Caller \ {c} : Todo'[d] = Todo[d] /\ Active'[d] = Active[d]
  BY <1>t, <1>v, <1>1, <1>2, <1>3, OthersKept
<1>5. result[c] # "running" /\ Todo[c] = {} /\ Active[c] = {}
  BY <1>v, <1>1 DEF Views, View, Data, CallKnown, Running
<1>6. r.begin \in Nat /\ r.end \in Nat /\ r.grain \in Nat
  BY RangeAssumption
<1>7. CASE CallRefused(c, r) \/ CallEmpty(c, r)
  <2>1. Todo'[c] = {} /\ Active'[c] = {}
    BY <1>7, <1>1, <1>v DEF CallRefused, CallEmpty, Views, View
  <2>2. Todo' = Todo /\ Active' = Active
    BY <1>4, <1>5, <2>1 DEF Todo, Active
  <2>3. \/ (r.grain = 0 \/ r.begin > r.end) /\ result' = [result EXCEPT ![c] = "invalid"]
        \/ /\ ~ (r.grain = 0 \/ r.begin > r.end) /\ r.begin = r.end
           /\ result' = [result EXCEPT ![c] = "ok"]
    BY <1>7, <1>6 DEF CallRefused, CallEmpty
  <2> QED BY <1>1, <1>5, <2>2, <2>3 DEF Promise!Start
<1>8. CASE CallSerial(c, r) \/ CallParallel(c, r)
  <2>1. /\ pc'[c] \in {"serial", "submit"} /\ (pc'[c] = "serial" => lo'[c] = r.begin)
        /\ result' = [result EXCEPT ![c] = "running"]
        /\ ~ (r.grain = 0 \/ r.begin > r.end) /\ r.begin # r.end
    BY <1>8, <1>t, <1>6 DEF CallSerial, CallParallel, PcType, RunType
  <2>2. Todo'[c] = r.begin .. (r.end - 1) /\ Active'[c] = {}
    BY <1>1, <1>v, <2>1 DEF Views, View, Unclaimed, Covers
  <2>3. Todo' = [Todo EXCEPT ![c] = r.begin .. (r.end - 1)] /\ Active' = Active
    <3>1. Active' = Active
      BY <1>4, <1>5, <2>2 DEF Active
    <3> QED BY <1>4, <2>2, <3>1, Changed
  <2> QED BY <1>1, <1>5, <2>1, <2>3 DEF Promise!Start
<1> QED BY <1>7, <1>8

\* The serial calls, the publication of a job and its end.
LEMMA CallerSeen ==
  ASSUME Control, Control', Data, Data', NEW c \in Caller, CallerStep(c)
  PROVE  Promise!Next \/ UNCHANGED Promise!vars
<1>t. PcType /\ WorkType /\ RunType /\ CallType /\ c \in Thread
  BY DEF Control, TypeOK
<1>v. Views /\ Views'
  BY ViewsHold, ViewsNext
<1>1. CASE SerialChunk(c) \/ SerialNext(c) \/ SerialReturn(c)
  <2>1. /\ pc[c] \in InSerial /\ job' = job /\ args' = args
        /\ \A u \in Thread \ {c} : pc'[u] = pc[u] /\ lo'[u] = lo[u] /\ hi'[u] = hi[u]
        /\ pc'[c] \in {"serial", "inSerial", "idle"}
    BY <1>1, <1>t DEF SerialChunk, SerialNext, SerialReturn, InSerial, PcType, RunType
  <2>2. \A u \in Thread : /\ Claimed(u)' = Claimed(u)
                          /\ Claimed(u) => lo'[u] = lo[u] /\ hi'[u] = hi[u]
    BY <2>1 DEF Claimed, InSerial
  <2>3. \A d \in Caller \ {c} : Todo'[d] = Todo[d] /\ Active'[d] = Active[d]
    BY <1>t, <1>v, <2>1, <2>2, SameChunks, OthersKept
  <2>4. /\ result[c] = "running" /\ args[c] \in [begin : Nat, end : Nat, grain : Nat]
        /\ args[c].grain > 0 /\ args[c].begin <= lo[c] /\ lo[c] <= args[c].end
        /\ lo[c] \in Nat /\ hi[c] \in Nat
    BY <1>t, <2>1 DEF Data, CallKnown, Running, SerialKnown, InSerial, CallType, RunType
  <2>5. View(c) /\ View(c)'
    BY <1>v DEF Views
  <2>6. CASE SerialChunk(c)
    <3>1. /\ pc[c] = "serial" /\ pc'[c] = "inSerial" /\ lo[c] < args[c].end /\ lo' = lo
          /\ hi'[c] = ChunkEnd(lo[c], args[c].end, args[c].grain) /\ UNCHANGED <<args, result>>
      BY <2>6, <1>t DEF SerialChunk, PcType, RunType
    <3>2. hi'[c] \in Nat /\ lo[c] < hi'[c] /\ hi'[c] <= args[c].end
            /\ hi'[c] - lo[c] <= args[c].grain
      BY ONLY <2>4, <3>1 DEF ChunkEnd
    <3>3. /\ Todo[c] = lo[c] .. (args[c].end - 1) /\ Todo'[c] = hi'[c] .. (args[c].end - 1)
          /\ Active'[c] = Active[c] \cup {<<lo[c], hi'[c]>>}
      BY <2>5, <3>1 DEF View
    <3>4. Promise!Take(c)
      BY <2>3, <2>4, <3>1, <3>2, <3>3, TakeSeen
    <3> QED BY <3>4 DEF Promise!Next
  <2>7. CASE SerialNext(c)
    <3>1. pc[c] = "inSerial" /\ pc'[c] = "serial" /\ lo'[c] = hi[c] /\ UNCHANGED <<args, result>>
      BY <2>7, <1>t DEF SerialNext, PcType, RunType
    <3>2. /\ Todo'[c] = Todo[c] /\ Active[c] = {<<lo[c], hi[c]>>}
          /\ Active'[c] = Active[c] \ {<<lo[c], hi[c]>>}
      BY <2>5, <3>1 DEF View
    <3>3. Promise!Complete(c)
      BY <2>3, <3>1, <3>2, CompleteSeen
    <3> QED BY <3>3 DEF Promise!Next
  <2>8. CASE SerialReturn(c)
    <3>1. /\ pc[c] = "serial" /\ pc'[c] = "idle" /\ lo[c] >= args[c].end
          /\ result' = [result EXCEPT ![c] = "ok"] /\ args' = args
      BY <2>8, <1>t DEF SerialReturn, PcType
    <3>2. lo[c] .. (args[c].end - 1) = {}
      BY <2>4, <3>1
    <3>3. Todo[c] = {} /\ Active[c] = {} /\ Todo'[c] = {} /\ Active'[c] = {}
      BY <2>5, <3>1, <3>2 DEF View
    <3>4. Promise!Return(c)
      BY <2>3, <2>4, <3>1, <3>3, ReturnSeen
    <3> QED BY <3>4 DEF Promise!Next
  <2> QED BY <1>1, <2>6, <2>7, <2>8
<1>2. CASE LockSlot(c) \/ LockFinish(c) \/ WaitDone(c)
  <2>1. UNCHANGED <<job, args, result, lo, hi>>
    BY <1>2 DEF LockSlot, LockFinish, WaitDone
  <2>2. \A u \in Thread : \/ pc'[u] = pc[u]
                          \/ pc[u] \in Plain /\ pc'[u] \in Plain
                          \/ pc[u] \in Unclaimed /\ pc'[u] \in Unclaimed
    BY <1>2, <1>t DEF LockSlot, LockFinish, WaitDone, Plain, Unclaimed, PcType
  <2> QED BY <2>1, <2>2, UnseenMoves
<1>3. CASE FillCursor(c) \/ Publish(c) \/ Settle(c) \/ UnlockSubmit(c)
  <2>1. \A d \in Caller \ {c} : pc[d] \notin Working
    BY <1>3, OneCurrent DEF FillCursor, Publish, Settle, UnlockSubmit, HoldsSubmit, Working
  <2>2. \A d \in Caller \ {c} : pc'[d] = pc[d]
    BY <1>3, <1>t DEF FillCursor, Publish, Settle, UnlockSubmit, WakeAll, PcType
  <2>3. UNCHANGED <<args, lo, hi>>
    BY <1>3 DEF FillCursor, Publish, Settle, UnlockSubmit
  <2>4. \A d \in Caller \ {c} : Todo'[d] = Todo[d] /\ Active'[d] = Active[d]
    BY <1>t, <1>v, <2>1, <2>2, <2>3, OthersKept
  <2>5. View(c) /\ View(c)'
    BY <1>v DEF Views
  <2>6. CASE FillCursor(c)
    <3>1. pc[c] = "fill" /\ pc'[c] = "publish" /\ result' = result
      BY <2>6, <1>t DEF FillCursor, PcType
    <3>2. Todo'[c] = Todo[c] /\ Active'[c] = Active[c]
      BY <2>3, <2>5, <3>1 DEF View, Unclaimed, Covers
    <3> QED BY <2>3, <2>4, <3>1, <3>2, Unseen
  <2>7. CASE Publish(c)
    <3>1. /\ pc[c] = "publish" /\ pc'[c] = "load" /\ result' = result
          /\ job'.next = args[c].begin /\ job'.end = args[c].end
      <4>1. /\ pc[c] = "publish" /\ result' = result
            /\ job' = [job EXCEPT !.end = args[c].end, !.grain = args[c].grain, !.user = c]
            /\ pc' = [WakeAll("ready", "enter") EXCEPT ![c] = "load"]
        BY <2>7 DEF Publish
      <4>2. pc'[c] = "load"
        BY <4>1, <1>t DEF WakeAll
      <4>3. job.next = args[c].begin
        BY <4>1 DEF Data, SlotKnown
      <4> QED BY <4>1, <4>2, <4>3, <1>t DEF WorkType
    <3>2. Chunks' = {}
      <4>1. \A u \in Thread : ~ Claimed(u)'
        BY <2>7, <1>t, FillsAlone DEF Publish, SlotQuietWhenFilled, WakeAll, PcType, Claimed
      <4> QED BY <4>1 DEF Chunks
    <3>3. Todo'[c] = Todo[c] /\ Active'[c] = Active[c]
      BY <2>5, <3>1, <3>2 DEF View, Unclaimed, Working, Covers
    <3> QED BY <2>3, <2>4, <3>1, <3>3, Unseen
  <2>8. CASE Settle(c)
    <3>1. pc[c] = "settle" /\ pc'[c] = "leave" /\ result' = result
      BY <2>8, <1>t DEF Settle, PcType
    <3>2. Owing = {}
      BY <2>8, NobodyOwes DEF Settle, AllArrived, Control
    <3>3. \A w \in Worker : pc[w] \notin DrainPC
      BY <3>2 DEF Owing, Started
    <3>4. \A u \in Thread : pc[u] \notin DrainPC
      BY <3>1, <3>3, NobodyDrains DEF HoldsSubmit, Working
    <3>5. Chunks = {}
      BY <3>4 DEF Chunks, Claimed
    <3>6. job.next .. (job.end - 1) = {}
      <4>1. job.next = job.end /\ job.end \in Nat
        BY <3>1, <1>t DEF Data, SlotKnown, WorkType
      <4> QED BY <4>1
    <3>7. Todo'[c] = Todo[c] /\ Active'[c] = Active[c]
      BY <2>5, <3>1, <3>5, <3>6 DEF View, Working
    <3> QED BY <2>3, <2>4, <3>1, <3>7, Unseen
  <2>9. CASE UnlockSubmit(c)
    <3>1. pc[c] = "leave" /\ pc'[c] = "idle" /\ result' = [result EXCEPT ![c] = "ok"]
      BY <2>9, <1>t DEF UnlockSubmit, PcType
    <3>2. Todo[c] = {} /\ Active[c] = {} /\ Todo'[c] = {} /\ Active'[c] = {}
      BY <2>5, <3>1 DEF View
    <3>3. result[c] = "running"
      BY <3>1 DEF Data, CallKnown, Running
    <3>4. Promise!Return(c)
      BY <2>3, <2>4, <3>1, <3>2, <3>3, ReturnSeen
    <3> QED BY <3>4 DEF Promise!Next
  <2> QED BY <1>3, <2>6, <2>7, <2>8, <2>9
<1> QED BY <1>1, <1>2, <1>3 DEF CallerStep

-----------------------------------------------------------------------------
(* Create, destroy, worker_loop, the submit lock and the spurious wakeups *)

LEMMA OtherUnseen ==
  ASSUME Control, Control', Data, Data',
         \/ Create \/ Destroy \/ Rest \/ UNCHANGED vars
         \/ \E t \in Thread : LockSubmit(t) \/ SpuriousWake(t)
         \/ \E w \in Worker : WorkerStep(w)
  PROVE  UNCHANGED Promise!vars
<1>t. PcType
  BY DEF Control, TypeOK
<1>1. UNCHANGED <<job, args, result, lo, hi>>
  <2>1. CASE Create \/ Destroy \/ Rest \/ UNCHANGED vars
    BY <2>1 DEF Create, Allocate, InitPrimitive, AllocHandles, Spawn, HandOut, Destroy,
      BeginDestroy, SkipStop, LockStop, Stop, Join, Release, Rest, vars
  <2>2. CASE \/ \E t \in Thread : LockSubmit(t) \/ SpuriousWake(t)
             \/ \E w \in Worker : WorkerStep(w)
    BY <2>2 DEF LockSubmit, SpuriousWake, WorkerStep, WorkerLock, WorkerWait, WorkerExit,
      WorkerTake, Arrive, Finished
  <2> QED BY <2>1, <2>2
<1>2. \A t \in Thread : \/ pc'[t] = pc[t]
                        \/ pc[t] \in Plain /\ pc'[t] \in Plain
                        \/ pc[t] \in Unclaimed /\ pc'[t] \in Unclaimed
  <2>1. CASE Spawn
    <3>1. pc' = pc \/ pc' = [pc EXCEPT ![created + 1] = "enter"]
      BY <2>1 DEF Spawn
    <3>2. pc \in [Thread -> PC]
      BY <1>t DEF PcType
    <3>3. \A t \in Thread : pc'[t] = pc[t] \/ (t = created + 1 /\ pc'[t] = "enter")
      <4> HIDE DEF Thread, PC
      <4> QED BY <3>1, <3>2
    <3>4. created < size - 1 /\ created \in Nat
      BY <2>1 DEF Spawn, Control, TypeOK, CtlType
    <3>5. \A t \in Thread : t = created + 1 => pc[t] = "none"
      BY <3>4 DEF Control, WorkersKnown, TypeOK, CtlType
    <3> QED BY <3>3, <3>5 DEF Plain
  <2>2. CASE Create /\ ~ Spawn
    BY <2>2 DEF Create, Allocate, InitPrimitive, AllocHandles, HandOut
  <2>3. CASE Destroy
    BY <2>3 DEF Destroy, BeginDestroy, SkipStop, LockStop, Stop, Join, Release, WakeAll, Plain
  <2>4. CASE Rest \/ UNCHANGED vars
    BY <2>4 DEF Rest, vars
  <2>5. CASE \E t \in Thread : LockSubmit(t) \/ SpuriousWake(t)
    BY <2>5, <1>t DEF LockSubmit, SpuriousWake, PcType, Plain, Unclaimed
  <2>6. CASE \E w \in Worker : Finished(w)
    BY <2>6, <1>t DEF Finished, WakeAll, PcType, Plain
  <2>7. CASE \E w \in Worker : WorkerStep(w) /\ ~ Finished(w)
    BY <2>7, <1>t DEF WorkerStep, WorkerLock, WorkerWait, WorkerExit, WorkerTake, Arrive, PcType,
      Plain
  <2> QED BY <2>1, <2>2, <2>3, <2>4, <2>5, <2>6, <2>7
<1> QED BY <1>1, <1>2, UnseenMoves

-----------------------------------------------------------------------------
(* The theorem *)

LEMMA InitSeen == Init => Promise!Init
<1> SUFFICES ASSUME Init PROVE Promise!Init
  OBVIOUS
<1>1. \A c \in Caller : pc[c] = "idle"
  BY DEF Init
<1>2. Todo = [c \in Caller |-> {}]
  <2>1. Todo = [c \in Caller |-> Todo[c]]
    BY DEF Todo
  <2>2. \A c \in Caller : Todo[c] = {}
    BY <1>1 DEF Todo, InJob
  <2> QED BY <2>1, <2>2
<1>3. \A t \in Thread, c \in Caller : ~ Serves(t, c)
  BY DEF Init, Serves, InCallback
<1>4. Active = [c \in Caller |-> {}]
  BY <1>3 DEF Active
<1> QED BY <1>2, <1>4 DEF Init, Promise!Init

LEMMA NextSeen ==
  ASSUME Control, Control', Data, Data', [Next]_vars
  PROVE  [Promise!Next]_(Promise!vars)
<1>1. CASE \E t \in Thread : Drain(t)
  BY <1>1, DrainSeen
<1>2. CASE \E c \in Caller : CallerStep(c)
  BY <1>2, CallerSeen
<1>3. CASE \E c \in Caller : Call(c)
  BY <1>3, StartSeen DEF Call, Promise!Next
<1>4. CASE \/ Create \/ Destroy \/ Rest \/ UNCHANGED vars
           \/ \E t \in Thread : LockSubmit(t) \/ SpuriousWake(t)
           \/ \E w \in Worker : WorkerStep(w)
  BY <1>4, OtherUnseen
<1> QED BY <1>1, <1>2, <1>3, <1>4 DEF Next

\* The pool implements the contract of its header: seen through what is left to do and
\* what is running, each step takes a chunk, completes one, starts or returns a call, or
\* is none of the contract's business.
THEOREM Implements == Spec => KeepsPromise
<1>1. Control /\ Control' /\ Data /\ Data' /\ [Next]_vars => [Promise!Next]_(Promise!vars)
  BY NextSeen
<1> QED BY <1>1, InitSeen, ControlHolds, DataHolds, PTL DEF Spec, KeepsPromise, Promise!Spec
=============================================================================
