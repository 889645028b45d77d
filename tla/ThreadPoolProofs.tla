-------------------------- MODULE ThreadPoolProofs --------------------------
(***************************************************************************)
(* The control of the pool, proved for any number of threads, workers,     *)
(* calls and ranges.                                                       *)
(***************************************************************************)
EXTENDS ThreadPoolInvariants, FiniteSetTheorems, TLAPS

USE ThreadAssumption DEF Thread, Worker, PC, WorkerPC, CallerPC, DrainPC, ctlVars, lockVars,
  workVars, runVars, callVars, restVars, Goto, Lock, Unlock, Control, TypeOK

ControlRest == /\ MutexHeld /\ SubmitHeld /\ ExecutingKnown /\ Lifetime /\ WorkersKnown
               /\ SeenCurrent /\ PendingCountsWorkers /\ QuietBetweenJobs /\ NoLostWakeup

-----------------------------------------------------------------------------
(* The workers that owe something are finitely many. *)

LEMMA OwingFinite == IsFiniteSet(Worker) /\ IsFiniteSet(Started) /\ IsFiniteSet(Owing)
<1>1. IsFiniteSet(1 .. (MaxThreads - 1))
  BY FS_Interval
<1> QED BY <1>1, FS_Subset DEF Started, Owing

\* No caller waits for anybody once pending is zero.
LEMMA NobodyOwes ==
  ASSUME PendingCountsWorkers, pending = 0
  PROVE  Owing = {}
  BY OwingFinite, FS_EmptySet DEF PendingCountsWorkers

\* The workers that were started are the first ones, created in number.
LEMMA StartedCount ==
  ASSUME Control
  PROVE  Cardinality(Started) = created
<1>1. Started = 1 .. created
  BY DEF Started, WorkersKnown, CtlType
<1> QED BY <1>1, FS_Interval DEF CtlType

-----------------------------------------------------------------------------
(* Chunks stay natural numbers, and so do the counts of what they cover. *)

LEMMA ChunkEndNat ==
  ASSUME NEW b \in Nat, NEW e \in Nat, NEW g \in Nat
  PROVE  ChunkEnd(b, e, g) \in Nat
  BY DEF ChunkEnd

LEMMA CoverType ==
  ASSUME hits \in [Caller -> [Index -> Nat]], NEW c \in Caller, NEW t \in Thread, Cover(c, t)
  PROVE  hits' \in [Caller -> [Index -> Nat]]
<1>1. [i \in Index |-> IF lo[t] <= i /\ i < hi[t] THEN hits[c][i] + 1 ELSE hits[c][i]]
        \in [Index -> Nat]
  OBVIOUS
<1> QED BY <1>1 DEF Cover

-----------------------------------------------------------------------------
(* drain_job *)

\* A step inside drain_job that touches neither locks nor counters keeps the
\* control invariant, whatever it does to the cursor and the chunks.
LEMMA DrainMoves ==
  ASSUME Control, NEW t \in Thread, pc[t] \in DrainPC, NEW l \in DrainPC,
         pc' = [pc EXCEPT ![t] = l],
         UNCHANGED <<ctlVars, lockVars, pending, generation, seen, executing>>
  PROVE  ControlRest'
<1>1. MutexHeld' /\ SubmitHeld' /\ ExecutingKnown' /\ Lifetime'
  BY DEF PcType, MutexHeld, SubmitHeld, ExecutingKnown, Lifetime, HoldsMutex, HoldsSubmit, Working
<1>2. WorkersKnown' /\ SeenCurrent' /\ NoLostWakeup'
  BY DEF PcType, WorkersKnown, SeenCurrent, NoLostWakeup, Started
<1>3. Owing' = Owing
  BY DEF PcType, Owing, Started
<1>4. PendingCountsWorkers' /\ QuietBetweenJobs'
  BY <1>3 DEF PcType, PendingCountsWorkers, QuietBetweenJobs, Working
<1> QED BY <1>1, <1>2, <1>4 DEF ControlRest

\* drain_job: what it does to the chunks is invisible to the control.
LEMMA DrainControl ==
  ASSUME Control, NEW t \in Thread, Drain(t)
  PROVE  Control'
<1>1. CASE Load(t)
  <2>1. CtlType' /\ LockType' /\ WorkType' /\ CallType'
    BY <1>1 DEF Load, CtlType, LockType, WorkType, CallType
  <2>2. PcType'
    BY <1>1 DEF Load, PcType
  <2>3. RunType'
    BY <1>1 DEF Load, RunType, WorkType
  <2>4. ControlRest'
    BY <1>1, DrainMoves DEF Load
  <2> QED BY <2>1, <2>2, <2>3, <2>4 DEF ControlRest
<1>2. CASE TakeChunk(t)
  <2>1. CtlType' /\ LockType' /\ WorkType' /\ CallType'
    BY <1>2 DEF TakeChunk, CtlType, LockType, WorkType, CallType
  <2>2. PcType'
    BY <1>2 DEF TakeChunk, PcType
  <2>3. RunType'
    BY <1>2, ChunkEndNat DEF TakeChunk, RunType, WorkType
  <2>4. ControlRest'
    BY <1>2, DrainMoves DEF TakeChunk
  <2> QED BY <2>1, <2>2, <2>3, <2>4 DEF ControlRest
<1>3. CASE Drained(t)
  <2>1. CtlType' /\ LockType' /\ WorkType' /\ CallType'
    BY <1>3 DEF Drained, CtlType, LockType, WorkType, CallType
  <2>2. PcType'
    BY <1>3 DEF Drained, PcType
  <2>3. RunType'
    BY <1>3 DEF Drained, RunType
  <2>4. MutexHeld' /\ SubmitHeld' /\ ExecutingKnown' /\ Lifetime'
    BY <1>3 DEF Drained, PcType, LockType, RunType, MutexHeld, SubmitHeld, ExecutingKnown,
      Lifetime, HoldsMutex, HoldsSubmit, Working
  <2>5. WorkersKnown' /\ SeenCurrent' /\ NoLostWakeup'
    BY <1>3 DEF Drained, PcType, RunType, WorkersKnown, SeenCurrent, NoLostWakeup, Started
  <2>6. Owing' = Owing
    BY <1>3 DEF Drained, PcType, RunType, Owing, Started
  <2>7. PendingCountsWorkers' /\ QuietBetweenJobs'
    BY <1>3, <2>6 DEF Drained, PcType, PendingCountsWorkers, QuietBetweenJobs, Working
  <2> QED BY <2>1, <2>2, <2>3, <2>4, <2>5, <2>7
<1>4. CASE Claim(t)
  <2>1. CtlType' /\ LockType' /\ RunType' /\ CallType'
    BY <1>4 DEF Claim, CtlType, LockType, RunType, CallType
  <2>2. PcType'
    BY <1>4 DEF Claim, PcType
  <2>3. WorkType'
    BY <1>4 DEF Claim, WorkType, RunType
  <2>4. ControlRest'
    BY <1>4, DrainMoves DEF Claim
  <2> QED BY <2>1, <2>2, <2>3, <2>4 DEF ControlRest
<1>5. CASE ClaimFails(t)
  <2>1. CtlType' /\ LockType' /\ WorkType'
    BY <1>5 DEF ClaimFails, CtlType, LockType, WorkType
  <2>2. PcType'
    BY <1>5 DEF ClaimFails, PcType
  <2>3. RunType'
    BY <1>5 DEF ClaimFails, RunType, WorkType
  <2>4. CallType'
    BY <1>5 DEF ClaimFails, CallType
  <2>5. ControlRest'
    BY <1>5, DrainMoves DEF ClaimFails
  <2> QED BY <2>1, <2>2, <2>3, <2>4, <2>5 DEF ControlRest
<1>6. CASE EnterCallback(t)
  <2>1. CtlType' /\ LockType' /\ WorkType' /\ CallType'
    BY <1>6 DEF EnterCallback, CtlType, LockType, WorkType, CallType
  <2>2. PcType'
    BY <1>6 DEF EnterCallback, PcType
  <2>3. RunType'
    BY <1>6 DEF EnterCallback, RunType, WorkType
  <2>4. ControlRest'
    BY <1>6, DrainMoves DEF EnterCallback
  <2> QED BY <2>1, <2>2, <2>3, <2>4 DEF ControlRest
<1>7. CASE Reenter(t)
  <2>1. executing[t]
    BY <1>7 DEF Reenter, ExecutingKnown
  <2>2. CtlType' /\ LockType' /\ WorkType' /\ RunType' /\ CallType'
    BY SMTT(60), <1>7 DEF Reenter, CtlType, LockType, WorkType, RunType, CallType
  <2>3. PcType'
    BY <1>7, <2>1 DEF Reenter, PcType
  <2>4. ControlRest'
    BY <1>7, <2>1, DrainMoves DEF Reenter
  <2> QED BY <2>2, <2>3, <2>4 DEF ControlRest
<1>8. CASE NestedReturn(t)
  <2>1. CtlType' /\ LockType' /\ WorkType' /\ RunType' /\ CallType'
    BY SMTT(60), <1>8 DEF NestedReturn, CtlType, LockType, WorkType, RunType, CallType
  <2>2. PcType'
    BY <1>8 DEF NestedReturn, PcType
  <2>3. ControlRest'
    BY <1>8, DrainMoves DEF NestedReturn
  <2> QED BY <2>1, <2>2, <2>3 DEF ControlRest
<1>9. CASE LeaveCallback(t)
  <2>1. CtlType' /\ LockType' /\ WorkType'
    BY <1>9 DEF LeaveCallback, CtlType, LockType, WorkType
  <2>2. PcType'
    BY <1>9 DEF LeaveCallback, PcType
  <2>3. RunType'
    BY <1>9 DEF LeaveCallback, RunType
  <2>4. CallType'
    BY <1>9, CoverType DEF LeaveCallback, CallType, RunType
  <2>5. ControlRest'
    BY <1>9, DrainMoves DEF LeaveCallback
  <2> QED BY <2>1, <2>2, <2>3, <2>4, <2>5 DEF ControlRest
<1> QED BY <1>1, <1>2, <1>3, <1>4, <1>5, <1>6, <1>7, <1>8, <1>9 DEF Drain

-----------------------------------------------------------------------------
(* worker_loop *)

\* worker_loop.
LEMMA WorkerControl ==
  ASSUME Control, NEW w \in Worker, WorkerStep(w)
  PROVE  Control'
<1>1. CASE WorkerLock(w)
  <2>1. CtlType' /\ WorkType' /\ RunType' /\ CallType'
    BY <1>1 DEF WorkerLock, CtlType, WorkType, RunType, CallType
  <2>2. LockType'
    BY <1>1 DEF WorkerLock, LockType
  <2>3. PcType'
    BY <1>1 DEF WorkerLock, PcType
  <2>4. MutexHeld' /\ SubmitHeld' /\ ExecutingKnown' /\ Lifetime'
    BY <1>1 DEF WorkerLock, PcType, LockType, RunType, MutexHeld, SubmitHeld, ExecutingKnown,
      Lifetime, HoldsMutex, HoldsSubmit, Working
  <2>5. WorkersKnown' /\ SeenCurrent' /\ NoLostWakeup'
    BY <1>1 DEF WorkerLock, PcType, RunType, WorkersKnown, SeenCurrent, NoLostWakeup, Started
  <2>6. Owing' = Owing
    BY <1>1 DEF WorkerLock, PcType, RunType, Owing, Started
  <2>7. PendingCountsWorkers' /\ QuietBetweenJobs'
    BY <1>1, <2>6 DEF WorkerLock, PcType, PendingCountsWorkers, QuietBetweenJobs, Working
  <2> QED BY <2>1, <2>2, <2>3, <2>4, <2>5, <2>7
<1>2. CASE WorkerWait(w)
  <2>1. CtlType' /\ WorkType' /\ RunType' /\ CallType'
    BY <1>2 DEF WorkerWait, CtlType, WorkType, RunType, CallType
  <2>2. LockType'
    BY <1>2 DEF WorkerWait, LockType
  <2>3. PcType'
    BY <1>2 DEF WorkerWait, PcType
  <2>4. MutexHeld' /\ SubmitHeld' /\ ExecutingKnown' /\ Lifetime'
    BY <1>2 DEF WorkerWait, PcType, LockType, RunType, MutexHeld, SubmitHeld, ExecutingKnown,
      Lifetime, HoldsMutex, HoldsSubmit, Working
  <2>5. WorkersKnown' /\ SeenCurrent' /\ NoLostWakeup'
    BY <1>2 DEF WorkerWait, PcType, RunType, WorkersKnown, SeenCurrent, NoLostWakeup, Started
  <2>6. Owing' = Owing
    BY <1>2 DEF WorkerWait, PcType, RunType, Owing, Started
  <2>7. PendingCountsWorkers' /\ QuietBetweenJobs'
    BY <1>2, <2>6 DEF WorkerWait, PcType, PendingCountsWorkers, QuietBetweenJobs, Working
  <2> QED BY <2>1, <2>2, <2>3, <2>4, <2>5, <2>7
<1>3. CASE WorkerExit(w)
  <2>1. CtlType' /\ WorkType' /\ RunType' /\ CallType'
    BY <1>3 DEF WorkerExit, CtlType, WorkType, RunType, CallType
  <2>2. LockType'
    BY <1>3 DEF WorkerExit, LockType
  <2>3. PcType'
    BY <1>3 DEF WorkerExit, PcType
  <2>4. MutexHeld' /\ SubmitHeld' /\ ExecutingKnown' /\ Lifetime'
    BY <1>3 DEF WorkerExit, PcType, LockType, RunType, MutexHeld, SubmitHeld, ExecutingKnown,
      Lifetime, HoldsMutex, HoldsSubmit, Working
  <2>5. WorkersKnown' /\ SeenCurrent' /\ NoLostWakeup'
    BY <1>3 DEF WorkerExit, PcType, RunType, WorkersKnown, SeenCurrent, NoLostWakeup, Started
  <2>6. Owing' = Owing
    BY <1>3 DEF WorkerExit, PcType, RunType, Owing, Started
  <2>7. PendingCountsWorkers' /\ QuietBetweenJobs'
    BY <1>3, <2>6 DEF WorkerExit, PcType, PendingCountsWorkers, QuietBetweenJobs, Working
  <2> QED BY <2>1, <2>2, <2>3, <2>4, <2>5, <2>7
<1>4. CASE WorkerTake(w)
  <2>1. CtlType' /\ WorkType' /\ CallType'
    BY <1>4 DEF WorkerTake, CtlType, WorkType, CallType
  <2>2. LockType'
    BY <1>4 DEF WorkerTake, LockType
  <2>3. PcType'
    BY <1>4 DEF WorkerTake, PcType
  <2>4. RunType'
    BY <1>4 DEF WorkerTake, RunType, WorkType, Entering
  <2>5. MutexHeld'
    BY <1>4 DEF WorkerTake, Entering, PcType, LockType, HoldsMutex, MutexHeld
  <2>6. SubmitHeld'
    BY <1>4 DEF WorkerTake, Entering, PcType, LockType, HoldsSubmit, Working, SubmitHeld
  <2>7. ExecutingKnown'
    BY <1>4 DEF WorkerTake, Entering, PcType, RunType, ExecutingKnown
  <2>8. Lifetime'
    BY <1>4 DEF WorkerTake, Entering, PcType, CtlType, Lifetime
  <2>9. WorkersKnown' /\ SeenCurrent' /\ NoLostWakeup'
    BY <1>4 DEF WorkerTake, Entering, PcType, RunType, WorkersKnown, SeenCurrent, NoLostWakeup, Started
  <2>10. Owing' = Owing
    BY <1>4 DEF WorkerTake, Entering, PcType, RunType, Owing, Started
  <2>11. PendingCountsWorkers' /\ QuietBetweenJobs'
    BY <1>4, <2>10 DEF WorkerTake, Entering, PcType, PendingCountsWorkers, QuietBetweenJobs, Working
  <2> QED BY <2>1, <2>2, <2>3, <2>4, <2>5, <2>6, <2>7, <2>8, <2>9, <2>11
<1>5. CASE Arrive(w)
  <2>1. CtlType' /\ WorkType' /\ RunType' /\ CallType'
    BY <1>5 DEF Arrive, CtlType, WorkType, RunType, CallType
  <2>2. LockType'
    BY <1>5 DEF Arrive, LockType
  <2>3. PcType'
    BY <1>5 DEF Arrive, PcType
  <2>4. MutexHeld' /\ SubmitHeld' /\ ExecutingKnown' /\ Lifetime'
    BY <1>5 DEF Arrive, PcType, LockType, RunType, MutexHeld, SubmitHeld, ExecutingKnown,
      Lifetime, HoldsMutex, HoldsSubmit, Working
  <2>5. WorkersKnown' /\ SeenCurrent' /\ NoLostWakeup'
    BY <1>5 DEF Arrive, PcType, RunType, WorkersKnown, SeenCurrent, NoLostWakeup, Started
  <2>6. Owing' = Owing
    BY <1>5 DEF Arrive, PcType, RunType, Owing, Started
  <2>7. PendingCountsWorkers' /\ QuietBetweenJobs'
    BY <1>5, <2>6 DEF Arrive, PcType, PendingCountsWorkers, QuietBetweenJobs, Working
  <2> QED BY <2>1, <2>2, <2>3, <2>4, <2>5, <2>7
<1>6. CASE Finished(w)
  <2>1. w \in Owing /\ Owing' = Owing \ {w}
    BY SMTT(60), <1>6 DEF Finished, WakeAll, PcType, RunType, WorkType, Owing, Started, SeenCurrent
  <2>2. pending > 0 /\ pending' = Cardinality(Owing')
    BY <1>6, <2>1, OwingFinite, FS_RemoveElement, FS_EmptySet
    DEF Finished, PendingCountsWorkers, WorkType
  <2>3. CtlType' /\ LockType' /\ RunType' /\ CallType'
    BY <1>6 DEF Finished, CtlType, LockType, RunType, CallType
  <2>4. WorkType' /\ PcType'
    BY <1>6, <2>2 DEF Finished, WakeAll, WorkType, PcType
  <2>5. MutexHeld'
    BY <1>6 DEF Finished, WakeAll, PcType, LockType, MutexHeld, HoldsMutex
  <2>8. SubmitHeld' /\ Lifetime'
    BY <1>6 DEF Finished, WakeAll, PcType, SubmitHeld, HoldsSubmit, Working, Lifetime
  <2>9. ExecutingKnown'
    BY <1>6 DEF Finished, WakeAll, PcType, RunType, ExecutingKnown
  <2>6. WorkersKnown' /\ SeenCurrent' /\ NoLostWakeup'
    BY <1>6, <2>2 DEF Finished, WakeAll, PcType, RunType, WorkersKnown, SeenCurrent,
      NoLostWakeup, Started
  <2>7. QuietBetweenJobs'
    BY <1>6, <2>1 DEF Finished, WakeAll, PcType, QuietBetweenJobs, Working
  <2> QED BY <2>2, <2>3, <2>4, <2>5, <2>6, <2>7, <2>8, <2>9 DEF PendingCountsWorkers
<1> QED BY <1>1, <1>2, <1>3, <1>4, <1>5, <1>6 DEF WorkerStep

-----------------------------------------------------------------------------
(* tvdb_thread_pool_for *)

\* The ways a call starts.
LEMMA StartControl ==
  ASSUME Control, NEW c \in Caller, NEW r \in Ranges,
         CallRefused(c, r) \/ CallEmpty(c, r) \/ CallSerial(c, r) \/ CallParallel(c, r)
  PROVE  Control'
<1>1. CASE CallRefused(c, r)
  <2>1. CtlType' /\ LockType' /\ WorkType' /\ PcType' /\ RunType'
    BY <1>1 DEF Begin, NoHits, CallRefused, CtlType, LockType, WorkType, PcType, RunType
  <2>2. CallType'
    BY <1>1, RangeAssumption DEF Begin, NoHits, CallRefused, CallType
  <2>3. MutexHeld' /\ SubmitHeld' /\ ExecutingKnown' /\ Lifetime'
    BY <1>1 DEF Begin, NoHits, CallRefused, PcType, LockType, RunType, MutexHeld, SubmitHeld, ExecutingKnown,
      Lifetime, HoldsMutex, HoldsSubmit, Working
  <2>4. WorkersKnown' /\ SeenCurrent' /\ NoLostWakeup'
    BY <1>1 DEF Begin, NoHits, CallRefused, PcType, RunType, WorkersKnown, SeenCurrent, NoLostWakeup, Started
  <2>5. Owing' = Owing
    BY <1>1 DEF Begin, NoHits, CallRefused, PcType, RunType, Owing, Started
  <2>6. PendingCountsWorkers' /\ QuietBetweenJobs'
    BY <1>1, <2>5 DEF Begin, NoHits, CallRefused, PcType, PendingCountsWorkers, QuietBetweenJobs, Working
  <2> QED BY <2>1, <2>2, <2>3, <2>4, <2>6
<1>2. CASE CallEmpty(c, r)
  <2>1. CtlType' /\ LockType' /\ WorkType' /\ PcType' /\ RunType'
    BY <1>2 DEF Begin, NoHits, CallEmpty, CtlType, LockType, WorkType, PcType, RunType
  <2>2. CallType'
    BY <1>2, RangeAssumption DEF Begin, NoHits, CallEmpty, CallType
  <2>3. MutexHeld' /\ SubmitHeld' /\ ExecutingKnown' /\ Lifetime'
    BY <1>2 DEF Begin, NoHits, CallEmpty, PcType, LockType, RunType, MutexHeld, SubmitHeld, ExecutingKnown,
      Lifetime, HoldsMutex, HoldsSubmit, Working
  <2>4. WorkersKnown' /\ SeenCurrent' /\ NoLostWakeup'
    BY <1>2 DEF Begin, NoHits, CallEmpty, PcType, RunType, WorkersKnown, SeenCurrent, NoLostWakeup, Started
  <2>5. Owing' = Owing
    BY <1>2 DEF Begin, NoHits, CallEmpty, PcType, RunType, Owing, Started
  <2>6. PendingCountsWorkers' /\ QuietBetweenJobs'
    BY <1>2, <2>5 DEF Begin, NoHits, CallEmpty, PcType, PendingCountsWorkers, QuietBetweenJobs, Working
  <2> QED BY <2>1, <2>2, <2>3, <2>4, <2>6
<1>3. CASE CallSerial(c, r)
  <2>1. CtlType' /\ LockType' /\ WorkType'
    BY <1>3 DEF Begin, NoHits, CallSerial, CtlType, LockType, WorkType
  <2>2. CallType'
    BY <1>3, RangeAssumption DEF Begin, NoHits, CallSerial, CallType
  <2>3. PcType'
    BY <1>3 DEF Begin, NoHits, CallSerial, PcType
  <2>4. RunType'
    BY <1>3, RangeAssumption DEF Begin, NoHits, CallSerial, RunType, Entering
  <2>5. MutexHeld' /\ SubmitHeld' /\ ExecutingKnown' /\ Lifetime'
    BY <1>3 DEF Begin, NoHits, CallSerial, Entering, PcType, LockType, RunType, MutexHeld, SubmitHeld, ExecutingKnown,
      Lifetime, HoldsMutex, HoldsSubmit, Working
  <2>6. WorkersKnown' /\ SeenCurrent' /\ NoLostWakeup'
    BY <1>3 DEF Begin, NoHits, CallSerial, Entering, PcType, RunType, WorkersKnown, SeenCurrent, NoLostWakeup, Started
  <2>7. Owing' = Owing
    BY <1>3 DEF Begin, NoHits, CallSerial, Entering, PcType, RunType, Owing, Started
  <2>8. PendingCountsWorkers' /\ QuietBetweenJobs'
    BY <1>3, <2>7 DEF Begin, NoHits, CallSerial, Entering, PcType, PendingCountsWorkers, QuietBetweenJobs, Working
  <2> QED BY <2>1, <2>2, <2>3, <2>4, <2>5, <2>6, <2>8
<1>4. CASE CallParallel(c, r)
  <2>1. CtlType' /\ LockType' /\ WorkType' /\ RunType'
    BY <1>4 DEF Begin, NoHits, CallParallel, CtlType, LockType, WorkType, RunType
  <2>2. CallType'
    BY <1>4, RangeAssumption DEF Begin, NoHits, CallParallel, CallType
  <2>3. PcType'
    BY <1>4 DEF Begin, NoHits, CallParallel, PcType
  <2>4. MutexHeld' /\ SubmitHeld' /\ ExecutingKnown' /\ Lifetime'
    BY <1>4 DEF Begin, NoHits, CallParallel, PcType, LockType, RunType, MutexHeld, SubmitHeld, ExecutingKnown,
      Lifetime, HoldsMutex, HoldsSubmit, Working
  <2>5. WorkersKnown' /\ SeenCurrent' /\ NoLostWakeup'
    BY <1>4 DEF Begin, NoHits, CallParallel, PcType, RunType, WorkersKnown, SeenCurrent, NoLostWakeup, Started
  <2>6. Owing' = Owing
    BY <1>4 DEF Begin, NoHits, CallParallel, PcType, RunType, Owing, Started
  <2>7. PendingCountsWorkers' /\ QuietBetweenJobs'
    BY <1>4, <2>6 DEF Begin, NoHits, CallParallel, PcType, PendingCountsWorkers, QuietBetweenJobs, Working
  <2> QED BY <2>1, <2>2, <2>3, <2>4, <2>5, <2>7
<1> QED BY <1>1, <1>2, <1>3, <1>4

\* A call on its way to the return.
LEMMA CallerControl ==
  ASSUME Control, NEW c \in Caller, CallerStep(c)
  PROVE  Control'
<1>1. CASE SerialChunk(c)
  <2>1. CtlType' /\ LockType' /\ WorkType' /\ CallType'
    BY <1>1 DEF SerialChunk, CtlType, LockType, WorkType, CallType
  <2>2. PcType'
    BY <1>1 DEF SerialChunk, PcType
  <2>3. RunType'
    BY <1>1, ChunkEndNat DEF SerialChunk, RunType, CallType
  <2>4. MutexHeld' /\ SubmitHeld' /\ ExecutingKnown' /\ Lifetime'
    BY <1>1 DEF SerialChunk, PcType, LockType, RunType, MutexHeld, SubmitHeld, ExecutingKnown,
      Lifetime, HoldsMutex, HoldsSubmit, Working
  <2>5. WorkersKnown' /\ SeenCurrent' /\ NoLostWakeup'
    BY <1>1 DEF SerialChunk, PcType, RunType, WorkersKnown, SeenCurrent, NoLostWakeup, Started
  <2>6. Owing' = Owing
    BY <1>1 DEF SerialChunk, PcType, RunType, Owing, Started
  <2>7. PendingCountsWorkers' /\ QuietBetweenJobs'
    BY <1>1, <2>6 DEF SerialChunk, PcType, PendingCountsWorkers, QuietBetweenJobs, Working
  <2> QED BY <2>1, <2>2, <2>3, <2>4, <2>5, <2>7
<1>2. CASE SerialNext(c)
  <2>1. CtlType' /\ LockType' /\ WorkType'
    BY <1>2 DEF SerialNext, CtlType, LockType, WorkType
  <2>2. PcType'
    BY <1>2 DEF SerialNext, PcType
  <2>3. RunType'
    BY <1>2 DEF SerialNext, RunType
  <2>4. CallType'
    BY <1>2, CoverType DEF SerialNext, CallType, RunType
  <2>5. MutexHeld' /\ SubmitHeld' /\ ExecutingKnown' /\ Lifetime'
    BY <1>2 DEF SerialNext, PcType, LockType, RunType, MutexHeld, SubmitHeld, ExecutingKnown,
      Lifetime, HoldsMutex, HoldsSubmit, Working
  <2>6. WorkersKnown' /\ SeenCurrent' /\ NoLostWakeup'
    BY <1>2 DEF SerialNext, PcType, RunType, WorkersKnown, SeenCurrent, NoLostWakeup, Started
  <2>7. Owing' = Owing
    BY <1>2 DEF SerialNext, PcType, RunType, Owing, Started
  <2>8. PendingCountsWorkers' /\ QuietBetweenJobs'
    BY <1>2, <2>7 DEF SerialNext, PcType, PendingCountsWorkers, QuietBetweenJobs, Working
  <2> QED BY <2>1, <2>2, <2>3, <2>4, <2>5, <2>6, <2>8
<1>3. CASE SerialReturn(c)
  <2>1. CtlType' /\ LockType' /\ WorkType'
    BY <1>3 DEF SerialReturn, CtlType, LockType, WorkType
  <2>2. PcType'
    BY <1>3 DEF SerialReturn, PcType
  <2>3. RunType'
    BY <1>3 DEF SerialReturn, RunType
  <2>4. CallType'
    BY <1>3 DEF SerialReturn, CallType
  <2>5. MutexHeld' /\ SubmitHeld' /\ ExecutingKnown' /\ Lifetime'
    BY <1>3 DEF SerialReturn, PcType, LockType, RunType, MutexHeld, SubmitHeld, ExecutingKnown,
      Lifetime, HoldsMutex, HoldsSubmit, Working
  <2>6. WorkersKnown' /\ SeenCurrent' /\ NoLostWakeup'
    BY <1>3 DEF SerialReturn, PcType, RunType, WorkersKnown, SeenCurrent, NoLostWakeup, Started
  <2>7. Owing' = Owing
    BY <1>3 DEF SerialReturn, PcType, RunType, Owing, Started
  <2>8. PendingCountsWorkers' /\ QuietBetweenJobs'
    BY <1>3, <2>7 DEF SerialReturn, PcType, PendingCountsWorkers, QuietBetweenJobs, Working
  <2> QED BY <2>1, <2>2, <2>3, <2>4, <2>5, <2>6, <2>8
<1>4. CASE LockSlot(c)
  <2>1. CtlType' /\ WorkType' /\ RunType' /\ CallType'
    BY <1>4 DEF LockSlot, CtlType, WorkType, RunType, CallType
  <2>2. LockType'
    BY <1>4 DEF LockSlot, LockType
  <2>3. PcType'
    BY <1>4 DEF LockSlot, PcType
  <2>4. MutexHeld' /\ SubmitHeld' /\ ExecutingKnown' /\ Lifetime'
    BY <1>4 DEF LockSlot, PcType, LockType, RunType, MutexHeld, SubmitHeld, ExecutingKnown,
      Lifetime, HoldsMutex, HoldsSubmit, Working
  <2>5. WorkersKnown' /\ SeenCurrent' /\ NoLostWakeup'
    BY <1>4 DEF LockSlot, PcType, RunType, WorkersKnown, SeenCurrent, NoLostWakeup, Started
  <2>6. Owing' = Owing
    BY <1>4 DEF LockSlot, PcType, RunType, Owing, Started
  <2>7. PendingCountsWorkers' /\ QuietBetweenJobs'
    BY <1>4, <2>6 DEF LockSlot, PcType, PendingCountsWorkers, QuietBetweenJobs, Working
  <2> QED BY <2>1, <2>2, <2>3, <2>4, <2>5, <2>7
<1>5. CASE FillCursor(c)
  <2>1. CtlType' /\ LockType' /\ RunType' /\ CallType'
    BY <1>5 DEF FillCursor, CtlType, LockType, RunType, CallType
  <2>2. PcType'
    BY <1>5 DEF FillCursor, PcType
  <2>3. WorkType'
    BY <1>5 DEF FillCursor, WorkType, CallType
  <2>4. MutexHeld' /\ SubmitHeld' /\ ExecutingKnown' /\ Lifetime'
    BY <1>5 DEF FillCursor, PcType, LockType, RunType, MutexHeld, SubmitHeld, ExecutingKnown,
      Lifetime, HoldsMutex, HoldsSubmit, Working
  <2>5. WorkersKnown' /\ SeenCurrent' /\ NoLostWakeup'
    BY <1>5 DEF FillCursor, PcType, RunType, WorkersKnown, SeenCurrent, NoLostWakeup, Started
  <2>6. Owing' = Owing
    BY <1>5 DEF FillCursor, PcType, RunType, Owing, Started
  <2>7. PendingCountsWorkers' /\ QuietBetweenJobs'
    BY <1>5, <2>6 DEF FillCursor, PcType, PendingCountsWorkers, QuietBetweenJobs, Working
  <2> QED BY <2>1, <2>2, <2>3, <2>4, <2>5, <2>7
<1>6. CASE Publish(c)
  <2>1. Owing = {}
    BY <1>6 DEF Publish, PcType, SubmitHeld, HoldsSubmit, Working, QuietBetweenJobs
  <2>2. \A w \in Worker : /\ pc'[w] = (IF pc[w] = "ready" THEN "enter" ELSE pc[w])
                          /\ pc[w] = "none" \/ seen[w] = generation
                          /\ pc[w] \notin DrainPC \cup {"arrive", "dec"}
    BY <1>6, <2>1 DEF Publish, WakeAll, PcType, WorkersKnown, Owing, Started
  <2>3. Started' = Started
    BY <2>2 DEF Started
  <2>4. Owing' = Started
    BY SMTT(60), <1>6, <2>2, <2>3 DEF Publish, Owing, Started, WorkType, RunType
  <2>5. PendingCountsWorkers'
    BY <1>6, <2>4, StartedCount DEF Publish, Expected, PendingCountsWorkers
  <2>6. CtlType' /\ LockType' /\ CallType'
    BY <1>6 DEF Publish, CtlType, LockType, CallType
  <2>7. WorkType'
    <3>1. job' \in [next : Nat, end : Nat, grain : Nat, user : Caller \cup {None}]
      BY <1>6 DEF Publish, WorkType, CallType
    <3> QED BY <1>6, <3>1 DEF Publish, Expected, CtlType, WorkType
  <2>8. PcType'
    BY <1>6 DEF Publish, WakeAll, PcType
  <2>9. RunType'
    BY <1>6 DEF Publish, Entering, RunType
  <2>10. MutexHeld'
    BY <1>6 DEF Publish, WakeAll, PcType, LockType, MutexHeld, HoldsMutex
  <2>11. SubmitHeld' /\ Lifetime'
    BY <1>6 DEF Publish, WakeAll, PcType, SubmitHeld, HoldsSubmit, Working, Lifetime
  <2>12. ExecutingKnown'
    BY <1>6 DEF Publish, WakeAll, Entering, PcType, RunType, ExecutingKnown
  <2>13. WorkersKnown'
    BY <1>6, <2>2 DEF Publish, WorkersKnown
  <2>14. SeenCurrent'
    <3>1. generation' = generation + 1 /\ seen' = seen /\ generation \in Nat
      BY <1>6 DEF Publish, WorkType
    <3>2. \A w \in Started : seen[w] = generation /\ pc'[w] \notin DrainPC \cup {"arrive", "dec"}
      BY <2>2 DEF Started
    <3> QED BY <2>3, <3>1, <3>2 DEF SeenCurrent
  <2>15. NoLostWakeup'
    <3>1. \A d \in Caller : pc'[d] # "done"
      BY <1>6 DEF Publish, WakeAll, PcType, SubmitHeld, HoldsSubmit, Working
    <3> QED BY <2>2, <3>1 DEF NoLostWakeup
  <2>16. QuietBetweenJobs'
    BY <1>6 DEF Publish, WakeAll, PcType, QuietBetweenJobs, Working
  <2> QED BY <2>5, <2>6, <2>7, <2>8, <2>9, <2>10, <2>11, <2>12, <2>13, <2>14, <2>15, <2>16
<1>7. CASE LockFinish(c)
  <2>1. CtlType' /\ WorkType' /\ RunType' /\ CallType'
    BY <1>7 DEF LockFinish, CtlType, WorkType, RunType, CallType
  <2>2. LockType'
    BY <1>7 DEF LockFinish, LockType
  <2>3. PcType'
    BY <1>7 DEF LockFinish, PcType
  <2>4. MutexHeld' /\ SubmitHeld' /\ ExecutingKnown' /\ Lifetime'
    BY <1>7 DEF LockFinish, PcType, LockType, RunType, MutexHeld, SubmitHeld, ExecutingKnown,
      Lifetime, HoldsMutex, HoldsSubmit, Working
  <2>5. WorkersKnown' /\ SeenCurrent' /\ NoLostWakeup'
    BY <1>7 DEF LockFinish, PcType, RunType, WorkersKnown, SeenCurrent, NoLostWakeup, Started
  <2>6. Owing' = Owing
    BY <1>7 DEF LockFinish, PcType, RunType, Owing, Started
  <2>7. PendingCountsWorkers' /\ QuietBetweenJobs'
    BY <1>7, <2>6 DEF LockFinish, PcType, PendingCountsWorkers, QuietBetweenJobs, Working
  <2> QED BY <2>1, <2>2, <2>3, <2>4, <2>5, <2>7
<1>8. CASE WaitDone(c)
  <2>1. CtlType' /\ WorkType' /\ RunType' /\ CallType'
    BY <1>8 DEF WaitDone, CtlType, WorkType, RunType, CallType
  <2>2. LockType'
    BY <1>8 DEF WaitDone, LockType
  <2>3. PcType'
    BY <1>8 DEF WaitDone, PcType
  <2>4. MutexHeld' /\ SubmitHeld' /\ ExecutingKnown' /\ Lifetime'
    BY <1>8 DEF WaitDone, AllArrived, PcType, LockType, RunType, MutexHeld, SubmitHeld, ExecutingKnown,
      Lifetime, HoldsMutex, HoldsSubmit, Working
  <2>5. WorkersKnown' /\ SeenCurrent' /\ NoLostWakeup'
    BY <1>8 DEF WaitDone, AllArrived, PcType, RunType, WorkersKnown, SeenCurrent, NoLostWakeup, Started
  <2>6. Owing' = Owing
    BY <1>8 DEF WaitDone, AllArrived, PcType, RunType, Owing, Started
  <2>7. PendingCountsWorkers' /\ QuietBetweenJobs'
    BY <1>8, <2>6 DEF WaitDone, AllArrived, PcType, PendingCountsWorkers, QuietBetweenJobs, Working
  <2> QED BY <2>1, <2>2, <2>3, <2>4, <2>5, <2>7
<1>9. CASE Settle(c)
  <2>1. CtlType' /\ WorkType' /\ RunType' /\ CallType'
    BY <1>9 DEF Settle, CtlType, WorkType, RunType, CallType
  <2>2. LockType'
    BY <1>9 DEF Settle, LockType
  <2>3. PcType'
    BY <1>9 DEF Settle, PcType
  <2>4. MutexHeld' /\ SubmitHeld' /\ ExecutingKnown' /\ Lifetime'
    BY <1>9 DEF Settle, AllArrived, PcType, LockType, RunType, MutexHeld, SubmitHeld, ExecutingKnown,
      Lifetime, HoldsMutex, HoldsSubmit, Working
  <2>5. WorkersKnown' /\ SeenCurrent' /\ NoLostWakeup'
    BY <1>9 DEF Settle, AllArrived, PcType, RunType, WorkersKnown, SeenCurrent, NoLostWakeup, Started
  <2>6. Owing' = Owing
    BY <1>9 DEF Settle, AllArrived, PcType, RunType, Owing, Started
  <2>7. PendingCountsWorkers' /\ QuietBetweenJobs'
    BY <1>9, <2>6, NobodyOwes DEF Settle, AllArrived, PcType, PendingCountsWorkers, QuietBetweenJobs, Working
  <2> QED BY <2>1, <2>2, <2>3, <2>4, <2>5, <2>7
<1>10. CASE UnlockSubmit(c)
  <2>1. CtlType' /\ WorkType' /\ RunType'
    BY <1>10 DEF UnlockSubmit, CtlType, WorkType, RunType
  <2>2. LockType'
    BY <1>10 DEF UnlockSubmit, LockType
  <2>3. PcType'
    BY <1>10 DEF UnlockSubmit, PcType
  <2>4. CallType'
    BY <1>10 DEF UnlockSubmit, CallType
  <2>5. MutexHeld'
    BY <1>10 DEF UnlockSubmit, PcType, LockType, HoldsMutex, MutexHeld
  <2>6. SubmitHeld'
    BY <1>10 DEF UnlockSubmit, PcType, LockType, HoldsSubmit, Working, SubmitHeld
  <2>7. ExecutingKnown'
    BY <1>10 DEF UnlockSubmit, PcType, RunType, ExecutingKnown
  <2>8. Lifetime'
    BY <1>10 DEF UnlockSubmit, PcType, CtlType, Lifetime
  <2>9. WorkersKnown' /\ SeenCurrent' /\ NoLostWakeup'
    BY <1>10 DEF UnlockSubmit, PcType, RunType, WorkersKnown, SeenCurrent, NoLostWakeup, Started
  <2>10. Owing' = Owing
    BY <1>10 DEF UnlockSubmit, PcType, RunType, Owing, Started
  <2>11. PendingCountsWorkers' /\ QuietBetweenJobs'
    BY <1>10, <2>10 DEF UnlockSubmit, PcType, PendingCountsWorkers, QuietBetweenJobs, Working
  <2> QED BY <2>1, <2>2, <2>3, <2>4, <2>5, <2>6, <2>7, <2>8, <2>9, <2>11
<1> QED BY <1>1, <1>2, <1>3, <1>4, <1>5, <1>6, <1>7, <1>8, <1>9, <1>10 DEF CallerStep

\* Acquiring p->submit, and waking without a broadcast.
LEMMA LockControl ==
  ASSUME Control, NEW t \in Thread, LockSubmit(t) \/ SpuriousWake(t)
  PROVE  Control'
<1>1. CASE LockSubmit(t)
  <2>1. CtlType' /\ WorkType' /\ RunType' /\ CallType'
    BY <1>1 DEF LockSubmit, CtlType, WorkType, RunType, CallType
  <2>2. LockType'
    BY <1>1 DEF LockSubmit, LockType, PcType
  <2>3. PcType'
    BY <1>1 DEF LockSubmit, PcType
  <2>4. MutexHeld' /\ SubmitHeld' /\ ExecutingKnown' /\ Lifetime'
    <3>1. MutexHeld'
      BY <1>1 DEF LockSubmit, PcType, LockType, MutexHeld, HoldsMutex
    <3>2. SubmitHeld'
      BY <1>1 DEF LockSubmit, SubmitFree, PcType, LockType, SubmitHeld, HoldsSubmit, Working
    <3>3. ExecutingKnown'
      BY <1>1 DEF LockSubmit, PcType, RunType, ExecutingKnown
    <3>4. Lifetime'
      BY <1>1 DEF LockSubmit, PcType, CtlType, Lifetime
    <3> QED BY <3>1, <3>2, <3>3, <3>4
  <2>5. WorkersKnown' /\ SeenCurrent' /\ NoLostWakeup'
    BY <1>1 DEF LockSubmit, SubmitFree, PcType, RunType, WorkersKnown, SeenCurrent, NoLostWakeup, Started
  <2>6. Owing' = Owing
    BY <1>1 DEF LockSubmit, SubmitFree, PcType, RunType, Owing, Started
  <2>7. PendingCountsWorkers' /\ QuietBetweenJobs'
    BY <1>1, <2>6 DEF LockSubmit, SubmitFree, PcType, PendingCountsWorkers, QuietBetweenJobs, Working
  <2> QED BY <2>1, <2>2, <2>3, <2>4, <2>5, <2>7
<1>2. CASE SpuriousWake(t)
  <2>1. CtlType' /\ LockType' /\ WorkType' /\ RunType'
    BY <1>2 DEF SpuriousWake, CtlType, LockType, WorkType, RunType
  <2>2. PcType'
    BY <1>2 DEF SpuriousWake, PcType
  <2>3. CallType'
    BY <1>2 DEF SpuriousWake, CallType
  <2>4. MutexHeld'
    BY <1>2 DEF SpuriousWake, PcType, LockType, HoldsMutex, MutexHeld
  <2>5. SubmitHeld'
    BY <1>2 DEF SpuriousWake, PcType, LockType, HoldsSubmit, Working, SubmitHeld
  <2>6. ExecutingKnown'
    <3>1. executing' = executing
      BY <1>2 DEF SpuriousWake, runVars
    <3>2. \A u \in Thread : pc'[u] \in DrainPC \cup {"serial", "inSerial"}
                             <=> pc[u] \in DrainPC \cup {"serial", "inSerial"}
      BY SMTT(60), <1>2 DEF SpuriousWake, PcType
    <3> QED BY <3>1, <3>2 DEF ExecutingKnown
  <2>7. Lifetime'
    BY <1>2 DEF SpuriousWake, PcType, CtlType, Lifetime
  <2>8. WorkersKnown' /\ SeenCurrent' /\ NoLostWakeup'
    BY <1>2 DEF SpuriousWake, PcType, RunType, WorkersKnown, SeenCurrent, NoLostWakeup, Started
  <2>9. Owing' = Owing
    BY <1>2 DEF SpuriousWake, PcType, RunType, Owing, Started
  <2>10. PendingCountsWorkers' /\ QuietBetweenJobs'
    BY <1>2, <2>9 DEF SpuriousWake, PcType, PendingCountsWorkers, QuietBetweenJobs, Working
  <2> QED BY <2>1, <2>2, <2>3, <2>4, <2>5, <2>6, <2>7, <2>8, <2>10
<1> QED BY <1>1, <1>2

-----------------------------------------------------------------------------
(* tvdb_thread_pool_create and tvdb_thread_pool_destroy *)

\* Create, with all its failures.
LEMMA CreateControl ==
  ASSUME Control, Create
  PROVE  Control'
<1>1. CASE \E n \in Counts : Allocate(n)
  <2>1. LockType' /\ WorkType' /\ PcType' /\ RunType' /\ CallType'
    BY <1>1 DEF Allocate, LockType, WorkType, PcType, RunType, CallType
  <2>2. CtlType'
    BY <1>1 DEF Allocate, CtlType
  <2>3. MutexHeld'
    BY <1>1 DEF Allocate, PcType, LockType, HoldsMutex, MutexHeld, Lifetime
  <2>4. SubmitHeld'
    BY <1>1 DEF Allocate, PcType, LockType, HoldsSubmit, Working, SubmitHeld
  <2>5. ExecutingKnown'
    BY <1>1 DEF Allocate, PcType, RunType, ExecutingKnown
  <2>6. Lifetime'
    BY <1>1 DEF Allocate, PcType, CtlType, Lifetime
  <2>7. WorkersKnown' /\ SeenCurrent' /\ NoLostWakeup'
    BY <1>1 DEF Allocate, PcType, RunType, WorkersKnown, SeenCurrent, NoLostWakeup, Started
  <2>8. Owing' = Owing
    BY <1>1 DEF Allocate, PcType, RunType, Owing, Started
  <2>9. PendingCountsWorkers' /\ QuietBetweenJobs'
    BY <1>1, <2>8 DEF Allocate, PcType, PendingCountsWorkers, QuietBetweenJobs, Working
  <2> QED BY <2>1, <2>2, <2>3, <2>4, <2>5, <2>6, <2>7, <2>9
<1>2. CASE InitPrimitive
  <2>1. LockType' /\ WorkType' /\ PcType' /\ RunType' /\ CallType'
    BY <1>2 DEF InitPrimitive, LockType, WorkType, PcType, RunType, CallType
  <2>2. CtlType'
    BY <1>2 DEF InitPrimitive, CtlType
  <2>3. MutexHeld' /\ SubmitHeld' /\ ExecutingKnown' /\ Lifetime'
    BY <1>2 DEF InitPrimitive, PcType, LockType, RunType, MutexHeld, SubmitHeld, ExecutingKnown,
      Lifetime, HoldsMutex, HoldsSubmit, Working
  <2>4. WorkersKnown' /\ SeenCurrent' /\ NoLostWakeup'
    BY <1>2 DEF InitPrimitive, PcType, RunType, WorkersKnown, SeenCurrent, NoLostWakeup, Started
  <2>5. Owing' = Owing
    BY <1>2 DEF InitPrimitive, PcType, RunType, Owing, Started
  <2>6. PendingCountsWorkers' /\ QuietBetweenJobs'
    BY <1>2, <2>5 DEF InitPrimitive, PcType, PendingCountsWorkers, QuietBetweenJobs, Working
  <2> QED BY <2>1, <2>2, <2>3, <2>4, <2>6
<1>3. CASE AllocHandles
  <2>1. LockType' /\ WorkType' /\ PcType' /\ RunType' /\ CallType'
    BY <1>3 DEF AllocHandles, LockType, WorkType, PcType, RunType, CallType
  <2>2. CtlType'
    BY <1>3 DEF AllocHandles, CtlType
  <2>3. MutexHeld' /\ SubmitHeld' /\ ExecutingKnown' /\ Lifetime'
    BY <1>3 DEF AllocHandles, PcType, LockType, RunType, MutexHeld, SubmitHeld, ExecutingKnown,
      Lifetime, HoldsMutex, HoldsSubmit, Working
  <2>4. WorkersKnown' /\ SeenCurrent' /\ NoLostWakeup'
    BY <1>3 DEF AllocHandles, PcType, RunType, WorkersKnown, SeenCurrent, NoLostWakeup, Started
  <2>5. Owing' = Owing
    BY <1>3 DEF AllocHandles, PcType, RunType, Owing, Started
  <2>6. PendingCountsWorkers' /\ QuietBetweenJobs'
    BY <1>3, <2>5 DEF AllocHandles, PcType, PendingCountsWorkers, QuietBetweenJobs, Working
  <2> QED BY <2>1, <2>2, <2>3, <2>4, <2>6
<1>4. CASE Spawn
  <2>1. LockType' /\ WorkType' /\ RunType' /\ CallType'
    BY <1>4 DEF Spawn, LockType, WorkType, RunType, CallType
  <2>2. CtlType'
    BY <1>4 DEF Spawn, CtlType
  <2>3. CASE UNCHANGED <<created, pc>>
    <3>1. PcType' /\ SubmitHeld' /\ ExecutingKnown' /\ Lifetime' /\ WorkersKnown'
      BY <1>4, <2>3 DEF Spawn, PcType, SubmitHeld, ExecutingKnown, Lifetime, WorkersKnown
    <3>2. MutexHeld' /\ SeenCurrent' /\ NoLostWakeup'
      BY <1>4, <2>3 DEF Spawn, MutexHeld, SeenCurrent, NoLostWakeup, Started
    <3>3. PendingCountsWorkers' /\ QuietBetweenJobs'
      BY <1>4, <2>3 DEF Spawn, PendingCountsWorkers, QuietBetweenJobs, Owing, Started
    <3> QED BY <2>1, <2>2, <3>1, <3>2, <3>3
  <2>4. CASE created' = created + 1 /\ Goto(created + 1, "enter") /\ UNCHANGED ctl
    <3> DEFINE v == created + 1
    <3>1. v \in Worker /\ v \in Thread
      BY <1>4 DEF Spawn, CtlType
    <3>2. pc[v] = "none" /\ seen[v] = 0 /\ generation = 0
      BY <1>4, <3>1 DEF Spawn, WorkersKnown, Lifetime, CtlType
    <3>3. pc' = [pc EXCEPT ![v] = "enter"] /\ pc'[v] = "enter"
      BY <2>4, <3>1 DEF PcType
    <3> HIDE DEF v
    <3>4. PcType'
      BY <3>1, <3>3 DEF PcType
    <3>5. MutexHeld'
      BY <1>4, <2>4, <3>1, <3>2, <3>3 DEF Spawn, PcType, MutexHeld, HoldsMutex
    <3>6. SubmitHeld' /\ ExecutingKnown' /\ Lifetime'
      BY <1>4, <2>4, <3>1, <3>2, <3>3 DEF Spawn, PcType, SubmitHeld, HoldsSubmit, Working,
        ExecutingKnown, Lifetime
    <3>7. WorkersKnown'
      BY <1>4, <2>4, <3>1, <3>2, <3>3 DEF Spawn, PcType, WorkersKnown, CtlType, v
    <3>8. SeenCurrent' /\ NoLostWakeup'
      BY <1>4, <3>1, <3>2, <3>3 DEF Spawn, PcType, SeenCurrent, NoLostWakeup, Started
    <3>9. Owing' = Owing
      BY <1>4, <3>1, <3>2, <3>3 DEF Spawn, PcType, Owing, Started
    <3>10. PendingCountsWorkers' /\ QuietBetweenJobs'
      BY <1>4, <3>1, <3>3, <3>9 DEF Spawn, PcType, PendingCountsWorkers, QuietBetweenJobs
    <3> QED BY <2>1, <2>2, <3>4, <3>5, <3>6, <3>7, <3>8, <3>10
  <2> QED BY <1>4, <2>3, <2>4 DEF Spawn
<1>5. CASE HandOut
  <2>1. LockType' /\ WorkType' /\ PcType' /\ RunType' /\ CallType'
    BY <1>5 DEF HandOut, LockType, WorkType, PcType, RunType, CallType
  <2>2. CtlType'
    BY <1>5 DEF HandOut, CtlType
  <2>3. MutexHeld' /\ SubmitHeld' /\ ExecutingKnown' /\ Lifetime'
    BY <1>5 DEF HandOut, PcType, LockType, RunType, MutexHeld, SubmitHeld, ExecutingKnown,
      Lifetime, HoldsMutex, HoldsSubmit, Working
  <2>4. WorkersKnown' /\ SeenCurrent' /\ NoLostWakeup'
    BY <1>5 DEF HandOut, PcType, RunType, WorkersKnown, SeenCurrent, NoLostWakeup, Started
  <2>5. Owing' = Owing
    BY <1>5 DEF HandOut, PcType, RunType, Owing, Started
  <2>6. PendingCountsWorkers' /\ QuietBetweenJobs'
    BY <1>5, <2>5 DEF HandOut, PcType, PendingCountsWorkers, QuietBetweenJobs, Working
  <2> QED BY <2>1, <2>2, <2>3, <2>4, <2>6
<1> QED BY <1>1, <1>2, <1>3, <1>4, <1>5 DEF Create

\* Destroy.
LEMMA DestroyControl ==
  ASSUME Control, Destroy
  PROVE  Control'
<1>1. CASE BeginDestroy
  <2>1. LockType' /\ WorkType' /\ PcType' /\ RunType' /\ CallType'
    BY <1>1 DEF BeginDestroy, LockType, WorkType, PcType, RunType, CallType
  <2>2. CtlType'
    BY <1>1 DEF BeginDestroy, CtlType
  <2>3. MutexHeld' /\ SubmitHeld' /\ ExecutingKnown' /\ Lifetime'
    BY <1>1 DEF BeginDestroy, PcType, LockType, RunType, MutexHeld, SubmitHeld, ExecutingKnown,
      Lifetime, HoldsMutex, HoldsSubmit, Working
  <2>4. WorkersKnown' /\ SeenCurrent' /\ NoLostWakeup'
    BY <1>1 DEF BeginDestroy, PcType, RunType, WorkersKnown, SeenCurrent, NoLostWakeup, Started
  <2>5. Owing' = Owing
    BY <1>1 DEF BeginDestroy, PcType, RunType, Owing, Started
  <2>6. PendingCountsWorkers' /\ QuietBetweenJobs'
    BY <1>1, <2>5 DEF BeginDestroy, PcType, PendingCountsWorkers, QuietBetweenJobs, Working
  <2> QED BY <2>1, <2>2, <2>3, <2>4, <2>6
<1>2. CASE SkipStop
  <2>1. LockType' /\ WorkType' /\ PcType' /\ RunType' /\ CallType'
    BY <1>2 DEF SkipStop, LockType, WorkType, PcType, RunType, CallType
  <2>2. CtlType'
    BY <1>2 DEF SkipStop, CtlType
  <2>3. MutexHeld'
    BY <1>2 DEF SkipStop, PcType, LockType, HoldsMutex, MutexHeld, Lifetime
  <2>4. SubmitHeld'
    BY <1>2 DEF SkipStop, PcType, LockType, HoldsSubmit, Working, SubmitHeld
  <2>5. ExecutingKnown'
    BY <1>2 DEF SkipStop, PcType, RunType, ExecutingKnown
  <2>6. Lifetime'
    BY <1>2 DEF SkipStop, PcType, CtlType, Lifetime
  <2>7. WorkersKnown' /\ SeenCurrent' /\ NoLostWakeup'
    BY <1>2 DEF SkipStop, PcType, RunType, WorkersKnown, SeenCurrent, NoLostWakeup, Started
  <2>8. Owing' = Owing
    BY <1>2 DEF SkipStop, PcType, RunType, Owing, Started
  <2>9. PendingCountsWorkers' /\ QuietBetweenJobs'
    BY <1>2, <2>8 DEF SkipStop, PcType, PendingCountsWorkers, QuietBetweenJobs, Working
  <2> QED BY <2>1, <2>2, <2>3, <2>4, <2>5, <2>6, <2>7, <2>9
<1>3. CASE LockStop
  <2>1. WorkType' /\ PcType' /\ RunType' /\ CallType'
    BY <1>3 DEF LockStop, WorkType, PcType, RunType, CallType
  <2>2. CtlType'
    BY <1>3 DEF LockStop, CtlType
  <2>3. LockType'
    BY <1>3 DEF LockStop, LockType
  <2>4. MutexHeld' /\ SubmitHeld' /\ ExecutingKnown' /\ Lifetime'
    BY <1>3 DEF LockStop, PcType, LockType, RunType, MutexHeld, SubmitHeld, ExecutingKnown,
      Lifetime, HoldsMutex, HoldsSubmit, Working
  <2>5. WorkersKnown' /\ SeenCurrent' /\ NoLostWakeup'
    BY <1>3 DEF LockStop, PcType, RunType, WorkersKnown, SeenCurrent, NoLostWakeup, Started
  <2>6. Owing' = Owing
    BY <1>3 DEF LockStop, PcType, RunType, Owing, Started
  <2>7. PendingCountsWorkers' /\ QuietBetweenJobs'
    BY <1>3, <2>6 DEF LockStop, PcType, PendingCountsWorkers, QuietBetweenJobs, Working
  <2> QED BY <2>1, <2>2, <2>3, <2>4, <2>5, <2>7
<1>4. CASE Stop
  <2>1. WorkType' /\ RunType' /\ CallType'
    BY <1>4 DEF Stop, WorkType, RunType, CallType
  <2>2. CtlType'
    BY <1>4 DEF Stop, CtlType, WakeAll
  <2>3. LockType'
    BY <1>4 DEF Stop, LockType
  <2>4. PcType'
    BY <1>4 DEF Stop, PcType, WakeAll
  <2>5. MutexHeld' /\ SubmitHeld' /\ ExecutingKnown' /\ Lifetime'
    BY <1>4 DEF Stop, WakeAll, PcType, LockType, RunType, MutexHeld, SubmitHeld, ExecutingKnown,
      Lifetime, HoldsMutex, HoldsSubmit, Working
  <2>6. WorkersKnown' /\ SeenCurrent' /\ NoLostWakeup'
    BY <1>4 DEF Stop, WakeAll, PcType, RunType, WorkersKnown, SeenCurrent, NoLostWakeup, Started
  <2>7. Owing' = Owing
    BY <1>4 DEF Stop, WakeAll, PcType, RunType, Owing, Started
  <2>8. PendingCountsWorkers' /\ QuietBetweenJobs'
    BY <1>4, <2>7 DEF Stop, WakeAll, PcType, PendingCountsWorkers, QuietBetweenJobs, Working
  <2> QED BY <2>1, <2>2, <2>3, <2>4, <2>5, <2>6, <2>8
<1>5. CASE Join
  <2>1. LockType' /\ WorkType' /\ PcType' /\ RunType' /\ CallType'
    BY <1>5 DEF Join, LockType, WorkType, PcType, RunType, CallType
  <2>2. CtlType'
    BY <1>5 DEF Join, CtlType, ToJoin
  <2>3. MutexHeld' /\ SubmitHeld' /\ ExecutingKnown' /\ Lifetime'
    BY <1>5 DEF Join, ToJoin, PcType, LockType, RunType, MutexHeld, SubmitHeld, ExecutingKnown,
      Lifetime, HoldsMutex, HoldsSubmit, Working
  <2>4. WorkersKnown' /\ SeenCurrent' /\ NoLostWakeup'
    BY <1>5 DEF Join, ToJoin, PcType, RunType, WorkersKnown, SeenCurrent, NoLostWakeup, Started, CtlType
  <2>5. Owing' = Owing
    BY <1>5 DEF Join, ToJoin, PcType, RunType, Owing, Started, CtlType
  <2>6. PendingCountsWorkers' /\ QuietBetweenJobs'
    BY <1>5, <2>5 DEF Join, ToJoin, PcType, PendingCountsWorkers, QuietBetweenJobs, Working
  <2> QED BY <2>1, <2>2, <2>3, <2>4, <2>6
<1>6. CASE Release
  <2>1. LockType' /\ WorkType' /\ PcType' /\ RunType' /\ CallType'
    BY <1>6 DEF Release, LockType, WorkType, PcType, RunType, CallType
  <2>2. CtlType'
    BY <1>6 DEF Release, CtlType
  <2>3. MutexHeld' /\ SubmitHeld' /\ ExecutingKnown' /\ Lifetime'
    BY <1>6 DEF Release, PcType, LockType, RunType, MutexHeld, SubmitHeld, ExecutingKnown,
      Lifetime, HoldsMutex, HoldsSubmit, Working
  <2>4. WorkersKnown' /\ SeenCurrent' /\ NoLostWakeup'
    BY <1>6 DEF Release, PcType, RunType, WorkersKnown, SeenCurrent, NoLostWakeup, Started
  <2>5. Owing' = Owing
    BY <1>6 DEF Release, PcType, RunType, Owing, Started
  <2>6. PendingCountsWorkers' /\ QuietBetweenJobs'
    BY <1>6, <2>5 DEF Release, PcType, PendingCountsWorkers, QuietBetweenJobs, Working
  <2> QED BY <2>1, <2>2, <2>3, <2>4, <2>6
<1> QED BY <1>1, <1>2, <1>3, <1>4, <1>5, <1>6 DEF Destroy

-----------------------------------------------------------------------------
(* The theorems *)

LEMMA InitControl == Init => Control
<1> SUFFICES ASSUME Init PROVE Control
  OBVIOUS
<1>1. LockType
  BY DEF Init, LockType
<1>8. CtlType
  <2>1. 0 \in 0 .. MaxThreads /\ 0 \in 0 .. (MaxThreads - 1) /\ 0 \in 0 .. 4 /\ 0 \in 0 .. 0
    OBVIOUS
  <2>2. /\ ctl = "new" /\ outcome = "none" /\ size = 0 /\ created = 0 /\ initialized = 0
        /\ joined = 0 /\ stop = FALSE
    BY DEF Init
  <2> QED BY <2>1, <2>2 DEF CtlType
<1>7. PcType
  BY DEF Init, PcType
<1>6. WorkType
  BY DEF Init, WorkType
<1>5. RunType /\ CallType
  BY DEF Init, NoHits, RunType, CallType
<1>2. MutexHeld /\ SubmitHeld /\ ExecutingKnown /\ Lifetime
  BY DEF Init, MutexHeld, SubmitHeld, ExecutingKnown, Lifetime, HoldsMutex, HoldsSubmit, Working
<1>3. WorkersKnown /\ SeenCurrent /\ NoLostWakeup
  BY DEF Init, WorkersKnown, SeenCurrent, NoLostWakeup, Started
<1>4. Owing = {}
  BY DEF Init, Owing, Started
<1> QED BY <1>1, <1>2, <1>3, <1>4, <1>5, <1>6, <1>7, <1>8, FS_EmptySet
         DEF Init, PendingCountsWorkers, QuietBetweenJobs

LEMMA NextControl == Control /\ [Next]_vars => Control'
<1> SUFFICES ASSUME Control, [Next]_vars PROVE Control'
  OBVIOUS
<1>1. ASSUME UNCHANGED vars PROVE Control'
  <2>1. TypeOK'
    <3>1. CtlType' /\ LockType' /\ PcType'
      BY <1>1 DEF vars, CtlType, LockType, PcType
    <3>2. WorkType' /\ RunType' /\ CallType'
      BY <1>1 DEF vars, WorkType, RunType, CallType
    <3> QED BY <3>1, <3>2
  <2>2. MutexHeld' /\ SubmitHeld' /\ ExecutingKnown' /\ Lifetime' /\ WorkersKnown'
    BY <1>1 DEF vars, MutexHeld, SubmitHeld, ExecutingKnown, Lifetime, WorkersKnown
  <2>3. SeenCurrent' /\ NoLostWakeup' /\ PendingCountsWorkers' /\ QuietBetweenJobs'
    BY <1>1 DEF vars, SeenCurrent, NoLostWakeup, PendingCountsWorkers, QuietBetweenJobs, Owing,
      Started
  <2> QED BY <2>1, <2>2, <2>3
<1>2. ASSUME Next PROVE Control'
  <2>1. CASE Create \/ Destroy
    BY <2>1, CreateControl, DestroyControl
  <2>2. CASE Rest
    BY <2>2, <1>1 DEF Rest
  <2>3. CASE \E t \in Thread : Drain(t) \/ LockSubmit(t) \/ SpuriousWake(t)
    BY <2>3, DrainControl, LockControl
  <2>4. CASE \E w \in Worker : WorkerStep(w)
    BY <2>4, WorkerControl
  <2>5. CASE \E c \in Caller : Call(c) \/ CallerStep(c)
    BY <2>5, StartControl, CallerControl DEF Call
  <2> QED BY <1>2, <2>1, <2>2, <2>3, <2>4, <2>5 DEF Next
<1> QED BY <1>1, <1>2

\* The control invariant holds throughout every behaviour of the pool.
THEOREM ControlHolds == Spec => []Control
  BY InitControl, NextControl, PTL DEF Spec

\* Every variable keeps its type: pending never wraps below zero, and no worker
\* runs a caller's code or the reverse.
THEOREM TypeCorrect == Spec => []TypeOK
<1>1. Control => TypeOK
  OBVIOUS
<1> QED BY <1>1, ControlHolds, PTL

\* pool_for waits for exactly the workers that have not gone through the job.
THEOREM PendingExact == Spec => []PendingCountsWorkers
<1>1. Control => PendingCountsWorkers
  OBVIOUS
<1> QED BY <1>1, ControlHolds, PTL

\* A caller that fills the slot has the submit mutex, so nobody is left in drain_job.
LEMMA FillsAlone == Control => SlotQuietWhenFilled
<1> SUFFICES ASSUME Control, NEW c \in Caller, pc[c] \in {"fill", "publish"}, NEW t \in Thread
             PROVE  pc[t] \notin DrainPC
  BY DEF SlotQuietWhenFilled
<1>1. \A d \in Caller : pc[d] \notin Working
  BY DEF SubmitHeld, HoldsSubmit, Working
<1>2. CASE t \in Worker
  BY <1>1, <1>2 DEF QuietBetweenJobs, Owing, Started
<1>3. CASE t \in Caller
  BY <1>1, <1>3 DEF Working
<1> QED BY <1>2, <1>3

\* While a caller rewrites the job slot, no thread is inside drain_job.
THEOREM SlotQuiet == Spec => []SlotQuietWhenFilled
  BY FillsAlone, ControlHolds, PTL

\* A thread inside a callback of the pool never queues for its submit mutex.
THEOREM ReentryIsSerial == Spec => []NoReentrantSubmission
<1>1. Control => NoReentrantSubmission
  BY DEF NoReentrantSubmission, PcType, SubmitHeld, HoldsSubmit, Working, ExecutingKnown
<1> QED BY <1>1, ControlHolds, PTL

\* Nobody sleeps through a new job, a stop or the end of the job.
THEOREM WakeupsKept == Spec => []NoLostWakeup
<1>1. Control => NoLostWakeup
  OBVIOUS
<1> QED BY <1>1, ControlHolds, PTL

\* A pool is released with every worker gone and both mutexes free.
THEOREM ReleaseIsSafe == Spec => []ReleasedUnused
<1>1. Control => ReleasedUnused
  <2> SUFFICES ASSUME Control, ctl \in {"release", "freed"}
               PROVE  /\ \A w \in Worker : pc[w] \in {"none", "exited"}
                      /\ \A c \in Caller : pc[c] = "idle"
                      /\ mutex = None /\ submit = None
    BY DEF ReleasedUnused
  <2>1. \A w \in Worker : pc[w] \in {"none", "exited"}
    BY DEF Lifetime, WorkersKnown, CtlType
  <2>2. \A c \in Caller : pc[c] = "idle"
    BY DEF Lifetime
  <2>3. mutex = None /\ submit = None
    <3>1. \A t \in Thread : pc[t] \in {"none", "exited", "idle"}
      BY <2>1, <2>2
    <3>2. mutex \notin Thread /\ mutex # Owner
      BY <3>1 DEF MutexHeld, HoldsMutex
    <3>3. submit \notin Caller
      BY <2>2 DEF SubmitHeld, HoldsSubmit, Working
    <3>4. submit \in Caller \cup {None}
      BY DEF LockType, SubmitHeld
    <3> QED BY <3>2, <3>3, <3>4 DEF LockType
  <2> QED BY <2>1, <2>2, <2>3
<1> QED BY <1>1, ControlHolds, PTL

\* No worker skips a job.
THEOREM JobsInOrder == Spec => NoGenerationSkipped
<1>1. Control /\ [Next]_vars => [\A w \in Worker : seen'[w] \in {seen[w], seen[w] + 1}]_vars
  <2> SUFFICES ASSUME Control, Next, NEW w \in Worker
               PROVE  seen'[w] \in {seen[w], seen[w] + 1}
    OBVIOUS
  <2>1. CASE \E v \in Worker : WorkerTake(v)
    <3>1. PICK v \in Worker : WorkerTake(v)
      BY <2>1
    <3>2. seen[v] = generation - 1
      BY <3>1 DEF WorkerTake, SeenCurrent, Started
    <3> QED BY <3>1, <3>2 DEF WorkerTake, RunType, WorkType
  <2>2. CASE ~ \E v \in Worker : WorkerTake(v)
    <3>1. CASE Create \/ Destroy \/ Rest
      BY <3>1 DEF Create, Destroy, Rest, Allocate, InitPrimitive, AllocHandles, Spawn, HandOut,
        BeginDestroy, SkipStop, LockStop, Stop, Join, Release, vars, RunType
    <3>2. CASE \E t \in Thread : Drain(t) \/ LockSubmit(t) \/ SpuriousWake(t)
      BY <3>2 DEF Drain, Load, TakeChunk, Drained, Claim, ClaimFails, EnterCallback, Reenter,
        NestedReturn, LeaveCallback, LockSubmit, SpuriousWake, RunType
    <3>3. CASE \E v \in Worker : WorkerStep(v)
      BY <2>2, <3>3 DEF WorkerStep, WorkerLock, WorkerWait, WorkerExit, Arrive, Finished, RunType
    <3>4. CASE \E c \in Caller : Call(c) \/ CallerStep(c)
      BY <3>4 DEF Call, CallRefused, CallEmpty, CallSerial, CallParallel, CallerStep, SerialChunk,
        SerialNext, SerialReturn, LockSlot, FillCursor, Publish, LockFinish, WaitDone, Settle,
        UnlockSubmit, RunType
    <3> QED BY <3>1, <3>2, <3>3, <3>4 DEF Next
  <2> QED BY <2>1, <2>2
<1> QED BY <1>1, ControlHolds, PTL DEF Spec, NoGenerationSkipped
=============================================================================
