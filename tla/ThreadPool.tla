----------------------------- MODULE ThreadPool -----------------------------
(***************************************************************************)
(* The task pool of src/src/tinyvdb_thread.c, built with C11 threads or    *)
(* pthreads: one pool object from its creation to its release, the workers *)
(* it starts, and application threads that submit ranges to it.            *)
(*                                                                         *)
(* A step is one access to memory that two threads share: a mutex, the     *)
(* atomic job.next, the plain fields of the job slot (which drain_job      *)
(* reads without the mutex), or one critical section once its mutex is     *)
(* held.  A condition wait joins the wait set and gives up the mutex in    *)
(* one step; whoever is woken competes for the mutex again.                *)
(***************************************************************************)
EXTENDS Integers, FiniteSets

CONSTANTS
  Caller,        \* application threads that submit work
  Owner,         \* the thread that creates and destroys the pool
  None,          \* no thread: a mutex that is free, user data not set
  MaxThreads,    \* the largest pool tvdb_thread_pool_create accepts (256)
  DefaultCount,  \* tvdb_thread_default_count() of this machine
  Counts,        \* the sizes Owner may ask for
  Index,         \* the indices a range may cover
  Ranges,        \* the (begin, end, grain) a caller may pass
  MaxCalls,      \* bound: calls made over a behaviour
  MaxSpurious    \* bound: spurious wakeups and compare-and-swap failures

Worker == 1 .. (MaxThreads - 1)      \* positions in p->workers, from 1
Thread == Caller \cup Worker
Covers(r) == r.begin .. (r.end - 1)

\* Distinct threads; a positive limit; bounds that are numbers.
ASSUME ThreadAssumption ==
  /\ MaxThreads \in Nat \ {0} /\ DefaultCount \in 1 .. MaxThreads
  /\ Counts \subseteq Nat
  /\ Caller \cap Worker = {} /\ Owner \notin Thread /\ None \notin Thread \cup {Owner}
  /\ MaxCalls \in Nat /\ MaxSpurious \in Nat

\* Ranges are of size_t and lie within the indices that are tracked.
ASSUME RangeAssumption ==
  /\ Index \subseteq Nat
  /\ Ranges \subseteq [begin : Nat, end : Nat, grain : Nat]
  /\ \A r \in Ranges : Covers(r) \subseteq Index

VARIABLES
  ctl,          \* where Owner is in create and destroy
  outcome,      \* the status tvdb_thread_pool_create returned
  size,         \* p->size
  created,      \* p->created: workers started
  initialized,  \* p->initialized: primitives set up, in order
  joined,       \* workers Owner has joined
  stop,         \* p->stop
  mutex,        \* the holder of p->mutex
  submit,       \* the holder of p->submit
  pending,      \* p->pending
  generation,   \* p->generation
  job,          \* p->job: next, end, grain, user
  pc,           \* where each thread is
  seen,         \* worker_loop's local: the last generation it took
  lo, hi,       \* the loop's locals, begin and begin + take; 0 out of scope
  user,         \* the user data the running callback was given
  executing,    \* whether the thread-local executing_pool is this pool
  args,         \* the range of each caller's current call
  hits,         \* how often each index of the current call was covered
  result,       \* what the last call of each caller returned
  calls,        \* calls made so far
  spurious      \* spurious wakeups and failures so far

ctlVars  == <<ctl, outcome, size, created, initialized, joined, stop>>
lockVars == <<mutex, submit>>
workVars == <<pending, generation, job>>
runVars  == <<seen, lo, hi, user, executing>>
callVars == <<args, hits, result, calls>>
restVars == <<lockVars, workVars, runVars, callVars, spurious>>   \* all but ctlVars, pc
vars     == <<ctlVars, pc, restVars>>

WorkerPC == {"none", "enter", "check", "ready", "arrive", "dec", "exited"}
CallerPC == {"idle", "serial", "inSerial", "lockSlot", "fill", "publish",
             "finish", "settle", "done", "leave"}
DrainPC  == {"load", "take", "cas", "call", "in", "nested"}
PC       == WorkerPC \cup CallerPC \cup DrainPC \cup {"submit"}

NoHits == [i \in Index |-> 0]

Init ==
  /\ ctl = "new" /\ outcome = "none" /\ size = 0 /\ created = 0
  /\ initialized = 0 /\ joined = 0 /\ stop = FALSE
  /\ mutex = None /\ submit = None
  /\ pending = 0 /\ generation = 0
  /\ job = [next |-> 0, end |-> 0, grain |-> 0, user |-> None]
  /\ pc = [t \in Thread |-> IF t \in Worker THEN "none" ELSE "idle"]
  /\ seen = [w \in Worker |-> 0]
  /\ lo = [t \in Thread |-> 0] /\ hi = [t \in Thread |-> 0]
  /\ user = [t \in Thread |-> None] /\ executing = [t \in Thread |-> FALSE]
  /\ args = [c \in Caller |-> [begin |-> 0, end |-> 0, grain |-> 0]]
  /\ hits = [c \in Caller |-> NoHits]
  /\ result = [c \in Caller |-> "none"]
  /\ calls = 0 /\ spurious = 0

Goto(t, l) == pc' = [pc EXCEPT ![t] = l]

\* mutex_lock and mutex_unlock of p->mutex.
Lock(t, l)   == mutex = None /\ mutex' = t /\ Goto(t, l) /\ UNCHANGED submit
Unlock(t, l) == mutex' = None /\ Goto(t, l) /\ UNCHANGED submit

\* Mutant: the condition is signalled, which wakes one waiter.
WakeOne(l, k) ==
  IF \E t \in Thread : pc[t] = l THEN [pc EXCEPT ![CHOOSE t \in Thread : pc[t] = l] = k] ELSE pc

\* condition_wake is a broadcast: everyone who waits at l goes for the mutex at k.
WakeAll(l, k) == [t \in Thread |-> IF pc[t] = l THEN k ELSE pc[t]]

\* Mutant: the last chunk is not clipped to the end of the range.
ChunkEndUnclipped(b, e, g) == b + g

\* take = min(grain, end - begin), in serial_for and in drain_job.
ChunkEnd(b, e, g) == IF e - b > g THEN b + g ELSE e

\* Mutant: the thread-local is not set.
EnteringNothing(t) == executing

\* executing_pool = job->pool, before the first callback.
Entering(t) == [executing EXCEPT ![t] = TRUE]

-----------------------------------------------------------------------------
(* tvdb_thread_pool_create, by Owner *)

\* A count above the limit is refused; calloc may fail; a pool of one thread
\* needs nothing more.
Allocate(n) ==
  /\ ctl = "new"
  /\ \/ n > MaxThreads /\ ctl' = "freed" /\ outcome' = "invalid" /\ UNCHANGED size
     \/ n <= MaxThreads /\ ctl' = "freed" /\ outcome' = "oom" /\ UNCHANGED size
     \/ /\ n <= MaxThreads
        /\ size' = IF n = 0 THEN DefaultCount ELSE n
        /\ ctl' = IF size' > 1 THEN "sync" ELSE "live"
        /\ outcome' = IF size' > 1 THEN outcome ELSE "ok"
  /\ UNCHANGED <<created, initialized, joined, stop, pc, restVars>>

\* mutex, submit, ready and done in turn; the first failure goes to destroy.
InitPrimitive ==
  /\ ctl = "sync" /\ initialized < 4
  /\ \/ initialized' = initialized + 1 /\ UNCHANGED <<ctl, outcome>>
     \/ ctl' = "destroy" /\ outcome' = "io" /\ UNCHANGED initialized
  /\ UNCHANGED <<size, created, joined, stop, pc, restVars>>

AllocHandles ==
  /\ ctl = "sync" /\ initialized = 4
  /\ \/ ctl' = "spawn" /\ UNCHANGED outcome
     \/ ctl' = "destroy" /\ outcome' = "oom"
  /\ UNCHANGED <<size, created, initialized, joined, stop, pc, restVars>>

Spawn ==
  /\ ctl = "spawn" /\ created < size - 1
  /\ \/ /\ created' = created + 1 /\ Goto(created + 1, "enter")
        /\ UNCHANGED <<ctl, outcome>>
     \/ ctl' = "destroy" /\ outcome' = "io" /\ UNCHANGED <<created, pc>>
  /\ UNCHANGED <<size, initialized, joined, stop, restVars>>

\* *out = p: from here on the callers have the pool.
HandOut ==
  /\ ctl = "spawn" /\ created = size - 1
  /\ ctl' = "live" /\ outcome' = "ok"
  /\ UNCHANGED <<size, created, initialized, joined, stop, pc, restVars>>

Create == (\E n \in Counts : Allocate(n)) \/ InitPrimitive \/ AllocHandles \/ Spawn \/ HandOut

-----------------------------------------------------------------------------
(* tvdb_thread_pool_destroy, by Owner *)

\* The contract of the header: destroy only after all calls finish.
BeginDestroy ==
  /\ ctl = "live" /\ \A c \in Caller : pc[c] = "idle"
  /\ ctl' = "destroy"
  /\ UNCHANGED <<outcome, size, created, initialized, joined, stop, pc, restVars>>

SkipStop ==
  /\ ctl = "destroy" /\ created = 0 /\ ctl' = "release"
  /\ UNCHANGED <<outcome, size, created, initialized, joined, stop, pc, restVars>>

LockStop ==
  /\ ctl = "destroy" /\ created > 0 /\ mutex = None
  /\ mutex' = Owner /\ ctl' = "stop"
  /\ UNCHANGED <<outcome, size, created, initialized, joined, stop, pc, submit, workVars,
                 runVars, callVars, spurious>>

\* The stop flag, the broadcast to the idle workers and the unlock.
Stop ==
  /\ ctl = "stop"
  /\ stop' = TRUE /\ ctl' = "join" /\ mutex' = None
  /\ pc' = WakeAll("ready", "enter")
  /\ UNCHANGED <<outcome, size, created, initialized, joined, submit, workVars, runVars,
                 callVars, spurious>>

\* Mutant: the last worker is not joined.
ToJoinShort == created - 1

ToJoin == created

Join ==
  /\ ctl = "join"
  /\ \/ /\ joined < ToJoin /\ pc[joined + 1] = "exited"
        /\ joined' = joined + 1 /\ UNCHANGED ctl
     \/ joined = ToJoin /\ ctl' = "release" /\ UNCHANGED joined
  /\ UNCHANGED <<outcome, size, created, initialized, stop, pc, restVars>>

\* The primitives that were set up are destroyed and the pool is freed.
Release ==
  /\ ctl = "release" /\ ctl' = "freed" /\ initialized' = 0
  /\ UNCHANGED <<outcome, size, created, joined, stop, pc, restVars>>

Destroy == BeginDestroy \/ SkipStop \/ LockStop \/ Stop \/ Join \/ Release

-----------------------------------------------------------------------------
(* drain_job, by the workers and by the caller of the current job *)

Load(t) ==
  /\ pc[t] = "load"
  /\ lo' = [lo EXCEPT ![t] = job.next] /\ Goto(t, "take")
  /\ UNCHANGED <<ctlVars, lockVars, workVars, seen, hi, user, executing, callVars, spurious>>

TakeChunk(t) ==
  /\ pc[t] = "take" /\ lo[t] < job.end
  /\ hi' = [hi EXCEPT ![t] = ChunkEnd(lo[t], job.end, job.grain)] /\ Goto(t, "cas")
  /\ UNCHANGED <<ctlVars, lockVars, workVars, seen, lo, user, executing, callVars, spurious>>

Drained(t) ==
  /\ pc[t] = "take" /\ lo[t] >= job.end
  /\ executing' = [executing EXCEPT ![t] = FALSE] /\ lo' = [lo EXCEPT ![t] = 0]
  /\ Goto(t, IF t \in Worker THEN "arrive" ELSE "finish")
  /\ UNCHANGED <<ctlVars, lockVars, workVars, seen, hi, user, callVars, spurious>>

\* Mutant: the cursor is stored without comparing it.
CursorStored(t) == TRUE

CursorUnmoved(t) == job.next = lo[t]

Claim(t) ==
  /\ pc[t] = "cas" /\ CursorUnmoved(t)
  /\ job' = [job EXCEPT !.next = hi[t]] /\ Goto(t, "call")
  /\ UNCHANGED <<ctlVars, lockVars, pending, generation, runVars, callVars, spurious>>

\* The exchange fails because job.next moved, or, being weak, for no reason.
ClaimFails(t) ==
  /\ pc[t] = "cas"
  /\ \/ job.next # lo[t] /\ UNCHANGED spurious
     \/ job.next = lo[t] /\ spurious < MaxSpurious /\ spurious' = spurious + 1
  /\ lo' = [lo EXCEPT ![t] = job.next] /\ hi' = [hi EXCEPT ![t] = 0] /\ Goto(t, "take")
  /\ UNCHANGED <<ctlVars, lockVars, workVars, seen, user, executing, callVars>>

\* The callback is entered with the user data the slot holds now.
EnterCallback(t) ==
  /\ pc[t] = "call"
  /\ user' = [user EXCEPT ![t] = job.user] /\ Goto(t, "in")
  /\ UNCHANGED <<ctlVars, lockVars, workVars, seen, lo, hi, executing, callVars, spurious>>

\* A callback calls tvdb_thread_pool_for on this pool again: serially when
\* executing_pool says so, otherwise as a new submission.
Reenter(t) ==
  /\ pc[t] = "in" /\ Goto(t, IF executing[t] THEN "nested" ELSE "submit")
  /\ UNCHANGED <<ctlVars, lockVars, workVars, runVars, callVars, spurious>>

NestedReturn(t) ==
  /\ pc[t] = "nested" /\ Goto(t, "in")
  /\ UNCHANGED <<ctlVars, lockVars, workVars, runVars, callVars, spurious>>

\* The callback of t for the call of c covers the indices of t's chunk.
Cover(c, t) ==
  hits' = [hits EXCEPT ![c] = [i \in Index |->
             IF lo[t] <= i /\ i < hi[t] THEN hits[c][i] + 1 ELSE hits[c][i]]]

LeaveCallback(t) ==
  /\ pc[t] = "in" /\ user[t] \in Caller
  /\ Cover(user[t], t) /\ Goto(t, "load")
  /\ lo' = [lo EXCEPT ![t] = 0] /\ hi' = [hi EXCEPT ![t] = 0] /\ user' = [user EXCEPT ![t] = None]
  /\ UNCHANGED <<ctlVars, lockVars, workVars, seen, executing, args, result, calls, spurious>>

Drain(t) == \/ Load(t) \/ TakeChunk(t) \/ Drained(t) \/ Claim(t) \/ ClaimFails(t)
            \/ EnterCallback(t) \/ Reenter(t) \/ NestedReturn(t) \/ LeaveCallback(t)

-----------------------------------------------------------------------------
(* worker_loop *)

WorkerLock(w) ==
  /\ pc[w] = "enter" /\ Lock(w, "check")
  /\ UNCHANGED <<ctlVars, workVars, runVars, callVars, spurious>>

WorkerWait(w) ==
  /\ pc[w] = "check" /\ ~stop /\ seen[w] = generation /\ Unlock(w, "ready")
  /\ UNCHANGED <<ctlVars, workVars, runVars, callVars, spurious>>

WorkerExit(w) ==
  /\ pc[w] = "check" /\ stop /\ Unlock(w, "exited")
  /\ UNCHANGED <<ctlVars, workVars, runVars, callVars, spurious>>

WorkerTake(w) ==
  /\ pc[w] = "check" /\ ~stop /\ seen[w] # generation
  /\ seen' = [seen EXCEPT ![w] = generation]
  /\ executing' = Entering(w) /\ Unlock(w, "load")
  /\ UNCHANGED <<ctlVars, workVars, lo, hi, user, callVars, spurious>>

Arrive(w) ==
  /\ pc[w] = "arrive" /\ Lock(w, "dec")
  /\ UNCHANGED <<ctlVars, workVars, runVars, callVars, spurious>>

\* --pending, and the last worker wakes the caller.
Finished(w) ==
  /\ pc[w] = "dec" /\ pending' = pending - 1
  /\ pc' = [(IF pending' = 0 THEN WakeAll("done", "finish") ELSE pc) EXCEPT ![w] = "check"]
  /\ UNCHANGED <<ctlVars, lockVars, generation, job, runVars, callVars, spurious>>

WorkerStep(w) == \/ WorkerLock(w) \/ WorkerWait(w) \/ WorkerExit(w) \/ WorkerTake(w)
                 \/ Arrive(w) \/ Finished(w)

-----------------------------------------------------------------------------
(* tvdb_thread_pool_for, by a caller that is not in a callback *)

IsParallel(r) == size > 1 /\ r.end - r.begin > r.grain

Begin(c, r) ==
  /\ ctl = "live" /\ pc[c] = "idle" /\ calls < MaxCalls /\ calls' = calls + 1
  /\ args' = [args EXCEPT ![c] = r] /\ hits' = [hits EXCEPT ![c] = NoHits]

\* Invalid and empty ranges return at once.
CallRefused(c, r) ==
  /\ Begin(c, r) /\ (r.grain = 0 \/ r.begin > r.end)
  /\ result' = [result EXCEPT ![c] = "invalid"]
  /\ UNCHANGED <<ctlVars, pc, lockVars, workVars, runVars, spurious>>

CallEmpty(c, r) ==
  /\ Begin(c, r) /\ r.grain > 0 /\ r.begin = r.end
  /\ result' = [result EXCEPT ![c] = "ok"]
  /\ UNCHANGED <<ctlVars, pc, lockVars, workVars, runVars, spurious>>

CallSerial(c, r) ==
  /\ Begin(c, r) /\ r.grain > 0 /\ r.begin < r.end /\ ~IsParallel(r)
  /\ result' = [result EXCEPT ![c] = "running"]
  /\ lo' = [lo EXCEPT ![c] = r.begin] /\ executing' = Entering(c)
  /\ Goto(c, "serial")
  /\ UNCHANGED <<ctlVars, lockVars, workVars, seen, hi, user, spurious>>

CallParallel(c, r) ==
  /\ Begin(c, r) /\ r.grain > 0 /\ r.begin < r.end /\ IsParallel(r)
  /\ result' = [result EXCEPT ![c] = "running"] /\ Goto(c, "submit")
  /\ UNCHANGED <<ctlVars, lockVars, workVars, runVars, spurious>>

\* serial_for: one callback at a time on the caller's thread.
SerialChunk(c) ==
  /\ pc[c] = "serial" /\ lo[c] < args[c].end
  /\ hi' = [hi EXCEPT ![c] = ChunkEnd(lo[c], args[c].end, args[c].grain)]
  /\ user' = [user EXCEPT ![c] = c] /\ Goto(c, "inSerial")
  /\ UNCHANGED <<ctlVars, lockVars, workVars, seen, lo, executing, callVars, spurious>>

SerialNext(c) ==
  /\ pc[c] = "inSerial" /\ Cover(c, c)
  /\ lo' = [lo EXCEPT ![c] = hi[c]] /\ hi' = [hi EXCEPT ![c] = 0]
  /\ user' = [user EXCEPT ![c] = None] /\ Goto(c, "serial")
  /\ UNCHANGED <<ctlVars, lockVars, workVars, seen, executing, args, result, calls, spurious>>

SerialReturn(c) ==
  /\ pc[c] = "serial" /\ lo[c] >= args[c].end
  /\ executing' = [executing EXCEPT ![c] = FALSE] /\ lo' = [lo EXCEPT ![c] = 0]
  /\ result' = [result EXCEPT ![c] = "ok"] /\ Goto(c, "idle")
  /\ UNCHANGED <<ctlVars, lockVars, workVars, seen, hi, user, args, hits, calls, spurious>>

\* Mutant: submissions are not serialized.
SubmitOpen == TRUE

SubmitFree == submit = None

LockSubmit(t) ==
  /\ pc[t] = "submit" /\ SubmitFree
  /\ submit' = t /\ Goto(t, "lockSlot") /\ UNCHANGED mutex
  /\ UNCHANGED <<ctlVars, workVars, runVars, callVars, spurious>>

LockSlot(c) ==
  /\ pc[c] = "lockSlot" /\ Lock(c, "fill")
  /\ UNCHANGED <<ctlVars, workVars, runVars, callVars, spurious>>

\* The slot is written field by field: first the cursor, then the rest.
FillCursor(c) ==
  /\ pc[c] = "fill" /\ job' = [job EXCEPT !.next = args[c].begin] /\ Goto(c, "publish")
  /\ UNCHANGED <<ctlVars, lockVars, pending, generation, runVars, callVars, spurious>>

\* Mutants: one worker is not counted; the caller is counted too.
ExpectedShort == created - 1
ExpectedAll   == size

Expected == created

\* The rest of the slot, the counters, the broadcast and the unlock.
Publish(c) ==
  /\ pc[c] = "publish"
  /\ job' = [job EXCEPT !.end = args[c].end, !.grain = args[c].grain, !.user = c]
  /\ pending' = Expected /\ generation' = generation + 1
  /\ mutex' = None /\ UNCHANGED submit
  /\ pc' = [WakeAll("ready", "enter") EXCEPT ![c] = "load"]
  /\ executing' = Entering(c)
  /\ UNCHANGED <<ctlVars, seen, lo, hi, user, callVars, spurious>>

LockFinish(c) ==
  /\ pc[c] = "finish" /\ Lock(c, "settle")
  /\ UNCHANGED <<ctlVars, workVars, runVars, callVars, spurious>>

\* Mutant: the caller does not wait for the last worker.
AlmostArrived == pending <= 1

AllArrived == pending = 0

WaitDone(c) ==
  /\ pc[c] = "settle" /\ ~AllArrived /\ Unlock(c, "done")
  /\ UNCHANGED <<ctlVars, workVars, runVars, callVars, spurious>>

Settle(c) ==
  /\ pc[c] = "settle" /\ AllArrived /\ Unlock(c, "leave")
  /\ UNCHANGED <<ctlVars, workVars, runVars, callVars, spurious>>

UnlockSubmit(c) ==
  /\ pc[c] = "leave" /\ submit' = None /\ UNCHANGED mutex
  /\ result' = [result EXCEPT ![c] = "ok"] /\ Goto(c, "idle")
  /\ UNCHANGED <<ctlVars, workVars, runVars, args, hits, calls, spurious>>

CallerStep(c) == \/ SerialChunk(c) \/ SerialNext(c) \/ SerialReturn(c)
                 \/ LockSlot(c) \/ FillCursor(c) \/ Publish(c)
                 \/ LockFinish(c) \/ WaitDone(c) \/ Settle(c) \/ UnlockSubmit(c)

-----------------------------------------------------------------------------
\* A waiter may wake without a broadcast.
SpuriousWake(t) ==
  /\ spurious < MaxSpurious /\ spurious' = spurious + 1
  /\ \/ pc[t] = "ready" /\ Goto(t, "enter")
     \/ pc[t] = "done" /\ Goto(t, "finish")
  /\ UNCHANGED <<ctlVars, lockVars, workVars, runVars, callVars>>

\* Everything is over: the pool is gone and every thread is at rest.
Rest ==
  /\ ctl = "freed" /\ \A c \in Caller : pc[c] = "idle"
  /\ UNCHANGED vars

Call(c) == \E r \in Ranges : \/ CallRefused(c, r) \/ CallEmpty(c, r)
                             \/ CallSerial(c, r) \/ CallParallel(c, r)

Next ==
  \/ Create \/ Destroy \/ Rest
  \/ \E t \in Thread : Drain(t) \/ LockSubmit(t) \/ SpuriousWake(t)
  \/ \E w \in Worker : WorkerStep(w)
  \/ \E c \in Caller : Call(c) \/ CallerStep(c)

Spec == Init /\ [][Next]_vars

(***************************************************************************)
(* Threads are scheduled, callbacks return, and Owner finishes a destroy   *)
(* it began.  Nobody has to call the pool or to destroy it, and nothing is *)
(* asked of the mutexes: calls and spurious events are finite in number,   *)
(* so each is acquired finitely often and weak fairness reaches everyone.  *)
(***************************************************************************)
Progress(t) == \/ Load(t) \/ TakeChunk(t) \/ Drained(t) \/ Claim(t) \/ ClaimFails(t)
               \/ EnterCallback(t) \/ NestedReturn(t) \/ LockSubmit(t)

Fairness ==
  /\ WF_vars(Create)
  /\ WF_vars(SkipStop \/ LockStop \/ Stop \/ Join \/ Release)
  /\ \A t \in Thread : WF_vars(Progress(t)) /\ SF_vars(LeaveCallback(t))
  /\ \A w \in Worker : WF_vars(WorkerStep(w))
  /\ \A c \in Caller : WF_vars(CallerStep(c))

FairSpec == Spec /\ Fairness

-----------------------------------------------------------------------------
(* Properties *)

\* Calls in progress, threads inside a callback, and workers that have yet to
\* pass the end of the current job.
Running(c)   == result[c] = "running"
InCallback   == {t \in Thread : pc[t] \in {"in", "nested", "inSerial"}}
Started      == {w \in Worker : pc[w] # "none"}
Owing        == {w \in Started : \/ seen[w] # generation
                                \/ pc[w] \in DrainPC \cup {"arrive", "dec"}}
Chunk(t)     == lo[t] .. (hi[t] - 1)

CtlType ==
  /\ ctl \in {"new", "sync", "spawn", "live", "destroy", "stop", "join", "release", "freed"}
  /\ outcome \in {"none", "ok", "io", "oom", "invalid"}
  /\ size \in 0 .. MaxThreads /\ created \in 0 .. (MaxThreads - 1)
  /\ initialized \in 0 .. 4 /\ joined \in 0 .. created /\ stop \in BOOLEAN
LockType == mutex \in Thread \cup {Owner, None} /\ submit \in Caller \cup {None}
WorkType ==
  /\ pending \in Nat /\ generation \in Nat
  /\ job \in [next : Nat, end : Nat, grain : Nat, user : Caller \cup {None}]
PcType ==
  /\ pc \in [Thread -> PC]
  /\ \A w \in Worker : pc[w] \in WorkerPC \cup DrainPC
  /\ \A c \in Caller : pc[c] \in CallerPC \cup DrainPC \cup {"submit"}
RunType ==
  /\ seen \in [Worker -> Nat] /\ lo \in [Thread -> Nat] /\ hi \in [Thread -> Nat]
  /\ user \in [Thread -> Caller \cup {None}] /\ executing \in [Thread -> BOOLEAN]
CallType ==
  /\ args \in [Caller -> [begin : Nat, end : Nat, grain : Nat]]
  /\ hits \in [Caller -> [Index -> Nat]]
  /\ result \in [Caller -> {"none", "running", "ok", "invalid"}]
  /\ calls \in Nat /\ spurious \in Nat

\* Every variable keeps its type: in particular pending, a size_t, never wraps,
\* and neither a worker nor a caller strays into the other's code.
TypeOK == CtlType /\ LockType /\ WorkType /\ PcType /\ RunType /\ CallType

\* The job slot is rewritten, field by field, only while no thread is inside
\* drain_job, which reads it without the mutex: nobody mixes two jobs.
SlotQuietWhenFilled ==
  \A c \in Caller : pc[c] \in {"fill", "publish"} => \A t \in Thread : pc[t] \notin DrainPC

\* pending is the number of started workers that have not yet gone through the
\* current job, so the caller that waits for zero waits for exactly those.
PendingCountsWorkers == pending = Cardinality(Owing)

\* "Each index in [begin,end) is covered exactly once": when a call returns, a
\* callback has completed once for every index of its range and for no other.
CoveredExactlyOnce ==
  \A c \in Caller : result[c] = "ok" =>
    hits[c] = [i \in Index |-> IF i \in Covers(args[c]) THEN 1 ELSE 0]

\* "by disjoint ranges of at most grain indices": two callbacks in progress for
\* one call never share an index, and none is longer than the call's grain.
ChunksDisjoint ==
  \A t \in InCallback :
    /\ hi[t] - lo[t] <= args[user[t]].grain
    /\ \A u \in InCallback \ {t} : user[u] = user[t] => Chunk(t) \cap Chunk(u) = {}

\* "Returns after all callbacks complete": a callback runs only while the call
\* whose user data it was given is still in progress.
NoCallbackAfterReturn == \A t \in InCallback : Running(user[t])

\* "Reentrant calls on the same pool run serially": a thread that is inside a
\* callback of the pool never queues for the submit mutex, which is held by the
\* call it belongs to and would never be released.
NoReentrantSubmission ==
  \A t \in Thread : pc[t] = "submit" => t \in Caller /\ submit # t /\ ~executing[t]

\* The pool is released only when every worker that was started has left it and
\* no thread holds one of its mutexes, also after a creation that failed halfway.
ReleasedUnused ==
  ctl \in {"release", "freed"} =>
    /\ \A w \in Worker : pc[w] \in {"none", "exited"}
    /\ \A c \in Caller : pc[c] = "idle"
    /\ mutex = None /\ submit = None

\* A worker passes through every generation one by one: it never skips a job,
\* which would leave the job's caller waiting for it.
NoGenerationSkipped ==
  [][\A w \in Worker : seen'[w] \in {seen[w], seen[w] + 1}]_vars

\* No wakeup is lost: a worker that sleeps has seen the current generation and no
\* stop, and a caller that sleeps still has a worker to wait for.
NoLostWakeup ==
  /\ \A w \in Worker : pc[w] = "ready" => seen[w] = generation /\ ~stop
  /\ \A c \in Caller : pc[c] = "done" => pending # 0

\* Every call returns, whatever workers, broadcasts and spurious wakeups do.
CallsReturn == \A c \in Caller : Running(c) ~> ~Running(c)

\* A destroy that was begun ends: every worker notices stop and is joined.
DestroyCompletes == ctl = "destroy" ~> ctl = "freed"

-----------------------------------------------------------------------------
(* The pool implements ParallelFor. *)

InJob(c) == pc[c] \in DrainPC \cup {"finish", "settle", "done"}

\* The indices of each caller's range that no callback was started for.
Todo == [c \in Caller |->
  CASE pc[c] \in {"idle", "leave"} -> {}
    [] InJob(c)                   -> job.next .. (job.end - 1)
    [] pc[c] = "serial"           -> lo[c] .. (args[c].end - 1)
    [] pc[c] = "inSerial"         -> hi[c] .. (args[c].end - 1)
    [] OTHER                      -> Covers(args[c])]

Serves(t, c) == \/ pc[t] = "call" /\ job.user = c
                \/ t \in InCallback /\ user[t] = c

\* The chunks of each caller's range whose callback is running or about to.
Active == [c \in Caller |-> {<<lo[t], hi[t]>> : t \in {u \in Thread : Serves(u, c)}}]

Promise == INSTANCE ParallelFor WITH
  status <- result, range <- args, todo <- Todo, active <- Active

\* Every behaviour of the pool, seen as calls with chunks to do and chunks in
\* progress, is one the header's contract allows.
KeepsPromise == Promise!Spec
=============================================================================
