------------------------ MODULE ThreadPoolInvariants ------------------------
(***************************************************************************)
(* The inductive invariants of ThreadPool: the control (who holds what, and *)
(* who owes what) and the data (what has been claimed, and by whom).        *)
(***************************************************************************)
EXTENDS ThreadPool

-----------------------------------------------------------------------------
(* The inductive invariant of the control: who holds what, and who owes what. *)

HoldsMutex  == {"check", "dec", "fill", "publish", "settle"}
Working     == DrainPC \cup {"finish", "settle", "done"}
HoldsSubmit == Working \cup {"lockSlot", "fill", "publish", "leave"}

\* A thread at a step inside a critical section of p->mutex is its holder.
MutexHeld ==
  /\ \A t \in Thread : pc[t] \in HoldsMutex <=> mutex = t
  /\ ctl = "stop" <=> mutex = Owner

\* One caller at a time is between the lock and the unlock of p->submit.
SubmitHeld == \A c \in Caller : pc[c] \in HoldsSubmit <=> submit = c

\* executing_pool is this pool exactly while a thread drains or runs serially.
ExecutingKnown ==
  \A t \in Thread : executing[t] <=> pc[t] \in DrainPC \cup {"serial", "inSerial"}

\* Calls happen between create and destroy, jobs only then, and stop only after.
Lifetime ==
  /\ \A c \in Caller : pc[c] # "idle" => ctl = "live"
  /\ ctl \in {"new", "sync", "spawn"} => generation = 0
  /\ ctl \in {"new", "sync"} => created = 0
  /\ stop => ctl \in {"join", "release", "freed"}
  /\ ctl \in {"release", "freed"} => joined = created

\* Workers are started in order, exit only after stop and are joined in order.
WorkersKnown ==
  \A w \in Worker :
    /\ pc[w] = "none" <=> w > created
    /\ pc[w] = "none" => seen[w] = 0
    /\ pc[w] = "exited" => stop
    /\ w <= joined => pc[w] = "exited"

\* A started worker has seen the current generation or the one before it, and
\* one that is inside the job has seen the current one.
SeenCurrent ==
  \A w \in Started :
    /\ seen[w] = generation \/ seen[w] = generation - 1
    /\ pc[w] \in DrainPC \cup {"arrive", "dec"} => seen[w] = generation

\* Outside a job nobody owes anything: the slot may be rewritten.
QuietBetweenJobs == (\A c \in Caller : pc[c] \notin Working) => Owing = {}

Control == /\ TypeOK /\ MutexHeld /\ SubmitHeld /\ ExecutingKnown /\ Lifetime
           /\ WorkersKnown /\ SeenCurrent /\ PendingCountsWorkers /\ QuietBetweenJobs
           /\ NoLostWakeup

-----------------------------------------------------------------------------
(* The data: the cursor, the chunks and what has been covered. *)

InSerial   == {"serial", "inSerial"}
Unclaimed  == {"submit", "lockSlot", "fill", "publish"}
Claimed(t) == pc[t] \in {"call", "in", "nested"}

\* A caller that is in pool_for has a call in progress, on a range that is not empty.
CallKnown ==
  \A c \in Caller :
    /\ pc[c] # "idle" <=> Running(c)
    /\ pc[c] # "idle" => args[c].begin < args[c].end /\ args[c].grain > 0

\* The slot holds the current call; once a thread has found it drained it stays so.
SlotKnown ==
  \A c \in Caller :
    /\ pc[c] = "publish" => job.next = args[c].begin
    /\ pc[c] \in Working =>
         /\ job.user = c /\ job.end = args[c].end /\ job.grain = args[c].grain
         /\ args[c].begin <= job.next /\ job.next <= job.end
    /\ pc[c] \in {"finish", "settle", "done"} => job.next = job.end

\* A thread never knows a cursor ahead of the slot's; a claimed chunk lies behind it.
ChunkKnown ==
  \A t \in Thread :
    /\ pc[t] \in {"take", "cas"} => lo[t] <= job.next
    /\ pc[t] = "cas" => lo[t] < job.end /\ hi[t] = ChunkEnd(lo[t], job.end, job.grain)
    /\ Claimed(t) =>
         /\ \A c \in Caller : pc[c] \in Working => args[c].begin <= lo[t]
         /\ lo[t] < hi[t] /\ hi[t] <= job.next /\ hi[t] - lo[t] <= job.grain
    /\ pc[t] \in {"in", "nested"} => user[t] = job.user

\* No index is in the chunks of two threads.
ClaimsDisjoint ==
  \A t, u \in Thread :
    t # u /\ Claimed(t) /\ Claimed(u) => hi[t] <= lo[u] \/ hi[u] <= lo[t]

\* A caller that runs serially is at an index of its range.
SerialKnown ==
  \A c \in Caller :
    /\ pc[c] \in InSerial => args[c].begin <= lo[c] /\ lo[c] <= args[c].end
    /\ pc[c] = "inSerial" => /\ lo[c] < args[c].end /\ user[c] = c
                             /\ hi[c] = ChunkEnd(lo[c], args[c].end, args[c].grain)

\* Index i is behind the cursor and in no chunk in progress.
Completed(i) == i < job.next /\ \A t \in Thread : Claimed(t) => i < lo[t] \/ hi[t] <= i

\* What a call has covered: nothing before it is published, then each index behind the
\* cursor once its chunk is completed, and all of them in the end.
HitsKnown ==
  \A c \in Caller : \A i \in Index :
    /\ pc[c] \in Unclaimed => hits[c][i] = 0
    /\ pc[c] \in InSerial =>
         hits[c][i] = IF args[c].begin <= i /\ i < lo[c] THEN 1 ELSE 0
    /\ pc[c] \in Working =>
         hits[c][i] = IF args[c].begin <= i /\ Completed(i) THEN 1 ELSE 0
    /\ pc[c] = "leave" \/ result[c] = "ok" =>
         hits[c][i] = IF args[c].begin <= i /\ i < args[c].end THEN 1 ELSE 0

Data == /\ CallKnown /\ SlotKnown /\ ChunkKnown /\ ClaimsDisjoint /\ SerialKnown
        /\ HitsKnown
=============================================================================
