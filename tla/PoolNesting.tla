----------------------------- MODULE PoolNesting ----------------------------
(***************************************************************************)
(* Several pools of tinyvdb_thread.c whose callbacks submit work: call     *)
(* stacks, and the thread-local executing_pool that decides whether a call *)
(* runs serially.  ThreadPool has the interleavings inside one pool; here  *)
(* a job is a number of chunks and joining or leaving it is one step.      *)
(***************************************************************************)
EXTENDS Integers, Sequences

CONSTANTS
  App,       \* application threads
  Pools,     \* the pools, all of more than one thread
  Workers,   \* the workers of each pool
  NoPool,    \* executing_pool outside every pool
  Nobody,    \* a free submit mutex
  Nests,     \* <<p, q>>: callbacks run by p may call pool_for on q
  Chunks,    \* the numbers of chunks a call may have
  MaxCalls   \* bound: calls made over a behaviour

Thread == App \cup UNION {Workers[p] : p \in Pools}

ASSUME PoolAssumption ==
  /\ \A p \in Pools : Workers[p] # {} /\ Workers[p] \cap App = {}
  /\ \A p, q \in Pools : p # q => Workers[p] \cap Workers[q] = {}
  /\ Nests \subseteq Pools \X Pools /\ Chunks \subseteq Nat \ {0} /\ MaxCalls \in Nat

VARIABLES
  stack,      \* the frames of pool_for and drain_job of each thread
  executing,  \* executing_pool of each thread
  submit,     \* the holder of each pool's submit mutex
  todo,       \* unclaimed chunks of each pool's job
  pending,    \* workers that still have to go through each pool's job
  calls       \* calls made so far

vars == <<stack, executing, submit, todo, pending, calls>>

Init ==
  /\ stack = [t \in Thread |-> <<>>]
  /\ executing = [t \in Thread |-> NoPool]
  /\ submit = [p \in Pools |-> Nobody]
  /\ todo = [p \in Pools |-> 0]
  /\ pending = [p \in Pools |-> {}]
  /\ calls = 0

Top(t)     == stack[t][Len(stack[t])]
At(t, l)   == stack[t] # <<>> /\ Top(t).pc = l
Push(t, k, p, l, n) ==
  stack' = [stack EXCEPT ![t] = Append(@, [kind |-> k, pool |-> p, pc |-> l, left |-> n,
                                           saved |-> executing[t]])]
Pop(t)     == stack' = [stack EXCEPT ![t] = SubSeq(@, 1, Len(@) - 1)]
Goto(t, l) == stack' = [stack EXCEPT ![t][Len(stack[t])].pc = l]
Enter(t, p) == executing' = [executing EXCEPT ![t] = p]

\* Mutant: executing_pool is reset when a pool is left.
LeaveReset(t) == executing' = [executing EXCEPT ![t] = NoPool]

\* executing_pool = previous.
Leave(t) == executing' = [executing EXCEPT ![t] = Top(t).saved]

\* Mutant: only the number of chunks decides.
SerialIfSmall(t, p, n) == n = 1

\* pool_for runs a call serially when it is one chunk or when executing_pool is
\* the pool it is for.
Serial(t, p, n) == n = 1 \/ executing[t] = p

\* A call from the top level of an application thread or from a callback.
Call(t, p, n) ==
  /\ IF stack[t] = <<>> THEN t \in App ELSE At(t, "in") /\ <<Top(t).pool, p>> \in Nests
  /\ calls < MaxCalls /\ calls' = calls + 1
  /\ IF Serial(t, p, n) THEN Push(t, "serial", p, "loop", n) /\ Enter(t, p)
                        ELSE Push(t, "caller", p, "submit", n) /\ UNCHANGED executing
  /\ UNCHANGED <<submit, todo, pending>>

\* The submit mutex, the job slot and the broadcast; then the caller drains.
Submit(t) ==
  /\ At(t, "submit") /\ submit[Top(t).pool] = Nobody
  /\ LET p == Top(t).pool IN
       /\ submit' = [submit EXCEPT ![p] = t] /\ todo' = [todo EXCEPT ![p] = Top(t).left]
       /\ pending' = [pending EXCEPT ![p] = Workers[p]] /\ Enter(t, p)
  /\ Goto(t, "loop") /\ UNCHANGED calls

\* An idle worker notices the job.
Enlist(p, w) ==
  /\ w \in pending[p] /\ stack[w] = <<>>
  /\ Push(w, "worker", p, "loop", 0) /\ Enter(w, p)
  /\ UNCHANGED <<submit, todo, pending, calls>>

\* Mutant: the claim does not look at the end of the range.
ChunkLeftAlways(p) == TRUE

\* begin < job->end
ChunkLeft(p) == todo[p] > 0

\* drain_job claims a chunk of the job, serial_for takes the next of its own;
\* either runs the callback.
Claim(t) ==
  /\ At(t, "loop") /\ Top(t).kind # "serial" /\ ChunkLeft(Top(t).pool)
  /\ todo' = [todo EXCEPT ![Top(t).pool] = @ - 1] /\ Goto(t, "in")
  /\ UNCHANGED <<executing, submit, pending, calls>>

NextChunk(t) ==
  /\ At(t, "loop") /\ Top(t).kind = "serial" /\ Top(t).left > 0
  /\ stack' = [stack EXCEPT ![t][Len(stack[t])].pc = "in",
                           ![t][Len(stack[t])].left = @ - 1]
  /\ UNCHANGED <<executing, submit, todo, pending, calls>>

CallbackReturns(t) ==
  /\ At(t, "in") /\ Goto(t, "loop")
  /\ UNCHANGED <<executing, submit, todo, pending, calls>>

SerialReturns(t) ==
  /\ At(t, "loop") /\ Top(t).kind = "serial" /\ Top(t).left = 0
  /\ Pop(t) /\ Leave(t) /\ UNCHANGED <<submit, todo, pending, calls>>

\* A worker found no chunk left: it goes back to worker_loop.
WorkerLeaves(t) ==
  /\ At(t, "loop") /\ Top(t).kind = "worker" /\ todo[Top(t).pool] = 0
  /\ pending' = [pending EXCEPT ![Top(t).pool] = @ \ {t}]
  /\ Pop(t) /\ Leave(t) /\ UNCHANGED <<submit, todo, calls>>

\* The caller found no chunk left: it waits for the workers and returns.
CallerDrained(t) ==
  /\ At(t, "loop") /\ Top(t).kind = "caller" /\ todo[Top(t).pool] = 0
  /\ Goto(t, "wait") /\ Leave(t) /\ UNCHANGED <<submit, todo, pending, calls>>

CallerReturns(t) ==
  /\ At(t, "wait") /\ pending[Top(t).pool] = {}
  /\ submit' = [submit EXCEPT ![Top(t).pool] = Nobody]
  /\ Pop(t) /\ UNCHANGED <<executing, todo, pending, calls>>

\* All threads are back where they started.
Rest == (\A t \in Thread : stack[t] = <<>>) /\ (\A p \in Pools : pending[p] = {}) /\ UNCHANGED vars

Step(t) == \/ Submit(t) \/ Claim(t) \/ NextChunk(t) \/ SerialReturns(t)
           \/ WorkerLeaves(t) \/ CallerDrained(t) \/ CallerReturns(t)

Next == \/ Rest
        \/ \E t \in Thread : \/ Step(t) \/ CallbackReturns(t)
                             \/ \E p \in Pools, n \in Chunks : Call(t, p, n)
        \/ \E p \in Pools : \E w \in Workers[p] : Enlist(p, w)

Spec == Init /\ [][Next]_vars

\* Threads are scheduled, callbacks return and idle workers notice jobs.
FairSpec == /\ Spec
            /\ \A t \in Thread : WF_vars(Step(t)) /\ SF_vars(CallbackReturns(t))
            /\ \A p \in Pools : \A w \in Workers[p] : WF_vars(Enlist(p, w))

-----------------------------------------------------------------------------
(* Properties *)

Frame == [kind : {"serial", "caller", "worker"}, pool : Pools,
          pc : {"submit", "loop", "in", "wait"}, left : Nat, saved : Pools \cup {NoPool}]

\* Every variable keeps its type; no job hands out more chunks than it has, and only
\* a worker's lowest frame serves a job as a worker.
TypeOK ==
  /\ stack \in [Thread -> Seq(Frame)]
  /\ \A t \in Thread : \A i \in 1 .. Len(stack[t]) :
       stack[t][i].kind = "worker" => i = 1 /\ t \in Workers[stack[t][i].pool]
  /\ executing \in [Thread -> Pools \cup {NoPool}]
  /\ submit \in [Pools -> Thread \cup {Nobody}] /\ todo \in [Pools -> Nat]
  /\ pending \in [Pools -> SUBSET Thread] /\ \A p \in Pools : pending[p] \subseteq Workers[p]
  /\ calls \in 0 .. MaxCalls

\* The pool whose callback the thread is in, or that is draining on it.
Innermost(t, n) ==
  LET live == {i \in 1 .. n : stack[t][i].pc \in {"loop", "in"}}
  IN  IF live = {} THEN NoPool ELSE stack[t][CHOOSE i \in live : \A j \in live : j <= i].pool

\* executing_pool is always the pool of the innermost frame that is running
\* callbacks: leaving a nested call brings back the pool of the one around it.
ExecutingIsInnermost == \A t \in Thread : executing[t] = Innermost(t, Len(stack[t]))

\* "Reentrant calls on the same pool run serially": no thread waits for the submit
\* mutex of a pool while a frame of its own is inside that pool's job, which cannot
\* end, and so give the mutex back, before the wait does.
ReentrantRunsSerially ==
  \A t \in Thread : At(t, "submit") =>
    \A i \in 1 .. (Len(stack[t]) - 1) :
      stack[t][i].pool = Top(t).pool => stack[t][i].kind = "serial"

\* Every call returns, at any depth, when pools are nested in one order only.
CallsReturn == \A t \in App : stack[t] # <<>> ~> stack[t] = <<>>
=============================================================================
