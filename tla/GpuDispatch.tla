----------------------------- MODULE GpuDispatch ----------------------------
(***************************************************************************)
(* The Vulkan dispatch engine of tinyvdb_gpu.c: tvdb_vk_dispatch with its  *)
(* pipeline cache, its ring of deferred submissions and its failure ladder,*)
(* and the callers of it: tvdb_gpu_dispatch (synchronous and deferred),    *)
(* tvdb_gpu_dispatch_flush, tvdb_gpu_context_destroy, and the operators    *)
(* that queue several dispatches and flush once ("chain"), some of them    *)
(* with descriptor sets of their own ("preset").  One host thread runs the *)
(* calls, one Vulkan call after the other; the device finishes submissions *)
(* when it likes, and may be lost; a wait may fail for that or any other   *)
(* reason.                                                                 *)
(***************************************************************************)
EXTENDS Integers, FiniteSets

CONSTANTS
  Kinds,        \* the kinds of call the application makes
  Shapes,       \* pairs of a shader and its descriptor types
  Links,        \* dispatches in a chain
  PendingMax,   \* TVDB_VK_PENDING_MAX
  DeferMax,     \* TVDB_GPU_DEFER_MAX
  CacheMax,     \* TVDB_VK_PIPELINE_CACHE_MAX
  Failing,      \* <<kind, i, step>>: the Vulkan calls that may fail, waits included
  DeviceLoss,   \* whether the device may be lost
  MaxCalls      \* bound: calls the application makes

Call   == 1..MaxCalls
Single == {"now", "defer"}
Chain  == {"chain", "preset"}
Labels == {"idle", "buffers", "presets", "drain", "pipeline", "set", "cmd", "fence",
           "record", "submit", "park", "wait", "back", "flush", "cleanup", "destroy", "gone"}

\* A submission: the i-th dispatch of call k, and the number of its descriptor set.
Job == Call \X (1..Links) \X (-1..Links)

\* A Vulkan object.  All the buffers of a call are one object: <<"buffers", k, 0>>.
Object == {"buffers", "fence", "cmd", "set"} \X Call \X (-1..Links)

ASSUME DispatchAssumption ==
  /\ Kinds \subseteq Single \cup Chain \cup {"flush", "destroy"}
  /\ Links \in Nat \ {0} /\ PendingMax \in Nat \ {0} /\ DeferMax \in Nat
  /\ CacheMax \in Nat /\ MaxCalls \in Nat /\ DeviceLoss \in BOOLEAN

VARIABLES
  pc,        \* the next Vulkan call of the host
  op,        \* the call it is in: number k, kind, dispatch i, defer_wait, status so far
  cache,     \* the shapes of the pipeline cache
  pending,   \* the parked submissions (pending_fence, pending_cmd, pending_set)
  queue,     \* the calls whose buffers and outputs the deferred queue holds
  live,      \* the Vulkan objects that exist
  twice,     \* objects released while they did not exist
  flight,    \* submissions the device has not finished
  ran,       \* submissions it has finished
  lost,      \* the device is lost
  unwaited,  \* history: the calls that a wait which failed was for
  outcome,   \* what the application is told of each call: by itself, then by the flush
  output     \* what each call's output array holds

host   == <<pc, op>>
ctx    == <<cache, pending, queue>>
vulkan == <<live, twice>>
work   == <<flight, ran, lost>>
device == <<work, unwaited>>
answer == <<outcome, output>>
vars   == <<host, ctx, vulkan, device, answer>>

Init ==
  /\ pc = "idle" /\ op = [k |-> 0, kind |-> "flush", i |-> 1, defer |-> FALSE, ok |-> TRUE]
  /\ cache = {} /\ pending = {} /\ queue = {}
  /\ live = {} /\ twice = {}
  /\ flight = {} /\ ran = {} /\ lost = FALSE /\ unwaited = {}
  /\ outcome = [k \in Call |-> "none"] /\ output = [k \in Call |-> "untouched"]

---------------------------------------------------------------------------
(* Vulkan objects *)

Buffers(k)  == <<"buffers", k, 0>>
Fence(j)    == <<"fence", j[1], j[2]>>
Cmd(j)      == <<"cmd", j[1], j[2]>>
SetOf(j)    == <<"set", j[1], j[3]>>
IsPreset(j) == j[3] \leq 0

\* The two sets a preset caller builds once and alternates between.
Presets(k) == {<<"set", k, -1>>, <<"set", k, 0>>}

\* The dispatch the host is in, with d->preset_set when there is one.
Now == <<op.k, op.i, IF op.kind = "preset" THEN (op.i % 2) - 1 ELSE op.i>>

Create(S)  == live' = live \cup S /\ UNCHANGED twice
Destroy(S) == live' = live \ S /\ twice' = twice \cup (S \ live)

\* Mutant: the descriptor set is not returned to the pool.
HeldFenceOnly(j) == {Fence(j), Cmd(j)}

\* What a finished or parked submission holds: a preset set is its caller's.
Held(j) == {Fence(j), Cmd(j)} \cup (IF IsPreset(j) THEN {} ELSE {SetOf(j)})

\* What the ring, or the deferred queue, will release.
HeldBy(S)     == UNION {Held(j) : j \in S}
BuffersOf(ks) == {Buffers(k) : k \in ks}

\* Mutant: the failure ladder has one label.
UnwoundAll(l) == {Fence(Now), Cmd(Now), SetOf(Now)}

\* The objects released when tvdb_vk_dispatch fails at step l.
Unwound(l) == (IF l \in {"record", "submit", "park", "wait"} THEN {Fence(Now)} ELSE {})
                \cup (IF l = "set" THEN {} ELSE {SetOf(Now)})
                \cup (IF l \in {"set", "cmd"} THEN {} ELSE {Cmd(Now)})

\* Mutant: VK_FALSE for waitAll.
SignalledAny(S) == S = {} \/ \E j \in S : j \in ran

\* vkWaitForFences returns VK_SUCCESS: every fence is signalled.
Signalled(S) == S \subseteq ran

MayFail(l) == <<op.kind, op.i, l>> \in Failing

\* It returns an error: the device is lost, or whatever else the driver says.
Broken(S) == S # {} /\ (MayFail(pc) \/ (lost /\ ~ S \subseteq ran))

CallsOf(S) == {j[1] : j \in S}

\* The host waits for the submissions S on behalf of the calls ks, with good luck or bad.
Waited(S, ks, good) ==
  IF good THEN Signalled(S) /\ UNCHANGED unwaited
          ELSE Broken(S) /\ unwaited' = unwaited \cup ks

---------------------------------------------------------------------------
(* The host: one action per Vulkan call *)

Goto(l) == pc' = l /\ UNCHANGED op

\* tvdb_vk_dispatch returns to its caller.
Return(ok) == pc' = "back" /\ op' = [op EXCEPT !.ok = ok]

\* The API call returns to the application.
Answer(ok) ==
  /\ pc' = "idle" /\ op' = [op EXCEPT !.ok = ok]
  /\ outcome' = [outcome EXCEPT ![op.k] = IF ok THEN "ok" ELSE "error"]

\* What the host finds in the buffers of call k after n dispatches of it.
Result(k, n) == IF \A i \in 1..n : \E j \in ran : j[1] = k /\ j[2] = i
                  THEN "result" ELSE "garbage"

Begin(kind) ==
  /\ pc = "idle" /\ op.k < MaxCalls
  /\ op' = [k |-> op.k + 1, kind |-> kind, i |-> 1, defer |-> kind \in Chain, ok |-> TRUE]
  /\ pc' = IF kind \in {"flush", "destroy"} THEN kind ELSE "buffers"
  /\ UNCHANGED <<ctx, vulkan, device, answer>>

\* can_defer
CanDefer == op.kind = "defer" /\ Cardinality(queue) < DeferMax

\* The buffers of the call: a failure has released those created before it.
CreateBuffers ==
  /\ pc = "buffers"
  /\ \/ /\ Create({Buffers(op.k)})
        /\ pc' = IF op.kind = "preset" THEN "presets" ELSE "drain"
        /\ op' = [op EXCEPT !.defer = @ \/ CanDefer]
        /\ UNCHANGED answer
     \/ /\ MayFail("buffers")
        /\ Answer(FALSE)
        /\ UNCHANGED <<vulkan, output>>
  /\ UNCHANGED <<ctx, device>>

\* A preset caller's two sets: a failure frees what was made before it.
MakePresets ==
  /\ pc = "presets"
  /\ \/ Create(Presets(op.k)) /\ Goto("drain") /\ UNCHANGED outcome
     \/ MayFail("presets") /\ Destroy({Buffers(op.k)}) /\ Answer(FALSE)
  /\ UNCHANGED <<ctx, device, output>>

\* tvdb_vk_drain_pending: wait for the whole ring, then empty it whatever the wait said.
DrainPending(good) ==
  /\ Waited(pending, CallsOf(pending), good)
  /\ pending' = {}
  /\ Destroy(HeldBy(pending))

\* The head of tvdb_vk_dispatch: only a dispatch that waits drains the ring first.
Drain ==
  /\ pc = "drain"
  /\ \/ op.defer /\ Goto("pipeline") /\ UNCHANGED <<pending, vulkan, unwaited>>
     \/ ~ op.defer /\ DrainPending(TRUE) /\ Goto("pipeline")
     \/ ~ op.defer /\ DrainPending(FALSE) /\ Return(FALSE)
  /\ UNCHANGED <<cache, queue, work, answer>>

\* tvdb_vk_ensure_pools and tvdb_vk_get_pipeline: a failure leaves no half-built entry,
\* and a full cache is an error.
Pipeline ==
  /\ pc = "pipeline"
  /\ \/ /\ \E s \in Shapes :
             /\ s \in cache \/ Cardinality(cache) < CacheMax
             /\ cache' = cache \cup {s}
        /\ Goto("set")
     \/ /\ MayFail("pipeline") \/ (Cardinality(cache) >= CacheMax /\ Shapes \ cache # {})
        /\ Return(FALSE)
        /\ UNCHANGED cache
  /\ UNCHANGED <<pending, queue, vulkan, device, answer>>

\* A step of tvdb_vk_dispatch that makes the objects S and goes on to l, or fails.
Step(here, S, l) ==
  /\ pc = here
  /\ \/ Create(S) /\ Goto(l)
     \/ MayFail(here) /\ Destroy(Unwound(here)) /\ Return(FALSE)
  /\ UNCHANGED <<ctx, device, answer>>

\* Only a dispatch without a preset set allocates one.
AllocSet ==
  \/ IsPreset(Now) /\ pc = "set" /\ Goto("cmd") /\ UNCHANGED <<ctx, vulkan, device, answer>>
  \/ ~ IsPreset(Now) /\ Step("set", {SetOf(Now)}, "cmd")

AllocCmd    == Step("cmd", {Cmd(Now)}, "fence")
CreateFence == Step("fence", {Fence(Now)}, "record")
Record      == Step("record", {}, "submit")

Submit ==
  /\ pc = "submit"
  /\ \/ /\ ~ lost
        /\ flight' = flight \cup {Now}
        /\ Goto(IF op.defer THEN "park" ELSE "wait")
        /\ UNCHANGED vulkan
     \/ /\ lost \/ MayFail("submit")
        /\ Destroy(Unwound("submit")) /\ Return(FALSE)
        /\ UNCHANGED flight
  /\ UNCHANGED <<ctx, ran, lost, unwaited, answer>>

\* Mutant: the ring is not looked at before it is written.
RoomAlways == TRUE

\* ctx->pending_count < TVDB_VK_PENDING_MAX
Room == Cardinality(pending) < PendingMax

\* The ring takes the submission; a full ring is drained first.  When that fails, nobody
\* waits for the new submission either.
Park ==
  /\ pc = "park"
  /\ \/ /\ Room
        /\ pending' = pending \cup {Now}
        /\ Create({}) /\ Return(TRUE) /\ UNCHANGED unwaited
     \/ /\ ~ Room /\ Waited(pending, CallsOf(pending), TRUE)
        /\ pending' = {Now}
        /\ Destroy(HeldBy(pending)) /\ Return(TRUE)
     \/ /\ ~ Room /\ Waited(pending, CallsOf(pending) \cup {op.k}, FALSE)
        /\ pending' = {}
        /\ Destroy(HeldBy(pending) \cup Unwound("park")) /\ Return(FALSE)
  /\ UNCHANGED <<cache, queue, work, answer>>

Wait ==
  /\ pc = "wait"
  /\ \/ Waited({Now}, {op.k}, TRUE) /\ Destroy(Held(Now)) /\ Return(TRUE)
     \/ Waited({Now}, {op.k}, FALSE) /\ Destroy(Unwound("wait")) /\ Return(FALSE)
  /\ UNCHANGED <<ctx, work, answer>>

---------------------------------------------------------------------------
(* The callers of tvdb_vk_dispatch *)

\* tvdb_gpu_dispatch: the queue takes the buffers, or they are read and destroyed.
BackSingle ==
  /\ pc = "back" /\ op.kind \in Single
  /\ Answer(op.ok)
  /\ IF op.ok /\ op.defer
       THEN queue' = queue \cup {op.k} /\ UNCHANGED <<vulkan, output>>
       ELSE /\ Destroy({Buffers(op.k)})
            /\ output' = IF op.ok THEN [output EXCEPT ![op.k] = Result(op.k, 1)] ELSE output
            /\ UNCHANGED queue
  /\ UNCHANGED <<cache, pending, device>>

\* Mutant: the loop does not advance.
NextLinkStuck == op.i

NextLink == op.i + 1

\* The next dispatch of a chain, its flush, or (after a failure) neither.
BackChain ==
  /\ pc = "back" /\ op.kind \in Chain
  /\ \/ op.ok /\ op.i < Links /\ pc' = "drain" /\ op' = [op EXCEPT !.i = NextLink]
     \/ op.ok /\ op.i = Links /\ Goto("flush")
     \/ ~ op.ok /\ Goto("cleanup")
  /\ UNCHANGED <<ctx, vulkan, device, answer>>

ChainFlush ==
  /\ pc = "flush" /\ op.kind \in Chain
  /\ \E good \in BOOLEAN :
       /\ DrainPending(good)
       /\ op' = [op EXCEPT !.ok = good]
       /\ output' = IF good THEN [output EXCEPT ![op.k] = Result(op.k, Links)] ELSE output
  /\ pc' = "cleanup"
  /\ UNCHANGED <<cache, queue, work, outcome>>

\* The caller frees its presets and destroys its buffers.
Cleanup ==
  /\ pc = "cleanup"
  /\ Destroy({Buffers(op.k)} \cup {s \in Presets(op.k) : op.kind = "preset"})
  /\ Answer(op.ok)
  /\ UNCHANGED <<ctx, device, output>>

\* Mutant: the flush copies the outputs whatever the wait said.
DeliveredAnyway(good) ==
  [k \in Call |-> IF k \in queue THEN Result(k, 1) ELSE output[k]]

\* Mutant: the flush waits and releases, and copies nothing.
DeliveredNothing(good) == output

\* What the outputs of the queued calls are when the wait was good.
Delivered(good) ==
  [k \in Call |-> IF good /\ k \in queue THEN Result(k, 1) ELSE output[k]]

\* A flush that fails tells so of every call in the queue.
Told(good) == [k \in Call |-> IF ~ good /\ k \in queue THEN "error" ELSE outcome[k]]

\* tvdb_gpu_dispatch_flush
Flush ==
  /\ pc = "flush" /\ op.kind = "flush"
  /\ \E good \in BOOLEAN :
       /\ Waited(pending, {op.k}, good)
       /\ output' = Delivered(good) /\ outcome' = Told(good)
       /\ op' = [op EXCEPT !.ok = good]
  /\ Destroy(HeldBy(pending) \cup BuffersOf(queue))
  /\ pending' = {} /\ queue' = {} /\ pc' = "idle"
  /\ UNCHANGED <<cache, work>>

\* tvdb_gpu_context_destroy: wait until the device is idle, flush (no error is told), and
\* destroy the pools with the sets and command buffers left in them.
ContextDestroy ==
  /\ pc = "destroy"
  /\ flight = {} \/ MayFail("destroy")
  /\ \E good \in BOOLEAN :
       Waited(pending, CallsOf(pending) \cup queue, good) /\ output' = Delivered(good)
  /\ Destroy(HeldBy(pending) \cup BuffersOf(queue)
               \cup {o \in live : o[1] \in {"cmd", "set"}})
  /\ pending' = {} /\ queue' = {} /\ cache' = {}
  /\ pc' = "gone" /\ UNCHANGED op
  /\ UNCHANGED <<work, outcome>>

HostStep ==
  \/ CreateBuffers \/ MakePresets \/ Drain \/ Pipeline \/ AllocSet \/ AllocCmd
  \/ CreateFence \/ Record \/ Submit \/ Park \/ Wait \/ BackSingle \/ BackChain
  \/ ChainFlush \/ Cleanup \/ Flush \/ ContextDestroy

---------------------------------------------------------------------------
(* The device *)

Finish ==
  /\ \E j \in flight : flight' = flight \ {j} /\ ran' = ran \cup {j}
  /\ UNCHANGED <<host, ctx, vulkan, lost, unwaited, answer>>

\* A lost device finishes nothing more.
Lose ==
  /\ DeviceLoss /\ ~ lost
  /\ lost' = TRUE /\ flight' = {}
  /\ UNCHANGED <<host, ctx, vulkan, ran, unwaited, answer>>

\* The application makes no further call.
Rest ==
  /\ pc = "gone" \/ (pc = "idle" /\ op.k = MaxCalls)
  /\ flight = {}
  /\ UNCHANGED vars

Next == (\E kind \in Kinds : Begin(kind)) \/ HostStep \/ Finish \/ Lose \/ Rest
Spec == Init /\ [][Next]_vars

\* The host thread runs, and the device finishes what it was given unless it is lost.
\* Only of a lost device is it certain that a wait will fail.
FairSpec ==
  Spec /\ WF_vars(HostStep /\ (lost \/ UNCHANGED unwaited)) /\ WF_vars(Finish)

---------------------------------------------------------------------------
(* Properties *)

\* Every variable keeps its type; the cache, the ring and the deferred queue, fixed arrays
\* of the context, are never written past their end (the bounds of 583, 600 and 636).
TypeOK ==
  /\ pc \in Labels
  /\ op \in [k : 0..MaxCalls, kind : Single \cup Chain \cup {"flush", "destroy"},
             i : 1..Links, defer : BOOLEAN, ok : BOOLEAN]
  /\ cache \subseteq Shapes /\ Cardinality(cache) \leq CacheMax
  /\ pending \subseteq Job /\ Cardinality(pending) \leq PendingMax
  /\ queue \subseteq Call /\ Cardinality(queue) \leq DeferMax
  /\ live \subseteq Object /\ twice \subseteq Object
  /\ flight \subseteq Job /\ ran \subseteq Job /\ lost \in BOOLEAN /\ unwaited \subseteq Call
  /\ outcome \in [Call -> {"none", "ok", "error"}]
  /\ output \in [Call -> {"untouched", "result", "garbage"}]

Uses(j) == {Buffers(j[1]), Cmd(j), Fence(j), SetOf(j)}

\* The buffers, the command buffer, the fence and the descriptor set of a submission the
\* device has not finished are not destroyed, as long as the call has not failed and no
\* wait for its dispatches has.
InFlightAlive ==
  \A j \in flight : outcome[j[1]] # "error" /\ j[1] \notin unwaited => Uses(j) \subseteq live

\* "A queued dispatch references its VkBuffers in a command buffer that has not executed
\* yet, and Vulkan requires them to stay alive until it has" (12306-12307).
QueuedBuffersStay == \A j \in flight : Uses(j) \subseteq live

\* Nothing is destroyed that does not exist: of the dispatch, the ring, the deferred queue
\* and the context, one releases each handle.  A preset set is the exception: see below.
ReleasedOnce == twice \subseteq UNION {Presets(k) : k \in Call}

\* A preset set is "owned by the caller; not freed by the dispatch" (1934-1937).
PresetIsTheCallers ==
  op.kind = "preset" /\ pc \in {"back", "flush", "cleanup"} => Presets(op.k) \subseteq live

\* Between two calls the objects alive are those the ring and the deferred queue will
\* release: every failure and success path gives back all the rest, and the context
\* leaves nothing behind when it is destroyed.
NothingLeaked ==
  /\ pc = "idle" => live = HeldBy(pending) \cup BuffersOf(queue)
  /\ pc = "gone" => live = {}

\* A deferred call still owed its outputs is one whose submission the next wait covers:
\* no synchronous dispatch, full ring or failure takes it out of the ring unfinished,
\* unless the wait for it fails.
OwedIsWaitedFor ==
  \A k \in queue \ unwaited : \E j \in pending \cup ran : j[1] = k

\* What a call that returned TVDB_OK put in its output array is its result, and only the
\* outputs still in the deferred queue are yet to come.  A call loses its result silently
\* only by a failed wait for its own dispatches, never by one for other calls.
ResultsArrive ==
  \A k \in Call \ unwaited : outcome[k] = "ok" /\ k \notin queue => output[k] = "result"

\* No output array ever holds what was in a buffer the device did not write: a flush that
\* returns TVDB_OK waited for the dispatches whose outputs it copies (tinyvdb_gpu.h:623).
FlushIsTruthful == \A k \in Call : output[k] # "garbage"

\* That is so for every call but those whose own dispatches a failed wait took out of the
\* ring: neither a lost device nor a failed flush makes another one read garbage.
OthersGetNoGarbage == \A k \in Call \ unwaited : output[k] # "garbage"

\* Every call returns: no fence is waited for that the device will not signal.
CallsReturn == \A k \in Call : op.k = k /\ pc # "idle" ~> op.k = k /\ pc \in {"idle", "gone"}
=============================================================================
