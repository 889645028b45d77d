------------------------ MODULE GpuDispatchInvariants -----------------------
(***************************************************************************)
(* The inductive invariant of GpuDispatch: what the host is in the middle  *)
(* of, which submissions there can be, who owns every Vulkan object, and   *)
(* what is still owed to the application.                                  *)
(***************************************************************************)
EXTENDS GpuDispatch

Working  == {"drain", "pipeline", "set", "cmd", "fence", "record", "submit", "park", "wait"}
HasFence == {"record", "submit", "park", "wait"}
HasCmd   == HasFence \cup {"fence"}
HasSet   == HasCmd \cup {"cmd"}
Made     == {"park", "wait", "back", "flush", "cleanup", "idle", "gone"}

\* The bounded arrays of the context.
Bounded ==
  /\ TypeOK
  /\ IsFiniteSet(cache) /\ IsFiniteSet(pending) /\ IsFiniteSet(queue)

\* What the host knows of the call it is in, by its place.
Control ==
  /\ pc # "idle" => op.k \in Call
  /\ pc \in {"buffers", "presets"} \cup Working \cup {"back"} => op.kind \in Single \cup Chain
  /\ pc = "presets" => op.kind = "preset"
  /\ pc = "flush" => op.kind = "flush" \/ (op.kind \in Chain /\ op.i = Links)
  /\ pc = "cleanup" => op.kind \in Chain
  /\ pc \in {"destroy", "gone"} => op.kind = "destroy"
  /\ op.kind \in Chain => op.defer
  /\ op.kind = "now" => ~ op.defer
  /\ pc = "park" => op.defer
  /\ pc = "wait" => ~ op.defer
  /\ op.kind \notin Chain => op.i = 1
  /\ pc \in {"buffers", "presets"} => op.i = 1
  /\ (pc = "buffers" /\ op.kind = "defer") => ~ op.defer
  /\ (pc \in Working \cup {"back"} /\ op.kind = "defer" /\ op.defer) => Cardinality(queue) < DeferMax

\* A call that has not returned has told nothing.
Unanswered ==
  \A k \in Call : k > op.k \/ (k = op.k /\ pc \notin {"idle", "gone"}) => outcome[k] = "none"

\* A submission is one the host has made; those of the present call have their own shape.
Jobs == pending \cup flight \cup ran
JobKnown(j) ==
  /\ j[1] <= op.k /\ op.k \in Call
  /\ j[1] = op.k => /\ j[2] <= op.i /\ (j[2] = op.i => pc \in Made)
                    /\ pc \notin {"buffers", "presets", "destroy"}
                    /\ op.kind \notin {"flush", "destroy"}
                    /\ j[3] = IF op.kind = "preset" THEN (j[2] % 2) - 1 ELSE j[2]
  /\ j[3] = j[2] \/ IsPreset(j)
JobsKnown == \A j \in Jobs : JobKnown(j)

\* The deferred queue holds earlier calls, none of them with preset sets.
QueueKnown ==
  /\ \A k \in queue : k <= op.k /\ (k = op.k => pc = "idle" /\ op.kind = "defer")
  /\ \A j \in pending \cup flight : IsPreset(j) => j[1] \notin queue

\* A failed wait, or a call that failed, has left the submission behind.
Left(j) == j[1] \in unwaited \/ outcome[j[1]] = "error"

\* The device works on what the host still keeps or waits for, or has left behind.
DeviceKnown ==
  /\ flight \cap ran = {}
  /\ lost => flight = {}
  /\ ~ lost => pending \subseteq flight \cup ran
  /\ \A j \in flight : \/ j \in pending \/ (j = Now /\ pc \in {"park", "wait"})
                       \/ Left(j)
  /\ pc \in {"park", "wait"} => Now \notin pending /\ (~ lost => Now \in flight \cup ran)

\* A dispatch that waits, and a chain that has flushed, have emptied the ring; the context
\* empties the deferred queue too before it goes.
RingKnown ==
  /\ (~ op.defer /\ pc \in {"pipeline", "set", "cmd", "fence", "record", "submit", "wait", "back"})
       => pending = {}
  /\ pc = "cleanup" /\ op.ok => pending = {}
  /\ pc = "gone" => pending = {} /\ queue = {}

---------------------------------------------------------------------------
(* Who owns what *)

\* The host, in a call, owns its buffers until it answers or queues them ...
OwnsBuffers(k) ==
  k = op.k /\ (pc \in {"presets", "back", "cleanup"} \cup Working \/ (pc = "flush" /\ op.kind \in Chain))
BuffersExact ==
  \A k \in Call, n \in -1..Links :
    <<"buffers", k, n>> \in live <=> n = 0 /\ (k \in queue \/ OwnsBuffers(k))

\* ... a fence, a command buffer and a set of its own until the ring takes them or it
\* releases them, the ring until it is emptied.
Handle == {"fence", "cmd", "set"}
Places(tag) == IF tag = "fence" THEN HasFence ELSE IF tag = "cmd" THEN HasCmd ELSE HasSet
Names(j, tag, k, n) == j[1] = k /\ j[2] = n /\ (tag = "set" => ~ IsPreset(j))
HandleExact(tag, k, n) ==
  <<tag, k, n>> \in live <=> \/ \E j \in pending : Names(j, tag, k, n)
                             \/ Names(Now, tag, k, n) /\ pc \in Places(tag)
HandlesExact ==
  \A tag \in Handle, k \in Call, n \in -1..Links : (tag = "set" => n > 0) => HandleExact(tag, k, n)

\* Preset sets exist only while their caller runs, all of them unless a dispatch failed.
PresetsKnown ==
  /\ \A k \in Call, n \in -1..0 :
       <<"set", k, n>> \in live =>
         k = op.k /\ op.kind = "preset" /\ pc \in Working \cup {"back", "flush", "cleanup"}
  /\ (op.kind = "preset" /\ (pc \in Working \cup {"flush"} \/ (pc = "back" /\ op.ok)))
       => Presets(op.k) \subseteq live

OwnersExact == BuffersExact /\ HandlesExact /\ PresetsKnown

\* The buffers of a parked submission have an owner, unless its call failed.
PendingHasBuffers ==
  \A j \in pending : j[1] \in queue \/ OwnsBuffers(j[1]) \/ outcome[j[1]] = "error"

\* No failure of a preset dispatch after the second frees the set of an earlier one.
PresetsOutlive ==
  \A i \in 3..Links, l \in {"cmd", "fence", "record", "submit"} : <<"preset", i, l>> \notin Failing

\* A preset set in use by the device exists, unless its call failed.
PresetsInUse ==
  \A j \in flight : IsPreset(j) /\ ~ Left(j) => SetOf(j) \in live

---------------------------------------------------------------------------
(* What is owed *)

\* The i-th dispatch of call k is with the device, or done.
Sent(k, i) == \E j \in pending \cup ran : j[1] = k /\ j[2] = i

\* The submissions behind the outputs that are still to be read are in the ring or done.
Owed ==
  /\ \A k \in queue \ unwaited : Sent(k, 1)
  /\ (pc = "back" /\ op.ok) => Now \in (IF op.defer THEN pending ELSE ran)
  /\ (op.k \notin unwaited /\ op.kind \in Chain /\ pc \in Working \cup {"back"}) =>
       \A i \in 1..(op.i - 1) : Sent(op.k, i)
  /\ (op.k \notin unwaited /\ op.kind \in Chain /\ pc = "flush") => \A i \in 1..Links : Sent(op.k, i)

\* What has been read is a result.
Read ==
  /\ ResultsArrive
  /\ OthersGetNoGarbage
  /\ (pc = "cleanup" /\ op.ok /\ op.k \notin unwaited) => output[op.k] = "result"

IInv == Bounded /\ Control /\ Unanswered /\ JobsKnown /\ QueueKnown /\ DeviceKnown /\ RingKnown
          /\ OwnersExact /\ PendingHasBuffers /\ ReleasedOnce /\ Owed /\ Read
=============================================================================
