------------------------- MODULE GpuDispatchProofs --------------------------
(***************************************************************************)
(* The Vulkan dispatch engine, proved for any number of calls, any length  *)
(* of a chain, any ring, queue and cache, and any choice of Vulkan calls   *)
(* that fail.                                                              *)
(***************************************************************************)
EXTENDS GpuDispatchInvariants, FiniteSetTheorems, TLAPS

OpType == [k : 0..MaxCalls, kind : Single \cup Chain \cup {"flush", "destroy"},
           i : 1..Links, defer : BOOLEAN, ok : BOOLEAN]

\* A step inside one call.
SameCall == op'.k = op.k /\ op'.kind = op.kind /\ op'.i = op.i /\ (op'.defer <=> op.defer)

-----------------------------------------------------------------------------
(* What the helpers return *)

LEMMA OpFields ==
  ASSUME TypeOK
  PROVE  /\ op.k \in Nat /\ op.k <= MaxCalls /\ MaxCalls \in Nat
         /\ op.kind \in Single \cup Chain \cup {"flush", "destroy"}
         /\ op.i \in 1..Links /\ Links \in Nat \ {0}
         /\ op.defer \in BOOLEAN /\ op.ok \in BOOLEAN
BY DispatchAssumption DEF TypeOK

LEMMA NowParts ==
  ASSUME TypeOK, op.k \in Call
  PROVE  /\ Now \in Job /\ Now[1] = op.k /\ Now[2] = op.i
         /\ op.kind # "preset" => Now[3] = op.i /\ ~ IsPreset(Now)
         /\ op.kind = "preset" => Now[3] = (op.i % 2) - 1 /\ IsPreset(Now)
<1>1. op.i \in 1..Links /\ Links \in Nat
  BY OpFields
<1>2. op.i % 2 \in 0..1
  BY <1>1
<1> QED BY <1>1, <1>2 DEF Now, Job, IsPreset

LEMMA JobParts ==
  ASSUME NEW j \in Job
  PROVE  /\ j[1] \in Call /\ j[2] \in 1..Links /\ j[3] \in -1..Links
         /\ j = <<j[1], j[2], j[3]>> /\ Links \in Nat /\ j[2] \in -1..Links
BY DispatchAssumption DEF Job

LEMMA SameMove ==
  ASSUME TypeOK, UNCHANGED op
  PROVE  SameCall /\ Now' = Now /\ op' \in OpType /\ (op'.ok <=> op.ok)
BY DEF SameCall, Now, TypeOK, OpType

LEMMA OkMove ==
  ASSUME TypeOK, NEW ok \in BOOLEAN, op' = [op EXCEPT !.ok = ok]
  PROVE  SameCall /\ Now' = Now /\ op' \in OpType /\ (op'.ok <=> ok)
<1>1. op \in OpType
  BY DEF TypeOK, OpType
<1>2. SameCall /\ op' \in OpType /\ (op'.ok <=> ok)
  BY <1>1 DEF SameCall, OpType
<1> QED BY <1>2 DEF SameCall, Now

LEMMA ObjectsOf ==
  ASSUME NEW j \in Job
  PROVE  Fence(j) \in Object /\ Cmd(j) \in Object /\ SetOf(j) \in Object
BY JobParts DEF Fence, Cmd, SetOf, Object

LEMMA HeldObjects ==
  ASSUME NEW S, S \subseteq Job
  PROVE  HeldBy(S) \subseteq Object
BY ObjectsOf DEF HeldBy, Held

LEMMA BufferObjects ==
  ASSUME NEW ks \in SUBSET Call
  PROVE  BuffersOf(ks) \subseteq Object
BY DispatchAssumption DEF BuffersOf, Buffers, Object

LEMMA PresetObjects ==
  ASSUME NEW k \in Call
  PROVE  Presets(k) \subseteq Object
BY DispatchAssumption DEF Presets, Object

LEMMA UnwoundObjects ==
  ASSUME TypeOK, op.k \in Call, NEW l
  PROVE  Unwound(l) \subseteq Object
BY NowParts, ObjectsOf DEF Unwound

\* The ring holds no buffers, the queue nothing but buffers.
LEMMA NoBuffersHeld ==
  ASSUME NEW S, S \subseteq Job, NEW k, NEW n
  PROVE  <<"buffers", k, n>> \notin HeldBy(S)
<1>1. \A j : <<"buffers", k, n>> \notin Held(j)
  BY DEF Held, Fence, Cmd, SetOf
<1> QED BY <1>1 DEF HeldBy

LEMMA BufferMembers ==
  ASSUME NEW ks \in SUBSET Call, NEW k \in Call, NEW n \in -1..Links
  PROVE  /\ <<"buffers", k, n>> \in BuffersOf(ks) <=> n = 0 /\ k \in ks
         /\ <<"fence", k, n>> \notin BuffersOf(ks) /\ <<"cmd", k, n>> \notin BuffersOf(ks)
         /\ <<"set", k, n>> \notin BuffersOf(ks)
BY DEF BuffersOf, Buffers

LEMMA NoBuffersUnwound ==
  ASSUME NEW k, NEW n, NEW l
  PROVE  <<"buffers", k, n>> \notin Unwound(l)
BY DEF Unwound, Fence, Cmd, SetOf

-----------------------------------------------------------------------------
(* The types, and the bounds of the arrays of the context *)

LEMMA DestroyTypes ==
  ASSUME TypeOK, NEW S \in SUBSET Object, Destroy(S)
  PROVE  live' \subseteq Object /\ twice' \subseteq Object
BY DEF TypeOK, Destroy

LEMMA CreateTypes ==
  ASSUME TypeOK, NEW S \in SUBSET Object, Create(S)
  PROVE  live' \subseteq Object /\ twice' \subseteq Object
BY DEF TypeOK, Create

LEMMA AnswerTypes ==
  ASSUME TypeOK, op.k \in Call, NEW ok \in BOOLEAN, Answer(ok)
  PROVE  /\ pc' = "idle" /\ op' \in OpType
         /\ outcome' \in [Call -> {"none", "ok", "error"}]
BY OkMove DEF TypeOK, Answer

LEMMA ResultType ==
  ASSUME NEW k, NEW n
  PROVE  Result(k, n) \in {"result", "garbage"}
BY DEF Result

LEMMA DeliveredType ==
  ASSUME TypeOK, NEW good
  PROVE  Delivered(good) \in [Call -> {"untouched", "result", "garbage"}]
BY ResultType DEF TypeOK, Delivered

LEMMA WaitedTypes ==
  ASSUME TypeOK, NEW S, NEW ks \in SUBSET Call, NEW good \in BOOLEAN, Waited(S, ks, good)
  PROVE  unwaited' \subseteq Call
BY DEF TypeOK, Waited

LEMMA CallsOfTypes ==
  ASSUME TypeOK
  PROVE  CallsOf(pending) \in SUBSET Call
BY JobParts DEF TypeOK, CallsOf

LEMMA EmptyFits ==
  /\ IsFiniteSet({}) /\ Cardinality({}) = 0
  /\ 0 \leq PendingMax /\ 0 \leq DeferMax /\ 0 \leq CacheMax
BY FS_EmptySet, DispatchAssumption

\* One more member where there was room for it.
LEMMA OneMoreFits ==
  ASSUME NEW S, IsFiniteSet(S), NEW x, NEW max \in Nat, x \in S \/ Cardinality(S) < max,
         Cardinality(S) \leq max
  PROVE  IsFiniteSet(S \cup {x}) /\ Cardinality(S \cup {x}) \leq max
<1>1. IsFiniteSet(S \cup {x}) /\ Cardinality(S) \in Nat
      /\ Cardinality(S \cup {x}) = IF x \in S THEN Cardinality(S) ELSE Cardinality(S) + 1
  BY FS_AddElement, FS_CardinalityType
<1> QED BY <1>1

LEMMA BeginTypes ==
  ASSUME Bounded, NEW kind \in Kinds, Begin(kind)
  PROVE  Bounded'
<1>1. op' \in OpType
  BY OpFields, DispatchAssumption DEF Begin, OpType, Bounded, Single, Chain
<1>2. pc' \in Labels
  BY DEF Begin, Labels
<1> QED BY <1>1, <1>2 DEF Bounded, TypeOK, OpType, Begin, ctx, vulkan, device, work, answer

LEMMA CreateBuffersTypes ==
  ASSUME Bounded, Control, CreateBuffers
  PROVE  Bounded'
<1>1. op.k \in Call /\ TypeOK /\ {Buffers(op.k)} \subseteq Object
  BY DispatchAssumption DEF CreateBuffers, Control, Bounded, Buffers, Object
<1>2. CASE Create({Buffers(op.k)}) /\ pc' \in {"presets", "drain"} /\ UNCHANGED answer
             /\ op' = [op EXCEPT !.defer = @ \/ CanDefer]
  <2>1. op' \in OpType
    BY <1>1, <1>2 DEF TypeOK, OpType
  <2> QED BY <1>1, <1>2, <2>1, CreateTypes
          DEF CreateBuffers, Bounded, TypeOK, OpType, Labels, ctx, device, work, answer
<1>3. CASE Answer(FALSE) /\ UNCHANGED <<vulkan, output>>
  BY <1>1, <1>3, AnswerTypes DEF CreateBuffers, Bounded, TypeOK, OpType, Labels, ctx, device, work, vulkan
<1> QED BY <1>2, <1>3 DEF CreateBuffers

LEMMA MakePresetsTypes ==
  ASSUME Bounded, Control, MakePresets
  PROVE  Bounded'
<1>1. op.k \in Call /\ TypeOK /\ {Buffers(op.k)} \subseteq Object /\ Presets(op.k) \subseteq Object
  BY PresetObjects, DispatchAssumption DEF MakePresets, Control, Bounded, Buffers, Object
<1>2. CASE Create(Presets(op.k)) /\ Goto("drain") /\ UNCHANGED outcome
  BY <1>1, <1>2, CreateTypes, SameMove
  DEF MakePresets, Bounded, TypeOK, OpType, Labels, Goto, ctx, device, work
<1>3. CASE Destroy({Buffers(op.k)}) /\ Answer(FALSE)
  BY <1>1, <1>3, AnswerTypes, DestroyTypes DEF MakePresets, Bounded, TypeOK, OpType, Labels, ctx, device, work
<1> QED BY <1>2, <1>3 DEF MakePresets

LEMMA DrainTypes ==
  ASSUME Bounded, Drain
  PROVE  Bounded'
<1>1. TypeOK /\ HeldBy(pending) \subseteq Object
  BY HeldObjects DEF Bounded, TypeOK
<1>2. pc' \in Labels /\ op' \in OpType
  BY <1>1, SameMove, OkMove DEF Drain, Goto, Return, Labels
<1>3. CASE op.defer
  BY <1>1, <1>2, <1>3 DEF Drain, Bounded, TypeOK, OpType, device, work, answer, vulkan
<1>4. CASE ~ op.defer
  <2>1. PICK good \in BOOLEAN : DrainPending(good)
    BY <1>4 DEF Drain
  <2>2. Destroy(HeldBy(pending)) /\ pending' = {} /\ unwaited' \subseteq Call
    BY <1>1, <2>1, CallsOfTypes, WaitedTypes DEF DrainPending
  <2> QED BY <1>1, <1>2, <2>2, DestroyTypes, EmptyFits
          DEF Drain, Bounded, TypeOK, OpType, device, work, answer
<1> QED BY <1>3, <1>4

LEMMA PipelineTypes ==
  ASSUME Bounded, Pipeline
  PROVE  Bounded'
<1>1. TypeOK
  BY DEF Bounded
<1>2. pc' \in Labels /\ op' \in OpType
  BY <1>1, SameMove, OkMove DEF Pipeline, Goto, Return, Labels
<1>3. cache' \subseteq Shapes /\ IsFiniteSet(cache') /\ Cardinality(cache') \leq CacheMax
  <2>1. CASE UNCHANGED cache
    BY <2>1 DEF Bounded, TypeOK
  <2>2. CASE \E s \in Shapes : (s \in cache \/ Cardinality(cache) < CacheMax)
                               /\ cache' = cache \cup {s}
    BY <2>2, OneMoreFits, DispatchAssumption DEF Bounded, TypeOK
  <2> QED BY <2>1, <2>2 DEF Pipeline
<1> QED BY <1>1, <1>2, <1>3 DEF Pipeline, Bounded, TypeOK, OpType, vulkan, device, work, answer

LEMMA StepTypes ==
  ASSUME Bounded, op.k \in Call, NEW here, NEW S \in SUBSET Object, NEW l \in Labels, Step(here, S, l)
  PROVE  Bounded'
<1>1. TypeOK /\ Unwound(here) \subseteq Object
  BY UnwoundObjects DEF Bounded
<1>2. pc' \in Labels /\ op' \in OpType
  BY <1>1, SameMove, OkMove DEF Step, Goto, Return, Labels
<1>3. live' \subseteq Object /\ twice' \subseteq Object
  BY <1>1, CreateTypes, DestroyTypes DEF Step
<1> QED BY <1>1, <1>2, <1>3 DEF Step, Bounded, TypeOK, OpType, ctx, device, work, answer

LEMMA WorkStepTypes ==
  ASSUME Bounded, Control, AllocSet \/ AllocCmd \/ CreateFence \/ Record
  PROVE  Bounded'
<1>1. op.k \in Call /\ TypeOK
  BY DEF Control, Bounded, AllocSet, AllocCmd, CreateFence, Record, Step
<1>2. {SetOf(Now)} \subseteq Object /\ {Cmd(Now)} \subseteq Object /\ {Fence(Now)} \subseteq Object
  BY <1>1, NowParts, ObjectsOf
<1>3. CASE pc = "set" /\ Goto("cmd") /\ UNCHANGED <<ctx, vulkan, device, answer>>
  BY <1>1, <1>3, SameMove DEF Bounded, TypeOK, OpType, Goto, Labels, ctx, vulkan, device, work, answer
<1>4. CASE Step("set", {SetOf(Now)}, "cmd") \/ AllocCmd \/ CreateFence \/ Record
  BY <1>1, <1>2, <1>4, StepTypes DEF AllocCmd, CreateFence, Record, Labels
<1> QED BY <1>3, <1>4 DEF AllocSet

LEMMA SubmitTypes ==
  ASSUME Bounded, Control, Submit
  PROVE  Bounded'
<1>1. op.k \in Call /\ TypeOK
  BY DEF Control, Bounded, Submit
<1>2. Now \in Job /\ Unwound("submit") \subseteq Object
  BY <1>1, NowParts, UnwoundObjects
<1>3. pc' \in Labels /\ op' \in OpType
  BY <1>1, SameMove, OkMove DEF Submit, Goto, Return, Labels
<1>4. live' \subseteq Object /\ twice' \subseteq Object /\ flight' \subseteq Job
  BY <1>1, <1>2, DestroyTypes DEF Submit, TypeOK, vulkan
<1> QED BY <1>1, <1>3, <1>4 DEF Submit, Bounded, TypeOK, OpType, ctx, answer

LEMMA ParkTypes ==
  ASSUME Bounded, Control, Park
  PROVE  Bounded'
<1>1. op.k \in Call /\ TypeOK
  BY DEF Control, Bounded, Park
<1>2. Now \in Job /\ Unwound("park") \subseteq Object /\ HeldBy(pending) \subseteq Object
  BY <1>1, NowParts, UnwoundObjects, HeldObjects DEF TypeOK
<1>3. pc' \in Labels /\ op' \in OpType
  BY <1>1, SameMove, OkMove DEF Park, Goto, Return, Labels
<1>4. live' \subseteq Object /\ twice' \subseteq Object
  BY <1>1, <1>2, DestroyTypes, CreateTypes DEF Park
<1>5. pending' \subseteq Job /\ IsFiniteSet(pending') /\ Cardinality(pending') \leq PendingMax
  <2>0. (Room /\ pending' = pending \cup {Now}) \/ pending' = {Now} \/ pending' = {}
    BY DEF Park
  <2>1. CASE Room /\ pending' = pending \cup {Now}
    BY <1>2, <2>1, OneMoreFits, DispatchAssumption DEF Room, Bounded, TypeOK
  <2>2. CASE pending' = {Now}
    <3>1. IsFiniteSet({Now}) /\ Cardinality({Now}) = 1
      BY FS_Singleton
    <3> QED BY <1>2, <2>2, <3>1, DispatchAssumption
  <2>3. CASE pending' = {}
    BY <2>3, EmptyFits
  <2> QED BY <2>0, <2>1, <2>2, <2>3
<1>6. unwaited' \subseteq Call
  <2>1. CallsOf(pending) \in SUBSET Call /\ CallsOf(pending) \cup {op.k} \in SUBSET Call
    BY <1>1, CallsOfTypes
  <2> QED BY <1>1, <2>1 DEF Park, Waited, TypeOK
<1> QED BY <1>1, <1>3, <1>4, <1>5, <1>6 DEF Park, Bounded, TypeOK, OpType, work, answer

LEMMA WaitTypes ==
  ASSUME Bounded, Control, Wait
  PROVE  Bounded'
<1>1. op.k \in Call /\ TypeOK
  BY DEF Control, Bounded, Wait
<1>2. Unwound("wait") \subseteq Object /\ Held(Now) \subseteq Object
  BY <1>1, NowParts, UnwoundObjects, ObjectsOf DEF Held
<1>3. pc' \in Labels /\ op' \in OpType
  BY <1>1, OkMove DEF Wait, Return, Labels
<1>4. live' \subseteq Object /\ twice' \subseteq Object
  BY <1>1, <1>2, DestroyTypes DEF Wait
<1>5. unwaited' \subseteq Call
  BY <1>1 DEF Wait, Waited, TypeOK
<1> QED BY <1>1, <1>3, <1>4, <1>5 DEF Wait, Bounded, TypeOK, OpType, ctx, work, answer

LEMMA BackSingleTypes ==
  ASSUME Bounded, Control, BackSingle
  PROVE  Bounded'
<1>1. op.k \in Call /\ TypeOK /\ op.ok \in BOOLEAN /\ {Buffers(op.k)} \subseteq Object
  BY OpFields, DispatchAssumption DEF Control, Bounded, BackSingle, Buffers, Object
<1>2. /\ pc' \in Labels /\ op' \in OpType
      /\ outcome' \in [Call -> {"none", "ok", "error"}]
  BY <1>1, AnswerTypes DEF BackSingle, Labels
<1>3. live' \subseteq Object /\ twice' \subseteq Object
  BY <1>1, DestroyTypes DEF BackSingle, TypeOK, vulkan
<1>4. output' \in [Call -> {"untouched", "result", "garbage"}]
  BY <1>1, ResultType DEF BackSingle, TypeOK
<1>5. queue' \subseteq Call /\ IsFiniteSet(queue') /\ Cardinality(queue') \leq DeferMax
  <2>1. CASE op.ok /\ op.defer
    <3>1. Cardinality(queue) < DeferMax
      BY <2>1 DEF Control, BackSingle, Single
    <3> QED BY <1>1, <2>1, <3>1, OneMoreFits, DispatchAssumption DEF BackSingle, Bounded, TypeOK
  <2>2. CASE ~ (op.ok /\ op.defer)
    BY <2>2 DEF BackSingle, Bounded, TypeOK
  <2> QED BY <2>1, <2>2
<1> QED BY <1>1, <1>2, <1>3, <1>4, <1>5 DEF BackSingle, Bounded, TypeOK, OpType, device, work

LEMMA BackChainTypes ==
  ASSUME Bounded, BackChain
  PROVE  Bounded'
<1>1. TypeOK
  BY DEF Bounded
<1>2. pc' \in Labels
  BY DEF BackChain, Goto, Labels
<1>3. op' \in OpType
  BY <1>1, OpFields, SameMove DEF BackChain, Goto, NextLink, TypeOK, OpType
<1> QED BY <1>1, <1>2, <1>3 DEF BackChain, Bounded, TypeOK, OpType, ctx, vulkan, device, work, answer

LEMMA ChainFlushTypes ==
  ASSUME Bounded, Control, ChainFlush
  PROVE  Bounded'
<1>1. op.k \in Call /\ TypeOK /\ HeldBy(pending) \subseteq Object
  BY HeldObjects DEF Control, Bounded, TypeOK, ChainFlush
<1>2. pc' \in Labels /\ op' \in OpType
  BY <1>1, OkMove DEF ChainFlush, Labels
<1>3. live' \subseteq Object /\ twice' \subseteq Object
  BY <1>1, DestroyTypes DEF ChainFlush, DrainPending
<1>4. output' \in [Call -> {"untouched", "result", "garbage"}]
  BY <1>1, ResultType DEF ChainFlush, TypeOK
<1>5. unwaited' \subseteq Call
  BY <1>1, CallsOfTypes, WaitedTypes DEF ChainFlush, DrainPending
<1> QED BY <1>1, <1>2, <1>3, <1>4, <1>5, EmptyFits
        DEF ChainFlush, DrainPending, Bounded, TypeOK, OpType, work

LEMMA CleanupTypes ==
  ASSUME Bounded, Control, Cleanup
  PROVE  Bounded'
<1>1. op.k \in Call /\ TypeOK /\ op.ok \in BOOLEAN
  BY OpFields DEF Control, Bounded, Cleanup
<1>2. {Buffers(op.k)} \cup {s \in Presets(op.k) : op.kind = "preset"} \subseteq Object
  BY <1>1, PresetObjects, DispatchAssumption DEF Buffers, Object
<1>3. live' \subseteq Object /\ twice' \subseteq Object
  BY <1>1, <1>2, DestroyTypes DEF Cleanup
<1> QED BY <1>1, <1>3, AnswerTypes DEF Cleanup, Bounded, TypeOK, OpType, Labels, ctx, device, work

LEMMA FlushTypes ==
  ASSUME Bounded, Control, Flush
  PROVE  Bounded'
<1>1. TypeOK /\ HeldBy(pending) \cup BuffersOf(queue) \subseteq Object
  BY HeldObjects, BufferObjects DEF Bounded, TypeOK
<1>2. pc' \in Labels /\ op' \in OpType
  BY <1>1, OkMove DEF Flush, Labels
<1>3. live' \subseteq Object /\ twice' \subseteq Object
  BY <1>1, DestroyTypes DEF Flush
<1>4. output' \in [Call -> {"untouched", "result", "garbage"}]
  BY <1>1, DeliveredType DEF Flush
<1>5. unwaited' \subseteq Call
  <2>1. op.k \in 0..MaxCalls /\ {op.k} \in SUBSET Call
    BY <1>1, OpFields DEF Control, Flush
  <2> QED BY <1>1, <2>1, WaitedTypes DEF Flush
<1>6. outcome' \in [Call -> {"none", "ok", "error"}]
  BY <1>1 DEF Flush, Told, TypeOK
<1> QED BY <1>1, <1>2, <1>3, <1>4, <1>5, <1>6, EmptyFits
        DEF Flush, Bounded, TypeOK, OpType, work

LEMMA ContextDestroyTypes ==
  ASSUME Bounded, ContextDestroy
  PROVE  Bounded'
<1>1. TypeOK /\ HeldBy(pending) \cup BuffersOf(queue) \subseteq Object
  BY HeldObjects, BufferObjects DEF Bounded, TypeOK
<1>2. pc' \in Labels /\ op' \in OpType
  BY <1>1, SameMove DEF ContextDestroy, Labels
<1>3. {o \in live : o[1] \in {"cmd", "set"}} \subseteq Object
  BY <1>1 DEF TypeOK
<1>4. live' \subseteq Object /\ twice' \subseteq Object
  BY <1>1, <1>3 DEF ContextDestroy, Destroy, TypeOK
<1>5. output' \in [Call -> {"untouched", "result", "garbage"}]
  BY <1>1, DeliveredType DEF ContextDestroy
<1>6. unwaited' \subseteq Call
  <2>1. CallsOf(pending) \cup queue \in SUBSET Call
    BY <1>1, CallsOfTypes DEF TypeOK
  <2> QED BY <1>1, <2>1, WaitedTypes DEF ContextDestroy
<1> QED BY <1>1, <1>2, <1>4, <1>5, <1>6, EmptyFits
        DEF ContextDestroy, Bounded, TypeOK, OpType, work

LEMMA DeviceTypes ==
  ASSUME Bounded, Finish \/ Lose \/ UNCHANGED vars
  PROVE  Bounded'
BY DEF Finish, Lose, Bounded, TypeOK, vars, host, ctx, vulkan, device, work, answer

LEMMA BoundedKept ==
  ASSUME Bounded, Control, [Next]_vars
  PROVE  Bounded'
<1>1. CASE \E kind \in Kinds : Begin(kind)
  BY <1>1, BeginTypes
<1>2. CASE HostStep
  BY <1>2, CreateBuffersTypes, MakePresetsTypes, DrainTypes, PipelineTypes, WorkStepTypes,
     SubmitTypes, ParkTypes, WaitTypes, BackSingleTypes, BackChainTypes, ChainFlushTypes,
     CleanupTypes, FlushTypes, ContextDestroyTypes DEF HostStep
<1>3. CASE Finish \/ Lose \/ UNCHANGED vars
  BY <1>3, DeviceTypes
<1> QED BY <1>1, <1>2, <1>3 DEF Next, Rest

-----------------------------------------------------------------------------
(* Where the host goes *)

\* From one Vulkan call to the next one, or out of tvdb_vk_dispatch with an error.
Moves(here, l) ==
  /\ pc = here /\ SameCall /\ Now' = Now
  /\ pc' = l \/ (pc' = "back" /\ ~ op'.ok)

LEMMA BeginMoves ==
  ASSUME TypeOK, NEW kind \in Kinds, Begin(kind)
  PROVE  /\ pc = "idle" /\ op'.k = op.k + 1 /\ op'.k \in Call
         /\ op'.kind = kind /\ op'.i = 1 /\ (op'.defer <=> kind \in Chain)
         /\ pc' = (IF kind \in {"flush", "destroy"} THEN kind ELSE "buffers")
         /\ kind \in Single \cup Chain \cup {"flush", "destroy"}
<1>1. op'.k = op.k + 1 /\ op'.kind = kind /\ op'.i = 1
  BY DEF Begin
<1>2. op'.defer <=> kind \in Chain
  BY DEF Begin
<1>3. op.k + 1 \in Call
  BY OpFields DEF Begin, Call
<1>4. kind \in Single \cup Chain \cup {"flush", "destroy"}
  BY DispatchAssumption
<1>5. pc = "idle" /\ pc' = IF kind \in {"flush", "destroy"} THEN kind ELSE "buffers"
  BY DEF Begin
<1> QED BY <1>1, <1>2, <1>3, <1>4, <1>5

LEMMA CreateBuffersMoves ==
  ASSUME TypeOK, CreateBuffers
  PROVE  /\ pc = "buffers" /\ op'.k = op.k /\ op'.kind = op.kind /\ op'.i = op.i /\ Now' = Now
         /\ \/ pc' = (IF op.kind = "preset" THEN "presets" ELSE "drain")
               /\ (op'.defer <=> op.defer \/ CanDefer) /\ Create({Buffers(op.k)}) /\ UNCHANGED answer
            \/ pc' = "idle" /\ (op'.defer <=> op.defer)
               /\ Answer(FALSE) /\ UNCHANGED <<vulkan, output>>
<1>1. op \in OpType
  BY DEF TypeOK, OpType
<1>2. CASE /\ Create({Buffers(op.k)})
           /\ pc' = IF op.kind = "preset" THEN "presets" ELSE "drain"
           /\ op' = [op EXCEPT !.defer = @ \/ CanDefer]
           /\ UNCHANGED answer
  <2>1. op'.k = op.k /\ op'.kind = op.kind /\ op'.i = op.i /\ (op'.defer <=> op.defer \/ CanDefer)
    BY <1>1, <1>2 DEF OpType
  <2> QED BY <1>2, <2>1 DEF CreateBuffers, Now
<1>3. CASE Answer(FALSE) /\ UNCHANGED <<vulkan, output>>
  BY <1>3, OkMove DEF CreateBuffers, Answer, SameCall
<1> QED BY <1>2, <1>3 DEF CreateBuffers

LEMMA MakePresetsMoves ==
  ASSUME TypeOK, MakePresets
  PROVE  /\ pc = "presets" /\ SameCall /\ Now' = Now
         /\ \/ pc' = "drain" /\ Create(Presets(op.k)) /\ UNCHANGED outcome
            \/ pc' = "idle" /\ Destroy({Buffers(op.k)}) /\ Answer(FALSE)
BY SameMove, OkMove DEF MakePresets, Goto, Answer

LEMMA WorkMoves ==
  ASSUME TypeOK
  PROVE  /\ Drain => Moves("drain", "pipeline") /\ (op.defer => pc' = "pipeline")
         /\ Pipeline => Moves("pipeline", "set")
         /\ AllocSet => Moves("set", "cmd")
         /\ AllocCmd => Moves("cmd", "fence")
         /\ CreateFence => Moves("fence", "record")
         /\ Record => Moves("record", "submit")
         /\ Submit => IF op.defer THEN Moves("submit", "park") ELSE Moves("submit", "wait")
<1>1. ASSUME NEW l, Goto(l)
      PROVE  pc' = l /\ SameCall /\ Now' = Now
  BY <1>1, SameMove DEF Goto
<1>2. ASSUME Return(FALSE)
      PROVE  pc' = "back" /\ ~ op'.ok /\ SameCall /\ Now' = Now
  BY <1>2, OkMove DEF Return
<1>3. Drain => Moves("drain", "pipeline") /\ (op.defer => pc' = "pipeline")
  BY <1>1, <1>2 DEF Drain, Moves
<1>4. Pipeline => Moves("pipeline", "set")
  BY <1>1, <1>2 DEF Pipeline, Moves
<1>5. ASSUME NEW here, NEW S, NEW l, Step(here, S, l)
      PROVE  Moves(here, l)
  BY <1>1, <1>2, <1>5 DEF Step, Moves
<1>6. AllocSet => Moves("set", "cmd")
  BY <1>1, <1>5 DEF AllocSet, Moves
<1>7. AllocCmd => Moves("cmd", "fence")
  BY <1>5 DEF AllocCmd
<1>8. CreateFence => Moves("fence", "record")
  BY <1>5 DEF CreateFence
<1>9. Record => Moves("record", "submit")
  BY <1>5 DEF Record
<1>10. Submit => IF op.defer THEN Moves("submit", "park") ELSE Moves("submit", "wait")
  <2>1. ASSUME Submit
        PROVE  (IF op.defer THEN Goto("park") ELSE Goto("wait")) \/ Return(FALSE)
    BY <2>1 DEF Submit
  <2>2. Submit => pc = "submit"
    BY DEF Submit
  <2>3. ASSUME Submit, op.defer
        PROVE  Moves("submit", "park")
    BY <1>1, <1>2, <2>1, <2>2, <2>3 DEF Moves
  <2>4. ASSUME Submit, ~ op.defer
        PROVE  Moves("submit", "wait")
    BY <1>1, <1>2, <2>1, <2>2, <2>4 DEF Moves
  <2> QED BY <2>3, <2>4
<1> QED BY <1>3, <1>4, <1>6, <1>7, <1>8, <1>9, <1>10

LEMMA ReturnMoves ==
  ASSUME TypeOK, NEW ok \in BOOLEAN, Return(ok)
  PROVE  pc' = "back" /\ (op'.ok <=> ok) /\ SameCall /\ Now' = Now
BY OkMove DEF Return

LEMMA ParkWaitMoves ==
  ASSUME TypeOK, Park \/ Wait
  PROVE  /\ Park => pc = "park"
         /\ Wait => pc = "wait"
         /\ pc' = "back" /\ SameCall /\ Now' = Now
BY ReturnMoves DEF Park, Wait

LEMMA BackMoves ==
  ASSUME TypeOK
  PROVE  /\ BackSingle => /\ pc = "back" /\ op.kind \in Single /\ SameCall /\ Now' = Now
                          /\ pc' = "idle" /\ Answer(op.ok)
         /\ BackChain => /\ pc = "back" /\ op.kind \in Chain
                         /\ op'.k = op.k /\ op'.kind = op.kind /\ (op'.defer <=> op.defer)
                         /\ (op'.ok <=> op.ok)
                         /\ \/ pc' = "drain" /\ op.ok /\ op.i < Links /\ op'.i = op.i + 1
                            \/ pc' = "flush" /\ op.ok /\ op.i = Links /\ op'.i = op.i /\ Now' = Now
                            \/ pc' = "cleanup" /\ ~ op.ok /\ op'.i = op.i /\ Now' = Now
<1>1. op.ok \in BOOLEAN /\ op \in OpType
  BY OpFields DEF TypeOK, OpType
<1>2. BackSingle => /\ pc = "back" /\ op.kind \in Single /\ SameCall /\ Now' = Now
                    /\ pc' = "idle" /\ Answer(op.ok)
  BY <1>1, OkMove DEF BackSingle, Answer
<1>3. ASSUME op' = [op EXCEPT !.i = NextLink]
      PROVE  /\ op'.k = op.k /\ op'.kind = op.kind /\ (op'.defer <=> op.defer) /\ (op'.ok <=> op.ok)
             /\ op'.i = op.i + 1
  BY <1>1, <1>3 DEF OpType, NextLink
<1>4. ASSUME BackChain
      PROVE  /\ pc = "back" /\ op.kind \in Chain
             /\ op'.k = op.k /\ op'.kind = op.kind /\ (op'.defer <=> op.defer) /\ (op'.ok <=> op.ok)
             /\ \/ pc' = "drain" /\ op.ok /\ op.i < Links /\ op'.i = op.i + 1
                \/ pc' = "flush" /\ op.ok /\ op.i = Links /\ op'.i = op.i /\ Now' = Now
                \/ pc' = "cleanup" /\ ~ op.ok /\ op'.i = op.i /\ Now' = Now
  BY <1>3, <1>4, SameMove DEF BackChain, Goto, SameCall
<1> QED BY <1>2, <1>4

LEMMA EndMoves ==
  ASSUME TypeOK
  PROVE  /\ ChainFlush => /\ pc = "flush" /\ op.kind \in Chain /\ SameCall /\ Now' = Now
                          /\ pc' = "cleanup" /\ (op'.ok => Signalled(pending))
         /\ Cleanup => pc = "cleanup" /\ SameCall /\ Now' = Now /\ pc' = "idle" /\ Answer(op.ok)
         /\ Flush => pc = "flush" /\ op.kind = "flush" /\ SameCall /\ Now' = Now /\ pc' = "idle"
         /\ ContextDestroy => pc = "destroy" /\ SameCall /\ Now' = Now /\ pc' = "gone"
<1>1. op.ok \in BOOLEAN
  BY OpFields
<1>2. ChainFlush => /\ pc = "flush" /\ op.kind \in Chain /\ SameCall /\ Now' = Now
                    /\ pc' = "cleanup" /\ (op'.ok => Signalled(pending))
  BY <1>1, OkMove DEF ChainFlush, DrainPending, Waited
<1>3. Cleanup => pc = "cleanup" /\ SameCall /\ Now' = Now /\ pc' = "idle" /\ Answer(op.ok)
  BY <1>1, OkMove DEF Cleanup, Answer
<1>4. Flush => pc = "flush" /\ op.kind = "flush" /\ SameCall /\ Now' = Now /\ pc' = "idle"
  BY <1>1, OkMove DEF Flush
<1>5. ContextDestroy => pc = "destroy" /\ SameCall /\ Now' = Now /\ pc' = "gone"
  BY SameMove DEF ContextDestroy
<1> QED BY <1>2, <1>3, <1>4, <1>5

\* A step inside tvdb_vk_dispatch keeps the control.
LEMMA ControlInside ==
  ASSUME TypeOK, Control, NEW here \in Working, NEW l \in Working, Moves(here, l), UNCHANGED queue,
         l = "park" => op.defer, l = "wait" => ~ op.defer
  PROVE  Control'
<1>1. pc = here /\ SameCall /\ pc' \in {l, "back"} /\ here # "idle"
  BY DEF Moves, Working
<1>2. op.k \in Call /\ op.kind \in Single \cup Chain
  BY <1>1 DEF Control
<1>3. pc' \in Working \cup {"back"} /\ pc' \notin {"idle", "buffers", "presets", "flush", "cleanup", "destroy", "gone"}
  BY <1>1 DEF Working
<1> QED BY <1>1, <1>2, <1>3 DEF Control, SameCall

LEMMA ControlKept ==
  ASSUME Bounded, Control, [Next]_vars
  PROVE  Control'
<1>0. TypeOK
  BY DEF Bounded
<1>1. ASSUME NEW kind \in Kinds, Begin(kind)
      PROVE  Control'
  BY <1>0, <1>1, BeginMoves DEF Control, Working, Single, Chain
<1>2. CASE CreateBuffers
  <2>1. UNCHANGED queue /\ op.kind \in Single \cup Chain /\ op.k \in Call /\ op.i = 1
    BY <1>2 DEF CreateBuffers, ctx, Control
  <2>2. CASE pc' = "idle"
    BY <1>0, <1>2, <2>1, <2>2, CreateBuffersMoves DEF Control, Working, Single, Chain
  <2>3. CASE pc' \in {"presets", "drain"}
    <3>1. op'.defer <=> op.defer \/ CanDefer
      BY <1>0, <1>2, <2>3, CreateBuffersMoves
    <3>2. op'.k = op.k /\ op'.kind = op.kind /\ op'.i = op.i /\ pc = "buffers"
          /\ (pc' = "presets" => op.kind = "preset")
      BY <1>0, <1>2, <2>3, CreateBuffersMoves
    <3>3. (op.kind = "defer" /\ op'.defer) => Cardinality(queue) < DeferMax
      BY <3>1, <3>2 DEF Control, CanDefer
    <3> QED BY <2>1, <2>3, <3>1, <3>2, <3>3 DEF Control, CanDefer, Working, Single, Chain
  <2> QED BY <1>0, <1>2, <2>2, <2>3, CreateBuffersMoves
<1>3. CASE MakePresets
  <2>1. UNCHANGED queue
    BY <1>3 DEF MakePresets, ctx
  <2> QED BY <1>0, <1>3, <2>1, MakePresetsMoves DEF Control, SameCall, Working, Single, Chain
<1>4. CASE Drain \/ Pipeline \/ AllocSet \/ AllocCmd \/ CreateFence \/ Record \/ Submit
  <2>1. UNCHANGED queue
    BY <1>4 DEF Drain, Pipeline, AllocSet, AllocCmd, CreateFence, Record, Submit, Step, ctx
  <2> QED BY <1>0, <1>4, <2>1, WorkMoves, ControlInside DEF Working
<1>5. CASE Park \/ Wait
  <2>1. UNCHANGED queue
    BY <1>5 DEF Park, Wait, ctx
  <2> QED BY <1>0, <1>5, <2>1, ParkWaitMoves DEF Control, SameCall, Working, Single, Chain
<1>6. CASE BackSingle
  BY <1>0, <1>6, BackMoves DEF Control, SameCall, Working, Single, Chain
<1>7. CASE BackChain
  <2>1. UNCHANGED queue
    BY <1>7 DEF BackChain, ctx
  <2> QED BY <1>0, <1>7, <2>1, BackMoves DEF Control, Working, Single, Chain
<1>8. CASE ChainFlush \/ Cleanup \/ Flush \/ ContextDestroy
  BY <1>0, <1>8, EndMoves DEF Control, SameCall, Working, Single, Chain
<1>9. CASE Finish \/ Lose \/ UNCHANGED vars
  BY <1>9 DEF Control, Finish, Lose, vars, host, ctx
<1> QED BY <1>1, <1>2, <1>3, <1>4, <1>5, <1>6, <1>7, <1>8, <1>9 DEF Next, HostStep, Rest

-----------------------------------------------------------------------------
(* The submissions *)

\* Only a submission makes a job, and the ring takes that one.
Kept == pending \cup flight

LEMMA NoNewJobs ==
  ASSUME [Next]_vars
  PROVE  /\ Jobs' \subseteq Jobs \cup {Now} /\ Kept' \subseteq Kept \cup {Now}
         /\ (Jobs' \subseteq Jobs /\ Kept' \subseteq Kept) \/ Submit \/ Park
<1>1. CASE \E kind \in Kinds : Begin(kind)
  BY <1>1 DEF Begin, Jobs, Kept, ctx, device, work
<1>2. CASE CreateBuffers \/ MakePresets \/ Pipeline \/ AllocSet \/ AllocCmd \/ CreateFence \/ Record
           \/ Wait \/ BackSingle \/ BackChain \/ Cleanup
  BY <1>2 DEF CreateBuffers, MakePresets, Pipeline, AllocSet, AllocCmd, CreateFence, Record, Step,
     Wait, BackSingle, BackChain, Cleanup, Jobs, Kept, ctx, device, work
<1>3. CASE Drain \/ ChainFlush \/ Flush \/ ContextDestroy
  BY <1>3 DEF Drain, ChainFlush, DrainPending, Flush, ContextDestroy, Jobs, Kept, device, work
<1>4. CASE Submit
  BY <1>4 DEF Submit, Jobs, Kept, ctx
<1>5. CASE Park
  <2>1. pending' \subseteq pending \cup {Now} /\ UNCHANGED work /\ pc = "park"
    BY <1>5 DEF Park
  <2> QED BY <1>5, <2>1 DEF Jobs, Kept, work
<1>6. CASE Finish \/ Lose \/ UNCHANGED vars
  BY <1>6 DEF Finish, Lose, Jobs, Kept, vars, ctx, device, work
<1> QED BY <1>1, <1>2, <1>3, <1>4, <1>5, <1>6 DEF Next, HostStep, Rest

\* What is known of a job stays known.
LEMMA JobStaysKnown ==
  ASSUME TypeOK, Control, [Next]_vars, NEW j \in Job, JobKnown(j)
  PROVE  JobKnown(j)'
<1>0. op.k \in Nat /\ op.i \in Nat /\ j[1] \in Nat /\ j[2] \in Nat /\ op.k \in Call
  BY OpFields, JobParts DEF Call, JobKnown
<1>1. ASSUME NEW kind \in Kinds, Begin(kind)
      PROVE  JobKnown(j)'
  BY <1>0, <1>1, BeginMoves DEF JobKnown, IsPreset
<1>2. CASE CreateBuffers
  BY <1>0, <1>2, CreateBuffersMoves DEF JobKnown, IsPreset, Made
<1>3. CASE MakePresets
  BY <1>0, <1>3, MakePresetsMoves DEF JobKnown, IsPreset, Made, SameCall
<1>4. CASE Drain \/ Pipeline \/ AllocSet \/ AllocCmd \/ CreateFence \/ Record \/ Submit
  <2>1. /\ pc' \in {"pipeline", "set", "cmd", "fence", "record", "submit", "park", "wait", "back"}
        /\ pc \notin Made /\ SameCall
    BY <1>4, WorkMoves DEF Moves, Made
  <2> QED BY <1>0, <2>1 DEF JobKnown, IsPreset, Made, SameCall
<1>5. CASE Park \/ Wait
  BY <1>0, <1>5, ParkWaitMoves DEF JobKnown, IsPreset, Made, SameCall
<1>6. CASE BackSingle
  BY <1>0, <1>6, BackMoves DEF JobKnown, IsPreset, Made, SameCall
<1>7. CASE BackChain
  BY <1>0, <1>7, BackMoves DEF JobKnown, IsPreset, Made
<1>8. CASE ChainFlush \/ Cleanup \/ Flush \/ ContextDestroy
  BY <1>0, <1>8, EndMoves DEF JobKnown, IsPreset, Made, SameCall
<1>9. CASE Finish \/ Lose \/ UNCHANGED vars
  BY <1>9 DEF JobKnown, IsPreset, Finish, Lose, vars, host
<1> QED BY <1>1, <1>2, <1>3, <1>4, <1>5, <1>6, <1>7, <1>8, <1>9 DEF Next, HostStep, Rest

LEMMA JobsKept ==
  ASSUME Bounded, Control, JobsKnown, [Next]_vars
  PROVE  JobsKnown'
<1>1. TypeOK /\ Jobs \subseteq Job
  BY DEF Bounded, TypeOK, Jobs
<1>2. \A j \in Jobs : JobKnown(j)'
  BY <1>1, JobStaysKnown DEF JobsKnown
<1>3. CASE Jobs' \subseteq Jobs
  BY <1>2, <1>3 DEF JobsKnown
<1>4. CASE Submit \/ Park
  <2>1. op.k \in Call /\ SameCall /\ pc' \in Made /\ op.kind \in Single \cup Chain
    BY <1>1, <1>4, WorkMoves, ParkWaitMoves DEF Control, Moves, Made, Working
  <2>2. PICK n : n = Now
    OBVIOUS
  <2>3. /\ n[1] = op.k /\ n[2] = op.i /\ op.k \in Nat
        /\ n[3] = IF op.kind = "preset" THEN (op.i % 2) - 1 ELSE op.i
        /\ op.kind = "preset" => n[3] \leq 0
    BY <1>1, <2>1, <2>2, NowParts, OpFields DEF IsPreset
  <2>4. JobKnown(n)'
    BY <1>1, <2>1, <2>3, OpFields DEF JobKnown, SameCall, IsPreset, Single, Chain, Made
  <2>5. Jobs' \subseteq Jobs \cup {n}
    BY <2>2, NoNewJobs
  <2> QED BY <1>2, <2>4, <2>5 DEF JobsKnown
<1> QED BY <1>3, <1>4, NoNewJobs

\* The deferred queue takes the present call as that call ends.
LEMMA QueueSteps ==
  ASSUME TypeOK, [Next]_vars
  PROVE  \/ UNCHANGED queue
         \/ queue' = {}
         \/ BackSingle /\ op.ok /\ op.defer /\ queue' = queue \cup {op.k}
<1>1. CASE \E kind \in Kinds : Begin(kind)
  BY <1>1 DEF Begin, ctx
<1>2. CASE CreateBuffers \/ MakePresets \/ Pipeline \/ AllocSet \/ AllocCmd \/ CreateFence \/ Record
           \/ BackChain \/ Cleanup \/ Drain \/ ChainFlush \/ Submit \/ Park \/ Wait
  BY <1>2 DEF CreateBuffers, MakePresets, Pipeline, AllocSet, AllocCmd, CreateFence, Record, Step,
     BackChain, Cleanup, Drain, ChainFlush, Submit, Park, Wait, ctx
<1>3. CASE BackSingle
  BY <1>3 DEF BackSingle
<1>4. CASE Flush \/ ContextDestroy
  BY <1>4 DEF Flush, ContextDestroy
<1>5. CASE Finish \/ Lose \/ UNCHANGED vars
  BY <1>5 DEF Finish, Lose, vars, ctx
<1> QED BY <1>1, <1>2, <1>3, <1>4, <1>5 DEF Next, HostStep, Rest

LEMMA QueueKept ==
  ASSUME Bounded, Control, JobsKnown, QueueKnown, [Next]_vars
  PROVE  QueueKnown'
<1>1. TypeOK /\ queue \subseteq Call /\ op.k \in Nat
  BY OpFields DEF Bounded, TypeOK
<1>2. ASSUME NEW k \in queue
      PROVE  k <= op'.k /\ (k = op'.k => pc' = "idle" /\ op'.kind = "defer")
  <2>0. k \in Nat /\ k <= op.k /\ (k = op.k => pc = "idle" /\ op.kind = "defer")
    BY <1>1, <1>2 DEF QueueKnown, Call
  <2>1. ASSUME NEW kind \in Kinds, Begin(kind)
        PROVE  k <= op'.k /\ (k = op'.k => pc' = "idle" /\ op'.kind = "defer")
    BY <1>1, <2>0, <2>1, BeginMoves
  <2>2. CASE op'.k = op.k /\ pc # "idle"
    BY <2>0, <2>2
  <2>3. CASE UNCHANGED <<pc, op>>
    BY <2>0, <2>3
  <2> QED BY <1>1, <2>1, <2>2, <2>3, CreateBuffersMoves, MakePresetsMoves, WorkMoves, ParkWaitMoves,
             BackMoves, EndMoves DEF Next, HostStep, Finish, Lose, Rest, vars, host, Moves, SameCall
<1>3. \A k \in queue' : k <= op'.k /\ (k = op'.k => pc' = "idle" /\ op'.kind = "defer")
  <2>1. CASE BackSingle /\ op.ok /\ op.defer /\ queue' = queue \cup {op.k}
    <3>1. op'.k = op.k /\ op'.kind = "defer" /\ pc' = "idle"
      BY <1>1, <2>1, BackMoves DEF SameCall, Control, Single
    <3> QED BY <1>1, <1>2, <2>1, <3>1
  <2> QED BY <1>1, <1>2, <2>1, QueueSteps
<1>4. ASSUME NEW j \in pending' \cup flight', j[3] \leq 0
      PROVE  j[1] \notin queue'
  <2>2. CASE BackSingle /\ op.ok /\ op.defer /\ queue' = queue \cup {op.k}
    <3>1. op.kind \in Single /\ j \in pending \cup flight
      BY <1>1, <1>4, <2>2, BackMoves DEF BackSingle, device, work
    <3>2. j[1] \notin queue
      BY <1>4, <3>1 DEF QueueKnown, IsPreset
    <3>3. j \in Job /\ JobKnown(j)
      BY <3>1 DEF JobsKnown, Jobs, Bounded, TypeOK
    <3>4. j[1] # op.k
      BY <1>4, <3>1, <3>3, JobParts DEF JobKnown, Single
    <3> QED BY <2>2, <3>2, <3>4
  <2>3. CASE queue' = queue
    <3>1. CASE j \in pending \cup flight
      BY <1>4, <2>3, <3>1 DEF QueueKnown, IsPreset
    <3>2. CASE j \notin pending \cup flight
      <4>1. (Submit \/ Park) /\ j = Now
        BY <1>4, <3>2, NoNewJobs DEF Kept
      <4>2. op.k \in Call /\ pc # "idle"
        BY <1>1, <4>1, WorkMoves, ParkWaitMoves DEF Moves, Control
      <4> QED BY <1>1, <2>3, <4>1, <4>2, NowParts DEF QueueKnown
    <3> QED BY <3>1, <3>2
  <2> QED BY <1>1, <2>2, <2>3, QueueSteps
<1> QED BY <1>3, <1>4 DEF QueueKnown, IsPreset

-----------------------------------------------------------------------------
(* What the application has been told *)

LEMMA AnswerOutcome ==
  ASSUME TypeOK, op.k \in Call, NEW ok \in BOOLEAN, Answer(ok), NEW k \in Call
  PROVE  outcome'[k] = IF k = op.k THEN (IF ok THEN "ok" ELSE "error") ELSE outcome[k]
BY DEF Answer, TypeOK

LEMMA OutcomeSteps ==
  ASSUME TypeOK, Control, [Next]_vars
  PROVE  \/ UNCHANGED outcome
         \/ op.k \in Call /\ pc \notin {"idle", "gone"} /\ SameCall /\ pc' = "idle" /\ Answer(FALSE)
         \/ /\ op.k \in Call /\ (BackSingle \/ Cleanup) /\ op.ok /\ Answer(TRUE)
            /\ pc \notin {"idle", "gone"} /\ SameCall /\ pc' = "idle"
         \/ Flush /\ outcome' = Told(FALSE)
<1>0. op.ok \in BOOLEAN
  BY OpFields
<1>1. CASE \E kind \in Kinds : Begin(kind)
  BY <1>1 DEF Begin, answer
<1>2. CASE CreateBuffers \/ MakePresets
  <2>1. UNCHANGED outcome \/ Answer(FALSE)
    BY <1>2 DEF CreateBuffers, MakePresets, answer
  <2>2. pc \in {"buffers", "presets"} /\ op.k \in Call
    BY <1>2 DEF CreateBuffers, MakePresets, Control
  <2>3. Answer(FALSE) => SameCall /\ pc' = "idle"
    BY OkMove DEF Answer
  <2> QED BY <2>1, <2>2, <2>3
<1>3. CASE Drain \/ Pipeline \/ Submit \/ Park \/ Wait
  BY <1>3 DEF Drain, Pipeline, Submit, Park, Wait, answer
<1>4. CASE AllocSet \/ AllocCmd \/ CreateFence \/ Record
  BY <1>4 DEF AllocSet, AllocCmd, CreateFence, Record, Step, answer
<1>5. CASE BackSingle \/ Cleanup
  <2>1. Answer(op.ok) /\ op.k \in Call /\ pc \in {"back", "cleanup"}
    BY <1>5 DEF BackSingle, Cleanup, Control
  <2>2. SameCall /\ pc' = "idle"
    BY <1>0, <2>1, OkMove DEF Answer
  <2>3. CASE op.ok
    <3>1. op.ok = TRUE
      BY <1>0, <2>3
    <3> QED BY <1>5, <2>1, <2>2, <2>3, <3>1
  <2>4. CASE ~ op.ok
    <3>1. op.ok = FALSE
      BY <1>0, <2>4
    <3> QED BY <2>1, <2>2, <3>1
  <2> QED BY <2>3, <2>4
<1>6. CASE BackChain \/ ChainFlush \/ ContextDestroy
  BY <1>6 DEF BackChain, ChainFlush, ContextDestroy, answer
<1>7. CASE Flush
  <2>1. PICK good \in BOOLEAN : outcome' = Told(good)
    BY <1>7 DEF Flush
  <2>2. CASE good
    BY <2>1, <2>2 DEF Told, TypeOK
  <2>3. CASE ~ good
    <3>1. good = FALSE
      BY <2>3
    <3> QED BY <1>7, <2>1, <3>1
  <2> QED BY <2>2, <2>3
<1>8. CASE Finish \/ Lose \/ UNCHANGED vars
  BY <1>8 DEF Finish, Lose, vars, answer
<1> QED BY <1>1, <1>2, <1>3, <1>4, <1>5, <1>6, <1>7, <1>8 DEF Next, HostStep, Rest

\* Only a new call moves the host out of the idle state.
LEMMA CallGoesOn ==
  ASSUME TypeOK, Control, [Next]_vars
  PROVE  \/ pc = "idle" /\ op'.k = op.k + 1
         \/ op'.k = op.k /\ (pc' \notin {"idle", "gone"} => pc \notin {"idle", "gone"})
<1>1. CASE \E kind \in Kinds : Begin(kind)
  BY <1>1, BeginMoves
<1>2. CASE HostStep
  <2>1. pc \notin {"idle", "gone"}
    BY <1>2 DEF HostStep, CreateBuffers, MakePresets, Drain, Pipeline, AllocSet, AllocCmd, CreateFence,
       Record, Step, Submit, Park, Wait, BackSingle, BackChain, ChainFlush, Cleanup, Flush,
       ContextDestroy
  <2>2. op'.k = op.k
    BY <1>2, CreateBuffersMoves, MakePresetsMoves, WorkMoves, ParkWaitMoves, BackMoves, EndMoves
       DEF HostStep, Moves, SameCall
  <2> QED BY <2>1, <2>2
<1>3. CASE Finish \/ Lose \/ Rest \/ UNCHANGED vars
  BY <1>3 DEF Finish, Lose, Rest, vars, host
<1> QED BY <1>1, <1>2, <1>3 DEF Next

LEMMA UnansweredKept ==
  ASSUME TypeOK, Control, QueueKnown, Unanswered, [Next]_vars
  PROVE  Unanswered'
<1>1. op.k \in Nat /\ op'.k \in Nat
  BY OpFields, CallGoesOn
<1> SUFFICES ASSUME NEW k \in Call, k > op'.k \/ (k = op'.k /\ pc' \notin {"idle", "gone"})
             PROVE  outcome'[k] = "none"
  BY DEF Unanswered
<1>2. k > op.k \/ (k = op.k /\ pc \notin {"idle", "gone"} /\ pc' \notin {"idle", "gone"})
  BY <1>1, CallGoesOn DEF Call
<1>3. outcome[k] = "none"
  BY <1>2 DEF Unanswered
<1>4. CASE UNCHANGED outcome
  BY <1>3, <1>4
<1>5. ASSUME NEW ok \in BOOLEAN, op.k \in Call, Answer(ok), pc' = "idle"
      PROVE  outcome'[k] = "none"
  BY <1>1, <1>2, <1>3, <1>5, AnswerOutcome DEF Call
<1>6. CASE Flush /\ outcome' = Told(FALSE)
  <2>1. k \notin queue
    BY <1>1, <1>2, <1>6, EndMoves DEF QueueKnown, Call
  <2> QED BY <1>3, <1>6, <2>1 DEF Told
<1> QED BY <1>4, <1>5, <1>6, OutcomeSteps

\* What has been left behind is not taken up again.
LEMMA UnwaitedGrows ==
  ASSUME [Next]_vars
  PROVE  unwaited \subseteq unwaited'
<1>1. CASE (\E kind \in Kinds : Begin(kind)) \/ CreateBuffers \/ MakePresets \/ Pipeline
  BY <1>1 DEF Begin, CreateBuffers, MakePresets, Pipeline, device
<1>2. CASE AllocSet \/ AllocCmd \/ CreateFence \/ Record \/ Submit
  BY <1>2 DEF AllocSet, AllocCmd, CreateFence, Record, Step, Submit, device
<1>3. CASE Drain \/ Park \/ Wait
  BY <1>3 DEF Drain, DrainPending, Park, Wait, Waited
<1>4. CASE BackSingle \/ BackChain \/ Cleanup
  BY <1>4 DEF BackSingle, BackChain, Cleanup, device
<1>5. CASE ChainFlush \/ Flush \/ ContextDestroy
  BY <1>5 DEF ChainFlush, DrainPending, Flush, ContextDestroy, Waited
<1>6. CASE Finish \/ Lose \/ UNCHANGED vars
  BY <1>6 DEF Finish, Lose, vars, device
<1> QED BY <1>1, <1>2, <1>3, <1>4, <1>5, <1>6 DEF Next, HostStep, Rest

LEMMA ErrorStays ==
  ASSUME TypeOK, Control, Unanswered, [Next]_vars, NEW k \in Call, outcome[k] = "error"
  PROVE  outcome'[k] = "error"
<1>1. ASSUME NEW ok \in BOOLEAN, op.k \in Call, Answer(ok), pc \notin {"idle", "gone"}
      PROVE  outcome'[k] = "error"
  <2>1. k # op.k
    BY <1>1 DEF Unanswered
  <2> QED BY <1>1, <2>1, AnswerOutcome
<1>2. CASE outcome' = Told(FALSE)
  BY <1>2 DEF Told
<1> QED BY <1>1, <1>2, OutcomeSteps

LEMMA LeftStays ==
  ASSUME TypeOK, Control, Unanswered, [Next]_vars, NEW j \in Job, Left(j)
  PROVE  Left(j)'
BY JobParts, UnwaitedGrows, ErrorStays DEF Left

-----------------------------------------------------------------------------
(* The ring and the device *)

LEMMA RingKept ==
  ASSUME TypeOK, Control, RingKnown, [Next]_vars
  PROVE  RingKnown'
<1>1. ASSUME NEW kind \in Kinds, Begin(kind)
      PROVE  RingKnown'
  BY <1>1, BeginMoves DEF RingKnown
<1>2. CASE CreateBuffers \/ MakePresets
  BY <1>2, CreateBuffersMoves, MakePresetsMoves DEF RingKnown
<1>3. CASE Drain
  <2>1. CASE op.defer
    BY <1>3, <2>1, WorkMoves DEF RingKnown, Moves, SameCall
  <2>2. CASE ~ op.defer
    BY <1>3, <2>2, WorkMoves DEF Moves, Drain, DrainPending, RingKnown
  <2> QED BY <2>1, <2>2
<1>4. CASE Pipeline \/ AllocSet \/ AllocCmd \/ CreateFence \/ Record \/ Submit
  <2>1. UNCHANGED pending
    BY <1>4 DEF Pipeline, AllocSet, AllocCmd, CreateFence, Record, Submit, Step, ctx
  <2> QED BY <1>4, <2>1, WorkMoves DEF RingKnown, Moves, SameCall
<1>5. CASE Park
  BY <1>5, ParkWaitMoves DEF Control, RingKnown, SameCall
<1>6. CASE Wait
  <2>1. UNCHANGED pending
    BY <1>6 DEF Wait, ctx
  <2> QED BY <1>6, <2>1, ParkWaitMoves DEF RingKnown, SameCall
<1>7. CASE BackSingle \/ BackChain
  BY <1>7, BackMoves DEF RingKnown, Control
<1>8. CASE ChainFlush
  BY <1>8 DEF ChainFlush, DrainPending, RingKnown
<1>9. CASE Cleanup \/ Flush \/ ContextDestroy
  BY <1>9, EndMoves DEF RingKnown, ContextDestroy
<1>10. CASE Finish \/ Lose \/ UNCHANGED vars
  BY <1>10 DEF RingKnown, Finish, Lose, vars, host, ctx
<1> QED BY <1>1, <1>2, <1>3, <1>4, <1>5, <1>6, <1>7, <1>8, <1>9, <1>10 DEF Next, HostStep, Rest

\* Away from a submission, the device and the ring do not move ...
LEMMA DeviceStill ==
  ASSUME DeviceKnown, pc \notin {"park", "wait"}, pc' \notin {"park", "wait"},
         UNCHANGED <<pending, work>>, \A j \in flight : Left(j) => Left(j)'
  PROVE  DeviceKnown'
BY DEF DeviceKnown, work

\* ... and when the ring is emptied the device has finished, or what was in it is left.
LEMMA DeviceDrained ==
  ASSUME DeviceKnown, pc \notin {"park", "wait"}, pc' \notin {"park", "wait"}, pending' = {},
         UNCHANGED work, \A j \in flight : Left(j) => Left(j)',
         Signalled(pending) \/ \A j \in pending : Left(j)'
  PROVE  DeviceKnown'
BY DEF DeviceKnown, work, Signalled

LEMMA LeftBy ==
  ASSUME NEW S, NEW ks, CallsOf(S) \subseteq ks, Waited(S, ks, FALSE)
  PROVE  \A j \in S : Left(j)'
BY DEF Waited, CallsOf, Left

LEMMA DeviceKept ==
  ASSUME Bounded, Control, Unanswered, JobsKnown, DeviceKnown, RingKnown, PendingHasBuffers,
         [Next]_vars
  PROVE  DeviceKnown'
<1>0. TypeOK
  BY DEF Bounded
<1>l. \A j \in flight : Left(j) => Left(j)'
  BY <1>0, LeftStays DEF TypeOK
<1>1. ASSUME NEW kind \in Kinds, Begin(kind)
      PROVE  DeviceKnown'
  BY <1>0, <1>l, <1>1, BeginMoves, DeviceStill DEF Begin, ctx, device
<1>2. CASE CreateBuffers \/ MakePresets \/ BackSingle \/ BackChain \/ Cleanup
  <2>1. UNCHANGED <<pending, work>>
    BY <1>2 DEF CreateBuffers, MakePresets, BackSingle, BackChain, Cleanup, ctx, device
  <2> QED BY <1>0, <1>l, <1>2, <2>1, CreateBuffersMoves, MakePresetsMoves, BackMoves, EndMoves,
             DeviceStill
<1>3. CASE Pipeline \/ AllocSet \/ AllocCmd \/ CreateFence \/ Record
  <2>1. UNCHANGED <<pending, work>>
    BY <1>3 DEF Pipeline, AllocSet, AllocCmd, CreateFence, Record, Step, ctx, device
  <2> QED BY <1>0, <1>l, <1>3, <2>1, WorkMoves, DeviceStill DEF Moves
<1>4. CASE Drain
  <2>1. pc = "drain" /\ pc' \in {"pipeline", "back"} /\ UNCHANGED work
    BY <1>0, <1>4, WorkMoves DEF Moves, Drain
  <2>2. CASE op.defer
    BY <1>l, <1>4, <2>1, <2>2, DeviceStill DEF Drain
  <2>3. CASE ~ op.defer
    <3>1. PICK good \in BOOLEAN : DrainPending(good)
      BY <1>4, <2>3 DEF Drain
    <3>2. Signalled(pending) \/ \A j \in pending : Left(j)'
      <4>1. CASE good
        BY <3>1, <4>1 DEF DrainPending, Waited
      <4>2. CASE ~ good
        <5>1. good = FALSE
          BY <4>2
        <5> QED BY <3>1, <5>1, LeftBy DEF DrainPending
      <4> QED BY <4>1, <4>2
    <3> QED BY <1>l, <2>1, <3>1, <3>2, DeviceDrained DEF DrainPending
  <2> QED BY <2>2, <2>3
<1>5. CASE Submit
  <2>1. pc = "submit" /\ Now' = Now /\ op.k \in Call /\ UNCHANGED <<pending, ran, lost>>
    BY <1>0, <1>5, WorkMoves DEF Moves, Submit, ctx, Control
  <2>2. Now \notin Jobs
    BY <1>0, <2>1, NowParts DEF JobsKnown, JobKnown, Made
  <2>3. CASE ~ lost /\ flight' = flight \cup {Now} /\ pc' \in {"park", "wait"}
    BY <1>l, <2>1, <2>2, <2>3 DEF DeviceKnown, Jobs
  <2>4. CASE UNCHANGED flight /\ pc' = "back"
    BY <1>l, <2>1, <2>4, DeviceStill DEF work
  <2>5. (~ lost /\ flight' = flight \cup {Now} /\ pc' \in {"park", "wait"}) \/ (UNCHANGED flight /\ pc' = "back")
    BY <1>5 DEF Submit, Goto, Return
  <2> QED BY <2>3, <2>4, <2>5
<1>6. CASE Park
  <2>1. pc = "park" /\ pc' = "back" /\ Now' = Now /\ UNCHANGED work /\ Now[1] = op.k
    BY <1>0, <1>6, ParkWaitMoves, NowParts DEF Park, Control
  <2>2. CASE pending' = pending \cup {Now}
    BY <1>l, <2>1, <2>2 DEF DeviceKnown, work
  <2>3. CASE Signalled(pending) /\ pending' = {Now}
    BY <1>l, <2>1, <2>3 DEF DeviceKnown, work, Signalled
  <2>4. CASE Waited(pending, CallsOf(pending) \cup {op.k}, FALSE) /\ pending' = {}
    <3>1. \A j \in pending : Left(j)'
      BY <2>4, LeftBy
    <3>2. Left(Now)'
      <4>1. op.k \in unwaited' /\ Now'[1] = op.k
        BY <2>1, <2>4 DEF Waited
      <4> QED BY <4>1 DEF Left
    <3> QED BY <1>l, <2>1, <2>4, <3>1, <3>2 DEF DeviceKnown, work
  <2> QED BY <1>6, <2>2, <2>3, <2>4 DEF Park, Waited
<1>7. CASE Wait
  <2>1. /\ pc = "wait" /\ pc' = "back" /\ UNCHANGED <<pending, work>> /\ ~ op.defer
        /\ Now' = Now /\ Now[1] = op.k
    BY <1>0, <1>7, ParkWaitMoves, NowParts DEF Wait, ctx, Control
  <2>2. Now \in ran \/ Left(Now)'
    <3>1. Now \in ran \/ op.k \in unwaited'
      BY <1>7 DEF Wait, Waited, Signalled
    <3>2. op.k \in unwaited' => Left(Now)'
      BY <2>1 DEF Left
    <3> QED BY <3>1, <3>2
  <2> QED BY <1>l, <2>1, <2>2 DEF DeviceKnown, work
<1>8. CASE ChainFlush
  <2>1. /\ pc = "flush" /\ pc' = "cleanup" /\ pending' = {} /\ UNCHANGED work
        /\ \E good \in BOOLEAN : Waited(pending, CallsOf(pending), good)
    BY <1>8 DEF ChainFlush, DrainPending
  <2>2. Signalled(pending) \/ \A j \in pending : Left(j)'
    BY <2>1, LeftBy DEF Waited
  <2> QED BY <1>l, <2>1, <2>2, DeviceDrained
<1>9. CASE Flush
  <2>1. /\ pc = "flush" /\ pc' = "idle" /\ op.kind = "flush" /\ pending' = {} /\ UNCHANGED work
        /\ Signalled(pending) \/ outcome' = Told(FALSE)
    BY <1>9 DEF Flush, Waited
  <2>2. ASSUME outcome' = Told(FALSE), NEW j \in pending
        PROVE  Left(j)'
    <3>1. j[1] \in Call
      BY <1>0, JobParts DEF TypeOK
    <3>2. j[1] \in queue \/ outcome[j[1]] = "error"
      BY <2>1 DEF PendingHasBuffers, OwnsBuffers, Chain, Working
    <3>3. outcome'[j[1]] = "error"
      BY <2>2, <3>1, <3>2 DEF Told
    <3> QED BY <3>3 DEF Left
  <2> QED BY <1>l, <2>1, <2>2, DeviceDrained
<1>13. CASE ContextDestroy
  <2>1. /\ pc = "destroy" /\ pc' = "gone" /\ pending' = {} /\ UNCHANGED work
        /\ \E good \in BOOLEAN : Waited(pending, CallsOf(pending) \cup queue, good)
    BY <1>13 DEF ContextDestroy
  <2>2. Signalled(pending) \/ \A j \in pending : Left(j)'
    BY <2>1, LeftBy DEF Waited
  <2> QED BY <1>l, <2>1, <2>2, DeviceDrained
<1>10. CASE Finish
  <2>1. Now' = Now
    BY <1>10 DEF Finish, host, Now
  <2> QED BY <1>l, <1>10, <2>1 DEF DeviceKnown, Finish, host, ctx
<1>11. CASE Lose
  <2>1. Now' = Now
    BY <1>11 DEF Lose, host, Now
  <2> QED BY <1>11, <2>1 DEF DeviceKnown, Lose, host, ctx
<1>12. CASE UNCHANGED vars
  BY <1>l, <1>12 DEF DeviceKnown, vars, host, ctx, device, work, Now
<1> QED BY <1>1, <1>2, <1>3, <1>4, <1>5, <1>6, <1>7, <1>8, <1>9, <1>10, <1>11, <1>12, <1>13
        DEF Next, HostStep, Rest

-----------------------------------------------------------------------------
(* Who owns the buffers *)

\* Steps of the dispatch make and release no buffers.
LEMMA BuffersStill ==
  ASSUME TypeOK, NEW k \in Call, NEW n \in -1..Links,
         \/ Drain /\ op.k \in Call
         \/ (AllocSet \/ AllocCmd \/ CreateFence \/ Record \/ Submit \/ Park \/ Wait) /\ op.k \in Call
         \/ ChainFlush
  PROVE  /\ <<"buffers", k, n>> \in live' <=> <<"buffers", k, n>> \in live
         /\ UNCHANGED queue
<1>1. pending \subseteq Job /\ <<"buffers", k, n>> \notin HeldBy(pending)
  BY NoBuffersHeld DEF TypeOK
<1>2. CASE Drain \/ ChainFlush
  BY <1>1, <1>2 DEF Drain, ChainFlush, DrainPending, Destroy, vulkan
<1>3. CASE (AllocSet \/ AllocCmd \/ CreateFence \/ Record) /\ op.k \in Call
  <2>1. ASSUME NEW l \in {"set", "cmd", "fence", "record"}, NEW S, NEW m, Step(l, S, m),
               <<"buffers", k, n>> \notin S
        PROVE  <<"buffers", k, n>> \in live' <=> <<"buffers", k, n>> \in live
    BY <1>3, <2>1, NoBuffersUnwound DEF Step, Create, Destroy
  <2>2. /\ <<"buffers", k, n>> \notin {SetOf(Now)} /\ <<"buffers", k, n>> \notin {Cmd(Now)}
        /\ <<"buffers", k, n>> \notin {Fence(Now)} /\ <<"buffers", k, n>> \notin {}
    BY DEF SetOf, Cmd, Fence
  <2>3. UNCHANGED queue
    BY <1>3 DEF AllocSet, AllocCmd, CreateFence, Record, Step, ctx
  <2> QED BY <1>3, <2>1, <2>2, <2>3 DEF AllocSet, AllocCmd, CreateFence, Record, vulkan
<1>4. CASE Submit /\ op.k \in Call
  BY <1>4, NoBuffersUnwound DEF Submit, Destroy, vulkan, ctx
<1>5. CASE Park /\ op.k \in Call
  BY <1>1, <1>5, NoBuffersUnwound DEF Park, Create, Destroy
<1>6. CASE Wait /\ op.k \in Call
  <2>1. <<"buffers", k, n>> \notin Held(Now)
    BY DEF Held, Fence, Cmd, SetOf
  <2> QED BY <1>6, <2>1, NoBuffersUnwound DEF Wait, Destroy, ctx
<1> QED BY <1>2, <1>3, <1>4, <1>5, <1>6

LEMMA BuffersKept ==
  ASSUME Bounded, Control, QueueKnown, BuffersExact, [Next]_vars
  PROVE  BuffersExact'
<1> SUFFICES ASSUME NEW k \in Call, NEW n \in -1..Links
             PROVE  (<<"buffers", k, n>> \in live <=> n = 0 /\ (k \in queue \/ OwnsBuffers(k)))'
  BY DEF BuffersExact
<1>0. /\ TypeOK /\ op.k \in Nat /\ k \in Nat
      /\ <<"buffers", k, n>> \in live <=> n = 0 /\ (k \in queue \/ OwnsBuffers(k))
  BY OpFields DEF BuffersExact, Bounded, Call
<1>1. ASSUME NEW kind \in Kinds, Begin(kind)
      PROVE  (<<"buffers", k, n>> \in live <=> n = 0 /\ (k \in queue \/ OwnsBuffers(k)))'
  BY <1>0, <1>1, BeginMoves DEF OwnsBuffers, Working, Begin, vulkan, ctx, Chain
<1>2. CASE CreateBuffers
  <2>1. UNCHANGED queue
    BY <1>2 DEF CreateBuffers, ctx
  <2>2. pc = "buffers" /\ op'.k = op.k
    BY <1>0, <1>2, CreateBuffersMoves
  <2>3. CASE pc' \in {"presets", "drain"} /\ live' = live \cup {Buffers(op.k)}
    BY <1>0, <2>1, <2>2, <2>3 DEF OwnsBuffers, Working, Buffers
  <2>4. CASE pc' = "idle" /\ UNCHANGED live
    BY <1>0, <2>1, <2>2, <2>4 DEF OwnsBuffers, Working
  <2>5. \/ pc' \in {"presets", "drain"} /\ live' = live \cup {Buffers(op.k)}
        \/ pc' = "idle" /\ UNCHANGED live
    BY <1>2 DEF CreateBuffers, Create, Answer, vulkan
  <2> QED BY <2>3, <2>4, <2>5
<1>3. CASE MakePresets
  <2>1. UNCHANGED queue /\ (k \in queue => k # op.k)
    BY <1>0, <1>3 DEF MakePresets, ctx, QueueKnown
  <2>2. <<"buffers", k, n>> \notin Presets(op.k)
    BY DEF Presets
  <2> QED BY <1>0, <1>3, <2>1, <2>2, MakePresetsMoves
          DEF OwnsBuffers, Working, Create, Destroy, Buffers, SameCall
<1>4. CASE Drain \/ AllocSet \/ AllocCmd \/ CreateFence \/ Record \/ Submit
  <2>1. /\ pc \in Working /\ pc' \in Working \cup {"back"} /\ SameCall
    BY <1>0, <1>4, WorkMoves DEF Moves, Working
  <2>2. op.k \in Call
    BY <2>1 DEF Control, Working
  <2> QED BY <1>0, <1>4, <2>1, <2>2, BuffersStill DEF OwnsBuffers, SameCall
<1>5. CASE Pipeline
  BY <1>0, <1>5, WorkMoves DEF Moves, OwnsBuffers, SameCall, Working, Pipeline, vulkan
<1>6. CASE Park \/ Wait
  <2>1. pc \in Working /\ pc' = "back" /\ SameCall
    BY <1>0, <1>6, ParkWaitMoves DEF Working
  <2>2. op.k \in Call
    BY <2>1 DEF Control, Working
  <2> QED BY <1>0, <1>6, <2>1, <2>2, BuffersStill DEF OwnsBuffers, SameCall
<1>7. CASE BackSingle
  <2>1. pc = "back" /\ pc' = "idle" /\ SameCall /\ op.k \in Call
    BY <1>0, <1>7, BackMoves DEF Control
  <2>2. CASE op.ok /\ op.defer
    BY <1>0, <1>7, <2>1, <2>2 DEF BackSingle, OwnsBuffers, Working, SameCall, vulkan
  <2>3. CASE ~ (op.ok /\ op.defer)
    <3>1. UNCHANGED queue /\ (k \in queue => k # op.k) /\ live' = live \ {Buffers(op.k)}
      BY <1>7, <2>1, <2>3 DEF BackSingle, QueueKnown, Destroy
    <3> QED BY <1>0, <2>1, <3>1 DEF OwnsBuffers, Working, SameCall, Buffers
  <2> QED BY <2>2, <2>3
<1>8. CASE BackChain
  BY <1>0, <1>8, BackMoves DEF BackChain, OwnsBuffers, Working, vulkan, ctx
<1>9. CASE ChainFlush
  <2>1. pc = "flush" /\ op.kind \in Chain /\ SameCall /\ pc' = "cleanup"
    BY <1>0, <1>9, EndMoves
  <2> QED BY <1>0, <1>9, <2>1, BuffersStill DEF OwnsBuffers, SameCall
<1>10. CASE Cleanup
  <2>1. pc = "cleanup" /\ pc' = "idle" /\ SameCall /\ UNCHANGED queue /\ (k \in queue => k # op.k)
    BY <1>0, <1>10, EndMoves DEF Cleanup, ctx, QueueKnown
  <2>2. live' = live \ ({Buffers(op.k)} \cup {s \in Presets(op.k) : op.kind = "preset"})
    BY <1>10 DEF Cleanup, Destroy
  <2>3. <<"buffers", k, n>> \notin Presets(op.k)
    BY DEF Presets
  <2> QED BY <1>0, <2>1, <2>2, <2>3 DEF OwnsBuffers, Working, SameCall, Buffers
<1>11. CASE Flush \/ ContextDestroy
  <2>1. /\ pc \in {"flush", "destroy"} /\ pc' \in {"idle", "gone"} /\ SameCall /\ queue' = {}
        /\ pc = "flush" => op.kind = "flush"
    BY <1>0, <1>11, EndMoves DEF Flush, ContextDestroy
  <2>2. pending \in SUBSET Job /\ queue \in SUBSET Call
    BY <1>0 DEF TypeOK
  <2>3. <<"buffers", k, n>> \notin HeldBy(pending)
    BY <2>2, NoBuffersHeld
  <2>4. <<"buffers", k, n>> \in BuffersOf(queue) <=> n = 0 /\ k \in queue
    BY <2>2, BufferMembers
  <2>5. <<"buffers", k, n>> \in live' <=> <<"buffers", k, n>> \in live /\ <<"buffers", k, n>> \notin BuffersOf(queue)
    BY <1>11, <2>3 DEF Flush, ContextDestroy, Destroy
  <2> QED BY <1>0, <2>1, <2>4, <2>5 DEF OwnsBuffers, Working, SameCall, Chain
<1>12. CASE Finish \/ Lose \/ UNCHANGED vars
  BY <1>0, <1>12 DEF OwnsBuffers, Finish, Lose, vars, host, ctx, vulkan
<1> QED BY <1>1, <1>2, <1>3, <1>4, <1>5, <1>6, <1>7, <1>8, <1>9, <1>10, <1>11, <1>12
        DEF Next, HostStep, Rest

-----------------------------------------------------------------------------
(* Who owns the fences, the command buffers and the descriptor sets *)

LEMMA NowShape ==
  ASSUME TypeOK, op.k \in Call
  PROVE  Now \in Job /\ (Now[3] = Now[2] \/ IsPreset(Now))
BY NowParts

LEMMA HandleOf ==
  ASSUME NEW j \in Job, j[3] = j[2] \/ IsPreset(j),
         NEW tag \in Handle, NEW k \in Call, NEW n \in -1..Links, tag = "set" => n > 0
  PROVE  /\ <<tag, k, n>> = Fence(j) <=> tag = "fence" /\ Names(j, tag, k, n)
         /\ <<tag, k, n>> = Cmd(j) <=> tag = "cmd" /\ Names(j, tag, k, n)
         /\ <<tag, k, n>> = SetOf(j) <=> tag = "set" /\ Names(j, tag, k, n)
         /\ <<tag, k, n>> \in Held(j) <=> Names(j, tag, k, n)
<1>1. n \in Int /\ j[3] \in Int
  BY JobParts, DispatchAssumption
<1>2. <<tag, k, n>> = Fence(j) <=> tag = "fence" /\ Names(j, tag, k, n)
  BY DEF Fence, Names
<1>3. <<tag, k, n>> = Cmd(j) <=> tag = "cmd" /\ Names(j, tag, k, n)
  BY DEF Cmd, Names
<1>4. <<tag, k, n>> = SetOf(j) <=> tag = "set" /\ Names(j, tag, k, n)
  <2>1. CASE IsPreset(j)
    BY <1>1, <2>1 DEF SetOf, Names, IsPreset
  <2>2. CASE ~ IsPreset(j)
    BY <1>1, <2>2 DEF SetOf, Names
  <2> QED BY <2>1, <2>2
<1>5. <<tag, k, n>> \in Held(j) <=> Names(j, tag, k, n)
  <2>1. CASE IsPreset(j)
    <3>1. Held(j) = {Fence(j), Cmd(j)}
      BY <2>1 DEF Held
    <3> QED BY <1>2, <1>3, <2>1, <3>1 DEF Names, Handle
  <2>2. CASE ~ IsPreset(j)
    <3>1. Held(j) = {Fence(j), Cmd(j), SetOf(j)}
      BY <2>2 DEF Held
    <3> QED BY <1>2, <1>3, <1>4, <3>1 DEF Handle
  <2> QED BY <2>1, <2>2
<1> QED BY <1>2, <1>3, <1>4, <1>5

LEMMA HandleHeld ==
  ASSUME NEW S, S \subseteq Job, \A j \in S : j[3] = j[2] \/ IsPreset(j),
         NEW tag \in Handle, NEW k \in Call, NEW n \in -1..Links, tag = "set" => n > 0
  PROVE  <<tag, k, n>> \in HeldBy(S) <=> \E j \in S : Names(j, tag, k, n)
<1>1. \A j \in S : <<tag, k, n>> \in Held(j) <=> Names(j, tag, k, n)
  BY HandleOf
<1>2. <<tag, k, n>> \in HeldBy(S) <=> \E j \in S : <<tag, k, n>> \in Held(j)
  BY DEF HeldBy
<1> QED BY <1>1, <1>2

LEMMA HandleUnwound ==
  ASSUME TypeOK, op.k \in Call, NEW tag \in Handle, NEW k \in Call, NEW n \in -1..Links,
         tag = "set" => n > 0, NEW l \in {"set", "cmd", "fence", "record", "submit", "park", "wait"}
  PROVE  <<tag, k, n>> \in Unwound(l) <=> Names(Now, tag, k, n) /\ l \in Places(tag)
<1>1. <<tag, k, n>> \in Unwound(l) <=>
        \/ l \in HasFence /\ <<tag, k, n>> = Fence(Now)
        \/ l \in HasCmd /\ <<tag, k, n>> = Cmd(Now)
        \/ l \in HasSet /\ <<tag, k, n>> = SetOf(Now)
  BY DEF Unwound, HasFence, HasCmd, HasSet
<1>2. <<tag, k, n>> \in Unwound(l) <=>
        /\ Names(Now, tag, k, n)
        /\ \/ l \in HasFence /\ tag = "fence"
           \/ l \in HasCmd /\ tag = "cmd"
           \/ l \in HasSet /\ tag = "set"
  BY <1>1, NowShape, HandleOf
<1> QED BY <1>2 DEF Places, Handle

\* A dispatch that is not submitted yet shares no handle with the ring.
LEMMA NowIsNew ==
  ASSUME Bounded, JobsKnown, DeviceKnown, op.k \in Call, pc \in Working,
         NEW tag, NEW k, NEW n, NEW j \in pending, Names(j, tag, k, n)
  PROVE  ~ Names(Now, tag, k, n)
<1>1. TypeOK /\ j \in Job /\ JobKnown(j)
  BY DEF Bounded, TypeOK, JobsKnown, Jobs
<1>2. SUFFICES ASSUME j[1] = op.k, j[2] = op.i
               PROVE  FALSE
  BY <1>1, NowParts DEF Names
<1>3. pc \in {"park", "wait"}
  BY <1>1, <1>2 DEF JobKnown, Made, Working
<1>4. op.kind \notin {"flush", "destroy"} /\ j[3] = IF op.kind = "preset" THEN (op.i % 2) - 1 ELSE op.i
  BY <1>1, <1>2 DEF JobKnown
<1>5. j = Now
  BY <1>1, <1>2, <1>4, JobParts DEF Now
<1> QED BY <1>3, <1>5 DEF DeviceKnown

\* The ring and the host stay where they were.
LEMMA HandleStill ==
  ASSUME NEW tag \in Handle, NEW k, NEW n, HandleExact(tag, k, n), UNCHANGED pending,
         <<tag, k, n>> \in live' <=> <<tag, k, n>> \in live,
         pc \notin HasSet, pc' \notin HasSet
  PROVE  HandleExact(tag, k, n)'
<1>1. pc \notin Places(tag) /\ pc' \notin Places(tag)
  BY DEF Places, HasSet, HasCmd, HasFence
<1> QED BY <1>1 DEF HandleExact, Names, Places

\* The ring is emptied away from a submission.
LEMMA HandleDrained ==
  ASSUME Bounded, JobsKnown,
         NEW tag \in Handle, NEW k \in Call, NEW n \in -1..Links, tag = "set" => n > 0,
         HandleExact(tag, k, n), pending' = {}, pc \notin HasSet, pc' \notin HasSet,
         <<tag, k, n>> \in live' => <<tag, k, n>> \in live \ HeldBy(pending)
  PROVE  HandleExact(tag, k, n)'
<1>1. pc \notin Places(tag) /\ pc' \notin Places(tag)
  BY DEF Places, HasSet, HasCmd, HasFence
<1>2. <<tag, k, n>> \in HeldBy(pending) <=> \E j \in pending : Names(j, tag, k, n)
  BY HandleHeld DEF Bounded, TypeOK, JobsKnown, JobKnown, Jobs
<1> QED BY <1>1, <1>2 DEF HandleExact, Places

\* A step of the dispatch makes one object of the present submission, or unwinds.
LEMMA HandleStep ==
  ASSUME Bounded, Control, JobsKnown, DeviceKnown,
         NEW tag \in Handle, NEW k \in Call, NEW n \in -1..Links, tag = "set" => n > 0,
         HandleExact(tag, k, n),
         NEW here \in {"set", "cmd", "fence", "record"}, NEW l \in Labels, NEW S,
         Step(here, S, l), Moves(here, l),
         here \in Places(tag) => l \in Places(tag),
         <<tag, k, n>> \in S <=> Names(Now, tag, k, n) /\ l \in Places(tag) /\ here \notin Places(tag)
  PROVE  HandleExact(tag, k, n)'
<1>1. /\ TypeOK /\ pc = here /\ Now' = Now /\ UNCHANGED pending /\ op.k \in Call
      /\ here \in Working
  BY DEF Bounded, Moves, Step, ctx, Control, Working
<1>2. \A j \in pending : Names(j, tag, k, n) => ~ Names(Now, tag, k, n)
  BY <1>1, NowIsNew
<1>3. CASE Create(S) /\ pc' = l
  BY <1>1, <1>3 DEF HandleExact, Create, Names, Places, IsPreset
<1>4. CASE Destroy(Unwound(here)) /\ pc' = "back"
  <2>1. <<tag, k, n>> \in Unwound(here) <=> Names(Now, tag, k, n) /\ here \in Places(tag)
    BY <1>1, HandleUnwound
  <2>2. "back" \notin Places(tag)
    BY DEF Places, HasSet, HasCmd, HasFence
  <2>3. live' = live \ Unwound(here)
    BY <1>4 DEF Destroy
  <2>4. \A j \in pending : Names(j, tag, k, n)' <=> Names(j, tag, k, n)
    BY DEF Names, IsPreset
  <2>5. <<tag, k, n>> \in live' <=> \E j \in pending : Names(j, tag, k, n)
    BY <1>1, <1>2, <2>1, <2>3 DEF HandleExact
  <2> QED BY <1>1, <1>4, <2>2, <2>5 DEF HandleExact, Names, Places, IsPreset
<1>5. (Create(S) /\ pc' = l) \/ (Destroy(Unwound(here)) /\ pc' = "back")
  BY DEF Step, Goto, Return
<1> QED BY <1>3, <1>4, <1>5

LEMMA HandlesKept ==
  ASSUME Bounded, Control, JobsKnown, DeviceKnown, RingKnown, HandlesExact, [Next]_vars
  PROVE  HandlesExact'
<1> SUFFICES ASSUME NEW tag \in Handle, NEW k \in Call, NEW n \in -1..Links, tag = "set" => n > 0
             PROVE  HandleExact(tag, k, n)'
  BY DEF HandlesExact
<1> DEFINE h == <<tag, k, n>>
<1>0. TypeOK /\ HandleExact(tag, k, n) /\ pending \subseteq Job /\ queue \subseteq Call
  BY DEF Bounded, HandlesExact, TypeOK
<1>a. \A ks : h \notin BuffersOf(ks)
  BY DEF BuffersOf, Buffers, Handle
<1>b. \A b : h # Buffers(b)
  BY DEF Buffers, Handle
<1>c. \A b : h \notin Presets(b)
  <2>1. n \in Int
    BY DispatchAssumption
  <2> QED BY <2>1 DEF Presets, Handle
<1>1. ASSUME NEW kind \in Kinds, Begin(kind)
      PROVE  HandleExact(tag, k, n)'
  <2>1. pc = "idle" /\ pc' \in {"flush", "destroy", "buffers"} /\ UNCHANGED <<pending, live>>
    BY <1>0, <1>1, BeginMoves DEF Begin, ctx, vulkan
  <2> QED BY <1>0, <2>1, HandleStill DEF HasSet, HasCmd, HasFence
<1>2. CASE CreateBuffers
  <2>1. pc = "buffers" /\ pc' \in {"presets", "drain", "idle"} /\ UNCHANGED pending
    BY <1>0, <1>2, CreateBuffersMoves DEF CreateBuffers, ctx
  <2>2. h \in live' <=> h \in live
    BY <1>b, <1>2 DEF CreateBuffers, Create, vulkan
  <2> QED BY <1>0, <2>1, <2>2, HandleStill DEF HasSet, HasCmd, HasFence
<1>3. CASE MakePresets
  <2>1. pc = "presets" /\ pc' \in {"drain", "idle"} /\ UNCHANGED pending
    BY <1>0, <1>3, MakePresetsMoves DEF MakePresets, ctx
  <2>2. h \in live' <=> h \in live
    BY <1>b, <1>c, <1>3 DEF MakePresets, Create, Destroy
  <2> QED BY <1>0, <2>1, <2>2, HandleStill DEF HasSet, HasCmd, HasFence
<1>4. CASE Drain
  <2>1. pc = "drain" /\ pc' \in {"pipeline", "back"}
    BY <1>0, <1>4, WorkMoves DEF Moves
  <2>2. CASE op.defer
    BY <1>0, <1>4, <2>1, <2>2, HandleStill DEF Drain, vulkan, HasSet, HasCmd, HasFence
  <2>3. CASE ~ op.defer
    <3>1. pending' = {} /\ live' = live \ HeldBy(pending)
      BY <1>4, <2>3 DEF Drain, DrainPending, Destroy
    <3> QED BY <1>0, <2>1, <3>1, HandleDrained DEF HasSet, HasCmd, HasFence
  <2> QED BY <2>2, <2>3
<1>5. CASE Pipeline
  <2>1. pc = "pipeline" /\ pc' \in {"set", "back"} /\ UNCHANGED <<pending, live>>
    BY <1>0, <1>5, WorkMoves DEF Moves, Pipeline, vulkan
  <2> QED BY <1>0, <2>1, HandleStill DEF HasSet, HasCmd, HasFence
<1>6. CASE AllocSet
  <2>1. op.k \in Call /\ Moves("set", "cmd")
    BY <1>0, <1>6, WorkMoves DEF Moves, Control
  <2>2. "set" \notin Places(tag) /\ ("cmd" \in Places(tag) <=> tag = "set") /\ "cmd" \in Labels
    BY DEF Places, HasSet, HasCmd, HasFence, Handle, Labels
  <2>3. CASE ~ IsPreset(Now)
    <3>1. Step("set", {SetOf(Now)}, "cmd")
      BY <1>6, <2>3 DEF AllocSet
    <3>2. h \in {SetOf(Now)} <=> tag = "set" /\ Names(Now, tag, k, n)
      BY <1>0, <2>1, NowShape, HandleOf
    <3> QED BY <1>0, <2>1, <2>2, <3>1, <3>2, HandleStep
  <2>4. CASE IsPreset(Now)
    <3>1. UNCHANGED <<pending, live>> /\ pc = "set" /\ pc' = "cmd" /\ Now' = Now
      BY <1>0, <1>6, <2>4, SameMove DEF AllocSet, Goto, ctx, vulkan
    <3>2. ~ (Names(Now, tag, k, n) /\ pc' \in Places(tag))
      BY <2>2, <2>4, <3>1 DEF Names
    <3> QED BY <1>0, <2>2, <3>1, <3>2 DEF HandleExact, Names, Places, IsPreset
  <2> QED BY <2>3, <2>4
<1>7. CASE AllocCmd
  <2>1. op.k \in Call /\ Moves("cmd", "fence") /\ Step("cmd", {Cmd(Now)}, "fence")
    BY <1>0, <1>7, WorkMoves DEF Moves, Control, AllocCmd
  <2>2. /\ "cmd" \in Places(tag) <=> tag = "set"
        /\ "fence" \in Places(tag) <=> tag \in {"set", "cmd"}
        /\ "fence" \in Labels
    BY DEF Places, HasSet, HasCmd, HasFence, Handle, Labels
  <2>3. h \in {Cmd(Now)} <=> tag = "cmd" /\ Names(Now, tag, k, n)
    BY <1>0, <2>1, NowShape, HandleOf
  <2> QED BY <1>0, <2>1, <2>2, <2>3, HandleStep
<1>8. CASE CreateFence
  <2>1. op.k \in Call /\ Moves("fence", "record") /\ Step("fence", {Fence(Now)}, "record")
    BY <1>0, <1>8, WorkMoves DEF Moves, Control, CreateFence
  <2>2. /\ "fence" \in Places(tag) <=> tag \in {"set", "cmd"}
        /\ "record" \in Places(tag) /\ "record" \in Labels
    BY DEF Places, HasSet, HasCmd, HasFence, Handle, Labels
  <2>3. h \in {Fence(Now)} <=> tag = "fence" /\ Names(Now, tag, k, n)
    BY <1>0, <2>1, NowShape, HandleOf
  <2>4. tag = "fence" <=> tag \notin {"set", "cmd"}
    BY DEF Handle
  <2> QED BY <1>0, <2>1, <2>2, <2>3, <2>4, HandleStep
<1>9. CASE Record
  <2>1. op.k \in Call /\ Moves("record", "submit") /\ Step("record", {}, "submit")
    BY <1>0, <1>9, WorkMoves DEF Moves, Control, Record
  <2>2. "record" \in Places(tag) /\ "submit" \in Places(tag) /\ "submit" \in Labels
    BY DEF Places, HasSet, HasCmd, HasFence, Handle, Labels
  <2> QED BY <1>0, <2>1, <2>2, HandleStep
<1>10. CASE Submit
  <2>1. /\ op.k \in Call /\ pc = "submit" /\ Now' = Now /\ UNCHANGED pending /\ pc \in Working
        /\ \/ UNCHANGED live /\ pc' \in {"park", "wait"}
           \/ live' = live \ Unwound("submit") /\ pc' = "back"
    BY <1>0, <1>10, WorkMoves
    DEF Moves, Control, Submit, Goto, Return, Destroy, ctx, vulkan, Working
  <2>2. /\ "submit" \in Places(tag) /\ "park" \in Places(tag) /\ "wait" \in Places(tag)
        /\ "back" \notin Places(tag)
    BY DEF Places, HasSet, HasCmd, HasFence, Handle
  <2>3. h \in Unwound("submit") <=> Names(Now, tag, k, n)
    BY <1>0, <2>1, <2>2, HandleUnwound
  <2>4. \A j \in pending : Names(j, tag, k, n) => ~ Names(Now, tag, k, n)
    BY <2>1, NowIsNew
  <2>5. CASE UNCHANGED live /\ pc' \in {"park", "wait"}
    BY <1>0, <2>1, <2>2, <2>5 DEF HandleExact, Names, Places, IsPreset
  <2>6. CASE live' = live \ Unwound("submit") /\ pc' = "back"
    <3>1. h \in live' <=> \E j \in pending : Names(j, tag, k, n)
      BY <1>0, <2>1, <2>2, <2>3, <2>4, <2>6 DEF HandleExact
    <3> QED BY <2>1, <2>2, <2>6, <3>1 DEF HandleExact, Names, Places, IsPreset
  <2> QED BY <2>1, <2>5, <2>6
<1>11. CASE Park
  <2>1. /\ op.k \in Call /\ pc = "park" /\ pc' = "back" /\ Now' = Now /\ pc \in Working
        /\ \/ pending' = pending \cup {Now} /\ UNCHANGED live
           \/ pending' = {Now} /\ live' = live \ HeldBy(pending)
           \/ pending' = {} /\ live' = live \ (HeldBy(pending) \cup Unwound("park"))
    BY <1>0, <1>11, ParkWaitMoves DEF Control, Park, Create, Destroy, Working
  <2>2. "park" \in Places(tag) /\ "back" \notin Places(tag)
    BY DEF Places, HasSet, HasCmd, HasFence, Handle
  <2>3. h \in Unwound("park") <=> Names(Now, tag, k, n)
    BY <1>0, <2>1, <2>2, HandleUnwound
  <2>4. \A j \in pending : Names(j, tag, k, n) => ~ Names(Now, tag, k, n)
    BY <2>1, NowIsNew
  <2>5. h \in HeldBy(pending) <=> \E j \in pending : Names(j, tag, k, n)
    BY <1>0, HandleHeld DEF JobsKnown, JobKnown, Jobs
  <2>6. h \in live <=> (\E j \in pending : Names(j, tag, k, n)) \/ Names(Now, tag, k, n)
    BY <1>0, <2>1, <2>2 DEF HandleExact
  <2>7. h \in live' <=> \E j \in pending' : Names(j, tag, k, n)
    <3>1. CASE pending' = pending \cup {Now} /\ UNCHANGED live
      BY <2>6, <3>1
    <3>2. CASE pending' = {Now} /\ live' = live \ HeldBy(pending)
      BY <2>4, <2>5, <2>6, <3>2
    <3>3. CASE pending' = {} /\ live' = live \ (HeldBy(pending) \cup Unwound("park"))
      BY <2>3, <2>5, <2>6, <3>3
    <3> QED BY <2>1, <3>1, <3>2, <3>3
  <2> QED BY <2>1, <2>2, <2>7 DEF HandleExact, Names, Places, IsPreset
<1>12. CASE Wait
  <2>1. /\ op.k \in Call /\ pc = "wait" /\ pc' = "back" /\ Now' = Now /\ pc \in Working
        /\ UNCHANGED pending
        /\ live' = live \ Held(Now) \/ live' = live \ Unwound("wait")
    BY <1>0, <1>12, ParkWaitMoves DEF Control, Wait, Destroy, Working, ctx
  <2>2. "wait" \in Places(tag) /\ "back" \notin Places(tag)
    BY DEF Places, HasSet, HasCmd, HasFence, Handle
  <2>3. /\ h \in Unwound("wait") <=> Names(Now, tag, k, n)
        /\ h \in Held(Now) <=> Names(Now, tag, k, n)
    BY <1>0, <2>1, <2>2, HandleUnwound, NowShape, HandleOf
  <2>4. \A j \in pending : Names(j, tag, k, n) => ~ Names(Now, tag, k, n)
    BY <2>1, NowIsNew
  <2>5. h \in live' <=> \E j \in pending : Names(j, tag, k, n)
    BY <1>0, <2>1, <2>2, <2>3, <2>4 DEF HandleExact
  <2> QED BY <2>1, <2>2, <2>5 DEF HandleExact, Names, Places, IsPreset
<1>13. CASE BackSingle
  <2>1. pc = "back" /\ pc' = "idle" /\ UNCHANGED pending
    BY <1>0, <1>13, BackMoves DEF BackSingle
  <2>2. h \in live' <=> h \in live
    BY <1>b, <1>13 DEF BackSingle, Destroy, vulkan
  <2> QED BY <1>0, <2>1, <2>2, HandleStill DEF HasSet, HasCmd, HasFence
<1>14. CASE BackChain
  <2>1. pc = "back" /\ pc' \in {"drain", "flush", "cleanup"} /\ UNCHANGED <<pending, live>>
    BY <1>0, <1>14, BackMoves DEF BackChain, ctx, vulkan
  <2> QED BY <1>0, <2>1, HandleStill DEF HasSet, HasCmd, HasFence
<1>15. CASE Cleanup
  <2>1. pc = "cleanup" /\ pc' = "idle" /\ UNCHANGED pending
    BY <1>0, <1>15, EndMoves DEF Cleanup, ctx
  <2>2. h \in live' <=> h \in live
    BY <1>b, <1>c, <1>15 DEF Cleanup, Destroy
  <2> QED BY <1>0, <2>1, <2>2, HandleStill DEF HasSet, HasCmd, HasFence
<1>16. CASE ChainFlush \/ Flush
  <2>1. /\ pc = "flush" /\ pc' \in {"cleanup", "idle"} /\ pending' = {}
        /\ live' = live \ HeldBy(pending) \/ live' = live \ (HeldBy(pending) \cup BuffersOf(queue))
    BY <1>16 DEF ChainFlush, DrainPending, Flush, Destroy
  <2> QED BY <1>0, <2>1, HandleDrained DEF HasSet, HasCmd, HasFence
<1>17. CASE ContextDestroy
  <2>1. /\ pc = "destroy" /\ pc' = "gone" /\ pending' = {}
        /\ live' \subseteq live \ HeldBy(pending)
    BY <1>17 DEF ContextDestroy, Destroy
  <2> QED BY <1>0, <2>1, HandleDrained DEF HasSet, HasCmd, HasFence
<1>18. CASE Finish \/ Lose \/ UNCHANGED vars
  BY <1>0, <1>18 DEF HandleExact, Names, IsPreset, Now, Finish, Lose, vars, host, ctx, vulkan
<1> QED BY <1>1, <1>2, <1>3, <1>4, <1>5, <1>6, <1>7, <1>8, <1>9, <1>10, <1>11, <1>12, <1>13,
           <1>14, <1>15, <1>16, <1>17, <1>18 DEF Next, HostStep, Rest

-----------------------------------------------------------------------------
(* Who owns the preset sets *)

LEMMA NoPresetsHeld ==
  ASSUME NEW j \in Job, NEW k, NEW n \in -1..0
  PROVE  <<"set", k, n>> \notin Held(j)
<1>1. j[3] \in Int
  BY JobParts, DispatchAssumption
<1>2. CASE IsPreset(j)
  BY <1>2 DEF Held, Fence, Cmd
<1>3. CASE ~ IsPreset(j)
  BY <1>1, <1>3 DEF Held, Fence, Cmd, SetOf, IsPreset
<1> QED BY <1>2, <1>3

LEMMA PresetMembers ==
  ASSUME NEW b, NEW k, NEW n \in -1..0
  PROVE  <<"set", k, n>> \in Presets(b) <=> k = b
BY DEF Presets

\* Presets come from MakePresets only.
LEMMA PresetsMade ==
  ASSUME Bounded, Control, [Next]_vars, NEW k \in Call, NEW n \in -1..0, <<"set", k, n>> \in live'
  PROVE  <<"set", k, n>> \in live \/ (MakePresets /\ pc' = "drain" /\ k = op.k)
<1>0. TypeOK
  BY DEF Bounded
<1>1. CASE CreateBuffers
  <2>1. <<"set", k, n>> # Buffers(op.k)
    BY DEF Buffers
  <2>2. live' = live \cup {Buffers(op.k)} \/ UNCHANGED live
    BY <1>1 DEF CreateBuffers, Create, vulkan
  <2> QED BY <2>1, <2>2
<1>2. CASE MakePresets
  BY <1>2, PresetMembers DEF MakePresets, Create, Destroy, Goto
<1>3. CASE AllocSet \/ AllocCmd \/ CreateFence \/ Record
  <2>1. op.k \in Call
    BY <1>0, <1>3, WorkMoves DEF Moves, Control
  <2>2. ~ IsPreset(Now) => <<"set", k, n>> # SetOf(Now)
    BY <1>0, <2>1, NowParts, JobParts, DispatchAssumption DEF SetOf, IsPreset
  <2>3. <<"set", k, n>> # Cmd(Now) /\ <<"set", k, n>> # Fence(Now)
    BY DEF Cmd, Fence
  <2>4. ASSUME NEW l, NEW S, NEW m, Step(l, S, m), <<"set", k, n>> \notin S
        PROVE  <<"set", k, n>> \in live
    BY <2>4 DEF Step, Create, Destroy
  <2>5. CASE AllocSet
    <3>1. CASE IsPreset(Now)
      BY <2>5, <3>1 DEF AllocSet, vulkan
    <3>2. CASE ~ IsPreset(Now)
      BY <2>2, <2>4, <2>5, <3>2 DEF AllocSet
    <3> QED BY <3>1, <3>2
  <2>6. CASE AllocCmd
    BY <2>3, <2>4, <2>6 DEF AllocCmd
  <2>7. CASE CreateFence
    BY <2>3, <2>4, <2>7 DEF CreateFence
  <2>8. CASE Record
    BY <2>4, <2>8 DEF Record
  <2> QED BY <1>3, <2>5, <2>6, <2>7, <2>8
<1>4. CASE Drain \/ Pipeline \/ Submit \/ Park \/ Wait \/ ChainFlush
  <2>1. live' \subseteq live
    <3>1. CASE Drain \/ ChainFlush
      BY <3>1 DEF Drain, DrainPending, ChainFlush, Destroy, vulkan
    <3>2. CASE Pipeline \/ Submit
      BY <3>2 DEF Pipeline, Submit, Destroy, vulkan
    <3>3. CASE Park \/ Wait
      BY <3>3 DEF Park, Wait, Create, Destroy
    <3> QED BY <1>4, <3>1, <3>2, <3>3
  <2> QED BY <2>1
<1>5. CASE BackSingle \/ BackChain \/ Cleanup \/ Flush \/ ContextDestroy
  BY <1>5 DEF BackSingle, BackChain, Cleanup, Flush, ContextDestroy, Destroy, vulkan
<1>6. CASE Finish \/ Lose \/ UNCHANGED vars \/ \E kind \in Kinds : Begin(kind)
  BY <1>6 DEF Finish, Lose, vars, Begin, vulkan
<1> QED BY <1>1, <1>2, <1>3, <1>4, <1>5, <1>6 DEF Next, HostStep, Rest

\* They end with the call.
LEMMA PresetsEnd ==
  ASSUME Bounded, Control, PresetsKnown, [Next]_vars, NEW k \in Call, NEW n \in -1..0,
         <<"set", k, n>> \in live'
  PROVE  k = op'.k /\ op'.kind = "preset" /\ pc' \in Working \cup {"back", "flush", "cleanup"}
<1>0. TypeOK /\ (<<"set", k, n>> \in live \/ (MakePresets /\ pc' = "drain" /\ k = op.k))
  BY PresetsMade DEF Bounded
<1>1. CASE MakePresets /\ pc' = "drain" /\ k = op.k
  BY <1>0, <1>1, MakePresetsMoves DEF Control, SameCall, Working
<1>2. CASE <<"set", k, n>> \in live
  <2>1. k = op.k /\ op.kind = "preset" /\ pc \in Working \cup {"back", "flush", "cleanup"}
    BY <1>2 DEF PresetsKnown
  <2>2. ~ \E kind \in Kinds : Begin(kind)
    BY <2>1 DEF Begin, Working
  <2>3. ~ CreateBuffers /\ ~ MakePresets /\ ~ BackSingle /\ ~ Flush /\ ~ ContextDestroy
    BY <2>1 DEF CreateBuffers, MakePresets, BackSingle, Flush, ContextDestroy, Working, Single
  <2>4. CASE Drain \/ Pipeline \/ AllocSet \/ AllocCmd \/ CreateFence \/ Record \/ Submit
    BY <1>0, <2>1, <2>4, WorkMoves DEF Moves, SameCall, Working
  <2>5. CASE Park \/ Wait
    BY <1>0, <2>1, <2>5, ParkWaitMoves DEF SameCall
  <2>6. CASE BackChain
    BY <1>0, <2>1, <2>6, BackMoves DEF Working
  <2>7. CASE ChainFlush
    BY <1>0, <2>1, <2>7, EndMoves DEF SameCall
  <2>8. CASE Cleanup
    <3>1. <<"set", k, n>> \in {s \in Presets(op.k) : op.kind = "preset"}
      BY <2>1, PresetMembers
    <3> QED BY <2>8, <3>1 DEF Cleanup, Destroy
  <2>9. CASE Finish \/ Lose \/ UNCHANGED vars
    BY <2>1, <2>9 DEF Finish, Lose, vars, host
  <2> QED BY <2>2, <2>3, <2>4, <2>5, <2>6, <2>7, <2>8, <2>9 DEF Next, HostStep, Rest
<1> QED BY <1>0, <1>1, <1>2

\* As long as no dispatch fails, the caller has both.
LEMMA PresetsStay ==
  ASSUME Bounded, Control, PresetsKnown, [Next]_vars,
         op'.kind = "preset", pc' \in Working \cup {"flush"} \/ (pc' = "back" /\ op'.ok)
  PROVE  Presets(op'.k) \subseteq live'
<1>0. TypeOK /\ \A j \in Job, n \in -1..0 : <<"set", op.k, n>> \notin Held(j)
  BY NoPresetsHeld DEF Bounded
<1>1. SUFFICES op'.k = op.k /\ Presets(op.k) \subseteq live'
  BY DEF Presets
<1>2. ~ (\E kind \in Kinds : Begin(kind)) /\ ~ BackSingle /\ ~ Cleanup /\ ~ Flush /\ ~ ContextDestroy
  BY <1>0, BeginMoves, BackMoves, EndMoves DEF Working
<1>3. CASE CreateBuffers
  BY <1>0, <1>3, CreateBuffersMoves DEF Working
<1>4. CASE MakePresets
  BY <1>0, <1>4, MakePresetsMoves DEF Create, SameCall, Working
<1>5. CASE Drain \/ Pipeline \/ AllocSet \/ AllocCmd \/ CreateFence \/ Record \/ Submit
  <2>1. pc \in Working /\ op.kind = "preset" /\ op'.k = op.k /\ pc' \in Working
    BY <1>0, <1>5, WorkMoves DEF Moves, SameCall, Working
  <2>2. Presets(op.k) \subseteq live
    BY <2>1 DEF PresetsKnown
  <2>3. live \subseteq live'
    <3>1. op.defer /\ pc' # "back"
      BY <2>1 DEF Control, Chain, Working
    <3> QED BY <1>5, <3>1
            DEF Drain, Pipeline, AllocSet, AllocCmd, CreateFence, Record, Step, Submit, Create, Return, vulkan
  <2> QED BY <2>1, <2>2, <2>3
<1>6. CASE Park
  <2>1. pc = "park" /\ op.kind = "preset" /\ op'.k = op.k /\ pc' = "back" /\ op'.ok
    BY <1>0, <1>6, ParkWaitMoves DEF SameCall, Working
  <2>2. Presets(op.k) \subseteq live
    BY <2>1 DEF PresetsKnown, Working
  <2>3. UNCHANGED live \/ live' = live \ HeldBy(pending)
    <3>1. ~ Return(FALSE)
      BY <1>0, <2>1, ReturnMoves
    <3> QED BY <1>6, <3>1 DEF Park, Create, Destroy
  <2>4. \A n \in -1..0 : <<"set", op.k, n>> \notin HeldBy(pending)
    BY <1>0 DEF HeldBy, TypeOK
  <2> QED BY <2>1, <2>2, <2>3, <2>4 DEF Presets
<1>7. CASE Wait
  BY <1>0, <1>7, ParkWaitMoves DEF SameCall, Control, Chain
<1>8. CASE BackChain
  BY <1>0, <1>8, BackMoves DEF BackChain, PresetsKnown, vulkan, Working
<1>9. CASE ChainFlush
  BY <1>0, <1>9, EndMoves DEF Working
<1>10. CASE Finish \/ Lose \/ UNCHANGED vars
  BY <1>10 DEF Finish, Lose, vars, host, vulkan, PresetsKnown
<1> QED BY <1>2, <1>3, <1>4, <1>5, <1>6, <1>7, <1>8, <1>9, <1>10 DEF Next, HostStep, Rest

LEMMA PresetsKept ==
  ASSUME Bounded, Control, PresetsKnown, [Next]_vars
  PROVE  PresetsKnown'
<1>1. \A k \in Call, n \in -1..0 : <<"set", k, n>> \in live' =>
        k = op'.k /\ op'.kind = "preset" /\ pc' \in Working \cup {"back", "flush", "cleanup"}
  BY PresetsEnd
<1>2. (op'.kind = "preset" /\ (pc' \in Working \cup {"flush"} \/ (pc' = "back" /\ op'.ok)))
        => Presets(op'.k) \subseteq live'
  BY PresetsStay
<1> QED BY <1>1, <1>2 DEF PresetsKnown, Presets, Working

-----------------------------------------------------------------------------
(* Nothing is destroyed twice, and nothing leaks *)

LEMMA OwnBuffersLive ==
  ASSUME BuffersExact, op.k \in Call, OwnsBuffers(op.k)
  PROVE  Buffers(op.k) \in live
BY DispatchAssumption DEF BuffersExact, Buffers

LEMMA QueueLive ==
  ASSUME TypeOK, BuffersExact
  PROVE  BuffersOf(queue) \subseteq live
BY DispatchAssumption DEF BuffersExact, Buffers, BuffersOf, TypeOK

\* The ring's handles exist.
LEMMA RingLive ==
  ASSUME Bounded, JobsKnown, HandlesExact
  PROVE  HeldBy(pending) \subseteq live
<1>1. SUFFICES ASSUME NEW j \in pending
               PROVE  Held(j) \subseteq live
  BY DEF HeldBy
<1>2. j \in Job /\ (j[3] = j[2] \/ IsPreset(j))
  BY DEF Bounded, TypeOK, JobsKnown, JobKnown, Jobs
<1>3. j[1] \in Call /\ j[2] \in -1..Links /\ j[2] > 0
  BY <1>2, JobParts, DispatchAssumption
<1>4. Fence(j) \in live
  <2>1. HandleExact("fence", j[1], j[2])
    BY <1>3 DEF HandlesExact, Handle
  <2> QED BY <2>1 DEF HandleExact, Names, Fence
<1>5. Cmd(j) \in live
  <2>1. HandleExact("cmd", j[1], j[2])
    BY <1>3 DEF HandlesExact, Handle
  <2> QED BY <2>1 DEF HandleExact, Names, Cmd
<1>6. ~ IsPreset(j) => SetOf(j) \in live
  <2>1. HandleExact("set", j[1], j[2])
    BY <1>3 DEF HandlesExact, Handle
  <2> QED BY <1>2, <2>1 DEF HandleExact, Names, SetOf
<1> QED BY <1>4, <1>5, <1>6 DEF Held

\* So do those of the submission the host is making.
LEMMA NowLive ==
  ASSUME Bounded, HandlesExact, op.k \in Call
  PROVE  /\ pc \in HasFence => Fence(Now) \in live
         /\ pc \in HasCmd => Cmd(Now) \in live
         /\ pc \in HasSet => SetOf(Now) \in live \/ SetOf(Now) \in Presets(op.k)
<1>1. /\ Now[1] = op.k /\ Now[2] = op.i /\ op.i \in -1..Links /\ op.i > 0
      /\ op.kind # "preset" => Now[3] = op.i /\ ~ IsPreset(Now)
      /\ op.kind = "preset" => IsPreset(Now)
      /\ Now[3] \in -1..Links
  BY NowParts, OpFields, JobParts DEF Bounded
<1>2. pc \in HasFence => Fence(Now) \in live
  <2>1. HandleExact("fence", op.k, op.i)
    BY <1>1 DEF HandlesExact, Handle
  <2> QED BY <1>1, <2>1 DEF HandleExact, Names, Fence, Places
<1>3. pc \in HasCmd => Cmd(Now) \in live
  <2>1. HandleExact("cmd", op.k, op.i)
    BY <1>1 DEF HandlesExact, Handle
  <2> QED BY <1>1, <2>1 DEF HandleExact, Names, Cmd, Places
<1>4. pc \in HasSet /\ op.kind # "preset" => SetOf(Now) \in live
  <2>1. HandleExact("set", op.k, op.i)
    BY <1>1 DEF HandlesExact, Handle
  <2> QED BY <1>1, <2>1 DEF HandleExact, Names, SetOf, Places
<1>5. op.kind = "preset" => SetOf(Now) \in Presets(op.k)
  <2>1. op.kind = "preset" => Now[3] \in {-1, 0}
    BY <1>1, DispatchAssumption DEF IsPreset
  <2> QED BY <1>1, <2>1 DEF SetOf, Presets
<1> QED BY <1>2, <1>3, <1>4, <1>5

LEMMA UnwoundLive ==
  ASSUME Bounded, HandlesExact, op.k \in Call,
         pc \in {"set", "cmd", "fence", "record", "submit", "park", "wait"}
  PROVE  Unwound(pc) \subseteq live \cup Presets(op.k)
BY NowLive DEF Unwound, HasFence, HasCmd, HasSet

LEMMA ReleasedOnceKept ==
  ASSUME Bounded, Control, JobsKnown, OwnersExact, ReleasedOnce, [Next]_vars
  PROVE  ReleasedOnce'
<1>0. TypeOK /\ BuffersExact /\ HandlesExact
  BY DEF Bounded, OwnersExact
<1>1. ASSUME NEW S, Destroy(S), op.k \in Call, S \subseteq live \cup Presets(op.k)
      PROVE  ReleasedOnce'
  BY <1>1 DEF Destroy, ReleasedOnce, Presets
<1>2. HeldBy(pending) \subseteq live /\ BuffersOf(queue) \subseteq live
  BY <1>0, RingLive, QueueLive
<1>3. op.k \in Call /\ OwnsBuffers(op.k) => Buffers(op.k) \in live
  BY <1>0, OwnBuffersLive
<1>4. ASSUME UNCHANGED twice
      PROVE  ReleasedOnce'
  BY <1>4 DEF ReleasedOnce, Presets
<1>5. CASE (\E kind \in Kinds : Begin(kind)) \/ CreateBuffers \/ Pipeline \/ BackChain
           \/ Finish \/ Lose \/ UNCHANGED vars
  BY <1>4, <1>5 DEF Begin, CreateBuffers, Create, Pipeline, BackChain, Finish, Lose, vars, vulkan
<1>6. CASE MakePresets
  <2>1. pc = "presets" /\ op.k \in Call
    BY <1>6 DEF MakePresets, Control
  <2> QED BY <1>1, <1>3, <1>4, <1>6, <2>1 DEF MakePresets, Create, OwnsBuffers
<1>7. CASE Drain
  <2>1. op.k \in Call
    BY <1>7 DEF Drain, Control
  <2> QED BY <1>1, <1>2, <1>4, <1>7, <2>1 DEF Drain, DrainPending, vulkan
<1>8. CASE AllocSet \/ AllocCmd \/ CreateFence \/ Record
  <2>1. op.k \in Call
    BY <1>0, <1>8, WorkMoves DEF Moves, Control
  <2>2. ASSUME NEW S, NEW m, NEW l \in {"set", "cmd", "fence", "record"}, Step(l, S, m)
        PROVE  ReleasedOnce'
    <3>1. pc = l
      BY <2>2 DEF Step
    <3>2. Unwound(l) \subseteq live \cup Presets(op.k)
      BY <1>0, <2>1, <3>1, UnwoundLive
    <3> QED BY <1>1, <1>4, <2>1, <2>2, <3>2 DEF Step, Create
  <2>3. CASE AllocSet /\ IsPreset(Now)
    BY <1>4, <2>3 DEF AllocSet, vulkan
  <2>4. CASE AllocSet /\ ~ IsPreset(Now)
    BY <2>2, <2>4 DEF AllocSet
  <2>5. CASE AllocCmd
    BY <2>2, <2>5 DEF AllocCmd
  <2>6. CASE CreateFence
    BY <2>2, <2>6 DEF CreateFence
  <2>7. CASE Record
    BY <2>2, <2>7 DEF Record
  <2> QED BY <1>8, <2>3, <2>4, <2>5, <2>6, <2>7
<1>9. CASE Submit
  <2>1. pc = "submit" /\ op.k \in Call
    BY <1>9 DEF Submit, Control
  <2>2. Unwound("submit") \subseteq live \cup Presets(op.k)
    BY <1>0, <2>1, UnwoundLive
  <2> QED BY <1>1, <1>4, <1>9, <2>1, <2>2 DEF Submit, vulkan
<1>10. CASE Park
  <2>1. pc = "park" /\ op.k \in Call
    BY <1>10 DEF Park, Control
  <2>2. Unwound("park") \subseteq live \cup Presets(op.k)
    BY <1>0, <2>1, UnwoundLive
  <2> QED BY <1>1, <1>2, <1>4, <1>10, <2>1, <2>2 DEF Park, Create
<1>11. CASE Wait
  <2>1. pc = "wait" /\ op.k \in Call
    BY <1>11 DEF Wait, Control
  <2>2. Unwound("wait") \subseteq live \cup Presets(op.k)
    BY <1>0, <2>1, UnwoundLive
  <2>3. Held(Now) \subseteq live \cup Presets(op.k)
    BY <1>0, <2>1, NowLive DEF Held, HasFence, HasCmd, HasSet
  <2> QED BY <1>1, <1>11, <2>1, <2>2, <2>3 DEF Wait
<1>12. CASE BackSingle
  <2>1. pc = "back" /\ op.k \in Call
    BY <1>12 DEF BackSingle, Control
  <2> QED BY <1>1, <1>3, <1>4, <1>12, <2>1 DEF BackSingle, OwnsBuffers, vulkan
<1>13. CASE ChainFlush
  <2>1. op.k \in Call
    BY <1>13 DEF ChainFlush, Control
  <2> QED BY <1>1, <1>2, <1>13, <2>1 DEF ChainFlush, DrainPending
<1>14. CASE Cleanup
  <2>1. pc = "cleanup" /\ op.k \in Call
    BY <1>14 DEF Cleanup, Control
  <2>2. {Buffers(op.k)} \cup {s \in Presets(op.k) : op.kind = "preset"} \subseteq live \cup Presets(op.k)
    BY <1>3, <2>1 DEF OwnsBuffers
  <2> QED BY <1>1, <1>14, <2>1, <2>2 DEF Cleanup
<1>15. CASE Flush \/ ContextDestroy
  <2>1. op.k \in Call
    BY <1>15 DEF Flush, ContextDestroy, Control
  <2> QED BY <1>1, <1>2, <1>15, <2>1 DEF Flush, ContextDestroy
<1> QED BY <1>5, <1>6, <1>7, <1>8, <1>9, <1>10, <1>11, <1>12, <1>13, <1>14, <1>15 DEF Next, HostStep, Rest

-----------------------------------------------------------------------------
(* The buffers of the ring *)

\* An answer changes the outcome of the present call only.
LEMMA PendingBuffersKept ==
  ASSUME Bounded, Control, JobsKnown, RingKnown, PendingHasBuffers, [Next]_vars
  PROVE  PendingHasBuffers'
<1>0. TypeOK /\ pending \subseteq Job
  BY DEF Bounded, TypeOK
<1>a. \A j \in pending : j[1] \in Call /\ JobKnown(j)
  BY <1>0, JobParts DEF JobsKnown, Jobs
<1>b. \A k : OwnsBuffers(k) => k = op.k
  BY DEF OwnsBuffers
<1>1. ASSUME pending' = {}
      PROVE  PendingHasBuffers'
  BY <1>1 DEF PendingHasBuffers
<1>2. ASSUME UNCHANGED <<pending, queue, outcome>>, \A j \in pending : OwnsBuffers(j[1]) => OwnsBuffers(j[1])'
      PROVE  PendingHasBuffers'
  BY <1>2 DEF PendingHasBuffers
<1>3. ASSUME NEW kind \in Kinds, Begin(kind)
      PROVE  PendingHasBuffers'
  <2>1. \A k : ~ OwnsBuffers(k)
    BY <1>3 DEF Begin, OwnsBuffers, Working
  <2> QED BY <1>2, <1>3, <2>1 DEF Begin, ctx, answer
<1>4. CASE CreateBuffers \/ MakePresets
  \* No parked submission is of this call yet.
  <2>1. \A j \in pending : ~ OwnsBuffers(j[1]) /\ j[1] # op.k
    BY <1>a, <1>b, <1>4 DEF CreateBuffers, MakePresets, JobKnown
  <2>2. UNCHANGED <<pending, queue>> /\ op.k \in Call
    BY <1>4 DEF CreateBuffers, MakePresets, ctx, Control
  <2>3. UNCHANGED outcome \/ Answer(FALSE)
    BY <1>4 DEF CreateBuffers, MakePresets, answer
  <2>4. \A j \in pending : outcome'[j[1]] = outcome[j[1]]
    BY <1>0, <1>a, <2>1, <2>2, <2>3, AnswerOutcome
  <2> QED BY <2>1, <2>2, <2>4 DEF PendingHasBuffers
<1>5. CASE Drain \/ Pipeline \/ AllocSet \/ AllocCmd \/ CreateFence \/ Record \/ Submit
  <2>1. pc \in Working /\ pc' \in Working \cup {"back"} /\ SameCall
    BY <1>0, <1>5, WorkMoves DEF Moves, Working
  <2>2. \A k : OwnsBuffers(k) => OwnsBuffers(k)'
    BY <2>1 DEF OwnsBuffers, SameCall
  <2>3. UNCHANGED <<queue, outcome>> /\ (UNCHANGED pending \/ pending' = {})
    BY <1>5 DEF Drain, DrainPending, Pipeline, AllocSet, AllocCmd, CreateFence, Record, Submit, Step, ctx, answer
  <2> QED BY <1>1, <1>2, <2>2, <2>3
<1>6. CASE Park \/ Wait
  <2>1. pc \in Working /\ pc' = "back" /\ SameCall /\ op.k \in Call
    BY <1>0, <1>6, ParkWaitMoves DEF Control, Working
  <2>2. \A k : OwnsBuffers(k) => OwnsBuffers(k)'
    BY <2>1 DEF OwnsBuffers, SameCall
  <2>3. UNCHANGED <<queue, outcome>> /\ pending' \subseteq pending \cup {Now}
    BY <1>6 DEF Park, Wait, ctx, answer
  <2>4. PICK n : n = Now
    OBVIOUS
  <2>5. n[1] = op.k
    BY <1>0, <2>1, <2>4, NowParts
  <2>6. OwnsBuffers(n[1])'
    BY <2>1, <2>5 DEF OwnsBuffers, SameCall
  <2> QED BY <2>2, <2>3, <2>4, <2>6 DEF PendingHasBuffers
<1>7. CASE BackSingle
  <2>1. pc = "back" /\ Answer(op.ok) /\ op.ok \in BOOLEAN /\ op.k \in Call /\ UNCHANGED pending
    BY <1>0, <1>7, OpFields DEF BackSingle, Control
  <2>2. CASE op.ok /\ op.defer
    <3>1. queue' = queue \cup {op.k}
      BY <1>7, <2>2 DEF BackSingle
    <3>2. \A j \in pending : j[1] # op.k => outcome'[j[1]] = outcome[j[1]]
      BY <1>0, <1>a, <2>1, AnswerOutcome
    <3> QED BY <1>b, <2>1, <3>1, <3>2 DEF PendingHasBuffers
  <2>3. CASE op.ok /\ ~ op.defer
    BY <1>1, <2>1, <2>3 DEF RingKnown
  <2>4. CASE ~ op.ok
    <3>1. UNCHANGED queue
      BY <1>7, <2>4 DEF BackSingle
    <3>2. \A j \in pending : outcome'[j[1]] = IF j[1] = op.k THEN "error" ELSE outcome[j[1]]
      BY <1>0, <1>a, <2>1, <2>4, AnswerOutcome
    <3> QED BY <1>b, <2>1, <3>1, <3>2 DEF PendingHasBuffers
  <2> QED BY <2>2, <2>3, <2>4
<1>8. CASE BackChain
  <2>1. \A k : OwnsBuffers(k) => OwnsBuffers(k)'
    BY <1>0, <1>8, BackMoves DEF OwnsBuffers, Working
  <2> QED BY <1>2, <1>8, <2>1 DEF BackChain, ctx, answer
<1>9. CASE ChainFlush \/ Flush \/ ContextDestroy
  BY <1>1, <1>9 DEF ChainFlush, DrainPending, Flush, ContextDestroy
<1>10. CASE Cleanup
  <2>1. /\ pc = "cleanup" /\ Answer(op.ok) /\ op.ok \in BOOLEAN /\ op.k \in Call
        /\ UNCHANGED <<pending, queue>>
    BY <1>0, <1>10, OpFields DEF Cleanup, Control, ctx
  <2>2. CASE op.ok
    BY <1>1, <2>1, <2>2 DEF RingKnown
  <2>3. CASE ~ op.ok
    <3>1. \A j \in pending : outcome'[j[1]] = IF j[1] = op.k THEN "error" ELSE outcome[j[1]]
      BY <1>0, <1>a, <2>1, <2>3, AnswerOutcome
    <3> QED BY <1>b, <2>1, <3>1 DEF PendingHasBuffers
  <2> QED BY <2>2, <2>3
<1>11. CASE Finish \/ Lose \/ UNCHANGED vars
  BY <1>2, <1>11 DEF Finish, Lose, vars, host, ctx, answer, OwnsBuffers
<1> QED BY <1>3, <1>4, <1>5, <1>6, <1>7, <1>8, <1>9, <1>10, <1>11 DEF Next, HostStep, Rest

-----------------------------------------------------------------------------
(* What is owed, and what has been read *)

\* What a drain takes out of the ring the device has finished, or the wait has failed.
LEMMA SentStays ==
  ASSUME [Next]_vars, ~ Flush, ~ ContextDestroy, NEW j \in pending \cup ran, j[1] \notin unwaited'
  PROVE  j \in pending' \cup ran'
<1>1. CASE \E kind \in Kinds : Begin(kind)
  BY <1>1 DEF Begin, ctx, device, work
<1>2. CASE CreateBuffers \/ MakePresets \/ Pipeline \/ AllocSet \/ AllocCmd \/ CreateFence \/ Record
           \/ Submit \/ BackSingle \/ BackChain \/ Cleanup
  <2>1. UNCHANGED <<pending, ran>>
    <3>1. CASE CreateBuffers \/ MakePresets \/ Pipeline
      BY <3>1 DEF CreateBuffers, MakePresets, Pipeline, ctx, device, work
    <3>2. CASE AllocSet \/ AllocCmd \/ CreateFence \/ Record
      BY <3>2 DEF AllocSet, AllocCmd, CreateFence, Record, Step, ctx, device, work
    <3>3. CASE Submit
      BY <3>3 DEF Submit, ctx
    <3>4. CASE BackSingle \/ BackChain \/ Cleanup
      BY <3>4 DEF BackSingle, BackChain, Cleanup, ctx, device, work
    <3> QED BY <1>2, <3>1, <3>2, <3>3, <3>4
  <2> QED BY <2>1
<1>3. ASSUME NEW ks, CallsOf(pending) \subseteq ks, NEW good \in BOOLEAN, Waited(pending, ks, good),
             UNCHANGED work
      PROVE  j \in ran'
  <2>1. CASE good
    BY <1>3, <2>1 DEF Waited, Signalled, work
  <2>2. CASE ~ good
    <3>1. CallsOf(pending) \subseteq unwaited'
      BY <1>3, <2>2 DEF Waited
    <3>2. j \notin pending
      BY <3>1 DEF CallsOf
    <3> QED BY <1>3, <3>2 DEF work
  <2> QED BY <2>1, <2>2
<1>4. CASE Drain \/ ChainFlush
  <2>1. UNCHANGED <<pending, ran>> \/ (UNCHANGED work /\ \E good \in BOOLEAN : DrainPending(good))
    BY <1>4 DEF Drain, ChainFlush, work
  <2> QED BY <1>3, <2>1 DEF DrainPending
<1>5. CASE Park
  <2>1. CASE Room /\ pending' = pending \cup {Now}
    BY <1>5, <2>1 DEF Park, work
  <2>2. CASE Waited(pending, CallsOf(pending), TRUE)
    BY <1>3, <1>5, <2>2 DEF Park
  <2>3. CASE Waited(pending, CallsOf(pending) \cup {op.k}, FALSE)
    BY <1>3, <1>5, <2>3 DEF Park
  <2> QED BY <1>5, <2>1, <2>2, <2>3 DEF Park
<1>6. CASE Wait
  BY <1>6 DEF Wait, ctx, work
<1>8. CASE Finish \/ Lose \/ UNCHANGED vars
  BY <1>8 DEF Finish, Lose, vars, ctx, device, work
<1> QED BY <1>1, <1>2, <1>4, <1>5, <1>6, <1>8 DEF Next, HostStep, Rest

LEMMA SentKept ==
  ASSUME [Next]_vars, ~ Flush, ~ ContextDestroy, NEW k, k \notin unwaited', NEW i, Sent(k, i)
  PROVE  Sent(k, i)'
BY SentStays DEF Sent

\* A dispatch that returned TVDB_OK is in the ring, or was waited for.
LEMMA ReturnedKept ==
  ASSUME Bounded, Control, Owed, [Next]_vars, pc' = "back", op'.ok
  PROVE  Now' \in IF op'.defer THEN pending' ELSE ran'
<1>0. TypeOK
  BY DEF Bounded
<1>1. ~ (\E kind \in Kinds : Begin(kind)) /\ ~ CreateBuffers /\ ~ MakePresets
  BY <1>0, BeginMoves, CreateBuffersMoves, MakePresetsMoves
<1>2. ~ (Drain \/ Pipeline \/ AllocSet \/ AllocCmd \/ CreateFence \/ Record \/ Submit)
  BY <1>0, WorkMoves DEF Moves
<1>3. ~ (BackSingle \/ BackChain \/ ChainFlush \/ Cleanup \/ Flush \/ ContextDestroy)
  BY <1>0, BackMoves, EndMoves
<1>4. ~ Return(FALSE)
  BY <1>0, ReturnMoves
<1>5. CASE Park
  <2>1. Now' = Now /\ op'.defer
    BY <1>0, <1>5, ParkWaitMoves DEF Control, SameCall
  <2>2. Now \in pending'
    BY <1>4, <1>5 DEF Park
  <2> QED BY <2>1, <2>2
<1>6. CASE Wait
  <2>1. Now' = Now /\ ~ op'.defer
    BY <1>0, <1>6, ParkWaitMoves DEF Control, SameCall
  <2>2. Now \in ran'
    BY <1>4, <1>6 DEF Wait, Waited, Signalled, work
  <2> QED BY <2>1, <2>2
<1>7. CASE Finish \/ Lose \/ UNCHANGED vars
  <2>1. Now' = Now /\ UNCHANGED <<pc, op, pending>> /\ ran \subseteq ran'
    BY <1>7 DEF Finish, Lose, vars, host, ctx, device, work, Now
  <2>2. Now \in IF op.defer THEN pending ELSE ran
    BY <2>1 DEF Owed
  <2> QED BY <2>1, <2>2
<1> QED BY <1>1, <1>2, <1>3, <1>5, <1>6, <1>7 DEF Next, HostStep, Rest

LEMMA OwedKept ==
  ASSUME Bounded, Control, Owed, [Next]_vars
  PROVE  Owed'
<1>0. TypeOK
  BY DEF Bounded
<1>a. pc = "back" /\ op.ok => Sent(op.k, op.i)
  <2>1. pc = "back" => Now[1] = op.k /\ Now[2] = op.i
    BY <1>0, NowParts DEF Control
  <2> QED BY <2>1 DEF Owed, Sent
<1>u. unwaited \subseteq unwaited'
  BY UnwaitedGrows
<1>1. ASSUME NEW k \in queue', k \notin unwaited'
      PROVE  Sent(k, 1)'
  <2>0. ~ Flush /\ ~ ContextDestroy
    BY <1>1 DEF Flush, ContextDestroy
  <2>1. CASE k \in queue
    BY <1>1, <1>u, <2>0, <2>1, SentKept DEF Owed
  <2>2. CASE k \notin queue
    <3>1. BackSingle /\ op.ok /\ k = op.k
      BY <1>0, <1>1, <2>2, QueueSteps
    <3>2. pc = "back" /\ op.i = 1
      BY <1>0, <3>1, BackMoves DEF Control, Single, Chain
    <3> QED BY <1>1, <1>a, <2>0, <3>1, <3>2, SentKept
  <2> QED BY <2>1, <2>2
<1>2. (pc' = "back" /\ op'.ok) => Now' \in (IF op'.defer THEN pending' ELSE ran')
  BY ReturnedKept
<1>3. ASSUME op'.k \notin unwaited', op'.kind \in Chain, pc' \in Working \cup {"back"}, NEW i \in 1..(op'.i - 1)
      PROVE  Sent(op.k, i)'
  <2>0. op.i \in Nat /\ (op'.k = op.k => op.k \notin unwaited)
    BY <1>0, <1>3, <1>u, OpFields
  <2>1. ~ (\E kind \in Kinds : Begin(kind)) /\ ~ BackSingle /\ ~ ChainFlush /\ ~ Cleanup
        /\ ~ Flush /\ ~ ContextDestroy
    BY <1>0, <1>3, BeginMoves, BackMoves, EndMoves DEF Working
  <2>2. ~ CreateBuffers /\ ~ MakePresets
    \* The first dispatch has none before it.
    <3>1. ASSUME CreateBuffers \/ MakePresets
          PROVE  op.i = 1 /\ op'.i = op.i
      BY <1>0, <3>1, CreateBuffersMoves, MakePresetsMoves DEF Control, SameCall
    <3> QED BY <1>3, <3>1
  <2>3. PICK k : k = op.k
    OBVIOUS
  <2>4. ASSUME op'.k = op.k, Sent(op.k, i)
        PROVE  Sent(op.k, i)'
    <3>1. Sent(k, i)'
      BY <1>3, <2>1, <2>3, <2>4, SentKept
    <3> QED BY <2>3, <2>4, <3>1 DEF Sent
  <2>5. CASE Drain \/ Pipeline \/ AllocSet \/ AllocCmd \/ CreateFence \/ Record \/ Submit \/ Park \/ Wait
    <3>1. op'.k = op.k /\ op'.i = op.i /\ op'.kind = op.kind /\ pc \in Working
      BY <1>0, <2>5, WorkMoves, ParkWaitMoves DEF Moves, SameCall, Working
    <3>2. Sent(op.k, i)
      BY <1>3, <2>0, <3>1 DEF Owed
    <3> QED BY <2>4, <3>1, <3>2
  <2>6. CASE BackChain
    <3>1. /\ pc = "back" /\ op.ok /\ op'.k = op.k /\ op'.i = op.i + 1 /\ op.kind \in Chain
      BY <1>0, <1>3, <2>6, BackMoves DEF Working
    <3>2. i = op.i \/ i \in 1..(op.i - 1)
      BY <1>3, <2>0, <3>1
    <3>3. Sent(op.k, i)
      BY <1>a, <2>0, <3>1, <3>2 DEF Owed
    <3> QED BY <2>4, <3>1, <3>3
  <2>7. CASE Finish \/ Lose \/ UNCHANGED vars
    <3>1. UNCHANGED <<pc, op>>
      BY <2>7 DEF Finish, Lose, vars, host
    <3>2. Sent(op.k, i)
      BY <1>3, <2>0, <3>1 DEF Owed
    <3> QED BY <2>4, <3>1, <3>2
  <2> QED BY <2>1, <2>2, <2>5, <2>6, <2>7 DEF Next, HostStep, Rest
<1>4. ASSUME op'.k \notin unwaited', op'.kind \in Chain, pc' = "flush", NEW i \in 1..Links
      PROVE  Sent(op.k, i)'
  <2>0. op.i \in Nat /\ (op'.k = op.k => op.k \notin unwaited) /\ Links \in Nat
    BY <1>0, <1>4, <1>u, OpFields, DispatchAssumption
  <2>1. ~ (\E kind \in Kinds : Begin(kind))
    BY <1>0, <1>4, BeginMoves DEF Chain
  <2>2. ~ (CreateBuffers \/ MakePresets \/ Drain \/ Pipeline \/ AllocSet \/ AllocCmd \/ CreateFence
           \/ Record \/ Submit \/ Park \/ Wait)
    BY <1>0, <1>4, CreateBuffersMoves, MakePresetsMoves, WorkMoves, ParkWaitMoves DEF Moves, Working
  <2>3. ~ (BackSingle \/ ChainFlush \/ Cleanup \/ Flush \/ ContextDestroy)
    BY <1>0, <1>4, BackMoves, EndMoves
  <2>4. PICK k : k = op.k
    OBVIOUS
  <2>5. ASSUME op'.k = op.k, Sent(op.k, i)
        PROVE  Sent(op.k, i)'
    <3>1. Sent(k, i)'
      BY <1>4, <2>3, <2>4, <2>5, SentKept
    <3> QED BY <2>4, <2>5, <3>1 DEF Sent
  <2>6. CASE BackChain
    <3>1. pc = "back" /\ op.ok /\ op'.k = op.k /\ op.i = Links /\ op.kind \in Chain
      BY <1>0, <1>4, <2>6, BackMoves
    <3>2. i = op.i \/ i \in 1..(op.i - 1)
      BY <1>4, <2>0, <3>1
    <3>3. Sent(op.k, i)
      BY <1>a, <2>0, <3>1, <3>2 DEF Owed
    <3> QED BY <2>5, <3>1, <3>3
  <2>7. CASE Finish \/ Lose \/ UNCHANGED vars
    <3>1. UNCHANGED <<pc, op>>
      BY <2>7 DEF Finish, Lose, vars, host
    <3>2. Sent(op.k, i)
      BY <1>4, <2>0, <3>1 DEF Owed
    <3> QED BY <2>5, <3>1, <3>2
  <2> QED BY <2>1, <2>2, <2>3, <2>6, <2>7 DEF Next, HostStep, Rest
<1>5. \A k \in queue' \ unwaited' : Sent(k, 1)'
  BY <1>1
<1>6. (op.k \notin unwaited /\ op.kind \in Chain /\ pc \in Working \cup {"back"})' => \A i \in 1..(op'.i - 1) : Sent(op.k, i)'
  BY <1>3
<1>7. (op.k \notin unwaited /\ op.kind \in Chain /\ pc = "flush")' => \A i \in 1..Links : Sent(op.k, i)'
  BY <1>4
<1> QED BY <1>2, <1>5, <1>6, <1>7 DEF Owed

\* When the ring has been waited for, what was sent has been done.
LEMMA SentIsDone ==
  ASSUME NEW k, NEW n, Signalled(pending), \A i \in 1..n : Sent(k, i)
  PROVE  Result(k, n) = "result"
BY DEF Signalled, Sent, Result

\* So the outputs of the deferred queue are results.
LEMMA DeliveredResults ==
  ASSUME TypeOK, Owed, Signalled(pending), NEW k \in Call \ unwaited
  PROVE  Delivered(TRUE)[k] = IF k \in queue THEN "result" ELSE output[k]
<1>1. k \in queue => Sent(k, 1)
  BY DEF Owed
<1>2. k \in queue => Result(k, 1) = "result"
  <2>1. 1..1 = {1}
    OBVIOUS
  <2> QED BY <1>1, <2>1, SentIsDone
<1> QED BY <1>2 DEF Delivered

\* Most steps answer nothing and read nothing.
LEMMA ReadStill ==
  ASSUME Read, UNCHANGED <<queue, answer>>, unwaited \subseteq unwaited',
         (pc' = "cleanup" /\ op'.ok) => (pc = "cleanup" /\ op.ok /\ op'.k = op.k)
  PROVE  Read'
BY DEF Read, ResultsArrive, OthersGetNoGarbage, answer

LEMMA ReadKept ==
  ASSUME Bounded, Control, Owed, Read, [Next]_vars
  PROVE  Read'
<1>0. TypeOK /\ output \in [Call -> {"untouched", "result", "garbage"}]
  BY DEF Bounded, TypeOK
<1>u. unwaited \subseteq unwaited'
  BY UnwaitedGrows
<1>a. ASSUME NEW ok \in BOOLEAN, Answer(ok), op.k \in Call, UNCHANGED <<queue, output>>,
             ok /\ op.k \notin unwaited => output[op.k] = "result"
      PROVE  Read'
  <2>1. pc' = "idle"
    BY <1>a DEF Answer
  <2>2. \A k \in Call : outcome'[k] = IF k = op.k THEN (IF ok THEN "ok" ELSE "error") ELSE outcome[k]
    BY <1>0, <1>a, AnswerOutcome
  <2> QED BY <1>a, <1>u, <2>1, <2>2 DEF Read, ResultsArrive, OthersGetNoGarbage
<1>1. ASSUME NEW kind \in Kinds, Begin(kind)
      PROVE  Read'
  <2>1. pc' # "cleanup"
    BY <1>1 DEF Begin
  <2> QED BY <1>u, <1>1, <2>1, ReadStill DEF Begin, ctx
<1>2. CASE CreateBuffers \/ MakePresets
  <2>1. op.k \in Call /\ UNCHANGED queue /\ pc' # "cleanup"
    BY <1>0, <1>2, CreateBuffersMoves, MakePresetsMoves DEF CreateBuffers, MakePresets, ctx, Control
  <2>2. UNCHANGED output /\ (UNCHANGED outcome \/ Answer(FALSE))
    BY <1>2 DEF CreateBuffers, MakePresets, answer
  <2> QED BY <1>u, <1>a, <2>1, <2>2, ReadStill DEF answer
<1>3. CASE Drain \/ Pipeline \/ AllocSet \/ AllocCmd \/ CreateFence \/ Record \/ Submit \/ Park \/ Wait
  <2>1. pc' # "cleanup"
    BY <1>0, <1>3, WorkMoves, ParkWaitMoves DEF Moves
  <2>2. UNCHANGED <<queue, answer>>
    <3>1. CASE Drain \/ Pipeline \/ Submit
      BY <3>1 DEF Drain, Pipeline, Submit, ctx
    <3>2. CASE AllocSet \/ AllocCmd \/ CreateFence \/ Record
      BY <3>2 DEF AllocSet, AllocCmd, CreateFence, Record, Step, ctx
    <3>3. CASE Park \/ Wait
      BY <3>3 DEF Park, Wait, ctx
    <3> QED BY <1>3, <3>1, <3>2, <3>3
  <2> QED BY <1>u, <2>1, <2>2, ReadStill
<1>4. CASE BackSingle
  <2>0. /\ pc = "back" /\ op.kind \in Single /\ pc' = "idle" /\ Answer(op.ok)
        /\ op.k \in Call /\ op.ok \in BOOLEAN /\ op.i = 1
    BY <1>0, <1>4, BackMoves, OpFields DEF Control, Single, Chain
  <2>1. \A k \in Call : outcome'[k] = IF k = op.k THEN (IF op.ok THEN "ok" ELSE "error") ELSE outcome[k]
    BY <1>0, <2>0, AnswerOutcome
  <2>2. CASE op.ok /\ op.defer
    <3>1. queue' = queue \cup {op.k} /\ UNCHANGED output
      BY <1>4, <2>2 DEF BackSingle
    <3> QED BY <1>u, <2>0, <2>1, <3>1 DEF Read, ResultsArrive, OthersGetNoGarbage
  <2>3. CASE op.ok /\ ~ op.defer
    <3>1. output' = [output EXCEPT ![op.k] = Result(op.k, 1)] /\ UNCHANGED queue
      BY <1>4, <2>3 DEF BackSingle
    <3>2. Now \in ran /\ Now[1] = op.k /\ Now[2] = 1
      BY <1>0, <2>0, <2>3, NowParts DEF Owed
    <3>3. Result(op.k, 1) = "result"
      <4>1. 1..1 = {1}
        OBVIOUS
      <4> QED BY <3>2, <4>1 DEF Result
    <3>4. \A k \in Call : output'[k] = IF k = op.k THEN "result" ELSE output[k]
      BY <1>0, <3>1, <3>3
    <3> QED BY <1>u, <2>0, <2>1, <3>1, <3>4 DEF Read, ResultsArrive, OthersGetNoGarbage
  <2>4. CASE ~ op.ok
    <3>1. UNCHANGED <<queue, output>>
      BY <1>4, <2>4 DEF BackSingle
    <3> QED BY <1>a, <2>0, <2>4, <3>1
  <2> QED BY <2>2, <2>3, <2>4
<1>5. CASE BackChain
  BY <1>0, <1>u, <1>5, BackMoves, ReadStill DEF BackChain, ctx
<1>6. CASE ChainFlush
  <2>1. UNCHANGED <<queue, outcome>> /\ op'.k = op.k /\ op.k \in Call
    BY <1>0, <1>6, EndMoves DEF ChainFlush, SameCall, Control
  <2>2. PICK good \in BOOLEAN :
          /\ DrainPending(good) /\ op' = [op EXCEPT !.ok = good]
          /\ output' = IF good THEN [output EXCEPT ![op.k] = Result(op.k, Links)] ELSE output
    BY <1>6 DEF ChainFlush
  <2>3. op'.ok = good
    BY <1>0, <2>2 DEF TypeOK
  <2>4. CASE good
    <3>1. Signalled(pending)
      BY <2>2, <2>4 DEF DrainPending, Waited
    <3>2. op.k \notin unwaited => Result(op.k, Links) = "result"
      <4>1. op.k \notin unwaited => \A i \in 1..Links : Sent(op.k, i)
        BY <1>6 DEF ChainFlush, Owed
      <4> QED BY <3>1, <4>1, SentIsDone
    <3>3. \A k \in Call : output'[k] = IF k = op.k THEN Result(op.k, Links) ELSE output[k]
      BY <1>0, <2>1, <2>2, <2>4
    <3> QED BY <1>u, <2>1, <3>2, <3>3 DEF Read, ResultsArrive, OthersGetNoGarbage
  <2>5. CASE ~ good
    BY <1>u, <2>1, <2>2, <2>3, <2>5 DEF Read, ResultsArrive, OthersGetNoGarbage
  <2> QED BY <2>4, <2>5
<1>7. CASE Cleanup
  <2>1. /\ pc = "cleanup" /\ Answer(op.ok) /\ op.ok \in BOOLEAN /\ op.k \in Call
        /\ UNCHANGED <<queue, output>>
    BY <1>0, <1>7, EndMoves, OpFields DEF Cleanup, Control, ctx
  <2>2. op.ok /\ op.k \notin unwaited => output[op.k] = "result"
    BY <1>u, <2>1 DEF Read
  <2> QED BY <1>a, <2>1, <2>2
<1>8. CASE Flush \/ ContextDestroy
  <2>1. PICK good \in BOOLEAN :
          /\ good => Signalled(pending)
          /\ output' = Delivered(good)
          /\ outcome' = Told(good) \/ (UNCHANGED outcome /\ (~ good => queue \subseteq unwaited'))
    BY <1>8 DEF Flush, ContextDestroy, Waited
  <2>2. queue' = {} /\ pc' # "cleanup"
    BY <1>8 DEF Flush, ContextDestroy
  <2>3. CASE good
    <3>1. \A k \in Call \ unwaited : output'[k] = IF k \in queue THEN "result" ELSE output[k]
      <4>1. good = TRUE
        BY <2>3
      <4> QED BY <1>0, <2>1, <4>1, DeliveredResults
    <3>2. \A k \in Call : outcome'[k] = outcome[k]
      BY <2>1, <2>3 DEF Told
    <3> QED BY <1>u, <2>2, <3>1, <3>2 DEF Read, ResultsArrive, OthersGetNoGarbage
  <2>4. CASE ~ good
    <3>1. \A k \in Call : output'[k] = output[k]
      BY <2>1, <2>4 DEF Delivered
    <3>2. \A k \in Call \ unwaited' : outcome'[k] = "ok" => outcome[k] = "ok" /\ k \notin queue
      BY <2>1, <2>4 DEF Told
    <3> QED BY <1>u, <2>2, <3>1, <3>2 DEF Read, ResultsArrive, OthersGetNoGarbage
  <2> QED BY <2>3, <2>4
<1>9. CASE Finish \/ Lose \/ UNCHANGED vars
  <2>1. UNCHANGED <<pc, op, queue, answer>>
    BY <1>9 DEF Finish, Lose, vars, host, ctx
  <2> QED BY <1>u, <2>1, ReadStill
<1> QED BY <1>1, <1>2, <1>3, <1>4, <1>5, <1>6, <1>7, <1>8, <1>9 DEF Next, HostStep, Rest

-----------------------------------------------------------------------------
(* The invariant *)

LEMMA IInvInit == Init => IInv
<1> SUFFICES ASSUME Init
             PROVE  IInv
  OBVIOUS
<1>1. Bounded
  <2>1. cache \subseteq Shapes /\ pending \subseteq Job /\ queue \subseteq Call /\ live \subseteq Object
        /\ twice \subseteq Object /\ flight \subseteq Job /\ ran \subseteq Job /\ lost \in BOOLEAN
        /\ unwaited \subseteq Call
    BY DEF Init
  <2>2. op.k \in 0..MaxCalls /\ op.i \in 1..Links
    BY DispatchAssumption DEF Init
  <2>3. pc \in Labels /\ op \in [k : 0..MaxCalls, kind : Single \cup Chain \cup {"flush", "destroy"},
                                 i : 1..Links, defer : BOOLEAN, ok : BOOLEAN]
    BY <2>2 DEF Init, Labels
  <2>4. /\ outcome \in [Call -> {"none", "ok", "error"}]
        /\ output \in [Call -> {"untouched", "result", "garbage"}]
    BY DEF Init
  <2>5. cache = {} /\ pending = {} /\ queue = {}
    BY DEF Init
  <2>6. IsFiniteSet(cache) /\ IsFiniteSet(pending) /\ IsFiniteSet(queue)
    BY <2>5, EmptyFits
  <2>7. /\ Cardinality(cache) \leq CacheMax /\ Cardinality(pending) \leq PendingMax
        /\ Cardinality(queue) \leq DeferMax
    BY <2>5, EmptyFits
  <2> QED BY <2>1, <2>3, <2>4, <2>6, <2>7 DEF Bounded, TypeOK
<1>2. Control /\ Unanswered /\ JobsKnown /\ QueueKnown /\ DeviceKnown /\ RingKnown
  BY DEF Init, Control, Unanswered, JobsKnown, Jobs, QueueKnown, DeviceKnown, RingKnown, Working, Chain
<1>3. BuffersExact /\ HandlesExact /\ PresetsKnown
  BY DEF Init, BuffersExact, OwnsBuffers, HandlesExact, HandleExact, Places, HasSet, HasCmd, HasFence,
     PresetsKnown, Working
<1>4. PendingHasBuffers /\ ReleasedOnce
  BY DEF Init, PendingHasBuffers, ReleasedOnce
<1>5. Owed /\ Read
  BY DEF Init, Owed, Read, ResultsArrive, OthersGetNoGarbage, Chain, Working
<1> QED BY <1>1, <1>2, <1>3, <1>4, <1>5 DEF IInv, OwnersExact

LEMMA IInvKept == IInv /\ [Next]_vars => IInv'
<1> SUFFICES ASSUME IInv, [Next]_vars
             PROVE  IInv'
  OBVIOUS
<1>1. /\ Bounded /\ Control /\ Unanswered /\ JobsKnown /\ QueueKnown /\ DeviceKnown /\ RingKnown /\ OwnersExact
      /\ PendingHasBuffers /\ ReleasedOnce /\ Owed /\ Read /\ TypeOK
      /\ BuffersExact /\ HandlesExact /\ PresetsKnown
  BY DEF IInv, Bounded, OwnersExact
<1> HIDE DEF IInv
<1>2. Bounded' /\ Control' /\ Unanswered' /\ JobsKnown' /\ QueueKnown'
  BY <1>1, BoundedKept, ControlKept, UnansweredKept, JobsKept, QueueKept
<1>3. DeviceKnown' /\ RingKnown'
  BY <1>1, DeviceKept, RingKept
<1>4. BuffersExact' /\ HandlesExact' /\ PresetsKnown'
  BY <1>1, BuffersKept, HandlesKept, PresetsKept
<1>5. PendingHasBuffers' /\ ReleasedOnce'
  BY <1>1, PendingBuffersKept, ReleasedOnceKept
<1>6. Owed' /\ Read'
  BY <1>1, OwedKept, ReadKept
<1> QED BY <1>2, <1>3, <1>4, <1>5, <1>6 DEF IInv, OwnersExact

\* The inductive invariant, for every set of kinds of call, of shapes and of failing steps.
LEMMA InvariantHolds == Spec => []IInv
BY IInvInit, IInvKept, PTL DEF Spec

\* Every variable keeps its type, and the pipeline cache, the ring of parked submissions and
\* the deferred queue, which are fixed arrays of the context, are never written past their
\* end: every guard on a count is where it must be.
THEOREM TypesHold == Spec => []TypeOK
<1>1. IInv => TypeOK
  BY DEF IInv, Bounded
<1> QED BY <1>1, InvariantHolds, PTL

\* Whatever fails and whenever the device is lost, no Vulkan object but a preset set is
\* destroyed twice, by the ladder of tvdb_vk_dispatch, its callers, the ring or the context.
THEOREM EachReleasedOnce == Spec => []ReleasedOnce
<1>1. IInv => ReleasedOnce
  BY DEF IInv
<1> QED BY <1>1, InvariantHolds, PTL

\* A call the deferred queue still owes its outputs has its submission in the ring, or done:
\* the next wait covers it, unless one for it has failed.
THEOREM OwedAreWaitedFor == Spec => []OwedIsWaitedFor
<1>1. IInv => OwedIsWaitedFor
  BY DEF IInv, Owed, OwedIsWaitedFor, Sent
<1> QED BY <1>1, InvariantHolds, PTL

\* Every call that returned TVDB_OK and is not in the deferred queue has its result in its
\* output array, unless a failed wait was for it.
THEOREM EveryResultArrives == Spec => []ResultsArrive
<1>1. IInv => ResultsArrive
  BY DEF IInv, Read, ResultsArrive
<1> QED BY <1>1, InvariantHolds, PTL

-----------------------------------------------------------------------------
(* Nothing leaks *)

\* An object is buffers of a call, a fence, a command buffer, a set, or a preset set.
LEMMA ObjectCases ==
  ASSUME NEW o \in Object
  PROVE  \/ \E k \in Call, n \in -1..Links : o = <<"buffers", k, n>>
         \/ \E tag \in Handle, k \in Call, n \in -1..Links :
               o = <<tag, k, n>> /\ (tag = "set" => n > 0)
         \/ \E k \in Call, n \in -1..0 : o = <<"set", k, n>>
<1>1. PICK tag \in {"buffers", "fence", "cmd", "set"}, k \in Call, n \in -1..Links : o = <<tag, k, n>>
  BY DEF Object
<1>2. n \in Int /\ (n > 0 \/ n \in -1..0)
  BY <1>1, DispatchAssumption
<1>3. CASE tag = "buffers"
  BY <1>1, <1>3
<1>4. CASE tag \in {"fence", "cmd"}
  BY <1>1, <1>4 DEF Handle
<1>5. CASE tag = "set"
  BY <1>1, <1>2, <1>5 DEF Handle
<1> QED BY <1>1, <1>3, <1>4, <1>5

\* Out of a call, what is alive is held by the ring or the deferred queue.
LEMMA AliveIsHeld ==
  ASSUME IInv, pc \in {"idle", "gone"}, NEW o \in live
  PROVE  o \in HeldBy(pending) \cup BuffersOf(queue)
<1>0. Bounded /\ JobsKnown /\ BuffersExact /\ HandlesExact /\ PresetsKnown /\ TypeOK /\ o \in Object
  BY DEF IInv, OwnersExact, Bounded, TypeOK
<1>1. ASSUME NEW k \in Call, NEW n \in -1..Links, o = <<"buffers", k, n>>
      PROVE  o \in BuffersOf(queue)
  <2>1. ~ OwnsBuffers(k)
    BY DEF OwnsBuffers, Working
  <2>2. n = 0 /\ k \in queue
    BY <1>0, <1>1, <2>1 DEF BuffersExact
  <2> QED BY <1>1, <2>2 DEF BuffersOf, Buffers
<1>2. ASSUME NEW tag \in Handle, NEW k \in Call, NEW n \in -1..Links, o = <<tag, k, n>>, tag = "set" => n > 0
      PROVE  o \in HeldBy(pending)
  <2>1. HandleExact(tag, k, n)
    BY <1>0, <1>2 DEF HandlesExact
  <2>2. pc \notin Places(tag)
    BY DEF Places, HasSet, HasCmd, HasFence
  <2>3. PICK j \in pending : Names(j, tag, k, n)
    BY <1>2, <2>1, <2>2 DEF HandleExact
  <2>4. j \in Job /\ (j[3] = j[2] \/ IsPreset(j))
    BY <1>0, <2>3 DEF TypeOK, JobsKnown, JobKnown, Jobs
  <2>5. o \in Held(j)
    BY <1>2, <2>3, <2>4 DEF Names, Held, Fence, Cmd, SetOf, Handle
  <2> QED BY <2>3, <2>5 DEF HeldBy
<1>3. ASSUME NEW k \in Call, NEW n \in -1..0, o = <<"set", k, n>>
      PROVE  FALSE
  BY <1>0, <1>3 DEF PresetsKnown, Working
<1> QED BY <1>0, <1>1, <1>2, <1>3, ObjectCases

\* Whatever fails, between two calls exactly the objects that the ring and the deferred queue
\* will release are alive, and when the context is destroyed there are none: no failure or
\* success path of a dispatch, a chain, a preset caller or a flush leaks an object.
THEOREM NothingEverLeaks == Spec => []NothingLeaked
<1>1. ASSUME IInv
      PROVE  NothingLeaked
  <2>1. HeldBy(pending) \cup BuffersOf(queue) \subseteq live
    BY <1>1, RingLive, QueueLive DEF IInv, OwnersExact, Bounded
  <2>2. pc = "idle" => live = HeldBy(pending) \cup BuffersOf(queue)
    BY <1>1, <2>1, AliveIsHeld
  <2>3. pc = "gone" => HeldBy(pending) \cup BuffersOf(queue) = {}
    BY <1>1 DEF IInv, RingKnown, HeldBy, BuffersOf
  <2>4. pc = "gone" => live = {}
    BY <1>1, <2>3, AliveIsHeld
  <2> QED BY <2>2, <2>4 DEF NothingLeaked
<1> QED BY <1>1, InvariantHolds, PTL

-----------------------------------------------------------------------------
(* What the device uses *)

\* An answer is given by a call that fails before it submits, by tvdb_gpu_dispatch, or by the
\* end of a chain.
\* A preset submission in flight is of the call in progress, or of one that failed,
\* or a failed wait was for it.
LEMMA PresetInFlight ==
  ASSUME IInv, NEW j \in flight, IsPreset(j), ~ Left(j)
  PROVE  /\ j \in Job /\ ~ lost
         /\ (BackSingle \/ Cleanup) /\ op.ok => j[1] # op.k
<1>1. j \in Job /\ ~ lost /\ JobKnown(j)
  BY DEF IInv, Bounded, TypeOK, DeviceKnown, JobsKnown, Jobs
<1>2. j[2] \in Nat \ {0} /\ j[3] \in Int
  BY <1>1, JobParts, DispatchAssumption
<1>3. ASSUME BackSingle
      PROVE  j[1] # op.k
  <2>1. op.kind # "preset"
    BY <1>3 DEF BackSingle, Single
  <2> QED BY <1>1, <1>2, <2>1 DEF JobKnown, IsPreset
<1>4. ASSUME Cleanup, op.ok
      PROVE  FALSE
  <2>1. pc = "cleanup" /\ pending = {}
    BY <1>4 DEF Cleanup, IInv, RingKnown
  <2> QED BY <2>1 DEF IInv, DeviceKnown
<1> QED BY <1>1, <1>3, <1>4

\* A set that is not of the present call, or not one of its presets, survives a step that
\* destroys only objects of the ring, of the queue, or of this dispatch.
LEMMA SetNotUnwound ==
  ASSUME IInv, NEW j \in flight, IsPreset(j), op.k \in Call,
         SetOf(j) # SetOf(Now), NEW l
  PROVE  SetOf(j) \notin Unwound(l)
BY DEF Unwound, SetOf, Fence, Cmd

\* The set of an earlier dispatch of a call is not the one a failing dispatch frees.
LEMMA OtherSet ==
  ASSUME IInv, PresetsOutlive, NEW j \in flight, IsPreset(j),
         NEW l \in {"cmd", "fence", "record", "submit"}, pc = l, MayFail(l)
  PROVE  SetOf(j) # SetOf(Now)
<1>1. j \in Job /\ JobKnown(j) /\ TypeOK /\ op.k \in Call
  BY DEF IInv, Bounded, TypeOK, JobsKnown, Jobs, Control
<1>2. /\ j[1] \in Call /\ j[2] \in Nat \ {0} /\ j[3] \in Int /\ Now[1] = op.k /\ Now[2] = op.i
      /\ op.i \in 1..Links
  BY <1>1, JobParts, NowParts, OpFields, DispatchAssumption
<1>3. CASE j[1] # op.k
  BY <1>2, <1>3 DEF SetOf
<1>4. CASE j[1] = op.k /\ op.kind # "preset"
  BY <1>1, <1>2, <1>4 DEF JobKnown, IsPreset
<1>5. CASE j[1] = op.k /\ op.kind = "preset"
  <2>1. op.i \notin 3..Links
    BY <1>5 DEF PresetsOutlive, MayFail
  <2>2. j[2] < op.i
    BY <1>1, <1>2, <1>5 DEF JobKnown, Made
  <2>3. op.i = 2 /\ j[2] = 1
    BY <1>2, <2>1, <2>2
  <2>4. j[3] = 0 /\ Now[3] = -1
    BY <1>1, <1>5, <2>3, NowParts DEF JobKnown
  <2> QED BY <2>4 DEF SetOf
<1> QED BY <1>3, <1>4, <1>5

\* The set of a submission in flight lives until the end of its call.
LEMMA PresetStays ==
  ASSUME IInv, PresetsOutlive, [Next]_vars, NEW j \in flight, IsPreset(j), ~ Left(j),
         SetOf(j) \in live
  PROVE  SetOf(j) \in live' \/ Left(j)' \/ (Cleanup /\ j[1] = op.k) \/ ContextDestroy
<1>0. /\ TypeOK /\ Control /\ j \in Job /\ ~ lost /\ pending \subseteq Job
      /\ j[1] \in Call /\ j[3] \in -1..0 /\ SetOf(j) = <<"set", j[1], j[3]>>
  <2>1. j \in Job /\ TypeOK
    BY PresetInFlight DEF IInv, Bounded
  <2>2. j[3] \in -1..0
    BY <2>1, JobParts, DispatchAssumption DEF IsPreset
  <2> QED BY <2>1, <2>2, JobParts, PresetInFlight DEF IInv, SetOf, TypeOK
<1>1. \A i \in Job : SetOf(j) \notin Held(i)
  BY <1>0, NoPresetsHeld
<1>2. SetOf(j) \notin HeldBy(pending)
  BY <1>0, <1>1 DEF HeldBy
<1>3. SetOf(j) # Buffers(op.k) /\ SetOf(j) \notin BuffersOf(queue)
  BY <1>0 DEF Buffers, BuffersOf
<1>4. ASSUME UNCHANGED live
      PROVE  SetOf(j) \in live'
  BY <1>4
<1>5. ASSUME NEW S, Create(S)
      PROVE  SetOf(j) \in live'
  BY <1>5 DEF Create
<1>6. ASSUME NEW S, Destroy(S), SetOf(j) \notin S
      PROVE  SetOf(j) \in live'
  BY <1>6 DEF Destroy
<1>7. CASE (\E kind \in Kinds : Begin(kind)) \/ Pipeline \/ BackChain \/ Finish \/ Lose \/ UNCHANGED vars
  BY <1>4, <1>7 DEF Begin, Pipeline, BackChain, Finish, Lose, vars, vulkan
<1>8. CASE CreateBuffers \/ MakePresets
  BY <1>3, <1>4, <1>5, <1>6, <1>8 DEF CreateBuffers, MakePresets, vulkan
<1>9. CASE Drain \/ ChainFlush
  BY <1>2, <1>4, <1>6, <1>9 DEF Drain, ChainFlush, DrainPending, vulkan
<1>10. ASSUME NEW l \in {"cmd", "fence", "record"}, NEW S, NEW m, Step(l, S, m)
       PROVE  SetOf(j) \in live'
  <2>1. CASE Create(S)
    BY <1>5, <2>1
  <2>2. CASE MayFail(l) /\ Destroy(Unwound(l))
    <3>1. pc = l /\ op.k \in Call
      BY <1>0, <1>10 DEF Step, Control, Working
    <3>2. SetOf(j) # SetOf(Now)
      BY <2>2, <3>1, OtherSet
    <3>3. SetOf(j) \notin Unwound(l)
      BY <3>1, <3>2, SetNotUnwound
    <3> QED BY <1>6, <2>2, <3>3
  <2> QED BY <1>10, <2>1, <2>2 DEF Step
<1>11. CASE AllocSet
  <2>1. CASE Create({SetOf(Now)})
    BY <1>5, <2>1
  <2>2. CASE Destroy(Unwound("set"))
    <3>1. SetOf(j) \notin Unwound("set")
      BY DEF Unwound
    <3> QED BY <1>6, <2>2, <3>1
  <2>3. CASE UNCHANGED vulkan
    BY <1>4, <2>3 DEF vulkan
  <2> QED BY <1>11, <2>1, <2>2, <2>3 DEF AllocSet, Step
<1>12. CASE AllocCmd
  BY <1>10, <1>12 DEF AllocCmd
<1>13. CASE CreateFence
  BY <1>10, <1>13 DEF CreateFence
<1>14. CASE Record
  BY <1>10, <1>14 DEF Record
<1>15. CASE Submit
  <2>1. CASE UNCHANGED vulkan
    BY <1>4, <2>1 DEF vulkan
  <2>2. CASE (lost \/ MayFail("submit")) /\ Destroy(Unwound("submit"))
    <3>1. pc = "submit" /\ op.k \in Call
      BY <1>0, <1>15 DEF Submit, Control
    <3>2. SetOf(j) # SetOf(Now)
      BY <1>0, <2>2, <3>1, OtherSet
    <3>3. SetOf(j) \notin Unwound("submit")
      BY <3>1, <3>2, SetNotUnwound
    <3> QED BY <1>6, <2>2, <3>3
  <2> QED BY <1>15, <2>1, <2>2 DEF Submit
<1>16. CASE Park
  <2>1. CASE Create({})
    BY <1>5, <2>1
  <2>2. CASE Destroy(HeldBy(pending))
    BY <1>2, <1>6, <2>2
  <2>3. CASE Waited(pending, CallsOf(pending) \cup {op.k}, FALSE)
    <3>1. j \in pending \/ j = Now
      BY DEF IInv, DeviceKnown
    <3>2. Now[1] = op.k
      BY <1>0, <1>16, NowParts DEF Park, Control
    <3>3. j[1] \in unwaited'
      BY <2>3, <3>1, <3>2 DEF Waited, CallsOf
    <3> QED BY <3>3 DEF Left
  <2> QED BY <1>16, <2>1, <2>2, <2>3 DEF Park
<1>17. CASE Wait
  <2>1. Now \in Job /\ Now[1] = op.k
    BY <1>0, <1>17, NowParts DEF Wait, Control
  <2>2. CASE Destroy(Held(Now))
    BY <1>1, <1>6, <2>1, <2>2
  <2>3. CASE Waited({Now}, {op.k}, FALSE)
    <3>1. pc = "wait" /\ pending = {}
      BY <1>17, ParkWaitMoves DEF Wait, IInv, RingKnown, Control
    <3>2. j = Now
      BY <3>1 DEF IInv, DeviceKnown
    <3>3. j[1] \in unwaited'
      BY <2>1, <2>3, <3>2 DEF Waited
    <3> QED BY <3>3 DEF Left
  <2> QED BY <1>17, <2>2, <2>3 DEF Wait
<1>18. CASE BackSingle
  BY <1>3, <1>4, <1>6, <1>18 DEF BackSingle, vulkan
<1>19. CASE Cleanup
  <2>1. CASE j[1] # op.k
    <3>1. SetOf(j) \notin Presets(op.k)
      BY <1>0, <2>1 DEF Presets
    <3>2. SetOf(j) \notin {Buffers(op.k)} \cup {s \in Presets(op.k) : op.kind = "preset"}
      BY <1>3, <3>1
    <3> QED BY <1>6, <1>19, <3>2 DEF Cleanup
  <2> QED BY <1>19, <2>1
<1>20. CASE Flush
  BY <1>2, <1>3, <1>6, <1>20 DEF Flush
<1>21. CASE ContextDestroy
  BY <1>21
<1> QED BY <1>7, <1>8, <1>9, <1>11, <1>12, <1>13, <1>14, <1>15, <1>16, <1>17, <1>18, <1>19,
           <1>20, <1>21 DEF Next, HostStep, Rest

\* Only a submission gives the device work.
LEMMA FlightGrows ==
  ASSUME [Next]_vars
  PROVE  flight' \subseteq flight \/ (Submit /\ flight' = flight \cup {Now})
<1>1. CASE \E kind \in Kinds : Begin(kind)
  BY <1>1 DEF Begin, device, work
<1>2. CASE CreateBuffers \/ MakePresets \/ Drain \/ Pipeline \/ Park \/ Wait
  BY <1>2 DEF CreateBuffers, MakePresets, Drain, Pipeline, Park, Wait, device, work
<1>3. CASE AllocSet \/ AllocCmd \/ CreateFence \/ Record
  BY <1>3 DEF AllocSet, AllocCmd, CreateFence, Record, Step, device, work
<1>4. CASE Submit
  BY <1>4 DEF Submit
<1>5. CASE BackSingle \/ BackChain \/ ChainFlush \/ Cleanup \/ Flush \/ ContextDestroy
  BY <1>5 DEF BackSingle, BackChain, ChainFlush, Cleanup, Flush, ContextDestroy, device, work
<1>6. CASE Finish \/ Lose \/ UNCHANGED vars
  BY <1>6 DEF Finish, Lose, vars, device, work
<1> QED BY <1>1, <1>2, <1>3, <1>4, <1>5, <1>6 DEF Next, HostStep, Rest

LEMMA PresetsInUseKept ==
  ASSUME IInv, PresetsOutlive, PresetsInUse, [Next]_vars
  PROVE  PresetsInUse'
<1>0. TypeOK /\ Control /\ PresetsKnown /\ Unanswered
  BY DEF IInv, Bounded, OwnersExact
<1> SUFFICES ASSUME NEW j \in flight', IsPreset(j), ~ Left(j)'
             PROVE  SetOf(j) \in live'
  BY DEF PresetsInUse, IsPreset, SetOf, Left
<1>1. CASE j \in flight
  <2>1. j \in Job /\ j[1] \in Call
    BY <1>0, <1>1, JobParts DEF TypeOK
  <2>2. ~ Left(j)
    BY <1>0, <2>1, LeftStays
  <2>3. SetOf(j) \in live
    BY <1>1, <2>2 DEF PresetsInUse
  <2>4. ~ (Cleanup /\ j[1] = op.k)
    <3>1. ASSUME Cleanup, j[1] = op.k
          PROVE  FALSE
      <4>1. ~ op.ok /\ op.k \in Call /\ op.ok \in BOOLEAN
        BY <1>0, <1>1, <2>2, <3>1, PresetInFlight, OpFields, EndMoves DEF Control
      <4>2. Answer(op.ok)
        BY <3>1 DEF Cleanup
      <4>3. outcome'[j[1]] = "error"
        BY <1>0, <2>1, <3>1, <4>1, <4>2, AnswerOutcome
      <4> QED BY <4>3 DEF Left
    <3> QED BY <3>1
  <2>5. ~ ContextDestroy
    <3>1. ASSUME ContextDestroy
          PROVE  FALSE
      <4>1. j \in pending /\ j \notin ran
        BY <1>1, <2>2, <3>1 DEF ContextDestroy, IInv, DeviceKnown
      <4>2. j[1] \in unwaited'
        BY <3>1, <4>1 DEF ContextDestroy, Waited, Signalled, CallsOf
      <4> QED BY <4>2 DEF Left
    <3> QED BY <3>1
  <2> QED BY <1>1, <2>2, <2>3, <2>4, <2>5, PresetStays
<1>2. CASE j \notin flight
  <2>1. Submit /\ j = Now
    <3>1. ~ (flight' \subseteq flight)
      BY <1>2
    <3> QED BY <1>2, <3>1, FlightGrows
  <2>2. pc = "submit" /\ op.k \in Call /\ UNCHANGED live
    BY <1>0, <1>2, <2>1 DEF Submit, Control, vulkan
  <2>3. op.kind = "preset" /\ Now[1] = op.k /\ Now[3] \in {-1, 0}
    BY <1>0, <2>1, <2>2, NowParts, OpFields
  <2>4. Presets(op.k) \subseteq live
    BY <1>0, <2>2, <2>3 DEF PresetsKnown, Working
  <2>5. SetOf(j) \in Presets(op.k)
    BY <2>1, <2>3 DEF SetOf, Presets
  <2> QED BY <2>2, <2>4, <2>5
<1> QED BY <1>1, <1>2

\* What a submission in flight uses exists, except perhaps its preset set.
LEMMA FlightAlive ==
  ASSUME IInv, PresetsInUse, NEW j \in flight, ~ Left(j)
  PROVE  Uses(j) \subseteq live
<1>0. /\ Bounded /\ TypeOK /\ Control /\ JobsKnown /\ DeviceKnown /\ BuffersExact /\ HandlesExact
      /\ PendingHasBuffers
  BY DEF IInv, Bounded, OwnersExact
<1>1. j \in Job /\ (j[3] = j[2] \/ IsPreset(j))
  BY <1>0 DEF TypeOK, JobsKnown, JobKnown, Jobs
<1>2. j[1] \in Call /\ j[2] \in -1..Links /\ j[2] > 0 /\ 0 \in -1..Links
  BY <1>1, JobParts, DispatchAssumption
<1>3. CASE j \in pending
  <2>1. Buffers(j[1]) \in live
    <3>1. j[1] \in queue \/ OwnsBuffers(j[1])
      BY <1>0, <1>3 DEF PendingHasBuffers, Left
    <3> QED BY <1>0, <1>2, <3>1 DEF BuffersExact, Buffers
  <2>2. HeldBy(pending) \subseteq live
    BY <1>0, RingLive
  <2>3. Held(j) \subseteq live
    BY <1>3, <2>2 DEF HeldBy
  <2>4. SetOf(j) \in live
    BY <2>3 DEF PresetsInUse, Held
  <2> QED BY <2>1, <2>3, <2>4 DEF Uses, Held
<1>4. CASE j \notin pending
  <2>1. pc \in {"park", "wait"} /\ j = Now /\ op.k \in Call
    BY <1>0, <1>4 DEF DeviceKnown, Control
  <2>2. j[1] = op.k /\ (op.kind = "preset" <=> IsPreset(j))
    BY <1>0, <2>1, NowParts
  <2>3. Buffers(j[1]) \in live
    <3>1. OwnsBuffers(op.k)
      BY <2>1 DEF OwnsBuffers, Working
    <3> QED BY <1>0, <2>1, <2>2, <3>1, OwnBuffersLive
  <2>4. Fence(j) \in live /\ Cmd(j) \in live
    BY <1>0, <2>1, NowLive DEF HasFence, HasCmd
  <2>5. SetOf(j) \in live
    <3>1. CASE IsPreset(j)
      BY <3>1 DEF PresetsInUse
    <3>2. CASE ~ IsPreset(j)
      <4>1. HandleExact("set", j[1], j[2])
        BY <1>0, <1>2 DEF HandlesExact, Handle
      <4>2. Names(Now, "set", j[1], j[2]) /\ pc \in Places("set")
        BY <2>1, <3>2 DEF Names, Places, HasSet, HasCmd, HasFence
      <4> QED BY <1>1, <3>2, <4>1, <4>2 DEF HandleExact, SetOf
    <3> QED BY <3>1, <3>2
  <2> QED BY <2>3, <2>4, <2>5 DEF Uses
<1> QED BY <1>3, <1>4

\* Provided that no preset dispatch after the second fails between the allocation of its
\* command buffer and its submission, the buffers, the command buffer, the fence and the
\* descriptor set of everything the device is working on exist, as long as its call has not
\* failed and no failed wait was for it.  Where a preset dispatch does fail, tvdb_vk_dispatch
\* frees the caller's set while an earlier dispatch of the chain uses it.
THEOREM EverythingInUseIsAlive ==
  ASSUME PresetsOutlive
  PROVE  Spec => []InFlightAlive
<1>1. Init => IInv /\ PresetsInUse
  BY IInvInit DEF Init, PresetsInUse
<1>2. (IInv /\ PresetsInUse) /\ [Next]_vars => (IInv /\ PresetsInUse)'
  BY IInvKept, PresetsInUseKept
<1>3. IInv /\ PresetsInUse => InFlightAlive
  BY FlightAlive DEF InFlightAlive, Left
<1> QED BY <1>1, <1>2, <1>3, PTL DEF Spec

-----------------------------------------------------------------------------
(* What a failed wait breaks *)

\* An output array holds what was in a buffer the device did not write only if a wait that
\* failed was for that very call: neither the loss of the device, nor a flush that fails, nor
\* a drain that fails for other calls makes a flush or the end of the context copy it.
THEOREM OthersNeverGetGarbage == Spec => []OthersGetNoGarbage
<1>1. IInv => OthersGetNoGarbage
  BY DEF IInv, Read
<1> QED BY <1>1, InvariantHolds, PTL

\* So every flush that returned TVDB_OK told the truth, as long as no wait has failed.
THEOREM FlushIsTruthfulUnlessAWaitFails == Spec => [](unwaited = {} => FlushIsTruthful)
<1>1. OthersGetNoGarbage => (unwaited = {} => FlushIsTruthful)
  BY DEF OthersGetNoGarbage, FlushIsTruthful
<1> QED BY <1>1, OthersNeverGetGarbage, PTL
=============================================================================
