-------------------------- MODULE PoolNestingProofs --------------------------
(***************************************************************************)
(* Calls nested across pools, proved for any number of pools, threads and  *)
(* chunks: executing_pool is always the pool of the innermost callback,    *)
(* and pools that are nested in one order only never wait for themselves.  *)
(***************************************************************************)
EXTENDS PoolNestingInvariants, SequenceTheorems, TLAPS

-----------------------------------------------------------------------------
(* What pushing, popping and changing a frame does to a stack *)

LEMMA StackParts ==
  ASSUME TypeOK, NEW t \in Thread
  PROVE  /\ stack[t] \in Seq(Frame) /\ Depth(t) \in Nat
         /\ \A i \in 1 .. Depth(t) : stack[t][i] \in Frame
         /\ stack[t] = <<>> <=> Depth(t) = 0
         /\ Depth(t) # 0 => Depth(t) \in 1 .. Depth(t) /\ Top(t) \in Frame /\ Top(t) = stack[t][Depth(t)]
<1>1. stack[t] \in Seq(Frame) /\ Depth(t) \in Nat
  BY DEF TypeOK, Depth
<1>2. \A i \in 1 .. Depth(t) : stack[t][i] \in Frame
  BY <1>1, ElementOfSeq DEF Depth
<1>3. stack[t] = <<>> <=> Depth(t) = 0
  BY <1>1, EmptySeq DEF Depth
<1> QED BY <1>1, <1>2, <1>3 DEF Top, Depth

LEMMA AtTop ==
  ASSUME TypeOK, NEW t \in Thread, NEW l, At(t, l)
  PROVE  Depth(t) \in Nat \ {0} /\ Top(t).pc = l /\ Top(t) \in Frame /\ Top(t) = stack[t][Depth(t)]
BY StackParts DEF At

LEMMA PushIs ==
  ASSUME TypeOK, NEW t \in Thread, NEW f \in Frame, stack' = [stack EXCEPT ![t] = Append(@, f)]
  PROVE  /\ stack' \in [Thread -> Seq(Frame)]
         /\ Depth(t)' = Depth(t) + 1
         /\ \A i \in 1 .. Depth(t) : stack'[t][i] = stack[t][i]
         /\ stack'[t][Depth(t) + 1] = f
         /\ \A u \in Thread : u # t => stack'[u] = stack[u]
<1>1. stack \in [Thread -> Seq(Frame)] /\ stack[t] \in Seq(Frame)
  BY DEF TypeOK
<1>2. stack'[t] = Append(stack[t], f)
  BY <1>1
<1>3. Append(stack[t], f) \in Seq(Frame)
  BY <1>1
<1>4. stack' \in [Thread -> Seq(Frame)] /\ \A u \in Thread : u # t => stack'[u] = stack[u]
  BY <1>1, <1>3
<1>5. /\ Len(Append(stack[t], f)) = Len(stack[t]) + 1
      /\ \A i \in 1 .. Len(stack[t]) : Append(stack[t], f)[i] = stack[t][i]
      /\ Append(stack[t], f)[Len(stack[t]) + 1] = f
  BY <1>1
<1> QED BY <1>2, <1>4, <1>5 DEF Depth

LEMMA PopIs ==
  ASSUME TypeOK, NEW t \in Thread, Depth(t) # 0, Pop(t)
  PROVE  /\ stack' \in [Thread -> Seq(Frame)]
         /\ Depth(t)' = Depth(t) - 1
         /\ \A i \in 1 .. (Depth(t) - 1) : stack'[t][i] = stack[t][i]
         /\ \A u \in Thread : u # t => stack'[u] = stack[u]
<1>1. stack \in [Thread -> Seq(Frame)] /\ stack[t] \in Seq(Frame) /\ Len(stack[t]) \in Nat \ {0}
  BY StackParts DEF TypeOK, Depth
<1>2. PICK n : n = Len(stack[t])
  OBVIOUS
<1>3. stack' = [stack EXCEPT ![t] = SubSeq(@, 1, n - 1)]
  BY <1>2 DEF Pop
<1>4. \A i \in 1 .. (n - 1) : stack[t][i] \in Frame
  BY <1>1, <1>2, ElementOfSeq
<1>5. /\ SubSeq(stack[t], 1, n - 1) \in Seq(Frame)
      /\ Len(SubSeq(stack[t], 1, n - 1)) = n - 1
      /\ \A i \in 1 .. (n - 1) : SubSeq(stack[t], 1, n - 1)[i] = stack[t][i]
  BY <1>1, <1>2, <1>4, SubSeqProperties
<1>6. stack'[t] = SubSeq(stack[t], 1, n - 1)
  BY <1>1, <1>3
<1>7. stack' \in [Thread -> Seq(Frame)] /\ \A u \in Thread : u # t => stack'[u] = stack[u]
  BY <1>1, <1>3, <1>5
<1> QED BY <1>2, <1>5, <1>6, <1>7 DEF Depth

\* A call goes to l, with n chunks left.
LEMMA ChangeIs ==
  ASSUME TypeOK, NEW t \in Thread, Depth(t) # 0,
         NEW f \in Frame, stack' = [stack EXCEPT ![t] = [@ EXCEPT ![Len(stack[t])] = f]]
  PROVE  /\ stack' \in [Thread -> Seq(Frame)]
         /\ Depth(t)' = Depth(t)
         /\ \A i \in 1 .. (Depth(t) - 1) : stack'[t][i] = stack[t][i]
         /\ stack'[t][Depth(t)] = f
         /\ \A u \in Thread : u # t => stack'[u] = stack[u]
<1>1. stack \in [Thread -> Seq(Frame)] /\ stack[t] \in Seq(Frame) /\ Len(stack[t]) \in 1 .. Len(stack[t])
      /\ Len(stack[t]) \in Nat
  BY StackParts DEF TypeOK, Depth
<1>2. PICK s : s = [stack[t] EXCEPT ![Len(stack[t])] = f]
  OBVIOUS
<1>3. /\ s \in Seq(Frame) /\ Len(s) = Len(stack[t])
      /\ \A i \in 1 .. Len(stack[t]) : s[i] = IF i = Len(stack[t]) THEN f ELSE stack[t][i]
  BY <1>1, <1>2, ExceptSeq
<1>4. stack'[t] = s /\ stack' \in [Thread -> Seq(Frame)] /\ \A u \in Thread : u # t => stack'[u] = stack[u]
  BY <1>1, <1>2, <1>3
<1> QED BY <1>1, <1>3, <1>4 DEF Depth

LEMMA GotoIs ==
  ASSUME TypeOK, NEW t \in Thread, Depth(t) # 0, NEW l \in {"loop", "in", "wait"}, Goto(t, l)
  PROVE  \E f \in Frame :
           /\ stack' = [stack EXCEPT ![t] = [@ EXCEPT ![Len(stack[t])] = f]]
           /\ f.pc = l /\ f.kind = Top(t).kind /\ f.pool = Top(t).pool /\ f.saved = Top(t).saved
<1>1. Top(t) \in Frame /\ stack \in [Thread -> Seq(Frame)] /\ Len(stack[t]) \in DOMAIN stack[t]
  BY StackParts DEF TypeOK, Depth
<1>2. PICK f : f = [Top(t) EXCEPT !.pc = l]
  OBVIOUS
<1>3. f \in Frame /\ f.pc = l /\ f.kind = Top(t).kind /\ f.pool = Top(t).pool /\ f.saved = Top(t).saved
  BY <1>1, <1>2 DEF Frame
<1>4. stack' = [stack EXCEPT ![t] = [@ EXCEPT ![Len(stack[t])] = f]]
  BY <1>1, <1>2 DEF Goto, Top
<1> QED BY <1>3, <1>4

LEMMA NextChunkIs ==
  ASSUME TypeOK, NEW t \in Thread, NextChunk(t)
  PROVE  \E f \in Frame :
           /\ stack' = [stack EXCEPT ![t] = [@ EXCEPT ![Len(stack[t])] = f]]
           /\ f.pc = "in" /\ f.kind = Top(t).kind /\ f.pool = Top(t).pool /\ f.saved = Top(t).saved
<1>1. /\ Top(t) \in Frame /\ Top(t).left > 0 /\ stack \in [Thread -> Seq(Frame)]
      /\ Len(stack[t]) \in DOMAIN stack[t] /\ stack[t] \in [1 .. Len(stack[t]) -> Frame]
  BY AtTop, StackParts DEF TypeOK, Depth, NextChunk
<1>2. PICK f : f = [Top(t) EXCEPT !.pc = "in", !.left = Top(t).left - 1]
  OBVIOUS
<1>a. Top(t).left - 1 \in Nat
  <2>1. Top(t).left \in Nat
    BY <1>1 DEF Frame
  <2> QED BY <1>1, <2>1
<1>3. f \in Frame /\ f.pc = "in" /\ f.kind = Top(t).kind /\ f.pool = Top(t).pool /\ f.saved = Top(t).saved
  BY <1>1, <1>2, <1>a DEF Frame
<1>4. stack' = [stack EXCEPT ![t] = [@ EXCEPT ![Len(stack[t])] = f]]
  BY <1>1, <1>2 DEF NextChunk, Top
<1> QED BY <1>3, <1>4

-----------------------------------------------------------------------------
(* What each keeps *)

\* A thread whose stack and executing_pool stay as they were.
LEMMA OrderlyStays ==
  ASSUME NEW u \in Thread, Orderly(u), stack'[u] = stack[u], executing'[u] = executing[u]
  PROVE  Orderly(u)'
BY DEF Orderly, OthersInCallback, KindsRight, SavedIsOuter, ExecutingExpected, Depth, Top

\* A call begins, on an idle thread or in a callback.
LEMMA PushKeeps ==
  ASSUME IInv, NEW t \in Thread, NEW f \in Frame,
         stack' = [stack EXCEPT ![t] = Append(@, f)],
         Depth(t) = 0 \/ At(t, "in"), f.saved = executing[t],
         f.kind = "worker" => Depth(t) = 0 /\ t \in Workers[f.pool],
         f.pc \in {"submit", "wait"} => f.kind = "caller",
         f.pc = "submit" => f.pool # f.saved,
         executing' \in [Thread -> Pools \cup {NoPool}],
         executing'[t] = IF f.pc \in {"loop", "in"} THEN f.pool ELSE f.saved,
         \A u \in Thread : u # t => executing'[u] = executing[u]
  PROVE  stack' \in [Thread -> Seq(Frame)] /\ \A u \in Thread : Orderly(u)'
<1>0. TypeOK /\ Orderly(t) /\ Depth(t) \in Nat
  BY StackParts DEF IInv
<1>1. /\ stack' \in [Thread -> Seq(Frame)]
      /\ Depth(t)' = Depth(t) + 1
      /\ \A i \in 1 .. Depth(t) : stack'[t][i] = stack[t][i]
      /\ stack'[t][Depth(t) + 1] = f
      /\ \A u \in Thread : u # t => stack'[u] = stack[u]
  BY <1>0, PushIs
<1>2. Depth(t) # 0 => stack[t][Depth(t)].pc = "in" /\ f.saved = stack[t][Depth(t)].pool
  <2>1. Depth(t) # 0 => Top(t).pc = "in" /\ Top(t) = stack[t][Depth(t)]
    BY <1>0, AtTop
  <2> QED BY <1>0, <2>1 DEF Orderly, ExecutingExpected
<1>3. Depth(t) = 0 => f.saved = NoPool
  BY <1>0 DEF Orderly, ExecutingExpected
<1>d. PICK n \in Nat : n = Depth(t) /\ Depth(t)' = n + 1
  BY <1>0, <1>1
<1>e. \A i \in 1 .. n : stack'[t][i] = stack[t][i]
  BY <1>1, <1>d
<1>g. \A i \in 1 .. (n + 1) : i = n + 1 \/ i \in 1 .. n
  OBVIOUS
<1>f. stack'[t][n + 1] = f
  BY <1>1, <1>d
<1>4. OthersInCallback(t)'
  <2>1. ASSUME NEW i \in 1 .. n
        PROVE  stack[t][i].pc = "in"
    <3>1. i = n \/ i \in 1 .. (n - 1)
      OBVIOUS
    <3>2. \A k \in 1 .. (n - 1) : stack[t][k].pc = "in"
      BY <1>0, <1>d DEF Orderly, OthersInCallback
    <3>3. i = n => stack[t][i].pc = "in"
      BY <1>2, <1>d
    <3> QED BY <3>1, <3>2, <3>3
  <2>2. \A i \in 1 .. n : stack'[t][i].pc = "in"
    BY <1>e, <2>1
  <2>3. (n + 1) - 1 = n
    OBVIOUS
  <2> QED BY <1>d, <2>2, <2>3 DEF OthersInCallback
<1>5. KindsRight(t)'
  <2>1. ASSUME NEW i \in 1 .. (n + 1), NEW g, g = stack'[t][i]
        PROVE  /\ g.kind = "worker" => i = 1 /\ t \in Workers[g.pool]
               /\ g.pc \in {"submit", "wait"} => g.kind = "caller"
               /\ g.pc = "submit" => g.pool # g.saved
    <3>1. CASE i = n + 1
      <4>1. g = f
        BY <1>f, <2>1, <3>1
      <4>2. f.kind = "worker" => i = 1 /\ t \in Workers[f.pool]
        BY <1>d, <3>1
      <4> QED BY <4>1, <4>2
    <3>2. CASE i \in 1 .. n
      <4>1. g = stack[t][i]
        BY <1>e, <2>1, <3>2
      <4> QED BY <1>0, <1>d, <3>2, <4>1 DEF Orderly, KindsRight
    <3> QED BY <1>g, <3>1, <3>2
  <2> QED BY <1>d, <2>1 DEF KindsRight
<1>6. SavedIsOuter(t)'
  <2>1. ASSUME NEW i \in 1 .. (n + 1)
        PROVE  stack'[t][i].saved = IF i = 1 THEN NoPool ELSE stack'[t][i - 1].pool
    <3>1. CASE i = n + 1
      <4>1. CASE n = 0
        BY <1>3, <1>d, <1>f, <3>1, <4>1
      <4>2. CASE n # 0
        <5>1. i - 1 = n /\ i # 1 /\ n \in 1 .. n
          BY <3>1, <4>2
        <5>2. stack'[t][n] = stack[t][n]
          BY <1>e, <5>1
        <5> QED BY <1>2, <1>d, <1>f, <3>1, <4>2, <5>1, <5>2
      <4> QED BY <4>1, <4>2
    <3>2. CASE i \in 1 .. n
      <4>1. stack'[t][i] = stack[t][i]
        BY <1>e, <3>2
      <4>2. i = 1 \/ i - 1 \in 1 .. n
        BY <3>2
      <4>3. i = 1 \/ stack'[t][i - 1] = stack[t][i - 1]
        BY <1>e, <4>2
      <4>4. stack[t][i].saved = IF i = 1 THEN NoPool ELSE stack[t][i - 1].pool
        BY <1>0, <1>d, <3>2 DEF Orderly, SavedIsOuter
      <4> QED BY <4>1, <4>3, <4>4
    <3> QED BY <1>g, <3>1, <3>2
  <2> QED BY <1>d, <2>1 DEF SavedIsOuter
<1>7. ExecutingExpected(t)'
  <2>1. Top(t)' = f
    BY <1>1 DEF Top, Depth
  <2> QED BY <1>0, <1>1, <2>1 DEF ExecutingExpected
<1>8. ASSUME NEW u \in Thread, u # t
      PROVE  Orderly(u)'
  BY <1>1, <1>8, OrderlyStays DEF IInv
<1> QED BY <1>1, <1>4, <1>5, <1>6, <1>7, <1>8 DEF Orderly

\* A call returns: executing_pool is what it had saved.
LEMMA PopKeeps ==
  ASSUME IInv, NEW t \in Thread, Depth(t) # 0, Pop(t), executing'[t] = Top(t).saved,
         \A u \in Thread : u # t => executing'[u] = executing[u]
  PROVE  stack' \in [Thread -> Seq(Frame)] /\ \A u \in Thread : Orderly(u)'
<1>0. TypeOK /\ Orderly(t) /\ Depth(t) \in Nat \ {0} /\ Top(t) = stack[t][Depth(t)]
  BY StackParts DEF IInv
<1>1. /\ stack' \in [Thread -> Seq(Frame)]
      /\ Depth(t)' = Depth(t) - 1
      /\ \A i \in 1 .. (Depth(t) - 1) : stack'[t][i] = stack[t][i]
      /\ \A u \in Thread : u # t => stack'[u] = stack[u]
  BY <1>0, PopIs
<1>d. PICK n \in Nat \ {0} : n = Depth(t) /\ Depth(t)' = n - 1
  BY <1>0, <1>1
<1>e. \A i \in 1 .. (n - 1) : stack'[t][i] = stack[t][i] /\ i \in 1 .. n
  BY <1>1, <1>d
<1>f. OthersInCallback(t)'
  <2>1. \A i \in 1 .. (n - 1) : stack[t][i].pc = "in"
    BY <1>0, <1>d DEF Orderly, OthersInCallback
  <2>2. \A i \in 1 .. ((n - 1) - 1) : i \in 1 .. (n - 1)
    OBVIOUS
  <2>3. \A i \in 1 .. ((n - 1) - 1) : stack'[t][i].pc = "in"
    BY <1>e, <2>1, <2>2
  <2> QED BY <1>d, <2>3 DEF OthersInCallback
<1>g. KindsRight(t)'
  <2>1. \A i \in 1 .. n :
          /\ stack[t][i].kind = "worker" => i = 1 /\ t \in Workers[stack[t][i].pool]
          /\ stack[t][i].pc \in {"submit", "wait"} => stack[t][i].kind = "caller"
          /\ stack[t][i].pc = "submit" => stack[t][i].pool # stack[t][i].saved
    BY <1>0, <1>d DEF Orderly, KindsRight
  <2>2. \A i \in 1 .. (n - 1) :
          /\ stack'[t][i].kind = "worker" => i = 1 /\ t \in Workers[stack'[t][i].pool]
          /\ stack'[t][i].pc \in {"submit", "wait"} => stack'[t][i].kind = "caller"
          /\ stack'[t][i].pc = "submit" => stack'[t][i].pool # stack'[t][i].saved
    BY <1>e, <2>1
  <2> QED BY <1>d, <2>2 DEF KindsRight
<1>h. SavedIsOuter(t)'
  <2>1. ASSUME NEW i \in 1 .. (n - 1)
        PROVE  stack'[t][i].saved = IF i = 1 THEN NoPool ELSE stack'[t][i - 1].pool
    <3>1. stack'[t][i] = stack[t][i] /\ i \in 1 .. n
      BY <1>e
    <3>2. i = 1 \/ i - 1 \in 1 .. (n - 1)
      OBVIOUS
    <3>3. i = 1 \/ stack'[t][i - 1] = stack[t][i - 1]
      BY <1>e, <3>2
    <3>4. stack[t][i].saved = IF i = 1 THEN NoPool ELSE stack[t][i - 1].pool
      BY <1>0, <1>d, <3>1 DEF Orderly, SavedIsOuter
    <3> QED BY <3>1, <3>3, <3>4
  <2> QED BY <1>d, <2>1 DEF SavedIsOuter
<1>2. OthersInCallback(t)' /\ KindsRight(t)' /\ SavedIsOuter(t)'
  BY <1>f, <1>g, <1>h
<1>3. ExecutingExpected(t)'
  <2>1. CASE Depth(t) = 1
    BY <1>0, <1>1, <2>1 DEF Orderly, SavedIsOuter, ExecutingExpected
  <2>2. CASE Depth(t) > 1
    <3>1. Top(t)' = stack[t][Depth(t) - 1]
      BY <1>0, <1>1, <2>2 DEF Top, Depth
    <3>2. stack[t][Depth(t) - 1].pc = "in" /\ Top(t).saved = stack[t][Depth(t) - 1].pool
      BY <1>0, <2>2 DEF Orderly, OthersInCallback, SavedIsOuter
    <3> QED BY <1>0, <1>1, <2>2, <3>1, <3>2 DEF ExecutingExpected
  <2> QED BY <1>0, <2>1, <2>2
<1>4. ASSUME NEW u \in Thread, u # t
      PROVE  Orderly(u)'
  BY <1>1, <1>4, OrderlyStays DEF IInv
<1> QED BY <1>1, <1>2, <1>3, <1>4 DEF Orderly

\* A call goes on to its callback, its loop or its wait.
LEMMA ChangeKeeps ==
  ASSUME IInv, NEW t \in Thread, Depth(t) # 0, NEW f \in Frame,
         stack' = [stack EXCEPT ![t] = [@ EXCEPT ![Len(stack[t])] = f]],
         f.kind = Top(t).kind, f.pool = Top(t).pool, f.saved = Top(t).saved,
         f.pc # "submit", f.pc = "wait" => f.kind = "caller",
         executing'[t] = IF f.pc \in {"loop", "in"} THEN f.pool ELSE f.saved,
         \A u \in Thread : u # t => executing'[u] = executing[u]
  PROVE  stack' \in [Thread -> Seq(Frame)] /\ \A u \in Thread : Orderly(u)'
<1>0. TypeOK /\ Orderly(t) /\ Depth(t) \in Nat \ {0} /\ Top(t) = stack[t][Depth(t)]
  BY StackParts DEF IInv
<1>1. /\ stack' \in [Thread -> Seq(Frame)]
      /\ Depth(t)' = Depth(t)
      /\ \A i \in 1 .. (Depth(t) - 1) : stack'[t][i] = stack[t][i]
      /\ stack'[t][Depth(t)] = f
      /\ \A u \in Thread : u # t => stack'[u] = stack[u]
  BY <1>0, ChangeIs
<1>2. OthersInCallback(t)' /\ KindsRight(t)'
  BY <1>0, <1>1 DEF Orderly, OthersInCallback, KindsRight
<1>3. SavedIsOuter(t)'
  BY <1>0, <1>1 DEF Orderly, SavedIsOuter
<1>4. ExecutingExpected(t)'
  <2>1. Top(t)' = f
    BY <1>1 DEF Top, Depth
  <2> QED BY <1>0, <1>1, <2>1 DEF ExecutingExpected
<1>5. ASSUME NEW u \in Thread, u # t
      PROVE  Orderly(u)'
  BY <1>1, <1>5, OrderlyStays DEF IInv
<1> QED BY <1>1, <1>2, <1>3, <1>4, <1>5 DEF Orderly

-----------------------------------------------------------------------------
(* The invariant *)

LEMMA InitOrderly == Init => IInv
<1> SUFFICES ASSUME Init
             PROVE  IInv
  OBVIOUS
<1>1. stack \in [Thread -> Seq(Frame)] /\ \A t \in Thread : stack[t] = <<>> /\ Depth(t) = 0
  BY EmptySeq DEF Init, Depth
<1>2. TypeOK
  BY <1>1, PoolAssumption DEF Init, TypeOK, Depth
<1>3. \A t \in Thread : Orderly(t)
  BY <1>1 DEF Init, Orderly, OthersInCallback, KindsRight, SavedIsOuter, ExecutingExpected
<1> QED BY <1>2, <1>3 DEF IInv

\* The rest of the state keeps its types.
Shared ==
  /\ executing \in [Thread -> Pools \cup {NoPool}]
  /\ submit \in [Pools -> Thread \cup {Nobody}] /\ todo \in [Pools -> Nat]
  /\ pending \in [Pools -> SUBSET Thread] /\ \A p \in Pools : pending[p] \subseteq Workers[p]
  /\ calls \in 0 .. MaxCalls

LEMMA SharedTypes == TypeOK => Shared
BY DEF TypeOK, Shared

LEMMA Together ==
  ASSUME Shared', stack' \in [Thread -> Seq(Frame)], \A u \in Thread : Orderly(u)'
  PROVE  IInv'
BY DEF TypeOK, Shared, IInv, Orderly, KindsRight, Depth

LEMMA ThreadsOf == \A p \in Pools : Workers[p] \subseteq Thread
BY DEF Thread

LEMMA CallKeeps ==
  ASSUME IInv, NEW t \in Thread, NEW p \in Pools, NEW n \in Chunks, Call(t, p, n)
  PROVE  IInv'
<1>0. TypeOK /\ Shared /\ n \in Nat /\ Depth(t) \in Nat /\ executing[t] \in Pools \cup {NoPool}
  BY SharedTypes, StackParts, PoolAssumption DEF IInv, Shared
<1>1. Depth(t) = 0 \/ At(t, "in")
  BY <1>0, StackParts DEF Call
<1>2. /\ calls' \in 0 .. MaxCalls /\ UNCHANGED <<submit, todo, pending>>
  BY <1>0, PoolAssumption DEF Call, Shared
<1>3. CASE Serial(t, p, n)
  <2>1. PICK f : f = [kind |-> "serial", pool |-> p, pc |-> "loop", left |-> n, saved |-> executing[t]]
    OBVIOUS
  <2>2. /\ f \in Frame /\ f.kind = "serial" /\ f.pc = "loop" /\ f.pool = p /\ f.saved = executing[t]
    BY <1>0, <2>1 DEF Frame
  <2>3. stack' = [stack EXCEPT ![t] = Append(@, f)] /\ executing' = [executing EXCEPT ![t] = p]
    BY <1>3, <2>1 DEF Call, Push, Enter
  <2>4. /\ executing' \in [Thread -> Pools \cup {NoPool}] /\ executing'[t] = p
        /\ \A u \in Thread : u # t => executing'[u] = executing[u]
    BY <1>0, <2>3 DEF Shared
  <2>5. stack' \in [Thread -> Seq(Frame)] /\ \A u \in Thread : Orderly(u)'
    BY <1>1, <2>2, <2>3, <2>4, PushKeeps
  <2>6. Shared'
    BY <1>0, <1>2, <2>4 DEF Shared
  <2> QED BY <2>5, <2>6, Together
<1>4. CASE ~ Serial(t, p, n)
  <2>1. PICK f : f = [kind |-> "caller", pool |-> p, pc |-> "submit", left |-> n, saved |-> executing[t]]
    OBVIOUS
  <2>2. /\ f \in Frame /\ f.kind = "caller" /\ f.pc = "submit" /\ f.pool = p /\ f.saved = executing[t]
    BY <1>0, <2>1 DEF Frame
  <2>3. stack' = [stack EXCEPT ![t] = Append(@, f)] /\ UNCHANGED executing
    BY <1>4, <2>1 DEF Call, Push
  <2>4. f.pool # f.saved
    BY <1>4, <2>2 DEF Serial
  <2>5. stack' \in [Thread -> Seq(Frame)] /\ \A u \in Thread : Orderly(u)'
    BY <1>0, <1>1, <2>2, <2>3, <2>4, PushKeeps DEF Shared
  <2>6. Shared'
    BY <1>0, <1>2, <2>3 DEF Shared
  <2> QED BY <2>5, <2>6, Together
<1> QED BY <1>3, <1>4

LEMMA EnlistKeeps ==
  ASSUME IInv, NEW p \in Pools, NEW w \in Workers[p], Enlist(p, w)
  PROVE  IInv'
<1>0. TypeOK /\ Shared /\ w \in Thread /\ executing[w] \in Pools \cup {NoPool} /\ Depth(w) = 0
  BY SharedTypes, StackParts, ThreadsOf DEF IInv, Shared, Enlist
<1>1. PICK f : f = [kind |-> "worker", pool |-> p, pc |-> "loop", left |-> 0, saved |-> executing[w]]
  OBVIOUS
<1>2. /\ f \in Frame /\ f.kind = "worker" /\ f.pc = "loop" /\ f.pool = p /\ f.saved = executing[w]
  BY <1>0, <1>1 DEF Frame
<1>3. stack' = [stack EXCEPT ![w] = Append(@, f)] /\ executing' = [executing EXCEPT ![w] = p]
  BY <1>1 DEF Enlist, Push, Enter
<1>4. /\ executing' \in [Thread -> Pools \cup {NoPool}] /\ executing'[w] = p
      /\ \A u \in Thread : u # w => executing'[u] = executing[u]
  BY <1>0, <1>3 DEF Shared
<1>5. stack' \in [Thread -> Seq(Frame)] /\ \A u \in Thread : Orderly(u)'
  BY <1>0, <1>2, <1>3, <1>4, PushKeeps
<1>6. Shared'
  BY <1>0, <1>4 DEF Shared, Enlist
<1> QED BY <1>5, <1>6, Together

\* The steps by which a call goes on.
LEMMA GoOnKeeps ==
  ASSUME IInv, NEW t \in Thread, Submit(t) \/ Claim(t) \/ NextChunk(t) \/ CallbackReturns(t)
  PROVE  IInv'
<1>0. TypeOK /\ Shared /\ Orderly(t)
  BY SharedTypes DEF IInv
<1>1. /\ Depth(t) # 0 /\ Top(t) \in Frame /\ Top(t).pool \in Pools
      /\ Top(t).pc \in {"submit", "loop", "in"} /\ Top(t).left \in Nat
  BY <1>0, AtTop DEF Submit, Claim, NextChunk, CallbackReturns, Frame
<1>2. Depth(t) \in 1 .. Depth(t) /\ Top(t) = stack[t][Depth(t)]
  BY <1>0, <1>1, StackParts
<1>3. executing[t] = IF Top(t).pc = "submit" THEN Top(t).saved ELSE Top(t).pool
  BY <1>0, <1>1 DEF Orderly, ExecutingExpected
<1>4. PICK f \in Frame :
        /\ stack' = [stack EXCEPT ![t] = [@ EXCEPT ![Len(stack[t])] = f]]
        /\ f.pc \in {"loop", "in"} /\ f.kind = Top(t).kind /\ f.pool = Top(t).pool
        /\ f.saved = Top(t).saved
  <2>1. CASE NextChunk(t)
    BY <1>0, <2>1, NextChunkIs
  <2>2. CASE Submit(t) \/ Claim(t) \/ CallbackReturns(t)
    <3>1. Goto(t, "loop") \/ Goto(t, "in")
      BY <2>2 DEF Submit, Claim, CallbackReturns
    <3> QED BY <1>0, <1>1, <3>1, GotoIs
  <2> QED BY <2>1, <2>2
<1>5. /\ executing' \in [Thread -> Pools \cup {NoPool}] /\ executing'[t] = Top(t).pool
      /\ \A u \in Thread : u # t => executing'[u] = executing[u]
  <2>1. CASE Submit(t)
    <3>1. executing' = [executing EXCEPT ![t] = Top(t).pool]
      BY <2>1 DEF Submit, Enter
    <3> QED BY <1>0, <1>1, <3>1 DEF Shared
  <2>2. CASE Claim(t) \/ NextChunk(t) \/ CallbackReturns(t)
    <3>1. UNCHANGED executing /\ Top(t).pc # "submit"
      BY <2>2 DEF Claim, NextChunk, CallbackReturns, At
    <3> QED BY <1>0, <1>3, <3>1 DEF Shared
  <2> QED BY <2>1, <2>2
<1>6. stack' \in [Thread -> Seq(Frame)] /\ \A u \in Thread : Orderly(u)'
  BY <1>1, <1>4, <1>5, ChangeKeeps
<1>7. /\ submit' \in [Pools -> Thread \cup {Nobody}] /\ todo' \in [Pools -> Nat]
      /\ pending' \in [Pools -> SUBSET Thread] /\ \A p \in Pools : pending'[p] \subseteq Workers[p]
      /\ UNCHANGED calls
  <2>1. CASE Submit(t)
    BY <1>0, <1>1, <2>1, ThreadsOf DEF Submit, Shared
  <2>2. CASE Claim(t)
    <3>1. todo[Top(t).pool] - 1 \in Nat
      BY <1>0, <1>1, <2>2 DEF Claim, ChunkLeft, Shared
    <3> QED BY <1>0, <1>1, <2>2, <3>1 DEF Claim, Shared
  <2>3. CASE NextChunk(t) \/ CallbackReturns(t)
    BY <1>0, <2>3 DEF NextChunk, CallbackReturns, Shared
  <2> QED BY <2>1, <2>2, <2>3
<1>8. Shared'
  BY <1>0, <1>5, <1>7 DEF Shared
<1> QED BY <1>6, <1>8, Together

\* The caller of a job has no chunk left to run.
LEMMA CallerDrainedKeeps ==
  ASSUME IInv, NEW t \in Thread, CallerDrained(t)
  PROVE  IInv'
<1>0. TypeOK /\ Shared
  BY SharedTypes DEF IInv
<1>1. Depth(t) # 0 /\ Top(t) \in Frame /\ Top(t).saved \in Pools \cup {NoPool} /\ Top(t).kind = "caller"
  BY <1>0, AtTop DEF CallerDrained, Frame
<1>2. PICK f \in Frame :
        /\ stack' = [stack EXCEPT ![t] = [@ EXCEPT ![Len(stack[t])] = f]]
        /\ f.pc = "wait" /\ f.kind = Top(t).kind /\ f.pool = Top(t).pool /\ f.saved = Top(t).saved
  BY <1>0, <1>1, GotoIs DEF CallerDrained
<1>3. /\ executing' \in [Thread -> Pools \cup {NoPool}] /\ executing'[t] = Top(t).saved
      /\ \A u \in Thread : u # t => executing'[u] = executing[u]
  BY <1>0, <1>1 DEF CallerDrained, Leave, Shared
<1>4. stack' \in [Thread -> Seq(Frame)] /\ \A u \in Thread : Orderly(u)'
  BY <1>1, <1>2, <1>3, ChangeKeeps
<1>5. Shared'
  BY <1>0, <1>3 DEF Shared, CallerDrained
<1> QED BY <1>4, <1>5, Together

LEMMA ReturnsKeep ==
  ASSUME IInv, NEW t \in Thread, SerialReturns(t) \/ WorkerLeaves(t) \/ CallerReturns(t)
  PROVE  IInv'
<1>0. TypeOK /\ Shared /\ Orderly(t)
  BY SharedTypes DEF IInv
<1>1. /\ Depth(t) # 0 /\ Top(t) \in Frame /\ Top(t).pool \in Pools /\ Pop(t)
      /\ Top(t).saved \in Pools \cup {NoPool}
  BY <1>0, AtTop DEF SerialReturns, WorkerLeaves, CallerReturns, Frame
<1>2. /\ executing' \in [Thread -> Pools \cup {NoPool}] /\ executing'[t] = Top(t).saved
      /\ \A u \in Thread : u # t => executing'[u] = executing[u]
  <2>1. CASE SerialReturns(t) \/ WorkerLeaves(t)
    BY <1>0, <1>1, <2>1 DEF SerialReturns, WorkerLeaves, Leave, Shared
  <2>2. CASE CallerReturns(t)
    <3>1. Top(t).pc = "wait" /\ UNCHANGED executing
      BY <2>2 DEF CallerReturns, At
    <3> QED BY <1>0, <1>1, <3>1 DEF Orderly, ExecutingExpected, Shared
  <2> QED BY <2>1, <2>2
<1>3. stack' \in [Thread -> Seq(Frame)] /\ \A u \in Thread : Orderly(u)'
  BY <1>1, <1>2, PopKeeps
<1>4. /\ submit' \in [Pools -> Thread \cup {Nobody}]
      /\ pending' \in [Pools -> SUBSET Thread] /\ \A p \in Pools : pending'[p] \subseteq Workers[p]
      /\ UNCHANGED <<todo, calls>>
  BY <1>0, <1>1 DEF SerialReturns, WorkerLeaves, CallerReturns, Shared
<1>5. Shared'
  BY <1>0, <1>2, <1>4 DEF Shared
<1> QED BY <1>3, <1>5, Together

LEMMA NextKeeps == IInv /\ [Next]_vars => IInv'
<1>1. ASSUME IInv, UNCHANGED vars
      PROVE  IInv'
  <2>1. Shared' /\ stack' \in [Thread -> Seq(Frame)]
    BY <1>1, SharedTypes DEF vars, IInv, TypeOK, Shared
  <2>2. \A u \in Thread : Orderly(u)'
    BY <1>1, OrderlyStays DEF vars, IInv
  <2> QED BY <2>1, <2>2, Together
<1>2. ASSUME IInv, Next
      PROVE  IInv'
  <2>1. CASE Rest
    BY <1>1, <1>2, <2>1 DEF Rest
  <2>2. ASSUME NEW t \in Thread, Step(t) \/ CallbackReturns(t) \/ \E p \in Pools, n \in Chunks : Call(t, p, n)
        PROVE  IInv'
    BY <1>2, <2>2, CallKeeps, GoOnKeeps, CallerDrainedKeeps, ReturnsKeep DEF Step
  <2>3. ASSUME NEW p \in Pools, NEW w \in Workers[p], Enlist(p, w)
        PROVE  IInv'
    BY <1>2, <2>3, EnlistKeeps
  <2> QED BY <1>2, <2>1, <2>2, <2>3 DEF Next
<1> QED BY <1>1, <1>2

LEMMA InvariantHolds == Spec => []IInv
BY InitOrderly, NextKeeps, PTL DEF Spec

\* Every variable keeps its type: a job hands out no more chunks than it has, only workers of
\* a pool that have not gone through its job are pending, and a worker serves a job at the
\* bottom of its stack only.
THEOREM TypesHold == Spec => []TypeOK
<1>1. IInv => TypeOK
  BY DEF IInv
<1> QED BY <1>1, InvariantHolds, PTL

\* Over an orderly stack the innermost live call is the top one, or the one under it.
LEMMA InnermostIs ==
  ASSUME IInv, NEW t \in Thread
  PROVE  Innermost(t, Len(stack[t])) = executing[t]
<1>0. TypeOK /\ Orderly(t)
  BY DEF IInv
<1>1. PICK n \in Nat : n = Depth(t) /\ n = Len(stack[t])
  BY <1>0, StackParts DEF Depth
<1>2. PICK live : live = {i \in 1 .. n : stack[t][i].pc \in {"loop", "in"}}
  OBVIOUS
<1>3. Innermost(t, n) = IF live = {} THEN NoPool
                        ELSE stack[t][CHOOSE i \in live : \A j \in live : j <= i].pool
  BY <1>2 DEF Innermost
<1>4. n # 0 => n \in 1 .. n /\ Top(t) = stack[t][n]
  BY <1>0, <1>1, StackParts
<1>5. \A i \in 1 .. (n - 1) : i \in live
  <2>1. \A i \in 1 .. (n - 1) : i \in 1 .. n
    OBVIOUS
  <2>2. \A i \in 1 .. (n - 1) : stack[t][i].pc = "in"
    BY <1>0, <1>1 DEF Orderly, OthersInCallback
  <2> QED BY <1>2, <2>1, <2>2
<1>6. ASSUME NEW m \in live, \A j \in live : j <= m
      PROVE  Innermost(t, n) = stack[t][m].pool
  <2>1. PICK i : i = CHOOSE k \in live : \A j \in live : j <= k
    OBVIOUS
  <2>2. i \in live /\ \A j \in live : j <= i
    BY <1>6, <2>1
  <2>3. i <= m /\ m <= i /\ i \in Nat /\ m \in Nat
    BY <1>2, <1>6, <2>2
  <2>4. i = m
    BY <2>3
  <2> QED BY <1>3, <1>6, <2>1, <2>4
<1>7. CASE n = 0
  <2>1. live = {}
    BY <1>2, <1>7
  <2> QED BY <1>0, <1>1, <1>3, <1>7, <2>1 DEF Orderly, ExecutingExpected
<1>8. CASE n # 0 /\ Top(t).pc \in {"loop", "in"}
  <2>1. n \in live /\ \A j \in live : j <= n
    BY <1>2, <1>4, <1>8
  <2>2. Innermost(t, n) = Top(t).pool
    BY <1>4, <1>6, <1>8, <2>1
  <2> QED BY <1>0, <1>1, <1>8, <2>2 DEF Orderly, ExecutingExpected
<1>9. CASE n # 0 /\ Top(t).pc \notin {"loop", "in"}
  <2>1. n \notin live
    BY <1>2, <1>4, <1>9
  <2>2. executing[t] = Top(t).saved
    BY <1>0, <1>1, <1>9 DEF Orderly, ExecutingExpected
  <2>3. Top(t).saved = IF n = 1 THEN NoPool ELSE stack[t][n - 1].pool
    BY <1>0, <1>1, <1>4, <1>9 DEF Orderly, SavedIsOuter
  <2>4. CASE n = 1
    <3>1. live = {}
      BY <1>2, <2>1, <2>4
    <3> QED BY <1>1, <1>3, <2>2, <2>3, <2>4, <3>1
  <2>5. CASE n # 1
    <3>1. n - 1 \in 1 .. (n - 1)
      BY <1>9, <2>5
    <3>2. \A j \in live : j <= n - 1
      BY <1>2, <2>1
    <3>3. Innermost(t, n) = stack[t][n - 1].pool
      BY <1>5, <1>6, <3>1, <3>2
    <3> QED BY <1>1, <2>2, <2>3, <2>5, <3>3
  <2> QED BY <2>4, <2>5
<1> QED BY <1>1, <1>7, <1>8, <1>9

\* However calls of several pools are nested, executing_pool of a thread is the pool of the
\* innermost call that runs callbacks: leaving a nested call brings back the one around it.
THEOREM ExecutingFollows == Spec => []ExecutingIsInnermost
<1>1. IInv => ExecutingIsInnermost
  BY InnermostIs DEF ExecutingIsInnermost
<1> QED BY <1>1, InvariantHolds, PTL

-----------------------------------------------------------------------------
(* Pools nested in one order only *)

\* What Upwards says of a thread depends on the pools of its stack.
LEMMA UpwardsStays ==
  ASSUME NEW Rank \in [Pools -> Nat], NEW t \in Thread, Upwards(Rank, t), NEW n \in Nat, NEW m \in Nat,
         n = Len(stack[t]), m = Len(stack'[t]), m <= n,
         \A i \in 1 .. m : stack'[t][i].pool = stack[t][i].pool
  PROVE  Upwards(Rank, t)'
<1>3. \A i \in 1 .. m : i \in 1 .. n /\ stack'[t][i].pool = stack[t][i].pool
  OBVIOUS
<1>4. \A i, j \in 1 .. n :
        i < j => stack[t][i].pool = stack[t][j].pool \/ Rank[stack[t][i].pool] < Rank[stack[t][j].pool]
  BY DEF Upwards, Depth
<1>5. \A i, j \in 1 .. m :
        i < j => stack'[t][i].pool = stack'[t][j].pool \/ Rank[stack'[t][i].pool] < Rank[stack'[t][j].pool]
  BY <1>3, <1>4
<1> QED BY <1>5 DEF Upwards, Depth

\* A call on top of a stack whose innermost pool may call it.
LEMMA UpwardsGrows ==
  ASSUME IInv, NEW Rank \in [Pools -> Nat], NEW t \in Thread, Upwards(Rank, t), NEW f \in Frame,
         stack' = [stack EXCEPT ![t] = Append(@, f)],
         Depth(t) # 0 => Top(t).pool = f.pool \/ Rank[Top(t).pool] < Rank[f.pool]
  PROVE  Upwards(Rank, t)'
<1>0. TypeOK
  BY DEF IInv
<1>1. PICK n \in Nat : n = Depth(t) /\ Depth(t)' = n + 1 /\ stack'[t][n + 1] = f
  BY <1>0, StackParts, PushIs
<1>2. \A i \in 1 .. n : stack'[t][i] = stack[t][i]
  BY <1>0, <1>1, PushIs
<1>3. \A i, j \in 1 .. n :
        i < j => stack[t][i].pool = stack[t][j].pool \/ Rank[stack[t][i].pool] < Rank[stack[t][j].pool]
  BY <1>1 DEF Upwards
<1>4. \A i \in 1 .. n : stack[t][i].pool \in Pools
  BY <1>0, <1>1, StackParts DEF Frame
<1>5. ASSUME NEW i \in 1 .. n
      PROVE  stack[t][i].pool = f.pool \/ Rank[stack[t][i].pool] < Rank[f.pool]
  <2>1. n # 0 /\ n \in 1 .. n /\ Top(t) = stack[t][n]
    BY <1>0, <1>1, <1>5, StackParts
  <2>2. Top(t).pool = f.pool \/ Rank[Top(t).pool] < Rank[f.pool]
    BY <1>1, <2>1
  <2>3. i = n \/ i < n
    BY <1>5
  <2>4. stack[t][i].pool = Top(t).pool \/ Rank[stack[t][i].pool] < Rank[Top(t).pool]
    BY <1>3, <2>1, <2>3
  <2>5. Rank[stack[t][i].pool] \in Nat /\ Rank[Top(t).pool] \in Nat /\ Rank[f.pool] \in Nat
    BY <1>4, <2>1 DEF Frame
  <2> QED BY <2>2, <2>4, <2>5
<1>6. ASSUME NEW i \in 1 .. (n + 1), NEW j \in 1 .. (n + 1), i < j
      PROVE  stack'[t][i].pool = stack'[t][j].pool \/ Rank[stack'[t][i].pool] < Rank[stack'[t][j].pool]
  <2>1. i \in 1 .. n /\ (j = n + 1 \/ j \in 1 .. n)
    BY <1>6
  <2>2. stack'[t][i] = stack[t][i]
    BY <1>2, <2>1
  <2>3. CASE j = n + 1
    BY <1>1, <1>5, <2>1, <2>2, <2>3
  <2>4. CASE j \in 1 .. n
    BY <1>2, <1>3, <1>6, <2>1, <2>2, <2>4
  <2> QED BY <2>1, <2>3, <2>4
<1> QED BY <1>1, <1>6 DEF Upwards

\* What a step does to the stack of a thread: it leaves it, or another frame of the same
\* pool is at its end, or one frame less, or one more.
FrameChanged(t) ==
  /\ Depth(t) # 0
  /\ \E f \in Frame : /\ stack' = [stack EXCEPT ![t] = [@ EXCEPT ![Len(stack[t])] = f]]
                     /\ f.pool = Top(t).pool

FramePopped(t) == Depth(t) # 0 /\ Pop(t)

Pushed(t, f) ==
  /\ stack' = [stack EXCEPT ![t] = Append(@, f)]
  /\ Depth(t) # 0 => <<Top(t).pool, f.pool>> \in Nests

FramePushed(t) == \E f \in Frame : Pushed(t, f)

LEMMA StackSteps ==
  ASSUME IInv, [Next]_vars, NEW t \in Thread
  PROVE  stack'[t] = stack[t] \/ FrameChanged(t) \/ FramePopped(t) \/ FramePushed(t)
<1>0. TypeOK /\ stack \in [Thread -> Seq(Frame)] /\ executing \in [Thread -> Pools \cup {NoPool}]
  BY DEF IInv, TypeOK
<1>a. \A u \in Thread : Depth(u) \in Nat /\ (stack[u] = <<>> <=> Depth(u) = 0)
  BY <1>0, StackParts
<1>1. ASSUME NEW u \in Thread, NEW p \in Pools, NEW n \in Chunks, Call(u, p, n)
      PROVE  stack'[t] = stack[t] \/ FramePushed(t)
  <2>1. PICK f \in Frame : stack' = [stack EXCEPT ![u] = Append(@, f)] /\ f.pool = p
    <3>1. n \in Nat /\ executing[u] \in Pools \cup {NoPool}
      BY <1>0, PoolAssumption
    <3>2. CASE Serial(u, p, n)
      <4>1. PICK f : f = [kind |-> "serial", pool |-> p, pc |-> "loop", left |-> n, saved |-> executing[u]]
        OBVIOUS
      <4>2. f \in Frame /\ f.pool = p
        BY <3>1, <4>1 DEF Frame
      <4>3. stack' = [stack EXCEPT ![u] = Append(@, f)]
        BY <1>1, <3>2, <4>1 DEF Call, Push
      <4> QED BY <4>2, <4>3
    <3>3. CASE ~ Serial(u, p, n)
      <4>1. PICK f : f = [kind |-> "caller", pool |-> p, pc |-> "submit", left |-> n, saved |-> executing[u]]
        OBVIOUS
      <4>2. f \in Frame /\ f.pool = p
        BY <3>1, <4>1 DEF Frame
      <4>3. stack' = [stack EXCEPT ![u] = Append(@, f)]
        BY <1>1, <3>3, <4>1 DEF Call, Push
      <4> QED BY <4>2, <4>3
    <3> QED BY <3>2, <3>3
  <2>2. Depth(u) # 0 => <<Top(u).pool, p>> \in Nests
    BY <1>a, <1>1 DEF Call
  <2>3. CASE u = t
    BY <2>1, <2>2, <2>3 DEF FramePushed, Pushed
  <2>4. CASE u # t
    BY <1>0, <2>1, <2>4
  <2> QED BY <2>3, <2>4
<1>2. ASSUME NEW p \in Pools, NEW w \in Workers[p], Enlist(p, w)
      PROVE  stack'[t] = stack[t] \/ FramePushed(t)
  <2>1. PICK f : f = [kind |-> "worker", pool |-> p, pc |-> "loop", left |-> 0, saved |-> executing[w]]
    OBVIOUS
  <2>2. w \in Thread /\ executing[w] \in Pools \cup {NoPool} /\ Depth(w) = 0
    BY <1>0, <1>a, <1>2, ThreadsOf DEF Enlist
  <2>3. f \in Frame
    BY <2>1, <2>2 DEF Frame
  <2>4. stack' = [stack EXCEPT ![w] = Append(@, f)]
    BY <1>2, <2>1 DEF Enlist, Push
  <2>5. CASE w = t
    BY <2>2, <2>3, <2>4, <2>5 DEF FramePushed, Pushed
  <2>6. CASE w # t
    BY <1>0, <2>2, <2>4, <2>6
  <2> QED BY <2>5, <2>6
<1>3. ASSUME NEW u \in Thread, Submit(u) \/ Claim(u) \/ NextChunk(u) \/ CallbackReturns(u) \/ CallerDrained(u)
      PROVE  stack'[t] = stack[t] \/ FrameChanged(t)
  <2>1. Depth(u) # 0
    BY <1>0, <1>3, AtTop DEF Submit, Claim, NextChunk, CallbackReturns, CallerDrained
  <2>2. PICK f \in Frame : /\ stack' = [stack EXCEPT ![u] = [@ EXCEPT ![Len(stack[u])] = f]]
                            /\ f.pool = Top(u).pool
    <3>1. CASE NextChunk(u)
      BY <1>0, <3>1, NextChunkIs
    <3>2. CASE Submit(u) \/ Claim(u) \/ CallbackReturns(u) \/ CallerDrained(u)
      <4>1. Goto(u, "loop") \/ Goto(u, "in") \/ Goto(u, "wait")
        BY <3>2 DEF Submit, Claim, CallbackReturns, CallerDrained
      <4> QED BY <1>0, <2>1, <4>1, GotoIs
    <3> QED BY <1>3, <3>1, <3>2
  <2>3. CASE u = t
    BY <2>1, <2>2, <2>3 DEF FrameChanged
  <2>4. CASE u # t
    BY <1>0, <2>2, <2>4
  <2> QED BY <2>3, <2>4
<1>4. ASSUME NEW u \in Thread, SerialReturns(u) \/ WorkerLeaves(u) \/ CallerReturns(u)
      PROVE  stack'[t] = stack[t] \/ FramePopped(t)
  <2>1. Depth(u) # 0 /\ Pop(u)
    BY <1>0, <1>4, AtTop DEF SerialReturns, WorkerLeaves, CallerReturns
  <2>2. u # t => stack'[t] = stack[t]
    BY <1>0, <2>1, PopIs
  <2> QED BY <2>1, <2>2 DEF FramePopped
<1>5. CASE Rest \/ UNCHANGED vars
  BY <1>5 DEF Rest, vars
<1> QED BY <1>1, <1>2, <1>3, <1>4, <1>5 DEF Next, Step

LEMMA UpwardsKept ==
  ASSUME IInv, NEW Rank \in [Pools -> Nat], NestsUpwards(Rank), [Next]_vars, NEW t \in Thread, Upwards(Rank, t)
  PROVE  Upwards(Rank, t)'
<1>0. TypeOK /\ Depth(t) \in Nat
  BY StackParts DEF IInv
<1>1. CASE stack'[t] = stack[t]
  <2>1. PICK n \in Nat : n = Depth(t) /\ n = Depth(t)'
    BY <1>0, <1>1 DEF Depth
  <2> QED BY <1>1, <2>1, UpwardsStays DEF Depth
<1>2. ASSUME Depth(t) # 0, NEW f \in Frame, stack' = [stack EXCEPT ![t] = [@ EXCEPT ![Len(stack[t])] = f]],
             f.pool = Top(t).pool
      PROVE  Upwards(Rank, t)'
  <2>1. PICK n \in Nat \ {0} : n = Depth(t) /\ n = Depth(t)'
    BY <1>0, <1>2, ChangeIs
  <2>a. /\ \A i \in 1 .. (Depth(t) - 1) : stack'[t][i] = stack[t][i]
        /\ stack'[t][Depth(t)] = f
    BY <1>0, <1>2, ChangeIs
  <2>2. (\A i \in 1 .. (n - 1) : stack'[t][i] = stack[t][i]) /\ stack'[t][n] = f
    BY <2>1, <2>a
  <2>3. Top(t) = stack[t][n]
    BY <1>0, <1>2, <2>1, StackParts
  <2>4. \A i \in 1 .. n : i = n \/ i \in 1 .. (n - 1)
    OBVIOUS
  <2>5. \A i \in 1 .. n : stack'[t][i].pool = stack[t][i].pool
    BY <1>2, <2>2, <2>3, <2>4
  <2>6. n \in Nat /\ n <= n /\ n = Len(stack[t]) /\ n = Len(stack'[t])
    BY <2>1 DEF Depth
  <2> QED BY <2>5, <2>6, UpwardsStays
<1>3. CASE FramePopped(t)
  <2>0. Depth(t) # 0 /\ Pop(t)
    BY <1>3 DEF FramePopped
  <2>1. PICK n \in Nat \ {0} : n = Depth(t) /\ Depth(t)' = n - 1
    BY <1>0, <2>0, PopIs
  <2>2. \A i \in 1 .. (n - 1) : stack'[t][i] = stack[t][i]
    BY <1>0, <2>0, <2>1, PopIs
  <2>3. PICK m \in Nat : m = n - 1
    OBVIOUS
  <2>4. n \in Nat /\ m <= n /\ n = Len(stack[t]) /\ m = Len(stack'[t])
    BY <2>1, <2>3 DEF Depth
  <2>5. \A i \in 1 .. m : stack'[t][i].pool = stack[t][i].pool
    BY <2>2, <2>3
  <2> QED BY <2>4, <2>5, UpwardsStays
<1>4. ASSUME NEW f \in Frame, stack' = [stack EXCEPT ![t] = Append(@, f)],
             Depth(t) # 0 => <<Top(t).pool, f.pool>> \in Nests
      PROVE  Upwards(Rank, t)'
  <2>1. Depth(t) # 0 => Top(t).pool = f.pool \/ Rank[Top(t).pool] < Rank[f.pool]
    <3>1. f.pool \in Pools /\ (Depth(t) # 0 => Top(t).pool \in Pools)
      BY <1>0, StackParts DEF Frame
    <3> QED BY <1>4, <3>1 DEF NestsUpwards
  <2> QED BY <1>4, <2>1, UpwardsGrows
<1>5. CASE FrameChanged(t)
  <2>1. Depth(t) # 0
    BY <1>5 DEF FrameChanged
  <2>2. PICK f \in Frame : /\ stack' = [stack EXCEPT ![t] = [@ EXCEPT ![Len(stack[t])] = f]]
                           /\ f.pool = Top(t).pool
    BY <1>5 DEF FrameChanged
  <2> QED BY <1>2, <2>1, <2>2
<1>6. CASE FramePushed(t)
  <2>1. PICK f \in Frame : Pushed(t, f)
    BY <1>6 DEF FramePushed
  <2>2. stack' = [stack EXCEPT ![t] = Append(@, f)]
    BY <2>1 DEF Pushed
  <2>3. Depth(t) # 0 => <<Top(t).pool, f.pool>> \in Nests
    BY <2>1 DEF Pushed
  <2> QED BY <1>4, <2>2, <2>3
<1> QED BY <1>1, <1>3, <1>5, <1>6, StackSteps

\* A call that is to wait for a submit mutex has no call of that pool under it.
LEMMA SubmitsAbove ==
  ASSUME IInv, NEW Rank \in [Pools -> Nat], NEW t \in Thread, Upwards(Rank, t), At(t, "submit"),
         NEW i \in 1 .. (Len(stack[t]) - 1)
  PROVE  stack[t][i].pool # Top(t).pool
<1>0. TypeOK /\ Orderly(t)
  BY DEF IInv
<1>1. PICK n \in Nat : n = Depth(t) /\ n = Len(stack[t]) /\ n # 0 /\ Top(t) = stack[t][n] /\ Top(t).pc = "submit"
  BY <1>0, AtTop DEF Depth
<1>2. i \in 1 .. n /\ n \in 1 .. n /\ n - 1 \in 1 .. n /\ n # 1 /\ (i = n - 1 \/ i < n - 1) /\ n - 1 < n
  BY <1>1
<1>3. Top(t).pool # stack[t][n - 1].pool
  <2>1. Top(t).saved = stack[t][n - 1].pool
    BY <1>0, <1>1, <1>2 DEF Orderly, SavedIsOuter
  <2>2. Top(t).pool # Top(t).saved
    BY <1>0, <1>1, <1>2 DEF Orderly, KindsRight
  <2> QED BY <2>1, <2>2
<1>4. \A k, j \in 1 .. n :
        k < j => stack[t][k].pool = stack[t][j].pool \/ Rank[stack[t][k].pool] < Rank[stack[t][j].pool]
  BY <1>1 DEF Upwards
<1>5. Rank[stack[t][n - 1].pool] < Rank[Top(t).pool]
  BY <1>1, <1>2, <1>3, <1>4
<1>6. stack[t][i].pool = stack[t][n - 1].pool \/ Rank[stack[t][i].pool] < Rank[stack[t][n - 1].pool]
  BY <1>2, <1>4
<1>7. \A k \in 1 .. n : Rank[stack[t][k].pool] \in Nat
  <2>1. \A k \in 1 .. n : stack[t][k].pool \in Pools
    BY <1>0, <1>1, StackParts DEF Frame
  <2> QED BY <2>1
<1>8. PICK a, b, c \in Nat :
        a = Rank[stack[t][i].pool] /\ b = Rank[stack[t][n - 1].pool] /\ c = Rank[Top(t).pool]
  BY <1>1, <1>2, <1>7
<1>9. b < c
  BY <1>5, <1>8
<1>10. a = b \/ a < b
  BY <1>6, <1>8
<1>11. a # c
  BY <1>9, <1>10
<1> QED BY <1>8, <1>11

\* When pools are nested in one order only (each can be given a rank so that a callback calls
\* its own pool or one of a higher rank), no thread ever waits for the submit mutex of a pool
\* in whose job it is itself, at any depth: a call on a pool that is already running on the
\* thread is a serial one.  Without an order it is false.
THEOREM NoPoolWaitsForItself ==
  ASSUME NEW Rank \in [Pools -> Nat], NestsUpwards(Rank)
  PROVE  Spec => []ReentrantRunsSerially
<1>1. Init => IInv /\ \A t \in Thread : Upwards(Rank, t)
  <2>1. Init => \A t \in Thread : Depth(t) = 0
    BY EmptySeq DEF Init, Depth
  <2>2. Init => \A t \in Thread : Upwards(Rank, t)
    BY <2>1 DEF Upwards
  <2> QED BY <2>2, InitOrderly
<1>2. ASSUME IInv, \A t \in Thread : Upwards(Rank, t), [Next]_vars
      PROVE  IInv' /\ \A t \in Thread : Upwards(Rank, t)'
  BY <1>2, NextKeeps, UpwardsKept
<1>3. IInv /\ (\A t \in Thread : Upwards(Rank, t)) => ReentrantRunsSerially
  BY SubmitsAbove DEF ReentrantRunsSerially
<1>4. (IInv /\ \A t \in Thread : Upwards(Rank, t)) /\ [Next]_vars => (IInv /\ \A t \in Thread : Upwards(Rank, t))'
  BY <1>2
<1> QED BY <1>1, <1>3, <1>4, PTL DEF Spec
=============================================================================
