-------------------------- MODULE GpuHashSetProofs --------------------------
(***************************************************************************)
(* The GPU hash set, proved for any number of points, any table at least   *)
(* twice as large, any hash and any voxels.                                *)
(***************************************************************************)
EXTENDS GpuHashSet, FiniteSetTheorems, TLAPS

-----------------------------------------------------------------------------
(* Counting: fewer slots are taken than the table has.                      *)

Taken == {s \in Slot : state[s] # 0}

LEMMA PointCount == Cardinality(Point) \in Nat /\ Cardinality(Point) # 0
<1>1. Cardinality(Point) \in Nat
  BY FS_CardinalityType, TableAssumption
<1>2. Cardinality(Point) # 0
  BY FS_EmptySet, TableAssumption
<1> QED BY <1>1, <1>2

LEMMA SlotCount == IsFiniteSet(Slot) /\ Cardinality(Slot) = Cap
<1>1. 0 \in Int /\ Cap - 1 \in Int
  BY TableAssumption
<1>2. IsFiniteSet(Slot) /\ Cardinality(Slot) = IF 0 > Cap - 1 THEN 0 ELSE Cap - 1 - 0 + 1
  BY <1>1, FS_Interval DEF Slot
<1> QED BY <1>2, TableAssumption

\* Every taken slot is the slot of a point, so there are no more of them than points.
LEMMA TakenCount ==
  ASSUME TypeOK, Ownership
  PROVE  IsFiniteSet(Taken) /\ Cardinality(Taken) \in Nat /\ Cardinality(Taken) < Cap
         /\ Cardinality(Taken) <= Cardinality(Point)
<1> DEFINE Owned == {slot[p] : p \in Point}
<1>1. slot \in Surjection(Point, Owned)
  BY DEF Surjection, TypeOK
<1>2. IsFiniteSet(Owned) /\ Cardinality(Owned) <= Cardinality(Point)
  BY <1>1, FS_Surjection, TableAssumption
<1>3. Taken \subseteq Owned
  BY DEF Taken, Ownership
<1>4. /\ IsFiniteSet(Taken) /\ Cardinality(Taken) <= Cardinality(Owned)
      /\ Cardinality(Taken) \in Nat /\ Cardinality(Owned) \in Nat
  BY <1>2, <1>3, FS_Subset, FS_CardinalityType
<1> QED BY <1>2, <1>4, PointCount, TableAssumption

\* A probe sequence as long as the table meets every slot.
LEMMA ProbesReachAll ==
  ASSUME NEW k \in Key, NEW s \in Slot
  PROVE  \E i \in 0..(Cap - 1) : Nth(k, i) = s
<1>1. Home[k] \in Slot
  BY TableAssumption
<1>2. CASE s >= Home[k]
  <2>1. s - Home[k] \in 0..(Cap - 1) /\ Nth(k, s - Home[k]) = s
    BY <1>1, <1>2, TableAssumption DEF Slot, Nth
  <2> QED BY <2>1
<1>3. CASE s < Home[k]
  <2>1. s - Home[k] + Cap \in 0..(Cap - 1) /\ Nth(k, s - Home[k] + Cap) = s
    BY <1>1, <1>3, TableAssumption DEF Slot, Nth
  <2> QED BY <2>1
<1> QED BY <1>1, <1>2, <1>3, TableAssumption DEF Slot

\* So some slot of it is empty: a thread that has passed by occupied slots only
\* has not been everywhere.
LEMMA EmptyAhead ==
  ASSUME TypeOK, Ownership, NEW k \in Key
  PROVE  \E i \in 0..(Cap - 1) : state[Nth(k, i)] = 0
<1>1. PICK s \in Slot : s \notin Taken
  <2>1. SUFFICES ASSUME Slot \subseteq Taken PROVE FALSE
    OBVIOUS
  <2>2. Taken = Slot
    BY <2>1 DEF Taken
  <2> QED BY <2>2, TakenCount, SlotCount, TableAssumption
<1>2. PICK i \in 0..(Cap - 1) : Nth(k, i) = s
  BY ProbesReachAll
<1> QED BY <1>1, <1>2 DEF Taken

LEMMA NthSlot ==
  ASSUME NEW k \in Key, NEW i \in 0..(Cap - 1)
  PROVE  Nth(k, i) \in Slot
<1>1. Home[k] \in Slot
  BY TableAssumption
<1> QED BY <1>1, TableAssumption DEF Nth, Slot

LEMMA NthNext ==
  ASSUME NEW k \in Key, NEW i \in 0..(Cap - 1), i + 1 < Cap
  PROVE  NextSlot(Nth(k, i)) = Nth(k, i + 1)
<1>1. Home[k] \in Slot
  BY TableAssumption
<1> QED BY <1>1, TableAssumption DEF Nth, NextSlot, Slot

LEMMA NextSlotType == ASSUME NEW s \in Slot PROVE NextSlot(s) \in Slot
  BY TableAssumption DEF NextSlot, Slot

\* A thread that moves on from an occupied slot arrives at the next of its sequence.
LEMMA AdvanceMoves ==
  ASSUME TypeOK, Ownership, Probing, NEW p \in Point, Advance(p), state[slot[p]] # 0
  PROVE  /\ probe[p] + 1 < Cap
         /\ probe' = [probe EXCEPT ![p] = @ + 1]
         /\ slot' = [slot EXCEPT ![p] = Nth(voxel[p], probe[p] + 1)]
         /\ pc' = [pc EXCEPT ![p] = "claim"]
         /\ \A i \in 0..probe[p] : state[Nth(voxel[p], i)] # 0
<1>1. voxel[p] \in Key /\ probe[p] \in 0..(Cap - 1) /\ Cap \in Nat
  BY TableAssumption DEF TypeOK, Probing
<1>2. \A i \in 0..probe[p] : state[Nth(voxel[p], i)] # 0
  <2>1. TAKE i \in 0..probe[p]
  <2>2. i \in 0..(probe[p] - 1) \/ i = probe[p]
    BY <1>1
  <2> QED BY <2>2 DEF Probing
<1>3. PICK i \in 0..(Cap - 1) : state[Nth(voxel[p], i)] = 0
  BY <1>1, EmptyAhead
<1>4. probe[p] + 1 < Cap
  BY <1>1, <1>2, <1>3
<1>5. NextSlot(slot[p]) = Nth(voxel[p], probe[p] + 1)
  BY <1>1, <1>4, NthNext DEF Probing
<1> QED BY <1>2, <1>4, <1>5 DEF Advance

-----------------------------------------------------------------------------
(* Types *)

LEMMA InitType == Init => TypeOK
<1>1. Cap \in Nat /\ 0 \in 0..Cap /\ Home \in [Key -> Slot]
  BY TableAssumption
<1> QED BY <1>1 DEF Init, TypeOK, Writers, Returned

LEMMA TypeHolds ==
  ASSUME TypeOK, Ownership, Probing, Gathering, Next
  PROVE  TypeOK'
<1> USE TableAssumption DEF TypeOK, Writers, Returned
<1>1. ASSUME NEW p \in Point, Claim(p) PROVE TypeOK'
  BY <1>1 DEF Claim, At, compaction
<1>2. ASSUME NEW p \in Point, Meet(p) PROVE TypeOK'
  BY <1>2 DEF Meet, At, compaction, table
<1>3. ASSUME NEW p \in Point, Advance(p),
             UNCHANGED <<phase, voxel, table, compaction, found>>
      PROVE  TypeOK'
  <2>1. probe[p] + 1 \in 0..Cap /\ NextSlot(slot[p]) \in Slot
    BY NextSlotType DEF Probing
  <2> QED BY <1>3, <2>1 DEF Advance, compaction, table
<1>4. ASSUME NEW p \in Point, Pass(p) PROVE TypeOK'
  BY <1>3, <1>4 DEF Pass
<1>5. ASSUME NEW p \in Point, Compare(p) PROVE TypeOK'
  <2>1. CASE keys[slot[p]] = voxel[p]
    BY <1>5, <2>1 DEF Compare, compaction, table
  <2>2. CASE keys[slot[p]] # voxel[p]
    BY <1>3, <1>5, <2>2 DEF Compare
  <2> QED BY <2>1, <2>2
<1>6. ASSUME NEW p \in Point, Write(p) PROVE TypeOK'
  BY <1>6 DEF Write, compaction
<1>7. ASSUME NEW p \in Point, Publish(p) PROVE TypeOK'
  BY <1>7 DEF Publish, compaction
<1>8. CASE InsertDone
  BY <1>8 DEF InsertDone, thread, table, compaction
<1>9. ASSUME NEW s \in Slot, Draw(s) PROVE TypeOK'
  BY <1>9 DEF Draw, thread, table
<1>10. ASSUME NEW s \in Slot, Emit(s) PROVE TypeOK'
  BY <1>10 DEF Emit, thread, table
<1>11. CASE ReadBack
  <2>1. Candidates \in Nat /\ Candidates <= Cap
    BY PointCount DEF Candidates
  <2>2. ASSUME NEW i \in 0..(Candidates - 1) PROVE i \in Slot
    BY ONLY <2>1, TableAssumption DEF Slot
  <2>3. \A s \in Slot : outc[s] \in Key
    OBVIOUS
  <2>4. found' \subseteq Key
    BY ONLY <1>11, <2>2, <2>3 DEF ReadBack
  <2> QED BY <1>11, <2>4 DEF ReadBack, thread, table, compaction
<1>12. CASE Fail \/ Rest
  BY <1>12 DEF Fail, Rest, vars, thread, table, compaction
<1> QED
  BY <1>1, <1>2, <1>4, <1>5, <1>6, <1>7, <1>8, <1>9, <1>10, <1>11, <1>12 DEF Next, Insert

-----------------------------------------------------------------------------
(* Ownership of slots *)

LEMMA OwnershipHolds ==
  ASSUME TypeOK, Ownership, Probing, Next
  PROVE  Ownership'
<1> USE DEF TypeOK, Ownership, Claimed, Writers
<1>1. ASSUME NEW p \in Point, Claim(p) PROVE Ownership'
  <2>1. \A q \in Point : pc[q] \in Claimed => slot[q] # slot[p]
    BY <1>1 DEF Claim
  <2> QED BY <1>1, <2>1 DEF Claim, At
<1>2. ASSUME NEW p \in Point, Meet(p) PROVE Ownership'
  BY <1>2 DEF Meet, At, table
<1>3. ASSUME NEW p \in Point, pc[p] \in {"claim", "compare"}, Advance(p),
             UNCHANGED <<voxel, table>>
      PROVE  Ownership'
  BY <1>3 DEF Advance, table
<1>4. ASSUME NEW p \in Point, Pass(p) PROVE Ownership'
  BY <1>3, <1>4 DEF Pass, At
<1>5. ASSUME NEW p \in Point, Compare(p) PROVE Ownership'
  <2>1. CASE keys[slot[p]] = voxel[p]
    BY <1>5, <2>1 DEF Compare, At, table
  <2>2. CASE keys[slot[p]] # voxel[p]
    BY <1>3, <1>5, <2>2 DEF Compare, At
  <2> QED BY <2>1, <2>2
<1>6. ASSUME NEW p \in Point, Write(p) PROVE Ownership'
  BY <1>6 DEF Write, At
<1>7. ASSUME NEW p \in Point, Publish(p) PROVE Ownership'
  BY <1>7 DEF Publish, At
<1>8. ASSUME UNCHANGED <<voxel, thread, table>> PROVE Ownership'
  BY <1>8 DEF thread, table
<1> QED
  BY <1>1, <1>2, <1>4, <1>5, <1>6, <1>7, <1>8
     DEF Next, Insert, InsertDone, Draw, Emit, ReadBack, Fail, Rest, vars

-----------------------------------------------------------------------------
(* Probe sequences *)

\* Slots only fill up, published slots stay as they are, and the thread that
\* moves is the one whose step it is.
LEMMA TableGrows ==
  ASSUME TypeOK, Ownership, Next
  PROVE  /\ \A s \in Slot : state[s] # 0 => state'[s] # 0
         /\ \A s \in Published : state'[s] = 2 /\ keys'[s] = keys[s]
         /\ voxel' = voxel
<1> USE DEF TypeOK, Ownership, Published, Writers
<1>1. ASSUME NEW p \in Point, Insert(p)
      PROVE  /\ \A s \in Slot : state[s] # 0 => state'[s] # 0
             /\ \A s \in Published : state'[s] = 2 /\ keys'[s] = keys[s]
             /\ voxel' = voxel
  BY <1>1 DEF Insert, Claim, Meet, Pass, Compare, Write, Publish, At, table
<1> QED
  BY <1>1 DEF Next, InsertDone, Draw, Emit, ReadBack, Fail, Rest, vars, table

\* The part of Probing that is about one thread.
Sound(p) ==
  /\ pc[p] # "full" /\ probe[p] < Cap
  /\ slot[p] = Nth(voxel[p], probe[p])
  /\ \A i \in 0..(probe[p] - 1) : state[Nth(voxel[p], i)] # 0
  /\ pc[p] \in {"compare", "duplicate"} => state[slot[p]] = 2
  /\ pc[p] = "duplicate" => keys[slot[p]] = voxel[p]

\* A thread that does not move stays sound while others move.
LEMMA SoundStays ==
  ASSUME TypeOK, Ownership, Next, NEW p \in Point, Sound(p),
         probe'[p] = probe[p], slot'[p] = slot[p],
         pc'[p] # "full",
         pc'[p] \in {"compare", "duplicate"} => state[slot[p]] = 2,
         pc'[p] = "duplicate" => keys[slot[p]] = voxel[p]
  PROVE  Sound(p)'
<1>1. slot[p] \in Slot /\ voxel[p] \in Key /\ probe[p] \in 0..Cap
  BY DEF TypeOK
<1>2. ASSUME NEW i \in 0..(probe[p] - 1) PROVE state'[Nth(voxel[p], i)] # 0
  <2>1. i \in 0..(Cap - 1)
    BY <1>1, TableAssumption DEF Sound
  <2> QED BY <1>1, <2>1, NthSlot, TableGrows DEF Sound
<1>3. state[slot[p]] = 2 => state'[slot[p]] = 2 /\ keys'[slot[p]] = keys[slot[p]]
  BY <1>1, TableGrows DEF Published
<1> QED BY <1>1, <1>2, <1>3, TableGrows DEF Sound, Nth

\* A thread that moves on from an occupied slot stays sound.
LEMMA SoundAdvances ==
  ASSUME TypeOK, Ownership, Probing, Next, NEW p \in Point, Advance(p), state[slot[p]] # 0
  PROVE  Sound(p)'
<1>1. voxel[p] \in Key /\ probe[p] \in 0..Cap
  BY DEF TypeOK
<1>2. /\ probe[p] + 1 < Cap /\ probe'[p] = probe[p] + 1
      /\ slot'[p] = Nth(voxel[p], probe[p] + 1) /\ pc'[p] = "claim"
      /\ \A i \in 0..probe[p] : state[Nth(voxel[p], i)] # 0
  BY AdvanceMoves DEF TypeOK
<1>3. ASSUME NEW i \in 0..(probe'[p] - 1) PROVE state'[Nth(voxel[p], i)] # 0
  <2>1. i \in 0..(Cap - 1) /\ i \in 0..probe[p]
    BY <1>1, <1>2, TableAssumption
  <2> QED BY <1>1, <1>2, <2>1, NthSlot, TableGrows
<1> QED BY <1>1, <1>2, <1>3, TableGrows DEF Sound, Nth

LEMMA ProbingHolds ==
  ASSUME TypeOK, Ownership, Probing, Next
  PROVE  Probing'
<1> USE DEF TypeOK
<1>1. \A q \in Point : Sound(q)
  BY DEF Probing, Sound
<1>2. ASSUME NEW q \in Point, pc'[q] = pc[q], slot'[q] = slot[q], probe'[q] = probe[q]
      PROVE  Sound(q)'
  BY <1>1, <1>2, SoundStays DEF Sound
<1>3. ASSUME NEW p \in Point, Insert(p), NEW q \in Point, q # p PROVE Sound(q)'
  <2>1. pc'[q] = pc[q] /\ slot'[q] = slot[q] /\ probe'[q] = probe[q]
    BY <1>3 DEF Insert, Claim, Meet, Pass, Compare, Write, Publish, Advance
  <2> QED BY <1>2, <2>1
<1>4. ASSUME NEW p \in Point, Insert(p) PROVE Sound(p)'
  <2>1. CASE Claim(p) \/ Write(p) \/ Publish(p)
    <3>1. /\ pc'[p] \in {"write", "publish", "inserted"}
          /\ slot'[p] = slot[p] /\ probe'[p] = probe[p]
      BY <2>1 DEF Claim, Write, Publish
    <3> QED BY <1>1, <3>1, SoundStays
  <2>2. CASE Meet(p)
    <3>1. pc'[p] = "compare" /\ state[slot[p]] = 2 /\ slot'[p] = slot[p] /\ probe'[p] = probe[p]
      BY <2>2 DEF Meet, Readable
    <3> QED BY <1>1, <3>1, SoundStays
  <2>3. CASE Pass(p)
    BY <2>3, SoundAdvances DEF Pass
  <2>4. CASE Compare(p)
    <3>1. state[slot[p]] = 2
      BY <2>4 DEF Compare, At, Probing
    <3>2. CASE keys[slot[p]] = voxel[p]
      <4>1. pc'[p] = "duplicate" /\ slot'[p] = slot[p] /\ probe'[p] = probe[p]
        BY <2>4, <3>2 DEF Compare
      <4> QED BY <1>1, <3>1, <3>2, <4>1, SoundStays
    <3>3. CASE keys[slot[p]] # voxel[p]
      BY <2>4, <3>1, <3>3, SoundAdvances DEF Compare
    <3> QED BY <3>2, <3>3
  <2> QED BY <1>4, <2>1, <2>2, <2>3, <2>4 DEF Insert
<1>5. ASSUME UNCHANGED thread PROVE \A q \in Point : Sound(q)'
  BY <1>2, <1>5 DEF thread
<1>6. \A q \in Point : Sound(q)'
  BY <1>3, <1>4, <1>5 DEF Next, InsertDone, Draw, Emit, ReadBack, Fail, Rest, vars
<1> QED BY <1>6 DEF Probing, Sound

-----------------------------------------------------------------------------
(* The compaction *)

\* No more places are drawn than there are points: no candidate is cut off.
LEMMA DrawnCount ==
  ASSUME TypeOK, Ownership, Gathering
  PROVE  IsFiniteSet(Drawn) /\ counter <= Cardinality(Point) /\ counter < Cap
<1>1. Drawn \subseteq Taken
  BY DEF Gathering, Published, Taken
<1>2. IsFiniteSet(Drawn) /\ Cardinality(Drawn) <= Cardinality(Taken)
  BY <1>1, TakenCount, FS_Subset
<1> QED BY <1>2, TakenCount, PointCount, TableAssumption DEF Gathering, TypeOK

\* A published slot that has not drawn leaves room for its place.
LEMMA RoomToDraw ==
  ASSUME TypeOK, Ownership, Gathering, NEW s \in Published, s \notin Drawn
  PROVE  /\ IsFiniteSet(Drawn \cup {s})
         /\ Cardinality(Drawn \cup {s}) = counter + 1
         /\ counter + 1 <= Cardinality(Point)
<1>1. IsFiniteSet(Drawn \cup {s}) /\ Cardinality(Drawn \cup {s}) = counter + 1
  BY DrawnCount, FS_AddElement DEF Gathering
<1>2. Drawn \cup {s} \subseteq Taken
  BY DEF Gathering, Published, Taken
<1>3. Cardinality(Drawn \cup {s}) <= Cardinality(Taken)
  BY <1>2, TakenCount, FS_Subset
<1> QED BY <1>1, <1>3, TakenCount, PointCount DEF TypeOK

LEMMA GatheringHolds ==
  ASSUME TypeOK, Ownership, Probing, Gathering, Next
  PROVE  Gathering'
<1> USE DEF TypeOK, Gathering
<1>0. \A s \in Drawn : s \in Slot /\ state[s] = 2 /\ state'[s] = 2 /\ keys'[s] = keys[s]
  BY TableGrows DEF Drawn, Published
<1>1. ASSUME UNCHANGED compaction,
             phase' \in {"compact", "done"} => \A p \in Point : pc'[p] \in Returned
      PROVE  Gathering'
  <2>1. Drawn' = Drawn /\ \A s \in Slot : cpc[s] = "end" => s \in Drawn
    BY <1>1 DEF Drawn, compaction
  <2>2. Drawn' \subseteq Published'
    BY <1>0, <2>1 DEF Published
  <2> QED BY <1>0, <1>1, <2>1, <2>2 DEF compaction
<1>2. ASSUME NEW p \in Point, Insert(p) PROVE Gathering'
  <2>1. phase' = "insert" /\ UNCHANGED compaction
    BY <1>2 DEF Insert, Claim, Meet, Pass, Compare, Write, Publish, At
  <2> QED BY <1>1, <2>1
<1>3. CASE InsertDone
  BY <1>1, <1>3 DEF InsertDone, thread
<1>4. ASSUME NEW s \in Slot, Draw(s) PROVE Gathering'
  <2>1. s \in Published /\ s \notin Drawn
    BY <1>4 DEF Draw, Drawn
  <2>2. counter + 1 <= Cardinality(Point) /\ Cardinality(Drawn \cup {s}) = counter + 1
    BY <2>1, RoomToDraw
  <2>3. counter < Cap
    BY DrawnCount
  <2>4. /\ idx' = [idx EXCEPT ![s] = counter] /\ counter' = counter + 1
        /\ cpc' = [cpc EXCEPT ![s] = "emit"]
        /\ UNCHANGED <<phase, pc, state, keys, outc>>
    BY <1>4, <2>3 DEF Draw, thread, table
  <2>5. Drawn' = Drawn \cup {s}
    BY <2>4 DEF Drawn
  <2>6. Drawn' \subseteq Published'
    BY <2>1, <2>4, <2>5 DEF Published
  <2>7. \A t \in Drawn : t # s /\ idx'[t] = idx[t] /\ idx[t] < counter
    BY <2>1, <2>4 DEF Drawn
  <2>8. idx'[s] = counter
    BY <2>4
  <2>9. \A t \in Drawn' : idx'[t] < counter'
    BY <2>4, <2>5, <2>7, <2>8 DEF Drawn
  <2>10. \A t, u \in Drawn' : idx'[t] = idx'[u] => t = u
    BY <2>5, <2>7, <2>8 DEF Drawn
  <2>11. ASSUME NEW i \in 0..(counter' - 1) PROVE \E t \in Drawn' : idx'[t] = i
    <3>1. CASE i = counter
      BY <2>5, <2>8, <3>1
    <3>2. CASE i \in 0..(counter - 1)
      BY <2>5, <2>7, <3>2
    <3> QED BY <2>4, <3>1, <3>2
  <2>12. \A t \in Slot : cpc'[t] = "end" => outc'[idx'[t]] = keys'[t]
    BY <2>4
  <2>13. phase' \in {"compact", "done"} => \A p \in Point : pc'[p] \in Returned
    BY <2>4
  <2>14. counter' = Cardinality(Drawn')
    BY <2>2, <2>4, <2>5
  <2> QED BY <2>6, <2>9, <2>10, <2>11, <2>12, <2>13, <2>14
<1>5. ASSUME NEW s \in Slot, Emit(s) PROVE Gathering'
  <2>1. /\ cpc[s] = "emit" /\ cpc' = [cpc EXCEPT ![s] = "end"]
        /\ outc' = [outc EXCEPT ![idx[s]] = keys[s]]
        /\ UNCHANGED <<phase, pc, state, keys, idx, counter>>
    BY <1>5 DEF Emit, thread, table
  <2>2. Drawn' = Drawn /\ s \in Drawn
    BY <2>1 DEF Drawn
  <2>3. idx[s] \in Slot
    <3>1. counter < Cap
      BY DrawnCount
    <3>2. idx[s] \in Nat /\ idx[s] < counter
      BY <2>2
    <3> QED BY <3>1, <3>2, TableAssumption DEF Slot
  <2>4. ASSUME NEW t \in Slot, cpc'[t] = "end" PROVE outc'[idx'[t]] = keys'[t]
    <3>1. CASE t = s
      BY <2>1, <2>3, <3>1
    <3>2. CASE t # s
      <4>1. cpc[t] = "end" /\ t \in Drawn
        BY <2>1, <2>4, <3>2 DEF Drawn
      <4>2. idx[t] # idx[s]
        BY <2>2, <3>2, <4>1
      <4> QED BY <2>1, <4>1, <4>2
    <3> QED BY <3>1, <3>2
  <2>5. Published' = Published
    BY <2>1 DEF Published
  <2> QED BY <2>1, <2>2, <2>4, <2>5
<1>6. CASE ReadBack
  BY <1>1, <1>6 DEF ReadBack, thread
<1>7. CASE Fail \/ Rest
  BY <1>1, <1>7 DEF Fail, Rest, vars, thread
<1> QED BY <1>2, <1>3, <1>4, <1>5, <1>6, <1>7 DEF Next

-----------------------------------------------------------------------------
(* The result *)

\* Once every thread has returned, the published keys are the voxels of the points.
LEMMA PublishedAreVoxels ==
  ASSUME TypeOK, Ownership, Probing, \A p \in Point : pc[p] \in Returned
  PROVE  {keys[s] : s \in Published} = {voxel[p] : p \in Point}
<1> USE DEF TypeOK, Returned
<1>1. ASSUME NEW p \in Point PROVE slot[p] \in Published /\ keys[slot[p]] = voxel[p]
  BY DEF Ownership, Probing, Published
<1>2. ASSUME NEW s \in Published PROVE \E p \in Point : keys[s] = voxel[p]
  BY DEF Ownership, Published, Claimed, Writers
<1> QED BY <1>1, <1>2

LEMMA ExactHolds ==
  ASSUME TypeOK, Ownership, Probing, Gathering, VoxelsExact, Next
  PROVE  VoxelsExact'
<1>1. CASE ReadBack
  <2>1. /\ phase = "compact" /\ \A s \in Published : cpc[s] = "end"
        /\ found' = {outc[i] : i \in 0..(Candidates - 1)} /\ voxel' = voxel
    BY <1>1 DEF ReadBack
  <2>2. Candidates = counter
    BY DrawnCount, PointCount DEF Candidates, TypeOK
  <2>3. Drawn = Published /\ \A s \in Published : outc[idx[s]] = keys[s]
    BY <2>1 DEF Drawn, Published, Gathering
  <2>4. \A s \in Published : idx[s] \in 0..(counter - 1)
    BY <2>3 DEF Gathering, TypeOK, Published
  <2>5. \A i \in 0..(counter - 1) : \E s \in Published : i = idx[s]
    BY <2>3 DEF Gathering
  <2>6. found' = {keys[s] : s \in Published}
    BY <2>1, <2>2, <2>3, <2>4, <2>5
  <2>7. found' = {voxel[p] : p \in Point}
    BY <2>1, <2>6, PublishedAreVoxels DEF Gathering
  <2> QED BY <2>1, <2>7 DEF VoxelsExact
<1>2. CASE phase' # "done"
  BY <1>2 DEF VoxelsExact
<1>3. CASE UNCHANGED vars
  BY <1>3 DEF VoxelsExact, vars
<1>4. ReadBack \/ phase' # "done" \/ UNCHANGED vars
  BY DEF Next, Insert, Claim, Meet, Pass, Compare, Write, Publish, At,
         InsertDone, Draw, Emit, Fail, Rest
<1> QED BY <1>1, <1>2, <1>3, <1>4

-----------------------------------------------------------------------------
(* The theorems *)

LEMMA InitInvariant == Init => TableInvariant
<1> SUFFICES ASSUME Init PROVE TableInvariant
  OBVIOUS
<1>1. TypeOK
  BY InitType
<1>2. Ownership
  BY DEF Init, Ownership, Claimed, Writers
<1>3. Probing
  <2>1. \A p \in Point : Home[voxel[p]] \in Slot
    BY TableAssumption DEF Init
  <2> QED BY <2>1, TableAssumption DEF Init, Probing, Nth, Slot
<1>4. Gathering
  <2>1. Drawn = {}
    BY DEF Init, Drawn
  <2> QED BY <2>1, FS_EmptySet DEF Init, Gathering
<1> QED BY <1>1, <1>2, <1>3, <1>4 DEF Init, TableInvariant, VoxelsExact

LEMMA NextInvariant == TableInvariant /\ [Next]_vars => TableInvariant'
<1> SUFFICES ASSUME TableInvariant, [Next]_vars PROVE TableInvariant'
  OBVIOUS
<1>1. CASE Next
  BY <1>1, TypeHolds, OwnershipHolds, ProbingHolds, GatheringHolds, ExactHolds DEF TableInvariant
<1>2. CASE UNCHANGED vars
  BY <1>2 DEF vars, thread, table, compaction, TableInvariant, TypeOK, Ownership, Probing, Nth,
              Gathering, Drawn, Published, VoxelsExact
<1> QED BY <1>1, <1>2

(***************************************************************************)
(* In every reachable state a slot that is not empty has one owner, a      *)
(* thread has probed occupied slots only and has some left, and the places *)
(* of the compaction are dense and apart.                                  *)
(***************************************************************************)
THEOREM TableHolds == Spec => []TableInvariant
  BY InitInvariant, NextInvariant, PTL DEF Spec

(* The call returns exactly the voxels of its points. *)
THEOREM ExactVoxels == Spec => []VoxelsExact
<1>1. TableInvariant => VoxelsExact
  BY DEF TableInvariant
<1> QED BY <1>1, TableHolds, PTL

(* No published slot ever changes. *)
THEOREM PublishedKept == Spec => PublishedStays
<1>1. TableInvariant /\ [Next]_vars
        => [\A s \in Published : state'[s] = 2 /\ keys'[s] = keys[s]]_vars
  BY TableGrows DEF TableInvariant
<1> QED BY <1>1, TableHolds, PTL DEF Spec, PublishedStays
=============================================================================
