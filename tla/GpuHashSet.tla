----------------------------- MODULE GpuHashSet -----------------------------
(***************************************************************************)
(* tvdb_gpu_voxelize_hashed of tinyvdb_gpu.c and its two kernels: one      *)
(* shader thread per point claims a slot of an open-addressing table for   *)
(* the voxel of its point (tinyvdb_gpu_hash_insert.comp, or the CUDA       *)
(* kernel), then one thread per slot copies the published keys to a dense  *)
(* list (tinyvdb_gpu_hash_compact.comp), which the host reads and rids of  *)
(* duplicates.  The threads of a kernel interleave at every access to      *)
(* shared memory; the compaction starts after every insertion has ended.   *)
(***************************************************************************)
EXTENDS Integers, FiniteSets

CONSTANTS
  Point,   \* the points, and the shader threads that insert them
  Key,     \* the voxels that points may be in
  Cap,     \* slots of the table
  Home     \* the slot a voxel hashes to, after the mask

Slot == 0..(Cap - 1)

\* cap = next_pow2(2 * n), and at least 16.
ASSUME TableAssumption ==
  /\ IsFiniteSet(Point) /\ Point # {}
  /\ Cap \in Nat /\ Cap >= 2 * Cardinality(Point)
  /\ Home \in [Key -> Slot]

VARIABLES
  phase,     \* the kernel that runs, or how the call ended
  voxel,     \* the voxel of each point
  pc,        \* the next step of each inserting thread, or how it ended
  slot,      \* its slot
  probe,     \* its count of probes
  state,     \* StateBuf: 0 empty, 1 being written, 2 published
  keys,      \* KeyBuf
  cpc,       \* the next step of each slot's compacting thread
  idx,       \* the place it drew from the counter
  counter,   \* CountBuf
  outc,      \* OutBuf
  found      \* the voxels the call returns

thread     == <<pc, slot, probe>>
table      == <<state, keys>>
compaction == <<cpc, idx, counter, outc>>
vars       == <<phase, voxel, thread, table, compaction, found>>

Writers  == {"write", "publish"}
Claimed  == Writers \cup {"inserted"}
Returned == {"inserted", "duplicate", "full"}

(***************************************************************************)
(* The host zeroes the states and the counter; the keys and the output are *)
(* whatever the fresh buffers hold.                                        *)
(***************************************************************************)
Init ==
  /\ phase = "insert"
  /\ voxel \in [Point -> Key]
  /\ pc = [p \in Point |-> "claim"]
  /\ slot = [p \in Point |-> Home[voxel[p]]]
  /\ probe = [p \in Point |-> 0]
  /\ state = [s \in Slot |-> 0]
  /\ \E rubbish \in Key : /\ keys = [s \in Slot |-> rubbish]
                          /\ outc = [s \in Slot |-> rubbish]
  /\ cpc = [s \in Slot |-> "start"]
  /\ idx = [s \in Slot |-> 0]
  /\ counter = 0
  /\ found = {}

-----------------------------------------------------------------------------
(* The insert kernel.                                                       *)

\* Mutant: the probe sequence does not move on.
NextSlotStuck(s) == s

\* (s + 1) & mask
NextSlot(s) == IF s = Cap - 1 THEN 0 ELSE s + 1

\* The slot is another voxel's, or not readable yet: on to the next, or out of the loop.
Advance(p) ==
  /\ probe' = [probe EXCEPT ![p] = @ + 1]
  /\ slot' = [slot EXCEPT ![p] = NextSlot(@)]
  /\ pc' = [pc EXCEPT ![p] = IF probe[p] + 1 < Cap THEN "claim" ELSE "full"]

At(p, step) == phase = "insert" /\ pc[p] = step

\* Mutant: the exchange is a plain store, which takes slots in mid-write as well.
ClaimRacy(p) ==
  /\ At(p, "claim") /\ state[slot[p]] # 2
  /\ state' = [state EXCEPT ![slot[p]] = 1]
  /\ pc' = [pc EXCEPT ![p] = "write"]
  /\ UNCHANGED <<phase, voxel, slot, probe, keys, compaction, found>>

\* The exchange from 0 to 1 succeeds: the slot is this thread's.
Claim(p) ==
  /\ At(p, "claim") /\ state[slot[p]] = 0
  /\ state' = [state EXCEPT ![slot[p]] = 1]
  /\ pc' = [pc EXCEPT ![p] = "write"]
  /\ UNCHANGED <<phase, voxel, slot, probe, keys, compaction, found>>

\* Mutant: a thread looks at a key in mid-write.
ReadableEarly == {1, 2}

\* States of a slot whose key a thread may read after its exchange failed.
Readable == {2}

\* The exchange fails on a published slot: its key is compared next.
Meet(p) ==
  /\ At(p, "claim") /\ state[slot[p]] # 0 /\ state[slot[p]] \in Readable
  /\ pc' = [pc EXCEPT ![p] = "compare"]
  /\ UNCHANGED <<phase, voxel, slot, probe, table, compaction, found>>

\* Mutant: a thread that meets a slot in mid-write waits for it.
PassSpinning(p) == At(p, "claim") /\ state[slot[p]] = 1 /\ UNCHANGED vars

\* The exchange fails on a slot in mid-write, whose key is never looked at.
Pass(p) ==
  /\ At(p, "claim") /\ state[slot[p]] # 0 /\ state[slot[p]] \notin Readable
  /\ Advance(p)
  /\ UNCHANGED <<phase, voxel, table, compaction, found>>

Compare(p) ==
  /\ At(p, "compare")
  /\ IF keys[slot[p]] = voxel[p]
     THEN pc' = [pc EXCEPT ![p] = "duplicate"] /\ UNCHANGED <<slot, probe>>
     ELSE Advance(p)
  /\ UNCHANGED <<phase, voxel, table, compaction, found>>

Write(p) ==
  /\ At(p, "write")
  /\ keys' = [keys EXCEPT ![slot[p]] = voxel[p]]
  /\ pc' = [pc EXCEPT ![p] = "publish"]
  /\ UNCHANGED <<phase, voxel, slot, probe, state, compaction, found>>

\* The barrier orders the key before the state.
Publish(p) ==
  /\ At(p, "publish")
  /\ state' = [state EXCEPT ![slot[p]] = 2]
  /\ pc' = [pc EXCEPT ![p] = "inserted"]
  /\ UNCHANGED <<phase, voxel, slot, probe, keys, compaction, found>>

Insert(p) == Claim(p) \/ Meet(p) \/ Pass(p) \/ Compare(p) \/ Write(p) \/ Publish(p)

\* The first dispatch ends when each of its threads has.
InsertDone ==
  /\ phase = "insert" /\ \A p \in Point : pc[p] \in Returned
  /\ phase' = "compact"
  /\ UNCHANGED <<voxel, thread, table, compaction, found>>

-----------------------------------------------------------------------------
(* The compact kernel.  The thread of a slot that is not published returns  *)
(* at once and has no step.                                                 *)

Published == {s \in Slot : state[s] = 2}

Draw(s) ==
  /\ phase = "compact" /\ s \in Published /\ cpc[s] = "start"
  /\ idx' = [idx EXCEPT ![s] = counter]
  /\ counter' = counter + 1
  /\ cpc' = [cpc EXCEPT ![s] = IF counter < Cap THEN "emit" ELSE "end"]
  /\ UNCHANGED <<phase, voxel, thread, table, outc, found>>

Emit(s) ==
  /\ phase = "compact" /\ cpc[s] = "emit"
  /\ outc' = [outc EXCEPT ![idx[s]] = keys[s]]
  /\ cpc' = [cpc EXCEPT ![s] = "end"]
  /\ UNCHANGED <<phase, voxel, thread, table, idx, counter, found>>

\* Candidates the host copies: no more than there are points.
Candidates == IF counter > Cardinality(Point) THEN Cardinality(Point) ELSE counter

\* The second dispatch has ended: the host reads the candidates and drops duplicates.
ReadBack ==
  /\ phase = "compact" /\ \A s \in Published : cpc[s] = "end"
  /\ found' = {outc[i] : i \in 0..(Candidates - 1)}
  /\ phase' = "done"
  /\ UNCHANGED <<voxel, thread, table, compaction>>

\* An allocation or a dispatch fails: the call returns its status and no list.
Fail ==
  /\ phase \in {"insert", "compact"}
  /\ phase' = "failed"
  /\ UNCHANGED <<voxel, thread, table, compaction, found>>

Rest == phase \in {"done", "failed"} /\ UNCHANGED vars

Next ==
  \/ \E p \in Point : Insert(p)
  \/ InsertDone
  \/ \E s \in Slot : Draw(s) \/ Emit(s)
  \/ ReadBack
  \/ Fail
  \/ Rest

Spec == Init /\ [][Next]_vars

-----------------------------------------------------------------------------
(* The inductive invariant.                                                 *)

TypeOK ==
  /\ phase \in {"insert", "compact", "done", "failed"}
  /\ voxel \in [Point -> Key]
  /\ pc \in [Point -> {"claim", "compare"} \cup Writers \cup Returned]
  /\ slot \in [Point -> Slot]
  /\ probe \in [Point -> 0..Cap]
  /\ state \in [Slot -> 0..2] /\ keys \in [Slot -> Key]
  /\ cpc \in [Slot -> {"start", "emit", "end"}] /\ idx \in [Slot -> Nat]
  /\ counter \in Nat /\ outc \in [Slot -> Key] /\ found \subseteq Key

\* A slot that is not empty has exactly one owner, whose progress its state and key tell.
Ownership ==
  /\ \A p \in Point : /\ pc[p] \in Writers => state[slot[p]] = 1
                      /\ pc[p] = "inserted" => state[slot[p]] = 2
                      /\ pc[p] \in {"publish", "inserted"} => keys[slot[p]] = voxel[p]
  /\ \A p, q \in Point :
        pc[p] \in Claimed /\ pc[q] \in Claimed /\ slot[p] = slot[q] => p = q
  /\ \A s \in Slot : state[s] # 0 => \E p \in Point : pc[p] \in Claimed /\ slot[p] = s

\* The i-th slot of the probe sequence of a voxel.
Nth(k, i) == IF Home[k] + i < Cap THEN Home[k] + i ELSE Home[k] + i - Cap

\* A thread has passed by occupied slots only, reads no key before it is
\* published, and never runs out of slots.
Probing ==
  \A p \in Point :
    /\ pc[p] # "full" /\ probe[p] < Cap
    /\ slot[p] = Nth(voxel[p], probe[p])
    /\ \A i \in 0..(probe[p] - 1) : state[Nth(voxel[p], i)] # 0
    /\ pc[p] \in {"compare", "duplicate"} => state[slot[p]] = 2
    /\ pc[p] = "duplicate" => keys[slot[p]] = voxel[p]

Drawn == {s \in Slot : cpc[s] # "start"}

\* The compaction hands out the places 0, 1, ... once each, to published slots,
\* and after it has started no thread inserts.
Gathering ==
  /\ Drawn \subseteq Published
  /\ counter = Cardinality(Drawn)
  /\ \A s \in Drawn : idx[s] < counter
  /\ \A s, t \in Drawn : idx[s] = idx[t] => s = t
  /\ \A i \in 0..(counter - 1) : \E s \in Drawn : idx[s] = i
  /\ \A s \in Slot : cpc[s] = "end" => outc[idx[s]] = keys[s]
  /\ phase \in {"compact", "done"} => \A p \in Point : pc[p] \in Returned

(***************************************************************************)
(* A call that returns TVDB_OK returns exactly the voxels of its points,   *)
(* however the threads that insert one voxel meet in the table             *)
(* ("exact regardless of any insertion race", tinyvdb_gpu.c).              *)
(***************************************************************************)
VoxelsExact == phase = "done" => found = {voxel[p] : p \in Point}

(* The table types, the ownership of slots, the probe sequences and the      *)
(* places of the compaction fit together in every interleaving of the kernels.*)
TableInvariant == TypeOK /\ Ownership /\ Probing /\ Gathering /\ VoxelsExact

(* A published slot keeps its key: what a thread compares with, and what the  *)
(* compaction copies, is never overwritten by a thread that claims later.     *)
PublishedStays ==
  [][\A s \in Published : state'[s] = 2 /\ keys'[s] = keys[s]]_vars

-----------------------------------------------------------------------------
(* Progress.  The invocations of a kernel have no fair scheduling among     *)
(* them: a workgroup may run only after another ended.  Only the thread     *)
(* named here is scheduled.                                                 *)

CONSTANT Watched
ASSUME WatchedAssumption == Watched \in Point

FairSpec == Spec /\ WF_vars(Insert(Watched))

(* A thread ends its insertion whatever the other threads do or leave undone, *)
(* a writer that never publishes included: it probes past, it never spins.    *)
WaitFree ==
  <>(phase = "failed" \/ pc[Watched] \in {"inserted", "duplicate"})

=============================================================================
