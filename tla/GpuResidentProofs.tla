------------------------- MODULE GpuResidentProofs --------------------------
(***************************************************************************)
(* The owners, the contents and the outcome of the operations on resident  *)
(* grids, proved for any handles, buffers, topologies and iterations.      *)
(***************************************************************************)
EXTENDS GpuResidentInvariants, FiniteSetTheorems, SequenceTheorems, WellFoundedInduction, TLAPS

USE ResidentAssumption

-----------------------------------------------------------------------------
(* Cells, slots and what is free.                                          *)

LEMMA NoCell == None \notin Cell /\ None \notin Slot /\ None \notin Dense /\ Cell \subseteq Nat
  BY DEF Cell, Slot

LEMMA SlotsFinite == IsFiniteSet(Slot)
<1>1. IsFiniteSet(Local)
  <2>1. \A x : IsFiniteSet({x})
    BY FS_Singleton
  <2>2. Local = {"g"} \cup {"cand"} \cup {"flags"} \cup {"weights"} \cup {"next"} \cup {"tmp"}
                  \cup {"source"} \cup {"marks"}
    BY DEF Local
  <2> QED BY <2>1, <2>2, FS_Union
<1> QED BY <1>1, FS_Union DEF Slot

\* The least free cell is a free cell.
LEMMA MinFree ==
  ASSUME NEW C \in SUBSET Cell, Free(C) # {}
  PROVE  Min(Free(C)) \in C /\ data[Min(Free(C))] = "free"
<1>1. Free(C) \subseteq C /\ Free(C) \subseteq Nat /\ \A c \in Free(C) : data[c] = "free"
  BY NoCell DEF Free
<1>2. PICK c \in Free(C) : \A b \in Free(C) : ~ (<<b, c>> \in OpToRel(<, Nat))
  BY <1>1, NatLessThanWellFounded, WFMin
<1>3. ASSUME NEW b \in Free(C) PROVE c <= b
  <2>1. ~ (b < c)
    BY <1>1, <1>2 DEF OpToRel
  <2> QED BY <1>1, <2>1
<1>4. Min(Free(C)) \in Free(C)
  BY <1>3 DEF Min
<1> QED BY <1>1, <1>4

-----------------------------------------------------------------------------
(* Owners, as functions of what the slots and the dense grids own.         *)

OwnersIn(o, t, S) == {s \in S : o[s].topology = t}

\* BuffersExact and TopologiesExact of any owners o, dense grids dn, contents a and counts r.
OneOwner(o, dn) ==
  /\ \A s, u \in Slot : o[s].values = o[u].values /\ o[s].values # None => s = u
  /\ \A d, e \in Dense, k, l \in 0..2 : dn[d][k] = dn[e][l] /\ dn[d][k] # None => d = e /\ k = l
  /\ \A s \in Slot, d \in Dense, k \in 0..2 : o[s].values = dn[d][k] => o[s].values = None

OwnedBuffer(o, dn, b) ==
  (\E s \in Slot : o[s].values = b) \/ (\E d \in Dense, k \in 0..2 : dn[d][k] = b)

Exact(o, dn, a, r) ==
  /\ o \in OwnType /\ dn \in DenseType /\ r \in [Topology -> Nat]
  /\ a \in DataType
  /\ OneOwner(o, dn)
  /\ \A b \in Buffer : a[b] # "free" <=> OwnedBuffer(o, dn, b)
  /\ \A t \in Topology : r[t] = Cardinality(OwnersIn(o, t, Slot)) /\ (a[t] = "free" <=> r[t] = 0)

LEMMA ExactIs ==
  (TypeOK /\ BuffersExact /\ TopologiesExact) => Exact(own, dense, data, refs)
BY DEF TypeOK, BuffersExact, TopologiesExact, Exact, OneOwner, OwnedBuffer, OwnersIn, Owners, Cell

LEMMA ExactGives ==
  Exact(own, dense, data, refs) => BuffersExact /\ TopologiesExact
BY DEF BuffersExact, TopologiesExact, Exact, OneOwner, OwnedBuffer, OwnersIn, Owners

LEMMA ExactGivesNext ==
  Exact(own', dense', data', refs') => BuffersExact' /\ TopologiesExact'
BY DEF BuffersExact, TopologiesExact, Exact, OneOwner, OwnedBuffer, OwnersIn, Owners

LEMMA GridParts ==
  ASSUME NEW o \in OwnType, NEW s \in Slot
  PROVE  /\ o[s] \in GridType /\ o[s].topology \in Topology \cup {None} /\ o[s].values \in Buffer \cup {None}
         /\ o[s] = Empty <=> o[s].topology = None /\ o[s].values = None
<1>1. o[s] \in GridType
  BY DEF OwnType
<1>2. o[s] = [topology |-> o[s].topology, values |-> o[s].values]
  BY <1>1 DEF GridType
<1> QED BY <1>1, <1>2 DEF GridType, Empty

LEMMA EmptyIs == Empty \in GridType /\ Empty.topology = None /\ Empty.values = None
  BY DEF Empty, GridType

\* The owners of a topology are finitely many, and what the numbers of owners mean.
LEMMA OwnersFinite ==
  ASSUME NEW o, NEW t, NEW S \in SUBSET Slot
  PROVE  /\ IsFiniteSet(OwnersIn(o, t, S)) /\ Cardinality(OwnersIn(o, t, S)) \in Nat
         /\ Cardinality(OwnersIn(o, t, S)) = 0 <=> OwnersIn(o, t, S) = {}
<1>1. IsFiniteSet(OwnersIn(o, t, S))
  BY SlotsFinite, FS_Subset DEF OwnersIn
<1> QED BY <1>1, FS_EmptySet, FS_CardinalityType

\* A topology counted once has one owner.
LEMMA CountedOnce ==
  ASSUME NEW o, NEW dn, NEW a, NEW r, Exact(o, dn, a, r), NEW s \in Slot, NEW u \in Slot,
         o[s].topology = o[u].topology, o[s].topology # None, r[o[s].topology] = 1
  PROVE  s = u
<1>1. PICK t \in Topology : t = o[s].topology
  BY GridParts DEF Exact
<1>2. Cardinality(OwnersIn(o, t, Slot)) = 1 /\ IsFiniteSet(OwnersIn(o, t, Slot))
  BY <1>1, OwnersFinite DEF Exact
<1>3. PICK x : OwnersIn(o, t, Slot) = {x}
  BY <1>2, FS_Singleton
<1>4. s \in OwnersIn(o, t, Slot) /\ u \in OwnersIn(o, t, Slot)
  BY <1>1 DEF OwnersIn
<1> QED BY <1>3, <1>4

\* What is owned is allocated.
LEMMA OwnedLives ==
  ASSUME NEW o, NEW dn, NEW a, NEW r, Exact(o, dn, a, r)
  PROVE  /\ \A s \in Slot : o[s].values # None => o[s].values \in Buffer /\ a[o[s].values] # "free"
         /\ \A s \in Slot : o[s].topology # None =>
              o[s].topology \in Topology /\ a[o[s].topology] # "free" /\ r[o[s].topology] \in Nat \ {0}
         /\ \A d \in Dense, k \in 0..2 : dn[d][k] # None => dn[d][k] \in Buffer /\ a[dn[d][k]] # "free"
<1>1. ASSUME NEW s \in Slot, o[s].values # None
      PROVE  o[s].values \in Buffer /\ a[o[s].values] # "free"
  BY <1>1, GridParts DEF Exact, OwnedBuffer
<1>2. ASSUME NEW s \in Slot, o[s].topology # None
      PROVE  o[s].topology \in Topology /\ a[o[s].topology] # "free" /\ r[o[s].topology] \in Nat \ {0}
  <2>1. PICK t \in Topology : t = o[s].topology
    BY <1>2, GridParts DEF Exact
  <2>2. s \in OwnersIn(o, t, Slot)
    BY <2>1 DEF OwnersIn
  <2>3. Cardinality(OwnersIn(o, t, Slot)) # 0 /\ Cardinality(OwnersIn(o, t, Slot)) \in Nat
    BY <2>2, OwnersFinite
  <2> QED BY <2>1, <2>3 DEF Exact
<1>3. ASSUME NEW d \in Dense, NEW k \in 0..2, dn[d][k] # None
      PROVE  dn[d][k] \in Buffer /\ a[dn[d][k]] # "free"
  <2>1. dn[d][k] \in Buffer
    BY <1>3 DEF Exact, DenseType
  <2> QED BY <1>3, <2>1 DEF Exact, OwnedBuffer
<1> QED BY <1>1, <1>2, <1>3

-----------------------------------------------------------------------------
(* How ownership moves.                                                    *)

\* Contents change and nothing is allocated or freed.
LEMMA ContentsChange ==
  ASSUME NEW o, NEW dn, NEW a, NEW r, Exact(o, dn, a, r),
         NEW a2 \in DataType,
         \A c \in Cell : a2[c] = "free" <=> a[c] = "free"
  PROVE  Exact(o, dn, a2, r)
BY DEF Exact, Cell

\* A slot gets a free buffer.
LEMMA TakeValues ==
  ASSUME NEW o, NEW dn, NEW a, NEW r, Exact(o, dn, a, r), NEW s \in Slot, o[s].values = None,
         NEW b \in Buffer, a[b] = "free",
         NEW o2 \in OwnType, o2[s].values = b, o2[s].topology = o[s].topology,
         \A u \in Slot : u # s => o2[u] = o[u],
         NEW a2 \in DataType, a2[b] # "free",
         \A c \in Cell : c # b => a2[c] = a[c]
  PROVE  Exact(o2, dn, a2, r)
<1>0. None \notin Cell /\ b \in Cell /\ b # None /\ b \notin Topology
  BY NoCell DEF Cell
<1>1. ~ OwnedBuffer(o, dn, b)
  BY DEF Exact
<1>2. OneOwner(o2, dn)
  BY <1>0, <1>1 DEF Exact, OneOwner, OwnedBuffer
<1>3. \A c \in Buffer : a2[c] # "free" <=> OwnedBuffer(o2, dn, c)
  <2>1. ASSUME NEW c \in Buffer, c # b
        PROVE  OwnedBuffer(o2, dn, c) <=> OwnedBuffer(o, dn, c)
    BY <1>0, <2>1, NoCell DEF OwnedBuffer, Cell
  <2>2. OwnedBuffer(o2, dn, b)
    BY DEF OwnedBuffer
  <2> QED BY <2>1, <2>2 DEF Exact, Cell
<1>4. ASSUME NEW t \in Topology
      PROVE  OwnersIn(o2, t, Slot) = OwnersIn(o, t, Slot) /\ a2[t] = a[t]
  BY <1>0 DEF OwnersIn, Cell
<1> QED BY <1>2, <1>3, <1>4 DEF Exact

\* A dense grid gets a free buffer.
LEMMA TakeScratch ==
  ASSUME NEW o, NEW dn, NEW a, NEW r, Exact(o, dn, a, r), NEW d \in Dense, NEW k \in 0..2, dn[d][k] = None,
         NEW b \in Buffer, a[b] = "free",
         NEW dn2 \in DenseType, dn2[d][k] = b,
         \A e \in Dense, l \in 0..2 : e # d \/ l # k => dn2[e][l] = dn[e][l],
         NEW a2 \in DataType, a2[b] # "free",
         \A c \in Cell : c # b => a2[c] = a[c]
  PROVE  Exact(o, dn2, a2, r)
<1>0. None \notin Cell /\ b \in Cell /\ b # None /\ b \notin Topology
  BY NoCell DEF Cell
<1>1. ~ OwnedBuffer(o, dn, b)
  BY DEF Exact
<1>2. OneOwner(o, dn2)
  BY <1>0, <1>1 DEF Exact, OneOwner, OwnedBuffer
<1>3. \A c \in Buffer : a2[c] # "free" <=> OwnedBuffer(o, dn2, c)
  <2>1. ASSUME NEW c \in Buffer, c # b
        PROVE  OwnedBuffer(o, dn2, c) <=> OwnedBuffer(o, dn, c)
    BY <1>0, <2>1, NoCell DEF OwnedBuffer, Cell
  <2>2. OwnedBuffer(o, dn2, b)
    BY DEF OwnedBuffer
  <2> QED BY <2>1, <2>2 DEF Exact, Cell
<1>4. ASSUME NEW t \in Topology
      PROVE  a2[t] = a[t]
  BY <1>0 DEF Cell
<1> QED BY <1>2, <1>3, <1>4 DEF Exact

\* The owners of a topology when one slot takes it.
LEMMA OwnersGrow ==
  ASSUME NEW o \in OwnType, NEW o2 \in OwnType, NEW s \in Slot, NEW t \in Topology, o[s].topology = None,
         o2[s].topology = t, o2[s].values = o[s].values, \A u \in Slot : u # s => o2[u] = o[u]
  PROVE  /\ Cardinality(OwnersIn(o2, t, Slot)) = Cardinality(OwnersIn(o, t, Slot)) + 1
         /\ \A x \in Topology : x # t => OwnersIn(o2, x, Slot) = OwnersIn(o, x, Slot)
<1>0. None \notin Topology
  BY NoCell DEF Cell
<1>1. OwnersIn(o2, t, Slot) = OwnersIn(o, t, Slot) \cup {s} /\ s \notin OwnersIn(o, t, Slot)
  BY <1>0 DEF OwnersIn
<1>2. IsFiniteSet(OwnersIn(o, t, Slot))
  BY OwnersFinite
<1>3. ASSUME NEW x \in Topology, x # t PROVE OwnersIn(o2, x, Slot) = OwnersIn(o, x, Slot)
  BY <1>0, <1>3 DEF OwnersIn
<1>4. PICK S : S = OwnersIn(o, t, Slot)
  OBVIOUS
<1>5. Cardinality(S \cup {s}) = Cardinality(S) + 1
  BY <1>1, <1>2, <1>4, FS_AddElement
<1> QED BY <1>1, <1>3, <1>4, <1>5

\* A slot gets a free topology, or shares one.
LEMMA TakeTopology ==
  ASSUME NEW o, NEW dn, NEW a, NEW r, Exact(o, dn, a, r), NEW s \in Slot, o[s].topology = None,
         NEW t \in Topology,
         NEW o2 \in OwnType, o2[s].topology = t, o2[s].values = o[s].values,
         \A u \in Slot : u # s => o2[u] = o[u],
         NEW a2 \in DataType, a2[t] # "free",
         \A c \in Cell : c # t => a2[c] = a[c],
         NEW r2 \in [Topology -> Nat], r2[t] = r[t] + 1, \A x \in Topology : x # t => r2[x] = r[x]
  PROVE  Exact(o2, dn, a2, r2)
<1>0. t \in Cell /\ t \notin Buffer
  BY DEF Cell
<1>1. OneOwner(o2, dn)
  BY DEF Exact, OneOwner
<1>2. \A c \in Buffer : (a2[c] # "free" <=> OwnedBuffer(o2, dn, c))
  <2>1. ASSUME NEW c \in Buffer
        PROVE  (OwnedBuffer(o2, dn, c) <=> OwnedBuffer(o, dn, c)) /\ a2[c] = a[c]
    BY <1>0 DEF OwnedBuffer, Cell
  <2> QED BY <2>1 DEF Exact
<1>3. o \in OwnType /\ r[t] \in Nat
  BY DEF Exact
<1>4. ASSUME NEW x \in Topology
      PROVE  r2[x] = Cardinality(OwnersIn(o2, x, Slot)) /\ (a2[x] = "free" <=> r2[x] = 0)
  <2>1. CASE x = t
    BY <1>3, <2>1, OwnersGrow DEF Exact
  <2>2. CASE x # t
    <3>1. OwnersIn(o2, x, Slot) = OwnersIn(o, x, Slot) /\ a2[x] = a[x] /\ r2[x] = r[x]
      BY <1>3, <2>2, OwnersGrow DEF Cell
    <3> QED BY <3>1 DEF Exact
  <2> QED BY <2>1, <2>2
<1> QED BY <1>1, <1>2, <1>4 DEF Exact

\* The topologies that go with the slots S, and the counts without them.
Left(o, r, S) == [t \in Topology |-> r[t] - Cardinality(OwnersIn(o, t, S))]
Last(o, r, S) == {t \in Topology : r[t] # 0 /\ Left(o, r, S)[t] = 0}
Gone(o, r, S) == Last(o, r, S) \cup {o[s].values : s \in S}
Freed(a, C)   == [c \in Cell |-> IF c \in C THEN "free" ELSE a[c]]

\* The owners of a topology without the slots S.
LEMMA OwnersShrink ==
  ASSUME NEW o \in OwnType, NEW t \in Topology, NEW S \in SUBSET Slot,
         NEW o2 \in OwnType, \A s \in S : o2[s] = Empty, \A u \in Slot \ S : o2[u] = o[u]
  PROVE  /\ Cardinality(OwnersIn(o2, t, Slot)) = Cardinality(OwnersIn(o, t, Slot)) - Cardinality(OwnersIn(o, t, S))
         /\ Cardinality(OwnersIn(o, t, S)) <= Cardinality(OwnersIn(o, t, Slot))
         /\ Cardinality(OwnersIn(o, t, S)) \in Nat
<1>0. None \notin Topology
  BY NoCell DEF Cell
<1> DEFINE A == OwnersIn(o, t, Slot)
           B == OwnersIn(o, t, S)
<1>a. IsFiniteSet(A) /\ IsFiniteSet(B)
  BY OwnersFinite
<1>b. B \subseteq A
  BY DEF OwnersIn
<1>1. IsFiniteSet(A) /\ IsFiniteSet(B) /\ B \subseteq A
  BY <1>a, <1>b
<1>2. OwnersIn(o2, t, Slot) = A \ B
  BY <1>0, EmptyIs DEF OwnersIn
<1>3. Cardinality(A \ B) = Cardinality(A) - Cardinality(A \cap B) /\ A \cap B = B
  BY <1>1, FS_Difference
<1>4. Cardinality(B) <= Cardinality(A)
  BY <1>1, FS_Subset
<1> QED BY <1>2, <1>3, <1>4, OwnersFinite

\* Slots are emptied: counts go down, the last owner and the owner of values free them.
LEMMA Emptied ==
  ASSUME NEW o, NEW dn, NEW a, NEW r, Exact(o, dn, a, r), NEW S \in SUBSET Slot,
         NEW o2 \in OwnType, \A s \in S : o2[s] = Empty, \A u \in Slot \ S : o2[u] = o[u]
  PROVE  Exact(o2, dn, Freed(a, Gone(o, r, S)), Left(o, r, S))
<1> DEFINE r2 == Left(o, r, S)
           a2 == Freed(a, Gone(o, r, S))
<1>0. None \notin Cell /\ Buffer \cap Topology = {} /\ o \in OwnType /\ r \in [Topology -> Nat]
  BY NoCell DEF Exact
<1>a. \A t \in Topology : r[t] = Cardinality(OwnersIn(o, t, Slot)) /\ (a[t] = "free" <=> r[t] = 0)
  BY DEF Exact
<1>1. ASSUME NEW t \in Topology
      PROVE  r2[t] \in Nat /\ r2[t] = Cardinality(OwnersIn(o2, t, Slot)) /\ r2[t] <= r[t]
  <2>1. r2[t] = r[t] - Cardinality(OwnersIn(o, t, S)) /\ r[t] = Cardinality(OwnersIn(o, t, Slot)) /\ r[t] \in Nat
    BY <1>0, <1>a DEF Left
  <2>2. /\ Cardinality(OwnersIn(o2, t, Slot)) = Cardinality(OwnersIn(o, t, Slot)) - Cardinality(OwnersIn(o, t, S))
        /\ Cardinality(OwnersIn(o, t, S)) <= Cardinality(OwnersIn(o, t, Slot))
        /\ Cardinality(OwnersIn(o, t, S)) \in Nat
    BY <1>0, OwnersShrink
  <2> QED BY <2>1, <2>2
<1>2. r2 \in [Topology -> Nat]
  BY <1>1 DEF Left
<1>3. a2 \in DataType
  BY DEF Exact, Freed, DataType
<1>4. ASSUME NEW t \in Topology
      PROVE  a2[t] = "free" <=> r2[t] = 0
  <2>1. t \in Cell /\ (t \in Gone(o, r, S) <=> r[t] # 0 /\ r2[t] = 0)
    <3>1. \A s \in S : o[s].values # t
      BY <1>0, GridParts DEF Cell
    <3>2. t \in Cell
      BY DEF Cell
    <3>3. t \in Last(o, r, S) <=> r[t] # 0 /\ r2[t] = 0
      BY DEF Last
    <3> QED BY <3>1, <3>2, <3>3 DEF Gone
  <2>2. a2[t] = IF r[t] # 0 /\ r2[t] = 0 THEN "free" ELSE a[t]
    BY <2>1 DEF Freed
  <2>3. r[t] \in Nat /\ r2[t] \in Nat /\ r2[t] <= r[t] /\ (a[t] = "free" <=> r[t] = 0)
    BY <1>0, <1>1, <1>a
  <2> QED BY <2>2, <2>3
<1>5. OneOwner(o2, dn)
  <2>1. \A s \in Slot : o2[s].values = None \/ (s \notin S /\ o2[s] = o[s])
    BY EmptyIs
  <2> QED BY <2>1 DEF Exact, OneOwner
<1>6. ASSUME NEW b \in Buffer
      PROVE  a2[b] # "free" <=> OwnedBuffer(o2, dn, b)
  <2>1. b \in Cell /\ b # None /\ b \notin Last(o, r, S)
    BY <1>0 DEF Cell, Last
  <2>2. CASE \E s \in S : o[s].values = b
    <3>1. PICK s \in S : o[s].values = b
      BY <2>2
    <3>2. a2[b] = "free"
      BY <2>1, <3>1 DEF Freed, Gone
    <3>3. \A u \in Slot : o[u].values = b => u = s
      BY <2>1, <3>1 DEF Exact, OneOwner
    <3>4. \A d \in Dense, k \in 0..2 : dn[d][k] # b
      BY <2>1, <3>1 DEF Exact, OneOwner
    <3>5. \A u \in Slot : o2[u].values # b
      BY <2>1, <3>1, <3>3, EmptyIs
    <3> QED BY <3>2, <3>4, <3>5 DEF OwnedBuffer
  <2>3. CASE ~ \E s \in S : o[s].values = b
    <3>1. a2[b] = a[b]
      BY <2>1, <2>3 DEF Freed, Gone
    <3>2. OwnedBuffer(o2, dn, b) <=> OwnedBuffer(o, dn, b)
      BY <2>1, <2>3, EmptyIs DEF OwnedBuffer
    <3> QED BY <3>1, <3>2 DEF Exact
  <2> QED BY <2>2, <2>3
<1> QED BY <1>1, <1>2, <1>3, <1>4, <1>5, <1>6 DEF Exact

\* What the others own stays as it was.
LEMMA Spared ==
  ASSUME NEW o, NEW dn, NEW a, NEW r, Exact(o, dn, a, r), NEW S \in SUBSET Slot,
         NEW a2, a2 = Freed(a, Gone(o, r, S)), NEW r2, r2 = Left(o, r, S)
  PROVE  /\ \A u \in Slot \ S : o[u].topology # None => a2[o[u].topology] = a[o[u].topology]
         /\ \A u \in Slot \ S : o[u].topology # None /\ r[o[u].topology] = 1 => r2[o[u].topology] = 1
         /\ \A u \in Slot \ S : o[u].values # None => a2[o[u].values] = a[o[u].values]
         /\ \A d \in Dense, k \in 0..2 : dn[d][k] # None => a2[dn[d][k]] = a[dn[d][k]]
<1>0. o \in OwnType /\ r \in [Topology -> Nat] /\ Buffer \cap Topology = {} /\ None \notin Cell
  BY NoCell DEF Exact
<1>1. ASSUME NEW u \in Slot \ S, o[u].topology # None
      PROVE  /\ a2[o[u].topology] = a[o[u].topology]
             /\ r[o[u].topology] = 1 => r2[o[u].topology] = 1
  <2>1. PICK t \in Topology : t = o[u].topology
    BY <1>0, <1>1, GridParts
  <2>2. PICK o2 \in OwnType : (\A s \in S : o2[s] = Empty) /\ (\A v \in Slot \ S : o2[v] = o[v])
    <3>1. [v \in Slot |-> IF v \in S THEN Empty ELSE o[v]] \in OwnType
      BY <1>0, EmptyIs DEF OwnType
    <3> QED BY <3>1
  <2>3. Exact(o2, dn, a2, r2)
    BY <2>2, Emptied
  <2>4. r2[t] \in Nat \ {0} /\ a2[t] # "free"
    BY <2>1, <2>2, <2>3, OwnedLives
  <2>5. t \in Cell /\ (a2[t] = a[t] \/ a2[t] = "free")
    BY DEF Cell, Freed
  <2>6. r2[t] = r[t] - Cardinality(OwnersIn(o, t, S)) /\ Cardinality(OwnersIn(o, t, S)) \in Nat
    BY OwnersFinite DEF Left
  <2>7. r[t] \in Nat
    BY <1>0
  <2> QED BY <2>1, <2>4, <2>5, <2>6, <2>7
<1>2. ASSUME NEW b \in Buffer, \A s \in S : o[s].values # b
      PROVE  a2[b] = a[b]
  BY <1>0, <1>2 DEF Freed, Gone, Last, Cell
<1>3. ASSUME NEW u \in Slot \ S, o[u].values # None
      PROVE  a2[o[u].values] = a[o[u].values]
  <2>1. o[u].values \in Buffer /\ \A s \in S : o[s].values # o[u].values
    BY <1>0, <1>3, GridParts DEF Exact, OneOwner
  <2> QED BY <1>2, <2>1
<1>4. ASSUME NEW d \in Dense, NEW k \in 0..2, dn[d][k] # None
      PROVE  a2[dn[d][k]] = a[dn[d][k]]
  <2>0. dn[d][k] \in Buffer
    BY <1>4, OwnedLives
  <2>1. \A s \in S : o[s].values # dn[d][k]
    BY <1>4 DEF Exact, OneOwner
  <2> QED BY <1>2, <2>0, <2>1
<1> QED BY <1>1, <1>3, <1>4

\* A slot hands over to an empty one.
LEMMA Moved ==
  ASSUME NEW o, NEW dn, NEW a, NEW r, Exact(o, dn, a, r), NEW s \in Slot, NEW to \in Slot, s # to,
         o[to] = Empty, NEW o2 \in OwnType, o2[to] = o[s], o2[s] = Empty,
         \A u \in Slot : u # s /\ u # to => o2[u] = o[u]
  PROVE  Exact(o2, dn, a, r)
<1>0. None \notin Cell /\ o \in OwnType /\ Empty.topology = None /\ Empty.values = None
  BY NoCell, EmptyIs DEF Exact
<1>1. OneOwner(o2, dn)
  BY <1>0 DEF Exact, OneOwner
<1>2. ASSUME NEW b \in Buffer
      PROVE  OwnedBuffer(o2, dn, b) <=> OwnedBuffer(o, dn, b)
  <2>1. b # None
    BY <1>0 DEF Cell
  <2> QED BY <1>0, <2>1 DEF OwnedBuffer
<1>3. ASSUME NEW t \in Topology
      PROVE  Cardinality(OwnersIn(o2, t, Slot)) = Cardinality(OwnersIn(o, t, Slot))
  <2>0. t # None
    BY <1>0 DEF Cell
  <2>1. CASE o[s].topology = t
    <3> DEFINE R == OwnersIn(o, t, Slot) \ {s}
    <3>1. OwnersIn(o, t, Slot) = R \cup {s} /\ s \notin R
      BY <2>1 DEF OwnersIn
    <3>2. OwnersIn(o2, t, Slot) = R \cup {to} /\ to \notin R
      BY <1>0, <2>0, <2>1 DEF OwnersIn
    <3>3. IsFiniteSet(R)
      BY OwnersFinite, FS_Subset
    <3> HIDE DEF R
    <3>4. Cardinality(R \cup {s}) = Cardinality(R) + 1
      BY <3>1, <3>3, FS_AddElement
    <3>5. Cardinality(R \cup {to}) = Cardinality(R) + 1
      BY <3>2, <3>3, FS_AddElement
    <3> QED BY <3>1, <3>2, <3>4, <3>5
  <2>2. CASE o[s].topology # t
    <3>1. OwnersIn(o2, t, Slot) = OwnersIn(o, t, Slot)
      BY <1>0, <2>0, <2>2 DEF OwnersIn
    <3> QED BY <3>1
  <2> QED BY <2>1, <2>2
<1> QED BY <1>1, <1>2, <1>3 DEF Exact

\* A dense grid exchanges its values and a scratch buffer.
LEMMA Exchanged ==
  ASSUME NEW o, NEW dn, NEW a, NEW r, Exact(o, dn, a, r), NEW d \in Dense, NEW k \in 1..2,
         NEW dn2 \in DenseType, dn2[d][0] = dn[d][k], dn2[d][k] = dn[d][0],
         \A e \in Dense, l \in 0..2 : e # d \/ (l # 0 /\ l # k) => dn2[e][l] = dn[e][l]
  PROVE  Exact(o, dn2, a, r)
<1>0. k \in 0..2 /\ 0 \in 0..2 /\ k # 0
  OBVIOUS
<1>1. OneOwner(o, dn2)
  BY <1>0 DEF Exact, OneOwner
<1>2. ASSUME NEW b \in Buffer
      PROVE  OwnedBuffer(o, dn2, b) <=> OwnedBuffer(o, dn, b)
  BY <1>0 DEF OwnedBuffer
<1> QED BY <1>1, <1>2 DEF Exact

\* A slot's values take the place of another's, which are freed.
LEMMA Swapped ==
  ASSUME NEW o, NEW dn, NEW a, NEW r, Exact(o, dn, a, r), NEW s \in Slot, NEW to \in Slot, s # to,
         o[s].topology = None,
         NEW o2 \in OwnType, o2[to].values = o[s].values, o2[to].topology = o[to].topology, o2[s] = Empty,
         \A u \in Slot : u # s /\ u # to => o2[u] = o[u],
         NEW a2, a2 = Freed(a, {o[to].values})
  PROVE  Exact(o2, dn, a2, r)
<1>0. None \notin Cell /\ Empty.topology = None /\ Empty.values = None /\ o \in OwnType
  BY NoCell, EmptyIs DEF Exact
<1>1. OneOwner(o2, dn)
  BY <1>0 DEF Exact, OneOwner
<1>2. ASSUME NEW b \in Buffer
      PROVE  a2[b] # "free" <=> OwnedBuffer(o2, dn, b)
  <2>1. b # None /\ b \in Cell
    BY <1>0 DEF Cell
  <2>2. CASE b = o[to].values
    <3>1. a2[b] = "free"
      BY <2>1, <2>2 DEF Freed
    <3>2. \A u \in Slot : o2[u].values # b
      BY <1>0, <2>1, <2>2 DEF Exact, OneOwner
    <3>3. \A d \in Dense, k \in 0..2 : dn[d][k] # b
      BY <2>1, <2>2 DEF Exact, OneOwner
    <3> QED BY <3>1, <3>2, <3>3 DEF OwnedBuffer
  <2>3. CASE b # o[to].values
    <3>1. a2[b] = a[b]
      BY <2>1, <2>3 DEF Freed
    <3>2. OwnedBuffer(o2, dn, b) <=> OwnedBuffer(o, dn, b)
      BY <1>0, <2>1, <2>3 DEF OwnedBuffer
    <3> QED BY <3>1, <3>2 DEF Exact
  <2> QED BY <2>2, <2>3
<1>3. ASSUME NEW t \in Topology
      PROVE  OwnersIn(o2, t, Slot) = OwnersIn(o, t, Slot) /\ a2[t] = a[t]
  <2>1. t # None /\ t \in Cell /\ t # o[to].values
    BY <1>0, GridParts DEF Cell
  <2>2. \A u \in Slot : o2[u].topology = t <=> o[u].topology = t
    BY <1>0, <2>1
  <2>3. OwnersIn(o2, t, Slot) = OwnersIn(o, t, Slot)
    BY <2>2 DEF OwnersIn
  <2>4. a2[t] = a[t]
    BY <2>1 DEF Freed
  <2> QED BY <2>3, <2>4
<1>4. a2 \in DataType
  BY DEF Exact, Freed, DataType
<1> QED BY <1>1, <1>2, <1>3, <1>4 DEF Exact

\* A dense grid goes with its buffers.
LEMMA DenseGone ==
  ASSUME NEW o, NEW dn, NEW a, NEW r, Exact(o, dn, a, r), NEW d \in Dense,
         NEW dn2 \in DenseType, dn2[d] = NoGrid, \A e \in Dense : e # d => dn2[e] = dn[e],
         NEW a2, a2 = Freed(a, {dn[d][k] : k \in 0..2})
  PROVE  Exact(o, dn2, a2, r)
<1>0. None \notin Cell /\ \A k \in 0..2 : NoGrid[k] = None
  BY NoCell DEF NoGrid
<1>1. OneOwner(o, dn2)
  <2>1. \A e \in Dense, k \in 0..2 : dn2[e][k] = None \/ (e # d /\ dn2[e][k] = dn[e][k])
    BY <1>0
  <2> QED BY <2>1 DEF Exact, OneOwner
<1>2. ASSUME NEW b \in Buffer
      PROVE  a2[b] # "free" <=> OwnedBuffer(o, dn2, b)
  <2>1. b # None /\ b \in Cell
    BY <1>0 DEF Cell
  <2>2. CASE \E k \in 0..2 : dn[d][k] = b
    <3>1. a2[b] = "free"
      BY <2>1, <2>2 DEF Freed
    <3>2. \A u \in Slot : o[u].values # b
      BY <2>1, <2>2 DEF Exact, OneOwner
    <3>3. \A e \in Dense, k \in 0..2 : dn2[e][k] # b
      BY <1>0, <2>1, <2>2 DEF Exact, OneOwner
    <3> QED BY <3>1, <3>2, <3>3 DEF OwnedBuffer
  <2>3. CASE ~ \E k \in 0..2 : dn[d][k] = b
    <3>1. a2[b] = a[b]
      BY <2>1, <2>3 DEF Freed
    <3>2. OwnedBuffer(o, dn2, b) <=> OwnedBuffer(o, dn, b)
      BY <1>0, <2>1, <2>3 DEF OwnedBuffer
    <3> QED BY <3>1, <3>2 DEF Exact
  <2> QED BY <2>2, <2>3
<1>3. ASSUME NEW t \in Topology
      PROVE  a2[t] = a[t]
  <2>1. \A k \in 0..2 : t # dn[d][k]
    BY <1>0 DEF Exact, DenseType, Cell
  <2>2. t \in Cell
    BY DEF Cell
  <2> QED BY <2>1, <2>2 DEF Freed
<1>4. a2 \in DataType
  BY DEF Exact, Freed, DataType
<1> QED BY <1>1, <1>2, <1>3, <1>4 DEF Exact

-----------------------------------------------------------------------------
(* What each kind of step needs of an outline and makes of it.             *)

Same(e, f)  == f.scratch = e.scratch /\ f.passed = e.passed /\ f.in = e.in /\ f.out = e.out /\ f.done = e.done
SameTops(e, f) == f.tops = e.tops /\ f.fresh = e.fresh /\ f.listed = e.listed /\ f.indexed = e.indexed
SameVals(e, f) == f.vals = e.vals /\ f.filled = e.filled

LEMMA OutlineParts ==
  ASSUME NEW e \in Outline
  PROVE  /\ e.tops \subseteq Local /\ e.vals \subseteq Local /\ e.fresh \subseteq Local /\ e.listed \subseteq Local
         /\ e.indexed \subseteq Local /\ e.filled \subseteq Local
         /\ e.scratch \subseteq 1..2 /\ e.passed \subseteq 1..2 /\ e.done \in BOOLEAN
BY DEF Outline

LEMMA WrittenIs ==
  ASSUME NEW e \in Outline, NEW S \in SUBSET Local, NEW f, f = Written(e, S)
  PROVE  /\ f \in Outline /\ f.tops = e.tops /\ f.fresh = e.fresh /\ f.indexed = e.indexed /\ f.vals = e.vals
         /\ f.listed = e.listed \cup (S \cap e.tops) /\ f.filled = e.filled \cup (S \cap e.vals) /\ Same(e, f)
BY DEF Outline, Written, Same

LEMMA WithoutIs ==
  ASSUME NEW e \in Outline, NEW S \in SUBSET Local, NEW f, f = Without(e, S)
  PROVE  /\ f \in Outline /\ f.tops = e.tops \ S /\ f.fresh = e.fresh \ S /\ f.indexed = e.indexed \ S
         /\ f.vals = e.vals \ S /\ f.listed = e.listed \ S /\ f.filled = e.filled \ S /\ Same(e, f)
BY DEF Outline, Without, Same

LEMMA OutlineWith ==
  ASSUME NEW e \in Outline, NEW A \in SUBSET Local, NEW B \in SUBSET Local, NEW C \in SUBSET Local,
         NEW D \in SUBSET Local
  PROVE  /\ [e EXCEPT !.tops = A, !.fresh = B] \in Outline
         /\ [e EXCEPT !.tops = A, !.indexed = B] \in Outline
         /\ [e EXCEPT !.fresh = A, !.listed = B, !.indexed = C] \in Outline
         /\ [e EXCEPT !.tops = A, !.vals = B, !.indexed = C, !.filled = D, !.in = "tmp"] \in Outline
BY DEF Outline

LEMMA BufferIs ==
  ASSUME NEW e \in Outline, NEW s, NEW f, f = After(<<"buffer", s>>, e)
  PROVE  /\ Allowed(<<"buffer", s>>, e) => ~e.done /\ s \in Local \ e.vals
         /\ SameTops(e, f) /\ Same(e, f) /\ f.vals = e.vals \cup {s} /\ f.filled = e.filled
         /\ s \in Local => f \in Outline
<1>1. f = [e EXCEPT !.vals = @ \cup {s}]
  BY DEF After
<1> QED BY <1>1 DEF Outline, Allowed, Same, SameTops

LEMMA TopologyIs ==
  ASSUME NEW e \in Outline, NEW s, NEW f, f = After(<<"topology", s>>, e)
  PROVE  /\ Allowed(<<"topology", s>>, e) => ~e.done /\ s \in Local \ e.tops
         /\ SameVals(e, f) /\ Same(e, f) /\ f.tops = e.tops \cup {s} /\ f.fresh = e.fresh \cup {s}
         /\ f.listed = e.listed /\ f.indexed = e.indexed
         /\ s \in Local => f \in Outline
<1>1. f = [e EXCEPT !.tops = @ \cup {s}, !.fresh = @ \cup {s}]
  BY DEF After
<1>2. /\ SameVals(e, f) /\ Same(e, f) /\ f.tops = e.tops \cup {s} /\ f.fresh = e.fresh \cup {s}
      /\ f.listed = e.listed /\ f.indexed = e.indexed
  BY <1>1 DEF Outline, Same, SameVals
<1>3. ASSUME s \in Local PROVE f \in Outline
  <2>1. PICK A, B \in SUBSET Local : A = e.tops \cup {s} /\ B = e.fresh \cup {s}
    BY <1>3, OutlineParts
  <2>2. f = [e EXCEPT !.tops = A, !.fresh = B]
    BY <1>1, <2>1
  <2>3. [e EXCEPT !.tops = A, !.fresh = B] \in Outline
    BY <2>1, OutlineWith, Zenon
  <2> QED BY <2>2, <2>3, Zenon
<1>4. Allowed(<<"topology", s>>, e) => ~e.done /\ s \in Local \ e.tops
  BY DEF Allowed
<1> QED BY <1>2, <1>3, <1>4

LEMMA ShareIs ==
  ASSUME NEW e \in Outline, NEW s, NEW f, f = After(<<"share", s>>, e)
  PROVE  /\ Allowed(<<"share", s>>, e) => ~e.done /\ s \in Local \ e.tops /\ e.in # "dense" /\ Readable(e)
         /\ SameVals(e, f) /\ Same(e, f) /\ f.tops = e.tops \cup {s} /\ f.indexed = e.indexed \cup {s}
         /\ f.listed = e.listed /\ f.fresh = e.fresh
         /\ s \in Local => f \in Outline
<1>1. f = [e EXCEPT !.tops = @ \cup {s}, !.indexed = @ \cup {s}]
  BY DEF After
<1>2. /\ SameVals(e, f) /\ Same(e, f) /\ f.tops = e.tops \cup {s} /\ f.indexed = e.indexed \cup {s}
      /\ f.listed = e.listed /\ f.fresh = e.fresh
  BY <1>1 DEF Outline, Same, SameVals
<1>3. ASSUME s \in Local PROVE f \in Outline
  <2>1. PICK A, B \in SUBSET Local : A = e.tops \cup {s} /\ B = e.indexed \cup {s}
    BY <1>3, OutlineParts
  <2>2. f = [e EXCEPT !.tops = A, !.indexed = B]
    BY <1>1, <2>1
  <2>3. [e EXCEPT !.tops = A, !.indexed = B] \in Outline
    BY <2>1, OutlineWith, Zenon
  <2> QED BY <2>2, <2>3, Zenon
<1>4. Allowed(<<"share", s>>, e) => ~e.done /\ s \in Local \ e.tops /\ e.in # "dense" /\ Readable(e)
  BY DEF Allowed
<1> QED BY <1>2, <1>3, <1>4

LEMMA IndexIs ==
  ASSUME NEW e \in Outline, NEW s, NEW f, f = After(<<"index", s>>, e)
  PROVE  /\ Allowed(<<"index", s>>, e) => ~e.done /\ s \in e.listed
         /\ SameVals(e, f) /\ Same(e, f) /\ f.tops = e.tops /\ f.indexed = e.indexed \cup {s}
         /\ f.listed = e.listed \ {s} /\ f.fresh = e.fresh \ {s}
         /\ s \in Local => f \in Outline
<1>1. f = [e EXCEPT !.fresh = @ \ {s}, !.listed = @ \ {s}, !.indexed = @ \cup {s}]
  BY DEF After
<1>2. /\ SameVals(e, f) /\ Same(e, f) /\ f.tops = e.tops /\ f.indexed = e.indexed \cup {s}
      /\ f.listed = e.listed \ {s} /\ f.fresh = e.fresh \ {s}
  BY <1>1 DEF Outline, Same, SameVals
<1>3. ASSUME s \in Local PROVE f \in Outline
  <2>1. PICK A, B, C \in SUBSET Local : A = e.fresh \ {s} /\ B = e.listed \ {s} /\ C = e.indexed \cup {s}
    BY <1>3, OutlineParts
  <2>2. f = [e EXCEPT !.fresh = A, !.listed = B, !.indexed = C]
    BY <1>1, <2>1
  <2>3. [e EXCEPT !.fresh = A, !.listed = B, !.indexed = C] \in Outline
    BY <2>1, OutlineWith, Zenon
  <2> QED BY <2>2, <2>3, Zenon
<1>4. Allowed(<<"index", s>>, e) => ~e.done /\ s \in e.listed
  BY DEF Allowed
<1> QED BY <1>2, <1>3, <1>4

LEMMA FillIs ==
  ASSUME NEW e \in Outline, NEW f, f = After(<<"fill", "g">>, e)
  PROVE  /\ Allowed(<<"fill", "g">>, e) =>
              ~e.done /\ Readable(e) /\ WholeIn(e, {"weights"}) /\ "g" \in e.indexed \cap e.vals
         /\ SameTops(e, f) /\ Same(e, f) /\ f.vals = e.vals /\ f.filled = e.filled \cup {"g"}
         /\ f \in Outline
<1>1. f = [e EXCEPT !.filled = @ \cup {"g"}]
  BY DEF After
<1> QED BY <1>1 DEF Outline, Allowed, Same, SameTops, Local

LEMMA SendIs ==
  ASSUME NEW e \in Outline, NEW s, NEW f, f = After(<<"send", s>>, e)
  PROVE  /\ Allowed(<<"send", s>>, e) => ~e.done /\ s \in {"weights", "next", "g"} /\ Writable(e, {s})
         /\ f = Written(e, {s})
BY DEF After, Allowed

LEMMA ListIs ==
  ASSUME NEW e \in Outline
  PROVE  /\ Allowed(<<"list", "source">>, e) => ~e.done /\ Writable(e, {"source", "marks"})
         /\ Allowed(<<"list", "cand">>, e) =>
              ~e.done /\ Writable(e, {"cand", "flags"}) /\ Readable(e) /\ WholeIn(e, {"weights"})
         /\ Allowed(<<"list", "g">>, e) =>
              ~e.done /\ Writable(e, {"g"}) /\ Readable(e) /\ WholeIn(e, {"cand", "flags"})
         /\ Allowed(<<"mark", "flags">>, e) =>
              ~e.done /\ Writable(e, {"flags"}) /\ Readable(e) /\ WholeIn(e, {"cand", "weights"})
         /\ After(<<"list", "source">>, e) = Written(e, {"source", "marks"})
         /\ After(<<"list", "cand">>, e) = Written(e, {"cand", "flags"})
         /\ After(<<"list", "g">>, e) = Written(e, {"g"})
         /\ After(<<"mark", "flags">>, e) = Written(e, {"flags"})
BY DEF After, Allowed

LEMMA CommitTmpIs ==
  ASSUME NEW e \in Outline, NEW f, f = After(<<"commit", "tmp">>, e)
  PROVE  /\ Allowed(<<"commit", "tmp">>, e) => ~e.done /\ "g" \in e.indexed \cap e.filled
         /\ f \in Outline /\ f.in = "tmp" /\ f.out = e.out /\ f.done = e.done
         /\ f.scratch = e.scratch /\ f.passed = e.passed
         /\ f.tops = (e.tops \ {"g", "tmp"}) \cup {"tmp"} /\ f.vals = (e.vals \ {"g", "tmp"}) \cup {"tmp"}
         /\ f.indexed = (e.indexed \ {"g", "tmp"}) \cup {"tmp"}
         /\ f.filled = (e.filled \ {"g", "tmp"}) \cup {"tmp"}
         /\ f.fresh = e.fresh \ {"g", "tmp"} /\ f.listed = e.listed \ {"g", "tmp"}
<1>1. PICK r : r = Without(e, {"g", "tmp"})
  OBVIOUS
<1>2. /\ r \in Outline /\ r.tops = e.tops \ {"g", "tmp"} /\ r.fresh = e.fresh \ {"g", "tmp"}
      /\ r.indexed = e.indexed \ {"g", "tmp"} /\ r.vals = e.vals \ {"g", "tmp"}
      /\ r.listed = e.listed \ {"g", "tmp"} /\ r.filled = e.filled \ {"g", "tmp"} /\ Same(e, r)
  BY <1>1, WithoutIs DEF Local
<1>3. f = [r EXCEPT !.tops = @ \cup {"tmp"}, !.vals = @ \cup {"tmp"}, !.indexed = @ \cup {"tmp"},
                    !.filled = @ \cup {"tmp"}, !.in = "tmp"]
  BY <1>1 DEF After
<1>4. Allowed(<<"commit", "tmp">>, e) => ~e.done /\ "g" \in e.indexed \cap e.filled
  BY DEF Allowed
<1>5. /\ f.in = "tmp" /\ f.out = r.out /\ f.done = r.done /\ f.scratch = r.scratch /\ f.passed = r.passed
      /\ f.tops = r.tops \cup {"tmp"} /\ f.vals = r.vals \cup {"tmp"} /\ f.indexed = r.indexed \cup {"tmp"}
      /\ f.filled = r.filled \cup {"tmp"} /\ f.fresh = r.fresh /\ f.listed = r.listed
  BY <1>2, <1>3 DEF Outline
<1>6. f \in Outline
  <2>1. PICK A, B, C, D \in SUBSET Local : /\ A = r.tops \cup {"tmp"} /\ B = r.vals \cup {"tmp"}
                                         /\ C = r.indexed \cup {"tmp"} /\ D = r.filled \cup {"tmp"}
    BY <1>2, OutlineParts DEF Local
  <2>2. f = [r EXCEPT !.tops = A, !.vals = B, !.indexed = C, !.filled = D, !.in = "tmp"]
    BY <1>3, <2>1
  <2>3. [r EXCEPT !.tops = A, !.vals = B, !.indexed = C, !.filled = D, !.in = "tmp"] \in Outline
    BY <1>2, <2>1, OutlineWith, Zenon
  <2> QED BY <2>2, <2>3, Zenon
<1> QED BY <1>2, <1>4, <1>5, <1>6 DEF Same

\* The steps that replace the output: the local pointer that is emptied by each.
LEMMA DeliverIs ==
  ASSUME NEW e \in Outline, NEW op, NEW s \in Local, NEW f, f = After(op, e),
         \/ op = <<"commit", "out">> /\ s = "g"
         \/ op = <<"publish", "out">> /\ s = "tmp"
         \/ op = <<"swap", "next">> /\ s = "next"
  PROVE  /\ f \in Outline /\ f.tops = e.tops \ {s} /\ f.fresh = e.fresh \ {s} /\ f.indexed = e.indexed \ {s}
         /\ f.vals = e.vals \ {s} /\ f.listed = e.listed \ {s} /\ f.filled = e.filled \ {s}
         /\ f.scratch = e.scratch /\ f.passed = e.passed /\ f.in = e.in /\ f.out = e.out /\ f.done
<1>1. PICK r : r = Without(e, {s})
  OBVIOUS
<1>2. /\ r \in Outline /\ r.tops = e.tops \ {s} /\ r.fresh = e.fresh \ {s} /\ r.indexed = e.indexed \ {s}
      /\ r.vals = e.vals \ {s} /\ r.listed = e.listed \ {s} /\ r.filled = e.filled \ {s} /\ Same(e, r)
  BY <1>1, WithoutIs
<1>3. f = [r EXCEPT !.done = TRUE]
  <2>1. CASE op = <<"commit", "out">> /\ s = "g"
    BY <1>1, <2>1 DEF After
  <2>2. CASE op = <<"publish", "out">> /\ s = "tmp"
    BY <1>1, <2>2 DEF After
  <2>3. CASE op = <<"swap", "next">> /\ s = "next"
    BY <1>1, <2>3 DEF After
  <2> QED BY <2>1, <2>2, <2>3
<1> QED BY <1>2, <1>3 DEF Outline, Same

LEMMA DeliverNeeds ==
  ASSUME NEW e \in Outline
  PROVE  /\ Allowed(<<"commit", "out">>, e) => ~e.done /\ "g" \in e.indexed \cap e.filled /\ e.out \in {"slot", "held"}
         /\ Allowed(<<"publish", "out">>, e) =>
              ~e.done /\ "tmp" \in e.indexed \cap e.filled /\ e.out \in {"slot", "held"}
         /\ Allowed(<<"swap", "next">>, e) => ~e.done /\ "next" \in e.filled \ e.tops /\ e.in = "self" /\ e.out = "held"
BY DEF Allowed

LEMMA CleanIs ==
  ASSUME NEW e \in Outline
  PROVE  After(<<"clean", "step">>, e) = Without(e, {"cand", "flags"}) /\ Allowed(<<"clean", "step">>, e)
BY DEF After, Allowed

\* The steps on a dense grid.
LEMMA DenseStepIs ==
  ASSUME NEW e \in Outline, NEW k
  PROVE  /\ Allowed(<<"scratch", k>>, e) => ~e.done /\ k \in 1..2 /\ e.out = "dense"
         /\ Allowed(<<"pass", k>>, e) =>
              /\ ~e.done /\ k \in Nat /\ e.out = "dense" /\ WholeIn(e, {"weights"})
              /\ 1 + (k % 2) \in e.scratch /\ (IF k = 0 THEN e.in = "self" ELSE LastPass(k) \in e.passed)
         /\ Allowed(<<"compose", 1>>, e) => ~e.done /\ e.out = "dense" /\ 1 \in e.scratch /\ Readable(e)
         /\ Allowed(<<"exchange", k>>, e) => ~e.done /\ k \in e.passed /\ e.out = "dense"
         /\ After(<<"scratch", k>>, e) = [e EXCEPT !.scratch = @ \cup {k}]
         /\ After(<<"pass", k>>, e) = [e EXCEPT !.passed = @ \cup {1 + (k % 2)}]
         /\ After(<<"compose", 1>>, e) = [e EXCEPT !.passed = @ \cup {1}]
         /\ After(<<"exchange", k>>, e) = [e EXCEPT !.done = TRUE]
<1>1. /\ Allowed(<<"scratch", k>>, e) => ~e.done /\ k \in 1..2 /\ e.out = "dense"
      /\ Allowed(<<"compose", 1>>, e) => ~e.done /\ e.out = "dense" /\ 1 \in e.scratch /\ Readable(e)
      /\ Allowed(<<"exchange", k>>, e) => ~e.done /\ k \in e.passed /\ e.out = "dense"
  BY DEF Allowed
<1>2. Allowed(<<"pass", k>>, e) =>
              /\ ~e.done /\ k \in Nat /\ e.out = "dense" /\ WholeIn(e, {"weights"})
              /\ 1 + (k % 2) \in e.scratch /\ (IF k = 0 THEN e.in = "self" ELSE LastPass(k) \in e.passed)
  BY DEF Allowed
<1>3. /\ After(<<"scratch", k>>, e) = [e EXCEPT !.scratch = @ \cup {k}]
      /\ After(<<"pass", k>>, e) = [e EXCEPT !.passed = @ \cup {1 + (k % 2)}]
      /\ After(<<"compose", 1>>, e) = [e EXCEPT !.passed = @ \cup {1}]
      /\ After(<<"exchange", k>>, e) = [e EXCEPT !.done = TRUE]
  BY DEF After
<1> QED BY <1>1, <1>2, <1>3

-----------------------------------------------------------------------------
(* The step that comes, and what it leaves.                                *)

LEMMA GoesOn ==
  ASSUME NEW p \in Seq(StepType), p # <<>>, NEW e \in Outline, Goes(p, e)
  PROVE  Allowed(Head(p), e) /\ After(Head(p), e) \in Outline /\ Goes(Tail(p), After(Head(p), e))
<1>1. PICK es \in [0..Len(p) -> Outline] :
        es[0] = e /\ \A i \in 1..Len(p) : Allowed(p[i], es[i - 1]) /\ es[i] = After(p[i], es[i - 1])
  BY DEF Goes
<1>2. Len(p) \in Nat \ {0} /\ Head(p) = p[1] /\ Len(Tail(p)) = Len(p) - 1
      /\ \A i \in 1..(Len(p) - 1) : Tail(p)[i] = p[i + 1]
  OBVIOUS
<1>3. 1 \in 1..Len(p) /\ 1 \in 0..Len(p)
  BY <1>2
<1>4. Allowed(p[1], es[1 - 1]) /\ es[1] = After(p[1], es[1 - 1]) /\ es[1] \in Outline /\ 1 - 1 = 0
  BY <1>1, <1>3
<1>5. PICK f \in Outline : f = es[1] /\ f = After(Head(p), e)
  BY <1>1, <1>2, <1>4
<1>6. PICK fs : fs = [i \in 0..(Len(p) - 1) |-> es[i + 1]]
  OBVIOUS
<1>7. fs \in [0..Len(Tail(p)) -> Outline] /\ fs[0] = f
  BY <1>1, <1>2, <1>5, <1>6
<1>8. ASSUME NEW i \in 1..Len(Tail(p))
      PROVE  Allowed(Tail(p)[i], fs[i - 1]) /\ fs[i] = After(Tail(p)[i], fs[i - 1])
  <2>1. i + 1 \in 1..Len(p) /\ i \in 0..(Len(p) - 1) /\ i - 1 \in 0..(Len(p) - 1)
        /\ (i - 1) + 1 = i /\ (i + 1) - 1 = i
    BY <1>2
  <2>2. fs[i] = es[i + 1] /\ fs[i - 1] = es[i]
    BY <1>6, <2>1
  <2>3. Allowed(p[i + 1], es[(i + 1) - 1]) /\ es[i + 1] = After(p[i + 1], es[(i + 1) - 1])
    BY <1>1, <2>1
  <2>4. Tail(p)[i] = p[i + 1]
    BY <1>2
  <2> QED BY <2>1, <2>2, <2>3, <2>4
<1>9. Goes(Tail(p), f)
  BY <1>7, <1>8 DEF Goes
<1> QED BY <1>1, <1>2, <1>4, <1>5, <1>9

LEMMA HeadIs ==
  ASSUME TypeOK, NEW v, NEW x, At(v, x)
  PROVE  job.todo # <<>> /\ Head(job.todo) = <<v, x>> /\ job.todo \in Seq(StepType)
<1>1. job.todo # <<>> /\ Head(job.todo)[1] = v /\ Head(job.todo)[2] = x /\ job.todo \in Seq(StepType)
  BY DEF At, TypeOK, JobType
<1>2. Head(job.todo) \in StepType
  BY <1>1, HeadTailProperties
<1> QED BY <1>1, <1>2 DEF StepType

\* The fields of the job, and that an operation is in progress.
LEMMA JobParts ==
  ASSUME TypeOK
  PROVE  /\ job.in \in SUBSET (Handle \cup Dense \cup Local) /\ job.out \in Handle \cup Dense \cup {None}
         /\ job.todo \in Seq(StepType) /\ job.ok \in BOOLEAN
         /\ job.sure \in BOOLEAN /\ job.before \in {<<>>} \cup (OwnType \X DenseType \X DataType)
         /\ job.todo # <<>> => job # Idle
         /\ Idle.out = None /\ Idle.todo = <<>> /\ Idle.ok /\ Idle.in = {} /\ Idle.before = <<>>
BY DEF TypeOK, JobType, Idle

\* The state meets the outline e, the step op is allowed in it, and what follows goes on from
\* the outline f.
Follows(op, e, f) ==
  /\ e \in Outline /\ Meets(e) /\ Allowed(op, e) /\ f \in Outline /\ f = After(op, e)
  /\ Goes(Tail(job.todo), f)

LEMMA StepComes ==
  ASSUME TypeOK, JobKnown, NEW v, NEW x, At(v, x)
  PROVE  /\ job # Idle /\ job.out \in Handle \cup Dense /\ job.todo # <<>>
         /\ \E e, f : Follows(<<v, x>>, e, f)
<1>1. job.todo # <<>> /\ Head(job.todo) = <<v, x>> /\ job.todo \in Seq(StepType)
  BY HeadIs
<1>2. job # Idle
  BY <1>1, JobParts
<1>3. job.out \in Handle \cup Dense
  BY <1>2 DEF JobKnown
<1>4. PICK e \in Outline : Meets(e) /\ Goes(job.todo, e)
  BY <1>1, <1>2 DEF JobKnown
<1>5. /\ Allowed(Head(job.todo), e) /\ After(Head(job.todo), e) \in Outline
      /\ Goes(Tail(job.todo), After(Head(job.todo), e))
  BY <1>1, <1>4, GoesOn
<1>6. Follows(<<v, x>>, e, After(<<v, x>>, e))
  BY <1>1, <1>4, <1>5 DEF Follows
<1> QED BY <1>1, <1>2, <1>3, <1>6

LEMMA JobWith ==
  ASSUME NEW j \in JobType, NEW t \in Seq(StepType), NEW b \in BOOLEAN
  PROVE  [j EXCEPT !.todo = t] \in JobType /\ [j EXCEPT !.todo = t, !.ok = b] \in JobType
BY DEF JobType

LEMMA RestIs ==
  ASSUME TypeOK, job.todo # <<>>, job' = Rest
  PROVE  /\ job'.in = job.in /\ job'.out = job.out /\ job'.ok = job.ok /\ job'.before = job.before
         /\ job'.sure = job.sure /\ job'.todo = Tail(job.todo) /\ job' \in JobType
<1>1. job \in JobType /\ job.todo \in Seq(StepType)
  BY DEF TypeOK, JobType
<1>2. PICK t \in Seq(StepType) : t = Tail(job.todo)
  BY <1>1, HeadTailProperties
<1>3. job' = [job EXCEPT !.todo = t]
  BY <1>2 DEF Rest
<1>4. job' \in JobType
  <2>1. [job EXCEPT !.todo = t] \in JobType
    BY <1>1, JobWith
  <2> QED BY <1>3, <2>1
<1>5. /\ job'.in = job.in /\ job'.out = job.out /\ job'.ok = job.ok /\ job'.before = job.before
      /\ job'.sure = job.sure /\ job'.todo = t
  BY <1>1, <1>3 DEF JobType
<1> QED BY <1>2, <1>4, <1>5

LEMMA FailedIs ==
  ASSUME TypeOK, job' = Failed
  PROVE  /\ job'.in = job.in /\ job'.out = job.out /\ ~job'.ok /\ job'.before = job.before
         /\ job'.todo = <<>> /\ job' \in JobType
<1>1. job \in JobType
  BY DEF TypeOK
<1>2. PICK t \in Seq(StepType) : t = <<>>
  BY EmptySeq
<1>3. PICK b \in BOOLEAN : b = FALSE
  OBVIOUS
<1>4. job' = [job EXCEPT !.todo = t, !.ok = b]
  BY <1>2, <1>3 DEF Failed
<1>5. job' \in JobType
  <2>1. [job EXCEPT !.todo = t, !.ok = b] \in JobType
    BY <1>1, JobWith
  <2> QED BY <1>4, <2>1
<1>6. job'.in = job.in /\ job'.out = job.out /\ job'.before = job.before
  BY <1>1, <1>4 DEF JobType
<1>7. job'.ok = b /\ job'.todo = t
  BY <1>1, <1>4 DEF JobType
<1> QED BY <1>2, <1>3, <1>5, <1>6, <1>7

-----------------------------------------------------------------------------
(* What a step leaves alone.                                               *)

\* The grids of the caller, what is in them, and which are known.
CallersKept ==
  /\ known' = known
  /\ \A h \in Handle : /\ own'[h] = own[h]
                       /\ own[h].topology # None => data'[own[h].topology] = data[own[h].topology]
                       /\ own[h].values # None => data'[own[h].values] = data[own[h].values]
  /\ \A d \in Dense : /\ dense'[d][0] = dense[d][0]
                      /\ dense[d][0] # None => data'[dense[d][0]] = data[dense[d][0]]

\* The dense grids with their scratch buffers, and what is in these.
DenseKept ==
  /\ dense' = dense
  /\ \A d \in Dense, k \in 0..2 : dense[d][k] # None => data'[dense[d][k]] = data[dense[d][k]]

LEMMA ExactHere == IInv => Exact(own, dense, data, refs) /\ job \in JobType
  BY ExactIs DEF IInv, TypeOK

LEMMA ExactNext ==
  ASSUME Exact(own', dense', data', refs'), job' \in JobType, known' \subseteq Handle \cup Dense
  PROVE  TypeOK' /\ BuffersExact' /\ TopologiesExact'
BY ExactGivesNext DEF Exact, TypeOK

LEMMA ExactKept ==
  ASSUME IInv, Exact(own', dense', data', refs'), job' \in JobType, CallersKept
  PROVE  TypeOK' /\ BuffersExact' /\ TopologiesExact'
BY ExactNext DEF IInv, TypeOK, CallersKept

LEMMA GridsKept ==
  ASSUME GridsWhole, CallersKept
  PROVE  GridsWhole'
<1>1. ASSUME NEW h \in Handle
      PROVE  /\ own'[h] = own[h] /\ (Held(h)' <=> Held(h))
             /\ Held(h) => own[h].topology # None /\ own[h].values # None
  BY DEF CallersKept, Held, GridsWhole
<1>2. ASSUME NEW h \in Handle \cap known
      PROVE  Held(h) /\ (data[own[h].topology] = "whole")' /\ (data[own[h].values] = "whole")'
  <2>1. Held(h) /\ data[own[h].topology] = "whole" /\ data[own[h].values] = "whole"
    BY DEF GridsWhole
  <2> QED BY <1>1, <2>1 DEF CallersKept
<1>3. ASSUME NEW d \in Dense \cap known
      PROVE  Filled(d)' /\ (data[dense[d][0]] = "whole")'
  BY DEF GridsWhole, CallersKept, Filled
<1>4. known' = known
  BY DEF CallersKept
<1> QED BY <1>1, <1>2, <1>3, <1>4 DEF GridsWhole

\* What is as it was stays so, as long as the job remembers it.
LEMMA AsBeforeKept ==
  ASSUME CallersKept, job'.before = job.before, NEW x \in Handle \cup Dense, AsBefore(x)
  PROVE  AsBefore(x)'
BY DEF AsBefore, CallersKept, Cells

LEMMA InputsKept ==
  ASSUME NEW e \in Outline, NEW f \in Outline, InputsMeet(e), CallersKept, job'.in = job.in,
         job'.out = job.out, job'.sure = job.sure, f.in = e.in, f.done = e.done
  PROVE  InputsMeet(f)'
<1>1. \A h \in Handle : Held(h)' <=> Held(h)
  BY DEF Held, CallersKept
<1>2. \A d \in Dense : Filled(d)' <=> Filled(d)
  BY DEF Filled, CallersKept
<1>3. known' = known
  BY DEF CallersKept
<1> QED BY <1>1, <1>2, <1>3 DEF InputsMeet

LEMMA OutputKept ==
  ASSUME NEW e \in Outline, NEW f \in Outline, OutputMeets(e), CallersKept, DenseKept, job'.out = job.out,
         job'.sure = job.sure, job.out \in Handle \cup Dense,
         f.out = e.out, f.done = e.done, f.scratch = e.scratch, f.passed = e.passed
  PROVE  OutputMeets(f)'
<1>0. Handle \cap Dense = {} /\ e.scratch \subseteq 1..2 /\ e.passed \subseteq 1..2 /\ 1..2 \subseteq 0..2
  BY OutlineParts
<1>1. \A h \in Handle : Held(h)' <=> Held(h)
  BY DEF Held, CallersKept
<1>2. \A d \in Dense : Filled(d)' <=> Filled(d)
  BY DEF Filled, CallersKept
<1>3. /\ e.out \in {"slot", "held"} <=> job.out \in Handle
      /\ e.out = "held" /\ ~e.done => Held(job.out)
      /\ e.out = "dense" /\ ~e.done => Filled(job.out)
      /\ e.scratch # {} => e.out = "dense"
      /\ \A k \in e.scratch : ~e.done => dense[job.out][k] # None
      /\ \A k \in e.passed :
           k \in e.scratch /\ (~e.done => (job.sure => data[dense[job.out][k]] = "whole"))
  BY DEF OutputMeets, Has
<1>4. /\ f.out = "held" /\ ~f.done => Held(job.out)'
      /\ f.out = "dense" /\ ~f.done => Filled(job.out)'
  <2>1. e.out = "held" => job.out \in Handle
    BY <1>3
  <2>2. e.out = "dense" => job.out \in Dense
    BY <1>3
  <2> QED BY <1>1, <1>2, <1>3, <2>1, <2>2 DEF Held, Filled
<1>5. ASSUME NEW k \in e.scratch, ~e.done
      PROVE  job.out \in Dense /\ dense'[job.out][k] # None /\ data'[dense'[job.out][k]] = data[dense[job.out][k]]
  <2>1. job.out \in Dense /\ dense[job.out][k] # None /\ k \in 0..2
    BY <1>0, <1>3, <1>5
  <2> QED BY <2>1 DEF DenseKept
<1> QED BY <1>3, <1>4, <1>5 DEF OutputMeets, Held, Filled, Has

-----------------------------------------------------------------------------
(* An operation goes on, or fails.                                         *)

LEMMA ProceedsWith ==
  ASSUME IInv, NEW op, NEW e, NEW f, Follows(op, e, f), job.todo # <<>>,
         job'.out = job.out, job'.ok = job.ok, job'.before = job.before, job'.todo = Tail(job.todo),
         CallersKept, f.done = e.done, LocalsMeet(f)', InputsMeet(f)', OutputMeets(f)'
  PROVE  GridsWhole' /\ JobKnown'
<1>1. TypeOK /\ GridsWhole /\ JobKnown /\ job # Idle
  BY JobParts DEF IInv
<1>2. job'.out = job.out /\ job'.ok = job.ok /\ job'.before = job.before /\ job'.todo = Tail(job.todo)
  OBVIOUS
<1>3. job.out \in Handle \cup Dense /\ job.before # <<>> /\ \A x \in Handle \cup Dense : x # job.out => AsBefore(x)
  BY <1>1 DEF JobKnown
<1>4. job.ok /\ (~e.done => AsBefore(job.out)) /\ f \in Outline /\ Goes(Tail(job.todo), f)
  BY DEF Follows, Meets
<1>5. \A x \in Handle \cup Dense : x # job.out => AsBefore(x)'
  BY <1>2, <1>3, AsBeforeKept
<1>6. ~f.done => AsBefore(job.out)'
  BY <1>2, <1>3, <1>4, AsBeforeKept
<1>7. Meets(f)'
  BY <1>2, <1>4, <1>6 DEF Meets
<1>8. JobKnown'
  BY <1>2, <1>3, <1>4, <1>5, <1>7 DEF JobKnown
<1> QED BY <1>1, <1>8, GridsKept

LEMMA Proceeds ==
  ASSUME IInv, NEW op, NEW e, NEW f, Follows(op, e, f), job.todo # <<>>, job' = Rest,
         CallersKept, f.done = e.done, LocalsMeet(f)', InputsMeet(f)', OutputMeets(f)'
  PROVE  GridsWhole' /\ JobKnown'
<1>1. job'.out = job.out /\ job'.ok = job.ok /\ job'.before = job.before /\ job'.todo = Tail(job.todo)
  BY RestIs DEF IInv
<1> QED BY <1>1, ProceedsWith

LEMMA Fails ==
  ASSUME IInv, NEW op, NEW e, NEW f, Follows(op, e, f), job.todo # <<>>, job' = Failed, CallersKept, ~e.done
  PROVE  GridsWhole' /\ JobKnown'
<1>1. TypeOK /\ GridsWhole /\ JobKnown /\ job # Idle
  BY JobParts DEF IInv
<1>2. job'.out = job.out /\ ~job'.ok /\ job'.before = job.before /\ job'.todo = <<>>
  BY <1>1, FailedIs
<1>3. job.out \in Handle \cup Dense /\ job.before # <<>> /\ \A x \in Handle \cup Dense : x # job.out => AsBefore(x)
  BY <1>1 DEF JobKnown
<1>4. AsBefore(job.out)
  BY DEF Follows, Meets
<1>5. \A x \in Handle \cup Dense : AsBefore(x)'
  BY <1>2, <1>3, <1>4, AsBeforeKept
<1>6. JobKnown'
  BY <1>2, <1>3, <1>5, NoCell DEF JobKnown, Slot
<1> QED BY <1>1, <1>6, GridsKept

LEMMA LocalStep ==
  ASSUME IInv, NEW op, NEW e, NEW f, Follows(op, e, f), job.todo # <<>>, job' = Rest,
         CallersKept, DenseKept, Same(e, f), LocalsMeet(f)', Exact(own', dense', data', refs')
  PROVE  IInv'
<1>1. TypeOK /\ JobKnown /\ DenseShaped /\ job # Idle
  BY JobParts DEF IInv
<1>2. /\ job'.out = job.out /\ job'.in = job.in /\ job'.sure = job.sure /\ job' \in JobType
      /\ job.out \in Handle \cup Dense
  BY <1>1, RestIs DEF JobKnown
<1>3. e \in Outline /\ f \in Outline /\ InputsMeet(e) /\ OutputMeets(e)
  BY DEF Follows, Meets
<1>4. InputsMeet(f)' /\ OutputMeets(f)'
  BY <1>2, <1>3, InputsKept, OutputKept DEF Same
<1>5. GridsWhole' /\ JobKnown'
  BY <1>4, Proceeds DEF Same
<1>6. DenseShaped'
  BY <1>1 DEF DenseShaped, DenseKept, Filled
<1> QED BY <1>2, <1>5, <1>6, ExactKept DEF IInv

LEMMA LocalFail ==
  ASSUME IInv, NEW op, NEW e, NEW f, Follows(op, e, f), job.todo # <<>>, job' = Failed, ~e.done,
         CallersKept, dense' = dense, Exact(own', dense', data', refs')
  PROVE  IInv'
<1>1. TypeOK /\ JobKnown /\ DenseShaped
  BY DEF IInv
<1>2. job' \in JobType
  BY <1>1, FailedIs
<1>3. GridsWhole' /\ JobKnown'
  BY Fails
<1>4. DenseShaped'
  BY <1>1 DEF DenseShaped, Filled
<1> QED BY <1>2, <1>3, <1>4, ExactKept DEF IInv

\* A free cell is nobody's.
LEMMA OthersKept ==
  ASSUME IInv, NEW c \in Cell, data[c] = "free", \A x \in Cell : x # c => data'[x] = data[x]
  PROVE  /\ \A s \in Slot : own[s].topology # None =>
              own[s].topology # c /\ data'[own[s].topology] = data[own[s].topology]
         /\ \A s \in Slot : own[s].values # None =>
              own[s].values # c /\ data'[own[s].values] = data[own[s].values]
         /\ \A d \in Dense, k \in 0..2 : dense[d][k] # None =>
              dense[d][k] # c /\ data'[dense[d][k]] = data[dense[d][k]]
<1>1. Exact(own, dense, data, refs)
  BY ExactHere
<1>2. ASSUME NEW s \in Slot, own[s].topology # None
      PROVE  own[s].topology # c /\ data'[own[s].topology] = data[own[s].topology]
  <2>1. own[s].topology \in Cell /\ data[own[s].topology] # "free"
    BY <1>1, <1>2, OwnedLives DEF Cell
  <2> QED BY <2>1
<1>3. ASSUME NEW s \in Slot, own[s].values # None
      PROVE  own[s].values # c /\ data'[own[s].values] = data[own[s].values]
  <2>1. own[s].values \in Cell /\ data[own[s].values] # "free"
    BY <1>1, <1>3, OwnedLives DEF Cell
  <2> QED BY <2>1
<1>4. ASSUME NEW d \in Dense, NEW k \in 0..2, dense[d][k] # None
      PROVE  dense[d][k] # c /\ data'[dense[d][k]] = data[dense[d][k]]
  <2>1. dense[d][k] \in Cell /\ data[dense[d][k]] # "free"
    BY <1>1, <1>4, OwnedLives DEF Cell
  <2> QED BY <2>1
<1> QED BY <1>2, <1>3, <1>4

LEMMA OwnValues ==
  ASSUME own \in OwnType, NEW s \in Slot, NEW b \in Buffer \cup {None}, own' = [own EXCEPT ![s].values = b]
  PROVE  /\ own' \in OwnType /\ own'[s].values = b /\ own'[s].topology = own[s].topology
         /\ \A u \in Slot : u # s => own'[u] = own[u]
BY DEF OwnType, GridType

LEMMA OwnTopology ==
  ASSUME own \in OwnType, NEW s \in Slot, NEW t \in Topology \cup {None}, own' = [own EXCEPT ![s].topology = t]
  PROVE  /\ own' \in OwnType /\ own'[s].topology = t /\ own'[s].values = own[s].values
         /\ \A u \in Slot : u # s => own'[u] = own[u]
BY DEF OwnType, GridType

-----------------------------------------------------------------------------
(* Steps on the local pointers.                                            *)

\* What LocalsMeet says of one pointer, where two outlines agree, and that the pointer u,
\* its buffers and its count are left alone.
SlotMeets(e, s) ==
  /\ s \in e.tops <=> own[s].topology # None
  /\ s \in e.vals <=> own[s].values # None
  /\ s \in e.fresh => s \in e.tops /\ refs[own[s].topology] = 1
  /\ s \in e.listed => s \in e.fresh /\ (job.sure => data[own[s].topology] = "listed")
  /\ s \in e.indexed => s \in e.tops /\ s \notin e.fresh /\ (job.sure => data[own[s].topology] = "whole")
  /\ s \in e.filled => s \in e.vals /\ (job.sure => data[own[s].values] = "whole")

Agree(e, f, s) ==
  /\ s \in f.tops <=> s \in e.tops
  /\ s \in f.vals <=> s \in e.vals
  /\ s \in f.fresh <=> s \in e.fresh
  /\ s \in f.listed <=> s \in e.listed
  /\ s \in f.indexed <=> s \in e.indexed
  /\ s \in f.filled <=> s \in e.filled

Stays(e, u) ==
  /\ own'[u] = own[u]
  /\ own[u].topology # None => data'[own[u].topology] = data[own[u].topology]
  /\ own[u].values # None => data'[own[u].values] = data[own[u].values]
  /\ u \in e.fresh => refs'[own[u].topology] = 1

LEMMA SlotStays ==
  ASSUME NEW e, NEW f, NEW u, SlotMeets(e, u), Agree(e, f, u), Stays(e, u), job'.sure = job.sure
  PROVE  SlotMeets(f, u)'
BY DEF SlotMeets, Agree, Stays

LEMMA SlotsMeet ==
  ASSUME NEW e \in Outline
  PROVE  LocalsMeet(e) <=> \A s \in Local : SlotMeets(e, s)
BY OutlineParts DEF LocalsMeet, SlotMeets, Has

LEMMA SlotsMeetNext ==
  ASSUME NEW e \in Outline, \A s \in Local : SlotMeets(e, s)'
  PROVE  LocalsMeet(e)'
BY OutlineParts DEF LocalsMeet, SlotMeets, Has

\* A step concerns the pointers S only, and no grid becomes known or unknown.
Concerns(e, f, S) ==
  /\ known' = known
  /\ S \subseteq Local /\ \A u \in Slot \ S : Stays(e, u)
  /\ \A u \in Local \ S : Agree(e, f, u)
  /\ \A u \in S : SlotMeets(f, u)'

LEMMA StepOf ==
  ASSUME IInv, NEW op, NEW e, NEW f, Follows(op, e, f), job.todo # <<>>, job' = Rest,
         DenseKept, Same(e, f), Exact(own', dense', data', refs'), NEW S, Concerns(e, f, S)
  PROVE  IInv'
<1>1. e \in Outline /\ f \in Outline /\ LocalsMeet(e)
  BY DEF Follows, Meets
<1>2. \A u \in Local : SlotMeets(e, u)
  BY <1>1, SlotsMeet
<1>0. job'.sure = job.sure
  BY RestIs DEF IInv
<1>3. \A u \in Local \ S : SlotMeets(f, u)'
  BY <1>0, <1>2, SlotStays DEF Slot, Concerns
<1>4. LocalsMeet(f)'
  BY <1>1, <1>3, SlotsMeetNext DEF Concerns
<1>5. CallersKept
  <2>1. \A h \in Handle : Stays(e, h)
    BY DEF Slot, Concerns
  <2> QED BY <2>1 DEF CallersKept, DenseKept, Stays, Concerns
<1> QED BY <1>4, <1>5, LocalStep

LEMMA SureStays ==
  ASSUME IInv, job.todo # <<>>, job' = Rest
  PROVE  job'.sure = job.sure
BY RestIs DEF IInv

LEMMA NewBufferKeeps ==
  ASSUME IInv, NEW s \in Local, NewBuffer(s)
  PROVE  IInv'
<1>1. At("buffer", s) /\ refs' = refs /\ dense' = dense /\ known' = known
  BY DEF NewBuffer
<1>2. job.todo # <<>> /\ job.out \in Handle \cup Dense /\ \E e, f : Follows(<<"buffer", s>>, e, f)
  BY <1>1, StepComes DEF IInv
<1>3. PICK e, f : Follows(<<"buffer", s>>, e, f)
  BY <1>2
<1>4. e \in Outline /\ f \in Outline /\ LocalsMeet(e) /\ Allowed(<<"buffer", s>>, e) /\ f = After(<<"buffer", s>>, e)
  BY <1>3 DEF Follows, Meets
<1>5. /\ ~e.done /\ s \notin e.vals /\ SameTops(e, f) /\ Same(e, f) /\ f.vals = e.vals \cup {s}
      /\ f.filled = e.filled
  BY <1>4, BufferIs
<1>6. Exact(own, dense, data, refs) /\ own \in OwnType /\ s \in Slot /\ s \notin Handle
  BY ExactHere DEF Slot, Exact
<1>7. own[s].values = None
  BY <1>4, <1>5 DEF LocalsMeet
<1>8. CASE UNCHANGED <<own, data>> /\ Fail
  <2>1. Exact(own', dense', data', refs') /\ CallersKept
    BY <1>1, <1>6, <1>8 DEF CallersKept
  <2> QED BY <1>1, <1>2, <1>3, <1>5, <1>8, <2>1, LocalFail DEF Fail
<1>9. CASE /\ Free(Buffer) # {} /\ own' = [own EXCEPT ![s].values = Min(Free(Buffer))]
           /\ data' = [data EXCEPT ![Min(Free(Buffer))] = "blank"] /\ Proceed
  <2>1. PICK b \in Buffer : b = Min(Free(Buffer)) /\ data[b] = "free"
    BY <1>9, MinFree DEF Cell
  <2>2. own' = [own EXCEPT ![s].values = b] /\ data' = [data EXCEPT ![b] = "blank"]
    BY <1>9, <2>1
  <2>3. /\ own' \in OwnType /\ own'[s].values = b /\ own'[s].topology = own[s].topology
        /\ \A u \in Slot : u # s => own'[u] = own[u]
    BY <1>6, <2>2, OwnValues
  <2>4. /\ data' \in DataType /\ data'[b] = "blank"
        /\ \A c \in Cell : c # b => data'[c] = data[c]
    BY <1>6, <2>2 DEF Exact, DataType, Cell
  <2>5. Exact(own', dense', data', refs')
    BY <1>1, <1>6, <1>7, <2>1, <2>3, <2>4, TakeValues
  <2>6. /\ \A u \in Slot : own[u].topology # None => data'[own[u].topology] = data[own[u].topology]
        /\ \A u \in Slot : own[u].values # None => data'[own[u].values] = data[own[u].values]
        /\ \A d \in Dense, k \in 0..2 : dense[d][k] # None => data'[dense[d][k]] = data[dense[d][k]]
    BY <2>1, <2>4, OthersKept DEF Cell
  <2>7. \A u \in Local : SlotMeets(e, u)
    BY <1>4, SlotsMeet
  <2>8. \A u \in Slot \ {s} : Stays(e, u)
    BY <1>1, <1>4, <2>3, <2>6, <2>7, OutlineParts DEF Stays, SlotMeets
  <2>9. \A u \in Local \ {s} : Agree(e, f, u)
    BY <1>5 DEF Agree, SameTops
  <2>10. SlotMeets(f, s)'
    <3>1. job'.sure = job.sure
      BY <1>2, <1>9, SureStays DEF Proceed
    <3> QED BY <1>1, <1>5, <1>6, <2>3, <2>6, <2>7, <3>1, NoCell DEF SlotMeets, SameTops, Cell
  <2>11. Concerns(e, f, {s})
    BY <1>1, <2>8, <2>9, <2>10 DEF Concerns
  <2>12. DenseKept /\ job' = Rest
    BY <1>1, <1>9, <2>6 DEF DenseKept, Proceed
  <2> QED BY <1>2, <1>3, <1>5, <2>5, <2>11, <2>12, StepOf
<1> QED BY <1>8, <1>9 DEF NewBuffer

LEMMA NewTopologyKeeps ==
  ASSUME IInv, NEW s \in Local, NewTopology(s)
  PROVE  IInv'
<1>1. At("topology", s) /\ dense' = dense /\ known' = known
  BY DEF NewTopology
<1>2. job.todo # <<>> /\ \E e, f : Follows(<<"topology", s>>, e, f)
  BY <1>1, StepComes DEF IInv
<1>3. PICK e, f : Follows(<<"topology", s>>, e, f)
  BY <1>2
<1>4. e \in Outline /\ f \in Outline /\ LocalsMeet(e) /\ Allowed(<<"topology", s>>, e) /\ f = After(<<"topology", s>>, e)
  BY <1>3 DEF Follows, Meets
<1>5. /\ ~e.done /\ s \notin e.tops /\ SameVals(e, f) /\ Same(e, f) /\ f.tops = e.tops \cup {s}
      /\ f.fresh = e.fresh \cup {s} /\ f.listed = e.listed /\ f.indexed = e.indexed
  <2>1. ~e.done /\ s \notin e.tops /\ SameVals(e, f) /\ Same(e, f)
    BY <1>4, TopologyIs
  <2>2. f.tops = e.tops \cup {s}
    BY <1>4, TopologyIs
  <2>3. f.fresh = e.fresh \cup {s}
    BY <1>4, TopologyIs
  <2>4. f.listed = e.listed /\ f.indexed = e.indexed
    BY <1>4, TopologyIs
  <2> QED BY <2>1, <2>2, <2>3, <2>4
<1>6. Exact(own, dense, data, refs) /\ own \in OwnType /\ s \in Slot /\ s \notin Handle
  BY ExactHere DEF Slot, Exact
<1>7. \A u \in Local : SlotMeets(e, u)
  BY <1>4, SlotsMeet
<1>8. own[s].topology = None
  BY <1>5, <1>7 DEF SlotMeets
<1>9. CASE UNCHANGED <<own, data, refs>> /\ Fail
  <2>1. Exact(own', dense', data', refs') /\ CallersKept
    BY <1>1, <1>6, <1>9 DEF CallersKept
  <2> QED BY <1>1, <1>2, <1>3, <1>5, <1>9, <2>1, LocalFail DEF Fail
<1>10. CASE /\ Free(Topology) # {} /\ own' = [own EXCEPT ![s].topology = Min(Free(Topology))]
            /\ data' = [data EXCEPT ![Min(Free(Topology))] = "blank"]
            /\ refs' = [refs EXCEPT ![Min(Free(Topology))] = 1] /\ Proceed
  <2>1. PICK t \in Topology : t = Min(Free(Topology)) /\ data[t] = "free"
    BY <1>10, MinFree DEF Cell
  <2>2. own' = [own EXCEPT ![s].topology = t] /\ data' = [data EXCEPT ![t] = "blank"] /\ refs' = [refs EXCEPT ![t] = 1]
    BY <1>10, <2>1
  <2>3. /\ own' \in OwnType /\ own'[s].topology = t /\ own'[s].values = own[s].values
        /\ \A u \in Slot : u # s => own'[u] = own[u]
    BY <1>6, <2>2, OwnTopology
  <2>4. /\ data' \in DataType /\ data'[t] = "blank"
        /\ \A c \in Cell : c # t => data'[c] = data[c]
    BY <1>6, <2>2 DEF Exact, DataType, Cell
  <2>5. /\ refs' \in [Topology -> Nat] /\ refs[t] = 0 /\ refs'[t] = 1 /\ refs'[t] = refs[t] + 1
        /\ \A x \in Topology : x # t => refs'[x] = refs[x]
    BY <1>6, <2>1, <2>2 DEF Exact
  <2>6. Exact(own', dense', data', refs')
    BY <1>1, <1>6, <1>8, <2>3, <2>4, <2>5, TakeTopology
  <2>7. /\ \A u \in Slot : own[u].topology # None => own[u].topology # t /\ data'[own[u].topology] = data[own[u].topology]
        /\ \A u \in Slot : own[u].values # None => data'[own[u].values] = data[own[u].values]
        /\ \A d \in Dense, k \in 0..2 : dense[d][k] # None => data'[dense[d][k]] = data[dense[d][k]]
    BY <2>1, <2>4, OthersKept DEF Cell
  <2>8. \A u \in Slot \ {s} : Stays(e, u)
    <3>1. ASSUME NEW u \in Slot \ {s}, u \in e.fresh
          PROVE  refs'[own[u].topology] = 1
      <4>1. u \in Local /\ own[u].topology # None /\ refs[own[u].topology] = 1
        BY <1>4, <1>7, <3>1, OutlineParts DEF SlotMeets
      <4>2. own[u].topology \in Topology /\ own[u].topology # t
        BY <1>6, <2>7, <4>1, GridParts
      <4> QED BY <2>5, <4>1, <4>2
    <3> QED BY <2>3, <2>7, <3>1 DEF Stays
  <2>9. \A u \in Local \ {s} : Agree(e, f, u)
    BY <1>5 DEF Agree, SameVals
  <2>10. SlotMeets(f, s)'
    <3>1. t # None /\ s \notin e.fresh /\ s \notin e.listed /\ s \notin e.indexed
      BY <1>5, <1>7, NoCell DEF SlotMeets, Cell
    <3>2. job'.sure = job.sure
      BY <1>2, <1>10, SureStays DEF Proceed
    <3> QED BY <1>5, <1>6, <1>7, <2>3, <2>5, <2>7, <3>1, <3>2 DEF SlotMeets, SameVals
  <2>11. Concerns(e, f, {s})
    BY <1>1, <2>8, <2>9, <2>10 DEF Concerns
  <2>12. DenseKept /\ job' = Rest
    BY <1>1, <1>10, <2>7 DEF DenseKept, Proceed
  <2> QED BY <1>2, <1>3, <1>5, <2>6, <2>11, <2>12, StepOf
<1> QED BY <1>9, <1>10 DEF NewTopology

\* The input that a step reads is a grid, whole if the inputs were known, and no local pointer
\* that is being written.
LEMMA SharedInput ==
  ASSUME IInv, NEW e \in Outline, Meets(e), ~e.done, e.in # "dense", Readable(e), NEW i \in job.in
  PROVE  /\ i \in Slot /\ own[i].topology \in Topology /\ own[i].values \in Buffer
         /\ job.sure => data[own[i].topology] = "whole" /\ data[own[i].values] = "whole"
         /\ i \in Handle \/ (i \in Local /\ i \in e.indexed /\ i \in e.filled)
<1>1. Exact(own, dense, data, refs) /\ GridsWhole /\ LocalsMeet(e) /\ InputsMeet(e)
  BY ExactHere DEF IInv, Meets
<1>2. CASE e.in = "sparse"
  <2>1. i \in Handle /\ Held(i) /\ i \in Slot
    BY <1>1, <1>2 DEF InputsMeet, Slot
  <2>2. own[i].topology # None /\ own[i].values # None
    BY <1>1, <2>1 DEF GridsWhole
  <2>3. ASSUME job.sure
        PROVE  data[own[i].topology] = "whole" /\ data[own[i].values] = "whole"
    <3>1. i \in Handle \cap known
      BY <1>1, <2>1, <2>3 DEF InputsMeet
    <3> QED BY <1>1, <3>1 DEF GridsWhole
  <2> QED BY <1>1, <2>1, <2>2, <2>3, OwnedLives
<1>3. CASE e.in # "sparse"
  <2>1. e.in \in {"source", "tmp"} /\ i = e.in
    BY <1>1, <1>3 DEF InputsMeet, Outline, Readable, Local
  <2>2. i \in Local /\ i \in e.indexed /\ i \in e.filled /\ i \in Slot
    BY <1>3, <2>1, OutlineParts DEF Readable, Slot
  <2>3. /\ own[i].topology # None /\ own[i].values # None
        /\ job.sure => data[own[i].topology] = "whole" /\ data[own[i].values] = "whole"
    BY <1>1, <2>2 DEF LocalsMeet, Has
  <2> QED BY <1>1, <2>2, <2>3, OwnedLives
<1> QED BY <1>2, <1>3

\* A topology that nobody shares belongs to one pointer only.
LEMMA FreshAlone ==
  ASSUME IInv, NEW e \in Outline, LocalsMeet(e), NEW s \in e.fresh, NEW u \in Slot,
         own[u].topology = own[s].topology
  PROVE  u = s
<1>1. s \in Slot /\ own[s].topology # None /\ refs[own[s].topology] = 1
  BY OutlineParts DEF LocalsMeet, Slot
<1> QED BY <1>1, ExactHere, CountedOnce

LEMMA ShareKeeps ==
  ASSUME IInv, NEW s \in Local, Share(s)
  PROVE  IInv'
<1>1. At("share", s) /\ dense' = dense /\ data' = data /\ known' = known /\ job' = Rest
  BY DEF Share, Proceed
<1>2. job.todo # <<>> /\ \E e, f : Follows(<<"share", s>>, e, f)
  BY <1>1, StepComes DEF IInv
<1>3. PICK e, f : Follows(<<"share", s>>, e, f)
  BY <1>2
<1>4. /\ e \in Outline /\ f \in Outline /\ LocalsMeet(e) /\ Meets(e) /\ Allowed(<<"share", s>>, e)
      /\ f = After(<<"share", s>>, e)
  BY <1>3 DEF Follows, Meets
<1>5. /\ ~e.done /\ s \notin e.tops /\ e.in # "dense" /\ Readable(e) /\ SameVals(e, f) /\ Same(e, f)
      /\ f.tops = e.tops \cup {s} /\ f.indexed = e.indexed \cup {s} /\ f.listed = e.listed /\ f.fresh = e.fresh
  <2>1. ~e.done /\ s \notin e.tops /\ e.in # "dense" /\ Readable(e) /\ SameVals(e, f) /\ Same(e, f)
    BY <1>4, ShareIs
  <2>2. f.tops = e.tops \cup {s}
    BY <1>4, ShareIs
  <2>3. f.indexed = e.indexed \cup {s}
    BY <1>4, ShareIs
  <2>4. f.listed = e.listed /\ f.fresh = e.fresh
    BY <1>4, ShareIs
  <2> QED BY <2>1, <2>2, <2>3, <2>4
<1>6. Exact(own, dense, data, refs) /\ own \in OwnType /\ s \in Slot
  BY ExactHere DEF Slot, Exact
<1>7. \A u \in Local : SlotMeets(e, u)
  BY <1>4, SlotsMeet
<1>8. own[s].topology = None
  BY <1>5, <1>7 DEF SlotMeets
<1>9. PICK i \in job.in : /\ own' = [own EXCEPT ![s].topology = own[i].topology]
                          /\ refs' = [refs EXCEPT ![own[i].topology] = @ + 1]
  BY DEF Share
<1>10. /\ i \in Slot /\ own[i].topology \in Topology /\ (job.sure => data[own[i].topology] = "whole")
       /\ i \in Handle \/ i \in e.indexed
  BY <1>4, <1>5, SharedInput
<1>11. PICK t \in Topology : t = own[i].topology /\ (job.sure => data[t] = "whole") /\ data[t] # "free"
  <2>1. i \in Slot /\ own[i].topology # None
    BY <1>10, NoCell DEF Cell
  <2>2. own[i].topology \in Topology /\ data[own[i].topology] # "free"
    BY <1>6, <2>1, OwnedLives
  <2> QED BY <1>10, <2>2
<1>12. own' = [own EXCEPT ![s].topology = t] /\ refs' = [refs EXCEPT ![t] = @ + 1]
  BY <1>9, <1>11
<1>13. /\ own' \in OwnType /\ own'[s].topology = t /\ own'[s].values = own[s].values
       /\ \A u \in Slot : u # s => own'[u] = own[u]
  BY <1>6, <1>12, OwnTopology
<1>14. /\ refs' \in [Topology -> Nat] /\ refs'[t] = refs[t] + 1
       /\ \A x \in Topology : x # t => refs'[x] = refs[x]
  BY <1>6, <1>12 DEF Exact
<1>15. Exact(own', dense', data', refs')
  <2>1. data \in DataType /\ data[t] # "free"
    BY <1>6, <1>11 DEF Exact
  <2> QED BY <1>1, <1>6, <1>8, <1>13, <1>14, <2>1, TakeTopology
<1>16. ASSUME NEW u \in Slot \ {s}
       PROVE  Stays(e, u)
  <2>1. ASSUME u \in e.fresh
        PROVE  refs'[own[u].topology] = 1
    <3>1. u \in Local /\ own[u].topology # None /\ refs[own[u].topology] = 1 /\ u \notin e.indexed
      BY <1>4, <1>7, <2>1, OutlineParts DEF SlotMeets
    <3>2. own[u].topology # t
      BY <1>4, <1>10, <1>11, <2>1, <3>1, FreshAlone
    <3> QED BY <1>6, <1>14, <3>1, <3>2, GridParts
  <2> QED BY <1>1, <1>13, <2>1 DEF Stays
<1>17. \A u \in Local \ {s} : Agree(e, f, u)
  BY <1>5 DEF Agree, SameVals
<1>18. SlotMeets(f, s)'
  <2>1. t # None /\ s \notin e.fresh /\ s \notin e.listed
    BY <1>5, <1>7, NoCell DEF SlotMeets, Cell
  <2>2. job'.sure = job.sure
    BY <1>1, <1>2, SureStays
  <2> QED BY <1>1, <1>5, <1>7, <1>11, <1>13, <2>1, <2>2 DEF SlotMeets, SameVals
<1>19. Concerns(e, f, {s}) /\ DenseKept
  BY <1>1, <1>16, <1>17, <1>18 DEF Concerns, DenseKept
<1> QED BY <1>1, <1>2, <1>3, <1>5, <1>15, <1>19, StepOf

LEMMA IndexKeeps ==
  ASSUME IInv, NEW s \in Local, Index(s)
  PROVE  IInv'
<1>1. At("index", s) /\ dense' = dense /\ own' = own /\ refs' = refs /\ known' = known
  BY DEF Index
<1>2. job.todo # <<>> /\ \E e, f : Follows(<<"index", s>>, e, f)
  BY <1>1, StepComes DEF IInv
<1>3. PICK e, f : Follows(<<"index", s>>, e, f)
  BY <1>2
<1>4. e \in Outline /\ f \in Outline /\ LocalsMeet(e) /\ Allowed(<<"index", s>>, e) /\ f = After(<<"index", s>>, e)
  BY <1>3 DEF Follows, Meets
<1>5. /\ ~e.done /\ s \in e.listed /\ SameVals(e, f) /\ Same(e, f) /\ f.tops = e.tops
      /\ f.indexed = e.indexed \cup {s} /\ f.listed = e.listed \ {s} /\ f.fresh = e.fresh \ {s}
  <2>1. ~e.done /\ s \in e.listed /\ SameVals(e, f) /\ Same(e, f)
    BY <1>4, IndexIs
  <2>2. f.tops = e.tops
    BY <1>4, IndexIs
  <2>3. f.indexed = e.indexed \cup {s}
    BY <1>4, IndexIs
  <2>4. f.listed = e.listed \ {s}
    BY <1>4, IndexIs
  <2>5. f.fresh = e.fresh \ {s}
    BY <1>4, IndexIs
  <2> QED BY <2>1, <2>2, <2>3, <2>4, <2>5
<1>6. Exact(own, dense, data, refs) /\ own \in OwnType /\ s \in Slot /\ s \notin Handle
  BY ExactHere DEF Slot, Exact
<1>7. \A u \in Local : SlotMeets(e, u)
  BY <1>4, SlotsMeet
<1>8. /\ s \in e.fresh /\ s \in e.tops /\ own[s].topology # None
      /\ job.sure => data[own[s].topology] = "listed"
  BY <1>5, <1>7 DEF SlotMeets
<1>9. PICK t \in Topology : t = own[s].topology /\ (job.sure => data[t] = "listed") /\ data[t] # "free"
  <2>1. own[s].topology \in Topology /\ data[own[s].topology] # "free"
    BY <1>6, <1>8, OwnedLives
  <2> QED BY <1>8, <2>1
<1>10. \A u \in Slot \ {s} : own[u].topology # t
  BY <1>4, <1>8, <1>9, FreshAlone
<1>11. PICK w \in {"whole", "torn"} : /\ data' = [data EXCEPT ![t] = w]
                                      /\ ((job.sure => w = "whole") /\ Proceed) \/ Fail
  <2>1. CASE /\ data' = [data EXCEPT ![own[s].topology] = IF @ = "listed" THEN "whole" ELSE "torn"] /\ Proceed
    <3>1. PICK w \in {"whole", "torn"} : w = IF data[t] = "listed" THEN "whole" ELSE "torn"
      OBVIOUS
    <3>2. data' = [data EXCEPT ![t] = w] /\ (job.sure => w = "whole")
      BY <1>9, <2>1, <3>1
    <3> QED BY <2>1, <3>2
  <2>2. CASE data' = [data EXCEPT ![own[s].topology] = "torn"] /\ Fail
    BY <1>9, <2>2
  <2> QED BY <2>1, <2>2 DEF Index
<1>12. /\ data' \in DataType /\ data'[t] = w
       /\ \A c \in Cell : c # t => data'[c] = data[c]
  BY <1>6, <1>11 DEF Exact, DataType, Cell
<1>13. Exact(own', dense', data', refs')
  <2>1. \A c \in Cell : data'[c] = "free" <=> data[c] = "free"
    BY <1>9, <1>12
  <2> QED BY <1>1, <1>6, <1>12, <2>1, ContentsChange
<1>14. /\ \A u \in Slot : own[u].values # None => data'[own[u].values] = data[own[u].values]
       /\ \A u \in Slot \ {s} : own[u].topology # None => data'[own[u].topology] = data[own[u].topology]
       /\ \A d \in Dense, k \in 0..2 : dense[d][k] # None => data'[dense[d][k]] = data[dense[d][k]]
  <2>0. \A b \in Buffer : b \in Cell /\ b # t
    BY DEF Cell
  <2>1. ASSUME NEW u \in Slot, own[u].values # None
        PROVE  data'[own[u].values] = data[own[u].values]
    <3>1. own[u].values \in Buffer
      BY <1>6, <2>1, GridParts
    <3> QED BY <1>12, <2>0, <3>1
  <2>2. \A u \in Slot \ {s} : own[u].topology # None => data'[own[u].topology] = data[own[u].topology]
    BY <1>6, <1>10, <1>12, OwnedLives DEF Cell
  <2>3. \A d \in Dense, k \in 0..2 : dense[d][k] # None => data'[dense[d][k]] = data[dense[d][k]]
    BY <1>6, <1>12, <2>0, OwnedLives
  <2> QED BY <2>1, <2>2, <2>3
<1>15. \A u \in Slot \ {s} : Stays(e, u)
  BY <1>1, <1>4, <1>7, <1>14, OutlineParts DEF Stays, SlotMeets
<1>16. DenseKept
  BY <1>1, <1>14 DEF DenseKept
<1>17. CASE (job.sure => w = "whole") /\ Proceed
  <2>1. \A u \in Local \ {s} : Agree(e, f, u)
    BY <1>5 DEF Agree, SameVals
  <2>2. SlotMeets(f, s)'
    <3>1. job'.sure = job.sure
      BY <1>2, <1>17, SureStays DEF Proceed
    <3> QED BY <1>1, <1>5, <1>6, <1>7, <1>8, <1>9, <1>12, <1>14, <1>17, <3>1 DEF SlotMeets, SameVals
  <2>3. Concerns(e, f, {s})
    BY <1>1, <1>15, <2>1, <2>2 DEF Concerns
  <2> QED BY <1>2, <1>3, <1>5, <1>13, <1>16, <1>17, <2>3, StepOf DEF Proceed
<1>18. CASE Fail
  <2>1. CallersKept
    BY <1>1, <1>6, <1>15, <1>16 DEF CallersKept, Stays, DenseKept, Slot
  <2> QED BY <1>1, <1>2, <1>3, <1>5, <1>13, <1>18, <2>1, LocalFail DEF Fail
<1> QED BY <1>11, <1>17, <1>18

-----------------------------------------------------------------------------
(* Uploads and dispatches.                                                 *)

\* The cells that are written: topologies of the pointers T, values of the pointers V, scratch
\* buffers P of the output; and what that does to the outline.
Writes(writes, T, V, P) ==
  \A c : c \in writes <=> \/ \E s \in T : c = own[s].topology
                          \/ \E s \in V : c = own[s].values
                          \/ \E k \in P : c = dense[job.out][k]

Filling(e, f, T, V, P) ==
  /\ T \subseteq e.fresh /\ V \subseteq e.vals /\ P \subseteq e.scratch
  /\ f.tops = e.tops /\ f.fresh = e.fresh /\ f.indexed = e.indexed /\ f.vals = e.vals
  /\ f.scratch = e.scratch /\ f.in = e.in /\ f.out = e.out /\ f.done = e.done
  /\ f.listed = e.listed \cup T /\ f.filled = e.filled \cup V /\ f.passed = e.passed \cup P

LEMMA Runs ==
  ASSUME IInv, NEW op, NEW e, NEW f, Follows(op, e, f), job.todo # <<>>, ~e.done,
         NEW reads, NEW writes, Run(reads, writes), job.sure => \A c \in reads : data[c] = "whole",
         NEW T, NEW V, NEW P, Writes(writes, T, V, P), Filling(e, f, T, V, P)
  PROVE  IInv'
<1>1. refs' = refs /\ own' = own /\ dense' = dense /\ known' = known
  BY DEF Run
<1>2. /\ e \in Outline /\ f \in Outline /\ LocalsMeet(e) /\ InputsMeet(e) /\ OutputMeets(e)
      /\ Exact(own, dense, data, refs) /\ own \in OwnType /\ dense \in DenseType
  BY ExactHere DEF Follows, Meets, Exact
<1>3. \A u \in Local : SlotMeets(e, u)
  BY <1>2, SlotsMeet
<1>4. job.out \in Handle \cup Dense /\ job # Idle
  BY JobParts DEF IInv, JobKnown
<1>5. /\ \A s \in T : s \in Local /\ own[s].topology \in Topology /\ s \in e.fresh
      /\ \A s \in V : s \in Local /\ own[s].values \in Buffer /\ s \in e.vals
      /\ \A k \in P : job.out \in Dense /\ k \in 1..2 /\ k \in 0..2 /\ dense[job.out][k] \in Buffer
  <2>1. ASSUME NEW s \in T
        PROVE  s \in Local /\ own[s].topology \in Topology /\ s \in e.fresh
    <3>1. s \in e.fresh /\ s \in Local
      BY <1>2, OutlineParts DEF Filling
    <3>2. own[s].topology # None /\ s \in Slot
      BY <1>3, <3>1 DEF SlotMeets, Slot
    <3> QED BY <1>2, <3>1, <3>2, GridParts
  <2>2. ASSUME NEW s \in V
        PROVE  s \in Local /\ own[s].values \in Buffer /\ s \in e.vals
    <3>1. s \in e.vals /\ s \in Local
      BY <1>2, OutlineParts DEF Filling
    <3>2. own[s].values # None /\ s \in Slot
      BY <1>3, <3>1 DEF SlotMeets, Slot
    <3> QED BY <1>2, <3>1, <3>2, GridParts
  <2>3. ASSUME NEW k \in P
        PROVE  job.out \in Dense /\ k \in 1..2 /\ k \in 0..2 /\ dense[job.out][k] \in Buffer
    <3>1. k \in e.scratch /\ k \in 1..2 /\ k \in 0..2
      BY <1>2, OutlineParts DEF Filling
    <3>2. e.out = "dense" /\ dense[job.out][k] # None
      BY <1>2, <3>1 DEF OutputMeets
    <3>3. job.out \in Dense
      BY <1>2, <1>4, <3>2 DEF OutputMeets
    <3> QED BY <1>2, <3>1, <3>2, <3>3 DEF DenseType
  <2> QED BY <2>1, <2>2, <2>3
<1>6. /\ \A u \in Slot, s \in T : own[u].topology = own[s].topology => u = s
      /\ \A u \in Slot, s \in V : own[u].values = own[s].values => u = s
      /\ \A u \in Slot, k \in P : own[u].values # dense[job.out][k]
      /\ \A d \in Dense, l \in 0..2, s \in V : dense[d][l] # own[s].values
      /\ \A d \in Dense, k \in P : dense[d][0] # dense[job.out][k]
  <2>0. None \notin Buffer /\ Local \subseteq Slot /\ OneOwner(own, dense)
    BY <1>2, NoCell DEF Cell, Slot, Exact
  <2>1. \A u \in Slot, s \in T : own[u].topology = own[s].topology => u = s
    BY <1>2, <1>5, FreshAlone
  <2>2. ASSUME NEW u \in Slot, NEW s \in V, own[u].values = own[s].values
        PROVE  u = s
    BY <1>5, <2>0, <2>2 DEF OneOwner
  <2>3. ASSUME NEW u \in Slot, NEW k \in P
        PROVE  own[u].values # dense[job.out][k]
    BY <1>5, <2>0 DEF OneOwner
  <2>4. ASSUME NEW d \in Dense, NEW l \in 0..2, NEW s \in V
        PROVE  dense[d][l] # own[s].values
    BY <1>5, <2>0 DEF OneOwner
  <2>5. ASSUME NEW d \in Dense, NEW k \in P, dense[d][0] = dense[job.out][k]
        PROVE  FALSE
    <3>1. k = 0
      BY <1>5, <2>0, <2>5 DEF OneOwner
    <3> QED BY <1>5, <3>1
  <2> QED BY <2>1, <2>2, <2>3, <2>4, <2>5
<1>7. /\ \A c \in writes : c \in Cell /\ data[c] # "free"
      /\ \A s \in T : own[s].topology \in writes
      /\ \A s \in V : own[s].values \in writes
      /\ \A k \in P : dense[job.out][k] \in writes
  <2>1. ASSUME NEW s \in T PROVE own[s].topology \in writes /\ data[own[s].topology] # "free"
    BY <1>2, <1>5, OwnedLives, NoCell DEF Writes, Slot, Cell
  <2>2. ASSUME NEW s \in V PROVE own[s].values \in writes /\ data[own[s].values] # "free"
    BY <1>2, <1>5, OwnedLives, NoCell DEF Writes, Slot, Cell
  <2>3. ASSUME NEW k \in P PROVE dense[job.out][k] \in writes /\ data[dense[job.out][k]] # "free"
    BY <1>2, <1>5, OwnedLives, NoCell DEF Writes, Cell
  <2> QED BY <1>5, <2>1, <2>2, <2>3 DEF Writes, Cell
<1>8. Buffer \cap Topology = {} /\ None \notin Buffer /\ None \notin Topology
  BY NoCell DEF Cell
<1>a. /\ \A c \in Topology : c \in writes => \E s \in T : c = own[s].topology
      /\ \A c \in Buffer : c \in writes => (\E s \in V : c = own[s].values) \/ \E k \in P : c = dense[job.out][k]
      /\ None \notin writes
  BY <1>5, <1>8 DEF Writes
<1>9. /\ \A h \in Handle : own[h].topology \notin writes /\ own[h].values \notin writes
      /\ \A d \in Dense : dense[d][0] \notin writes
  <2>1. ASSUME NEW h \in Handle PROVE own[h].topology \notin writes
    <3>1. h \in Slot /\ h \notin Local /\ own[h].topology \in Topology \cup {None}
      BY <1>2, GridParts DEF Slot
    <3>2. \A s \in T : own[h].topology # own[s].topology
      BY <1>5, <1>6, <3>1
    <3> QED BY <1>a, <3>1, <3>2
  <2>2. ASSUME NEW h \in Handle PROVE own[h].values \notin writes
    <3>1. h \in Slot /\ h \notin Local /\ own[h].values \in Buffer \cup {None}
      BY <1>2, GridParts DEF Slot
    <3>2. \A s \in V : own[h].values # own[s].values
      BY <1>5, <1>6, <3>1
    <3>3. \A k \in P : own[h].values # dense[job.out][k]
      BY <1>6, <3>1
    <3>4. None \notin writes
      BY <1>a
    <3>5. CASE own[h].values \in Buffer
      <4>1. own[h].values \in writes =>
              (\E s \in V : own[h].values = own[s].values) \/ \E k \in P : own[h].values = dense[job.out][k]
        BY <1>a, <3>5
      <4> QED BY <3>2, <3>3, <4>1
    <3>6. CASE own[h].values = None
      BY <3>4, <3>6
    <3> QED BY <3>1, <3>5, <3>6
  <2>3. ASSUME NEW d \in Dense PROVE dense[d][0] \notin writes
    <3>1. dense[d][0] \in Buffer \cup {None} /\ 0 \in 0..2
      BY <1>2 DEF DenseType
    <3>2. (\A s \in V : dense[d][0] # own[s].values) /\ \A k \in P : dense[d][0] # dense[job.out][k]
      BY <1>6, <3>1
    <3>3. CASE dense[d][0] \in Buffer
      BY <1>a, <3>2, <3>3
    <3> QED BY <1>a, <3>1, <3>3
  <2> QED BY <2>1, <2>2, <2>3
<1>10. PICK w : /\ data' = [c \in Cell |-> IF c \in writes THEN w[c] ELSE data[c]]
                /\ \A c \in Cell : w[c] \in {"listed", "whole", "torn"}
                /\ \/ Fail
                   \/ /\ Proceed
                      /\ job.sure => \A c \in Cell : w[c] = IF c \in Topology THEN "listed" ELSE "whole"
  <2>0. DOMAIN data = Cell
    BY <1>2 DEF Exact, DataType
  <2>1. CASE data' = [c \in DOMAIN data |-> IF c \in writes THEN "torn" ELSE data[c]] /\ Fail
    <3>1. PICK w : w = [c \in Cell |-> "torn"]
      OBVIOUS
    <3>2. data' = [c \in Cell |-> IF c \in writes THEN w[c] ELSE data[c]]
      BY <2>0, <2>1, <3>1
    <3> QED BY <2>1, <3>1, <3>2
  <2> DEFINE result(c) == IF \E r \in reads : data[r] # "whole" THEN "torn"
                          ELSE IF c \in Topology THEN "listed" ELSE "whole"
  <2>2. CASE /\ data' = [c \in DOMAIN data |-> IF c \in writes THEN result(c) ELSE data[c]]
             /\ Proceed
    <3>1. PICK w : w = [c \in Cell |-> result(c)]
      OBVIOUS
    <3>2. data' = [c \in Cell |-> IF c \in writes THEN w[c] ELSE data[c]]
      BY <2>0, <2>2, <3>1
    <3>3. \A c \in Cell : w[c] \in {"listed", "whole", "torn"}
      BY <3>1
    <3>4. job.sure => \A c \in Cell : w[c] = IF c \in Topology THEN "listed" ELSE "whole"
      BY <3>1
    <3> QED BY <2>2, <3>2, <3>3, <3>4
  <2> QED BY <2>1, <2>2 DEF Run
<1>11. /\ data' \in DataType
       /\ \A c \in Cell : data'[c] = IF c \in writes THEN w[c] ELSE data[c]
  BY <1>2, <1>10 DEF Exact, DataType
<1>12. Exact(own', dense', data', refs')
  <2>1. \A c \in Cell : data'[c] = "free" <=> data[c] = "free"
    BY <1>7, <1>10, <1>11
  <2> QED BY <1>1, <1>2, <1>11, <2>1, ContentsChange
<1>13. CallersKept
  <2>1. ASSUME NEW h \in Handle
        PROVE  /\ own[h].topology # None => data'[own[h].topology] = data[own[h].topology]
               /\ own[h].values # None => data'[own[h].values] = data[own[h].values]
    <3>1. own[h].topology \in Topology \cup {None} /\ own[h].values \in Buffer \cup {None}
      BY <1>2, GridParts DEF Slot
    <3> QED BY <1>9, <1>11, <3>1 DEF Cell
  <2>2. ASSUME NEW d \in Dense
        PROVE  dense[d][0] # None => data'[dense[d][0]] = data[dense[d][0]]
    <3>1. dense[d][0] \in Buffer \cup {None}
      BY <1>2 DEF DenseType
    <3> QED BY <1>9, <1>11, <3>1 DEF Cell
  <2> QED BY <1>1, <2>1, <2>2 DEF CallersKept
<1>14. CASE Fail
  BY <1>1, <1>12, <1>13, <1>14, LocalFail DEF Fail
<1>15. CASE Proceed /\ (job.sure => \A c \in Cell : w[c] = IF c \in Topology THEN "listed" ELSE "whole")
  <2>1. job' = Rest /\ job'.in = job.in /\ job'.out = job.out /\ job'.sure = job.sure /\ job' \in JobType
    BY <1>15, RestIs DEF Proceed, IInv
  <2>2. job.sure => /\ \A c \in Topology : data'[c] = IF c \in writes THEN "listed" ELSE data[c]
                    /\ \A c \in Buffer : data'[c] = IF c \in writes THEN "whole" ELSE data[c]
    BY <1>8, <1>11, <1>15, NoCell DEF Cell
  <2>3. ASSUME NEW u \in Local
        PROVE  SlotMeets(f, u)'
    <3>0. u \in Slot /\ own[u].topology \in Topology \cup {None} /\ own[u].values \in Buffer \cup {None}
      BY <1>2, GridParts DEF Slot
    <3>1. SlotMeets(e, u)
      BY <1>3
    <3>2. u \in f.listed => u \in f.fresh /\ (job.sure => data'[own[u].topology] = "listed")
      <4>1. CASE u \in T
        BY <1>5, <1>7, <2>2, <4>1 DEF Filling
      <4>2. CASE u \in e.listed
        BY <2>2, <3>0, <3>1, <4>2 DEF Filling, SlotMeets
      <4> QED BY <4>1, <4>2 DEF Filling
    <3>3. u \in f.indexed =>
            u \in f.tops /\ u \notin f.fresh /\ (job.sure => data'[own[u].topology] = "whole")
      <4>1. SUFFICES ASSUME u \in e.indexed
                     PROVE  u \in e.tops /\ u \notin e.fresh /\ (job.sure => data'[own[u].topology] = "whole")
        BY DEF Filling
      <4>2. /\ u \in e.tops /\ u \notin e.fresh /\ own[u].topology \in Topology
            /\ job.sure => data[own[u].topology] = "whole"
        BY <3>0, <3>1, <4>1 DEF SlotMeets
      <4>3. \A s \in T : own[u].topology # own[s].topology
        BY <1>5, <1>6, <3>0, <4>2
      <4>4. own[u].topology \notin writes
        BY <1>a, <4>2, <4>3
      <4> QED BY <2>2, <4>2, <4>4
    <3>4. u \in f.filled => u \in f.vals /\ (job.sure => data'[own[u].values] = "whole")
      <4>1. CASE u \in V
        BY <1>5, <1>7, <2>2, <4>1 DEF Filling
      <4>2. CASE u \in e.filled
        BY <2>2, <3>0, <3>1, <4>2 DEF Filling, SlotMeets
      <4> QED BY <4>1, <4>2 DEF Filling
    <3> QED BY <1>1, <2>1, <3>1, <3>2, <3>3, <3>4 DEF SlotMeets, Filling
  <2>4. LocalsMeet(f)'
    BY <1>2, <2>3, SlotsMeetNext
  <2>5. InputsMeet(f)'
    BY <1>2, <1>13, <2>1, InputsKept DEF Filling
  <2>6. OutputMeets(f)'
    <3>1. ASSUME NEW k \in f.passed
          PROVE  k \in e.scratch /\ (job.sure => data'[dense[job.out][k]] = "whole")
      <4>1. CASE k \in P
        BY <1>5, <1>7, <2>2, <4>1 DEF Filling
      <4>2. CASE k \in e.passed
        <5>1. /\ k \in e.scratch /\ (job.sure => data[dense[job.out][k]] = "whole") /\ k \in 0..2
              /\ e.out = "dense" /\ dense[job.out][k] # None
          BY <1>2, <4>2, OutlineParts DEF OutputMeets, Has
        <5>2. job.out \in Dense
          BY <1>2, <1>4, <5>1 DEF OutputMeets
        <5>3. dense[job.out][k] \in Buffer
          BY <1>2, <5>1, <5>2 DEF DenseType
        <5> QED BY <2>2, <5>1, <5>3
      <4> QED BY <3>1, <4>1, <4>2 DEF Filling
    <3>2. /\ Held(job.out)' <=> Held(job.out)
          /\ Filled(job.out)' <=> Filled(job.out)
      BY <1>1, <2>1 DEF Held, Filled
    <3> QED BY <1>1, <1>2, <2>1, <3>1, <3>2 DEF OutputMeets, Filling, Has
  <2>7. GridsWhole' /\ JobKnown'
    BY <1>13, <2>1, <2>4, <2>5, <2>6, Proceeds DEF Filling
  <2>8. DenseShaped'
    BY <1>1 DEF IInv, DenseShaped, Filled
  <2> QED BY <1>12, <1>13, <2>1, <2>7, <2>8, ExactKept DEF IInv
<1> QED BY <1>10, <1>14, <1>15

\* If the inputs were known, what a step reads is whole.
LEMMA WholeCells ==
  ASSUME NEW e \in Outline, LocalsMeet(e), job.sure, NEW S \in SUBSET Local, WholeIn(e, S), NEW s \in S,
         NEW c \in Cells(s)
  PROVE  data[c] = "whole"
<1>1. SlotMeets(e, s) /\ s \in Local
  BY SlotsMeet
<1>2. CASE c = own[s].topology /\ c # None
  BY <1>1, <1>2 DEF SlotMeets, WholeIn
<1>3. CASE c = own[s].values /\ c # None
  BY <1>1, <1>3 DEF SlotMeets, WholeIn
<1> QED BY <1>2, <1>3 DEF Cells

LEMMA WholeInputs ==
  ASSUME IInv, NEW e \in Outline, Meets(e), ~e.done, Readable(e), job.sure, NEW c \in Inputs
  PROVE  data[c] = "whole"
<1>1. PICK x \in job.in : c \in IF x \in Dense THEN {dense[x][0]} ELSE Cells(x)
  BY DEF Inputs
<1>2. CASE e.in # "dense"
  <2>1. x \in Slot /\ data[own[x].topology] = "whole" /\ data[own[x].values] = "whole"
    BY <1>2, SharedInput
  <2>2. x \notin Dense
    BY <2>1 DEF Slot
  <2> QED BY <1>1, <2>1, <2>2 DEF Cells
<1>3. CASE e.in = "dense"
  <2>1. x \in Handle \/ x \in Dense
    BY <1>3 DEF Meets, InputsMeet
  <2>2. x \in known
    BY <2>1 DEF Meets, InputsMeet
  <2>3. CASE x \in Handle
    BY <1>1, <2>2, <2>3 DEF IInv, GridsWhole, Cells
  <2>4. CASE x \in Dense
    BY <1>1, <2>2, <2>4 DEF IInv, GridsWhole
  <2> QED BY <2>1, <2>3, <2>4
<1> QED BY <1>2, <1>3

\* A step that writes all that the pointers S own.
LEMMA Writing ==
  ASSUME IInv, NEW op, NEW e, NEW f, Follows(op, e, f), job.todo # <<>>, ~e.done,
         NEW S \in SUBSET Local, Writable(e, S), f = Written(e, S),
         NEW reads, NEW writes, Run(reads, writes), job.sure => \A c \in reads : data[c] = "whole",
         \A c : c \in writes <=> \E s \in S : c \in Cells(s)
  PROVE  IInv'
<1>1. e \in Outline /\ \A s \in Local : SlotMeets(e, s)
  BY SlotsMeet DEF Follows, Meets
<1>2. PICK T, V : T = S \cap e.tops /\ V = S \cap e.vals
  OBVIOUS
<1>3. Filling(e, f, T, V, {})
  <2>1. /\ f.tops = e.tops /\ f.fresh = e.fresh /\ f.indexed = e.indexed /\ f.vals = e.vals
        /\ f.listed = e.listed \cup T /\ f.filled = e.filled \cup V /\ Same(e, f)
    BY <1>1, <1>2, WrittenIs
  <2>2. T \subseteq e.fresh /\ V \subseteq e.vals
    BY <1>2 DEF Writable
  <2> QED BY <2>1, <2>2 DEF Filling, Same
<1>4. Writes(writes, T, V, {})
  <2>1. ASSUME NEW c, NEW s \in S, c \in Cells(s)
        PROVE  (s \in T /\ c = own[s].topology) \/ (s \in V /\ c = own[s].values)
    BY <1>1, <1>2, <2>1 DEF Cells, SlotMeets
  <2>2. ASSUME NEW s \in T PROVE own[s].topology \in Cells(s) /\ s \in S
    BY <1>1, <1>2 DEF Cells, SlotMeets
  <2>3. ASSUME NEW s \in V PROVE own[s].values \in Cells(s) /\ s \in S
    BY <1>1, <1>2 DEF Cells, SlotMeets
  <2> QED BY <2>1, <2>2, <2>3 DEF Writes
<1> QED BY <1>3, <1>4, Runs

LEMMA SendKeeps ==
  ASSUME IInv, Send
  PROVE  IInv'
<1>1. PICK s \in {"weights", "next", "g"} : At("send", s) /\ Run({}, Cells(s))
  BY DEF Send
<1>2. PICK e, f : Follows(<<"send", s>>, e, f)
  BY <1>1, StepComes DEF IInv
<1>3. job.todo # <<>> /\ s \in Local
  BY <1>1 DEF At, Local
<1>4. ~e.done /\ Writable(e, {s}) /\ f = Written(e, {s})
  BY <1>2, SendIs DEF Follows
<1>5. \A c : c \in Cells(s) <=> \E u \in {s} : c \in Cells(u)
  OBVIOUS
<1> QED BY <1>1, <1>2, <1>3, <1>4, <1>5, Writing

\* The inputs and the cells that are read with them.
LEMMA ReadsWhole ==
  ASSUME IInv, NEW e, NEW f, NEW op, Follows(op, e, f), ~e.done, Readable(e), NEW S \in SUBSET Local, WholeIn(e, S)
  PROVE  job.sure => /\ \A c \in Inputs : data[c] = "whole"
                     /\ \A s \in S : \A c \in Cells(s) : data[c] = "whole"
BY WholeCells, WholeInputs DEF Follows, Meets

LEMMA ListKeeps ==
  ASSUME IInv, List
  PROVE  IInv'
<1>0. {"source", "marks"} \subseteq Local /\ {"cand", "flags"} \subseteq Local /\ {"g"} \subseteq Local
      /\ {"weights"} \subseteq Local
  BY DEF Local
<1>1. CASE At("list", "source") /\ Run({}, Cells("source") \cup Cells("marks"))
  <2>1. PICK e, f : Follows(<<"list", "source">>, e, f)
    BY <1>1, StepComes DEF IInv
  <2>2. ~e.done /\ Writable(e, {"source", "marks"}) /\ f = Written(e, {"source", "marks"}) /\ job.todo # <<>>
    BY <1>1, <2>1, ListIs DEF Follows, At
  <2>3. \A c : c \in Cells("source") \cup Cells("marks") <=> \E u \in {"source", "marks"} : c \in Cells(u)
    OBVIOUS
  <2> QED BY <1>0, <1>1, <2>1, <2>2, <2>3, Writing
<1>2. CASE At("list", "cand") /\ Run(Inputs \cup Cells("weights"), Cells("cand") \cup Cells("flags"))
  <2>1. PICK e, f : Follows(<<"list", "cand">>, e, f)
    BY <1>2, StepComes DEF IInv
  <2>2. /\ ~e.done /\ Writable(e, {"cand", "flags"}) /\ f = Written(e, {"cand", "flags"}) /\ job.todo # <<>>
        /\ Readable(e) /\ WholeIn(e, {"weights"})
    BY <1>2, <2>1, ListIs DEF Follows, At
  <2>3. \A c : c \in Cells("cand") \cup Cells("flags") <=> \E u \in {"cand", "flags"} : c \in Cells(u)
    OBVIOUS
  <2>4. job.sure => \A c \in Inputs \cup Cells("weights") : data[c] = "whole"
    BY <1>0, <2>1, <2>2, ReadsWhole
  <2> QED BY <1>0, <1>2, <2>1, <2>2, <2>3, <2>4, Writing
<1>3. CASE At("list", "g") /\ Run(Inputs \cup Cells("cand") \cup Cells("flags"), Cells("g"))
  <2>1. PICK e, f : Follows(<<"list", "g">>, e, f)
    BY <1>3, StepComes DEF IInv
  <2>2. /\ ~e.done /\ Writable(e, {"g"}) /\ f = Written(e, {"g"}) /\ job.todo # <<>>
        /\ Readable(e) /\ WholeIn(e, {"cand", "flags"})
    BY <1>3, <2>1, ListIs DEF Follows, At
  <2>3. \A c : c \in Cells("g") <=> \E u \in {"g"} : c \in Cells(u)
    OBVIOUS
  <2>4. job.sure => \A c \in Inputs \cup Cells("cand") \cup Cells("flags") : data[c] = "whole"
    BY <1>0, <2>1, <2>2, ReadsWhole
  <2> QED BY <1>0, <1>3, <2>1, <2>2, <2>3, <2>4, Writing
<1> QED BY <1>1, <1>2, <1>3 DEF List

LEMMA MarkKeeps ==
  ASSUME IInv, Mark
  PROVE  IInv'
<1>0. {"flags"} \subseteq Local /\ {"cand", "weights"} \subseteq Local
  BY DEF Local
<1>1. At("mark", "flags") /\ Run(Inputs \cup Cells("cand") \cup Cells("weights"), Cells("flags"))
  BY DEF Mark
<1>2. PICK e, f : Follows(<<"mark", "flags">>, e, f)
  BY <1>1, StepComes DEF IInv
<1>3. /\ ~e.done /\ Writable(e, {"flags"}) /\ f = Written(e, {"flags"}) /\ job.todo # <<>>
      /\ Readable(e) /\ WholeIn(e, {"cand", "weights"})
  BY <1>1, <1>2, ListIs DEF Follows, At
<1>4. \A c : c \in Cells("flags") <=> \E u \in {"flags"} : c \in Cells(u)
  OBVIOUS
<1>5. job.sure => \A c \in Inputs \cup Cells("cand") \cup Cells("weights") : data[c] = "whole"
  BY <1>0, <1>2, <1>3, ReadsWhole
<1> QED BY <1>0, <1>1, <1>2, <1>3, <1>4, <1>5, Writing

LEMMA FillKeeps ==
  ASSUME IInv, Fill
  PROVE  IInv'
<1>0. {"weights"} \subseteq Local /\ "g" \in Local
  BY DEF Local
<1>1. /\ At("fill", "g")
      /\ Run(Inputs \cup Cells("weights") \cup {own["g"].topology}, {own["g"].values})
  BY DEF Fill
<1>2. PICK e, f : Follows(<<"fill", "g">>, e, f)
  BY <1>1, StepComes DEF IInv
<1>3. e \in Outline /\ SlotMeets(e, "g")
  BY <1>0, <1>2, SlotsMeet DEF Follows, Meets
<1>4. /\ ~e.done /\ job.todo # <<>> /\ Readable(e) /\ WholeIn(e, {"weights"}) /\ "g" \in e.indexed /\ "g" \in e.vals
      /\ SameTops(e, f) /\ Same(e, f) /\ f.vals = e.vals /\ f.filled = e.filled \cup {"g"}
  <2>1. /\ ~e.done /\ job.todo # <<>> /\ Readable(e) /\ WholeIn(e, {"weights"}) /\ "g" \in e.indexed /\ "g" \in e.vals
    BY <1>1, <1>2, FillIs DEF Follows, At
  <2>2. SameTops(e, f) /\ Same(e, f) /\ f.vals = e.vals
    BY <1>2, FillIs DEF Follows
  <2>3. f.filled = e.filled \cup {"g"}
    BY <1>2, FillIs DEF Follows
  <2> QED BY <2>1, <2>2, <2>3
<1>5. job.sure => \A c \in Inputs \cup Cells("weights") \cup {own["g"].topology} : data[c] = "whole"
  <2>1. job.sure => \A c \in Inputs \cup Cells("weights") : data[c] = "whole"
    BY <1>0, <1>2, <1>4, ReadsWhole
  <2> QED BY <1>3, <1>4, <2>1 DEF SlotMeets
<1>6. Filling(e, f, {}, {"g"}, {})
  BY <1>4 DEF Filling, Same, SameTops
<1>7. Writes({own["g"].values}, {}, {"g"}, {})
  BY DEF Writes
<1> QED BY <1>1, <1>2, <1>4, <1>5, <1>6, <1>7, Runs

-----------------------------------------------------------------------------
(* Steps on a dense grid.                                                  *)

LEMMA ScratchIs ==
  ASSUME NEW e \in Outline, NEW k, NEW f, f = [e EXCEPT !.scratch = @ \cup {k}]
  PROVE  /\ SameTops(e, f) /\ SameVals(e, f) /\ f.passed = e.passed /\ f.in = e.in /\ f.out = e.out
         /\ f.done = e.done /\ f.scratch = e.scratch \cup {k}
BY DEF Outline, SameTops, SameVals

LEMMA DoneIs ==
  ASSUME NEW e \in Outline, NEW f, f = [e EXCEPT !.done = TRUE]
  PROVE  /\ SameTops(e, f) /\ SameVals(e, f) /\ f.passed = e.passed /\ f.in = e.in /\ f.out = e.out
         /\ f.done /\ f.scratch = e.scratch
BY DEF Outline, SameTops, SameVals

\* What writes scratch buffer k of the output.
LEMMA WritesScratch ==
  ASSUME IInv, NEW op, NEW e, NEW f, Follows(op, e, f), job.todo # <<>>, ~e.done, NEW k \in e.scratch,
         f = [e EXCEPT !.passed = @ \cup {k}],
         NEW reads, job.sure => \A c \in reads : data[c] = "whole", Run(reads, {dense[job.out][k]})
  PROVE  IInv'
<1>1. Filling(e, f, {}, {}, {k})
  <2>1. /\ SameTops(e, f) /\ SameVals(e, f) /\ f.scratch = e.scratch /\ f.in = e.in /\ f.out = e.out
        /\ f.done = e.done /\ f.passed = e.passed \cup {k}
    BY DEF Follows, Outline, SameTops, SameVals
  <2> QED BY <2>1 DEF Filling, SameTops, SameVals
<1>2. Writes({dense[job.out][k]}, {}, {}, {k})
  BY DEF Writes
<1> QED BY <1>1, <1>2, Runs

LEMMA PassKeeps ==
  ASSUME IInv, NEW p \in Nat, Pass(p)
  PROVE  IInv'
<1>0. {"weights"} \subseteq Local /\ "weights" \in {"weights"}
  BY DEF Local
<1>1. At("pass", p) /\ Run({Current(p)} \cup Cells("weights"), {dense[job.out][1 + (p % 2)]})
  BY DEF Pass
<1>2. PICK e, f : Follows(<<"pass", p>>, e, f)
  BY <1>1, StepComes DEF IInv
<1>3. /\ e \in Outline /\ LocalsMeet(e) /\ InputsMeet(e) /\ OutputMeets(e)
      /\ Allowed(<<"pass", p>>, e) /\ f = After(<<"pass", p>>, e)
  BY <1>2 DEF Follows, Meets
<1>4. /\ ~e.done /\ job.todo # <<>> /\ e.out = "dense" /\ WholeIn(e, {"weights"}) /\ 1 + (p % 2) \in e.scratch
      /\ IF p = 0 THEN e.in = "self" ELSE LastPass(p) \in e.passed
      /\ f = [e EXCEPT !.passed = @ \cup {1 + (p % 2)}]
  BY <1>1, <1>3, DenseStepIs DEF At
<1>5. job.out \in Dense /\ Filled(job.out)
  BY <1>1, <1>3, <1>4, StepComes DEF OutputMeets, IInv
<1>6. job.sure => data[Current(p)] = "whole"
  <2>1. CASE p = 0
    <3>1. job.sure => job.out \in known
      BY <1>3, <1>4, <1>5, <2>1 DEF InputsMeet
    <3> QED BY <1>5, <2>1, <3>1 DEF IInv, GridsWhole, Current
  <2>2. CASE p # 0
    <3>1. Current(p) = dense[job.out][LastPass(p)]
      BY <2>2 DEF Current, LastPass
    <3> QED BY <1>3, <1>4, <2>2, <3>1 DEF OutputMeets, Has
  <2> QED BY <2>1, <2>2
<1>7. job.sure => \A c \in {Current(p)} \cup Cells("weights") : data[c] = "whole"
  BY <1>0, <1>3, <1>4, <1>6, WholeCells
<1> QED BY <1>1, <1>2, <1>4, <1>7, WritesScratch

LEMMA ComposeKeeps ==
  ASSUME IInv, Compose
  PROVE  IInv'
<1>1. At("compose", 1) /\ Run(Inputs, {dense[job.out][1]})
  BY DEF Compose
<1>2. PICK e, f : Follows(<<"compose", 1>>, e, f)
  BY <1>1, StepComes DEF IInv
<1>3. e \in Outline /\ Meets(e) /\ Allowed(<<"compose", 1>>, e) /\ f = After(<<"compose", 1>>, e)
  BY <1>2 DEF Follows
<1>4. /\ ~e.done /\ job.todo # <<>> /\ 1 \in e.scratch /\ Readable(e)
      /\ f = [e EXCEPT !.passed = @ \cup {1}]
  BY <1>1, <1>3, DenseStepIs DEF At
<1>5. job.sure => \A c \in Inputs : data[c] = "whole"
  BY <1>3, <1>4, WholeInputs
<1>6. PICK k \in e.scratch : k = 1
  BY <1>4
<1>7. f = [e EXCEPT !.passed = @ \cup {k}] /\ ~e.done /\ job.todo # <<>>
  BY <1>4, <1>6
<1>8. PICK reads : reads = Inputs
  OBVIOUS
<1>9. (job.sure => \A c \in reads : data[c] = "whole") /\ Run(reads, {dense[job.out][k]})
  BY <1>1, <1>5, <1>6, <1>8
<1> QED BY <1>2, <1>7, <1>9, WritesScratch

LEMMA ScratchKeeps ==
  ASSUME IInv, NEW k \in 1..2, Scratch(k)
  PROVE  IInv'
<1>1. At("scratch", k) /\ own' = own /\ refs' = refs /\ known' = known
  BY DEF Scratch
<1>2. job.todo # <<>> /\ \E e, f : Follows(<<"scratch", k>>, e, f)
  BY <1>1, StepComes DEF IInv
<1>3. PICK e, f : Follows(<<"scratch", k>>, e, f)
  BY <1>2
<1>4. /\ e \in Outline /\ f \in Outline /\ LocalsMeet(e) /\ InputsMeet(e) /\ OutputMeets(e)
      /\ Allowed(<<"scratch", k>>, e) /\ f = After(<<"scratch", k>>, e)
  BY <1>3 DEF Follows, Meets
<1>5. /\ ~e.done /\ e.out = "dense" /\ f = [e EXCEPT !.scratch = @ \cup {k}]
  BY <1>4, DenseStepIs
<1>6. /\ SameTops(e, f) /\ SameVals(e, f) /\ f.passed = e.passed /\ f.in = e.in /\ f.out = e.out
      /\ f.done = e.done /\ f.scratch = e.scratch \cup {k}
  BY <1>4, <1>5, ScratchIs
<1>7. job.out \in Dense /\ Filled(job.out) /\ k \in 0..2 /\ 0 \in 0..2 /\ k # 0
  BY <1>1, <1>4, <1>5, StepComes DEF OutputMeets, IInv
<1>8. Exact(own, dense, data, refs) /\ dense \in DenseType
  BY ExactHere DEF Exact
<1>9. \A u \in Local : SlotMeets(e, u)
  BY <1>4, SlotsMeet
<1>10. CASE dense[job.out][k] = None /\ UNCHANGED <<dense, data>> /\ Fail
  <2>1. Exact(own', dense', data', refs') /\ CallersKept
    BY <1>1, <1>8, <1>10 DEF CallersKept
  <2> QED BY <1>2, <1>3, <1>5, <1>10, <2>1, LocalFail DEF Fail
<1>11. CASE /\ Exact(own', dense', data', refs') /\ CallersKept /\ DenseShaped' /\ Proceed
            /\ \A d \in Dense, l \in 0..2 : dense[d][l] # None =>
                 dense'[d][l] = dense[d][l] /\ data'[dense[d][l]] = data[dense[d][l]]
            /\ dense'[job.out][k] # None
            /\ \A u \in Slot : Stays(e, u)
  <2>1. job' = Rest /\ job'.in = job.in /\ job'.out = job.out /\ job'.sure = job.sure /\ job' \in JobType
    BY <1>2, <1>11, RestIs DEF Proceed, IInv
  <2>2. LocalsMeet(f)'
    <3>1. \A u \in Local : Agree(e, f, u)
      BY <1>6 DEF Agree, SameTops, SameVals
    <3>2. \A u \in Local : SlotMeets(f, u)'
      BY <1>9, <1>11, <2>1, <3>1, SlotStays DEF Slot
    <3> QED BY <1>4, <3>2, SlotsMeetNext
  <2>3. InputsMeet(f)'
    BY <1>4, <1>6, <1>11, <2>1, InputsKept
  <2>4. OutputMeets(f)'
    <3>1. job.out \notin Handle /\ Filled(job.out)'
      BY <1>7, <1>11, <2>1 DEF Filled, CallersKept
    <3>2. ASSUME NEW l \in e.scratch
          PROVE  dense'[job.out][l] = dense[job.out][l] /\ dense[job.out][l] # None
                 /\ data'[dense[job.out][l]] = data[dense[job.out][l]]
      <4>1. l \in 0..2 /\ dense[job.out][l] # None
        BY <1>4, <1>5, OutlineParts DEF OutputMeets
      <4> QED BY <1>7, <1>11, <4>1
    <3> QED BY <1>4, <1>5, <1>6, <1>11, <2>1, <3>1, <3>2 DEF OutputMeets, Filled, Has
  <2>5. GridsWhole' /\ JobKnown'
    BY <1>2, <1>3, <1>6, <1>11, <2>1, <2>2, <2>3, <2>4, Proceeds
  <2> QED BY <1>11, <2>1, <2>5, ExactKept DEF IInv
<1>12. CASE dense[job.out][k] # None /\ UNCHANGED <<dense, data>> /\ Proceed
  <2>1. Exact(own', dense', data', refs') /\ CallersKept /\ DenseShaped'
    BY <1>1, <1>8, <1>12 DEF CallersKept, IInv, DenseShaped, Filled
  <2>2. \A u \in Slot : Stays(e, u)
    BY <1>1, <1>4, <1>9, <1>12, OutlineParts DEF Stays, SlotMeets
  <2> QED BY <1>11, <1>12, <2>1, <2>2
<1>13. CASE /\ dense[job.out][k] = None /\ Free(Buffer) # {}
            /\ dense' = [dense EXCEPT ![job.out][k] = Min(Free(Buffer))]
            /\ data' = [data EXCEPT ![Min(Free(Buffer))] = "blank"] /\ Proceed
  <2>1. PICK b \in Buffer : b = Min(Free(Buffer)) /\ data[b] = "free"
    BY <1>13, MinFree DEF Cell
  <2>2. dense' = [dense EXCEPT ![job.out][k] = b] /\ data' = [data EXCEPT ![b] = "blank"]
    BY <1>13, <2>1
  <2>3. /\ dense' \in DenseType /\ dense'[job.out][k] = b
        /\ \A d \in Dense, l \in 0..2 : d # job.out \/ l # k => dense'[d][l] = dense[d][l]
        /\ \A d \in Dense : d # job.out => dense'[d] = dense[d]
    BY <1>7, <1>8, <2>2 DEF DenseType
  <2>4. /\ data' \in DataType /\ data'[b] = "blank"
        /\ \A c \in Cell : c # b => data'[c] = data[c]
    BY <1>8, <2>2 DEF Exact, DataType, Cell
  <2>5. Exact(own', dense', data', refs')
    <3>1. PICK d \in Dense : d = job.out
      BY <1>7
    <3>2. /\ dense[d][k] = None /\ dense'[d][k] = b
          /\ \A x \in Dense, l \in 0..2 : x # d \/ l # k => dense'[x][l] = dense[x][l]
      BY <1>13, <2>3, <3>1
    <3>3. dense' \in DenseType /\ data'[b] # "free" /\ data[b] = "free"
      BY <2>1, <2>3, <2>4
    <3> QED BY <1>1, <1>7, <1>8, <2>4, <3>2, <3>3, TakeScratch
  <2>6. /\ \A u \in Slot : own[u].topology # None => data'[own[u].topology] = data[own[u].topology]
        /\ \A u \in Slot : own[u].values # None => data'[own[u].values] = data[own[u].values]
        /\ \A d \in Dense, l \in 0..2 : dense[d][l] # None => data'[dense[d][l]] = data[dense[d][l]]
    BY <2>1, <2>4, OthersKept DEF Cell
  <2>7. CallersKept
    BY <1>1, <1>7, <2>3, <2>6 DEF CallersKept, Slot
  <2>8. DenseShaped'
    <3>1. ASSUME NEW d \in Dense, ~Filled(d)' PROVE dense'[d] = NoGrid
      BY <1>7, <2>3, <3>1 DEF Filled, IInv, DenseShaped
    <3> QED BY <3>1 DEF DenseShaped, Filled
  <2>9. \A u \in Slot : Stays(e, u)
    BY <1>1, <1>4, <1>9, <2>6, OutlineParts DEF Stays, SlotMeets
  <2>10. b # None
    BY NoCell DEF Cell
  <2>11. \A d \in Dense, l \in 0..2 : dense[d][l] # None => dense'[d][l] = dense[d][l]
    BY <1>13, <2>3
  <2> QED BY <1>11, <1>13, <2>3, <2>5, <2>6, <2>7, <2>8, <2>9, <2>10, <2>11
<1> QED BY <1>10, <1>12, <1>13 DEF Scratch

-----------------------------------------------------------------------------
(* Steps that replace the output, and steps that free.                     *)

OthersUntouched(x) ==
  /\ \A h \in Handle : h # x =>
       /\ own'[h] = own[h]
       /\ own[h].topology # None => data'[own[h].topology] = data[own[h].topology]
       /\ own[h].values # None => data'[own[h].values] = data[own[h].values]
  /\ \A d \in Dense : d # x =>
       /\ dense'[d][0] = dense[d][0]
       /\ dense[d][0] # None => data'[dense[d][0]] = data[dense[d][0]]

OutputWhole(x) ==
  /\ x \in Handle => /\ own[x].topology # None /\ own[x].values # None
                     /\ job.sure => data[own[x].topology] = "whole" /\ data[own[x].values] = "whole"
  /\ x \in Dense => dense[x][0] # None /\ (job.sure => data[dense[x][0]] = "whole")

LEMMA Delivers ==
  ASSUME IInv, NEW op, NEW e, NEW f, Follows(op, e, f), job.todo # <<>>, job' = Rest, ~e.done,
         known' = Credited,
         f.done, f.in = e.in, f.out = e.out, f.scratch = e.scratch, f.passed = e.passed, LocalsMeet(f)',
         NEW x, x = job.out, OthersUntouched(x), OutputWhole(x)', Exact(own', dense', data', refs'), DenseShaped'
  PROVE  IInv'
<1>1. TypeOK /\ GridsWhole /\ JobKnown /\ job # Idle
  BY JobParts DEF IInv
<1>2. /\ job'.out = job.out /\ job'.ok = job.ok /\ job'.before = job.before /\ job'.todo = Tail(job.todo)
      /\ job'.in = job.in /\ job'.sure = job.sure /\ job' \in JobType
  BY <1>1, RestIs
<1>3. /\ job.out \in Handle \cup Dense /\ job.before # <<>>
      /\ \A y \in Handle \cup Dense : y # job.out => AsBefore(y)
  BY <1>1 DEF JobKnown
<1>4. job.ok /\ f \in Outline /\ e \in Outline /\ Goes(Tail(job.todo), f) /\ InputsMeet(e) /\ OutputMeets(e)
  BY DEF Follows, Meets
<1>5. \A y \in Handle \cup Dense : y # job.out => AsBefore(y)'
  <2>1. ASSUME NEW y \in Handle \cup Dense, y # job.out
        PROVE  AsBefore(y)'
    BY <1>2, <1>3, <2>1 DEF AsBefore, OthersUntouched, Cells
  <2> QED BY <2>1
<1>6. InputsMeet(f)'
  BY <1>2, <1>4 DEF InputsMeet
<1>7. OutputMeets(f)'
  BY <1>2, <1>4 DEF OutputMeets
<1>8. Meets(f)'
  BY <1>2, <1>4, <1>6, <1>7 DEF Meets
<1>9. JobKnown'
  BY <1>2, <1>3, <1>4, <1>5, <1>8 DEF JobKnown, AsBefore
<1>10. GridsWhole'
  <2>1. ASSUME NEW h \in Handle, Held(h)'
        PROVE  (own[h].topology # None)' /\ (own[h].values # None)'
    <3>1. CASE h = x
      BY <3>1 DEF OutputWhole
    <3>2. CASE h # x
      BY <1>1, <2>1, <3>2 DEF OthersUntouched, Held, GridsWhole
    <3> QED BY <3>1, <3>2
  <2>2. ASSUME NEW y, y \in known'
        PROVE  (y = x /\ job'.sure) \/ (y # x /\ y \in known)
    <3>1. CASE job.sure
      <4>1. known' = known \cup {x}
        BY <3>1 DEF Credited
      <4>2. job'.sure
        BY <1>2, <3>1
      <4>3. y = x \/ (y # x /\ y \in known)
        BY <2>2, <4>1
      <4> QED BY <4>2, <4>3
    <3>2. CASE ~job.sure
      <4>1. known' = known \ {x}
        BY <3>2 DEF Credited
      <4> QED BY <2>2, <4>1
    <3> QED BY <3>1, <3>2
  <2>3. ASSUME NEW h \in Handle, h \in known'
        PROVE  Held(h)' /\ (data[own[h].topology] = "whole")' /\ (data[own[h].values] = "whole")'
    <3>1. CASE h = x /\ job'.sure
      <4>1. /\ (own[h].topology # None)'
            /\ (data[own[h].topology] = "whole")' /\ (data[own[h].values] = "whole")'
        BY <3>1 DEF OutputWhole
      <4> QED BY <4>1, EmptyIs DEF Held
    <3>2. CASE h # x /\ h \in known
      <4>1. /\ Held(h) /\ data[own[h].topology] = "whole" /\ data[own[h].values] = "whole"
            /\ own[h].topology # None /\ own[h].values # None
        BY <1>1, <3>2 DEF GridsWhole
      <4> QED BY <3>2, <4>1 DEF OthersUntouched, Held
    <3> QED BY <2>2, <2>3, <3>1, <3>2
  <2>4. ASSUME NEW d \in Dense, d \in known'
        PROVE  Filled(d)' /\ (data[dense[d][0]] = "whole")'
    <3>1. CASE d = x /\ job'.sure
      BY <3>1 DEF OutputWhole, Filled
    <3>2. CASE d # x /\ d \in known
      <4>1. Filled(d) /\ data[dense[d][0]] = "whole"
        BY <1>1, <3>2 DEF GridsWhole
      <4> QED BY <3>2, <4>1 DEF OthersUntouched, Filled
    <3> QED BY <2>2, <2>4, <3>1, <3>2
  <2> QED BY <2>1, <2>3, <2>4 DEF GridsWhole
<1>11. known' \subseteq Handle \cup Dense
  BY <1>1, <1>3 DEF Credited, TypeOK
<1> QED BY <1>2, <1>9, <1>10, <1>11, ExactNext DEF IInv

LEMMA DroppedIs ==
  ASSUME Exact(own, dense, data, refs), NEW S \in SUBSET Slot, Dropped(S)
  PROVE  refs' = Left(own, refs, S) /\ data' = Freed(data, Gone(own, refs, S))
<1>1. DOMAIN data = Cell
  BY DEF Exact, DataType
<1>2. \A t : Owners(t, S) = OwnersIn(own, t, S)
  BY DEF Owners, OwnersIn
<1>3. refs' = Left(own, refs, S)
  BY <1>2 DEF Dropped, Left
<1>4. {t \in Topology : refs[t] # 0 /\ [t2 \in Topology |-> refs[t2] - Cardinality(Owners(t2, S))][t] = 0}
        = Last(own, refs, S)
  BY <1>2 DEF Last, Left
<1>5. data' = Freed(data, Gone(own, refs, S))
  BY <1>1, <1>4 DEF Dropped, Freed, Gone
<1> QED BY <1>3, <1>5

\* What is left alone when the slots S are emptied.
LEMMA DropSpares ==
  ASSUME Exact(own, dense, data, refs), NEW S \in SUBSET Slot, Dropped(S)
  PROVE  /\ \A u \in Slot \ S : own[u].topology # None => data'[own[u].topology] = data[own[u].topology]
         /\ \A u \in Slot \ S : own[u].topology # None /\ refs[own[u].topology] = 1 => refs'[own[u].topology] = 1
         /\ \A u \in Slot \ S : own[u].values # None => data'[own[u].values] = data[own[u].values]
         /\ \A d \in Dense, k \in 0..2 : dense[d][k] # None => data'[dense[d][k]] = data[dense[d][k]]
<1>1. refs' = Left(own, refs, S) /\ data' = Freed(data, Gone(own, refs, S))
  BY DroppedIs
<1> QED BY <1>1, Spared

LEMMA CommitIs ==
  ASSUME Exact(own, dense, data, refs), NEW s \in Slot, NEW to \in Slot, s # to, Dropped({to}),
         own' = [own EXCEPT ![to] = own[s], ![s] = Empty], dense' = dense
  PROVE  /\ Exact(own', dense', data', refs')
         /\ own'[to] = own[s] /\ own'[s] = Empty /\ \A u \in Slot : u # s /\ u # to => own'[u] = own[u]
<1>1. own \in OwnType /\ Empty \in GridType
  BY EmptyIs DEF Exact
<1>2. /\ own' \in OwnType /\ own'[to] = own[s] /\ own'[s] = Empty
      /\ \A u \in Slot : u # s /\ u # to => own'[u] = own[u]
  BY <1>1 DEF OwnType
<1>3. PICK o : o = [own EXCEPT ![to] = Empty]
  OBVIOUS
<1>4. o \in OwnType /\ o[to] = Empty /\ \A u \in Slot : u # to => o[u] = own[u]
  BY <1>1, <1>3 DEF OwnType
<1>5. refs' = Left(own, refs, {to}) /\ data' = Freed(data, Gone(own, refs, {to}))
  BY DroppedIs
<1>6. Exact(o, dense, data', refs')
  <2>1. (\A u \in {to} : o[u] = Empty) /\ \A u \in Slot \ {to} : o[u] = own[u]
    BY <1>4
  <2> QED BY <1>4, <1>5, <2>1, Emptied
<1>7. Exact(own', dense', data', refs')
  <2>1. own'[to] = o[s] /\ \A u \in Slot : u # s /\ u # to => own'[u] = o[u]
    BY <1>2, <1>4
  <2>2. own' \in OwnType /\ own'[s] = Empty /\ o[to] = Empty
    BY <1>2, <1>4
  <2>3. PICK o2 : o2 = own'
    OBVIOUS
  <2>4. /\ o2 \in OwnType /\ o2[s] = Empty /\ o2[to] = o[s]
        /\ \A u \in Slot : u # s /\ u # to => o2[u] = o[u]
    BY <2>1, <2>2, <2>3
  <2>5. Exact(o2, dense, data', refs')
    BY <1>6, <2>2, <2>4, Moved
  <2> QED BY <2>3, <2>5
<1> QED BY <1>2, <1>7

LEMMA CommitJob ==
  ASSUME TypeOK, job.todo # <<>>, NEW to, job' = [Rest EXCEPT !.in = IF to = "tmp" THEN {"tmp"} ELSE @]
  PROVE  /\ job'.out = job.out /\ job'.ok = job.ok /\ job'.before = job.before /\ job'.todo = Tail(job.todo)
         /\ job'.sure = job.sure /\ job' \in JobType
         /\ to = "tmp" => job'.in = {"tmp"}
         /\ to # "tmp" => job' = Rest
<1>1. job \in JobType /\ job.todo \in Seq(StepType)
  BY DEF TypeOK, JobType
<1>2. PICK t \in Seq(StepType) : t = Tail(job.todo)
  BY <1>1, HeadTailProperties
<1>3. PICK r \in JobType : r = Rest /\ r = [job EXCEPT !.todo = t]
  BY <1>1, <1>2, JobWith, Zenon DEF Rest
<1>4. r.out = job.out /\ r.ok = job.ok /\ r.before = job.before /\ r.sure = job.sure /\ r.todo = t
  BY <1>1, <1>3 DEF JobType
<1>5. CASE to = "tmp"
  <2>1. job' = [r EXCEPT !.in = {"tmp"}] /\ {"tmp"} \subseteq Local
    BY <1>3, <1>5 DEF Local
  <2>2. PICK I \in SUBSET (Handle \cup Dense \cup Local) : I = {"tmp"}
    BY <2>1
  <2>3. job' = [r EXCEPT !.in = I]
    BY <2>1, <2>2
  <2>4. job' \in JobType
    BY <1>3, <2>3 DEF JobType
  <2>5. /\ job'.out = r.out /\ job'.ok = r.ok /\ job'.before = r.before /\ job'.sure = r.sure
        /\ job'.todo = r.todo /\ job'.in = I
    BY <1>3, <2>3 DEF JobType
  <2> QED BY <1>2, <1>4, <1>5, <2>2, <2>4, <2>5
<1>6. CASE to # "tmp"
  <2>1. job' = r
    BY <1>3, <1>6 DEF JobType
  <2> QED BY <1>2, <1>3, <1>4, <1>6, <2>1
<1> QED BY <1>5, <1>6

LEMMA CommitTmpKeeps ==
  ASSUME IInv, At("commit", "tmp"), Commit("g", "tmp")
  PROVE  IInv'
<1>0. "g" \in Local /\ "tmp" \in Local /\ "g" \in Slot /\ "tmp" \in Slot
  BY DEF Local, Slot
<1>1. /\ Dropped({"tmp"}) /\ own' = [own EXCEPT !["tmp"] = own["g"], !["g"] = Empty] /\ dense' = dense
      /\ job' = [Rest EXCEPT !.in = IF "tmp" = "tmp" THEN {"tmp"} ELSE @] /\ known' = known
  BY DEF Commit
<1>2. job.todo # <<>> /\ job.out \in Handle \cup Dense /\ \E e, f : Follows(<<"commit", "tmp">>, e, f)
  BY StepComes DEF IInv
<1>3. PICK e, f : Follows(<<"commit", "tmp">>, e, f)
  BY <1>2
<1>4. /\ e \in Outline /\ f \in Outline /\ LocalsMeet(e) /\ OutputMeets(e)
      /\ Allowed(<<"commit", "tmp">>, e) /\ f = After(<<"commit", "tmp">>, e)
  BY <1>3 DEF Follows, Meets
<1>5. /\ ~e.done /\ "g" \in e.indexed /\ "g" \in e.filled
      /\ f.in = "tmp" /\ f.out = e.out /\ f.done = e.done /\ f.scratch = e.scratch /\ f.passed = e.passed
      /\ "g" \notin f.tops /\ "g" \notin f.vals /\ "g" \notin f.fresh /\ "g" \notin f.listed /\ "g" \notin f.indexed
      /\ "g" \notin f.filled
      /\ "tmp" \in f.tops /\ "tmp" \in f.vals /\ "tmp" \notin f.fresh /\ "tmp" \notin f.listed
      /\ "tmp" \in f.indexed /\ "tmp" \in f.filled
  <2>1. ~e.done /\ "g" \in e.indexed /\ "g" \in e.filled
    BY <1>4, CommitTmpIs
  <2>2. f.in = "tmp" /\ f.out = e.out /\ f.done = e.done /\ f.scratch = e.scratch /\ f.passed = e.passed
    BY <1>4, CommitTmpIs
  <2>3. /\ "g" \notin f.tops /\ "g" \notin f.vals /\ "tmp" \in f.tops /\ "tmp" \in f.vals
    BY <1>4, CommitTmpIs
  <2>4. "g" \notin f.indexed /\ "g" \notin f.filled /\ "tmp" \in f.indexed /\ "tmp" \in f.filled
    BY <1>4, CommitTmpIs
  <2>5. "g" \notin f.fresh /\ "g" \notin f.listed /\ "tmp" \notin f.fresh /\ "tmp" \notin f.listed
    BY <1>4, CommitTmpIs
  <2> QED BY <2>1, <2>2, <2>3, <2>4, <2>5
<1>6. \A u \in Local \ {"g", "tmp"} : Agree(e, f, u)
  <2>1. ASSUME NEW u \in Local \ {"g", "tmp"} PROVE Agree(e, f, u)
    <3>1. (u \in f.tops <=> u \in e.tops) /\ (u \in f.vals <=> u \in e.vals)
      BY <1>4, CommitTmpIs
    <3>2. (u \in f.indexed <=> u \in e.indexed) /\ (u \in f.filled <=> u \in e.filled)
      BY <1>4, CommitTmpIs
    <3>3. (u \in f.fresh <=> u \in e.fresh) /\ (u \in f.listed <=> u \in e.listed)
      BY <1>4, CommitTmpIs
    <3> QED BY <3>1, <3>2, <3>3 DEF Agree
  <2> QED BY <2>1
<1>7. Exact(own, dense, data, refs) /\ \A u \in Local : SlotMeets(e, u)
  BY <1>4, ExactHere, SlotsMeet
<1>8. /\ Exact(own', dense', data', refs') /\ own'["tmp"] = own["g"] /\ own'["g"] = Empty
      /\ \A u \in Slot : u # "g" /\ u # "tmp" => own'[u] = own[u]
  <2>1. PICK s \in Slot, to \in Slot : s = "g" /\ to = "tmp"
    BY <1>0
  <2>2. Dropped({to}) /\ own' = [own EXCEPT ![to] = own[s], ![s] = Empty] /\ s # to
    BY <1>1, <2>1
  <2> QED BY <1>1, <1>7, <2>1, <2>2, CommitIs
<1>9. /\ \A u \in Slot \ {"tmp"} : own[u].topology # None => data'[own[u].topology] = data[own[u].topology]
      /\ \A u \in Slot \ {"tmp"} : own[u].topology # None /\ refs[own[u].topology] = 1 => refs'[own[u].topology] = 1
      /\ \A u \in Slot \ {"tmp"} : own[u].values # None => data'[own[u].values] = data[own[u].values]
      /\ \A d \in Dense, k \in 0..2 : dense[d][k] # None => data'[dense[d][k]] = data[dense[d][k]]
  BY <1>0, <1>1, <1>7, DropSpares
<1>10. DenseKept
  BY <1>1, <1>9 DEF DenseKept
<1>11. \A u \in Slot \ {"g", "tmp"} : Stays(e, u)
  BY <1>4, <1>7, <1>8, <1>9, OutlineParts DEF Stays, SlotMeets
<1>12. CallersKept
  <2>1. \A h \in Handle : Stays(e, h)
    BY <1>0, <1>11 DEF Slot
  <2>2. known' = known
    BY <1>1
  <2> QED BY <1>10, <2>1, <2>2 DEF CallersKept, Stays, DenseKept
<1>13. /\ job'.out = job.out /\ job'.ok = job.ok /\ job'.before = job.before /\ job'.todo = Tail(job.todo)
       /\ job'.sure = job.sure /\ job' \in JobType /\ job'.in = {"tmp"}
  BY <1>1, <1>2, CommitJob DEF IInv
<1>14. LocalsMeet(f)'
  <2>1. \A u \in Local \ {"g", "tmp"} : SlotMeets(f, u)'
    BY <1>6, <1>7, <1>11, <1>13, SlotStays DEF Slot
  <2>2. SlotMeets(f, "g")'
    BY <1>5, <1>8, EmptyIs DEF SlotMeets
  <2>3. SlotMeets(f, "tmp")'
    BY <1>0, <1>5, <1>7, <1>8, <1>9, <1>13 DEF SlotMeets
  <2> QED BY <1>4, <2>1, <2>2, <2>3, SlotsMeetNext
<1>15. InputsMeet(f)' /\ OutputMeets(f)'
  <2>1. InputsMeet(f)'
    <3>1. {"tmp"} \ Local \subseteq known'
      BY <1>0
    <3> QED BY <1>5, <1>13, <3>1 DEF InputsMeet
  <2>2. OutputMeets(f)'
    BY <1>2, <1>4, <1>5, <1>10, <1>12, <1>13, OutputKept
  <2> QED BY <2>1, <2>2
<1>16. GridsWhole' /\ JobKnown'
  BY <1>2, <1>3, <1>5, <1>12, <1>14, <1>13, <1>15, ProceedsWith
<1>17. DenseShaped'
  BY <1>1 DEF IInv, DenseShaped, Filled
<1> QED BY <1>8, <1>13, <1>16, <1>12, <1>17, ExactKept DEF IInv

\* The outline after a step that empties the pointer s and replaces the output.
LEMMA Delivered ==
  ASSUME NEW e \in Outline, NEW op, NEW s \in Local, NEW f, f = After(op, e),
         \/ op = <<"commit", "out">> /\ s = "g"
         \/ op = <<"publish", "out">> /\ s = "tmp"
         \/ op = <<"swap", "next">> /\ s = "next"
  PROVE  /\ f.done /\ f.in = e.in /\ f.out = e.out /\ f.scratch = e.scratch /\ f.passed = e.passed
         /\ s \notin f.tops /\ s \notin f.vals /\ s \notin f.fresh /\ s \notin f.listed /\ s \notin f.indexed
         /\ s \notin f.filled
         /\ \A u \in Local \ {s} : Agree(e, f, u)
<1>1. f.tops = e.tops \ {s} /\ f.fresh = e.fresh \ {s}
  BY DeliverIs
<1>2. f.indexed = e.indexed \ {s} /\ f.vals = e.vals \ {s}
  BY DeliverIs
<1>3. f.listed = e.listed \ {s} /\ f.filled = e.filled \ {s}
  BY DeliverIs
<1>4. f.done /\ f.in = e.in /\ f.out = e.out /\ f.scratch = e.scratch /\ f.passed = e.passed
  BY DeliverIs
<1> QED BY <1>1, <1>2, <1>3, <1>4 DEF Agree

\* The pointers other than s stay, and s is empty.
LEMMA LocalsAfter ==
  ASSUME NEW e \in Outline, NEW f \in Outline, LocalsMeet(e), NEW s \in Local, own'[s] = Empty, job'.sure = job.sure,
         \A u \in Local \ {s} : Stays(e, u) /\ Agree(e, f, u),
         s \notin f.tops, s \notin f.vals, s \notin f.fresh, s \notin f.listed, s \notin f.indexed, s \notin f.filled
  PROVE  LocalsMeet(f)'
<1>1. \A u \in Local : SlotMeets(e, u)
  BY SlotsMeet
<1>2. \A u \in Local \ {s} : SlotMeets(f, u)'
  BY <1>1, SlotStays
<1>3. SlotMeets(f, s)'
  BY EmptyIs DEF SlotMeets
<1> QED BY <1>2, <1>3, SlotsMeetNext

LEMMA CommitOutKeeps ==
  ASSUME IInv, NEW v, NEW s, (v = "commit" /\ s = "g") \/ (v = "publish" /\ s = "tmp"),
         At(v, "out"), Commit(s, job.out)
  PROVE  IInv'
<1>0. s \in Local /\ s \in Slot
  BY DEF Local, Slot
<1>1. /\ Dropped({job.out}) /\ own' = [own EXCEPT ![job.out] = own[s], ![s] = Empty] /\ dense' = dense
      /\ job' = [Rest EXCEPT !.in = IF job.out = "tmp" THEN {"tmp"} ELSE @]
      /\ known' = IF job.out = "tmp" THEN known ELSE Credited
  BY DEF Commit
<1>2. job.todo # <<>> /\ job.out \in Handle \cup Dense /\ \E e, f : Follows(<<v, "out">>, e, f)
  BY StepComes DEF IInv
<1>3. PICK e, f : Follows(<<v, "out">>, e, f)
  BY <1>2
<1>4. /\ e \in Outline /\ f \in Outline /\ LocalsMeet(e) /\ OutputMeets(e)
      /\ Allowed(<<v, "out">>, e) /\ f = After(<<v, "out">>, e)
  BY <1>3 DEF Follows, Meets
<1>5. ~e.done /\ s \in e.indexed /\ s \in e.filled /\ e.out \in {"slot", "held"}
  BY <1>4, DeliverNeeds
<1>6. /\ f.done /\ f.in = e.in /\ f.out = e.out /\ f.scratch = e.scratch /\ f.passed = e.passed
      /\ s \notin f.tops /\ s \notin f.vals /\ s \notin f.fresh /\ s \notin f.listed /\ s \notin f.indexed
      /\ s \notin f.filled
      /\ \A u \in Local \ {s} : Agree(e, f, u)
  BY <1>0, <1>4, Delivered
<1>7. PICK to \in Handle : to = job.out
  BY <1>4, <1>5 DEF OutputMeets
<1>8. to \in Slot /\ to \notin Local /\ to # s /\ to # "tmp" /\ to \notin Dense
  BY <1>0 DEF Slot, Local
<1>9. Exact(own, dense, data, refs) /\ \A u \in Local : SlotMeets(e, u)
  BY <1>4, ExactHere, SlotsMeet
<1>10. Dropped({to}) /\ own' = [own EXCEPT ![to] = own[s], ![s] = Empty] /\ dense' = dense
  BY <1>1, <1>7
<1>11. /\ Exact(own', dense', data', refs') /\ own'[to] = own[s] /\ own'[s] = Empty
       /\ \A u \in Slot : u # s /\ u # to => own'[u] = own[u]
  BY <1>0, <1>8, <1>9, <1>10, CommitIs
<1>12. /\ \A u \in Slot \ {to} : own[u].topology # None => data'[own[u].topology] = data[own[u].topology]
       /\ \A u \in Slot \ {to} : own[u].topology # None /\ refs[own[u].topology] = 1 => refs'[own[u].topology] = 1
       /\ \A u \in Slot \ {to} : own[u].values # None => data'[own[u].values] = data[own[u].values]
       /\ \A d \in Dense, k \in 0..2 : dense[d][k] # None => data'[dense[d][k]] = data[dense[d][k]]
  BY <1>8, <1>9, <1>10, DropSpares
<1>13. \A u \in Slot \ {s, to} : Stays(e, u)
  BY <1>4, <1>9, <1>11, <1>12, OutlineParts DEF Stays, SlotMeets
<1>14. OthersUntouched(to)
  <2>1. \A h \in Handle : h # to => Stays(e, h)
    BY <1>0, <1>13 DEF Slot
  <2>2. \A d \in Dense : dense'[d][0] = dense[d][0] /\ (dense[d][0] # None => data'[dense[d][0]] = data[dense[d][0]])
    BY <1>1, <1>12
  <2> QED BY <2>1, <2>2 DEF OthersUntouched, Stays
<1>15. job' = Rest /\ job'.sure = job.sure /\ known' = Credited
  BY <1>1, <1>2, <1>7, <1>8, CommitJob DEF IInv
<1>16. OutputWhole(to)'
  BY <1>0, <1>5, <1>8, <1>9, <1>11, <1>12, <1>15 DEF OutputWhole, SlotMeets
<1>17. LocalsMeet(f)'
  <2>1. \A u \in Local \ {s} : Stays(e, u) /\ Agree(e, f, u)
    BY <1>6, <1>8, <1>13 DEF Slot
  <2> QED BY <1>0, <1>4, <1>6, <1>11, <1>15, <2>1, LocalsAfter
<1>18. DenseShaped'
  BY <1>1 DEF IInv, DenseShaped, Filled
<1> QED BY <1>2, <1>3, <1>5, <1>6, <1>7, <1>11, <1>14, <1>15, <1>16, <1>17, <1>18, Delivers

LEMMA CommitsKeep ==
  ASSUME IInv, Commits
  PROVE  IInv'
<1>1. CASE At("commit", "tmp") /\ Commit("g", "tmp")
  BY <1>1, CommitTmpKeeps
<1>2. CASE At("commit", "out") /\ Commit("g", job.out)
  BY <1>2, CommitOutKeeps
<1>3. CASE At("publish", "out") /\ Commit("tmp", job.out)
  BY <1>3, CommitOutKeeps
<1> QED BY <1>1, <1>2, <1>3 DEF Commits

LEMMA SwapKeeps ==
  ASSUME IInv, Swap
  PROVE  IInv'
<1>0. "next" \in Local /\ "next" \in Slot
  BY DEF Local, Slot
<1>1. /\ At("swap", "next") /\ dense' = dense /\ refs' = refs /\ job' = Rest /\ known' = Credited
      /\ data' = [data EXCEPT ![own[job.out].values] = "free"]
      /\ own' = [own EXCEPT ![job.out].values = own["next"].values, !["next"] = Empty]
  BY DEF Swap, Proceed
<1>2. job.todo # <<>> /\ job.out \in Handle \cup Dense /\ \E e, f : Follows(<<"swap", "next">>, e, f)
  BY <1>1, StepComes DEF IInv
<1>3. PICK e, f : Follows(<<"swap", "next">>, e, f)
  BY <1>2
<1>4. /\ e \in Outline /\ f \in Outline /\ LocalsMeet(e) /\ InputsMeet(e) /\ OutputMeets(e)
      /\ Allowed(<<"swap", "next">>, e) /\ f = After(<<"swap", "next">>, e)
  BY <1>3 DEF Follows, Meets
<1>5. ~e.done /\ "next" \notin e.tops /\ "next" \in e.filled /\ e.in = "self" /\ e.out = "held"
  BY <1>4, DeliverNeeds
<1>6. /\ f.done /\ f.in = e.in /\ f.out = e.out /\ f.scratch = e.scratch /\ f.passed = e.passed
      /\ "next" \notin f.tops /\ "next" \notin f.vals /\ "next" \notin f.fresh /\ "next" \notin f.listed
      /\ "next" \notin f.indexed /\ "next" \notin f.filled
      /\ \A u \in Local \ {"next"} : Agree(e, f, u)
  BY <1>0, <1>4, Delivered
<1>7. PICK to \in Handle : to = job.out /\ Held(to)
  BY <1>4, <1>5 DEF OutputMeets
<1>8. to \in Slot /\ to \notin Local /\ to # "next" /\ to \notin Dense
  BY <1>0 DEF Slot
<1>9. Exact(own, dense, data, refs) /\ own \in OwnType /\ \A u \in Local : SlotMeets(e, u)
  BY <1>4, ExactHere, SlotsMeet DEF Exact
<1>10. /\ own[to].topology # None /\ own[to].values # None
       /\ job.sure => data[own[to].topology] = "whole"
  <2>1. job.sure => to \in known
    BY <1>4, <1>5, <1>7, <1>8 DEF InputsMeet
  <2> QED BY <1>7, <2>1 DEF IInv, GridsWhole
<1>11. /\ own["next"].values # None /\ own["next"].topology = None
       /\ job.sure => data[own["next"].values] = "whole"
  BY <1>0, <1>5, <1>9 DEF SlotMeets
<1>12. /\ own[to].values \in Buffer /\ own["next"].values \in Buffer /\ own[to].topology \in Topology
       /\ own["next"].values # own[to].values
  <2>1. own[to].values \in Buffer /\ own["next"].values \in Buffer /\ own[to].topology \in Topology
    BY <1>0, <1>8, <1>9, <1>10, <1>11, OwnedLives
  <2>2. OneOwner(own, dense)
    BY <1>9 DEF Exact
  <2>3. own["next"].values # own[to].values
    BY <1>0, <1>8, <1>10, <2>2 DEF OneOwner
  <2> QED BY <2>1, <2>3
<1>13. PICK b \in Buffer : b = own["next"].values
  BY <1>12
<1>14. /\ own' \in OwnType /\ own'[to].values = b /\ own'[to].topology = own[to].topology
       /\ own'["next"] = Empty /\ \A u \in Slot : u # "next" /\ u # to => own'[u] = own[u]
  <2>1. own' = [own EXCEPT ![to].values = b, !["next"] = Empty]
    BY <1>1, <1>7, <1>13
  <2>2. Empty \in GridType
    BY EmptyIs
  <2> QED BY <1>0, <1>8, <1>9, <2>1, <2>2 DEF OwnType, GridType
<1>15. data' = Freed(data, {own[to].values})
  BY <1>1, <1>7, <1>9, <1>12 DEF Freed, Exact, DataType
<1>16. Exact(own', dense', data', refs')
  <2>1. PICK o2, a2 : o2 = own' /\ a2 = data'
    OBVIOUS
  <2>2. /\ o2 \in OwnType /\ o2[to].values = own["next"].values /\ o2[to].topology = own[to].topology
        /\ o2["next"] = Empty /\ \A u \in Slot : u # "next" /\ u # to => o2[u] = own[u]
    BY <1>13, <1>14, <2>1
  <2>3. a2 = Freed(data, {own[to].values})
    BY <1>15, <2>1
  <2>4. Exact(o2, dense, a2, refs)
    BY <1>0, <1>8, <1>9, <1>11, <2>2, <2>3, Swapped
  <2> QED BY <1>1, <2>1, <2>4
<1>17. \A c \in Cell : c # own[to].values => data'[c] = data[c]
  BY <1>15 DEF Freed
<1>18. /\ \A u \in Slot : own[u].topology # None => data'[own[u].topology] = data[own[u].topology]
       /\ \A u \in Slot : u # to /\ own[u].values # None => data'[own[u].values] = data[own[u].values]
       /\ \A d \in Dense, k \in 0..2 : dense[d][k] # None => data'[dense[d][k]] = data[dense[d][k]]
  <2>0. OneOwner(own, dense)
    BY <1>9 DEF Exact
  <2>1. ASSUME NEW u \in Slot, own[u].topology # None
        PROVE  data'[own[u].topology] = data[own[u].topology]
    <3>1. own[u].topology \in Topology
      BY <1>9, <2>1, OwnedLives
    <3> QED BY <1>12, <1>17, <3>1 DEF Cell
  <2>2. ASSUME NEW u \in Slot, u # to, own[u].values # None
        PROVE  data'[own[u].values] = data[own[u].values]
    <3>1. own[u].values \in Buffer
      BY <1>9, <2>2, OwnedLives
    <3>2. own[u].values # own[to].values
      BY <1>8, <2>0, <2>2 DEF OneOwner
    <3> QED BY <1>17, <3>1, <3>2 DEF Cell
  <2>3. ASSUME NEW d \in Dense, NEW k \in 0..2, dense[d][k] # None
        PROVE  data'[dense[d][k]] = data[dense[d][k]]
    <3>1. dense[d][k] \in Buffer
      BY <1>9, <2>3, OwnedLives
    <3>2. dense[d][k] # own[to].values
      BY <1>8, <1>10, <2>0 DEF OneOwner
    <3> QED BY <1>17, <3>1, <3>2 DEF Cell
  <2> QED BY <2>1, <2>2, <2>3
<1>19. \A u \in Slot \ {"next", to} : Stays(e, u)
  BY <1>1, <1>4, <1>9, <1>14, <1>18, OutlineParts DEF Stays, SlotMeets
<1>20. OthersUntouched(to)
  <2>1. \A h \in Handle : h # to => Stays(e, h)
    BY <1>0, <1>19 DEF Slot
  <2>2. \A d \in Dense : dense'[d][0] = dense[d][0] /\ (dense[d][0] # None => data'[dense[d][0]] = data[dense[d][0]])
    BY <1>1, <1>18
  <2> QED BY <2>1, <2>2 DEF OthersUntouched, Stays
<1>21. job'.sure = job.sure
  BY <1>1, <1>2, SureStays
<1>22. OutputWhole(to)'
  BY <1>0, <1>8, <1>21, <1>10, <1>11, <1>12, <1>13, <1>14, <1>18 DEF OutputWhole
<1>23. LocalsMeet(f)'
  <2>1. \A u \in Local \ {"next"} : Stays(e, u) /\ Agree(e, f, u)
    BY <1>6, <1>8, <1>19 DEF Slot
  <2> QED BY <1>0, <1>4, <1>6, <1>14, <1>21, <2>1, LocalsAfter
<1>24. DenseShaped'
  BY <1>1 DEF IInv, DenseShaped, Filled
<1> QED BY <1>1, <1>2, <1>3, <1>5, <1>6, <1>7, <1>16, <1>20, <1>22, <1>23, <1>24, Delivers

LEMMA CleanKeeps ==
  ASSUME IInv, Clean
  PROVE  IInv'
<1>0. {"cand", "flags"} \subseteq Local /\ {"cand", "flags"} \subseteq Slot
  BY DEF Local, Slot
<1>1. /\ At("clean", "step") /\ Dropped({"cand", "flags"}) /\ dense' = dense /\ job' = Rest /\ known' = known
      /\ own' = [own EXCEPT !["cand"] = Empty, !["flags"] = Empty]
  BY DEF Clean, Proceed
<1>2. job.todo # <<>> /\ \E e, f : Follows(<<"clean", "step">>, e, f)
  BY <1>1, StepComes DEF IInv
<1>3. PICK e, f : Follows(<<"clean", "step">>, e, f)
  BY <1>2
<1>4. e \in Outline /\ f \in Outline /\ LocalsMeet(e) /\ f = Without(e, {"cand", "flags"})
  BY <1>3, CleanIs DEF Follows, Meets
<1>5. PICK S : S = {"cand", "flags"}
  OBVIOUS
<1>6. /\ Same(e, f) /\ \A u \in Local \ S : Agree(e, f, u)
      /\ \A u \in S : u \notin f.tops /\ u \notin f.vals /\ u \notin f.fresh /\ u \notin f.listed
                      /\ u \notin f.indexed /\ u \notin f.filled
  <2>1. S \in SUBSET Local /\ f = Without(e, S)
    BY <1>0, <1>4, <1>5
  <2>2. f.tops = e.tops \ S /\ f.fresh = e.fresh \ S /\ Same(e, f)
    BY <1>4, <2>1, WithoutIs
  <2>3. f.indexed = e.indexed \ S /\ f.vals = e.vals \ S
    BY <1>4, <2>1, WithoutIs
  <2>4. f.listed = e.listed \ S /\ f.filled = e.filled \ S
    BY <1>4, <2>1, WithoutIs
  <2> QED BY <2>2, <2>3, <2>4 DEF Agree
<1>7. Exact(own, dense, data, refs) /\ own \in OwnType /\ \A u \in Local : SlotMeets(e, u)
  BY <1>4, ExactHere, SlotsMeet DEF Exact
<1>8. own' \in OwnType /\ (\A u \in S : own'[u] = Empty) /\ \A u \in Slot \ S : own'[u] = own[u]
  BY <1>0, <1>1, <1>5, <1>7, EmptyIs DEF OwnType
<1>9. S \in SUBSET Slot /\ Dropped(S)
  BY <1>0, <1>1, <1>5
<1>10. Exact(own', dense', data', refs')
  <2>1. refs' = Left(own, refs, S) /\ data' = Freed(data, Gone(own, refs, S))
    BY <1>7, <1>9, DroppedIs
  <2> QED BY <1>1, <1>7, <1>8, <1>9, <2>1, Emptied
<1>11. /\ \A u \in Slot \ S : own[u].topology # None => data'[own[u].topology] = data[own[u].topology]
       /\ \A u \in Slot \ S : own[u].topology # None /\ refs[own[u].topology] = 1 => refs'[own[u].topology] = 1
       /\ \A u \in Slot \ S : own[u].values # None => data'[own[u].values] = data[own[u].values]
       /\ \A d \in Dense, k \in 0..2 : dense[d][k] # None => data'[dense[d][k]] = data[dense[d][k]]
  BY <1>7, <1>9, DropSpares
<1>12. \A u \in Slot \ S : Stays(e, u)
  BY <1>4, <1>7, <1>8, <1>11, OutlineParts DEF Stays, SlotMeets
<1>13. \A u \in S : SlotMeets(f, u)'
  BY <1>6, <1>8, EmptyIs DEF SlotMeets
<1>14. Concerns(e, f, S) /\ DenseKept
  BY <1>0, <1>1, <1>5, <1>6, <1>11, <1>12, <1>13 DEF Concerns, DenseKept
<1> QED BY <1>1, <1>2, <1>3, <1>6, <1>10, <1>14, StepOf

LEMMA ExchangeKeeps ==
  ASSUME IInv, NEW k \in 1..2, Exchange(k)
  PROVE  IInv'
<1>1. /\ At("exchange", k) /\ own' = own /\ data' = data /\ refs' = refs /\ job' = Rest /\ known' = Credited
      /\ dense' = [dense EXCEPT ![job.out] = [dense[job.out] EXCEPT ![0] = dense[job.out][k], ![k] = dense[job.out][0]]]
  BY DEF Exchange, Proceed
<1>2. job.todo # <<>> /\ job.out \in Handle \cup Dense /\ \E e, f : Follows(<<"exchange", k>>, e, f)
  BY <1>1, StepComes DEF IInv
<1>3. PICK e, f : Follows(<<"exchange", k>>, e, f)
  BY <1>2
<1>4. /\ e \in Outline /\ f \in Outline /\ LocalsMeet(e) /\ OutputMeets(e)
      /\ Allowed(<<"exchange", k>>, e) /\ f = After(<<"exchange", k>>, e)
  BY <1>3 DEF Follows, Meets
<1>5. ~e.done /\ k \in e.passed /\ e.out = "dense" /\ f = [e EXCEPT !.done = TRUE]
  BY <1>4, DenseStepIs
<1>6. /\ SameTops(e, f) /\ SameVals(e, f) /\ f.passed = e.passed /\ f.in = e.in /\ f.out = e.out
      /\ f.done /\ f.scratch = e.scratch
  BY <1>4, <1>5, DoneIs
<1>7. PICK d \in Dense : d = job.out /\ Filled(d)
  BY <1>2, <1>4, <1>5 DEF OutputMeets
<1>8. /\ Exact(own, dense, data, refs) /\ dense \in DenseType /\ k \in 0..2 /\ 0 \in 0..2 /\ k # 0
      /\ dense[d] \in [0..2 -> Buffer \cup {None}]
  BY ExactHere DEF Exact, DenseType
<1>9. /\ dense[d][k] # None /\ job'.sure = job.sure
      /\ job.sure => data[dense[d][k]] = "whole"
  BY <1>1, <1>2, <1>4, <1>5, <1>7, SureStays DEF OutputMeets, Has
<1>10. /\ dense' \in DenseType /\ dense'[d][0] = dense[d][k] /\ dense'[d][k] = dense[d][0]
       /\ \A x \in Dense : x # d => dense'[x] = dense[x]
       /\ \A l \in 0..2 : l # 0 /\ l # k => dense'[d][l] = dense[d][l]
  <2>1. dense' = [dense EXCEPT ![d] = [dense[d] EXCEPT ![0] = dense[d][k], ![k] = dense[d][0]]]
    BY <1>1, <1>7
  <2>2. PICK g : g = [dense[d] EXCEPT ![0] = dense[d][k], ![k] = dense[d][0]]
    OBVIOUS
  <2>3. /\ g \in [0..2 -> Buffer \cup {None}] /\ g[0] = dense[d][k] /\ g[k] = dense[d][0]
        /\ \A l \in 0..2 : l # 0 /\ l # k => g[l] = dense[d][l]
    BY <1>8, <2>2
  <2>4. dense' = [dense EXCEPT ![d] = g]
    BY <2>1, <2>2
  <2> QED BY <1>8, <2>3, <2>4 DEF DenseType
<1>11. Exact(own', dense', data', refs')
  <2>1. PICK dn : dn = dense'
    OBVIOUS
  <2>2. /\ dn \in DenseType /\ dn[d][0] = dense[d][k] /\ dn[d][k] = dense[d][0]
        /\ \A x \in Dense, l \in 0..2 : x # d \/ (l # 0 /\ l # k) => dn[x][l] = dense[x][l]
    BY <1>10, <2>1
  <2>3. Exact(own, dn, data, refs)
    BY <1>8, <2>2, Exchanged
  <2> QED BY <1>1, <2>1, <2>3
<1>12. OthersUntouched(d)
  BY <1>1, <1>10 DEF OthersUntouched
<1>13. d \notin Handle /\ OutputWhole(d)'
  BY <1>1, <1>9, <1>10 DEF OutputWhole
<1>14. LocalsMeet(f)'
  <2>1. \A u \in Local : Stays(e, u) /\ Agree(e, f, u) /\ SlotMeets(e, u)
    BY <1>1, <1>4, <1>6, SlotsMeet DEF Stays, Agree, SameTops, SameVals, SlotMeets
  <2> QED BY <1>4, <1>9, <2>1, SlotStays, SlotsMeetNext
<1>15. DenseShaped'
  <2>1. ASSUME NEW x \in Dense, ~Filled(x)' PROVE dense'[x] = NoGrid
    <3>1. x # d
      BY <1>9, <1>10, <2>1 DEF Filled
    <3> QED BY <1>10, <2>1, <3>1 DEF Filled, IInv, DenseShaped
  <2> QED BY <2>1 DEF DenseShaped, Filled
<1> QED BY <1>1, <1>2, <1>3, <1>5, <1>6, <1>7, <1>11, <1>12, <1>13, <1>14, <1>15, Delivers

-----------------------------------------------------------------------------
(* An operation returns, and grids are made, written in place and destroyed. *)

LEMMA IdleIs == Idle \in JobType /\ Idle.out = None
<1>1. <<>> \in Seq(StepType)
  BY EmptySeq
<1> QED BY <1>1 DEF Idle, JobType

LEMMA FinishKeeps ==
  ASSUME IInv, Finish
  PROVE  IInv'
<1>1. /\ job' = Idle /\ Dropped(Local) /\ dense' = dense /\ known' = known
      /\ own' = [s \in DOMAIN own |-> IF s \in Local THEN Empty ELSE own[s]]
  BY DEF Finish
<1>2. Exact(own, dense, data, refs) /\ own \in OwnType /\ Local \in SUBSET Slot
  BY ExactHere DEF Exact, Slot
<1>3. own' \in OwnType /\ (\A u \in Local : own'[u] = Empty) /\ \A u \in Slot \ Local : own'[u] = own[u]
  BY <1>1, <1>2, EmptyIs DEF OwnType
<1>4. Exact(own', dense', data', refs')
  <2>1. refs' = Left(own, refs, Local) /\ data' = Freed(data, Gone(own, refs, Local))
    BY <1>1, <1>2, DroppedIs
  <2> QED BY <1>1, <1>2, <1>3, <2>1, Emptied
<1>5. /\ \A u \in Slot \ Local : own[u].topology # None => data'[own[u].topology] = data[own[u].topology]
      /\ \A u \in Slot \ Local : own[u].values # None => data'[own[u].values] = data[own[u].values]
      /\ \A d \in Dense, k \in 0..2 : dense[d][k] # None => data'[dense[d][k]] = data[dense[d][k]]
  BY <1>1, <1>2, DropSpares
<1>6. CallersKept
  <2>1. \A h \in Handle : h \in Slot \ Local
    BY DEF Slot
  <2>2. \A d \in Dense : dense[d][0] # None => data'[dense[d][0]] = data[dense[d][0]]
    BY <1>5
  <2> QED BY <1>1, <1>3, <1>5, <2>1, <2>2 DEF CallersKept
<1>7. GridsWhole' /\ DenseShaped'
  BY <1>1, <1>6, GridsKept DEF IInv, DenseShaped, Filled
<1>8. JobKnown'
  BY <1>1, <1>3 DEF JobKnown
<1> QED BY <1>1, <1>4, <1>6, <1>7, <1>8, IdleIs, ExactKept DEF IInv

LEMMA SparseDestroyKeeps ==
  ASSUME IInv, NEW h \in Handle, SparseDestroy(h)
  PROVE  IInv'
<1>1. /\ job = Idle /\ job' = job /\ Dropped({h}) /\ dense' = dense /\ own' = [own EXCEPT ![h] = Empty]
      /\ known' = known \ {h}
  BY DEF SparseDestroy
<1>2. Exact(own, dense, data, refs) /\ own \in OwnType /\ {h} \in SUBSET Slot /\ h \notin Local
  BY ExactHere DEF Exact, Slot
<1>3. own' \in OwnType /\ own'[h] = Empty /\ \A u \in Slot \ {h} : own'[u] = own[u]
  BY <1>1, <1>2, EmptyIs DEF OwnType
<1>4. Exact(own', dense', data', refs')
  <2>1. refs' = Left(own, refs, {h}) /\ data' = Freed(data, Gone(own, refs, {h}))
    BY <1>1, <1>2, DroppedIs
  <2>2. (\A u \in {h} : own'[u] = Empty) /\ \A u \in Slot \ {h} : own'[u] = own[u]
    BY <1>3
  <2> QED BY <1>1, <1>2, <1>3, <2>1, <2>2, Emptied
<1>5. /\ \A u \in Slot \ {h} : own[u].topology # None => data'[own[u].topology] = data[own[u].topology]
      /\ \A u \in Slot \ {h} : own[u].values # None => data'[own[u].values] = data[own[u].values]
      /\ \A d \in Dense, k \in 0..2 : dense[d][k] # None => data'[dense[d][k]] = data[dense[d][k]]
  BY <1>1, <1>2, DropSpares
<1>6. GridsWhole'
  <2>1. ASSUME NEW x \in Handle, Held(x)'
        PROVE  x # h /\ own'[x] = own[x] /\ x \in Slot \ {h} /\ own[x].topology # None /\ own[x].values # None
    <3>1. x # h
      BY <1>3, <2>1 DEF Held
    <3>2. x \in Slot \ {h} /\ own'[x] = own[x]
      BY <1>3, <3>1 DEF Slot
    <3> QED BY <2>1, <3>1, <3>2 DEF Held, IInv, GridsWhole
  <2>2. ASSUME NEW x \in Handle, x \in known'
        PROVE  Held(x)' /\ (data[own[x].topology] = "whole")' /\ (data[own[x].values] = "whole")'
    <3>1. x # h /\ x \in known /\ x \in Slot \ {h} /\ own'[x] = own[x]
      BY <1>1, <1>3, <2>2 DEF Slot
    <3>2. /\ Held(x) /\ data[own[x].topology] = "whole" /\ data[own[x].values] = "whole"
          /\ own[x].topology # None /\ own[x].values # None
      BY <3>1 DEF IInv, GridsWhole
    <3> QED BY <1>5, <3>1, <3>2 DEF Held
  <2>3. ASSUME NEW d \in Dense, d \in known'
        PROVE  Filled(d)' /\ (data[dense[d][0]] = "whole")'
    <3>1. Filled(d) /\ data[dense[d][0]] = "whole" /\ dense[d][0] # None /\ 0 \in 0..2
      BY <1>1, <2>3 DEF Filled, IInv, GridsWhole
    <3> QED BY <1>1, <1>5, <3>1 DEF Filled
  <2> QED BY <2>1, <2>2, <2>3 DEF GridsWhole
<1>7. DenseShaped'
  BY <1>1 DEF IInv, DenseShaped, Filled
<1>8. JobKnown'
  <2>1. \A s \in Local : own'[s] = own[s]
    BY <1>2, <1>3 DEF Slot
  <2>2. \A s \in Local : own[s] = Empty
    BY <1>1, IdleIs DEF IInv, JobKnown
  <2> QED BY <1>1, <2>1, <2>2 DEF JobKnown
<1> QED BY <1>1, <1>4, <1>6, <1>7, <1>8, IdleIs, ExactNext DEF IInv, TypeOK

LEMMA DenseDestroyKeeps ==
  ASSUME IInv, NEW d \in Dense, DenseDestroy(d)
  PROVE  IInv'
<1>1. /\ job = Idle /\ job' = job /\ own' = own /\ refs' = refs /\ dense' = [dense EXCEPT ![d] = NoGrid]
      /\ data' = [c \in DOMAIN data |-> IF \E k \in 0..2 : dense[d][k] = c THEN "free" ELSE data[c]]
      /\ known' = known \ {d}
  BY DEF DenseDestroy
<1>2. Exact(own, dense, data, refs) /\ dense \in DenseType /\ OneOwner(own, dense)
  BY ExactHere DEF Exact
<1>3. dense' \in DenseType /\ dense'[d] = NoGrid /\ \A x \in Dense : x # d => dense'[x] = dense[x]
  BY <1>1, <1>2 DEF DenseType, NoGrid
<1>4. data' = Freed(data, {dense[d][k] : k \in 0..2})
  BY <1>1, <1>2 DEF Exact, DataType, Freed
<1>5. Exact(own', dense', data', refs')
  <2>1. PICK dn, a2 : dn = dense' /\ a2 = data'
    OBVIOUS
  <2>2. /\ dn \in DenseType /\ dn[d] = NoGrid /\ (\A x \in Dense : x # d => dn[x] = dense[x])
        /\ a2 = Freed(data, {dense[d][k] : k \in 0..2})
    BY <1>3, <1>4, <2>1
  <2>3. Exact(own, dn, a2, refs)
    BY <1>2, <2>2, DenseGone
  <2> QED BY <1>1, <2>1, <2>3
<1>6. NoGrid[0] = None
  BY DEF NoGrid
<1>7. \A c \in Cell : (\A k \in 0..2 : dense[d][k] # c) => data'[c] = data[c]
  BY <1>4 DEF Freed
<1>8. GridsWhole'
  <2>1. ASSUME NEW h \in Handle, h \in known'
        PROVE  Held(h)' /\ (data[own[h].topology] = "whole")' /\ (data[own[h].values] = "whole")'
    <3>1. /\ Held(h) /\ own[h].topology # None /\ data[own[h].topology] = "whole"
          /\ own[h].values # None /\ data[own[h].values] = "whole" /\ h \in Slot
      BY <1>1, <2>1 DEF IInv, GridsWhole, Slot
    <3>2. own[h].topology \in Topology /\ own[h].values \in Buffer
      BY <1>2, <3>1, OwnedLives
    <3>3. \A k \in 0..2 : dense[d][k] # own[h].values
      BY <1>2, <3>1 DEF OneOwner
    <3>4. \A k \in 0..2 : dense[d][k] # own[h].topology
      <4>1. \A k \in 0..2 : dense[d][k] \in Buffer \cup {None}
        BY <1>2 DEF DenseType
      <4> QED BY <3>2, <4>1, NoCell DEF Cell
    <3> QED BY <1>1, <1>7, <3>1, <3>2, <3>3, <3>4 DEF Cell, Held
  <2>2. ASSUME NEW x \in Dense, x \in known'
        PROVE  Filled(x)' /\ (data[dense[x][0]] = "whole")'
    <3>1. x # d /\ x \in known
      BY <1>1, <2>2
    <3>2. dense'[x] = dense[x] /\ dense[x][0] # None /\ data[dense[x][0]] = "whole" /\ 0 \in 0..2
      BY <1>3, <3>1 DEF Filled, IInv, GridsWhole
    <3>3. dense[x][0] \in Buffer /\ \A k \in 0..2 : dense[d][k] # dense[x][0]
      BY <1>2, <3>1, <3>2, OwnedLives DEF OneOwner
    <3> QED BY <1>7, <3>2, <3>3 DEF Cell, Filled
  <2>3. ASSUME NEW h \in Handle, Held(h)'
        PROVE  (own[h].topology # None)' /\ (own[h].values # None)'
    BY <1>1, <2>3 DEF Held, IInv, GridsWhole
  <2> QED BY <2>1, <2>2, <2>3 DEF GridsWhole
<1>9. DenseShaped'
  BY <1>3 DEF IInv, DenseShaped, Filled
<1>10. JobKnown'
  BY <1>1, IdleIs DEF IInv, JobKnown
<1> QED BY <1>1, <1>5, <1>8, <1>9, <1>10, IdleIs, ExactNext DEF IInv, TypeOK

LEMMA DenseCreateKeeps ==
  ASSUME IInv, NEW d \in Dense, DenseCreate(d)
  PROVE  IInv'
<1>1. /\ job = Idle /\ ~Filled(d) /\ Free(Buffer) # {} /\ own' = own /\ refs' = refs /\ known' = known
      /\ job' = job /\ dense' = [dense EXCEPT ![d][0] = Min(Free(Buffer))]
      /\ data' = [data EXCEPT ![Min(Free(Buffer))] = "blank"]
  BY DEF DenseCreate
<1>2. Exact(own, dense, data, refs) /\ dense \in DenseType /\ data \in DataType /\ 0 \in 0..2
  BY ExactHere DEF Exact
<1>3. PICK b \in Buffer : b = Min(Free(Buffer)) /\ data[b] = "free"
  BY <1>1, MinFree DEF Cell
<1>4. b \in Cell /\ b # None /\ dense[d][0] = None
  BY <1>1, NoCell DEF Cell, Filled
<1>5. /\ dense' \in DenseType /\ dense'[d][0] = b
      /\ \A x \in Dense, l \in 0..2 : x # d \/ l # 0 => dense'[x][l] = dense[x][l]
      /\ \A x \in Dense : x # d => dense'[x] = dense[x]
  <2>1. dense' = [dense EXCEPT ![d][0] = b]
    BY <1>1, <1>3
  <2> QED BY <1>2, <2>1 DEF DenseType
<1>6. data' \in DataType /\ data'[b] = "blank" /\ \A c \in Cell : c # b => data'[c] = data[c]
  <2>1. data' = [data EXCEPT ![b] = "blank"]
    BY <1>1, <1>3
  <2> QED BY <1>2, <1>4, <2>1 DEF DataType
<1>7. Exact(own', dense', data', refs')
  <2>1. PICK dn, a2 : dn = dense' /\ a2 = data'
    OBVIOUS
  <2>2. /\ dn \in DenseType /\ dn[d][0] = b /\ \A x \in Dense, l \in 0..2 : x # d \/ l # 0 => dn[x][l] = dense[x][l]
        /\ a2 \in DataType /\ a2[b] # "free" /\ \A c \in Cell : c # b => a2[c] = data[c]
    BY <1>5, <1>6, <2>1
  <2>3. Exact(own, dn, a2, refs)
    BY <1>2, <1>3, <1>4, <2>2, TakeScratch
  <2> QED BY <1>1, <2>1, <2>3
<1>8. d \notin known
  BY <1>1 DEF IInv, GridsWhole
<1>9. /\ \A s \in Slot : own[s].topology # None => data'[own[s].topology] = data[own[s].topology]
      /\ \A s \in Slot : own[s].values # None => data'[own[s].values] = data[own[s].values]
      /\ \A x \in Dense, k \in 0..2 : dense[x][k] # None => data'[dense[x][k]] = data[dense[x][k]]
  BY <1>3, <1>4, <1>6, OthersKept
<1>10. GridsWhole'
  <2>1. ASSUME NEW h \in Handle
        PROVE  /\ Held(h)' => (own[h].topology # None)' /\ (own[h].values # None)'
               /\ h \in known' => /\ Held(h)' /\ (data[own[h].topology] = "whole")'
                                  /\ (data[own[h].values] = "whole")'
    <3>1. h \in Slot
      BY DEF Slot
    <3> QED BY <1>1, <1>9, <3>1 DEF Held, IInv, GridsWhole
  <2>2. ASSUME NEW x \in Dense, x \in known'
        PROVE  Filled(x)' /\ (data[dense[x][0]] = "whole")'
    <3>1. x # d /\ x \in known
      BY <1>1, <1>8, <2>2
    <3> QED BY <1>2, <1>5, <1>9, <3>1 DEF Filled, IInv, GridsWhole
  <2> QED BY <2>1, <2>2 DEF GridsWhole
<1>11. DenseShaped'
  BY <1>4, <1>5 DEF IInv, DenseShaped, Filled
<1>12. JobKnown'
  BY <1>1, IdleIs DEF IInv, JobKnown
<1> QED BY <1>1, <1>7, <1>10, <1>11, <1>12, IdleIs, ExactNext DEF IInv, TypeOK

LEMMA DenseUploadKeeps ==
  ASSUME IInv, NEW d \in Dense, DenseUpload(d)
  PROVE  IInv'
<1>1. /\ job = Idle /\ Filled(d) /\ own' = own /\ refs' = refs /\ dense' = dense /\ job' = job
  BY DEF DenseUpload
<1>2. PICK r \in {"whole", "torn"} :
        /\ data' = [data EXCEPT ![dense[d][0]] = r]
        /\ known' = IF r = "whole" THEN known \cup {d} ELSE known \ {d}
  BY DEF DenseUpload
<1>3. Exact(own, dense, data, refs) /\ data \in DataType /\ OneOwner(own, dense) /\ 0 \in 0..2
  BY ExactHere DEF Exact
<1>4. PICK b \in Buffer : b = dense[d][0] /\ data[b] # "free"
  <2>1. dense[d][0] # None
    BY <1>1 DEF Filled
  <2>2. dense[d][0] \in Buffer /\ data[dense[d][0]] # "free"
    BY <1>3, <2>1, OwnedLives
  <2> QED BY <2>2
<1>5. data' \in DataType /\ data'[b] = r /\ \A c \in Cell : c # b => data'[c] = data[c]
  BY <1>2, <1>3, <1>4 DEF DataType, Cell
<1>6. Exact(own', dense', data', refs')
  <2>1. PICK a2 : a2 = data'
    OBVIOUS
  <2>2. a2 \in DataType /\ \A c \in Cell : a2[c] = "free" <=> data[c] = "free"
    BY <1>2, <1>4, <1>5, <2>1
  <2>3. Exact(own, dense, a2, refs)
    BY <1>3, <2>2, ContentsChange
  <2> QED BY <1>1, <2>1, <2>3
<1>7. GridsWhole'
  <2>1. ASSUME NEW h \in Handle
        PROVE  /\ Held(h)' => (own[h].topology # None)' /\ (own[h].values # None)'
               /\ h \in known' => /\ Held(h)' /\ (data[own[h].topology] = "whole")'
                                  /\ (data[own[h].values] = "whole")'
    <3>1. Held(h) => own[h].topology # None /\ own[h].values # None
      BY DEF IInv, GridsWhole
    <3>2. ASSUME h \in known'
          PROVE  Held(h) /\ data'[own[h].topology] = "whole" /\ data'[own[h].values] = "whole"
      <4>1. h \in known /\ h \in Slot
        BY <1>2, <3>2 DEF Slot
      <4>2. Held(h) /\ data[own[h].topology] = "whole" /\ data[own[h].values] = "whole"
        BY <4>1 DEF IInv, GridsWhole
      <4>3. own[h].topology \in Topology /\ own[h].values \in Buffer
        BY <1>3, <3>1, <4>1, <4>2, OwnedLives
      <4>4. own[h].topology # b /\ own[h].values # b
        BY <1>3, <1>4, <3>1, <4>1, <4>2, <4>3 DEF OneOwner
      <4> QED BY <1>5, <4>2, <4>3, <4>4 DEF Cell
    <3> QED BY <1>1, <3>1, <3>2 DEF Held
  <2>2. ASSUME NEW x \in Dense, x \in known'
        PROVE  Filled(x)' /\ (data[dense[x][0]] = "whole")'
    <3>1. CASE x = d
      BY <1>1, <1>2, <1>4, <1>5, <2>2, <3>1 DEF Filled
    <3>2. CASE x # d
      <4>1. x \in known /\ Filled(x) /\ data[dense[x][0]] = "whole"
        BY <1>2, <2>2, <3>2 DEF IInv, GridsWhole
      <4>2. dense[x][0] \in Buffer /\ dense[x][0] # b
        BY <1>3, <1>4, <3>2, <4>1, OwnedLives DEF OneOwner, Filled
      <4> QED BY <1>1, <1>5, <4>1, <4>2 DEF Cell, Filled
    <3> QED BY <3>1, <3>2
  <2> QED BY <2>1, <2>2 DEF GridsWhole
<1>8. DenseShaped' /\ JobKnown'
  <2>1. DenseShaped'
    BY <1>1 DEF IInv, DenseShaped, Filled
  <2>2. JobKnown'
    BY <1>1, IdleIs DEF IInv, JobKnown
  <2> QED BY <2>1, <2>2
<1> QED BY <1>1, <1>2, <1>6, <1>7, <1>8, IdleIs, ExactNext DEF IInv, TypeOK

-----------------------------------------------------------------------------
(* The programs: which outline a list of steps leads to.                   *)

Leads(p, e, f) ==
  /\ p \in Seq(StepType)
  /\ \E es \in [0..Len(p) -> Outline] :
       /\ es[0] = e /\ es[Len(p)] = f
       /\ \A i \in 1..Len(p) : Allowed(p[i], es[i - 1]) /\ es[i] = After(p[i], es[i - 1])

LEMMA LeadsGoes ==
  ASSUME NEW p, NEW e, NEW f, Leads(p, e, f)
  PROVE  Goes(p, e) /\ p \in Seq(StepType)
BY DEF Leads, Goes

\* The single step op.
Does(op, e, f) ==
  op \in StepType /\ e \in Outline /\ f \in Outline /\ Allowed(op, e) /\ f = After(op, e)

LEMMA LeadsOne ==
  ASSUME NEW op, NEW e, NEW f, Does(op, e, f)
  PROVE  Leads(<<op>>, e, f)
<1>1. <<op>> \in Seq(StepType) /\ Len(<<op>>) = 1 /\ <<op>>[1] = op
  BY DEF Does
<1>2. PICK es : es = [i \in 0..1 |-> IF i = 0 THEN e ELSE f]
  OBVIOUS
<1>3. es \in [0..1 -> Outline] /\ es[0] = e /\ es[1] = f
  BY <1>2 DEF Does
<1>4. ASSUME NEW i \in 1..1
      PROVE  Allowed(<<op>>[i], es[i - 1]) /\ es[i] = After(<<op>>[i], es[i - 1])
  <2>1. i = 1 /\ i - 1 = 0
    OBVIOUS
  <2> QED BY <1>1, <1>3, <2>1 DEF Does
<1> QED BY <1>1, <1>3, <1>4 DEF Leads

LEMMA LeadsThen ==
  ASSUME NEW p, NEW q, NEW e, NEW f, NEW g, Leads(p, e, f), Leads(q, f, g)
  PROVE  Leads(p \o q, e, g)
<1>1. PICK a \in [0..Len(p) -> Outline] :
        /\ a[0] = e /\ a[Len(p)] = f
        /\ \A i \in 1..Len(p) : Allowed(p[i], a[i - 1]) /\ a[i] = After(p[i], a[i - 1])
  BY DEF Leads
<1>2. PICK b \in [0..Len(q) -> Outline] :
        /\ b[0] = f /\ b[Len(q)] = g
        /\ \A i \in 1..Len(q) : Allowed(q[i], b[i - 1]) /\ b[i] = After(q[i], b[i - 1])
  BY DEF Leads
<1>3. p \in Seq(StepType) /\ q \in Seq(StepType)
  BY DEF Leads
<1>4. PICK m, n \in Nat : m = Len(p) /\ n = Len(q)
  BY <1>3
<1>5. /\ p \o q \in Seq(StepType) /\ Len(p \o q) = m + n
      /\ \A i \in 1..m : (p \o q)[i] = p[i]
      /\ \A i \in 1..(m + n) : i > m => (p \o q)[i] = q[i - m]
  BY <1>3, <1>4
<1>6. PICK es : es = [i \in 0..(m + n) |-> IF i <= m THEN a[i] ELSE b[i - m]]
  OBVIOUS
<1>7. /\ \A i \in 0..m : es[i] = a[i]
      /\ \A i \in 0..(m + n) : i > m => es[i] = b[i - m]
  BY <1>4, <1>6
<1>8. es \in [0..(m + n) -> Outline]
  <2>1. ASSUME NEW i \in 0..(m + n) PROVE (IF i <= m THEN a[i] ELSE b[i - m]) \in Outline
    <3>1. CASE i <= m
      BY <1>1, <1>4, <3>1
    <3>2. CASE ~ (i <= m)
      <4>1. i - m \in 0..n
        BY <1>4, <3>2
      <4> QED BY <1>2, <1>4, <3>2, <4>1
    <3> QED BY <3>1, <3>2
  <2> QED BY <1>6, <2>1
<1>9. es[0] = e /\ es[m + n] = g
  <2>1. es[0] = a[0]
    BY <1>4, <1>7
  <2>2. es[m] = f
    BY <1>1, <1>4, <1>7
  <2>3. CASE n = 0
    BY <1>1, <1>2, <1>4, <2>1, <2>2, <2>3
  <2>4. CASE n # 0
    <3>1. m + n \in 0..(m + n) /\ m + n > m /\ (m + n) - m = n
      BY <1>4, <2>4
    <3> QED BY <1>1, <1>2, <1>4, <1>7, <2>1, <3>1
  <2> QED BY <2>3, <2>4
<1>10. ASSUME NEW i \in 1..(m + n)
       PROVE  Allowed((p \o q)[i], es[i - 1]) /\ es[i] = After((p \o q)[i], es[i - 1])
  <2>1. CASE i <= m
    <3>1. i \in 1..m /\ i \in 0..m /\ i - 1 \in 0..m
      BY <1>4, <2>1
    <3>2. (p \o q)[i] = p[i] /\ es[i] = a[i] /\ es[i - 1] = a[i - 1]
      BY <1>5, <1>7, <3>1
    <3> QED BY <1>1, <1>4, <3>1, <3>2
  <2>2. CASE i > m
    <3>1. /\ i - m \in 1..n /\ i \in 0..(m + n) /\ i - 1 \in 0..(m + n)
          /\ (i - m) - 1 = (i - 1) - m
      BY <1>4, <2>2
    <3>2. (p \o q)[i] = q[i - m] /\ es[i] = b[i - m]
      BY <1>5, <1>7, <2>2, <3>1
    <3>3. es[i - 1] = b[(i - m) - 1]
      <4>1. CASE i - 1 > m
        BY <1>7, <3>1, <4>1
      <4>2. CASE ~ (i - 1 > m)
        <5>1. i - 1 = m /\ (i - m) - 1 = 0 /\ m \in 0..m
          BY <1>4, <2>2, <4>2
        <5> QED BY <1>1, <1>2, <1>4, <1>7, <5>1
      <4> QED BY <4>1, <4>2
    <3> QED BY <1>2, <1>4, <3>1, <3>2, <3>3
  <2> QED BY <1>4, <2>1, <2>2
<1> QED BY <1>4, <1>5, <1>8, <1>9, <1>10 DEF Leads

LEMMA LeadsTwo ==
  ASSUME NEW a, NEW b, NEW e0, NEW e1, NEW e2,
         Does(a, e0, e1), Does(b, e1, e2)
  PROVE  Leads(<<a, b>>, e0, e2)
<1>1. PICK p : p = <<a, b>>
  OBVIOUS
<1>2. p \in Seq(StepType) /\ Len(p) = 2
  BY <1>1 DEF Does
<1>3. p[1] = a /\ p[2] = b
  BY <1>1
<1>4. PICK es : es = [i \in 0..2 |-> IF i = 0 THEN e0 ELSE IF i = 1 THEN e1 ELSE e2]
  OBVIOUS
<1>5. es[0] = e0 /\ es[1] = e1 /\ es[2] = e2
  BY <1>4
<1>6. es \in [0..2 -> Outline]
  BY <1>4 DEF Does
<1>7. ASSUME NEW i \in 1..2 PROVE Allowed(p[i], es[i - 1]) /\ es[i] = After(p[i], es[i - 1])
  <2>1. CASE i = 1
    BY <1>3, <1>5, <2>1 DEF Does
  <2>2. CASE i = 2
    BY <1>3, <1>5, <2>2 DEF Does
  <2> QED BY <2>1, <2>2
<1> QED BY <1>1, <1>2, <1>5, <1>6, <1>7 DEF Leads

LEMMA LeadsThree ==
  ASSUME NEW a, NEW b, NEW c, NEW e0, NEW e1, NEW e2, NEW e3,
         Does(a, e0, e1), Does(b, e1, e2), Does(c, e2, e3)
  PROVE  Leads(<<a, b, c>>, e0, e3)
<1>1. PICK p : p = <<a, b, c>>
  OBVIOUS
<1>2. p \in Seq(StepType) /\ Len(p) = 3
  BY <1>1 DEF Does
<1>3. p[1] = a /\ p[2] = b /\ p[3] = c
  BY <1>1
<1>4. PICK es : es = [i \in 0..3 |-> IF i = 0 THEN e0 ELSE IF i = 1 THEN e1 ELSE IF i = 2 THEN e2 ELSE e3]
  OBVIOUS
<1>5. es[0] = e0 /\ es[1] = e1 /\ es[2] = e2 /\ es[3] = e3
  BY <1>4
<1>6. es \in [0..3 -> Outline]
  BY <1>4 DEF Does
<1>7. ASSUME NEW i \in 1..3 PROVE Allowed(p[i], es[i - 1]) /\ es[i] = After(p[i], es[i - 1])
  <2>1. CASE i = 1
    BY <1>3, <1>5, <2>1 DEF Does
  <2>2. CASE i = 2
    BY <1>3, <1>5, <2>2 DEF Does
  <2>3. CASE i = 3
    BY <1>3, <1>5, <2>3 DEF Does
  <2> QED BY <2>1, <2>2, <2>3
<1> QED BY <1>1, <1>2, <1>5, <1>6, <1>7 DEF Leads

LEMMA LeadsSix ==
  ASSUME NEW a, NEW b, NEW c, NEW d, NEW k, NEW l, NEW e0, NEW e1, NEW e2, NEW e3, NEW e4, NEW e5, NEW e6,
         Does(a, e0, e1), Does(b, e1, e2), Does(c, e2, e3), 
         Does(d, e3, e4), Does(k, e4, e5), Does(l, e5, e6)
  PROVE  Leads(<<a, b, c, d, k, l>>, e0, e6)
<1>1. PICK p : p = <<a, b, c, d, k, l>>
  OBVIOUS
<1>2. p \in Seq(StepType) /\ Len(p) = 6
  BY <1>1 DEF Does
<1>3. p[1] = a /\ p[2] = b /\ p[3] = c /\ p[4] = d /\ p[5] = k /\ p[6] = l
  BY <1>1
<1>4. PICK es : es = [i \in 0..6 |-> IF i = 0 THEN e0 ELSE IF i = 1 THEN e1 ELSE IF i = 2 THEN e2 ELSE IF i = 3 THEN e3 ELSE IF i = 4 THEN e4 ELSE IF i = 5 THEN e5 ELSE e6]
  OBVIOUS
<1>5. es[0] = e0 /\ es[1] = e1 /\ es[2] = e2 /\ es[3] = e3 /\ es[4] = e4 /\ es[5] = e5 /\ es[6] = e6
  BY <1>4
<1>6. es \in [0..6 -> Outline]
  BY <1>4 DEF Does
<1>7. ASSUME NEW i \in 1..6 PROVE Allowed(p[i], es[i - 1]) /\ es[i] = After(p[i], es[i - 1])
  <2>1. CASE i = 1
    BY <1>3, <1>5, <2>1 DEF Does
  <2>2. CASE i = 2
    BY <1>3, <1>5, <2>2 DEF Does
  <2>3. CASE i = 3
    BY <1>3, <1>5, <2>3 DEF Does
  <2>4. CASE i = 4
    BY <1>3, <1>5, <2>4 DEF Does
  <2>5. CASE i = 5
    BY <1>3, <1>5, <2>5 DEF Does
  <2>6. CASE i = 6
    BY <1>3, <1>5, <2>6 DEF Does
  <2> QED BY <2>1, <2>2, <2>3, <2>4, <2>5, <2>6
<1> QED BY <1>1, <1>2, <1>5, <1>6, <1>7 DEF Leads

LEMMA NamedOp ==
  ASSUME NEW s \in Local \cup {"out", "step"}, NEW v \in Named
  PROVE  <<v, s>> \in StepType
BY DEF StepType

\* What each step does to an outline in which it is allowed.
LEMMA BufferDoes ==
  ASSUME NEW e \in Outline, ~e.done, NEW s \in Local \ e.vals
  PROVE  \E f : /\ Does(<<"buffer", s>>, e, f) /\ SameTops(e, f) /\ Same(e, f)
                /\ f.vals = e.vals \cup {s} /\ f.filled = e.filled
<1>1. PICK f : f = After(<<"buffer", s>>, e)
  OBVIOUS
<1>2. Allowed(<<"buffer", s>>, e)
  BY DEF Allowed
<1>9. <<"buffer", s>> \in StepType
  BY OutlineParts, NamedOp DEF Local, Named
<1> QED BY <1>1, <1>2, BufferIs, <1>9 DEF Does

LEMMA TopologyDoes ==
  ASSUME NEW e \in Outline, ~e.done, NEW s \in Local \ e.tops
  PROVE  \E f : /\ Does(<<"topology", s>>, e, f) /\ SameVals(e, f) /\ Same(e, f)
                /\ f.tops = e.tops \cup {s} /\ f.fresh = e.fresh \cup {s}
                /\ f.listed = e.listed /\ f.indexed = e.indexed
<1>1. PICK f : f = After(<<"topology", s>>, e)
  OBVIOUS
<1>2. Allowed(<<"topology", s>>, e)
  BY DEF Allowed
<1>9. <<"topology", s>> \in StepType
  BY OutlineParts, NamedOp DEF Local, Named
<1> QED BY <1>1, <1>2, TopologyIs, <1>9 DEF Does

LEMMA ShareDoes ==
  ASSUME NEW e \in Outline, ~e.done, NEW s \in Local \ e.tops, e.in # "dense", Readable(e)
  PROVE  \E f : /\ Does(<<"share", s>>, e, f) /\ SameVals(e, f) /\ Same(e, f)
                /\ f.tops = e.tops \cup {s} /\ f.indexed = e.indexed \cup {s}
                /\ f.listed = e.listed /\ f.fresh = e.fresh
<1>1. PICK f : f = After(<<"share", s>>, e)
  OBVIOUS
<1>2. Allowed(<<"share", s>>, e)
  BY DEF Allowed
<1>9. <<"share", s>> \in StepType
  BY OutlineParts, NamedOp DEF Local, Named
<1> QED BY <1>1, <1>2, ShareIs, <1>9 DEF Does

LEMMA IndexDoes ==
  ASSUME NEW e \in Outline, ~e.done, NEW s \in e.listed
  PROVE  \E f : /\ Does(<<"index", s>>, e, f) /\ SameVals(e, f) /\ Same(e, f)
                /\ f.tops = e.tops /\ f.indexed = e.indexed \cup {s}
                /\ f.listed = e.listed \ {s} /\ f.fresh = e.fresh \ {s}
<1>1. PICK f : f = After(<<"index", s>>, e)
  OBVIOUS
<1>2. Allowed(<<"index", s>>, e) /\ s \in Local
  BY OutlineParts DEF Allowed
<1>9. <<"index", s>> \in StepType
  BY OutlineParts, NamedOp DEF Local, Named
<1> QED BY <1>1, <1>2, IndexIs, <1>9 DEF Does

\* The outline f is e after the pointers S were written.
Wrote(e, f, S) ==
  /\ f.tops = e.tops /\ f.fresh = e.fresh /\ f.indexed = e.indexed /\ f.vals = e.vals
  /\ f.listed = e.listed \cup (S \cap e.tops) /\ f.filled = e.filled \cup (S \cap e.vals) /\ Same(e, f)

LEMMA SendDoes ==
  ASSUME NEW e \in Outline, ~e.done, NEW s \in {"weights", "next", "g"}, Writable(e, {s})
  PROVE  \E f : Does(<<"send", s>>, e, f) /\ Wrote(e, f, {s})
<1>1. PICK f : f = After(<<"send", s>>, e)
  OBVIOUS
<1>2. Allowed(<<"send", s>>, e) /\ s \in Local
  BY DEF Allowed, Local
<1>3. f = Written(e, {s})
  BY <1>1, SendIs
<1>9. <<"send", s>> \in StepType
  BY OutlineParts, NamedOp DEF Local, Named
<1> QED BY <1>1, <1>2, <1>3, WrittenIs, <1>9 DEF Does, Wrote

LEMMA ListSourceDoes ==
  ASSUME NEW e \in Outline, ~e.done, Writable(e, {"source", "marks"})
  PROVE  \E f : Does(<<"list", "source">>, e, f) /\ Wrote(e, f, {"source", "marks"})
<1>1. PICK f : f = After(<<"list", "source">>, e)
  OBVIOUS
<1>2. Allowed(<<"list", "source">>, e) /\ "source" \in Local /\ {"source", "marks"} \in SUBSET Local
  BY DEF Allowed, Local
<1>3. f = Written(e, {"source", "marks"})
  BY <1>1, ListIs
<1>9. <<"list", "source">> \in StepType
  BY OutlineParts, NamedOp DEF Local, Named
<1> QED BY <1>1, <1>2, <1>3, WrittenIs, <1>9 DEF Does, Wrote

LEMMA ListCandDoes ==
  ASSUME NEW e \in Outline, ~e.done, Writable(e, {"cand", "flags"}), Readable(e), WholeIn(e, {"weights"})
  PROVE  \E f : Does(<<"list", "cand">>, e, f) /\ Wrote(e, f, {"cand", "flags"})
<1>1. PICK f : f = After(<<"list", "cand">>, e)
  OBVIOUS
<1>2. Allowed(<<"list", "cand">>, e) /\ "cand" \in Local /\ {"cand", "flags"} \in SUBSET Local
  BY DEF Allowed, Local
<1>3. f = Written(e, {"cand", "flags"})
  BY <1>1, ListIs
<1>9. <<"list", "cand">> \in StepType
  BY OutlineParts, NamedOp DEF Local, Named
<1> QED BY <1>1, <1>2, <1>3, WrittenIs, <1>9 DEF Does, Wrote

LEMMA ListGridDoes ==
  ASSUME NEW e \in Outline, ~e.done, Writable(e, {"g"}), Readable(e), WholeIn(e, {"cand", "flags"})
  PROVE  \E f : Does(<<"list", "g">>, e, f) /\ Wrote(e, f, {"g"})
<1>1. PICK f : f = After(<<"list", "g">>, e)
  OBVIOUS
<1>2. Allowed(<<"list", "g">>, e) /\ "g" \in Local
  BY DEF Allowed, Local
<1>3. f = Written(e, {"g"})
  BY <1>1, ListIs
<1>9. <<"list", "g">> \in StepType
  BY OutlineParts, NamedOp DEF Local, Named
<1> QED BY <1>1, <1>2, <1>3, WrittenIs, <1>9 DEF Does, Wrote

LEMMA MarkDoes ==
  ASSUME NEW e \in Outline, ~e.done, Writable(e, {"flags"}), Readable(e), WholeIn(e, {"cand", "weights"})
  PROVE  \E f : Does(<<"mark", "flags">>, e, f) /\ Wrote(e, f, {"flags"})
<1>1. PICK f : f = After(<<"mark", "flags">>, e)
  OBVIOUS
<1>2. Allowed(<<"mark", "flags">>, e) /\ "flags" \in Local
  BY DEF Allowed, Local
<1>3. f = Written(e, {"flags"})
  BY <1>1, ListIs
<1>9. <<"mark", "flags">> \in StepType
  BY OutlineParts, NamedOp DEF Local, Named
<1> QED BY <1>1, <1>2, <1>3, WrittenIs, <1>9 DEF Does, Wrote

LEMMA FillDoes ==
  ASSUME NEW e \in Outline, ~e.done, Readable(e), WholeIn(e, {"weights"}), "g" \in e.indexed \cap e.vals
  PROVE  \E f : /\ Does(<<"fill", "g">>, e, f) /\ SameTops(e, f) /\ Same(e, f)
                /\ f.vals = e.vals /\ f.filled = e.filled \cup {"g"}
<1>1. PICK f : f = After(<<"fill", "g">>, e)
  OBVIOUS
<1>2. Allowed(<<"fill", "g">>, e)
  BY DEF Allowed
<1>9. <<"fill", "g">> \in StepType
  BY OutlineParts, NamedOp DEF Local, Named
<1> QED BY <1>1, <1>2, FillIs, <1>9 DEF Does

\* The pointers S are empty in f, and as in e elsewhere.
Emptier(e, f, S) ==
  /\ f.tops = e.tops \ S /\ f.fresh = e.fresh \ S /\ f.indexed = e.indexed \ S
  /\ f.vals = e.vals \ S /\ f.listed = e.listed \ S /\ f.filled = e.filled \ S

LEMMA CleanDoes ==
  ASSUME NEW e \in Outline
  PROVE  \E f : Does(<<"clean", "step">>, e, f) /\ Emptier(e, f, {"cand", "flags"}) /\ Same(e, f)
<1>1. PICK f : f = After(<<"clean", "step">>, e)
  OBVIOUS
<1>2. f = Without(e, {"cand", "flags"}) /\ Allowed(<<"clean", "step">>, e) /\ {"cand", "flags"} \in SUBSET Local
  BY <1>1, CleanIs DEF Local
<1>9. <<"clean", "step">> \in StepType
  BY NamedOp DEF Local, Named
<1> QED BY <1>1, <1>2, WithoutIs, <1>9 DEF Does, Emptier

LEMMA CommitTmpDoes ==
  ASSUME NEW e \in Outline, ~e.done, "g" \in e.indexed \cap e.filled
  PROVE  \E f : /\ Does(<<"commit", "tmp">>, e, f) /\ f.in = "tmp" /\ f.out = e.out /\ f.done = e.done
                /\ f.scratch = e.scratch /\ f.passed = e.passed
                /\ f.tops = (e.tops \ {"g", "tmp"}) \cup {"tmp"} /\ f.vals = (e.vals \ {"g", "tmp"}) \cup {"tmp"}
                /\ f.indexed = (e.indexed \ {"g", "tmp"}) \cup {"tmp"}
                /\ f.filled = (e.filled \ {"g", "tmp"}) \cup {"tmp"}
                /\ f.fresh = e.fresh \ {"g", "tmp"} /\ f.listed = e.listed \ {"g", "tmp"}
<1>1. PICK f : f = After(<<"commit", "tmp">>, e)
  OBVIOUS
<1>2. Allowed(<<"commit", "tmp">>, e)
  BY DEF Allowed
<1>3. f \in Outline
  BY <1>1, CommitTmpIs
<1>9. <<"commit", "tmp">> \in StepType
  BY OutlineParts, NamedOp DEF Local, Named
<1> QED BY <1>1, <1>2, <1>3, CommitTmpIs, <1>9 DEF Does

\* The output is replaced by what s owns.
LEMMA DeliverDoes ==
  ASSUME NEW e \in Outline, ~e.done, NEW op, NEW s,
         \/ /\ op = <<"commit", "out">> /\ s = "g"
            /\ "g" \in e.indexed \cap e.filled /\ e.out \in {"slot", "held"}
         \/ /\ op = <<"publish", "out">> /\ s = "tmp"
            /\ "tmp" \in e.indexed \cap e.filled /\ e.out \in {"slot", "held"}
         \/ op = <<"swap", "next">> /\ s = "next" /\ "next" \in e.filled \ e.tops /\ e.in = "self" /\ e.out = "held"
  PROVE  \E f : Does(op, e, f)
<1>1. PICK f : f = After(op, e)
  OBVIOUS
<1>2. s \in Local
  BY DEF Local
<1>3. f \in Outline
  BY <1>1, <1>2, DeliverIs
<1>4. Allowed(op, e)
  BY DEF Allowed
<1>5. op \in StepType
  BY NamedOp DEF Local, Named
<1> QED BY <1>1, <1>3, <1>4, <1>5 DEF Does

LEMMA ScratchDoes ==
  ASSUME NEW e \in Outline, ~e.done, NEW k \in 1..2, e.out = "dense"
  PROVE  \E f : /\ Does(<<"scratch", k>>, e, f) /\ SameTops(e, f) /\ SameVals(e, f) /\ f.passed = e.passed
                /\ f.in = e.in /\ f.out = e.out /\ f.done = e.done /\ f.scratch = e.scratch \cup {k}
<1>1. PICK f : f = After(<<"scratch", k>>, e)
  OBVIOUS
<1>2. f = [e EXCEPT !.scratch = @ \cup {k}]
  BY <1>1, DenseStepIs
<1>3. f \in Outline
  <2>1. PICK A \in SUBSET (1..2) : A = e.scratch \cup {k}
    BY OutlineParts
  <2>2. f = [e EXCEPT !.scratch = A]
    BY <1>2, <2>1
  <2> QED BY <2>2 DEF Outline
<1>4. Allowed(<<"scratch", k>>, e)
  BY DEF Allowed
<1>9. <<"scratch", k>> \in StepType
  BY OutlineParts DEF StepType, Numbered
<1>5. SameTops(e, f) /\ SameVals(e, f) /\ f.passed = e.passed /\ f.in = e.in /\ f.out = e.out
      /\ f.done = e.done /\ f.scratch = e.scratch \cup {k}
  BY <1>2, ScratchIs
<1> QED BY <1>1, <1>3, <1>4, <1>5, <1>9 DEF Does

LEMMA ComposeDoes ==
  ASSUME NEW e \in Outline, ~e.done, e.out = "dense", 1 \in e.scratch, Readable(e)
  PROVE  \E f : /\ Does(<<"compose", 1>>, e, f) /\ SameTops(e, f) /\ SameVals(e, f) /\ f.scratch = e.scratch
                /\ f.in = e.in /\ f.out = e.out /\ f.done = e.done /\ f.passed = e.passed \cup {1}
<1>1. PICK f : f = After(<<"compose", 1>>, e)
  OBVIOUS
<1>2. f = [e EXCEPT !.passed = @ \cup {1}]
  BY <1>1, DenseStepIs
<1>3. f \in Outline
  <2>1. PICK A \in SUBSET (1..2) : A = e.passed \cup {1}
    BY OutlineParts
  <2>2. f = [e EXCEPT !.passed = A]
    BY <1>2, <2>1
  <2> QED BY <2>2 DEF Outline
<1>4. Allowed(<<"compose", 1>>, e)
  BY DEF Allowed
<1>5. /\ SameTops(e, f) /\ SameVals(e, f) /\ f.scratch = e.scratch
      /\ f.in = e.in /\ f.out = e.out /\ f.done = e.done /\ f.passed = e.passed \cup {1}
  BY <1>2 DEF Outline, SameTops, SameVals
<1>9. <<"compose", 1>> \in StepType
  BY OutlineParts DEF StepType, Numbered
<1> QED BY <1>1, <1>3, <1>4, <1>5, <1>9 DEF Does

LEMMA ExchangeDoes ==
  ASSUME NEW e \in Outline, ~e.done, e.out = "dense", NEW k \in e.passed
  PROVE  \E f : Does(<<"exchange", k>>, e, f)
<1>1. PICK f : f = After(<<"exchange", k>>, e)
  OBVIOUS
<1>2. f = [e EXCEPT !.done = TRUE]
  BY <1>1, DenseStepIs
<1>3. f \in Outline
  BY <1>2 DEF Outline
<1>4. Allowed(<<"exchange", k>>, e) /\ k \in Int
  BY OutlineParts DEF Allowed
<1>9. <<"exchange", k>> \in StepType
  BY OutlineParts DEF StepType, Numbered
<1> QED BY <1>1, <1>3, <1>4, <1>9 DEF Does

-----------------------------------------------------------------------------
(* The parts of a program.                                                 *)

\* Of an outline: that s owns nothing, a complete result, or a complete buffer alone.
Absent(e, s) ==
  s \notin e.tops /\ s \notin e.vals /\ s \notin e.fresh /\ s \notin e.listed /\ s \notin e.indexed /\ s \notin e.filled
Complete(e, s) ==
  s \in e.tops /\ s \in e.vals /\ s \notin e.fresh /\ s \notin e.listed /\ s \in e.indexed /\ s \in e.filled
Alone(e, s) ==
  s \notin e.tops /\ s \in e.vals /\ s \notin e.fresh /\ s \notin e.listed /\ s \notin e.indexed /\ s \in e.filled

AgreeBut(e, f, S) == \A u \in Local \ S : Agree(e, f, u)

LEMMA ReadableStays ==
  ASSUME NEW e, NEW f, Readable(e), Same(e, f), e.indexed \subseteq f.indexed, e.filled \subseteq f.filled
  PROVE  Readable(f)
BY DEF Readable, Same

LEMMA WeightsLead ==
  ASSUME NEW e \in Outline, ~e.done, Absent(e, "weights")
  PROVE  \E f \in Outline : Leads(Weights, e, f) /\ Same(e, f) /\ AgreeBut(e, f, {"weights"}) /\ Alone(f, "weights")
<1>1. "weights" \in Local \ e.vals
  BY DEF Absent, Local
<1>2. PICK e1 : /\ Does(<<"buffer", "weights">>, e, e1) /\ SameTops(e, e1) /\ Same(e, e1)
                /\ e1.vals = e.vals \cup {"weights"} /\ e1.filled = e.filled
  BY <1>1, BufferDoes
<1>3. e1 \in Outline /\ ~e1.done /\ Writable(e1, {"weights"})
  BY <1>2 DEF Does, Same, SameTops, Writable, Absent
<1>4. PICK f : Does(<<"send", "weights">>, e1, f) /\ Wrote(e1, f, {"weights"})
  BY <1>3, SendDoes
<1>5. Leads(Weights, e, f) /\ f \in Outline
  BY <1>2, <1>4, LeadsTwo DEF Weights, Does
<1>6. Same(e, f)
  BY <1>2, <1>4 DEF Same, Wrote
<1>7. AgreeBut(e, f, {"weights"})
  BY <1>2, <1>4 DEF AgreeBut, Agree, SameTops, Wrote
<1>8. Alone(f, "weights")
  BY <1>2, <1>4 DEF Alone, Absent, SameTops, Wrote
<1> QED BY <1>5, <1>6, <1>7, <1>8

\* What a step finds: readable inputs and weights, and no temporary of its own.
Ready(e) ==
  /\ e \in Outline /\ ~e.done /\ e.in # "dense" /\ Readable(e) /\ Alone(e, "weights")
  /\ Absent(e, "g") /\ Absent(e, "cand") /\ Absent(e, "flags")

\* The candidates are listed or shared, and their flags allocated.
Listed(e, f) ==
  /\ f \in Outline /\ Same(e, f) /\ AgreeBut(e, f, {"cand", "flags"})
  /\ "cand" \in f.indexed /\ "cand" \notin f.vals /\ "flags" \in f.vals /\ "flags" \notin f.tops
  /\ e.indexed \subseteq f.indexed /\ e.filled \subseteq f.filled

Flags      == <<<<"buffer", "flags">>>>
Candidates == <<<<"topology", "cand">>, <<"list", "cand">>, <<"index", "cand">>>>
Shared     == <<<<"share", "cand">>>>

LEMMA FlagsLead ==
  ASSUME NEW e, Ready(e)
  PROVE  \E f \in Outline : /\ Leads(Flags, e, f) /\ SameTops(e, f) /\ Same(e, f)
                            /\ f.vals = e.vals \cup {"flags"} /\ f.filled = e.filled
<1>1. "flags" \in Local \ e.vals /\ e \in Outline /\ ~e.done
  BY DEF Ready, Absent, Local
<1>2. PICK f : /\ Does(<<"buffer", "flags">>, e, f) /\ SameTops(e, f) /\ Same(e, f)
               /\ f.vals = e.vals \cup {"flags"} /\ f.filled = e.filled
  BY <1>1, BufferDoes
<1>3. Leads(Flags, e, f) /\ f \in Outline
  BY <1>2, LeadsOne DEF Flags, Does
<1> QED BY <1>2, <1>3

LEMMA CandidatesLead ==
  ASSUME NEW e, Ready(e)
  PROVE  \E f : Leads(Flags \o Candidates, e, f) /\ Listed(e, f)
<1>1. PICK e1 \in Outline : /\ Leads(Flags, e, e1) /\ SameTops(e, e1) /\ Same(e, e1)
                            /\ e1.vals = e.vals \cup {"flags"} /\ e1.filled = e.filled
  BY FlagsLead
<1>2. "cand" \in Local \ e1.tops /\ ~e1.done
  BY <1>1 DEF Ready, Absent, Local, SameTops, Same
<1>3. PICK e2 : /\ Does(<<"topology", "cand">>, e1, e2) /\ SameVals(e1, e2) /\ Same(e1, e2)
                /\ e2.tops = e1.tops \cup {"cand"} /\ e2.fresh = e1.fresh \cup {"cand"}
                /\ e2.listed = e1.listed /\ e2.indexed = e1.indexed
  BY <1>2, TopologyDoes
<1>4. e2 \in Outline /\ ~e2.done
  BY <1>2, <1>3 DEF Does, Same
<1>5. Writable(e2, {"cand", "flags"})
  BY <1>1, <1>3 DEF Writable, Ready, Absent, SameTops
<1>6. WholeIn(e2, {"weights"})
  BY <1>1, <1>3 DEF WholeIn, Ready, Alone, SameTops, SameVals
<1>7. Readable(e2)
  <2>1. Same(e, e2) /\ e.indexed \subseteq e2.indexed /\ e.filled \subseteq e2.filled /\ Readable(e)
    BY <1>1, <1>3 DEF Same, SameTops, SameVals, Ready
  <2> QED BY <2>1, ReadableStays
<1>8. PICK e3 : Does(<<"list", "cand">>, e2, e3) /\ Wrote(e2, e3, {"cand", "flags"})
  BY <1>4, <1>5, <1>6, <1>7, ListCandDoes
<1>9. "cand" \in e3.listed /\ e3 \in Outline /\ ~e3.done
  BY <1>3, <1>4, <1>8 DEF Does, Wrote, Same
<1>10. PICK f : /\ Does(<<"index", "cand">>, e3, f) /\ SameVals(e3, f) /\ Same(e3, f)
                /\ f.tops = e3.tops /\ f.indexed = e3.indexed \cup {"cand"}
                /\ f.listed = e3.listed \ {"cand"} /\ f.fresh = e3.fresh \ {"cand"}
  BY <1>9, IndexDoes
<1>11. Leads(Flags \o Candidates, e, f)
  <2>1. Leads(Candidates, e1, f)
    BY <1>3, <1>8, <1>10, LeadsThree DEF Candidates
  <2> QED BY <1>1, <2>1, LeadsThen
<1>12. Same(e, f) /\ f \in Outline
  BY <1>1, <1>3, <1>8, <1>10 DEF Same, Wrote, Does
<1>13. /\ e2.tops = e.tops \cup {"cand"} /\ e2.vals = e.vals \cup {"flags"} /\ e2.fresh = e.fresh \cup {"cand"}
       /\ e2.listed = e.listed /\ e2.indexed = e.indexed /\ e2.filled = e.filled
  BY <1>1, <1>3 DEF SameTops, SameVals
<1>14. /\ f.tops = e.tops \cup {"cand"} /\ f.vals = e.vals \cup {"flags"}
       /\ f.fresh = (e.fresh \cup {"cand"}) \ {"cand"} /\ f.indexed = e.indexed \cup {"cand"}
  BY <1>8, <1>10, <1>13 DEF Wrote, SameVals
<1>15. /\ f.listed = (e.listed \cup ({"cand", "flags"} \cap e2.tops)) \ {"cand"}
       /\ f.filled = e.filled \cup ({"cand", "flags"} \cap e2.vals)
  BY <1>8, <1>10, <1>13 DEF Wrote, SameVals
<1>16. AgreeBut(e, f, {"cand", "flags"})
  BY <1>14, <1>15 DEF AgreeBut, Agree
<1>17. /\ "cand" \in f.indexed /\ "cand" \notin f.vals /\ "flags" \in f.vals /\ "flags" \notin f.tops
       /\ e.indexed \subseteq f.indexed /\ e.filled \subseteq f.filled
  BY <1>14, <1>15 DEF Ready, Absent
<1> QED BY <1>11, <1>12, <1>16, <1>17 DEF Listed

LEMMA SharedLead ==
  ASSUME NEW e, Ready(e)
  PROVE  \E f : Leads(Flags \o Shared, e, f) /\ Listed(e, f)
<1>1. PICK e1 \in Outline : /\ Leads(Flags, e, e1) /\ SameTops(e, e1) /\ Same(e, e1)
                            /\ e1.vals = e.vals \cup {"flags"} /\ e1.filled = e.filled
  BY FlagsLead
<1>2. "cand" \in Local \ e1.tops /\ ~e1.done /\ e1.in # "dense"
  BY <1>1 DEF Ready, Absent, Local, SameTops, Same
<1>3. Readable(e1)
  <2>1. e.indexed \subseteq e1.indexed /\ e.filled \subseteq e1.filled /\ Readable(e)
    BY <1>1 DEF SameTops, Ready
  <2> QED BY <1>1, <2>1, ReadableStays
<1>4. PICK f : /\ Does(<<"share", "cand">>, e1, f) /\ SameVals(e1, f) /\ Same(e1, f)
               /\ f.tops = e1.tops \cup {"cand"} /\ f.indexed = e1.indexed \cup {"cand"}
               /\ f.listed = e1.listed /\ f.fresh = e1.fresh
  BY <1>2, <1>3, ShareDoes
<1>5. Leads(Flags \o Shared, e, f)
  <2>1. Leads(Shared, e1, f)
    BY <1>4, LeadsOne DEF Shared
  <2> QED BY <1>1, <2>1, LeadsThen
<1>6. Same(e, f) /\ f \in Outline
  BY <1>1, <1>4 DEF Same, Does
<1>7. /\ f.tops = e.tops \cup {"cand"} /\ f.vals = e.vals \cup {"flags"} /\ f.fresh = e.fresh
      /\ f.indexed = e.indexed \cup {"cand"} /\ f.listed = e.listed /\ f.filled = e.filled
  BY <1>1, <1>4 DEF SameTops, SameVals
<1>8. AgreeBut(e, f, {"cand", "flags"})
  BY <1>7 DEF AgreeBut, Agree
<1>9. /\ "cand" \in f.indexed /\ "cand" \notin f.vals /\ "flags" \in f.vals /\ "flags" \notin f.tops
      /\ e.indexed \subseteq f.indexed /\ e.filled \subseteq f.filled
  BY <1>7 DEF Ready, Absent
<1> QED BY <1>5, <1>6, <1>8, <1>9 DEF Listed

Built(e, f) == f \in Outline /\ Same(e, f) /\ AgreeBut(e, f, {"g", "cand", "flags"}) /\ Complete(f, "g")

Built6 == <<<<"mark", "flags">>, <<"topology", "g">>, <<"list", "g">>, <<"index", "g">>,
            <<"buffer", "g">>, <<"fill", "g">>>>

LEMMA BuiltLead ==
  ASSUME NEW e, Ready(e), NEW d, Listed(e, d)
  PROVE  \E f : Leads(Built6, d, f) /\ Built(e, f)
<1>1. /\ d \in Outline /\ ~d.done /\ Readable(d) /\ Alone(d, "weights") /\ Absent(d, "g")
  <2>1. Agree(e, d, "weights") /\ Agree(e, d, "g")
    BY DEF Listed, AgreeBut, Local
  <2>2. Readable(d)
    BY ReadableStays DEF Ready, Listed
  <2> QED BY <2>1, <2>2 DEF Listed, Ready, Same, Alone, Absent, Agree
<1>2. Writable(d, {"flags"}) /\ WholeIn(d, {"cand", "weights"})
  BY <1>1 DEF Writable, WholeIn, Listed, Alone
<1>3. PICK d1 : Does(<<"mark", "flags">>, d, d1) /\ Wrote(d, d1, {"flags"})
  BY <1>1, <1>2, MarkDoes
<1>4. /\ d1.tops = d.tops /\ d1.fresh = d.fresh /\ d1.indexed = d.indexed /\ d1.vals = d.vals
      /\ d1.listed = d.listed /\ d1.filled = d.filled \cup {"flags"} /\ Same(d, d1) /\ d1 \in Outline
  BY <1>3 DEF Wrote, Listed, Does
<1>5. "g" \in Local \ d1.tops /\ ~d1.done
  BY <1>1, <1>4 DEF Absent, Local, Same
<1>6. PICK d2 : /\ Does(<<"topology", "g">>, d1, d2) /\ SameVals(d1, d2) /\ Same(d1, d2)
                /\ d2.tops = d1.tops \cup {"g"} /\ d2.fresh = d1.fresh \cup {"g"}
                /\ d2.listed = d1.listed /\ d2.indexed = d1.indexed
  BY <1>4, <1>5, TopologyDoes
<1>7. /\ d2.tops = d.tops \cup {"g"} /\ d2.fresh = d.fresh \cup {"g"} /\ d2.indexed = d.indexed
      /\ d2.vals = d.vals /\ d2.listed = d.listed /\ d2.filled = d.filled \cup {"flags"}
      /\ Same(d, d2) /\ d2 \in Outline /\ ~d2.done
  BY <1>1, <1>4, <1>6 DEF SameVals, Same, Does
<1>8. Writable(d2, {"g"}) /\ WholeIn(d2, {"cand", "flags"})
  BY <1>7 DEF Writable, WholeIn, Listed
<1>9. Readable(d2)
  <2>1. d.indexed \subseteq d2.indexed /\ d.filled \subseteq d2.filled
    BY <1>7
  <2> QED BY <1>1, <1>7, <2>1, ReadableStays
<1>10. PICK d3 : Does(<<"list", "g">>, d2, d3) /\ Wrote(d2, d3, {"g"})
  BY <1>7, <1>8, <1>9, ListGridDoes
<1>11. /\ d3.tops = d.tops \cup {"g"} /\ d3.fresh = d.fresh \cup {"g"} /\ d3.indexed = d.indexed
       /\ d3.vals = d.vals /\ d3.listed = d.listed \cup {"g"} /\ d3.filled = d.filled \cup {"flags"}
       /\ Same(d, d3) /\ d3 \in Outline /\ ~d3.done
  BY <1>1, <1>7, <1>10 DEF Wrote, Same, Does, Absent
<1>12. PICK d4 : /\ Does(<<"index", "g">>, d3, d4) /\ SameVals(d3, d4) /\ Same(d3, d4)
                 /\ d4.tops = d3.tops /\ d4.indexed = d3.indexed \cup {"g"}
                 /\ d4.listed = d3.listed \ {"g"} /\ d4.fresh = d3.fresh \ {"g"}
  BY <1>11, IndexDoes
<1>13. /\ d4.tops = d.tops \cup {"g"} /\ d4.fresh = d.fresh /\ d4.indexed = d.indexed \cup {"g"}
       /\ d4.vals = d.vals /\ d4.listed = d.listed /\ d4.filled = d.filled \cup {"flags"}
       /\ Same(d, d4) /\ d4 \in Outline /\ ~d4.done
  <2>1. (d.fresh \cup {"g"}) \ {"g"} = d.fresh
    BY <1>1 DEF Absent
  <2>2. (d.listed \cup {"g"}) \ {"g"} = d.listed
    BY <1>1 DEF Absent
  <2>3. /\ d4.tops = d.tops \cup {"g"} /\ d4.indexed = d.indexed \cup {"g"}
        /\ d4.vals = d.vals /\ d4.filled = d.filled \cup {"flags"}
    BY <1>11, <1>12 DEF SameVals
  <2>4. d4.fresh = d.fresh /\ d4.listed = d.listed
    BY <1>11, <1>12, <2>1, <2>2
  <2>5. Same(d, d4) /\ d4 \in Outline /\ ~d4.done
    BY <1>11, <1>12 DEF Same, Does
  <2> QED BY <2>3, <2>4, <2>5
<1>14. "g" \in Local \ d4.vals
  BY <1>1, <1>13 DEF Absent, Local
<1>15. PICK d5 : /\ Does(<<"buffer", "g">>, d4, d5) /\ SameTops(d4, d5) /\ Same(d4, d5)
                 /\ d5.vals = d4.vals \cup {"g"} /\ d5.filled = d4.filled
  BY <1>13, <1>14, BufferDoes
<1>16. /\ d5.tops = d.tops \cup {"g"} /\ d5.fresh = d.fresh /\ d5.indexed = d.indexed \cup {"g"}
       /\ d5.vals = d.vals \cup {"g"} /\ d5.listed = d.listed /\ d5.filled = d.filled \cup {"flags"}
       /\ Same(d, d5) /\ d5 \in Outline /\ ~d5.done
  BY <1>13, <1>15 DEF SameTops, Same, Does
<1>17. "g" \in d5.indexed \cap d5.vals /\ WholeIn(d5, {"weights"})
  BY <1>1, <1>16 DEF WholeIn, Alone
<1>18. Readable(d5)
  <2>1. d.indexed \subseteq d5.indexed /\ d.filled \subseteq d5.filled
    BY <1>16
  <2> QED BY <1>1, <1>16, <2>1, ReadableStays
<1>19. PICK f : /\ Does(<<"fill", "g">>, d5, f) /\ SameTops(d5, f) /\ Same(d5, f)
                /\ f.vals = d5.vals /\ f.filled = d5.filled \cup {"g"}
  BY <1>16, <1>17, <1>18, FillDoes
<1>20. /\ f.tops = d.tops \cup {"g"} /\ f.fresh = d.fresh /\ f.indexed = d.indexed \cup {"g"}
       /\ f.vals = d.vals \cup {"g"} /\ f.listed = d.listed /\ f.filled = (d.filled \cup {"flags"}) \cup {"g"}
       /\ Same(d, f) /\ f \in Outline
  BY <1>16, <1>19 DEF SameTops, Same, Does
<1>21. Leads(Built6, d, f)
  BY <1>3, <1>6, <1>10, <1>12, <1>15, <1>19, LeadsSix DEF Built6
<1>22. AgreeBut(d, f, {"g", "flags"})
  BY <1>20 DEF AgreeBut, Agree
<1>23. AgreeBut(e, f, {"g", "cand", "flags"})
  BY <1>22 DEF AgreeBut, Agree, Listed
<1>24. Same(e, f)
  BY <1>20 DEF Listed, Same
<1>25. Complete(f, "g")
  BY <1>1, <1>20 DEF Complete, Absent
<1> QED BY <1>20, <1>21, <1>23, <1>24, <1>25 DEF Built

\* A step on the topology of its input.
Direct == <<<<"share", "g">>, <<"buffer", "g">>, <<"fill", "g">>>>

LEMMA DirectLead ==
  ASSUME NEW e, Ready(e)
  PROVE  \E f : Leads(Direct, e, f) /\ Built(e, f)
<1>1. e \in Outline /\ ~e.done /\ e.in # "dense" /\ Readable(e) /\ "g" \in Local \ e.tops
  BY DEF Ready, Absent, Local
<1>2. PICK d1 : /\ Does(<<"share", "g">>, e, d1) /\ SameVals(e, d1) /\ Same(e, d1)
                /\ d1.tops = e.tops \cup {"g"} /\ d1.indexed = e.indexed \cup {"g"}
                /\ d1.listed = e.listed /\ d1.fresh = e.fresh
  BY <1>1, ShareDoes
<1>3. d1 \in Outline /\ ~d1.done /\ "g" \in Local \ d1.vals
  BY <1>1, <1>2 DEF Does, Same, SameVals, Ready, Absent
<1>4. PICK d2 : /\ Does(<<"buffer", "g">>, d1, d2) /\ SameTops(d1, d2) /\ Same(d1, d2)
                /\ d2.vals = d1.vals \cup {"g"} /\ d2.filled = d1.filled
  BY <1>3, BufferDoes
<1>5. /\ d2.tops = e.tops \cup {"g"} /\ d2.fresh = e.fresh /\ d2.indexed = e.indexed \cup {"g"}
      /\ d2.vals = e.vals \cup {"g"} /\ d2.listed = e.listed /\ d2.filled = e.filled
      /\ Same(e, d2) /\ d2 \in Outline /\ ~d2.done
  BY <1>1, <1>2, <1>4 DEF SameTops, SameVals, Same, Does
<1>6. "g" \in d2.indexed \cap d2.vals /\ WholeIn(d2, {"weights"})
  BY <1>5 DEF WholeIn, Alone, Ready
<1>7. Readable(d2)
  <2>1. e.indexed \subseteq d2.indexed /\ e.filled \subseteq d2.filled
    BY <1>5
  <2> QED BY <1>1, <1>5, <2>1, ReadableStays
<1>8. PICK f : /\ Does(<<"fill", "g">>, d2, f) /\ SameTops(d2, f) /\ Same(d2, f)
               /\ f.vals = d2.vals /\ f.filled = d2.filled \cup {"g"}
  BY <1>5, <1>6, <1>7, FillDoes
<1>9. /\ f.tops = e.tops \cup {"g"} /\ f.fresh = e.fresh /\ f.indexed = e.indexed \cup {"g"}
      /\ f.vals = e.vals \cup {"g"} /\ f.listed = e.listed /\ f.filled = e.filled \cup {"g"}
      /\ Same(e, f) /\ f \in Outline
  BY <1>5, <1>8 DEF SameTops, Same, Does
<1>10. Leads(Direct, e, f)
  BY <1>2, <1>4, <1>8, LeadsThree DEF Direct
<1>11. AgreeBut(e, f, {"g", "cand", "flags"})
  BY <1>9 DEF AgreeBut, Agree
<1>12. Complete(f, "g")
  BY <1>9 DEF Complete, Absent, Ready
<1> QED BY <1>9, <1>10, <1>11, <1>12 DEF Built

LEMMA StepIs ==
  /\ Step(0) = Direct
  /\ \A kind \in 1..3 : Step(kind) = (Flags \o Candidates) \o Built6
  /\ Step(4) = (Flags \o Shared) \o Built6
<1>1. Step(0) = Direct
  BY DEF Step, Direct
<1>2. ASSUME NEW kind \in 1..3 PROVE Step(kind) = (Flags \o Candidates) \o Built6
  <2>1. kind # 0 /\ kind # 4
    OBVIOUS
  <2> QED BY <2>1 DEF Step, Flags, Candidates, Built6
<1>3. Step(4) = (Flags \o Shared) \o Built6
  BY DEF Step, Flags, Shared, Built6
<1> QED BY <1>1, <1>2, <1>3

LEMMA StepLeads ==
  ASSUME NEW e, Ready(e), NEW kind \in 0..4
  PROVE  \E f : Leads(Step(kind), e, f) /\ Built(e, f)
<1>1. CASE kind = 0
  BY <1>1, DirectLead, StepIs
<1>2. CASE kind \in 1..3
  <2>1. PICK d : Leads(Flags \o Candidates, e, d) /\ Listed(e, d)
    BY CandidatesLead
  <2>2. PICK f : Leads(Built6, d, f) /\ Built(e, f)
    BY <2>1, BuiltLead
  <2>3. Leads((Flags \o Candidates) \o Built6, e, f)
    BY <2>1, <2>2, LeadsThen
  <2> QED BY <1>2, <2>2, <2>3, StepIs
<1>3. CASE kind = 4
  <2>1. PICK d : Leads(Flags \o Shared, e, d) /\ Listed(e, d)
    BY SharedLead
  <2>2. PICK f : Leads(Built6, d, f) /\ Built(e, f)
    BY <2>1, BuiltLead
  <2>3. Leads((Flags \o Shared) \o Built6, e, f)
    BY <2>1, <2>2, LeadsThen
  <2> QED BY <1>3, <2>2, <2>3, StepIs
<1>4. kind = 0 \/ kind \in 1..3 \/ kind = 4
  OBVIOUS
<1> QED BY <1>1, <1>2, <1>3, <1>4

\* The result becomes the input of the next iteration.
Turn == <<<<"commit", "tmp">>, <<"clean", "step">>>>

Turned(e, f) ==
  /\ f \in Outline /\ f.in = "tmp" /\ f.out = e.out /\ f.done = e.done /\ f.scratch = e.scratch
  /\ f.passed = e.passed /\ AgreeBut(e, f, {"g", "cand", "flags", "tmp"})
  /\ Absent(f, "g") /\ Absent(f, "cand") /\ Absent(f, "flags") /\ Complete(f, "tmp")

LEMMA TurnLead ==
  ASSUME NEW e, Ready(e), NEW d, Built(e, d)
  PROVE  \E f : Leads(Turn, d, f) /\ Turned(e, f)
<1>1. d \in Outline /\ ~d.done /\ "g" \in d.indexed \cap d.filled
  BY DEF Built, Ready, Same, Complete
<1>2. PICK c : /\ Does(<<"commit", "tmp">>, d, c) /\ c.in = "tmp" /\ c.out = d.out /\ c.done = d.done
               /\ c.scratch = d.scratch /\ c.passed = d.passed
               /\ c.tops = (d.tops \ {"g", "tmp"}) \cup {"tmp"} /\ c.vals = (d.vals \ {"g", "tmp"}) \cup {"tmp"}
               /\ c.indexed = (d.indexed \ {"g", "tmp"}) \cup {"tmp"}
               /\ c.filled = (d.filled \ {"g", "tmp"}) \cup {"tmp"}
               /\ c.fresh = d.fresh \ {"g", "tmp"} /\ c.listed = d.listed \ {"g", "tmp"}
  BY <1>1, CommitTmpDoes
<1>3. c \in Outline
  BY <1>2 DEF Does
<1>4. PICK f : Does(<<"clean", "step">>, c, f) /\ Emptier(c, f, {"cand", "flags"}) /\ Same(c, f)
  BY <1>3, CleanDoes
<1>5. Leads(Turn, d, f)
  BY <1>2, <1>4, LeadsTwo DEF Turn
<1>6. f \in Outline
  BY <1>4 DEF Does
<1>7. /\ f.in = "tmp" /\ f.out = e.out /\ f.done = e.done /\ f.scratch = e.scratch /\ f.passed = e.passed
  BY <1>2, <1>4 DEF Same, Built
<1>8. /\ f.tops = ((d.tops \ {"g", "tmp"}) \cup {"tmp"}) \ {"cand", "flags"}
      /\ f.vals = ((d.vals \ {"g", "tmp"}) \cup {"tmp"}) \ {"cand", "flags"}
      /\ f.indexed = ((d.indexed \ {"g", "tmp"}) \cup {"tmp"}) \ {"cand", "flags"}
      /\ f.filled = ((d.filled \ {"g", "tmp"}) \cup {"tmp"}) \ {"cand", "flags"}
      /\ f.fresh = (d.fresh \ {"g", "tmp"}) \ {"cand", "flags"}
      /\ f.listed = (d.listed \ {"g", "tmp"}) \ {"cand", "flags"}
  BY <1>2, <1>4 DEF Emptier
<1>9. Absent(f, "g") /\ Absent(f, "cand") /\ Absent(f, "flags") /\ Complete(f, "tmp")
  BY <1>8 DEF Absent, Complete
<1>10. AgreeBut(d, f, {"g", "cand", "flags", "tmp"})
  BY <1>8 DEF AgreeBut, Agree
<1>11. AgreeBut(e, f, {"g", "cand", "flags", "tmp"})
  BY <1>10 DEF AgreeBut, Agree, Built
<1> QED BY <1>5, <1>6, <1>7, <1>9, <1>11 DEF Turned

LEMMA TurnedReady ==
  ASSUME NEW e, Ready(e), NEW f, Turned(e, f)
  PROVE  Ready(f)
<1>1. Agree(e, f, "weights")
  BY DEF Turned, AgreeBut, Local
<1>2. Alone(f, "weights")
  BY <1>1 DEF Ready, Alone, Agree
<1>3. Readable(f)
  BY DEF Readable, Turned, Complete
<1> QED BY <1>2, <1>3 DEF Ready, Turned

\* Outlines are equal if they agree on everything.
LEMMA OutlinesEqual ==
  ASSUME NEW e \in Outline, NEW f \in Outline, Same(e, f), \A u \in Local : Agree(e, f, u)
  PROVE  e = f
<1>1. f.tops = e.tops /\ f.vals = e.vals
  BY OutlineParts DEF Agree
<1>2. f.fresh = e.fresh /\ f.listed = e.listed
  BY OutlineParts DEF Agree
<1>3. f.indexed = e.indexed /\ f.filled = e.filled
  BY OutlineParts DEF Agree
<1> QED BY <1>1, <1>2, <1>3 DEF Outline, Same

LEMMA TurnedAgain ==
  ASSUME NEW e, NEW f, NEW h, Turned(e, f), Turned(f, h)
  PROVE  h = f
<1>1. Same(f, h) /\ f \in Outline /\ h \in Outline
  BY DEF Turned, Same
<1>2. Agree(f, h, "g") /\ Agree(f, h, "cand") /\ Agree(f, h, "flags") /\ Agree(f, h, "tmp")
  BY DEF Turned, Absent, Complete, Agree
<1>3. \A u \in Local : Agree(f, h, u)
  BY <1>2 DEF Turned, AgreeBut
<1> QED BY <1>1, <1>3, OutlinesEqual

\* From the second iteration on, an iteration leads back to where it began.
LEMMA BodyLeads ==
  ASSUME NEW e, Ready(e), NEW kind \in 0..4
  PROVE  \E f : Turned(e, f) /\ Leads(Step(kind) \o Turn, e, f) /\ Leads(Step(kind) \o Turn, f, f)
<1>1. ASSUME NEW a, Ready(a) PROVE \E b : Turned(a, b) /\ Leads(Step(kind) \o Turn, a, b)
  <2>1. PICK d : Leads(Step(kind), a, d) /\ Built(a, d)
    BY <1>1, StepLeads
  <2>2. PICK b : Leads(Turn, d, b) /\ Turned(a, b)
    BY <1>1, <2>1, TurnLead
  <2> QED BY <2>1, <2>2, LeadsThen
<1>2. PICK f : Turned(e, f) /\ Leads(Step(kind) \o Turn, e, f)
  BY <1>1
<1>3. PICK h : Turned(f, h) /\ Leads(Step(kind) \o Turn, f, h)
  BY <1>1, <1>2, TurnedReady
<1> QED BY <1>2, <1>3, TurnedAgain

\* A list of m steps that leads from e to f, and from f back to it, may be repeated.
LEMMA IteratedLeads ==
  ASSUME NEW p, NEW e, NEW f, Leads(p, e, f), Leads(p, f, f), NEW n \in Nat \ {0},
         NEW m \in {10, 12}, Len(p) = m
  PROVE  Leads(Iterated(p, n), e, f)
<1>1. p \in Seq(StepType)
  BY DEF Leads
<1>2. PICK a \in [0..m -> Outline] :
        /\ a[0] = e /\ a[m] = f
        /\ \A i \in 1..m : Allowed(p[i], a[i - 1]) /\ a[i] = After(p[i], a[i - 1])
  BY DEF Leads
<1>3. PICK b \in [0..m -> Outline] :
        /\ b[0] = f /\ b[m] = f
        /\ \A i \in 1..m : Allowed(p[i], b[i - 1]) /\ b[i] = After(p[i], b[i - 1])
  BY DEF Leads
<1>4. n * m \in Nat /\ n * m >= m
  <2>1. n * 10 \in Nat /\ n * 10 >= 10 /\ n * 12 \in Nat /\ n * 12 >= 12
    OBVIOUS
  <2> QED BY <2>1
<1>5. ASSUME NEW i \in Nat PROVE i % m \in 0..(m - 1)
  <2>1. i % 10 \in 0..9 /\ i % 12 \in 0..11
    OBVIOUS
  <2>2. CASE m = 10
    BY <2>1, <2>2
  <2>3. CASE m = 12
    BY <2>1, <2>3
  <2> QED BY <2>2, <2>3
<1>6. PICK it : it = Iterated(p, n)
  OBVIOUS
<1>7. it = [i \in 1..(n * m) |-> p[1 + ((i - 1) % m)]]
  BY <1>6 DEF Iterated
<1>8. it \in Seq(StepType) /\ Len(it) = n * m
  <2>1. ASSUME NEW i \in 1..(n * m) PROVE p[1 + ((i - 1) % m)] \in StepType
    <3>1. 1 + ((i - 1) % m) \in 1..m
      <4>1. i - 1 \in Nat
        BY <1>4
      <4>2. (i - 1) % m \in 0..(m - 1)
        BY <1>5, <4>1
      <4> QED BY <4>2
    <3> QED BY <1>1, <3>1
  <2>2. it \in [1..(n * m) -> StepType]
    BY <1>7, <2>1
  <2> QED BY <1>4, <2>2
<1>9. PICK es : es = [i \in 0..(n * m) |-> IF i <= m THEN a[i] ELSE b[1 + ((i - 1) % m)]]
  OBVIOUS
<1>10. es \in [0..(n * m) -> Outline]
  <2>1. ASSUME NEW i \in 0..(n * m) PROVE (IF i <= m THEN a[i] ELSE b[1 + ((i - 1) % m)]) \in Outline
    <3>1. CASE i <= m
      <4>1. i \in 0..m
        BY <1>4, <3>1
      <4> QED BY <1>2, <3>1, <4>1
    <3>2. CASE ~ (i <= m)
      <4>1. i - 1 \in Nat
        BY <1>4, <3>2
      <4>2. (i - 1) % m \in 0..(m - 1)
        BY <1>5, <4>1
      <4>3. 1 + ((i - 1) % m) \in 0..m
        BY <4>2
      <4> QED BY <1>3, <3>2, <4>3
    <3> QED BY <3>1, <3>2
  <2> QED BY <1>9, <2>1
<1>11. es[0] = e
  BY <1>2, <1>4, <1>9
<1>12. es[n * m] = f
  <2>1. CASE n = 1
    <3>1. n * m = m /\ m \in 0..m
      BY <2>1
    <3>2. es[m] = a[m]
      BY <1>9, <3>1
    <3> QED BY <1>2, <3>1, <3>2
  <2>2. CASE n # 1
    <3>1. (n * 10 - 1) % 10 = 9 /\ n * 10 > 10 /\ (n * 12 - 1) % 12 = 11 /\ n * 12 > 12
      BY <2>2
    <3>2. n * m > m /\ 1 + ((n * m - 1) % m) = m
      <4>1. CASE m = 10
        BY <3>1, <4>1
      <4>2. CASE m = 12
        BY <3>1, <4>2
      <4> QED BY <4>1, <4>2
    <3>3. es[n * m] = b[1 + ((n * m - 1) % m)]
      BY <1>4, <1>9, <3>2
    <3> QED BY <1>3, <3>2, <3>3
  <2> QED BY <2>1, <2>2
<1>13. ASSUME NEW i \in 1..(n * m)
       PROVE  Allowed(it[i], es[i - 1]) /\ es[i] = After(it[i], es[i - 1])
  <2>1. CASE i <= m
    <3>1. i \in 1..m /\ i \in 0..(n * m) /\ i - 1 \in 0..(n * m) /\ i - 1 <= m
      BY <1>4, <2>1
    <3>2. es[i] = a[i] /\ es[i - 1] = a[i - 1]
      BY <1>9, <2>1, <3>1
    <3>3. 1 + ((i - 1) % m) = i
      <4>1. CASE m = 10
        BY <3>1, <4>1
      <4>2. CASE m = 12
        BY <3>1, <4>2
      <4> QED BY <4>1, <4>2
    <3>4. it[i] = p[i]
      BY <1>7, <3>3
    <3> QED BY <1>2, <3>1, <3>2, <3>4
  <2>2. CASE i > m
    <3>1. i \in Nat /\ i \in 0..(n * m) /\ i - 1 \in 0..(n * m) /\ i - 1 \in Nat
      BY <1>4, <2>2
    <3>2. PICK j \in 1..m : j = 1 + ((i - 1) % m)
      <4>1. (i - 1) % m \in 0..(m - 1)
        BY <1>5, <3>1
      <4> QED BY <4>1
    <3>3. es[i] = b[j] /\ it[i] = p[j]
      BY <1>7, <1>9, <2>2, <3>1, <3>2
    <3>4. es[i - 1] = b[j - 1]
      <4>1. CASE i - 1 = m
        <5>1. j - 1 = 0
          <6>1. CASE m = 10
            BY <3>2, <4>1, <6>1
          <6>2. CASE m = 12
            BY <3>2, <4>1, <6>2
          <6> QED BY <6>1, <6>2
        <5>2. es[i - 1] = a[m]
          BY <1>9, <3>1, <4>1
        <5> QED BY <1>2, <1>3, <5>1, <5>2
      <4>2. CASE i - 1 > m
        <5>1. es[i - 1] = b[1 + ((i - 2) % m)]
          BY <1>9, <3>1, <4>2
        <5>2. CASE j = 1
          <6>1. 1 + ((i - 2) % m) = m
            <7>1. CASE m = 10
              BY <3>1, <3>2, <4>2, <5>2, <7>1
            <7>2. CASE m = 12
              BY <3>1, <3>2, <4>2, <5>2, <7>2
            <7> QED BY <7>1, <7>2
          <6> QED BY <1>3, <5>1, <5>2, <6>1
        <5>3. CASE j # 1
          <6>1. 1 + ((i - 2) % m) = j - 1
            <7>1. CASE m = 10
              BY <3>1, <3>2, <4>2, <5>3, <7>1
            <7>2. CASE m = 12
              BY <3>1, <3>2, <4>2, <5>3, <7>2
            <7> QED BY <7>1, <7>2
          <6> QED BY <5>1, <6>1
        <5> QED BY <5>2, <5>3
      <4> QED BY <2>2, <3>1, <4>1, <4>2
    <3> QED BY <1>3, <3>2, <3>3, <3>4
  <2> QED BY <1>4, <2>1, <2>2
<1> QED BY <1>6, <1>8, <1>10, <1>11, <1>12, <1>13 DEF Leads

-----------------------------------------------------------------------------
(* The program of each operation, from where it begins.                    *)

\* An operation begins with empty local pointers, its inputs and its output being i and o.
Start(i, o) ==
  [tops |-> {}, vals |-> {}, fresh |-> {}, listed |-> {}, indexed |-> {}, filled |-> {}, scratch |-> {},
   passed |-> {}, in |-> i, out |-> o, done |-> FALSE]

\* The program p can be followed from there to its end.
Sound(p, i, o) == p \in Seq(StepType) /\ Goes(p, Start(i, o))

LEMMA StartIs ==
  ASSUME NEW i \in {"sparse", "dense", "source", "tmp", "self"}, NEW o \in {"slot", "held", "dense"},
         NEW e, e = Start(i, o)
  PROVE  /\ e \in Outline /\ ~e.done /\ e.in = i /\ e.out = o /\ e.scratch = {} /\ e.passed = {}
         /\ e.tops = {} /\ e.vals = {} /\ e.fresh = {} /\ e.listed = {} /\ e.indexed = {} /\ e.filled = {}
BY DEF Start, Outline

LEMMA LeadsSound ==
  ASSUME NEW i, NEW o, NEW p, NEW f, Leads(p, Start(i, o), f)
  PROVE  Sound(p, i, o)
BY LeadsGoes DEF Sound

\* The last two steps of a convolution that replaces the output.
LEMMA ConvolutionSound ==
  ASSUME NEW kind \in 0..2
  PROVE  Sound(Convolution(kind, "out"), "sparse", "slot")
<1>1. PICK e : e = Start("sparse", "slot")
  OBVIOUS
<1>2. e \in Outline /\ ~e.done /\ e.in = "sparse" /\ e.out = "slot" /\ \A s : Absent(e, s)
  BY <1>1, StartIs DEF Absent
<1>3. PICK e1 \in Outline : /\ Leads(Weights, e, e1) /\ Same(e, e1) /\ AgreeBut(e, e1, {"weights"})
                            /\ Alone(e1, "weights")
  BY <1>2, WeightsLead
<1>4. Ready(e1)
  <2>1. Agree(e, e1, "g") /\ Agree(e, e1, "cand") /\ Agree(e, e1, "flags")
    BY <1>3 DEF AgreeBut, Local
  <2>2. Absent(e1, "g") /\ Absent(e1, "cand") /\ Absent(e1, "flags")
    BY <1>2, <2>1 DEF Absent, Agree
  <2> QED BY <1>2, <1>3, <2>2 DEF Ready, Same, Readable
<1>5. PICK e2 : Leads(Step(kind), e1, e2) /\ Built(e1, e2)
  BY <1>4, StepLeads
<1>6. e2 \in Outline /\ ~e2.done /\ "g" \in e2.indexed \cap e2.filled /\ e2.out \in {"slot", "held"}
  BY <1>2, <1>3, <1>5 DEF Built, Same, Complete
<1>7. PICK e3 : Does(<<"commit", "out">>, e2, e3)
  BY <1>6, DeliverDoes
<1>8. PICK f : Does(<<"clean", "step">>, e3, f)
  BY <1>7, CleanDoes DEF Does
<1>9. Leads(<<<<"commit", "out">>, <<"clean", "step">>>>, e2, f)
  BY <1>7, <1>8, LeadsTwo
<1>10. Leads(Weights \o Step(kind), e, e2)
  BY <1>3, <1>5, LeadsThen
<1>11. Leads(Convolution(kind, "out"), e, f)
  BY <1>9, <1>10, LeadsThen DEF Convolution
<1> QED BY <1>1, <1>11, LeadsSound

LEMMA PublishLead ==
  ASSUME NEW e \in Outline, ~e.done, Complete(e, "tmp"), e.out \in {"slot", "held"}
  PROVE  \E f : Leads(<<<<"publish", "out">>>>, e, f)
<1>1. "tmp" \in e.indexed \cap e.filled
  BY DEF Complete
<1>2. PICK f : Does(<<"publish", "out">>, e, f)
  BY <1>1, DeliverDoes
<1> QED BY <1>2, LeadsOne

Long(p, m) == p \in Seq(StepType) /\ Len(p) = m

LEMMA LongThen ==
  ASSUME NEW p, NEW q, NEW m \in Nat, NEW n \in Nat, Long(p, m), Long(q, n)
  PROVE  Long(p \o q, m + n)
BY DEF Long

LEMMA BodyLength ==
  ASSUME NEW kind \in 3..4
  PROVE  Len(Step(kind) \o Turn) \in {10, 12}
<1>1. /\ Flags \in Seq(StepType) /\ Candidates \in Seq(StepType) /\ Shared \in Seq(StepType)
      /\ Built6 \in Seq(StepType) /\ Turn \in Seq(StepType)
  <2>1. /\ <<"buffer", "flags">> \in StepType /\ <<"topology", "cand">> \in StepType
        /\ <<"list", "cand">> \in StepType /\ <<"index", "cand">> \in StepType
        /\ <<"share", "cand">> \in StepType
    BY NamedOp DEF Local, Named
  <2>2. /\ <<"mark", "flags">> \in StepType /\ <<"topology", "g">> \in StepType /\ <<"list", "g">> \in StepType
        /\ <<"index", "g">> \in StepType /\ <<"buffer", "g">> \in StepType /\ <<"fill", "g">> \in StepType
    BY NamedOp DEF Local, Named
  <2>3. <<"commit", "tmp">> \in StepType /\ <<"clean", "step">> \in StepType
    BY NamedOp DEF Local, Named
  <2> QED BY <2>1, <2>2, <2>3 DEF Flags, Candidates, Shared, Built6, Turn
<1>2. Len(Flags) = 1 /\ Len(Candidates) = 3 /\ Len(Shared) = 1 /\ Len(Built6) = 6 /\ Len(Turn) = 2
  BY DEF Flags, Candidates, Shared, Built6, Turn
<1>3. Long(Flags, 1) /\ Long(Candidates, 3) /\ Long(Shared, 1) /\ Long(Built6, 6) /\ Long(Turn, 2)
  BY <1>1, <1>2 DEF Long
<1>4. CASE kind = 3
  <2>1. Long(Flags \o Candidates, 1 + 3)
    BY <1>3, LongThen
  <2>2. Long((Flags \o Candidates) \o Built6, (1 + 3) + 6)
    BY <1>3, <2>1, LongThen
  <2>3. Long(((Flags \o Candidates) \o Built6) \o Turn, ((1 + 3) + 6) + 2)
    BY <1>3, <2>2, LongThen
  <2>4. Step(kind) = (Flags \o Candidates) \o Built6
    BY <1>4, StepIs
  <2> QED BY <2>3, <2>4 DEF Long
<1>5. CASE kind = 4
  <2>1. Long(Flags \o Shared, 1 + 1)
    BY <1>3, LongThen
  <2>2. Long((Flags \o Shared) \o Built6, (1 + 1) + 6)
    BY <1>3, <2>1, LongThen
  <2>3. Long(((Flags \o Shared) \o Built6) \o Turn, ((1 + 1) + 6) + 2)
    BY <1>3, <2>2, LongThen
  <2>4. Step(kind) = (Flags \o Shared) \o Built6
    BY <1>5, StepIs
  <2> QED BY <2>3, <2>4 DEF Long
<1> QED BY <1>4, <1>5

LEMMA MorphSound ==
  ASSUME NEW kind \in 3..4, NEW n \in 1..MaxIterations
  PROVE  Sound(Morph(kind, n), "sparse", "slot")
<1>1. PICK e : e = Start("sparse", "slot")
  OBVIOUS
<1>2. e \in Outline /\ ~e.done /\ e.in = "sparse" /\ e.out = "slot" /\ \A s : Absent(e, s)
  BY <1>1, StartIs DEF Absent
<1>3. PICK e1 \in Outline : /\ Leads(Weights, e, e1) /\ Same(e, e1) /\ AgreeBut(e, e1, {"weights"})
                            /\ Alone(e1, "weights")
  BY <1>2, WeightsLead
<1>4. Ready(e1)
  <2>1. Agree(e, e1, "g") /\ Agree(e, e1, "cand") /\ Agree(e, e1, "flags")
    BY <1>3 DEF AgreeBut, Local
  <2>2. Absent(e1, "g") /\ Absent(e1, "cand") /\ Absent(e1, "flags")
    BY <1>2, <2>1 DEF Absent, Agree
  <2> QED BY <1>2, <1>3, <2>2 DEF Ready, Same, Readable
<1>5. PICK p : p = Step(kind) \o Turn
  OBVIOUS
<1>6. PICK e2 : Turned(e1, e2) /\ Leads(p, e1, e2) /\ Leads(p, e2, e2)
  <2>1. kind \in 0..4
    OBVIOUS
  <2> QED BY <1>4, <1>5, <2>1, BodyLeads
<1>7. Len(p) \in {10, 12} /\ n \in Nat \ {0}
  BY <1>5, BodyLength
<1>8. Leads(Iterated(p, n), e1, e2)
  BY <1>6, <1>7, IteratedLeads
<1>9. e2 \in Outline /\ ~e2.done /\ Complete(e2, "tmp") /\ e2.out \in {"slot", "held"}
  BY <1>2, <1>3, <1>6 DEF Turned, Same
<1>10. PICK f : Leads(<<<<"publish", "out">>>>, e2, f)
  BY <1>9, PublishLead
<1>11. Leads(Weights \o Iterated(p, n), e, e2)
  BY <1>3, <1>8, LeadsThen
<1>12. Leads((Weights \o Iterated(p, n)) \o <<<<"publish", "out">>>>, e, f)
  BY <1>10, <1>11, LeadsThen
<1>13. Leads(Morph(kind, n), e, f)
  BY <1>5, <1>12 DEF Morph, Turn
<1> QED BY <1>1, <1>13, LeadsSound

\* A grid is allocated.
Made(e, f, s) ==
  /\ f \in Outline /\ Same(e, f) /\ f.tops = e.tops \cup {s} /\ f.fresh = e.fresh \cup {s}
  /\ f.vals = e.vals \cup {s} /\ f.listed = e.listed /\ f.indexed = e.indexed /\ f.filled = e.filled

LEMMA MakeLead ==
  ASSUME NEW e \in Outline, ~e.done, NEW s \in Local, Absent(e, s)
  PROVE  \E f : Leads(Make(s), e, f) /\ Made(e, f, s)
<1>1. s \in Local \ e.tops
  BY DEF Absent
<1>2. PICK d : /\ Does(<<"topology", s>>, e, d) /\ SameVals(e, d) /\ Same(e, d)
               /\ d.tops = e.tops \cup {s} /\ d.fresh = e.fresh \cup {s}
               /\ d.listed = e.listed /\ d.indexed = e.indexed
  BY <1>1, TopologyDoes
<1>3. d \in Outline /\ ~d.done /\ s \in Local \ d.vals
  BY <1>2 DEF Does, Same, SameVals, Absent
<1>4. PICK f : /\ Does(<<"buffer", s>>, d, f) /\ SameTops(d, f) /\ Same(d, f)
               /\ f.vals = d.vals \cup {s} /\ f.filled = d.filled
  BY <1>3, BufferDoes
<1>5. Leads(Make(s), e, f)
  BY <1>2, <1>4, LeadsTwo DEF Make
<1>6. Same(e, f) /\ f \in Outline
  BY <1>2, <1>4 DEF Same, Does
<1>7. /\ f.tops = e.tops \cup {s} /\ f.fresh = e.fresh \cup {s}
      /\ f.vals = e.vals \cup {s} /\ f.listed = e.listed /\ f.indexed = e.indexed /\ f.filled = e.filled
  BY <1>2, <1>4 DEF SameTops, SameVals
<1> QED BY <1>5, <1>6, <1>7 DEF Made

Uploading == Make("g") \o <<<<"send", "g">>, <<"index", "g">>, <<"commit", "out">>>>

LEMMA UploadSound == Sound(Uploading, "dense", "slot")
<1>1. PICK e : e = Start("dense", "slot")
  OBVIOUS
<1>2. /\ e \in Outline /\ ~e.done /\ e.out = "slot" /\ Absent(e, "g") /\ "g" \in Local
      /\ e.tops = {} /\ e.vals = {} /\ e.fresh = {} /\ e.listed = {} /\ e.indexed = {} /\ e.filled = {}
  BY <1>1, StartIs DEF Absent, Local
<1>3. PICK e1 : Leads(Make("g"), e, e1) /\ Made(e, e1, "g")
  BY <1>2, MakeLead
<1>4. e1 \in Outline /\ ~e1.done /\ Writable(e1, {"g"}) /\ e1.out = "slot"
  BY <1>2, <1>3 DEF Made, Same, Writable
<1>5. PICK e2 : Does(<<"send", "g">>, e1, e2) /\ Wrote(e1, e2, {"g"})
  BY <1>4, SendDoes
<1>6. e2 \in Outline /\ ~e2.done /\ "g" \in e2.listed /\ "g" \in e2.filled /\ e2.out = "slot"
  BY <1>2, <1>3, <1>4, <1>5 DEF Made, Does, Wrote, Same
<1>7. PICK e3 : /\ Does(<<"index", "g">>, e2, e3) /\ SameVals(e2, e3) /\ Same(e2, e3)
                /\ e3.indexed = e2.indexed \cup {"g"}
  BY <1>6, IndexDoes
<1>8. e3 \in Outline /\ ~e3.done /\ "g" \in e3.indexed \cap e3.filled /\ e3.out \in {"slot", "held"}
  BY <1>6, <1>7 DEF Does, SameVals, Same
<1>9. PICK f : Does(<<"commit", "out">>, e3, f)
  BY <1>8, DeliverDoes
<1>10. Leads(<<<<"send", "g">>, <<"index", "g">>, <<"commit", "out">>>>, e1, f)
  BY <1>5, <1>7, <1>9, LeadsThree
<1>11. Leads(Uploading, e, f)
  BY <1>3, <1>10, LeadsThen DEF Uploading
<1> QED BY <1>1, <1>11, LeadsSound

\* A buffer is made and filled, and takes the place of another.
LEMMA NextSound == Sound(<<<<"buffer", "next">>, <<"send", "next">>, <<"swap", "next">>>>, "self", "held")
<1>1. PICK e : e = Start("self", "held")
  OBVIOUS
<1>2. /\ e \in Outline /\ ~e.done /\ e.in = "self" /\ e.out = "held" /\ "next" \in Local \ e.vals
      /\ e.tops = {} /\ e.vals = {} /\ e.filled = {}
  BY <1>1, StartIs DEF Local
<1>3. PICK e1 : /\ Does(<<"buffer", "next">>, e, e1) /\ SameTops(e, e1) /\ Same(e, e1)
                /\ e1.vals = e.vals \cup {"next"} /\ e1.filled = e.filled
  BY <1>2, BufferDoes
<1>4. e1 \in Outline /\ ~e1.done /\ Writable(e1, {"next"}) /\ e1.in = "self" /\ e1.out = "held"
  BY <1>2, <1>3 DEF Does, Same, SameTops, Writable
<1>5. PICK e2 : Does(<<"send", "next">>, e1, e2) /\ Wrote(e1, e2, {"next"})
  BY <1>4, SendDoes
<1>6. e2 \in Outline /\ ~e2.done /\ "next" \in e2.filled \ e2.tops /\ e2.in = "self" /\ e2.out = "held"
  BY <1>2, <1>3, <1>4, <1>5 DEF Does, Wrote, Same, SameTops
<1>7. PICK f : Does(<<"swap", "next">>, e2, f)
  BY <1>6, DeliverDoes
<1>8. Leads(<<<<"buffer", "next">>, <<"send", "next">>, <<"swap", "next">>>>, e, f)
  BY <1>3, <1>5, <1>7, LeadsThree
<1> QED BY <1>1, <1>8, LeadsSound

ToSparse == <<<<"buffer", "flags">>, <<"mark", "flags">>>> \o Make("g")
            \o <<<<"list", "g">>, <<"index", "g">>, <<"commit", "out">>>>

LEMMA ToSparseSound == Sound(ToSparse, "dense", "slot")
<1>1. PICK e : e = Start("dense", "slot")
  OBVIOUS
<1>2. /\ e \in Outline /\ ~e.done /\ e.out = "slot" /\ e.in = "dense" /\ "flags" \in Local \ e.vals
      /\ e.tops = {} /\ e.vals = {} /\ e.fresh = {} /\ e.listed = {} /\ e.indexed = {} /\ e.filled = {}
  BY <1>1, StartIs DEF Local
<1>3. PICK e1 : /\ Does(<<"buffer", "flags">>, e, e1) /\ SameTops(e, e1) /\ Same(e, e1)
                /\ e1.vals = e.vals \cup {"flags"} /\ e1.filled = e.filled
  BY <1>2, BufferDoes
<1>4. e1 \in Outline /\ ~e1.done /\ Writable(e1, {"flags"}) /\ Readable(e1) /\ WholeIn(e1, {"cand", "weights"})
  BY <1>2, <1>3 DEF Does, Same, SameTops, Writable, Readable, WholeIn
<1>5. PICK e2 : Does(<<"mark", "flags">>, e1, e2) /\ Wrote(e1, e2, {"flags"})
  BY <1>4, MarkDoes
<1>6. /\ e2 \in Outline /\ ~e2.done /\ e2.in = "dense" /\ e2.out = "slot" /\ Absent(e2, "g") /\ "g" \in Local
      /\ e2.tops = {} /\ e2.vals = {"flags"} /\ e2.filled = {"flags"}
  BY <1>2, <1>3, <1>5 DEF Does, Wrote, Same, SameTops, Absent, Local
<1>7. PICK e3 : Leads(Make("g"), e2, e3) /\ Made(e2, e3, "g")
  BY <1>6, MakeLead
<1>8. /\ e3 \in Outline /\ ~e3.done /\ e3.in = "dense" /\ e3.out = "slot"
      /\ Writable(e3, {"g"}) /\ Readable(e3) /\ WholeIn(e3, {"cand", "flags"})
      /\ "g" \in e3.tops /\ "g" \in e3.vals
  BY <1>6, <1>7 DEF Made, Same, Writable, Readable, WholeIn
<1>9. PICK e4 : Does(<<"list", "g">>, e3, e4) /\ Wrote(e3, e4, {"g"})
  BY <1>8, ListGridDoes
<1>10. e4 \in Outline /\ ~e4.done /\ "g" \in e4.listed /\ "g" \in e4.filled /\ e4.out = "slot"
  BY <1>8, <1>9 DEF Does, Wrote, Same
<1>11. PICK e5 : /\ Does(<<"index", "g">>, e4, e5) /\ SameVals(e4, e5) /\ Same(e4, e5)
                 /\ e5.indexed = e4.indexed \cup {"g"}
  BY <1>10, IndexDoes
<1>12. e5 \in Outline /\ ~e5.done /\ "g" \in e5.indexed \cap e5.filled /\ e5.out \in {"slot", "held"}
  BY <1>10, <1>11 DEF Does, SameVals, Same
<1>13. PICK f : Does(<<"commit", "out">>, e5, f)
  BY <1>12, DeliverDoes
<1>14. Leads(<<<<"buffer", "flags">>, <<"mark", "flags">>>>, e, e2)
  BY <1>3, <1>5, LeadsTwo
<1>15. Leads(<<<<"list", "g">>, <<"index", "g">>, <<"commit", "out">>>>, e3, f)
  BY <1>9, <1>11, <1>13, LeadsThree
<1>16. Leads(<<<<"buffer", "flags">>, <<"mark", "flags">>>> \o Make("g"), e, e3)
  BY <1>7, <1>14, LeadsThen
<1>17. Leads(ToSparse, e, f)
  BY <1>15, <1>16, LeadsThen DEF ToSparse
<1> QED BY <1>1, <1>17, LeadsSound

Source == <<<<"buffer", "marks">>, <<"list", "source">>, <<"index", "source">>>>
Voxels == Make("source") \o Source \o Convolution(1, "tmp") \o <<<<"publish", "out">>>>

\* The candidates of a voxelization become the input of its step.
LEMMA SourceLead ==
  ASSUME NEW e, e = Start("source", "slot")
  PROVE  \E f \in Outline : /\ Leads(Make("source") \o Source, e, f) /\ Same(e, f) /\ ~f.done
                            /\ Complete(f, "source") /\ \A s : s \notin {"source", "marks"} => Absent(f, s)
<1>1. /\ e \in Outline /\ ~e.done /\ Absent(e, "source") /\ "source" \in Local
      /\ e.tops = {} /\ e.vals = {} /\ e.fresh = {} /\ e.listed = {} /\ e.indexed = {} /\ e.filled = {}
  BY StartIs DEF Absent, Local
<1>2. PICK e1 : Leads(Make("source"), e, e1) /\ Made(e, e1, "source")
  BY <1>1, MakeLead
<1>3. e1 \in Outline /\ ~e1.done /\ "marks" \in Local \ e1.vals
  BY <1>1, <1>2 DEF Made, Same, Local
<1>4. PICK e2 : /\ Does(<<"buffer", "marks">>, e1, e2) /\ SameTops(e1, e2) /\ Same(e1, e2)
                /\ e2.vals = e1.vals \cup {"marks"} /\ e2.filled = e1.filled
  BY <1>3, BufferDoes
<1>5. /\ e2 \in Outline /\ Same(e, e2) /\ e2.tops = {"source"} /\ e2.fresh = {"source"} /\ e2.listed = {}
      /\ e2.indexed = {} /\ e2.vals = {"source", "marks"} /\ e2.filled = {}
  BY <1>1, <1>2, <1>4 DEF Made, Same, SameTops, Does
<1>6. ~e2.done /\ Writable(e2, {"source", "marks"})
  BY <1>1, <1>5 DEF Same, Writable
<1>7. PICK e3 : Does(<<"list", "source">>, e2, e3) /\ Wrote(e2, e3, {"source", "marks"})
  BY <1>5, <1>6, ListSourceDoes
<1>8. /\ e3 \in Outline /\ Same(e, e3) /\ e3.tops = {"source"} /\ e3.fresh = {"source"}
      /\ e3.listed = {"source"} /\ e3.indexed = {} /\ e3.vals = {"source", "marks"}
      /\ e3.filled = {"source", "marks"}
  BY <1>5, <1>7 DEF Wrote, Same, Does
<1>9. ~e3.done /\ "source" \in e3.listed
  BY <1>1, <1>8 DEF Same
<1>10. PICK f : /\ Does(<<"index", "source">>, e3, f) /\ SameVals(e3, f) /\ Same(e3, f)
                /\ f.tops = e3.tops /\ f.indexed = e3.indexed \cup {"source"}
                /\ f.listed = e3.listed \ {"source"} /\ f.fresh = e3.fresh \ {"source"}
  BY <1>8, <1>9, IndexDoes
<1>11. /\ f \in Outline /\ Same(e, f) /\ f.tops = {"source"} /\ f.fresh = {} /\ f.listed = {}
       /\ f.indexed = {"source"} /\ f.vals = {"source", "marks"} /\ f.filled = {"source", "marks"}
  BY <1>8, <1>10 DEF SameVals, Same, Does
<1>12. Leads(Source, e1, f)
  BY <1>4, <1>7, <1>10, LeadsThree DEF Source
<1>13. Leads(Make("source") \o Source, e, f)
  BY <1>2, <1>12, LeadsThen
<1>14. ~f.done /\ Complete(f, "source") /\ \A s : s \notin {"source", "marks"} => Absent(f, s)
  BY <1>1, <1>11 DEF Same, Complete, Absent
<1> QED BY <1>11, <1>13, <1>14

LEMMA VoxelsSound == Sound(Voxels, "source", "slot")
<1>1. PICK e : e = Start("source", "slot")
  OBVIOUS
<1>2. e \in Outline /\ ~e.done /\ e.in = "source" /\ e.out = "slot"
  BY <1>1, StartIs
<1>3. PICK e0 \in Outline : /\ Leads(Make("source") \o Source, e, e0) /\ Same(e, e0) /\ ~e0.done
                            /\ Complete(e0, "source") /\ \A s : s \notin {"source", "marks"} => Absent(e0, s)
  BY <1>1, SourceLead
<1>4. PICK e1 \in Outline : /\ Leads(Weights, e0, e1) /\ Same(e0, e1) /\ AgreeBut(e0, e1, {"weights"})
                            /\ Alone(e1, "weights")
  <2>1. Absent(e0, "weights")
    BY <1>3
  <2> QED BY <1>3, <2>1, WeightsLead
<1>5. Ready(e1)
  <2>1. /\ Agree(e0, e1, "g") /\ Agree(e0, e1, "cand") /\ Agree(e0, e1, "flags")
        /\ Agree(e0, e1, "source")
    BY <1>4 DEF AgreeBut, Local
  <2>2. Absent(e0, "g") /\ Absent(e0, "cand") /\ Absent(e0, "flags")
    BY <1>3
  <2>3. Absent(e1, "g") /\ Absent(e1, "cand") /\ Absent(e1, "flags")
    BY <2>1, <2>2 DEF Absent, Agree
  <2>4. e1.in = "source" /\ ~e1.done
    BY <1>2, <1>3, <1>4 DEF Same
  <2>5. Readable(e1)
    BY <1>3, <2>1, <2>4 DEF Readable, Complete, Agree
  <2> QED BY <1>4, <2>3, <2>4, <2>5 DEF Ready
<1>6. PICK e2 : Leads(Step(1), e1, e2) /\ Built(e1, e2)
  BY <1>5, StepLeads
<1>7. PICK e3 : Leads(Turn, e2, e3) /\ Turned(e1, e3)
  BY <1>5, <1>6, TurnLead
<1>8. e3 \in Outline /\ ~e3.done /\ Complete(e3, "tmp") /\ e3.out \in {"slot", "held"}
  BY <1>2, <1>3, <1>4, <1>7 DEF Turned, Same
<1>9. PICK f : Leads(<<<<"publish", "out">>>>, e3, f)
  BY <1>8, PublishLead
<1>10. Leads(Weights \o Step(1), e0, e2)
  BY <1>4, <1>6, LeadsThen
<1>11. Leads(Convolution(1, "tmp"), e0, e3)
  BY <1>7, <1>10, LeadsThen DEF Convolution, Turn
<1>12. Leads((Make("source") \o Source) \o Convolution(1, "tmp"), e, e3)
  BY <1>3, <1>11, LeadsThen
<1>13. Leads(((Make("source") \o Source) \o Convolution(1, "tmp")) \o <<<<"publish", "out">>>>, e, f)
  BY <1>9, <1>12, LeadsThen
<1>14. Leads(Voxels, e, f)
  BY <1>13 DEF Voxels
<1> QED BY <1>1, <1>14, LeadsSound

Composing == <<<<"scratch", 1>>, <<"compose", 1>>, <<"exchange", 1>>>>

LEMMA ComposeSound == Sound(Composing, "dense", "dense")
<1>1. PICK e : e = Start("dense", "dense")
  OBVIOUS
<1>2. e \in Outline /\ ~e.done /\ e.in = "dense" /\ e.out = "dense" /\ 1 \in 1..2
  BY <1>1, StartIs
<1>3. PICK e1 : /\ Does(<<"scratch", 1>>, e, e1) /\ e1.in = e.in /\ e1.out = e.out /\ e1.done = e.done
                /\ e1.scratch = e.scratch \cup {1}
  BY <1>2, ScratchDoes
<1>4. e1 \in Outline /\ ~e1.done /\ e1.out = "dense" /\ 1 \in e1.scratch /\ Readable(e1)
  BY <1>2, <1>3 DEF Does, Readable
<1>5. PICK e2 : /\ Does(<<"compose", 1>>, e1, e2) /\ e2.out = e1.out /\ e2.done = e1.done
                /\ e2.passed = e1.passed \cup {1}
  BY <1>4, ComposeDoes
<1>6. e2 \in Outline /\ ~e2.done /\ e2.out = "dense" /\ 1 \in e2.passed
  BY <1>4, <1>5 DEF Does
<1>7. PICK f : Does(<<"exchange", 1>>, e2, f)
  BY <1>6, ExchangeDoes
<1>8. Leads(Composing, e, f)
  BY <1>3, <1>5, <1>7, LeadsThree DEF Composing
<1> QED BY <1>1, <1>8, LeadsSound

\* The passes of a filter, which alternate between the two scratch buffers.
Passes(n) == [p \in 1..n |-> <<"pass", p - 1>>]

\* What a pass leads to.
LEMMA PassTo ==
  ASSUME NEW e \in Outline, NEW f \in Outline, NEW k, SameTops(e, f), SameVals(e, f), f.in = e.in,
         f.out = e.out, f.done = e.done, f.scratch = e.scratch, f.passed = e.passed \cup {1 + (k % 2)}
  PROVE  After(<<"pass", k>>, e) = f
<1>1. PICK A : A = e.passed \cup {1 + (k % 2)}
  OBVIOUS
<1>2. After(<<"pass", k>>, e) = [e EXCEPT !.passed = A]
  BY <1>1, DenseStepIs
<1>3. A = f.passed
  BY <1>1
<1>4. [e EXCEPT !.passed = A] = f
  BY <1>3 DEF Outline, SameTops, SameVals
<1> QED BY <1>2, <1>4

LEMMA PassesLead ==
  ASSUME NEW e \in Outline, ~e.done, e.in = "self", e.out = "dense", e.scratch = 1..2, e.passed = {},
         WholeIn(e, {"weights"}), NEW n \in Nat \ {0}
  PROVE  \E f \in Outline : /\ Leads(Passes(n), e, f) /\ ~f.done /\ f.out = "dense"
                            /\ 1 + ((n - 1) % 2) \in f.passed
<1>1. PICK one : one = [e EXCEPT !.passed = {1}]
  OBVIOUS
<1>2. PICK both : both = [e EXCEPT !.passed = 1..2]
  OBVIOUS
<1>3. /\ one \in Outline /\ one.passed = {1} /\ SameTops(e, one) /\ SameVals(e, one)
      /\ one.scratch = e.scratch /\ one.in = e.in /\ one.out = e.out /\ one.done = e.done
  BY <1>1 DEF Outline, SameTops, SameVals
<1>4. /\ both \in Outline /\ both.passed = 1..2 /\ SameTops(e, both) /\ SameVals(e, both)
      /\ both.scratch = e.scratch /\ both.in = e.in /\ both.out = e.out /\ both.done = e.done
  BY <1>2 DEF Outline, SameTops, SameVals
<1>5. WholeIn(one, {"weights"}) /\ WholeIn(both, {"weights"})
  BY <1>3, <1>4 DEF WholeIn, SameTops, SameVals
<1>6. SameTops(one, both) /\ SameVals(one, both) /\ SameTops(both, both) /\ SameVals(both, both)
  BY <1>3, <1>4 DEF SameTops, SameVals
<1>7. After(<<"pass", 0>>, e) = one
  <2>1. one.passed = e.passed \cup {1 + (0 % 2)}
    BY <1>3
  <2> QED BY <1>3, <2>1, PassTo
<1>8. After(<<"pass", 1>>, one) = both
  <2>1. both.passed = one.passed \cup {1 + (1 % 2)}
    BY <1>3, <1>4
  <2> QED BY <1>3, <1>4, <1>6, <2>1, PassTo
<1>9. ASSUME NEW k \in Nat PROVE After(<<"pass", k>>, both) = both
  <2>1. both.passed = both.passed \cup {1 + (k % 2)}
    BY <1>4
  <2> QED BY <1>4, <1>6, <2>1, PassTo
<1>10. ASSUME NEW k \in Nat, NEW d \in Outline, d.scratch = 1..2, d.out = "dense", ~d.done,
              WholeIn(d, {"weights"}), IF k = 0 THEN d.in = "self" ELSE LastPass(k) \in d.passed
       PROVE  Allowed(<<"pass", k>>, d)
  <2>1. 1 + (k % 2) \in d.scratch
    BY <1>10
  <2> QED BY <1>10, <2>1 DEF Allowed
<1>11. Allowed(<<"pass", 0>>, e)
  BY <1>10
<1>12. Allowed(<<"pass", 1>>, one)
  <2>1. LastPass(1) \in one.passed
    BY <1>3 DEF LastPass
  <2> QED BY <1>3, <1>5, <1>10, <2>1
<1>13. ASSUME NEW k \in Nat PROVE Allowed(<<"pass", k>>, both)
  <2>1. IF k = 0 THEN both.in = "self" ELSE LastPass(k) \in both.passed
    BY <1>4 DEF LastPass
  <2> QED BY <1>4, <1>5, <1>10, <2>1
<1>14. PICK p : p = Passes(n)
  OBVIOUS
<1>15. p \in Seq(StepType) /\ Len(p) = n /\ \A i \in 1..n : p[i] = <<"pass", i - 1>>
  <2>1. ASSUME NEW i \in 1..n PROVE <<"pass", i - 1>> \in StepType
    <3>1. i - 1 \in Int
      OBVIOUS
    <3> QED BY <3>1 DEF StepType, Numbered
  <2>2. p \in [1..n -> StepType]
    BY <1>14, <2>1 DEF Passes
  <2> QED BY <1>14, <2>2 DEF Passes
<1>16. PICK es : es = [i \in 0..n |-> IF i = 0 THEN e ELSE IF i = 1 THEN one ELSE both]
  OBVIOUS
<1>17. es \in [0..n -> Outline] /\ es[0] = e
  BY <1>3, <1>4, <1>16
<1>18. ASSUME NEW i \in 1..n PROVE Allowed(p[i], es[i - 1]) /\ es[i] = After(p[i], es[i - 1])
  <2>1. i - 1 \in 0..n /\ i \in 0..n /\ i - 1 \in Nat
    OBVIOUS
  <2>2. CASE i = 1
    <3>1. es[i] = one /\ es[i - 1] = e /\ p[i] = <<"pass", 0>>
      BY <1>15, <1>16, <2>1, <2>2
    <3> QED BY <1>7, <1>11, <3>1
  <2>3. CASE i = 2
    <3>1. es[i] = both /\ es[i - 1] = one /\ p[i] = <<"pass", 1>>
      BY <1>15, <1>16, <2>1, <2>3
    <3> QED BY <1>8, <1>12, <3>1
  <2>4. CASE i > 2
    <3>1. es[i] = both /\ es[i - 1] = both /\ p[i] = <<"pass", i - 1>>
      BY <1>15, <1>16, <2>1, <2>4
    <3> QED BY <1>9, <1>13, <2>1, <3>1
  <2> QED BY <2>2, <2>3, <2>4
<1>19. PICK f \in Outline : f = es[n]
  BY <1>17
<1>20. Leads(p, e, f)
  BY <1>15, <1>17, <1>18, <1>19 DEF Leads
<1>21. ~f.done /\ f.out = "dense" /\ 1 + ((n - 1) % 2) \in f.passed
  <2>1. CASE n = 1
    BY <1>3, <1>16, <1>19, <2>1
  <2>2. CASE n > 1
    <3>1. f = both
      BY <1>16, <1>19, <2>2
    <3>2. 1 + ((n - 1) % 2) \in 1..2
      OBVIOUS
    <3> QED BY <1>4, <3>1, <3>2
  <2> QED BY <2>1, <2>2
<1> QED BY <1>14, <1>20, <1>21

LEMMA LeadsNone ==
  ASSUME NEW e \in Outline
  PROVE  Leads(<<>>, e, e)
<1>1. PICK es : es = [i \in 0..0 |-> e]
  OBVIOUS
<1>2. es \in [0..0 -> Outline] /\ es[0] = e
  BY <1>1
<1>3. <<>> \in Seq(StepType) /\ Len(<<>>) = 0
  OBVIOUS
<1> QED BY <1>2, <1>3 DEF Leads

Scratches == <<<<"scratch", 1>>, <<"scratch", 2>>>>
Last2(n)  == 1 + ((n - 1) % 2)

LEMMA FilterLead ==
  ASSUME NEW e \in Outline, ~e.done, e.in = "self", e.out = "dense", e.scratch = 1..2, e.passed = {},
         WholeIn(e, {"weights"}), NEW n \in Nat \ {0}, NEW a, NEW p, Leads(p, a, e)
  PROVE  \E f : Leads((p \o Passes(n)) \o <<<<"exchange", Last2(n)>>>>, a, f)
<1>1. PICK d \in Outline : /\ Leads(Passes(n), e, d) /\ ~d.done /\ d.out = "dense"
                           /\ Last2(n) \in d.passed
  BY PassesLead DEF Last2
<1>2. PICK f : Does(<<"exchange", Last2(n)>>, d, f)
  BY <1>1, ExchangeDoes
<1>3. Leads(<<<<"exchange", Last2(n)>>>>, d, f)
  BY <1>2, LeadsOne
<1>4. Leads(p \o Passes(n), a, d)
  BY <1>1, LeadsThen
<1> QED BY <1>3, <1>4, LeadsThen

LEMMA FilterSound ==
  ASSUME NEW n \in Nat \ {0}, NEW weighted \in BOOLEAN
  PROVE  Sound(Filter(n, weighted), "self", "dense")
<1>1. PICK e : e = Start("self", "dense")
  OBVIOUS
<1>2. /\ e \in Outline /\ ~e.done /\ e.in = "self" /\ e.out = "dense" /\ e.scratch = {} /\ e.passed = {} /\ e.tops = {}
      /\ e.vals = {} /\ e.fresh = {} /\ e.listed = {} /\ e.indexed = {} /\ e.filled = {}
  BY <1>1, StartIs
<1>3. PICK e1 : /\ Does(<<"scratch", 1>>, e, e1) /\ SameTops(e, e1) /\ SameVals(e, e1)
                /\ e1.passed = e.passed /\ e1.in = e.in /\ e1.out = e.out /\ e1.done = e.done
                /\ e1.scratch = e.scratch \cup {1}
  BY <1>2, ScratchDoes
<1>4. e1 \in Outline /\ ~e1.done /\ e1.in = "self" /\ e1.out = "dense"
  BY <1>2, <1>3 DEF Does
<1>5. PICK e2 : /\ Does(<<"scratch", 2>>, e1, e2) /\ SameTops(e1, e2) /\ SameVals(e1, e2)
                /\ e2.passed = e1.passed /\ e2.in = e1.in /\ e2.out = e1.out /\ e2.done = e1.done
                /\ e2.scratch = e1.scratch \cup {2}
  BY <1>4, ScratchDoes
<1>6. /\ e2 \in Outline /\ ~e2.done /\ e2.in = "self" /\ e2.out = "dense" /\ e2.scratch = 1..2 /\ e2.passed = {}
      /\ e2.tops = {} /\ e2.vals = {} /\ Absent(e2, "weights")
  BY <1>2, <1>3, <1>4, <1>5 DEF Does, SameTops, SameVals, Absent
<1>7. Leads(Scratches, e, e2)
  BY <1>3, <1>5, LeadsTwo DEF Scratches
<1>8. CASE weighted
  <2>1. PICK d \in Outline : /\ Leads(Weights, e2, d) /\ Same(e2, d) /\ AgreeBut(e2, d, {"weights"})
                             /\ Alone(d, "weights")
    BY <1>6, WeightsLead
  <2>2. ~d.done /\ d.in = "self" /\ d.out = "dense" /\ d.scratch = 1..2 /\ d.passed = {} /\ WholeIn(d, {"weights"})
    BY <1>6, <2>1 DEF Same, Alone, WholeIn
  <2>3. Leads(Scratches \o Weights, e, d)
    BY <1>7, <2>1, LeadsThen
  <2>4. PICK f : Leads(((Scratches \o Weights) \o Passes(n)) \o <<<<"exchange", Last2(n)>>>>, e, f)
    BY <2>2, <2>3, FilterLead
  <2>5. Filter(n, weighted) = ((Scratches \o Weights) \o Passes(n)) \o <<<<"exchange", Last2(n)>>>>
    BY <1>8 DEF Filter, Scratches, Passes, Last2
  <2> QED BY <1>1, <2>4, <2>5, LeadsSound
<1>9. CASE ~weighted
  <2>1. Leads(Scratches \o <<>>, e, e2)
    BY <1>6, <1>7, LeadsNone, LeadsThen
  <2>2. WholeIn(e2, {"weights"})
    BY <1>6 DEF WholeIn
  <2>3. PICK f : Leads(((Scratches \o <<>>) \o Passes(n)) \o <<<<"exchange", Last2(n)>>>>, e, f)
    BY <1>6, <2>1, <2>2, FilterLead
  <2>4. Filter(n, weighted) = ((Scratches \o <<>>) \o Passes(n)) \o <<<<"exchange", Last2(n)>>>>
    BY <1>9 DEF Filter, Scratches, Passes, Last2
  <2> QED BY <1>1, <2>3, <2>4, LeadsSound
<1> QED BY <1>8, <1>9

-----------------------------------------------------------------------------
(* The operations begin.                                                   *)

\* What an operation begins with is what its program expects.
Fits(inputs, x, i, o) ==
  /\ i = "sparse" => inputs # {} /\ \A s \in inputs : s \in Handle /\ Held(s)
  /\ i = "dense" => \A s \in inputs : (s \in Handle /\ Held(s)) \/ (s \in Dense /\ Filled(s))
  /\ i = "source" => inputs = {"source"}
  /\ i = "self" => inputs = {x}
  /\ o \in {"slot", "held"} <=> x \in Handle
  /\ o = "held" => Held(x)
  /\ o = "dense" => Filled(x)

LEMMA BeginKeeps ==
  ASSUME IInv, NEW inputs \in SUBSET (Handle \cup Dense \cup Local), NEW x \in Handle \cup Dense,
         NEW p, NEW i \in {"sparse", "dense", "source", "self"}, NEW o \in {"slot", "held", "dense"},
         Sound(p, i, o), Fits(inputs, x, i, o), Begin(inputs, x, p)
  PROVE  IInv'
<1>1. /\ job = Idle /\ data' = data /\ refs' = refs /\ own' = own /\ dense' = dense /\ known' = known
      /\ job' = [in |-> inputs, out |-> x, todo |-> p, ok |-> TRUE, sure |-> inputs \ Local \subseteq known,
                 before |-> <<own, dense, data>>]
  BY DEF Begin
<1>2. /\ job'.in = inputs /\ job'.out = x /\ job'.todo = p /\ job'.ok /\ job'.before = <<own, dense, data>>
      /\ job'.sure => inputs \ Local \subseteq known
  BY <1>1
<1>3. TypeOK'
  <2>1. own \in OwnType /\ dense \in DenseType /\ data \in DataType
    BY DEF IInv, TypeOK
  <2>2. PICK b \in BOOLEAN : b <=> inputs \ Local \subseteq known
    OBVIOUS
  <2>3. job' = [in |-> inputs, out |-> x, todo |-> p, ok |-> TRUE, sure |-> b, before |-> <<own, dense, data>>]
    BY <1>1, <2>2
  <2>4. job' \in JobType
    BY <2>1, <2>3 DEF JobType, Sound
  <2> QED BY <1>1, <2>4 DEF IInv, TypeOK
<1>4. BuffersExact' /\ TopologiesExact' /\ DenseShaped' /\ GridsWhole'
  BY <1>1 DEF IInv, BuffersExact, TopologiesExact, DenseShaped, GridsWhole, Filled, Held, Owners
<1>5. \A s \in Local : own[s] = Empty
  BY <1>1, IdleIs DEF IInv, JobKnown
<1>6. \A y \in Handle \cup Dense : AsBefore(y)'
  BY <1>1, <1>2 DEF AsBefore, Cells
<1>7. PICK e \in Outline : e = Start(i, o)
  BY StartIs
<1>8. /\ ~e.done /\ e.in = i /\ e.out = o /\ e.scratch = {} /\ e.passed = {}
      /\ e.tops = {} /\ e.vals = {} /\ e.fresh = {} /\ e.listed = {} /\ e.indexed = {} /\ e.filled = {}
  BY <1>7, StartIs
<1>9. LocalsMeet(e)'
  BY <1>1, <1>5, <1>8, EmptyIs DEF LocalsMeet
<1>10. InputsMeet(e)'
  BY <1>1, <1>2, <1>8 DEF InputsMeet, Fits, Held, Filled
<1>11. OutputMeets(e)'
  BY <1>1, <1>2, <1>8 DEF OutputMeets, Fits, Held, Filled
<1>12. Meets(e)'
  BY <1>2, <1>6, <1>9, <1>10, <1>11 DEF Meets
<1>13. Goes(job'.todo, e)
  BY <1>2, <1>7 DEF Sound
<1>14. JobKnown'
  <2>1. x # None
    OBVIOUS
  <2> QED BY <1>2, <1>6, <1>12, <1>13, <2>1 DEF JobKnown
<1> QED BY <1>3, <1>4, <1>14 DEF IInv

LEMMA SparseBegins ==
  ASSUME IInv, NEW h \in Handle, SparseUpload(h) \/ UpdateValues(h) \/ Voxelize(h)
  PROVE  IInv'
<1>1. CASE SparseUpload(h)
  <2>1. Begin({}, h, Uploading)
    BY <1>1 DEF SparseUpload, Uploading
  <2>2. Fits({}, h, "dense", "slot")
    BY DEF Fits
  <2> QED BY <2>1, <2>2, UploadSound, BeginKeeps
<1>2. CASE UpdateValues(h)
  <2>1. Held(h) /\ Begin({h}, h, <<<<"buffer", "next">>, <<"send", "next">>, <<"swap", "next">>>>)
    BY <1>2 DEF UpdateValues
  <2>2. Fits({h}, h, "self", "held")
    BY <2>1 DEF Fits
  <2>3. Sound(<<<<"buffer", "next">>, <<"send", "next">>, <<"swap", "next">>>>, "self", "held")
    BY NextSound
  <2> QED BY <2>1, <2>2, <2>3, BeginKeeps
<1>3. CASE Voxelize(h)
  <2>1. Begin({"source"}, h, Voxels)
    BY <1>3 DEF Voxelize, Voxels, Source
  <2>2. Fits({"source"}, h, "source", "slot")
    BY DEF Fits
  <2>3. {"source"} \in SUBSET (Handle \cup Dense \cup Local)
    BY DEF Local
  <2> QED BY <2>1, <2>2, <2>3, VoxelsSound, BeginKeeps
<1> QED BY <1>1, <1>2, <1>3

LEMMA SparseStepBegins ==
  ASSUME IInv, NEW i \in Handle, NEW h \in Handle,
         \/ \E kind \in 0..2 : SparseConv(i, h, kind)
         \/ \E kind \in 3..4, n \in 1..MaxIterations : SparseMorph(i, h, kind, n)
  PROVE  IInv'
<1>1. Held(i) => Fits({i}, h, "sparse", "slot")
  BY DEF Fits
<1>2. CASE \E kind \in 0..2 : SparseConv(i, h, kind)
  <2>1. PICK kind \in 0..2 : SparseConv(i, h, kind)
    BY <1>2
  <2>2. Held(i) /\ Begin({i}, h, Convolution(kind, "out"))
    BY <2>1 DEF SparseConv
  <2>3. Sound(Convolution(kind, "out"), "sparse", "slot")
    BY ConvolutionSound
  <2> QED BY <1>1, <2>2, <2>3, BeginKeeps
<1>3. CASE \E kind \in 3..4, n \in 1..MaxIterations : SparseMorph(i, h, kind, n)
  <2>1. PICK kind \in 3..4, n \in 1..MaxIterations : SparseMorph(i, h, kind, n)
    BY <1>3
  <2>2. Held(i) /\ Begin({i}, h, Morph(kind, n))
    BY <2>1 DEF SparseMorph
  <2>3. Sound(Morph(kind, n), "sparse", "slot")
    BY MorphSound
  <2> QED BY <1>1, <2>2, <2>3, BeginKeeps
<1> QED BY <1>2, <1>3

LEMMA ComputeKeeps ==
  ASSUME IInv, NEW d \in Dense, NEW inputs \in SUBSET (Handle \cup Dense \cup Local), Compute(inputs, d),
         \A s \in inputs : (s \in Handle /\ Held(s)) \/ (s \in Dense /\ Filled(s))
  PROVE  IInv'
<1>1. Filled(d) /\ Begin(inputs, d, Composing)
  BY DEF Compute, Composing
<1>2. Fits(inputs, d, "dense", "dense")
  BY <1>1 DEF Fits
<1> QED BY <1>1, <1>2, ComposeSound, BeginKeeps

LEMMA DenseBegins ==
  ASSUME IInv, NEW d \in Dense,
         \/ \E n \in 1..MaxIterations, weighted \in BOOLEAN : FilterDense(d, n, weighted)
         \/ \E h \in Handle : DenseToSparse(d, h) \/ SparseToDense(h, d)
         \/ \E a, b \in Dense : Comp(a, b, d)
  PROVE  IInv'
<1>1. CASE \E n \in 1..MaxIterations, weighted \in BOOLEAN : FilterDense(d, n, weighted)
  <2>1. PICK n \in 1..MaxIterations, weighted \in BOOLEAN : FilterDense(d, n, weighted)
    BY <1>1
  <2>2. PICK m \in Nat \ {0} : m = IF weighted THEN 3 * n ELSE n
    BY <2>1
  <2>3. Filled(d) /\ Begin({d}, d, Filter(m, weighted))
    BY <2>1, <2>2 DEF FilterDense
  <2>4. Fits({d}, d, "self", "dense")
    BY <2>3 DEF Fits
  <2>5. Sound(Filter(m, weighted), "self", "dense")
    BY FilterSound
  <2> QED BY <2>3, <2>4, <2>5, BeginKeeps
<1>2. CASE \E h \in Handle : DenseToSparse(d, h) \/ SparseToDense(h, d)
  <2>1. PICK h \in Handle : DenseToSparse(d, h) \/ SparseToDense(h, d)
    BY <1>2
  <2>2. CASE DenseToSparse(d, h)
    <3>1. Filled(d) /\ Begin({d}, h, ToSparse)
      BY <2>2 DEF DenseToSparse, ToSparse
    <3>2. Fits({d}, h, "dense", "slot")
      BY <3>1 DEF Fits
    <3> QED BY <3>1, <3>2, ToSparseSound, BeginKeeps
  <2>3. CASE SparseToDense(h, d)
    <3>1. Held(h) /\ Compute({h}, d)
      BY <2>3 DEF SparseToDense
    <3> QED BY <3>1, ComputeKeeps
  <2> QED BY <2>1, <2>2, <2>3
<1>3. CASE \E a, b \in Dense : Comp(a, b, d)
  <2>1. PICK a, b \in Dense : Comp(a, b, d)
    BY <1>3
  <2>2. Filled(a) /\ Filled(b) /\ Compute({a, b}, d)
    BY <2>1 DEF Comp
  <2> QED BY <2>2, ComputeKeeps
<1> QED BY <1>1, <1>2, <1>3

LEMMA OperationsKeep ==
  ASSUME IInv, Operations
  PROVE  IInv'
<1>1. CASE \E h \in Handle : SparseUpload(h) \/ UpdateValues(h) \/ Voxelize(h) \/ SparseDestroy(h)
  BY <1>1, SparseBegins, SparseDestroyKeeps
<1>2. CASE \E i, h \in Handle : \/ \E kind \in 0..2 : SparseConv(i, h, kind)
                                \/ \E kind \in 3..4, n \in 1..MaxIterations : SparseMorph(i, h, kind, n)
  <2>1. PICK i, h \in Handle : \/ \E kind \in 0..2 : SparseConv(i, h, kind)
                               \/ \E kind \in 3..4, n \in 1..MaxIterations : SparseMorph(i, h, kind, n)
    BY <1>2
  <2> QED BY <2>1, SparseStepBegins
<1>3. CASE \E d \in Dense : \/ DenseCreate(d) \/ DenseUpload(d) \/ DenseDestroy(d)
                            \/ \E n \in 1..MaxIterations, weighted \in BOOLEAN : FilterDense(d, n, weighted)
                            \/ \E h \in Handle : DenseToSparse(d, h) \/ SparseToDense(h, d)
                            \/ \E a, b \in Dense : Comp(a, b, d)
  <2>1. PICK d \in Dense : \/ DenseCreate(d) \/ DenseUpload(d) \/ DenseDestroy(d)
                           \/ \E n \in 1..MaxIterations, weighted \in BOOLEAN : FilterDense(d, n, weighted)
                           \/ \E h \in Handle : DenseToSparse(d, h) \/ SparseToDense(h, d)
                           \/ \E a, b \in Dense : Comp(a, b, d)
    BY <1>3
  <2>2. CASE DenseCreate(d) \/ DenseUpload(d) \/ DenseDestroy(d)
    BY <2>2, DenseCreateKeeps, DenseUploadKeeps, DenseDestroyKeeps
  <2>3. CASE \/ \E n \in 1..MaxIterations, weighted \in BOOLEAN : FilterDense(d, n, weighted)
             \/ \E h \in Handle : DenseToSparse(d, h) \/ SparseToDense(h, d)
             \/ \E a, b \in Dense : Comp(a, b, d)
    BY <2>3, DenseBegins
  <2> QED BY <2>1, <2>2, <2>3
<1> QED BY <1>1, <1>2, <1>3 DEF Operations

LEMMA StepsKeep ==
  ASSUME IInv, Steps
  PROVE  IInv'
<1>1. CASE \E s \in Local : NewBuffer(s) \/ NewTopology(s) \/ Share(s) \/ Index(s)
  BY <1>1, NewBufferKeeps, NewTopologyKeeps, ShareKeeps, IndexKeeps
<1>2. CASE Send \/ List \/ Mark \/ Fill \/ Compose
  BY <1>2, SendKeeps, ListKeeps, MarkKeeps, FillKeeps, ComposeKeeps
<1>3. CASE Commits \/ Clean \/ Swap \/ Finish
  BY <1>3, CommitsKeep, CleanKeeps, SwapKeeps, FinishKeeps
<1>4. CASE \E k \in 1..2 : Scratch(k) \/ Exchange(k)
  BY <1>4, ScratchKeeps, ExchangeKeeps
<1>5. CASE \E p \in 0..(3 * MaxIterations) : Pass(p)
  BY <1>5, PassKeeps
<1> QED BY <1>1, <1>2, <1>3, <1>4, <1>5 DEF Steps

LEMMA StutterKeeps ==
  ASSUME IInv, UNCHANGED vars
  PROVE  IInv'
<1>1. own' = own /\ dense' = dense /\ data' = data /\ refs' = refs /\ known' = known /\ job' = job
  BY DEF vars
<1>2. TypeOK' /\ BuffersExact' /\ TopologiesExact' /\ DenseShaped' /\ GridsWhole'
  BY <1>1 DEF IInv, TypeOK, BuffersExact, TopologiesExact, DenseShaped, GridsWhole, Filled, Held, Owners
<1>3. JobKnown'
  BY <1>1 DEF IInv, JobKnown, AsBefore, Cells, Meets, LocalsMeet, InputsMeet, OutputMeets, Has, Filled, Held
<1> QED BY <1>2, <1>3 DEF IInv

LEMMA InitHolds == Init => IInv
<1> SUFFICES ASSUME Init PROVE IInv
  OBVIOUS
<1>1. /\ data = [c \in Buffer \cup Topology |-> "free"] /\ refs = [t \in Topology |-> 0]
      /\ own = [s \in Handle \cup Local |-> Empty] /\ dense = [d \in Dense |-> NoGrid] /\ known = {}
      /\ job = Idle
  BY DEF Init
<1>2. NoGrid \in [0..2 -> Buffer \cup {None}] /\ \A k \in 0..2 : NoGrid[k] = None
  BY DEF NoGrid
<1>3. own \in OwnType
  BY <1>1, EmptyIs DEF OwnType, Slot
<1>4. dense \in DenseType
  BY <1>1, <1>2 DEF DenseType
<1>5. TypeOK
  BY <1>1, <1>3, <1>4, IdleIs DEF TypeOK, DataType, Cell
<1>6. \A s \in Slot : own[s] = Empty /\ own[s].topology = None /\ own[s].values = None
  BY <1>1, EmptyIs DEF Slot
<1>7. \A d \in Dense : dense[d] = NoGrid /\ \A k \in 0..2 : dense[d][k] = None
  BY <1>1, <1>2
<1>8. BuffersExact
  BY <1>1, <1>6, <1>7, NoCell DEF BuffersExact, Cell
<1>9. TopologiesExact
  <2>1. ASSUME NEW t \in Topology PROVE refs[t] = Cardinality(Owners(t, Slot)) /\ (data[t] = "free" <=> refs[t] = 0)
    <3>1. Owners(t, Slot) = {}
      BY <1>6, NoCell DEF Owners, Cell
    <3>2. refs[t] = 0 /\ data[t] = "free"
      BY <1>1
    <3> QED BY <3>1, <3>2, FS_EmptySet
  <2> QED BY <2>1 DEF TopologiesExact
<1>10. DenseShaped
  BY <1>7 DEF DenseShaped
<1>11. GridsWhole
  BY <1>1, <1>2, <1>6, <1>7 DEF GridsWhole, Held, Filled, Slot
<1>12. JobKnown
  BY <1>1, <1>6 DEF JobKnown, Slot
<1> QED BY <1>5, <1>8, <1>9, <1>10, <1>11, <1>12 DEF IInv

\* In every reachable state the owners are accounted for and the operation in progress can be
\* followed to its end.
THEOREM InvariantHolds == Spec => []IInv
<1>1. IInv /\ [Next]_vars => IInv'
  BY OperationsKeep, StepsKeep, StutterKeeps DEF Next
<1> QED BY <1>1, InitHolds, PTL DEF Spec

-----------------------------------------------------------------------------
(* The theorems.                                                           *)

\* The state keeps its types: what the slots, the local pointers and the dense grids own are
\* buffers and topologies, and an operation in progress is a list of steps of the program.
THEOREM TypesHold == Spec => []TypeOK
<1>1. IInv => TypeOK
  BY DEF IInv
<1> QED BY <1>1, InvariantHolds, PTL

\* A grid whose last writer succeeded, from such grids, is allocated and complete, whatever grids
\* share a topology, whichever of them goes first, wherever an operation that shares or replaces it
\* fails, and whatever is done to the other grids, those among them that hold no complete result.
THEOREM HeldGridsWhole == Spec => []GridsWhole
<1>1. IInv => GridsWhole
  BY DEF IInv
<1> QED BY <1>1, InvariantHolds, PTL

\* A typed operation that fails, at whichever of its steps, leaves every grid of the caller as it
\* was, its buffers and what is in them, and one that succeeds replaces its output only
\* (resident_sparse_commit and resident_commit come last, and the iterations of a morphology keep to
\* a grid of their own).
THEOREM FailuresKeepGrids == Spec => []FailureKeepsGrids
<1>1. IInv => FailureKeepsGrids
  BY DEF IInv, JobKnown, FailureKeepsGrids
<1> QED BY <1>1, InvariantHolds, PTL

\* A buffer is owned once if it is allocated and never otherwise, and refs of a topology counts
\* its owners: nothing is leaked, freed twice, or freed while it is owned.
THEOREM BuffersAccountedFor == Spec => []AccountedFor
<1>1. ASSUME IInv PROVE AccountedFor
  <2>1. own \in OwnType /\ DOMAIN own = Slot
    BY <1>1 DEF IInv, TypeOK, OwnType
  <2>2. ASSUME NEW t \in Topology
        PROVE  refs[t] = Cardinality(Owners(t, DOMAIN own)) /\ (data[t] = "free" <=> refs[t] = 0)
    BY <1>1, <2>1 DEF IInv, TopologiesExact
  <2>3. ASSUME NEW b \in Buffer
        PROVE  Cardinality({s \in DOMAIN own : own[s].values = b})
               + Cardinality({x \in Dense \X (0..2) : dense[x[1]][x[2]] = b})
               = IF data[b] = "free" THEN 0 ELSE 1
    <3>1. PICK S : S = {s \in DOMAIN own : own[s].values = b}
      OBVIOUS
    <3>2. PICK D : D = {x \in Dense \X (0..2) : dense[x[1]][x[2]] = b}
      OBVIOUS
    <3>3. b # None
      BY NoCell DEF Cell
    <3>4. /\ \A s, u \in Slot : own[s].values = own[u].values /\ own[s].values # None => s = u
          /\ \A d, e \in Dense, k, l \in 0..2 :
               dense[d][k] = dense[e][l] /\ dense[d][k] # None => d = e /\ k = l
          /\ \A s \in Slot, d \in Dense, k \in 0..2 : own[s].values = dense[d][k] => own[s].values = None
          /\ data[b] # "free" <=> \/ \E s \in Slot : own[s].values = b
                                  \/ \E d \in Dense, k \in 0..2 : dense[d][k] = b
      BY <1>1 DEF IInv, BuffersExact
    <3>5. CASE data[b] = "free"
      <4>1. S = {}
        BY <2>1, <3>1, <3>4, <3>5
      <4>2. D = {}
        BY <3>2, <3>4, <3>5
      <4>3. Cardinality(S) = 0 /\ Cardinality(D) = 0
        BY <4>1, <4>2, FS_EmptySet
      <4> QED BY <3>1, <3>2, <3>5, <4>3
    <3>6. CASE \E s \in Slot : own[s].values = b
      <4>1. PICK s \in Slot : own[s].values = b
        BY <3>6
      <4>2. S = {s}
        BY <2>1, <3>1, <3>3, <3>4, <4>1
      <4>3. D = {}
        BY <3>2, <3>3, <3>4, <4>1
      <4>4. Cardinality(S) = 1 /\ Cardinality(D) = 0
        BY <4>2, <4>3, FS_Singleton, FS_EmptySet
      <4>5. data[b] # "free"
        BY <3>4, <4>1
      <4> QED BY <3>1, <3>2, <4>4, <4>5
    <3>7. CASE \E d \in Dense, k \in 0..2 : dense[d][k] = b
      <4>1. PICK d \in Dense, k \in 0..2 : dense[d][k] = b
        BY <3>7
      <4>2. S = {}
        BY <2>1, <3>1, <3>3, <3>4, <4>1
      <4>3. D = {<<d, k>>}
        BY <3>2, <3>3, <3>4, <4>1
      <4>4. Cardinality(S) = 0 /\ Cardinality(D) = 1
        BY <4>2, <4>3, FS_Singleton, FS_EmptySet
      <4>5. data[b] # "free"
        BY <3>4, <4>1
      <4> QED BY <3>1, <3>2, <4>4, <4>5
    <3> QED BY <3>4, <3>5, <3>6, <3>7
  <2> QED BY <2>2, <2>3 DEF AccountedFor
<1> QED BY <1>1, InvariantHolds, PTL
=============================================================================
