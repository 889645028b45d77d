---------------------------- MODULE GpuResident -----------------------------
(***************************************************************************)
(* Grids that stay on the device (tinyvdb_gpu_resident.inl): who owns each *)
(* buffer and each shared topology, while any allocation, transfer or      *)
(* dispatch of an operation may fail.  Calls on a context are serialized,  *)
(* so an operation is the list of the steps it has left, and a failed step *)
(* leads to the operation's clean-up.                                      *)
(***************************************************************************)
EXTENDS Integers, Sequences, FiniteSets, FiniteSetsExt

CONSTANTS
  Handle,         \* the caller's sparse handles
  Dense,          \* the caller's dense grids
  Buffer,         \* device buffers
  Topology,       \* resident_topology structures, each with its two buffers
  MaxIterations,  \* bound: iterations of a filter or a morphology
  None            \* NULL

Local == {"g", "cand", "flags", "weights", "next", "tmp", "source", "marks"}

ASSUME ResidentAssumption ==
  /\ Buffer \subseteq Nat /\ Topology \subseteq Nat /\ Buffer \cap Topology = {}
  /\ IsFiniteSet(Handle) /\ IsFiniteSet(Dense) /\ Handle \cap Dense = {}
  /\ Local \cap (Handle \cup Dense) = {} /\ MaxIterations \in Nat \ {0}
  /\ None \notin Handle \cup Dense /\ None \notin Local /\ None \notin Buffer \cup Topology

VARIABLES
  data,   \* of a buffer or topology: free, blank, listed (coordinates only), whole or torn
  refs,   \* refs of each topology
  own,    \* what each sparse grid, and each local pointer of the operation, owns
  dense,  \* of a dense grid: values (0), scratch[0] (1) and scratch[1] (2)
  known,  \* history: the grids last written by a call that succeeded, from known grids
  job     \* the operation in progress

vars == <<data, refs, own, dense, known, job>>

Empty == [topology |-> None, values |-> None]
NoGrid == [k \in 0..2 |-> None]
Idle == [in |-> {}, out |-> None, todo |-> <<>>, ok |-> TRUE, sure |-> TRUE, before |-> <<>>]

Init ==
  /\ data = [c \in Buffer \cup Topology |-> "free"] /\ refs = [t \in Topology |-> 0]
  /\ own = [s \in Handle \cup Local |-> Empty] /\ dense = [d \in Dense |-> NoGrid]
  /\ known = {} /\ job = Idle

(***************************************************************************)
(* The parts of an operation.                                              *)
(***************************************************************************)

At(verb, x) == job.todo # <<>> /\ Head(job.todo)[1] = verb /\ Head(job.todo)[2] = x
Rest    == [job EXCEPT !.todo = Tail(@)]
Failed  == [job EXCEPT !.todo = <<>>, !.ok = FALSE]
Proceed == job' = Rest
Fail    == job' = Failed

Cells(s) == {own[s].topology, own[s].values} \ {None}
Inputs   == UNION {IF x \in Dense THEN {dense[x][0]} ELSE Cells(x) : x \in job.in}
Free(C)  == {c \in C : data[c] = "free"}
Owners(t, S) == {s \in S : own[s].topology = t}

\* The output has its result, which is known if the inputs were.
Credited == IF job.sure THEN known \cup {job.out} ELSE known \ {job.out}

\* Mutant: a topology is freed with the first grid that leaves it.
DroppedAtOnce(S) ==
  LET left == {t \in Topology : Owners(t, S) # {}}
  IN /\ refs' = [t \in Topology |-> IF t \in left THEN 0 ELSE refs[t]]
     /\ data' = [c \in DOMAIN data |-> IF c \in left \cup {own[s].values : s \in S} THEN "free"
                                       ELSE data[c]]

\* tvdb_gpu_sparse_grid_destroy, resident_topology_release, tvdb_gpu_buffer_destroy.
Dropped(S) ==
  LET after == [t \in Topology |-> refs[t] - Cardinality(Owners(t, S))]
      last  == {t \in Topology : refs[t] # 0 /\ after[t] = 0}
  IN /\ refs' = after
     /\ data' = [c \in DOMAIN data |-> IF c \in last \cup {own[s].values : s \in S} THEN "free"
                                       ELSE data[c]]

\* tvdb_gpu_buffer_create_device for the values of s, which may be a lone buffer.
NewBuffer(s) ==
  /\ At("buffer", s)
  /\ \/ /\ Free(Buffer) # {}
        /\ own' = [own EXCEPT ![s].values = Min(Free(Buffer))]
        /\ data' = [data EXCEPT ![Min(Free(Buffer))] = "blank"] /\ Proceed
     \/ UNCHANGED <<own, data>> /\ Fail
  /\ UNCHANGED <<refs, dense, known>>

\* resident_topology_alloc; when a buffer of it fails, it frees the other.
NewTopology(s) ==
  /\ At("topology", s)
  /\ \/ /\ Free(Topology) # {}
        /\ own' = [own EXCEPT ![s].topology = Min(Free(Topology))]
        /\ data' = [data EXCEPT ![Min(Free(Topology))] = "blank"]
        /\ refs' = [refs EXCEPT ![Min(Free(Topology))] = 1] /\ Proceed
     \/ UNCHANGED <<own, data, refs>> /\ Fail
  /\ UNCHANGED <<dense, known>>

\* Topology-preserving steps take the topology of their input.
Share(s) ==
  /\ At("share", s)
  /\ \E i \in job.in : /\ own' = [own EXCEPT ![s].topology = own[i].topology]
                       /\ refs' = [refs EXCEPT ![own[i].topology] = @ + 1]
  /\ Proceed /\ UNCHANGED <<data, dense, known>>

\* An upload, or a batch of dispatches and the reads that check it.  A failure
\* leaves anything in the outputs; so does an input that is not whole, as a dense
\* grid that was created and never uploaded.
Run(reads, writes) ==
  LET result(c) == IF \E r \in reads : data[r] # "whole" THEN "torn"
                   ELSE IF c \in Topology THEN "listed" ELSE "whole"
  IN /\ \/ data' = [c \in DOMAIN data |-> IF c \in writes THEN result(c) ELSE data[c]] /\ Proceed
        \/ data' = [c \in DOMAIN data |-> IF c \in writes THEN "torn" ELSE data[c]] /\ Fail
     /\ UNCHANGED <<refs, own, dense, known>>

\* tvdb_gpu_buffer_upload.
Send == \E s \in {"weights", "next", "g"} : At("send", s) /\ Run({}, Cells(s))

\* The kernels of voxelize, sparse_step and dense_to_sparse that list coordinates.
List ==
  \/ At("list", "source") /\ Run({}, Cells("source") \cup Cells("marks"))
  \/ At("list", "cand") /\ Run(Inputs \cup Cells("weights"), Cells("cand") \cup Cells("flags"))
  \/ At("list", "g") /\ Run(Inputs \cup Cells("cand") \cup Cells("flags"), Cells("g"))

\* The kernel that flags the coordinates to keep, with the scan of the flags.
Mark == At("mark", "flags") /\ Run(Inputs \cup Cells("cand") \cup Cells("weights"), Cells("flags"))

\* The kernel that computes the values of a sparse result.
Fill == At("fill", "g") /\ Run(Inputs \cup Cells("weights") \cup {own["g"].topology}, {own["g"].values})

\* resident_topology_build.
Index(s) ==
  LET t == own[s].topology
  IN /\ At("index", s)
     /\ \/ data' = [data EXCEPT ![t] = IF @ = "listed" THEN "whole" ELSE "torn"] /\ Proceed
        \/ data' = [data EXCEPT ![t] = "torn"] /\ Fail
     /\ UNCHANGED <<refs, own, dense, known>>

\* resident_sparse_commit of the grid s to the caller's slot, or to another local one.
Commit(s, to) ==
  /\ Dropped({to}) /\ own' = [own EXCEPT ![to] = own[s], ![s] = Empty]
  /\ job' = [Rest EXCEPT !.in = IF to = "tmp" THEN {"tmp"} ELSE @]
  /\ known' = (IF to = "tmp" THEN known ELSE Credited) /\ UNCHANGED dense

Commits ==
  \/ At("commit", "tmp") /\ Commit("g", "tmp")
  \/ At("commit", "out") /\ Commit("g", job.out)
  \/ At("publish", "out") /\ Commit("tmp", job.out)

\* The end of sparse_step: what only the step used.
Clean ==
  /\ At("clean", "step") /\ Dropped({"cand", "flags"})
  /\ own' = [own EXCEPT !["cand"] = Empty, !["flags"] = Empty] /\ Proceed
  /\ UNCHANGED <<dense, known>>

\* The new values take the place of the old (update_values).
Swap ==
  /\ At("swap", "next")
  /\ data' = [data EXCEPT ![own[job.out].values] = "free"]
  /\ own' = [own EXCEPT ![job.out].values = own["next"].values, !["next"] = Empty]
  /\ Proceed /\ known' = Credited /\ UNCHANGED <<refs, dense>>

\* resident_scratch.
Scratch(k) ==
  LET g == dense[job.out]
  IN /\ At("scratch", k)
     /\ \/ g[k] # None /\ UNCHANGED <<dense, data>> /\ Proceed
        \/ /\ g[k] = None /\ Free(Buffer) # {}
           /\ dense' = [dense EXCEPT ![job.out][k] = Min(Free(Buffer))]
           /\ data' = [data EXCEPT ![Min(Free(Buffer))] = "blank"] /\ Proceed
        \/ g[k] = None /\ UNCHANGED <<dense, data>> /\ Fail
     /\ UNCHANGED <<refs, own, known>>

\* Pass p of a filter reads what the pass before it wrote.
Current(p) == dense[job.out][IF p = 0 THEN 0 ELSE 1 + ((p - 1) % 2)]
Pass(p)    == At("pass", p) /\ Run({Current(p)} \cup Cells("weights"), {dense[job.out][1 + (p % 2)]})

\* The other operations on a dense grid write scratch[0].
Compose == At("compose", 1) /\ Run(Inputs, {dense[job.out][1]})

\* resident_commit.
Exchange(k) ==
  LET g == dense[job.out]
  IN /\ At("exchange", k) /\ dense' = [dense EXCEPT ![job.out] = [g EXCEPT ![0] = g[k], ![k] = g[0]]]
     /\ Proceed /\ known' = Credited /\ UNCHANGED <<data, refs, own>>

\* Mutant: the clean-up forgets the candidates.
FinishKeepsCandidates ==
  /\ job.out # None /\ job.todo = <<>> /\ job' = Idle
  /\ Dropped(Local \ {"cand"})
  /\ own' = [s \in DOMAIN own |-> IF s \in Local THEN Empty ELSE own[s]]
  /\ UNCHANGED <<dense, known>>

\* An operation returns: its temporaries go, whether it failed or not.
Finish ==
  /\ job.out # None /\ job.todo = <<>> /\ job' = Idle
  /\ Dropped(Local)
  /\ own' = [s \in DOMAIN own |-> IF s \in Local THEN Empty ELSE own[s]]
  /\ UNCHANGED <<dense, known>>

(***************************************************************************)
(* The operations.                                                         *)
(***************************************************************************)

Make(s) == <<<<"topology", s>>, <<"buffer", s>>>>
Weights == <<<<"buffer", "weights">>, <<"send", "weights">>>>

\* resident_sparse_step: 0 keeps the topology, 1 to 3 list candidates, 4 erodes.
Step(kind) ==
  IF kind = 0 THEN <<<<"share", "g">>, <<"buffer", "g">>, <<"fill", "g">>>>
  ELSE <<<<"buffer", "flags">>>>
       \o (IF kind = 4 THEN <<<<"share", "cand">>>>
           ELSE <<<<"topology", "cand">>, <<"list", "cand">>, <<"index", "cand">>>>)
       \o <<<<"mark", "flags">>, <<"topology", "g">>, <<"list", "g">>, <<"index", "g">>,
            <<"buffer", "g">>, <<"fill", "g">>>>

Convolution(kind, to) == Weights \o Step(kind) \o <<<<"commit", to>>, <<"clean", "step">>>>

Iterated(body, n) == [i \in 1..(n * Len(body)) |-> body[1 + ((i - 1) % Len(body))]]

\* Mutant: the iterations commit to the slot of the caller.
MorphDirect(kind, n) ==
  Weights \o Iterated(Step(kind) \o <<<<"commit", "out">>, <<"clean", "step">>>>, n)

Morph(kind, n) == Weights \o Iterated(Step(kind) \o <<<<"commit", "tmp">>, <<"clean", "step">>>>, n)
                  \o <<<<"publish", "out">>>>

Filter(passes, weighted) ==
  <<<<"scratch", 1>>, <<"scratch", 2>>>> \o (IF weighted THEN Weights ELSE <<>>)
  \o [p \in 1..passes |-> <<"pass", p - 1>>] \o <<<<"exchange", 1 + ((passes - 1) % 2)>>>>

Begin(inputs, x, program) ==
  /\ job = Idle /\ UNCHANGED <<data, refs, own, dense, known>>
  /\ job' = [in |-> inputs, out |-> x, todo |-> program, ok |-> TRUE,
             sure |-> inputs \ Local \subseteq known, before |-> <<own, dense, data>>]

Held(h)   == own[h] # Empty
Filled(d) == dense[d][0] # None

SparseUpload(h) == Begin({}, h, Make("g") \o <<<<"send", "g">>, <<"index", "g">>, <<"commit", "out">>>>)
SparseConv(i, h, kind) == Held(i) /\ Begin({i}, h, Convolution(kind, "out"))
SparseMorph(i, h, kind, n) == Held(i) /\ Begin({i}, h, Morph(kind, n))
\* The topology stays, so it is the input.
UpdateValues(h) ==
  Held(h) /\ Begin({h}, h, <<<<"buffer", "next">>, <<"send", "next">>, <<"swap", "next">>>>)
DenseToSparse(d, h) ==
  Filled(d) /\ Begin({d}, h, <<<<"buffer", "flags">>, <<"mark", "flags">>>> \o Make("g")
                             \o <<<<"list", "g">>, <<"index", "g">>, <<"commit", "out">>>>)
Voxelize(h) ==
  Begin({"source"}, h, Make("source") \o <<<<"buffer", "marks">>, <<"list", "source">>,
                       <<"index", "source">>>> \o Convolution(1, "tmp") \o <<<<"publish", "out">>>>)
Compute(inputs, d) ==
  Filled(d) /\ Begin(inputs, d, <<<<"scratch", 1>>, <<"compose", 1>>, <<"exchange", 1>>>>)
Comp(a, b, d) == Filled(a) /\ Filled(b) /\ Compute({a, b}, d)
SparseToDense(h, d) == Held(h) /\ Compute({h}, d)
FilterDense(d, n, weighted) ==
  Filled(d) /\ Begin({d}, d, Filter(IF weighted THEN 3 * n ELSE n, weighted))

SparseDestroy(h) ==
  /\ job = Idle /\ Held(h) /\ Dropped({h}) /\ own' = [own EXCEPT ![h] = Empty]
  /\ known' = known \ {h} /\ UNCHANGED <<dense, job>>

\* A dense grid is created with nothing written to its values; a creation that fails
\* leaves nothing.
DenseCreate(d) ==
  /\ job = Idle /\ ~Filled(d) /\ Free(Buffer) # {}
  /\ dense' = [dense EXCEPT ![d][0] = Min(Free(Buffer))]
  /\ data' = [data EXCEPT ![Min(Free(Buffer))] = "blank"] /\ UNCHANGED <<refs, own, known, job>>

\* An upload writes in place: when it fails, anything may be in the grid.
DenseUpload(d) ==
  /\ job = Idle /\ Filled(d)
  /\ \/ data' = [data EXCEPT ![dense[d][0]] = "whole"] /\ known' = known \cup {d}
     \/ data' = [data EXCEPT ![dense[d][0]] = "torn"] /\ known' = known \ {d}
  /\ UNCHANGED <<refs, own, dense, job>>

DenseDestroy(d) ==
  /\ job = Idle /\ Filled(d) /\ dense' = [dense EXCEPT ![d] = NoGrid]
  /\ data' = [c \in DOMAIN data |-> IF \E k \in 0..2 : dense[d][k] = c THEN "free" ELSE data[c]]
  /\ known' = known \ {d} /\ UNCHANGED <<refs, own, job>>

Operations ==
  \/ \E h \in Handle : SparseUpload(h) \/ UpdateValues(h) \/ Voxelize(h) \/ SparseDestroy(h)
  \/ \E i, h \in Handle : \/ \E kind \in 0..2 : SparseConv(i, h, kind)
                          \/ \E kind \in 3..4, n \in 1..MaxIterations : SparseMorph(i, h, kind, n)
  \/ \E d \in Dense : \/ DenseCreate(d) \/ DenseUpload(d) \/ DenseDestroy(d)
                      \/ \E n \in 1..MaxIterations, weighted \in BOOLEAN : FilterDense(d, n, weighted)
                      \/ \E h \in Handle : DenseToSparse(d, h) \/ SparseToDense(h, d)
                      \/ \E a, b \in Dense : Comp(a, b, d)

Steps ==
  \/ \E s \in Local : NewBuffer(s) \/ NewTopology(s) \/ Share(s) \/ Index(s)
  \/ Send \/ List \/ Mark \/ Fill \/ Compose \/ Commits \/ Clean \/ Swap
  \/ \E k \in 1..2 : Scratch(k) \/ Exchange(k)
  \/ \E p \in 0..(3 * MaxIterations) : Pass(p)
  \/ Finish

Next == Operations \/ Steps
Spec == Init /\ [][Next]_vars

(***************************************************************************)
(* Properties.                                                             *)
(***************************************************************************)

\* A sparse grid that the caller holds has its topology and its values.  A known grid can
\* be read: its buffers are allocated and hold a complete result of complete inputs, in
\* whichever order grids that share a topology go, and whatever is done, or fails, to the
\* others or to unknown ones.  A dense grid is unknown from its creation until something
\* is written to it, and after an upload that failed, which writes in place.
GridsWhole ==
  /\ \A h \in Handle : Held(h) => own[h].topology # None /\ own[h].values # None
  /\ \A h \in Handle \cap known : /\ Held(h) /\ data[own[h].topology] = "whole"
                                  /\ data[own[h].values] = "whole"
  /\ \A d \in Dense \cap known : Filled(d) /\ data[dense[d][0]] = "whole"

\* A grid has the buffers it had when the operation began, and in them what was there.
AsBefore(x) ==
  IF x \in Dense
  THEN /\ dense[x][0] = job.before[2][x][0]
       /\ \A c \in {dense[x][0]} \ {None} : data[c] = job.before[3][c]
  ELSE own[x] = job.before[1][x] /\ \A c \in Cells(x) : data[c] = job.before[3][c]

\* An operation that fails leaves every grid of the caller as it was, buffers and contents,
\* and one that succeeds replaces its output only, also when the output is an input as well
\* ("Typed processing operations preserve the previous output on failure", README.md:453).
\* The upload to a dense grid is no such operation: see DenseUpload.
FailureKeepsGrids ==
  job # Idle => \A x \in Handle \cup Dense : x # job.out \/ ~job.ok => AsBefore(x)

\* Every allocated buffer has one owner, and refs of a topology is the number of
\* its owners, so that an operation, failed or not, leaks and frees nothing else.
AccountedFor ==
  /\ \A t \in Topology : /\ refs[t] = Cardinality(Owners(t, DOMAIN own))
                         /\ data[t] = "free" <=> refs[t] = 0
  /\ \A b \in Buffer :
       Cardinality({s \in DOMAIN own : own[s].values = b})
       + Cardinality({x \in Dense \X (0..2) : dense[x[1]][x[2]] = b})
       = IF data[b] = "free" THEN 0 ELSE 1
=============================================================================
