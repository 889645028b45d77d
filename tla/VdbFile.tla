------------------------------ MODULE VdbFile -------------------------------
(***************************************************************************)
(* tvdb_file_t of tinyvdb_io.h: what a file owns, and how opening,         *)
(* loading, replacing and closing move memory.  A block stands for the     *)
(* allocations that live and die together: the array of grids, and what    *)
(* one load or build of a grid allocates (tree, metadata, point data).     *)
(***************************************************************************)
EXTENDS Integers

CONSTANTS
  File,      \* the tvdb_file_t structures
  NumGrids,  \* the number of grids of a file on disk
  Result,    \* the grids that are built outside a file
  Copies,    \* bound: the addresses of one grid or result
  None       \* NULL

Grid == 1..NumGrids

\* An address is one of those its purpose may get: the array of grids of a file
\* (0), a grid of a file, or a result.  A freed address may be handed out again.
Purpose      == (File \X (0..NumGrids)) \cup Result
Addresses(p) == {p} \X (IF p \in File \X {0} THEN {1} ELSE 1..Copies)
Block        == UNION {Addresses(p) : p \in Purpose}

ASSUME FileAssumption == NumGrids \in Nat \ {0} /\ Copies \in Nat /\ None \notin Block \cup File

VARIABLES
  heap,    \* allocated blocks
  array,   \* file->grids
  count,   \* file->num_grids
  tree,    \* the payload of each grid, NULL until it is loaded
  offsets  \* the descriptor of the grid still says where its bytes are

fileVars == <<heap, array, count, tree, offsets>>

NoTrees  == [i \in Grid |-> None]
Owned(f) == ({array[f]} \cup {tree[f][i] : i \in Grid}) \ {None}

FileInit ==
  /\ heap = {} /\ array = [f \in File |-> None] /\ count = [f \in File |-> 0]
  /\ tree = [f \in File |-> NoTrees] /\ offsets = [f \in File |-> [i \in Grid |-> FALSE]]

\* tvdb__alloc.
Alloc(p, b) == b \in Addresses(p) \ heap /\ heap' = heap \cup {b}

\* tvdb__file_parse has read the grid count and the descriptors.
ParseArray(f, b) ==
  /\ Alloc(<<f, 0>>, b) /\ array' = [array EXCEPT ![f] = b] /\ count' = [count EXCEPT ![f] = NumGrids]
  /\ offsets' = [offsets EXCEPT ![f] = [i \in Grid |-> TRUE]] /\ UNCHANGED tree

\* tvdb_file_close, also the failure path of tvdb__file_parse.
CloseFile(f) ==
  /\ heap' = heap \ Owned(f)
  /\ array' = [array EXCEPT ![f] = None] /\ count' = [count EXCEPT ![f] = 0]
  /\ tree' = [tree EXCEPT ![f] = NoTrees]
  /\ offsets' = [offsets EXCEPT ![f] = [i \in Grid |-> FALSE]]

\* Mutant: what a failed load or build allocated stays allocated.
DiscardNothing(b) == UNCHANGED fileVars

\* A failed load destroys the independent grid it was reading into.
Discard(b) == heap' = heap \ {b} /\ UNCHANGED <<array, count, tree, offsets>>

\* A finished load or build takes the place of the grid, which is destroyed.  A
\* loaded grid keeps its descriptor; a built one has no bytes in the file.
Install(f, i, b, serialized) ==
  /\ heap' = heap \ {tree[f][i]} /\ tree' = [tree EXCEPT ![f][i] = b]
  /\ offsets' = [offsets EXCEPT ![f][i] = serialized] /\ UNCHANGED <<array, count>>

\* owned_grid_result: a file of one grid that was built in memory.
Adopt(f, b, a) ==
  /\ Alloc(<<f, 0>>, a) /\ array' = [array EXCEPT ![f] = a] /\ count' = [count EXCEPT ![f] = 1]
  /\ tree' = [tree EXCEPT ![f][1] = b] /\ UNCHANGED offsets
=============================================================================
