------------------------------ MODULE PyOwner -------------------------------
(***************************************************************************)
(* The Python owner of a file (python/src/_tinyvdb.c): VDBFile, the views  *)
(* that borrow its grids and nodes, and the calls that release the GIL     *)
(* around the heavy work.  An action is what runs between two releases of  *)
(* the GIL, or a step of the heavy work that runs without it.              *)
(***************************************************************************)
EXTENDS VdbFile, MaskCodec, Sequences

CONSTANTS
  Thread,           \* Python threads
  View,             \* VDBGrid and VDBNode objects alive at one time
  Yielding,         \* the calls given arguments whose conversion runs Python code;
                    \* "release": replace and extend given buffers whose release does
  Disk,             \* bound: the owners the application opens itself
  MaxGeneration     \* bound: reloads, replacements and closes of each owner

ASSUME OwnerAssumption == Result = Thread /\ Disk \subseteq File /\ MaxGeneration \in [File -> Nat]
                          /\ Yielding \subseteq 
                             {"open", "replace", "save", "work", "maintain", "node", "release"}

VARIABLES
  state,       \* of a VDBFile: no object, closed or open (is_open)
  busy,        \* busy
  generation,  \* generation
  view,        \* file_ref, kind, pointer and generation of each view
  call         \* the call each thread is in

ownerVars == <<state, busy, generation>>
vars == <<fileVars, ownerVars, view, call>>

NoView == [file |-> None, kind |-> "none", grid |-> 0, ptr |-> None, gen |-> 0]
Idle   == [op |-> "none", pc |-> "idle", files |-> {}, views |-> <<>>, grid |-> 0,
           fresh |-> None, before |-> NoTrees, failed |-> FALSE]

Init ==
  /\ FileInit
  /\ state = [f \in File |-> "none"] /\ busy = [f \in File |-> FALSE]
  /\ generation = [f \in File |-> 0]
  /\ view = [v \in View |-> NoView] /\ call = [t \in Thread |-> Idle]

\* file_available and view_valid.
Available(f) == state[f] = "open" /\ ~busy[f]
Valid(v) == view[v].file # None /\ Available(view[v].file)
            /\ view[v].gen = generation[view[v].file]

Bump(f) == generation' = [generation EXCEPT ![f] = @ + 1]
Running(t)   == call[t].pc \notin {"idle", "convert", "released"}
Refers(t, f) == f \in call[t].files
Target(t)    == CHOOSE f \in call[t].files : TRUE

(***************************************************************************)
(* Short calls, with the GIL held from their checks to their return.       *)
(***************************************************************************)

\* VDBFile.grid(i).
GetGrid(v, f, i) ==
  /\ view[v] = NoView /\ Available(f) /\ i <= count[f]
  /\ view' = [view EXCEPT ![v] = [file |-> f, kind |-> "grid", grid |-> i, ptr |-> array[f],
                                  gen |-> generation[f]]]
  /\ UNCHANGED <<fileVars, ownerVars, call>>

NodeOf(w, b) == [view[w] EXCEPT !.kind = "node", !.ptr = b]

\* VDBGrid.tree.node(n), where n is an integer.
GetNode(v, w) ==
  /\ view[v] = NoView /\ Valid(w) /\ view[w].kind = "grid"
  /\ tree[view[w].file][view[w].grid] # None
  /\ view' = [view EXCEPT ![v] = NodeOf(w, tree[view[w].file][view[w].grid])]
  /\ UNCHANGED <<fileVars, ownerVars, call>>

\* The last reference to a view goes away; a call in progress holds its own.
Drop(v) ==
  /\ view[v] # NoView
  /\ \A t \in Thread : \A k \in DOMAIN call[t].views : call[t].views[k] # v
  /\ view' = [view EXCEPT ![v] = NoView] /\ UNCHANGED <<fileVars, ownerVars, call>>

\* Mutant: close does not look at busy.
CloseWhenOpen(f) ==
  /\ state[f] = "open" /\ generation[f] < MaxGeneration[f]
  /\ CloseFile(f) /\ state' = [state EXCEPT ![f] = "closed"] /\ Bump(f)
  /\ UNCHANGED <<busy, view, call>>

\* VDBFile.close, by any thread that holds the GIL: another one, or the code an
\* argument conversion runs.
Close(f) ==
  /\ state[f] = "open" /\ ~busy[f] /\ generation[f] < MaxGeneration[f]
  /\ CloseFile(f) /\ state' = [state EXCEPT ![f] = "closed"] /\ Bump(f)
  /\ UNCHANGED <<busy, view, call>>

\* VDBFile_dealloc, when no view and no call holds a reference any more.
Dealloc(f) ==
  /\ state[f] # "none"
  /\ \A v \in View : view[v].file # f
  /\ \A t \in Thread : ~ Refers(t, f)
  /\ CloseFile(f)
  /\ state' = [state EXCEPT ![f] = "none"] /\ generation' = [generation EXCEPT ![f] = 0]
  /\ UNCHANGED <<busy, view, call>>

(***************************************************************************)
(* Calls that work without the GIL.  "work" stands for materialize, morph, *)
(* to_sparse, update_from_sparse and, with two views, csg; "maintain" for  *)
(* the tree operations that return an owner of their own.  "node" is       *)
(* VDBTree.node with an index whose conversion runs Python code: it keeps  *)
(* the GIL otherwise and marks no file busy.                               *)
(***************************************************************************)

FileCall(o, f, i) == [Idle EXCEPT !.op = o, !.files = {f}, !.grid = i]
ViewCall(o, vs)   == [Idle EXCEPT !.op = o, !.views = vs,
                                  !.files = {view[vs[k]].file : k \in DOMAIN vs}]
NodeCall(w)       == [Idle EXCEPT !.op = "node", !.views = <<w>>]

\* What the call checks before it converts its arguments, and after it.
Admitted(c) ==
  CASE c.op = "open" -> \A f \in c.files : state[f] # "open" /\ ~busy[f]
    [] c.op \in {"read", "replace", "save"} -> \A f \in c.files : Available(f)
    [] OTHER -> Valid(c.views[1])
Confirmed(c) ==
  CASE c.op = "replace" -> \A f \in c.files : c.grid <= count[f]
    [] c.op = "maintain" -> Valid(c.views[1])
    [] c.op = "work" -> \A k \in DOMAIN c.views : k > 1 => Valid(c.views[k])
    [] OTHER -> TRUE

\* Mutant: a reload leaves the generation alone.
EnterNoBump(t, c) ==
  /\ busy' = [f \in File |-> busy[f] \/ f \in c.files] /\ UNCHANGED generation
  /\ call' = [call EXCEPT ![t] = [c EXCEPT !.pc = "run",
       !.before = IF c.op \in {"read", "replace"} THEN tree[CHOOSE f \in c.files : TRUE] ELSE NoTrees]]

\* busy = 1, and the GIL is released.  read_grids has invalidated all views by
\* then.
Enter(t, c) ==
  /\ busy' = [f \in File |-> busy[f] \/ f \in c.files]
  /\ generation' = [f \in File |-> IF c.op = "read" /\ f \in c.files THEN generation[f] + 1
                                   ELSE generation[f]]
  /\ call' = [call EXCEPT ![t] = [c EXCEPT !.pc = "run",
       !.before = IF c.op \in {"read", "replace"} THEN tree[CHOOSE f \in c.files : TRUE] ELSE NoTrees]]

\* The constructor VDBFile(path) makes the object that it opens; __init__ may also
\* open an owner again that was closed (not one that was made from bytes).
Begin(t, c) ==
  /\ call[t] = Idle /\ Admitted(c)
  /\ c.op \in {"read", "replace"} => \A f \in c.files : generation[f] < MaxGeneration[f]
  /\ IF c.op \in Yielding
     THEN call' = [call EXCEPT ![t] = [c EXCEPT !.pc = "convert"]]
          /\ UNCHANGED <<busy, generation>>
     ELSE Confirmed(c) /\ Enter(t, c)
  /\ state' = [f \in File |-> IF f \in c.files /\ state[f] = "none" THEN "closed" ELSE state[f]]
  /\ UNCHANGED <<fileVars, view>>

\* The arguments are converted: the call goes on, or returns with an error.
Resume(t) ==
  /\ call[t].pc = "convert"
  /\ \/ Confirmed(call[t]) /\ Enter(t, call[t]) /\ UNCHANGED state
     \/ call' = [call EXCEPT ![t] = Idle] /\ UNCHANGED ownerVars
  /\ UNCHANGED <<fileVars, view>>

Goto(t, l)  == call' = [call EXCEPT ![t].pc = l]
Fail(t, l)  == call' = [call EXCEPT ![t].pc = l, ![t].failed = TRUE]
At(t, o, l) == call[t].op = o /\ call[t].pc = l

\* VDBTree.node after the conversion: it does not look at the view again.  What
\* it finds in an array that is no longer there is arbitrary.
TakeNode(t) ==
  LET w == call[t].views[1] IN
  /\ At(t, "node", "run") /\ call' = [call EXCEPT ![t] = Idle]
  /\ \/ UNCHANGED view
     \/ \E v \in View, b \in Block :
          /\ view[v] = NoView
          /\ view[w].ptr = array[view[w].file] => b = tree[view[w].file][view[w].grid]
          /\ view' = [view EXCEPT ![v] = NodeOf(w, b)]
  /\ UNCHANGED <<fileVars, ownerVars>>

\* tvdb_file_open: the data, then the header and the descriptors.
Parse(t) ==
  /\ \/ At(t, "open", "run") /\ (\E b \in Block : ParseArray(Target(t), b)) /\ Goto(t, "parse")
     \/ At(t, "open", "run") /\ Fail(t, "leave") /\ UNCHANGED fileVars
     \/ At(t, "open", "parse") /\ Goto(t, "leave") /\ UNCHANGED fileVars
     \/ At(t, "open", "parse") /\ CloseFile(Target(t)) /\ Fail(t, "leave")
  /\ UNCHANGED <<ownerVars, view>>

\* A replacement or a maintenance result is built in memory of its own.
Build(t) ==
  /\ call[t].op \in {"replace", "maintain"} /\ call[t].pc = "run"
  /\ \/ \E b \in Block :
          /\ Alloc(IF call[t].op = "replace" THEN <<Target(t), call[t].grid>> ELSE t, b)
          /\ UNCHANGED <<array, count, tree, offsets>>
          /\ call' = [call EXCEPT ![t].pc = "built", ![t].fresh = b]
     \/ Fail(t, "leave") /\ UNCHANGED fileVars
  /\ UNCHANGED <<ownerVars, view>>

Built(t) ==
  /\ call[t].op \in {"replace", "maintain"} /\ call[t].pc = "built"
  /\ \/ /\ call[t].op = "replace" /\ Install(Target(t), call[t].grid, call[t].fresh, FALSE)
        /\ call' = [call EXCEPT ![t].pc = "leave", ![t].fresh = None]
     \/ call[t].op = "maintain" /\ Goto(t, "leave") /\ UNCHANGED fileVars
     \/ /\ Discard(call[t].fresh)
        /\ call' = [call EXCEPT ![t].pc = "leave", ![t].fresh = None, ![t].failed = TRUE]
  /\ UNCHANGED <<ownerVars, view>>

\* tvdb__load_grid reads into independent storage ...
Load(t) ==
  /\ At(t, "read", "run") /\ call[t].grid <= count[Target(t)]
  /\ \/ /\ offsets[Target(t)][call[t].grid]
        /\ \E b \in Block : /\ Alloc(<<Target(t), call[t].grid>>, b)
                            /\ UNCHANGED <<array, count, tree, offsets>>
                            /\ call' = [call EXCEPT ![t].pc = "load", ![t].fresh = b]
     \/ /\ call' = [call EXCEPT ![t].grid = @ + 1, ![t].failed = TRUE]
        /\ UNCHANGED fileVars
  /\ UNCHANGED <<ownerVars, view>>

\* Mutant: the current grid is destroyed before the outcome is known.
LoadedOverCurrent(t) ==
  /\ At(t, "read", "load")
  /\ \/ /\ Install(Target(t), call[t].grid, call[t].fresh, TRUE)
        /\ call' = [call EXCEPT ![t].pc = "run", ![t].fresh = None, ![t].grid = @ + 1]
     \/ /\ heap' = heap \ {call[t].fresh, tree[Target(t)][call[t].grid]}
        /\ tree' = [tree EXCEPT ![Target(t)][call[t].grid] = None] /\ UNCHANGED <<array, count, offsets>>
        /\ call' = [call EXCEPT ![t].pc = "run", ![t].fresh = None, ![t].grid = @ + 1,
                                ![t].failed = TRUE]
  /\ UNCHANGED <<ownerVars, view>>

\* ... and tvdb_read_all_grids goes on after a grid that failed.
Loaded(t) ==
  /\ At(t, "read", "load")
  /\ \/ /\ Install(Target(t), call[t].grid, call[t].fresh, TRUE)
        /\ call' = [call EXCEPT ![t].pc = "run", ![t].fresh = None, ![t].grid = @ + 1]
     \/ /\ Discard(call[t].fresh)
        /\ call' = [call EXCEPT ![t].pc = "run", ![t].fresh = None, ![t].grid = @ + 1,
                                ![t].failed = TRUE]
  /\ UNCHANGED <<ownerVars, view>>

ReadAll(t) ==
  /\ At(t, "read", "run") /\ call[t].grid > count[Target(t)] /\ Goto(t, "leave")
  /\ UNCHANGED <<fileVars, ownerVars, view>>

\* The work is done and the GIL held again: busy = 0, the outcome is visible.
\* Work that only reads a grid or writes values into it has no step of its own.
Leave(t) ==
  LET c == call[t]  ok == ~ call[t].failed IN
  /\ \/ c.pc = "leave" /\ c.op # "maintain" /\ ~ (c.op = "replace" /\ "release" \in Yielding)
     \/ c.pc = "run" /\ c.op \in {"work", "save"}
  /\ call' = [call EXCEPT ![t] = Idle]
  /\ busy' = [f \in File |-> busy[f] /\ f \notin c.files]
  /\ state' = [f \in File |-> IF c.op = "open" /\ f \in c.files /\ ok THEN "open" ELSE state[f]]
  /\ generation' = [f \in File |-> IF c.op = "replace" /\ f \in c.files /\ ok
                                   THEN generation[f] + 1 ELSE generation[f]]
  /\ UNCHANGED <<fileVars, view>>

\* replace and extend with buffers whose release runs Python code: busy = 0, the
\* release, and only then the new generation.
Release(t) ==
  /\ "release" \in Yielding /\ At(t, "replace", "leave") /\ Goto(t, "released")
  /\ busy' = [f \in File |-> busy[f] /\ f \notin call[t].files]
  /\ UNCHANGED <<fileVars, state, generation, view>>
CountUp(t) ==
  /\ call[t].pc = "released" /\ call' = [call EXCEPT ![t] = Idle]
  /\ IF call[t].failed THEN UNCHANGED generation ELSE Bump(Target(t))
  /\ UNCHANGED <<fileVars, state, busy, view>>

\* A maintenance call wraps its result into an owner, or destroys it.
LeaveMaintenance(t) ==
  /\ At(t, "maintain", "leave") /\ call' = [call EXCEPT ![t] = Idle]
  /\ busy' = [f \in File |-> busy[f] /\ f \notin call[t].files]
  /\ \/ \E f \in File, b \in Block :
          /\ ~ call[t].failed /\ state[f] = "none"
          /\ Adopt(f, call[t].fresh, b) /\ state' = [state EXCEPT ![f] = "open"]
          /\ generation' = [generation EXCEPT ![f] = 1]
     \/ Discard(call[t].fresh) /\ UNCHANGED <<state, generation>>
  /\ UNCHANGED view

Calls ==
  {FileCall("open", f, 0) : f \in Disk} \cup {FileCall("save", f, 0) : f \in File}
  \cup {FileCall("read", f, 1) : f \in File}
  \cup {FileCall("replace", f, i) : f \in File, i \in Grid}
  \cup {ViewCall(o, <<v>>) : o \in {"work", "maintain"}, v \in {u \in View : view[u].kind = "grid"}}
  \cup {ViewCall("work", <<v, w>>) : v, w \in {u \in View : view[u].kind = "grid"}}
  \cup {NodeCall(v) : v \in {u \in View : view[u].kind = "grid" /\ "node" \in Yielding}}

Next ==
  \/ \E f \in File : Close(f) \/ Dealloc(f)
  \/ \E v \in View, f \in File, i \in Grid : GetGrid(v, f, i)
  \/ \E v, w \in View : GetNode(v, w)
  \/ \E v \in View : Drop(v)
  \/ \E t \in Thread : (\E c \in Calls : Begin(t, c)) \/ Resume(t)
  \/ \E t \in Thread : TakeNode(t) \/ Parse(t) \/ Build(t) \/ Built(t)
  \/ \E t \in Thread : Load(t) \/ Loaded(t) \/ ReadAll(t)
  \/ \E t \in Thread : Leave(t) \/ Release(t) \/ CountUp(t) \/ LeaveMaintenance(t)

Spec == Init /\ [][Next]_vars

CallType == [op : {"none", "open", "read", "replace", "save", "work", "maintain", "node"},
             pc : {"idle", "convert", "run", "parse", "built", "load", "leave", "released"},
             files : SUBSET File, views : Seq(View), grid : 0..(NumGrids + 1),
             fresh : Block \cup {None}, before : [Grid -> Block \cup {None}], failed : BOOLEAN]

\* The variables have the types of the C structures they stand for.
TypeOK ==
  /\ heap \subseteq Block /\ array \in [File -> Block \cup {None}]
  /\ count \in [File -> 0..NumGrids] /\ tree \in [File -> [Grid -> Block \cup {None}]]
  /\ offsets \in [File -> [Grid -> BOOLEAN]]
  /\ state \in [File -> {"none", "closed", "open"}] /\ busy \in [File -> BOOLEAN]
  /\ generation \in [File -> Nat]
  /\ view \in [View -> [file : File \cup {None}, kind : {"none", "grid", "node"},
                        grid : 0..NumGrids, ptr : Block \cup {None}, gen : Nat]]
  /\ call \in [Thread -> CallType]

\* The release of the buffers of a replacement runs Python code: the file is not
\* busy any more, and its new generation is yet to come.
Releasing(f) == \E t \in Thread : call[t].pc = "released" /\ Refers(t, f)

\* A view that passes view_valid points at what its file has now: after any
\* history of closes, reloads (failed ones too) and replacements, and although
\* the allocator may hand out a freed address again.  Excepted are nodes, while
\* a release runs Python code: _tinyvdb.c:2148-2151 lets those of the replaced
\* tree through, whatever README.md:482 says.
ViewsNeverDangle ==
  \A v \in View : Valid(v) /\ ~ (view[v].kind = "node" /\ Releasing(view[v].file)) =>
    LET f == view[v].file IN
      /\ view[v].ptr \in heap
      /\ view[v].ptr = IF view[v].kind = "grid" THEN array[f] ELSE tree[f][view[v].grid]

\* Heavy work without the GIL has its owners to itself: they stay busy and
\* nobody else works on them, and what the work holds is not freed under it (the
\* comment at _tinyvdb.c:784).  node is no such work: it keeps the GIL, does not
\* look at its view again after the conversion, and may read a freed tree.
WorkUndisturbed ==
  \A t \in Thread : Running(t) /\ call[t].op # "node" =>
    /\ \A f \in call[t].files : busy[f] /\ (call[t].op # "open" => state[f] = "open")
    /\ \A k \in DOMAIN call[t].views :
         LET w == view[call[t].views[k]] IN w.ptr \in heap /\ w.ptr = array[w.file]
    /\ \A u \in Thread \ {t} : Running(u) => call[u].files \cap call[t].files = {}

\* Every allocation has one owner that will free it: a file, or the call that
\* is loading or building; a failure at any step leaves nothing behind.
NothingLeaked ==
  LET held(t) == {call[t].fresh} \ {None}
  IN  /\ heap = (UNION {Owned(f) : f \in File}) \cup (UNION {held(t) : t \in Thread})
      /\ \A f, g \in File : f # g => Owned(f) \cap Owned(g) = {}
      /\ \A f \in File : state[f] = "none" => Owned(f) = {}

\* A failed replacement leaves every grid of the file as it was; a reload that
\* fails for some grids leaves those their payload, and a reload that reports
\* success has loaded every grid.
FailureKeepsGrids ==
  \A t \in Thread : call[t].pc = "leave" =>
    LET c == call[t]  now == tree[Target(t)] IN
      /\ c.op = "replace" /\ c.failed => now = c.before
      /\ c.op = "read" => \A i \in Grid : c.before[i] # None => now[i] # None
      /\ c.op = "read" /\ ~c.failed => \A i \in 1..count[Target(t)] : now[i] # None

\* Once a file holds the payload of a grid, every node that payload may consist
\* of can be written and read again: RoundTrip of MaskCodec, which needs no state.
NodesRoundTrip == (\E f \in File, i \in Grid : tree[f][i] # None) => RoundTrip
=============================================================================
