------------------------- MODULE PyOwnerInvariants --------------------------
(***************************************************************************)
(* The inductive invariant behind the properties of PyOwner, for the       *)
(* applications in which the calls that convert arguments that run Python  *)
(* code check their view again or only read a node; releases of buffers    *)
(* may run it too (Yielding \subseteq {"maintain", "node", "release"}).    *)
(***************************************************************************)
EXTENDS PyOwner

\* What a call knows of itself, by its place.
Shape(c) ==
  /\ c.pc = "idle" => c = Idle
  /\ c.pc # "idle" => c.op # "none"
  /\ c.views # <<>> => c.op \in {"work", "maintain", "node"}
  /\ c.op \in {"maintain", "node"} => DOMAIN c.views = {1}
  /\ c.op \notin {"none", "work", "node"} => \E f \in File : c.files = {f}
  /\ c.op = "node" => c.files = {} /\ "node" \in Yielding
  /\ c.pc = "convert" => c.op \in {"maintain", "node"}
  /\ c.pc = "released" => c.op = "replace" /\ "release" \in Yielding
  /\ c.pc = "parse" => c.op = "open"
  /\ c.pc = "load" => c.op = "read" /\ c.grid \in Grid
  /\ c.pc = "built" => c.op \in {"replace", "maintain"}
  /\ c.op = "replace" => c.grid \in Grid
  /\ c.op = "read" => c.grid # 0
  /\ c.failed => c.op = "read" \/ c.pc \in {"leave", "released"}
  /\ c.fresh # None <=> \/ c.pc \in {"load", "built"}
                        \/ c.op = "maintain" /\ c.pc = "leave" /\ ~c.failed

CallsShaped == \A t \in Thread : Shape(call[t])

\* The views a call works on stay what they were when it began.
ViewsHeld ==
  \A t \in Thread : \A k \in DOMAIN call[t].views :
    LET w == view[call[t].views[k]] IN
      w.kind = "grid" /\ (call[t].op # "node" => w.file \in call[t].files)

\* No block has two holders ...
BlocksApart ==
  /\ \A f, g \in File : array[f] # None /\ array[f] = array[g] => f = g
  /\ \A f, g \in File, i \in Grid : tree[g][i] # None => tree[g][i] # array[f]
  /\ \A f, g \in File, i, j \in Grid :
       tree[f][i] # None /\ tree[f][i] = tree[g][j] => f = g /\ i = j
  /\ \A t \in Thread, f \in File : call[t].fresh # None => call[t].fresh # array[f]
  /\ \A t \in Thread, f \in File, i \in Grid : call[t].fresh # None => call[t].fresh # tree[f][i]
  /\ \A t, u \in Thread : call[t].fresh # None /\ call[t].fresh = call[u].fresh => t = u

\* ... and the allocated ones have one.
HeapExact ==
  /\ \A f \in File : array[f] # None => array[f] \in heap
  /\ \A f \in File, i \in Grid : tree[f][i] # None => tree[f][i] \in heap
  /\ \A t \in Thread : call[t].fresh # None => call[t].fresh \in heap
  /\ \A b \in heap : \/ \E f \in File : array[f] = b
                     \/ \E f \in File, i \in Grid : tree[f][i] = b
                     \/ \E t \in Thread : call[t].fresh = b

\* A file that is not open has nothing, unless a call is opening it.
Opening(t, f) == /\ call[t].op = "open" /\ f \in call[t].files
                 /\ call[t].pc = "parse" \/ (call[t].pc = "leave" /\ ~call[t].failed)
FilesKnown ==
  \A f \in File :
    /\ array[f] # None <=> (state[f] = "open" \/ \E t \in Thread : Opening(t, f))
    /\ state[f] # "open" => \A i \in Grid : tree[f][i] = None

\* busy is set exactly while one call, and only one, works on the file.
BusyExact ==
  /\ \A f \in File : busy[f] => \E t \in Thread : Running(t) /\ f \in call[t].files
  /\ \A t \in Thread : Running(t) => \A f \in call[t].files :
       /\ busy[f]
       /\ state[f] = IF call[t].op = "open" THEN "closed" ELSE "open"
       /\ \A u \in Thread : Running(u) /\ f \in call[u].files => u = t
  /\ \A t \in Thread, f \in File : f \in call[t].files => state[f] # "none"

\* A view of the current generation points at what the file has, unless it is a
\* node and a replacement is done that has yet to count up the generation.
Current(v)  == view[v].file # None /\ view[v].gen = generation[view[v].file]
Replaced(f) == \E t \in Thread : /\ call[t].op = "replace" /\ f \in call[t].files
                                 /\ call[t].pc \in {"leave", "released"} /\ ~call[t].failed
Good(v) == view[v].ptr = IF view[v].kind = "grid" THEN array[view[v].file]
                         ELSE tree[view[v].file][view[v].grid]
Known(v) ==
  /\ view[v].file = None => view[v].kind = "none"
  /\ view[v].file # None =>
       /\ state[view[v].file] # "none" /\ view[v].gen <= generation[view[v].file]
       /\ view[v].ptr # None /\ view[v].grid \in Grid /\ view[v].kind # "none"
  /\ Current(v) => /\ state[view[v].file] = "open"
                   /\ Good(v) \/ (view[v].kind = "node" /\ Replaced(view[v].file))
ViewsKnown == \A v \in View : Known(v)

\* A reload has left no view current; other work has its views' grids.
Bound(t) ==
  /\ call[t].op = "read" => \A v \in View : view[v].file \in call[t].files => ~Current(v)
  /\ call[t].op # "node" => \A k \in DOMAIN call[t].views :
       LET w == view[call[t].views[k]] IN w.ptr = array[w.file]
WorkKnown == \A t \in Thread : Running(t) => Bound(t)

\* What a reload or a replacement has done to the grids so far.
Kept(t) ==
  \A f \in call[t].files : LET c == call[t] IN
    /\ c.op = "replace" /\ (c.pc # "leave" \/ c.failed) => tree[f] = c.before
    /\ c.op = "read" =>
         /\ \A i \in Grid : c.before[i] # None => tree[f][i] # None
         /\ c.failed \/ \A i \in Grid : i < c.grid => tree[f][i] # None
         /\ c.pc = "leave" => c.grid > count[f]
GridsKept == \A t \in Thread : Running(t) => Kept(t)

\* All of it: between any two steps of any calls, every block has one holder, a
\* busy file has one worker, and a view of the current generation is good.
OwnerInv ==
  /\ TypeOK /\ CallsShaped /\ ViewsHeld /\ BlocksApart /\ HeapExact /\ FilesKnown
  /\ BusyExact /\ ViewsKnown /\ WorkKnown /\ GridsKept
=============================================================================
