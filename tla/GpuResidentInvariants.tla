----------------------- MODULE GpuResidentInvariants ------------------------
(***************************************************************************)
(* The inductive invariant of GpuResident.  An operation is the list of    *)
(* the steps it has left, so what is true in the middle of one is said of  *)
(* the list: an outline is what its local pointers own and what is in the  *)
(* buffers behind them, Allowed and After are what a step needs of it and  *)
(* makes of it, and the state always meets an outline from which every     *)
(* step that is left is allowed.                                           *)
(***************************************************************************)
EXTENDS GpuResident

Cell == Buffer \cup Topology
Slot == Handle \cup Local

GridType == [topology : Topology \cup {None}, values : Buffer \cup {None}]
OwnType   == [Slot -> GridType]
DenseType == [Dense -> [0..2 -> Buffer \cup {None}]]
DataType  == [Cell -> {"free", "blank", "listed", "whole", "torn"}]
Numbered  == {"scratch", "pass", "compose", "exchange"}
Named     == {"buffer", "topology", "share", "send", "list", "mark", "fill", "index", "commit",
              "publish", "clean", "swap"}
StepType  == (Numbered \X Int) \cup (Named \X (Local \cup {"out", "step"}))

JobType ==
  [in : SUBSET (Handle \cup Dense \cup Local), out : Handle \cup Dense \cup {None},
   todo : Seq(StepType), ok : BOOLEAN, sure : BOOLEAN,
   before : {<<>>} \cup (OwnType \X DenseType \X DataType)]

TypeOK ==
  /\ data \in DataType /\ refs \in [Topology -> Nat] /\ own \in OwnType
  /\ dense \in DenseType /\ known \subseteq Handle \cup Dense /\ job \in JobType

---------------------------------------------------------------------------
(* Who owns what *)

\* A buffer has one owner, a grid or a place of a dense grid, exactly if it is allocated.
BuffersExact ==
  /\ \A s, u \in Slot : own[s].values = own[u].values /\ own[s].values # None => s = u
  /\ \A d, e \in Dense, k, l \in 0..2 :
       dense[d][k] = dense[e][l] /\ dense[d][k] # None => d = e /\ k = l
  /\ \A s \in Slot, d \in Dense, k \in 0..2 :
       own[s].values = dense[d][k] => own[s].values = None
  /\ \A b \in Buffer : data[b] # "free" <=> \/ \E s \in Slot : own[s].values = b
                                           \/ \E d \in Dense, k \in 0..2 : dense[d][k] = b

\* refs counts the owners of a topology.
TopologiesExact ==
  \A t \in Topology : /\ refs[t] = Cardinality(Owners(t, Slot))
                      /\ data[t] = "free" <=> refs[t] = 0

\* Scratch buffers are made for a grid, and go with it.
DenseShaped == \A d \in Dense : ~Filled(d) => dense[d] = NoGrid

---------------------------------------------------------------------------
(* What the steps of an operation need and make *)

\* The local pointers with a topology, with values; of these the topologies nobody shares,
\* those with coordinates only, those that are whole; the values that are whole; the scratch
\* buffers that exist, and are whole; what the inputs are ("self": the output alone), and the
\* output; and whether the output has been replaced.
Outline ==
  [tops : SUBSET Local, vals : SUBSET Local, fresh : SUBSET Local, listed : SUBSET Local,
   indexed : SUBSET Local, filled : SUBSET Local, scratch : SUBSET (1..2), passed : SUBSET (1..2),
   in : {"sparse", "dense", "source", "tmp", "self"}, out : {"slot", "held", "dense"}, done : BOOLEAN]

Readable(e)    == IF e.in \in {"sparse", "dense"} THEN ~e.done ELSE e.in \in e.indexed \cap e.filled
WholeIn(e, S)  == S \cap e.tops \subseteq e.indexed /\ S \cap e.vals \subseteq e.filled
Writable(e, S) == S \cap e.tops \subseteq e.fresh
LastPass(p)    == 1 + ((p - 1) % 2)

\* What a step x of each kind needs.
Allowed(op, e) ==
  LET x == op[2]
  IN \/ op = <<"clean", "step">>
     \/ /\ ~e.done
        /\ \/ op[1] = "buffer" /\ x \in Local \ e.vals
           \/ op[1] = "topology" /\ x \in Local \ e.tops
           \/ op[1] = "share" /\ x \in Local \ e.tops /\ e.in # "dense" /\ Readable(e)
           \/ op[1] = "send" /\ x \in {"weights", "next", "g"} /\ Writable(e, {x})
           \/ op = <<"list", "source">> /\ Writable(e, {"source", "marks"})
           \/ /\ op = <<"list", "cand">> /\ Writable(e, {"cand", "flags"})
              /\ Readable(e) /\ WholeIn(e, {"weights"})
           \/ op = <<"list", "g">> /\ Writable(e, {"g"}) /\ Readable(e) /\ WholeIn(e, {"cand", "flags"})
           \/ /\ op = <<"mark", "flags">> /\ Writable(e, {"flags"})
              /\ Readable(e) /\ WholeIn(e, {"cand", "weights"})
           \/ op = <<"fill", "g">> /\ Readable(e) /\ WholeIn(e, {"weights"}) /\ "g" \in e.indexed \cap e.vals
           \/ op[1] = "index" /\ x \in e.listed
           \/ op = <<"commit", "tmp">> /\ "g" \in e.indexed \cap e.filled
           \/ op = <<"commit", "out">> /\ "g" \in e.indexed \cap e.filled /\ e.out \in {"slot", "held"}
           \/ op = <<"publish", "out">> /\ "tmp" \in e.indexed \cap e.filled /\ e.out \in {"slot", "held"}
           \/ op = <<"swap", "next">> /\ "next" \in e.filled \ e.tops /\ e.in = "self" /\ e.out = "held"
           \/ op[1] = "scratch" /\ x \in 1..2 /\ e.out = "dense"
           \/ /\ op[1] = "pass" /\ x \in Nat /\ e.out = "dense" /\ WholeIn(e, {"weights"})
              /\ 1 + (x % 2) \in e.scratch /\ (IF x = 0 THEN e.in = "self" ELSE LastPass(x) \in e.passed)
           \/ op = <<"compose", 1>> /\ e.out = "dense" /\ 1 \in e.scratch /\ Readable(e)
           \/ op[1] = "exchange" /\ x \in e.passed /\ e.out = "dense"

\* S has been written, is no longer.
Written(e, S) == [e EXCEPT !.listed = @ \cup (S \cap e.tops), !.filled = @ \cup (S \cap e.vals)]
Without(e, S) ==
  [e EXCEPT !.tops = @ \ S, !.vals = @ \ S, !.fresh = @ \ S, !.listed = @ \ S, !.indexed = @ \ S,
            !.filled = @ \ S]

\* What it makes.
After(op, e) ==
  LET x == op[2]
  IN CASE op[1] = "buffer"   -> [e EXCEPT !.vals = @ \cup {x}]
       [] op[1] = "topology" -> [e EXCEPT !.tops = @ \cup {x}, !.fresh = @ \cup {x}]
       [] op[1] = "share"    -> [e EXCEPT !.tops = @ \cup {x}, !.indexed = @ \cup {x}]
       [] op[1] = "send"     -> Written(e, {x})
       [] op[1] = "list"     -> Written(e, IF x = "source" THEN {"source", "marks"}
                                           ELSE IF x = "cand" THEN {"cand", "flags"} ELSE {"g"})
       [] op[1] = "mark"     -> Written(e, {"flags"})
       [] op[1] = "fill"     -> [e EXCEPT !.filled = @ \cup {"g"}]
       [] op[1] = "index"    -> [e EXCEPT !.fresh = @ \ {x}, !.listed = @ \ {x}, !.indexed = @ \cup {x}]
       [] op = <<"commit", "tmp">> ->
            LET r == Without(e, {"g", "tmp"})
            IN [r EXCEPT !.tops = @ \cup {"tmp"}, !.vals = @ \cup {"tmp"}, !.indexed = @ \cup {"tmp"},
                         !.filled = @ \cup {"tmp"}, !.in = "tmp"]
       [] op = <<"commit", "out">> -> [Without(e, {"g"}) EXCEPT !.done = TRUE]
       [] op[1] = "publish"        -> [Without(e, {"tmp"}) EXCEPT !.done = TRUE]
       [] op[1] = "swap"     -> [Without(e, {"next"}) EXCEPT !.done = TRUE]
       [] op[1] = "clean"    -> Without(e, {"cand", "flags"})
       [] op[1] = "scratch"  -> [e EXCEPT !.scratch = @ \cup {x}]
       [] op[1] = "pass"     -> [e EXCEPT !.passed = @ \cup {1 + (x % 2)}]
       [] op[1] = "compose"  -> [e EXCEPT !.passed = @ \cup {1}]
       [] OTHER              -> [e EXCEPT !.done = TRUE]

\* Every step of p is allowed when it comes, from the outline e on.
Goes(p, e) ==
  \E es \in [0..Len(p) -> Outline] :
    es[0] = e /\ \A i \in 1..Len(p) : Allowed(p[i], es[i - 1]) /\ es[i] = After(p[i], es[i - 1])

---------------------------------------------------------------------------
(* What the state has to do with the outline *)

\* What is in a cell, if the inputs were known.
Has(c, what) == job.sure => data[c] = what

LocalsMeet(e) ==
  /\ \A s \in Local : /\ s \in e.tops <=> own[s].topology # None
                      /\ s \in e.vals <=> own[s].values # None
  /\ \A s \in e.fresh : s \in e.tops /\ refs[own[s].topology] = 1
  /\ \A s \in e.listed : s \in e.fresh /\ Has(own[s].topology, "listed")
  /\ \A s \in e.indexed : s \in e.tops /\ s \notin e.fresh /\ Has(own[s].topology, "whole")
  /\ \A s \in e.filled : s \in e.vals /\ Has(own[s].values, "whole")

InputsMeet(e) ==
  /\ e.in = "sparse" /\ ~e.done => job.in # {} /\ \A i \in job.in : i \in Handle /\ Held(i)
  /\ e.in = "dense" /\ ~e.done => \A i \in job.in : \/ i \in Handle /\ Held(i)
                                                    \/ i \in Dense /\ Filled(i)
  /\ e.in \in {"source", "tmp"} => job.in = {e.in}
  /\ e.in = "self" => job.in = {job.out}
  /\ job.sure /\ ~e.done => job.in \ Local \subseteq known

OutputMeets(e) ==
  /\ e.out \in {"slot", "held"} <=> job.out \in Handle
  /\ e.out = "held" /\ ~e.done => Held(job.out)
  /\ e.out = "dense" /\ ~e.done => Filled(job.out)
  /\ e.scratch # {} => e.out = "dense"
  /\ \A k \in e.scratch : ~e.done => dense[job.out][k] # None
  /\ \A k \in e.passed : k \in e.scratch /\ (~e.done => Has(dense[job.out][k], "whole"))

Meets(e) == /\ LocalsMeet(e) /\ InputsMeet(e) /\ OutputMeets(e)
            /\ job.ok /\ (~e.done => AsBefore(job.out))

JobKnown ==
  /\ job.out = None => job = Idle /\ \A s \in Local : own[s] = Empty
  /\ job # Idle => /\ job.out \in Handle \cup Dense /\ job.before # <<>>
                   /\ \A x \in Handle \cup Dense : x # job.out \/ ~job.ok => AsBefore(x)
                   /\ job.todo # <<>> => \E e \in Outline : Meets(e) /\ Goes(job.todo, e)

IInv == TypeOK /\ BuffersExact /\ TopologiesExact /\ DenseShaped /\ GridsWhole /\ JobKnown
=============================================================================
