---------------------------- MODULE PyOwnerProofs -----------------------------
(***************************************************************************)
(* The owner of a file, its views and its calls, proved for any number of  *)
(* threads, views, files, grids and addresses.                             *)
(***************************************************************************)
EXTENDS PyOwnerInvariants, MaskCodecProofs

USE FileAssumption, OwnerAssumption DEF fileVars, ownerVars, vars, OwnerInv, Grid

-----------------------------------------------------------------------------
(* Blocks, calls and the types of the variables.                           *)

LEMMA BlockKnown == \A p \in Purpose : Addresses(p) \subseteq Block
  BY DEF Block

\* The one file of a call that has one.
LEMMA TargetIs ==
  ASSUME NEW t \in Thread, NEW f \in File, call[t].files = {f}
  PROVE  Target(t) = f
  BY DEF Target

LEMMA IdleKnown ==
  /\ Idle \in CallType /\ Idle.op = "none" /\ Idle.pc = "idle" /\ Idle.files = {}
  /\ Idle.views = <<>> /\ Idle.fresh = None /\ ~Idle.failed /\ Idle.grid = 0
<1>1. <<>> \in Seq(View) /\ NoTrees \in [Grid -> Block \cup {None}]
  BY DEF NoTrees
<1> QED BY <1>1 DEF Idle, CallType

\* A call on a file, before it begins.
LEMMA FileCallKnown ==
  ASSUME NEW o \in {"open", "save", "read", "replace"}, NEW f \in File,
         NEW i \in 0..(NumGrids + 1), NEW c, c = FileCall(o, f, i)
  PROVE  /\ c \in CallType /\ c.op = o /\ c.pc = "idle" /\ c.files = {f} /\ c.views = <<>>
         /\ c.grid = i /\ c.fresh = None /\ ~c.failed
  BY IdleKnown DEF FileCall, CallType

\* A call on views of grids, before it begins.
LEMMA ViewCallKnown ==
  ASSUME TypeOK, ViewsKnown, NEW o \in {"work", "maintain"}, NEW vs \in Seq(View),
         \A k \in DOMAIN vs : view[vs[k]].kind = "grid", NEW c, c = ViewCall(o, vs)
  PROVE  /\ c \in CallType /\ c.op = o /\ c.pc = "idle" /\ c.views = vs
         /\ c.files = {view[vs[k]].file : k \in DOMAIN vs}
         /\ c.fresh = None /\ ~c.failed
<1> DEFINE files == {view[vs[k]].file : k \in DOMAIN vs}
<1>1. \A k \in DOMAIN vs : vs[k] \in View
  OBVIOUS
<1>2. files \subseteq File
  BY <1>1 DEF TypeOK, ViewsKnown, Known
<1>3. c = [Idle EXCEPT !.op = o, !.views = vs, !.files = files]
  BY DEF ViewCall
<1> HIDE DEF files
<1>4. c \in CallType
  <2>1. ASSUME NEW idle \in CallType, NEW fs \in SUBSET File
        PROVE  [idle EXCEPT !.op = o, !.views = vs, !.files = fs] \in CallType
    BY DEF CallType
  <2>2. Idle \in CallType /\ files \in SUBSET File
    BY <1>2, IdleKnown
  <2>3. [Idle EXCEPT !.op = o, !.views = vs, !.files = files] \in CallType
    BY <2>1, <2>2, Zenon
  <2> QED BY <1>3, <2>3
<1>5. c.files = files /\ c.op = o /\ c.views = vs
  BY <1>3, IdleKnown DEF CallType
<1>6. c.pc = "idle" /\ c.fresh = None /\ ~c.failed
  BY <1>3, IdleKnown DEF CallType
<1> QED BY <1>4, <1>5, <1>6 DEF files

\* A call on a node, before it begins.
LEMMA NodeCallKnown ==
  ASSUME NEW v \in View, NEW c, c = NodeCall(v)
  PROVE  /\ c \in CallType /\ c.op = "node" /\ c.pc = "idle" /\ c.files = {} /\ c.views = <<v>>
         /\ c.fresh = None /\ ~c.failed
<1>1. <<v>> \in Seq(View)
  OBVIOUS
<1>2. c = [Idle EXCEPT !.op = "node", !.views = <<v>>]
  BY DEF NodeCall
<1>3. c \in CallType
  <2>1. ASSUME NEW idle \in CallType, NEW vs \in Seq(View)
        PROVE  [idle EXCEPT !.op = "node", !.views = vs] \in CallType
    BY DEF CallType
  <2>2. [Idle EXCEPT !.op = "node", !.views = <<v>>] \in CallType
    BY <1>1, <2>1, IdleKnown, Zenon
  <2> QED BY <1>2, <2>2
<1>4. c.op = "node" /\ c.views = <<v>>
  BY <1>2, IdleKnown DEF CallType
<1>5. c.pc = "idle" /\ c.files = {} /\ c.fresh = None /\ ~c.failed
  BY <1>2, IdleKnown DEF CallType
<1> QED BY <1>3, <1>4, <1>5

\* What every call that begins has in common.
LEMMA CallsKnown ==
  ASSUME TypeOK, ViewsKnown, NEW c \in Calls
  PROVE  /\ c \in CallType /\ c.pc = "idle" /\ c.op # "none" /\ c.fresh = None /\ ~c.failed
         /\ c.op \notin {"work", "maintain", "node"} =>
              c.views = <<>> /\ \E f \in File : c.files = {f}
         /\ c.op = "node" => /\ c.files = {} /\ DOMAIN c.views = {1} /\ "node" \in Yielding
                             /\ c.views[1] \in View /\ view[c.views[1]].kind = "grid"
         /\ c.op = "read" => c.grid = 1
         /\ c.op = "replace" => c.grid \in Grid
         /\ c.op \in {"work", "maintain"} =>
              /\ c.files = {view[c.views[k]].file : k \in DOMAIN c.views}
              /\ \A k \in DOMAIN c.views : c.views[k] \in View /\ view[c.views[k]].kind = "grid"
              /\ DOMAIN c.views = {1} \/ (c.op = "work" /\ DOMAIN c.views = {1, 2})
<1> DEFINE grids == {u \in View : view[u].kind = "grid"}
<1>1. CASE \E o \in {"open", "save", "read"}, f \in File, i \in {0, 1} :
             c = FileCall(o, f, i) /\ (o = "read" => i = 1)
  <2>1. PICK o \in {"open", "save", "read"}, f \in File, i \in {0, 1} :
          c = FileCall(o, f, i) /\ (o = "read" => i = 1)
    BY <1>1
  <2>2. i \in 0..(NumGrids + 1)
    OBVIOUS
  <2>3. /\ c \in CallType /\ c.op = o /\ c.pc = "idle" /\ c.files = {f} /\ c.views = <<>>
        /\ c.grid = i /\ c.fresh = None /\ ~c.failed
    BY <2>1, <2>2, FileCallKnown
  <2> QED BY <2>1, <2>2, <2>3
<1>2. CASE \E f \in File, i \in Grid : c = FileCall("replace", f, i)
  <2>1. PICK f \in File, i \in Grid : c = FileCall("replace", f, i)
    BY <1>2
  <2>2. i \in 0..(NumGrids + 1)
    OBVIOUS
  <2>3. /\ c \in CallType /\ c.op = "replace" /\ c.pc = "idle" /\ c.files = {f} /\ c.views = <<>>
        /\ c.grid = i /\ c.fresh = None /\ ~c.failed
    BY <2>1, <2>2, FileCallKnown
  <2> QED BY <2>1, <2>2, <2>3
<1> DEFINE Suits(o, vs) == /\ \A k \in DOMAIN vs : vs[k] \in View /\ view[vs[k]].kind = "grid"
                           /\ DOMAIN vs = {1} \/ (o = "work" /\ DOMAIN vs = {1, 2})
<1>3. ASSUME NEW o \in {"work", "maintain"}, NEW vs \in Seq(View), Suits(o, vs), c = ViewCall(o, vs)
      PROVE  /\ c \in CallType /\ c.pc = "idle" /\ c.op = o /\ c.fresh = None /\ ~c.failed
             /\ c.files = {view[c.views[k]].file : k \in DOMAIN c.views} /\ Suits(o, c.views)
  <2>1. c \in CallType /\ c.pc = "idle" /\ c.op = o /\ c.fresh = None /\ ~c.failed /\ c.views = vs
        /\ c.files = {view[vs[k]].file : k \in DOMAIN vs}
    BY <1>3, ViewCallKnown
  <2> QED BY <1>3, <2>1
<1>4. CASE \E o \in {"work", "maintain"}, vs \in Seq(View) : Suits(o, vs) /\ c = ViewCall(o, vs)
  BY <1>3, <1>4
<1>5. ASSUME NEW v \in grids
      PROVE  <<v>> \in Seq(View) /\ \A o \in {"work", "maintain"} : Suits(o, <<v>>)
  OBVIOUS
<1>6. ASSUME NEW v \in grids, NEW w \in grids
      PROVE  <<v, w>> \in Seq(View) /\ Suits("work", <<v, w>>)
  OBVIOUS
<1>7. /\ \/ \E f \in Disk : c = FileCall("open", f, 0)
         \/ \E f \in File : c = FileCall("save", f, 0)
         \/ \E f \in File : c = FileCall("read", f, 1)
         \/ \E f \in File, i \in Grid : c = FileCall("replace", f, i)
         \/ \E o \in {"work", "maintain"}, v \in grids : c = ViewCall(o, <<v>>)
         \/ \E v, w \in grids : c = ViewCall("work", <<v, w>>)
         \/ \E v \in grids : "node" \in Yielding /\ c = NodeCall(v)
      /\ Disk \subseteq File
  BY DEF Calls
<1>8. CASE \E o \in {"work", "maintain"}, v \in grids : c = ViewCall(o, <<v>>)
  <2> HIDE DEF grids, Suits
  <2> QED BY <1>4, <1>5, <1>8
<1>9. CASE \E v, w \in grids : c = ViewCall("work", <<v, w>>)
  <2> HIDE DEF grids, Suits
  <2> QED BY <1>4, <1>6, <1>9
<1>10. CASE \E v \in grids : "node" \in Yielding /\ c = NodeCall(v)
  <2>1. PICK v \in grids : "node" \in Yielding /\ c = NodeCall(v)
    BY <1>10
  <2>2. /\ c \in CallType /\ c.op = "node" /\ c.pc = "idle" /\ c.files = {} /\ c.views = <<v>>
        /\ c.fresh = None /\ ~c.failed
    BY <2>1, NodeCallKnown
  <2> QED BY <2>1, <2>2
<1> HIDE DEF grids, Suits
<1> QED BY <1>1, <1>2, <1>7, <1>8, <1>9, <1>10

-----------------------------------------------------------------------------
(* What is true at the start.                                              *)

LEMMA OwnerInit == Init => OwnerInv
<1> SUFFICES ASSUME Init PROVE OwnerInv
  OBVIOUS
<1> USE DEF Init, FileInit
<1>1. TypeOK
  <2>1. NoTrees \in [Grid -> Block \cup {None}] /\ [i \in Grid |-> FALSE] \in [Grid -> BOOLEAN]
    BY DEF NoTrees
  <2>2. NoView \in [file : File \cup {None}, kind : {"none", "grid", "node"},
                    grid : 0..NumGrids, ptr : Block \cup {None}, gen : Nat]
    BY DEF NoView
  <2> QED BY <2>1, <2>2, IdleKnown DEF TypeOK
<1>2. \A t \in Thread : call[t] = Idle /\ ~ Running(t)
  BY IdleKnown DEF Running
<1>3. \A v \in View : view[v].file = None /\ view[v].kind = "none"
  BY DEF NoView
<1>4. \A f \in File : array[f] = None /\ \A i \in Grid : tree[f][i] = None
  BY DEF NoTrees
<1>5. CallsShaped /\ ViewsHeld
  BY <1>2, IdleKnown DEF CallsShaped, Shape, ViewsHeld
<1>6. BlocksApart /\ HeapExact
  BY <1>2, <1>4, IdleKnown DEF BlocksApart, HeapExact
<1>7. FilesKnown
  BY <1>2, <1>4, IdleKnown DEF FilesKnown, Opening
<1>8. BusyExact
  BY <1>2, IdleKnown DEF BusyExact
<1>9. ViewsKnown
  BY <1>3 DEF ViewsKnown, Known, Current
<1>10. WorkKnown /\ GridsKept
  BY <1>2 DEF WorkKnown, Bound, GridsKept, Kept
<1> QED BY <1>1, <1>5, <1>6, <1>7, <1>8, <1>9, <1>10

-----------------------------------------------------------------------------
(* The types of the variables are kept.                                    *)

ViewType == [file : File \cup {None}, kind : {"none", "grid", "node"},
             grid : 0..NumGrids, ptr : Block \cup {None}, gen : Nat]

LEMMA CloseType ==
  ASSUME TypeOK, NEW f \in File, CloseFile(f)
  PROVE  /\ heap' \subseteq Block /\ array' \in [File -> Block \cup {None}]
         /\ count' \in [File -> 0..NumGrids] /\ tree' \in [File -> [Grid -> Block \cup {None}]]
         /\ offsets' \in [File -> [Grid -> BOOLEAN]]
<1>1. NoTrees \in [Grid -> Block \cup {None}] /\ [i \in Grid |-> FALSE] \in [Grid -> BOOLEAN]
  BY DEF NoTrees
<1> QED BY <1>1 DEF CloseFile, TypeOK

LEMMA InstallType ==
  ASSUME TypeOK, NEW f \in File, NEW i \in Grid, NEW b \in Block, NEW s \in BOOLEAN,
         Install(f, i, b, s)
  PROVE  /\ heap' \subseteq Block /\ array' \in [File -> Block \cup {None}]
         /\ count' \in [File -> 0..NumGrids] /\ tree' \in [File -> [Grid -> Block \cup {None}]]
         /\ offsets' \in [File -> [Grid -> BOOLEAN]]
  BY DEF Install, TypeOK

LEMMA ViewStepType ==
  ASSUME OwnerInv, UNCHANGED <<fileVars, ownerVars, call>>,
         \/ \E v \in View, f \in File, i \in Grid : GetGrid(v, f, i)
         \/ \E v, w \in View : GetNode(v, w)
         \/ \E v \in View : Drop(v)
  PROVE  TypeOK'
<1>1. NoView \in ViewType
  BY DEF NoView, ViewType
<1>2. ASSUME NEW v \in View, NEW f \in File, NEW i \in Grid, GetGrid(v, f, i)
      PROVE  view' \in [View -> ViewType]
  BY <1>2 DEF GetGrid, TypeOK, ViewType
<1>3. ASSUME NEW v \in View, NEW w \in View, GetNode(v, w)
      PROVE  view' \in [View -> ViewType]
  <2>1. view[w] \in ViewType /\ view[w].file \in File /\ view[w].grid \in Grid
    BY <1>3 DEF GetNode, Valid, TypeOK, ViewType, ViewsKnown, Known
  <2>2. tree[view[w].file][view[w].grid] \in Block \cup {None}
    BY <2>1 DEF TypeOK
  <2> QED BY <1>3, <2>1, <2>2 DEF GetNode, NodeOf, TypeOK, ViewType
<1>4. ASSUME NEW v \in View, Drop(v)
      PROVE  view' \in [View -> ViewType]
  BY <1>1, <1>4 DEF Drop, TypeOK, ViewType
<1> QED BY <1>2, <1>3, <1>4 DEF TypeOK, ViewType

LEMMA FileStepType ==
  ASSUME OwnerInv, NEW f \in File, Close(f) \/ Dealloc(f)
  PROVE  TypeOK'
<1>1. CloseFile(f) /\ UNCHANGED <<busy, view, call>>
  BY DEF Close, Dealloc
<1>2. CASE Close(f)
  <2>1. state' \in [File -> {"none", "closed", "open"}] /\ generation' \in [File -> Nat]
    BY <1>2 DEF Close, Bump, TypeOK
  <2> QED BY <1>1, <2>1, CloseType DEF TypeOK
<1>3. CASE Dealloc(f)
  <2>1. state' \in [File -> {"none", "closed", "open"}] /\ generation' \in [File -> Nat]
    BY <1>3 DEF Dealloc, TypeOK
  <2> QED BY <1>1, <2>1, CloseType DEF TypeOK
<1> QED BY <1>2, <1>3

LEMMA EnterType ==
  ASSUME OwnerInv, NEW t \in Thread, NEW c \in CallType, Enter(t, c),
         c.op \in {"read", "replace"} => \E f \in File : c.files = {f}
  PROVE  /\ busy' \in [File -> BOOLEAN] /\ generation' \in [File -> Nat]
         /\ call' \in [Thread -> CallType]
<1> DEFINE trees == IF c.op \in {"read", "replace"} THEN tree[CHOOSE f \in c.files : TRUE] ELSE NoTrees
<1>1. trees \in [Grid -> Block \cup {None}]
  BY DEF TypeOK, NoTrees
<1>2. call' = [call EXCEPT ![t] = [c EXCEPT !.pc = "run", !.before = trees]]
  BY DEF Enter
<1> HIDE DEF trees
<1>3. [c EXCEPT !.pc = "run", !.before = trees] \in CallType
  BY <1>1 DEF CallType
<1>4. call' \in [Thread -> CallType]
  BY <1>2, <1>3 DEF TypeOK
<1>5. busy' \in [File -> BOOLEAN] /\ generation' \in [File -> Nat]
  BY DEF Enter, TypeOK
<1> QED BY <1>4, <1>5

LEMMA BeginType ==
  ASSUME OwnerInv, NEW t \in Thread, NEW c \in Calls, Begin(t, c)
  PROVE  TypeOK'
<1>1. c \in CallType /\ (c.op \in {"read", "replace"} => \E f \in File : c.files = {f})
  BY CallsKnown
<1>2. state' \in [File -> {"none", "closed", "open"}] /\ UNCHANGED <<fileVars, view>>
  BY DEF Begin, TypeOK
<1>3. CASE Enter(t, c)
  BY <1>1, <1>2, <1>3, EnterType DEF TypeOK
<1>4. CASE call' = [call EXCEPT ![t] = [c EXCEPT !.pc = "convert"]] /\ UNCHANGED <<busy, generation>>
  <2>1. [c EXCEPT !.pc = "convert"] \in CallType
    BY <1>1 DEF CallType
  <2> QED BY <1>2, <1>4, <2>1 DEF TypeOK
<1> QED BY <1>3, <1>4 DEF Begin

LEMMA ResumeType ==
  ASSUME OwnerInv, NEW t \in Thread, Resume(t)
  PROVE  TypeOK'
<1>1. /\ call[t] \in CallType /\ call[t].op \in {"maintain", "node"}
      /\ UNCHANGED <<fileVars, view, state>>
  BY DEF Resume, CallsShaped, Shape, TypeOK
<1>2. CASE Enter(t, call[t])
  BY <1>1, <1>2, EnterType DEF TypeOK
<1>3. CASE call' = [call EXCEPT ![t] = Idle] /\ UNCHANGED ownerVars
  BY <1>1, <1>3, IdleKnown DEF TypeOK
<1> QED BY <1>2, <1>3 DEF Resume

\* The file a call on one file works on.
LEMMA TargetKnown ==
  ASSUME TypeOK, CallsShaped, NEW t \in Thread, call[t].op \notin {"none", "work", "node"}
  PROVE  Target(t) \in File /\ call[t].files = {Target(t)}
  BY TargetIs DEF CallsShaped, Shape

Place == {"idle", "convert", "run", "parse", "built", "load", "leave", "released"}

LEMMA GotoType ==
  ASSUME TypeOK, NEW t \in Thread, NEW l \in Place, Goto(t, l) \/ Fail(t, l)
  PROVE  call' \in [Thread -> CallType]
<1>1. call[t] \in CallType
  BY DEF TypeOK
<1>2. [call[t] EXCEPT !.pc = l] \in CallType /\ [call[t] EXCEPT !.pc = l, !.failed = TRUE] \in CallType
  BY <1>1 DEF CallType, Place
<1>3. \/ call' = [call EXCEPT ![t] = [call[t] EXCEPT !.pc = l]]
      \/ call' = [call EXCEPT ![t] = [call[t] EXCEPT !.pc = l, !.failed = TRUE]]
  BY DEF Goto, Fail, TypeOK
<1> QED BY <1>2, <1>3 DEF TypeOK

LEMMA ParseType ==
  ASSUME OwnerInv, NEW t \in Thread, Parse(t)
  PROVE  TypeOK'
<1> DEFINE f == Target(t)
<1>1. f \in File /\ call[t] \in CallType
  BY TargetKnown DEF Parse, At, TypeOK
<1>2. call' \in [Thread -> CallType]
  <2>1. Goto(t, "parse") \/ Goto(t, "leave") \/ Fail(t, "leave")
    BY DEF Parse
  <2> QED BY <2>1, GotoType DEF Place
<1>3. ASSUME NEW b \in Block, ParseArray(f, b)
      PROVE  /\ heap' \subseteq Block /\ array' \in [File -> Block \cup {None}]
             /\ count' \in [File -> 0..NumGrids] /\ tree' \in [File -> [Grid -> Block \cup {None}]]
             /\ offsets' \in [File -> [Grid -> BOOLEAN]]
  <2>1. [i \in Grid |-> TRUE] \in [Grid -> BOOLEAN]
    OBVIOUS
  <2> QED BY <1>1, <1>3, <2>1 DEF ParseArray, Alloc, TypeOK
<1> HIDE DEF f
<1>4. CASE \E b \in Block : ParseArray(f, b)
  BY <1>2, <1>3, <1>4 DEF Parse, TypeOK
<1>5. CASE CloseFile(f)
  BY <1>1, <1>2, <1>5, CloseType DEF Parse, TypeOK
<1>6. CASE UNCHANGED fileVars
  BY <1>2, <1>6 DEF Parse, TypeOK
<1> QED BY <1>4, <1>5, <1>6 DEF Parse, f

\* A step of the work takes up or gives away a block, or counts a grid off.
LEMMA WorkType ==
  ASSUME NEW c \in CallType, NEW l \in Place, NEW b \in Block \cup {None}
  PROVE  /\ [c EXCEPT !.pc = l, !.fresh = b] \in CallType
         /\ [c EXCEPT !.pc = l, !.fresh = b, !.failed = TRUE] \in CallType
<1>1. [c EXCEPT !.pc = l, !.fresh = b] \in CallType
  BY DEF CallType, Place
<1>2. [c EXCEPT !.pc = l, !.fresh = b, !.failed = TRUE] \in CallType
  BY DEF CallType, Place
<1> QED BY <1>1, <1>2

LEMMA CountType ==
  ASSUME NEW c \in CallType, NEW i \in 0..(NumGrids + 1)
  PROVE  /\ [c EXCEPT !.grid = i, !.failed = TRUE] \in CallType
         /\ [c EXCEPT !.pc = "run", !.fresh = None, !.grid = i] \in CallType
         /\ [c EXCEPT !.pc = "run", !.fresh = None, !.grid = i, !.failed = TRUE] \in CallType
<1>1. [c EXCEPT !.grid = i, !.failed = TRUE] \in CallType
  BY DEF CallType
<1>2. [c EXCEPT !.pc = "run", !.fresh = None, !.grid = i] \in CallType
  BY DEF CallType
<1>3. [c EXCEPT !.pc = "run", !.fresh = None, !.grid = i, !.failed = TRUE] \in CallType
  BY DEF CallType
<1> QED BY <1>1, <1>2, <1>3

LEMMA BuildType ==
  ASSUME OwnerInv, NEW t \in Thread, Build(t)
  PROVE  TypeOK'
<1>1. call[t] \in CallType /\ UNCHANGED <<ownerVars, view>>
  BY DEF Build, TypeOK
<1>2. CASE Fail(t, "leave") /\ UNCHANGED fileVars
  BY <1>1, <1>2, GotoType DEF Place, TypeOK
<1>3. ASSUME NEW b \in Block, heap' = heap \cup {b}, UNCHANGED <<array, count, tree, offsets>>,
             call' = [call EXCEPT ![t].pc = "built", ![t].fresh = b]
      PROVE  TypeOK'
  <2>1. [call[t] EXCEPT !.pc = "built", !.fresh = b] \in CallType
    BY <1>1, WorkType DEF Place
  <2>2. call' = [call EXCEPT ![t] = [call[t] EXCEPT !.pc = "built", !.fresh = b]]
    BY <1>3 DEF TypeOK
  <2> QED BY <1>1, <1>3, <2>1, <2>2 DEF TypeOK
<1> QED BY <1>2, <1>3 DEF Build, Alloc

LEMMA BuiltType ==
  ASSUME OwnerInv, NEW t \in Thread, Built(t)
  PROVE  TypeOK'
<1> DEFINE f == Target(t)
           i == call[t].grid
           b == call[t].fresh
<1>1. call[t] \in CallType /\ f \in File /\ b \in Block /\ UNCHANGED <<ownerVars, view>>
  BY TargetKnown DEF Built, TypeOK, CallType, CallsShaped, Shape
<1>2. ASSUME call' = [call EXCEPT ![t].pc = "leave", ![t].fresh = None]
      PROVE  call' \in [Thread -> CallType]
  <2>1. [call[t] EXCEPT !.pc = "leave", !.fresh = None] \in CallType
    BY <1>1, WorkType DEF Place
  <2>2. call' = [call EXCEPT ![t] = [call[t] EXCEPT !.pc = "leave", !.fresh = None]]
    BY <1>2 DEF TypeOK
  <2> QED BY <2>1, <2>2 DEF TypeOK
<1>3. ASSUME call' = [call EXCEPT ![t].pc = "leave", ![t].fresh = None, ![t].failed = TRUE]
      PROVE  call' \in [Thread -> CallType]
  <2>1. [call[t] EXCEPT !.pc = "leave", !.fresh = None, !.failed = TRUE] \in CallType
    BY <1>1, WorkType DEF Place
  <2>2. call' = [call EXCEPT ![t] = [call[t] EXCEPT !.pc = "leave", !.fresh = None, !.failed = TRUE]]
    BY <1>3 DEF TypeOK
  <2> QED BY <2>1, <2>2 DEF TypeOK
<1>4. CASE call[t].op = "replace" /\ Install(f, i, b, FALSE)
           /\ call' = [call EXCEPT ![t].pc = "leave", ![t].fresh = None]
  <2>1. i \in Grid
    BY <1>4 DEF CallsShaped, Shape
  <2> QED BY <1>1, <1>2, <1>4, <2>1, InstallType DEF TypeOK
<1>5. CASE Goto(t, "leave") /\ UNCHANGED fileVars
  BY <1>1, <1>5, GotoType DEF Place, TypeOK
<1>6. CASE Discard(b) /\ call' = [call EXCEPT ![t].pc = "leave", ![t].fresh = None, ![t].failed = TRUE]
  BY <1>1, <1>3, <1>6 DEF Discard, TypeOK
<1> QED BY <1>4, <1>5, <1>6 DEF Built

LEMMA LoadType ==
  ASSUME OwnerInv, NEW t \in Thread, Load(t)
  PROVE  TypeOK'
<1>1. call[t] \in CallType /\ UNCHANGED <<array, count, tree, offsets, ownerVars, view>>
  BY DEF Load, TypeOK
<1>2. Target(t) \in File /\ call[t].grid \in 0..(NumGrids + 1) /\ call[t].grid # 0
  BY TargetKnown DEF Load, At, TypeOK, CallType, CallsShaped, Shape
<1>3. call[t].grid \in Grid /\ call[t].grid + 1 \in 0..(NumGrids + 1)
  BY <1>2 DEF Load, TypeOK
<1>4. CASE \E b \in Block : heap' = heap \cup {b}
                            /\ call' = [call EXCEPT ![t].pc = "load", ![t].fresh = b]
  <2>1. PICK b \in Block : heap' = heap \cup {b}
                           /\ call' = [call EXCEPT ![t].pc = "load", ![t].fresh = b]
    BY <1>4
  <2>2. [call[t] EXCEPT !.pc = "load", !.fresh = b] \in CallType
    BY <1>1, WorkType DEF Place
  <2>3. call' = [call EXCEPT ![t] = [call[t] EXCEPT !.pc = "load", !.fresh = b]]
    BY <2>1 DEF TypeOK
  <2> QED BY <1>1, <2>1, <2>2, <2>3 DEF TypeOK
<1>5. CASE heap' = heap /\ call' = [call EXCEPT ![t].grid = @ + 1, ![t].failed = TRUE]
  <2>1. [call[t] EXCEPT !.grid = @ + 1, !.failed = TRUE] \in CallType
    BY <1>1, <1>3, CountType DEF Place
  <2>2. call' = [call EXCEPT ![t] = [call[t] EXCEPT !.grid = @ + 1, !.failed = TRUE]]
    BY <1>5 DEF TypeOK
  <2> QED BY <1>1, <1>5, <2>1, <2>2 DEF TypeOK
<1> QED BY <1>1, <1>4, <1>5 DEF Load, Alloc

LEMMA LoadedType ==
  ASSUME OwnerInv, NEW t \in Thread, Loaded(t)
  PROVE  TypeOK'
<1> DEFINE f == Target(t)
           i == call[t].grid
           b == call[t].fresh
<1>1. /\ call[t] \in CallType /\ f \in File /\ i \in Grid /\ b \in Block
      /\ UNCHANGED <<ownerVars, view>>
  BY TargetKnown DEF Loaded, At, TypeOK, CallType, CallsShaped, Shape
<1>2. i + 1 \in 0..(NumGrids + 1)
  BY <1>1
<1>3. CASE Install(f, i, b, TRUE)
           /\ call' = [call EXCEPT ![t].pc = "run", ![t].fresh = None, ![t].grid = @ + 1]
  <2>1. [call[t] EXCEPT !.pc = "run", !.fresh = None, !.grid = @ + 1] \in CallType
    BY <1>1, <1>2, CountType DEF Place
  <2>2. call' = [call EXCEPT ![t] = [call[t] EXCEPT !.pc = "run", !.fresh = None, !.grid = @ + 1]]
    BY <1>3 DEF TypeOK
  <2>3. /\ heap' \subseteq Block /\ array' \in [File -> Block \cup {None}]
        /\ count' \in [File -> 0..NumGrids] /\ tree' \in [File -> [Grid -> Block \cup {None}]]
        /\ offsets' \in [File -> [Grid -> BOOLEAN]]
    BY <1>1, <1>3, InstallType
  <2>4. call' \in [Thread -> CallType]
    BY <2>1, <2>2 DEF TypeOK
  <2> QED BY <1>1, <2>3, <2>4 DEF TypeOK
<1>4. CASE Discard(b) /\ call' = [call EXCEPT ![t].pc = "run", ![t].fresh = None, ![t].grid = @ + 1,
                                              ![t].failed = TRUE]
  <2>1. [call[t] EXCEPT !.pc = "run", !.fresh = None, !.grid = @ + 1, !.failed = TRUE] \in CallType
    BY <1>1, <1>2, CountType DEF Place
  <2>2. call' = [call EXCEPT ![t] = [call[t] EXCEPT !.pc = "run", !.fresh = None, !.grid = @ + 1,
                                                    !.failed = TRUE]]
    BY <1>4 DEF TypeOK
  <2> QED BY <1>1, <1>4, <2>1, <2>2 DEF Discard, TypeOK
<1> QED BY <1>3, <1>4 DEF Loaded

LEMMA ReadAllType ==
  ASSUME OwnerInv, NEW t \in Thread, ReadAll(t)
  PROVE  TypeOK'
  BY GotoType DEF ReadAll, Place, TypeOK

LEMMA LeaveType ==
  ASSUME OwnerInv, NEW t \in Thread, Leave(t)
  PROVE  TypeOK'
<1>1. call' \in [Thread -> CallType] /\ UNCHANGED <<fileVars, view>>
  BY IdleKnown DEF Leave, TypeOK
<1>2. busy' \in [File -> BOOLEAN] /\ state' \in [File -> {"none", "closed", "open"}]
      /\ generation' \in [File -> Nat]
  BY DEF Leave, TypeOK
<1> QED BY <1>1, <1>2 DEF TypeOK

LEMMA ReleaseType ==
  ASSUME OwnerInv, NEW t \in Thread, Release(t) \/ CountUp(t)
  PROVE  TypeOK'
<1>1. CASE Release(t)
  <2>1. call' \in [Thread -> CallType] /\ busy' \in [File -> BOOLEAN]
    BY <1>1, GotoType DEF Release, Place, TypeOK
  <2> QED BY <1>1, <2>1 DEF Release, TypeOK
<1>2. CASE CountUp(t)
  <2>1. Target(t) \in File
    BY <1>2, TargetKnown DEF CountUp, CallsShaped, Shape
  <2>2. call' \in [Thread -> CallType] /\ generation' \in [File -> Nat]
    BY <1>2, <2>1, IdleKnown DEF CountUp, Bump, TypeOK
  <2> QED BY <1>2, <2>2 DEF CountUp, TypeOK
<1> QED BY <1>1, <1>2

LEMMA TakeNodeType ==
  ASSUME OwnerInv, NEW t \in Thread, TakeNode(t)
  PROVE  TypeOK'
<1> DEFINE w == call[t].views[1]
<1>1. w \in View /\ view[w] \in ViewType
  <2>1. 1 \in DOMAIN call[t].views /\ call[t].views \in Seq(View)
    <3>1. DOMAIN call[t].views = {1}
      BY DEF TakeNode, At, CallsShaped, Shape
    <3>2. call[t] \in CallType
      BY DEF TypeOK
    <3> QED BY <3>1, <3>2 DEF CallType
  <2>2. w \in View
    BY <2>1
  <2> QED BY <2>2 DEF TypeOK, ViewType
<1>2. ASSUME NEW b \in Block
      PROVE  NodeOf(w, b) \in ViewType
  BY <1>1 DEF NodeOf, ViewType
<1>3. view' \in [View -> ViewType]
  <2>1. view \in [View -> ViewType]
    BY DEF TypeOK, ViewType
  <2> HIDE DEF w
  <2>2. CASE \E v \in View, b \in Block : view' = [view EXCEPT ![v] = NodeOf(w, b)]
    BY <1>2, <2>1, <2>2
  <2> QED BY <2>1, <2>2 DEF TakeNode, w
<1>4. call' \in [Thread -> CallType] /\ UNCHANGED <<fileVars, ownerVars>>
  BY IdleKnown DEF TakeNode, TypeOK
<1> QED BY <1>3, <1>4 DEF TypeOK, ViewType

LEMMA LeaveMaintenanceType ==
  ASSUME OwnerInv, NEW t \in Thread, LeaveMaintenance(t)
  PROVE  TypeOK'
<1>1. call' \in [Thread -> CallType] /\ busy' \in [File -> BOOLEAN] /\ view' = view
  BY IdleKnown DEF LeaveMaintenance, TypeOK
<1>2. CASE Discard(call[t].fresh) /\ UNCHANGED <<state, generation>>
  BY <1>1, <1>2 DEF Discard, TypeOK
<1>3. ASSUME NEW f \in File, NEW b \in Block, ~ call[t].failed, Adopt(f, call[t].fresh, b),
             state' = [state EXCEPT ![f] = "open"], generation' = [generation EXCEPT ![f] = 1]
      PROVE  TypeOK'
  <2>1. call[t].fresh \in Block
    BY <1>3 DEF LeaveMaintenance, At, CallsShaped, Shape, TypeOK, CallType
  <2>2. 1 \in Grid /\ 1 \in 0..NumGrids
    OBVIOUS
  <2>3. heap' \subseteq Block /\ array' \in [File -> Block \cup {None}]
        /\ count' \in [File -> 0..NumGrids] /\ tree' \in [File -> [Grid -> Block \cup {None}]]
        /\ offsets' \in [File -> [Grid -> BOOLEAN]]
    BY <1>3, <2>1, <2>2 DEF Adopt, Alloc, TypeOK
  <2> QED BY <1>1, <1>3, <2>3 DEF TypeOK
<1> QED BY <1>2, <1>3 DEF LeaveMaintenance

\* Every step keeps the types.
LEMMA StepType ==
  ASSUME OwnerInv, Next
  PROVE  TypeOK'
<1>1. CASE \E f \in File : Close(f) \/ Dealloc(f)
  BY <1>1, FileStepType
<1>2. CASE \/ \E v \in View, f \in File, i \in Grid : GetGrid(v, f, i)
           \/ \E v, w \in View : GetNode(v, w)
           \/ \E v \in View : Drop(v)
  <2>1. UNCHANGED <<fileVars, ownerVars, call>>
    BY <1>2 DEF GetGrid, GetNode, Drop
  <2> QED BY <1>2, <2>1, ViewStepType
<1>3. CASE \E t \in Thread : (\E c \in Calls : Begin(t, c)) \/ Resume(t)
  BY <1>3, BeginType, ResumeType
<1>4. CASE \E t \in Thread : TakeNode(t) \/ Parse(t) \/ Build(t) \/ Built(t) \/ Load(t) \/ Loaded(t)
  BY <1>4, TakeNodeType, ParseType, BuildType, BuiltType, LoadType, LoadedType
<1>5. CASE \E t \in Thread :
             ReadAll(t) \/ Leave(t) \/ Release(t) \/ CountUp(t) \/ LeaveMaintenance(t)
  BY <1>5, ReadAllType, LeaveType, ReleaseType, LeaveMaintenanceType
<1> QED BY <1>1, <1>2, <1>3, <1>4, <1>5 DEF Next

-----------------------------------------------------------------------------
(* Steps that leave a part of the state alone.                             *)

\* The calls other than that of t go on as they were.
Others(t) == \A u \in Thread : u # t => call'[u] = call[u]

LEMMA Typed ==
  ASSUME TypeOK
  PROVE  /\ \A t \in Thread : call[t] \in CallType /\ call[t].files \subseteq File
                              /\ \A k \in DOMAIN call[t].views : call[t].views[k] \in View
         /\ \A v \in View : view[v] \in ViewType /\ view[v].file \in File \cup {None}
                            /\ view[v].gen \in Nat
         /\ \A f \in File : generation[f] \in Nat
  BY DEF TypeOK, CallType, ViewType

LEMMA MemoryFrame ==
  ASSUME BlocksApart, HeapExact, UNCHANGED <<heap, array, tree>>,
         \A u \in Thread : call'[u].fresh = call[u].fresh
  PROVE  BlocksApart' /\ HeapExact'
<1>1. BlocksApart'
  BY DEF BlocksApart
<1>2. HeapExact'
  BY DEF HeapExact
<1> QED BY <1>1, <1>2

\* Steps on a view.
LEMMA ViewStep ==
  ASSUME OwnerInv, UNCHANGED <<fileVars, ownerVars, call>>, NEW v \in View,
         \A w \in View : w # v => view'[w] = view[w],
         \A t \in Thread : \A k \in DOMAIN call[t].views : call[t].views[k] # v,
         \/ view'[v] = NoView
         \/ /\ view'[v].file \in File /\ Available(view'[v].file)
            /\ view'[v].gen = generation[view'[v].file] /\ view'[v].grid \in Grid
            /\ view'[v].kind \in {"grid", "node"} /\ view'[v].ptr # None
            /\ view'[v].ptr = IF view'[v].kind = "grid" THEN array[view'[v].file]
                              ELSE tree[view'[v].file][view'[v].grid]
  PROVE  TypeOK' => OwnerInv'
<1> USE DEF Available
<1>1. CallsShaped' /\ BlocksApart' /\ HeapExact'
  BY MemoryFrame DEF CallsShaped
<1>2. FilesKnown'
  BY DEF FilesKnown, Opening
<1>3. BusyExact' /\ \A t \in Thread : Running(t)' = Running(t)
  BY DEF BusyExact, Running
<1>4. GridsKept'
  BY DEF GridsKept, Kept, Running
<1>5. \A t \in Thread : \A k \in DOMAIN call[t].views :
        call[t].views[k] \in View /\ view'[call[t].views[k]] = view[call[t].views[k]]
  BY DEF TypeOK, CallType
<1>6. ViewsHeld'
  BY <1>5 DEF ViewsHeld
<1>8. ViewsKnown'
  <2>1. \A f \in File : Replaced(f)' <=> Replaced(f)
    BY DEF Replaced
  <2>2. \A w \in View : view[w].file \in File \cup {None}
    BY DEF TypeOK
  <2>3. ASSUME NEW w \in View, w # v
        PROVE  Known(w)'
    BY <2>1, <2>2, <2>3 DEF ViewsKnown, Known, Current, Good
  <2>4. Known(v)'
    <3>1. CASE view'[v] = NoView
      BY <3>1 DEF Known, Current, NoView
    <3>2. CASE view'[v] # NoView
      <4>1. Good(v)' /\ view'[v].file # None
        BY <3>2 DEF Good
      <4>2. generation[view'[v].file] \in Nat
        BY <3>2 DEF TypeOK
      <4> QED BY <3>2, <4>1, <4>2 DEF Known
    <3> QED BY <3>1, <3>2
  <2> QED BY <2>3, <2>4 DEF ViewsKnown
<1>9. WorkKnown'
  <2>1. ASSUME NEW t \in Thread, Running(t), call[t].op = "read", NEW w \in View,
               view'[w].file \in call[t].files
        PROVE  ~ Current(w)'
    <3>1. busy[view'[w].file] /\ view'[w].file \in File
      BY <2>1 DEF BusyExact, TypeOK, CallType
    <3>2. w # v
      BY <3>1 DEF NoView
    <3> QED BY <2>1, <3>2 DEF WorkKnown, Bound, Current
  <2>2. ASSUME NEW t \in Thread, Running(t), call[t].op # "node", NEW k \in DOMAIN call[t].views
        PROVE  LET w == view'[call[t].views[k]] IN w.ptr = array[w.file]
    BY <1>5, <2>2 DEF WorkKnown, Bound
  <2>3. ASSUME NEW t \in Thread, Running(t)
        PROVE  Bound(t)'
    BY <2>1, <2>2, <2>3 DEF Bound
  <2> QED BY <1>3, <2>3 DEF WorkKnown
<1> QED BY <1>1, <1>2, <1>3, <1>4, <1>6, <1>8, <1>9

LEMMA ViewSteps ==
  ASSUME OwnerInv, TypeOK',
         \/ \E v \in View, f \in File, i \in Grid : GetGrid(v, f, i)
         \/ \E v, w \in View : GetNode(v, w)
         \/ \E v \in View : Drop(v)
  PROVE  OwnerInv'
<1>1. ASSUME NEW v \in View, view[v] = NoView
      PROVE  \A t \in Thread : \A k \in DOMAIN call[t].views : call[t].views[k] # v
  BY <1>1 DEF NoView, ViewsHeld
<1>2. ASSUME NEW v \in View, NEW f \in File, NEW i \in Grid, GetGrid(v, f, i)
      PROVE  OwnerInv'
  <2>1. view'[v] = [file |-> f, kind |-> "grid", grid |-> i, ptr |-> array[f], gen |-> generation[f]]
        /\ \A w \in View : w # v => view'[w] = view[w]
    BY <1>2 DEF GetGrid, TypeOK
  <2>2. Available(f) /\ array[f] # None /\ UNCHANGED <<fileVars, ownerVars, call>>
    BY <1>2 DEF GetGrid, Available, FilesKnown
  <2>3. \A t \in Thread : \A k \in DOMAIN call[t].views : call[t].views[k] # v
    BY <1>1, <1>2 DEF GetGrid
  <2> QED BY <2>1, <2>2, <2>3, ViewStep
<1>3. ASSUME NEW v \in View, NEW w \in View, GetNode(v, w)
      PROVE  OwnerInv'
  <2>1. /\ view[w].file \in File /\ Available(view[w].file) /\ view[w].grid \in Grid
        /\ view[w].gen = generation[view[w].file]
    BY <1>3 DEF GetNode, Valid, TypeOK, ViewsKnown, Known
  <2>2. /\ view[w] \in ViewType /\ view' = [view EXCEPT ![v] = [view[w] EXCEPT
                 !.kind = "node", !.ptr = tree[view[w].file][view[w].grid]]]
    BY <1>3, Typed DEF GetNode, NodeOf
  <2>3. /\ view'[v].file = view[w].file /\ view'[v].kind = "node" /\ view'[v].grid = view[w].grid
        /\ view'[v].gen = view[w].gen /\ view'[v].ptr = tree[view[w].file][view[w].grid]
        /\ \A u \in View : u # v => view'[u] = view[u]
    BY <2>2 DEF TypeOK, ViewType
  <2>4. tree[view[w].file][view[w].grid] # None /\ UNCHANGED <<fileVars, ownerVars, call>>
    BY <1>3 DEF GetNode
  <2>5. \A t \in Thread : \A k \in DOMAIN call[t].views : call[t].views[k] # v
    BY <1>1, <1>3 DEF GetNode
  <2> QED BY <2>1, <2>3, <2>4, <2>5, ViewStep
<1>4. ASSUME NEW v \in View, Drop(v)
      PROVE  OwnerInv'
  <2>1. view'[v] = NoView /\ \A w \in View : w # v => view'[w] = view[w]
    BY <1>4 DEF Drop, TypeOK
  <2> QED BY <1>4, <2>1, ViewStep DEF Drop
<1> QED BY <1>2, <1>3, <1>4

-----------------------------------------------------------------------------
(* Closing.                                                                *)

\* A file that no work is going on in goes back to nothing.
LEMMA CloseStep ==
  ASSUME OwnerInv, NEW f \in File, Close(f) \/ Dealloc(f)
  PROVE  TypeOK' => OwnerInv'
<1>1. /\ UNCHANGED <<busy, view, call>> /\ heap' = heap \ Owned(f)
      /\ array'[f] = None /\ \A i \in Grid : tree'[f][i] = None
      /\ \A g \in File : g # f => array'[g] = array[g] /\ tree'[g] = tree[g] /\ count'[g] = count[g]
      /\ state'[f] # "open"
      /\ \A g \in File : g # f => state'[g] = state[g] /\ generation'[g] = generation[g]
  BY DEF Close, Dealloc, CloseFile, NoTrees, Bump, TypeOK
<1>2. \A t \in Thread : f \in call[t].files => ~ Running(t) /\ state'[f] # "none"
  <2>1. CASE Close(f)
    BY <2>1 DEF Close, BusyExact, TypeOK
  <2>2. CASE Dealloc(f)
    BY <2>2 DEF Dealloc, Refers
  <2> QED BY <2>1, <2>2
<1>3. CallsShaped' /\ ViewsHeld' /\ \A t \in Thread : Running(t)' = Running(t)
  BY <1>1 DEF CallsShaped, ViewsHeld, Running
<1>4. BlocksApart'
  BY <1>1 DEF BlocksApart
<1>5. HeapExact'
  <2>1. /\ \A g \in File : g # f /\ array[g] # None => array[g] \in heap'
        /\ \A g \in File, i \in Grid : g # f /\ tree[g][i] # None => tree[g][i] \in heap'
        /\ \A t \in Thread : call[t].fresh # None => call[t].fresh \in heap'
    BY <1>1 DEF HeapExact, BlocksApart, Owned
  <2>2. ASSUME NEW b \in heap'
        PROVE  \/ \E g \in File : array'[g] = b
               \/ \E g \in File, i \in Grid : tree'[g][i] = b
               \/ \E t \in Thread : call'[t].fresh = b
    <3>1. b \in heap /\ b # None /\ b \notin Owned(f)
      BY <1>1, <2>2 DEF TypeOK
    <3>2. array[f] # b /\ \A i \in Grid : tree[f][i] # b
      BY <3>1 DEF Owned
    <3>3. \/ \E g \in File : g # f /\ array[g] = b
          \/ \E g \in File, i \in Grid : g # f /\ tree[g][i] = b
          \/ \E t \in Thread : call[t].fresh = b
      BY <3>1, <3>2 DEF HeapExact
    <3> QED BY <1>1, <3>3
  <2> QED BY <1>1, <2>1, <2>2 DEF HeapExact
<1>6. FilesKnown'
  BY <1>1, <1>2 DEF FilesKnown, Opening, Running
<1>7. BusyExact'
  <2>1. \A g \in File : busy'[g] => \E t \in Thread : Running(t)' /\ g \in call'[t].files
    BY <1>1, <1>3 DEF BusyExact
  <2>2. \A t \in Thread, g \in File : g \in call[t].files /\ (Running(t) \/ g # f) =>
          g # f /\ state'[g] = state[g]
    BY <1>1, <1>2
  <2> QED BY <1>1, <1>2, <1>3, <2>1, <2>2, Typed DEF BusyExact
<1>8. ViewsKnown'
  <2>1. \A g \in File : Replaced(g)' <=> Replaced(g)
    BY <1>1 DEF Replaced
  <2>2. ASSUME NEW v \in View, view[v].file # f
        PROVE  Known(v)'
    BY <1>1, <2>1, <2>2, Typed DEF ViewsKnown, Known, Current, Good
  <2>3. ASSUME NEW v \in View, view[v].file = f
        PROVE  Known(v)'
    <3>1. Close(f) /\ generation'[f] = generation[f] + 1 /\ state'[f] = "closed"
      BY <2>3 DEF Close, Dealloc, Bump, TypeOK
    <3>2. view[v].gen <= generation[f] /\ view[v].gen \in Nat /\ generation[f] \in Nat
      BY <2>3, Typed DEF ViewsKnown, Known
    <3> QED BY <1>1, <2>3, <3>1, <3>2 DEF ViewsKnown, Known, Current
  <2> QED BY <2>2, <2>3 DEF ViewsKnown
<1>9. WorkKnown'
  <2>1. \A t \in Thread, g \in File : Running(t) /\ g \in call[t].files =>
          g # f /\ array'[g] = array[g] /\ tree'[g] = tree[g] /\ count'[g] = count[g]
          /\ generation'[g] = generation[g]
    BY <1>1, <1>2
  <2>2. \A t \in Thread : call[t].op # "node" =>
          \A k \in DOMAIN call[t].views : view[call[t].views[k]].file \in call[t].files
    BY DEF ViewsHeld
  <2> QED BY <1>1, <1>3, <2>1, <2>2, Typed DEF WorkKnown, Bound, Current
<1>10. GridsKept'
  <2>1. \A t \in Thread, g \in File : Running(t) /\ g \in call[t].files =>
          tree'[g] = tree[g] /\ count'[g] = count[g]
    BY <1>1, <1>2
  <2> QED BY <1>1, <1>3, <2>1, Typed DEF GridsKept, Kept
<1> QED BY <1>3, <1>4, <1>5, <1>6, <1>7, <1>8, <1>9, <1>10

-----------------------------------------------------------------------------
(* Beginning.                                                              *)

\* A call starts its work on files that nobody else works on.
LEMMA EnterStep ==
  ASSUME OwnerInv, NEW t \in Thread, NEW c \in CallType, Enter(t, c), UNCHANGED <<fileVars, view>>,
         state' = [f \in File |-> IF f \in c.files /\ state[f] = "none" THEN "closed" ELSE state[f]],
         call[t].pc \in {"idle", "convert"}, call[t].fresh = None, c.op # "none", c.fresh = None, ~ c.failed,
         c.op \notin {"work", "maintain", "node"} => c.views = <<>> /\ \E f \in File : c.files = {f},
         c.op = "node" => c.files = {} /\ DOMAIN c.views = {1} /\ "node" \in Yielding,
         c.op = "maintain" => DOMAIN c.views = {1} /\ \E f \in File : c.files = {f},
         c.op = "read" => c.grid = 1,
         c.op = "replace" => c.grid \in Grid,
         \A f \in c.files : ~ busy[f] /\ IF c.op = "open" THEN state[f] # "open" ELSE state[f] = "open",
         \A k \in DOMAIN c.views :
           /\ view[c.views[k]].kind = "grid"
           /\ c.op # "node" => Valid(c.views[k]) /\ view[c.views[k]].file \in c.files
  PROVE  TypeOK' => OwnerInv'
<1> DEFINE trees == IF c.op \in {"read", "replace"} THEN tree[CHOOSE f \in c.files : TRUE] ELSE NoTrees
<1>1. /\ call'[t].pc = "run" /\ call'[t].op = c.op /\ call'[t].files = c.files
      /\ call'[t].views = c.views /\ call'[t].grid = c.grid
      /\ call'[t].fresh = None /\ ~ call'[t].failed /\ call'[t].before = trees
  BY DEF Enter, TypeOK, CallType
<1>2. /\ Others(t) /\ busy' = [f \in File |-> busy[f] \/ f \in c.files]
      /\ generation' = [f \in File |-> IF c.op = "read" /\ f \in c.files THEN generation[f] + 1
                                       ELSE generation[f]]
  BY DEF Enter, Others, TypeOK
<1>3. /\ Running(t)' /\ \A u \in Thread : u # t => Running(u)' = Running(u)
      /\ ~ Running(t) /\ c.files \subseteq File
  BY <1>1, <1>2 DEF Running, Others, CallType
<1>4. \A u \in Thread : Running(u) => call[u].files \cap c.files = {}
  BY DEF BusyExact
<1> HIDE DEF trees
<1>5. CallsShaped'
  <2>1. Shape(call'[t])
    BY <1>1 DEF Shape
  <2> QED BY <1>2, <2>1 DEF CallsShaped, Others
<1>6. ViewsHeld'
  <2>1. \A k \in DOMAIN call'[t].views : LET w == view'[call'[t].views[k]] IN
          w.kind = "grid" /\ (call'[t].op # "node" => w.file \in call'[t].files)
    BY <1>1
  <2>2. \A u \in Thread : u # t => \A k \in DOMAIN call'[u].views :
          LET w == view'[call'[u].views[k]] IN
            w.kind = "grid" /\ (call'[u].op # "node" => w.file \in call'[u].files)
    BY <1>2 DEF ViewsHeld, Others
  <2> QED BY <2>1, <2>2 DEF ViewsHeld
<1>7. BlocksApart' /\ HeapExact'
  BY <1>1, <1>2, MemoryFrame DEF Others
<1>8. FilesKnown'
  <2>1. \A u \in Thread, f \in File : Opening(u, f)' <=> Opening(u, f)
    BY <1>1, <1>2, <1>3 DEF Opening, Others
  <2>2. \A f \in File : state'[f] = "open" <=> state[f] = "open"
    OBVIOUS
  <2> QED BY <2>1, <2>2 DEF FilesKnown
<1>9. BusyExact'
  <2>1. ASSUME NEW f \in File, busy'[f]
        PROVE  \E u \in Thread : Running(u)' /\ f \in call'[u].files
    <3>1. CASE f \in c.files
      BY <1>1, <1>3, <3>1
    <3>2. CASE f \notin c.files
      <4>1. PICK u \in Thread : Running(u) /\ f \in call[u].files
        BY <1>2, <2>1, <3>2 DEF BusyExact
      <4> QED BY <1>2, <1>3, <4>1 DEF Others
    <3> QED BY <3>1, <3>2
  <2>2. ASSUME NEW u \in Thread, Running(u)', NEW f \in call'[u].files
        PROVE  /\ busy'[f] /\ state'[f] = IF call'[u].op = "open" THEN "closed" ELSE "open"
               /\ \A w \in Thread : Running(w)' /\ f \in call'[w].files => w = u
    <3>1. CASE u = t
      <4>1. f \in c.files /\ f \in File /\ state[f] \in {"none", "closed", "open"}
        BY <1>1, <1>3, <2>2, <3>1 DEF TypeOK
      <4>2. busy'[f] /\ state'[f] = IF call'[u].op = "open" THEN "closed" ELSE "open"
        BY <1>1, <1>2, <3>1, <4>1
      <4>3. \A w \in Thread : w # t /\ Running(w)' => f \notin call'[w].files
        BY <1>2, <1>3, <1>4, <4>1 DEF Others
      <4> QED BY <3>1, <4>2, <4>3
    <3>2. CASE u # t
      <4>1. Running(u) /\ f \in call[u].files /\ f \in File /\ f \notin c.files
            /\ call'[u] = call[u]
        BY <1>2, <1>3, <1>4, <2>2, <3>2, Typed DEF Others
      <4>2. busy'[f] /\ state'[f] = IF call'[u].op = "open" THEN "closed" ELSE "open"
        <5>1. busy[f] /\ state[f] = IF call[u].op = "open" THEN "closed" ELSE "open"
          BY <4>1 DEF BusyExact
        <5>2. busy'[f] /\ state'[f] = state[f]
          BY <1>2, <4>1, <5>1
        <5> QED BY <4>1, <5>1, <5>2
      <4>3. \A w \in Thread : Running(w)' /\ f \in call'[w].files => w = u
        BY <1>1, <1>2, <1>3, <4>1 DEF BusyExact, Others
      <4> QED BY <4>2, <4>3
    <3> QED BY <3>1, <3>2
  <2>3. ASSUME NEW u \in Thread, NEW f \in File, f \in call'[u].files
        PROVE  state'[f] # "none"
    BY <1>1, <1>2, <2>3 DEF BusyExact, Others
  <2> QED BY <2>1, <2>2, <2>3 DEF BusyExact
<1>10. ViewsKnown'
  <2>1. \A f \in File : Replaced(f)' <=> Replaced(f)
    BY <1>1, <1>2, <1>3 DEF Replaced, Others
  <2> QED BY <1>2, <2>1, Typed DEF ViewsKnown, Known, Current, Good
<1>11. WorkKnown'
  <2>1. ASSUME NEW v \in View, view[v].file \in c.files, c.op = "read"
        PROVE  ~ Current(v)'
    BY <1>2, <1>3, <2>1, Typed DEF ViewsKnown, Known, Current
  <2>2. ASSUME NEW k \in DOMAIN c.views, c.op # "node"
        PROVE  view[c.views[k]].ptr = array[view[c.views[k]].file]
    <3> DEFINE v == c.views[k]
    <3>1. v \in View /\ view[v].kind = "grid" /\ Current(v)
      BY <2>2, Typed DEF Valid, Available, Current, CallType
    <3> QED BY <3>1 DEF ViewsKnown, Known, Good
  <2>3. \A u \in Thread, v \in View : u # t /\ Running(u) /\ view[v].file \in call[u].files =>
          (Current(v)' <=> Current(v))
    BY <1>2, <1>4, Typed DEF Current
  <2>4. Bound(t)'
    BY <1>1, <2>1, <2>2 DEF Bound
  <2>5. ASSUME NEW u \in Thread, u # t, Running(u)'
        PROVE  Bound(u)'
    <3>1. Running(u) /\ call'[u] = call[u] /\ Bound(u)
      BY <1>2, <1>3, <2>5 DEF Others, WorkKnown
    <3> QED BY <2>3, <2>5, <3>1 DEF Bound
  <2> QED BY <2>4, <2>5 DEF WorkKnown
<1>12. GridsKept'
  <2>1. \A f \in c.files : c.op \in {"read", "replace"} => call'[t].before = tree[f]
    BY <1>1 DEF trees
  <2>2. ASSUME NEW u \in Thread, u # t, Running(u)'
        PROVE  call'[u] = call[u] /\ Running(u)
    BY <1>2, <1>3, <2>2 DEF Others
  <2> QED BY <1>1, <2>1, <2>2, Typed DEF GridsKept, Kept
<1> QED BY <1>5, <1>6, <1>7, <1>8, <1>9, <1>10, <1>11, <1>12

\* A call waits for its arguments, or is over before it worked.
LEMMA WaitStep ==
  ASSUME OwnerInv, NEW t \in Thread, Others(t), UNCHANGED <<fileVars, ownerVars, view>>,
         call[t].pc \in {"idle", "convert"}, call[t].fresh = None,
         call'[t].pc \in {"idle", "convert"}, call'[t].fresh = None, Shape(call'[t]),
         \A k \in DOMAIN call'[t].views :
           /\ view[call'[t].views[k]].kind = "grid"
           /\ call'[t].op # "node" => view[call'[t].views[k]].file \in call'[t].files,
         \A f \in call'[t].files : state[f] # "none"
  PROVE  TypeOK' => OwnerInv'
<1>1. ~ Running(t) /\ ~ Running(t)' /\ \A u \in Thread : u # t => Running(u)' = Running(u)
  BY DEF Running, Others
<1>2. CallsShaped'
  BY DEF CallsShaped, Others
<1>3. ViewsHeld'
  BY DEF ViewsHeld, Others
<1>4. BlocksApart' /\ HeapExact'
  BY MemoryFrame DEF Others
<1>5. FilesKnown'
  <2>1. \A u \in Thread, f \in File : Opening(u, f)' <=> Opening(u, f)
    BY DEF Opening, Others
  <2> QED BY <2>1 DEF FilesKnown
<1>6. BusyExact'
  <2>1. \A u \in Thread : Running(u)' => Running(u) /\ call'[u] = call[u]
    BY <1>1 DEF Others
  <2>2. \A f \in File : busy'[f] => \E u \in Thread : Running(u)' /\ f \in call'[u].files
    BY <1>1 DEF BusyExact, Others
  <2>3. \A u \in Thread, f \in File : f \in call'[u].files => state'[f] # "none"
    BY DEF BusyExact, Others
  <2> QED BY <2>1, <2>2, <2>3 DEF BusyExact
<1>7. ViewsKnown'
  <2>1. \A f \in File : Replaced(f)' <=> Replaced(f)
    BY DEF Replaced, Others
  <2> QED BY <2>1, Typed DEF ViewsKnown, Known, Current, Good
<1>8. WorkKnown'
  BY <1>1 DEF WorkKnown, Bound, Current, Others
<1>9. GridsKept'
  BY <1>1 DEF GridsKept, Kept, Others
<1> QED BY <1>2, <1>3, <1>4, <1>5, <1>6, <1>7, <1>8, <1>9

LEMMA BeginStep ==
  ASSUME OwnerInv, NEW t \in Thread, NEW c \in Calls, Begin(t, c),
         Yielding \subseteq {"maintain", "node", "release"}
  PROVE  TypeOK' => OwnerInv'
<1>1. /\ c \in CallType /\ c.pc = "idle" /\ c.op # "none" /\ c.fresh = None /\ ~ c.failed
      /\ c.op \notin {"work", "maintain", "node"} => c.views = <<>> /\ \E f \in File : c.files = {f}
      /\ c.op = "node" => /\ c.files = {} /\ DOMAIN c.views = {1} /\ "node" \in Yielding
                          /\ c.views[1] \in View /\ view[c.views[1]].kind = "grid"
      /\ c.op = "read" => c.grid = 1
      /\ c.op = "replace" => c.grid \in Grid
      /\ c.op \in {"work", "maintain"} =>
           /\ c.files = {view[c.views[k]].file : k \in DOMAIN c.views}
           /\ \A k \in DOMAIN c.views : c.views[k] \in View /\ view[c.views[k]].kind = "grid"
           /\ DOMAIN c.views = {1} \/ (c.op = "work" /\ DOMAIN c.views = {1, 2})
  BY CallsKnown
<1>2. /\ call[t] = Idle /\ Admitted(c) /\ UNCHANGED <<fileVars, view>>
      /\ state' = [f \in File |-> IF f \in c.files /\ state[f] = "none" THEN "closed" ELSE state[f]]
  BY DEF Begin
<1>3. ~ Running(t) /\ call[t].fresh = None /\ call[t].files = {} /\ call[t].views = <<>>
  BY <1>2, IdleKnown DEF Running
<1>4. \A k \in DOMAIN c.views : /\ c.views[k] \in View /\ view[c.views[k]].kind = "grid"
                                /\ c.op # "node" => view[c.views[k]].file \in c.files
                                /\ view[c.views[k]].file \in File
  BY <1>1, Typed DEF ViewsKnown, Known
<1>5. c.op = "maintain" => DOMAIN c.views = {1} /\ \E f \in File : c.files = {f}
  <2>1. c.op = "maintain" => DOMAIN c.views = {1} /\ c.files = {view[c.views[1]].file}
    BY <1>1
  <2> QED BY <1>4, <2>1
<1>6. CASE c.op # "node" /\ Confirmed(c) /\ Enter(t, c)
  <2>1. \A k \in DOMAIN c.views : Valid(c.views[k])
    BY <1>1, <1>2, <1>6 DEF Admitted, Confirmed
  <2>2. \A f \in c.files : ~ busy[f] /\ IF c.op = "open" THEN state[f] # "open" ELSE state[f] = "open"
    BY <1>1, <1>2, <2>1 DEF Admitted, Available, Valid, CallType
  <2>3. call[t].pc \in {"idle", "convert"}
    BY <1>2, IdleKnown
  <2> QED BY <1>1, <1>2, <1>3, <1>4, <1>5, <1>6, <2>1, <2>2, <2>3, EnterStep
<1>7. CASE c.op \in Yielding /\ call' = [call EXCEPT ![t] = [c EXCEPT !.pc = "convert"]]
           /\ UNCHANGED <<busy, generation>>
  <2>1. c.op \in {"maintain", "node"} /\ Valid(c.views[1])
    <3>1. c.op \in {"maintain", "node", "release"}
      BY <1>7
    <3>2. c.op # "release"
      BY <1>1 DEF CallType
    <3> QED BY <1>2, <3>1, <3>2 DEF Admitted
  <2>2. \A f \in c.files : state[f] = "open"
    <3>1. CASE c.op = "node"
      BY <1>1, <3>1
    <3>2. CASE c.op = "maintain"
      <4>1. DOMAIN c.views = {1} /\ state[view[c.views[1]].file] = "open"
        BY <1>5, <2>1, <3>2 DEF Valid, Available
      <4>2. c.files = {view[c.views[k]].file : k \in DOMAIN c.views}
        BY <1>1, <3>2
      <4> QED BY <4>1, <4>2
    <3> QED BY <2>1, <3>1, <3>2
  <2>3. UNCHANGED ownerVars
    BY <1>2, <1>7, <2>2 DEF TypeOK
  <2>4. /\ call'[t].pc = "convert" /\ call'[t].op = c.op /\ call'[t].files = c.files
        /\ call'[t].views = c.views /\ call'[t].fresh = None /\ ~ call'[t].failed /\ Others(t)
    BY <1>1, <1>7, <2>1 DEF Others, TypeOK, CallType
  <2>5. Shape(call'[t])
    BY <1>1, <1>5, <2>1, <2>4 DEF Shape
  <2> QED BY <1>2, <1>3, <1>4, <2>2, <2>3, <2>4, <2>5, IdleKnown, WaitStep
<1> QED BY <1>1, <1>6, <1>7 DEF Begin

LEMMA ResumeStep ==
  ASSUME OwnerInv, NEW t \in Thread, Resume(t)
  PROVE  TypeOK' => OwnerInv'
<1> DEFINE c == call[t]
<1>1. /\ c \in CallType /\ c.pc = "convert" /\ DOMAIN c.views = {1}
      /\ \/ c.op = "maintain" /\ \E f \in File : c.files = {f}
         \/ c.op = "node" /\ c.files = {} /\ "node" \in Yielding
      /\ c.fresh = None /\ ~ c.failed /\ ~ Running(t) /\ UNCHANGED <<fileVars, view>>
  BY Typed DEF Resume, CallsShaped, Shape, Running
<1>2. view[c.views[1]].kind = "grid" /\ (c.op # "node" => view[c.views[1]].file \in c.files)
  BY <1>1 DEF ViewsHeld
<1>3. CASE Confirmed(c) /\ Enter(t, c) /\ state' = state
  <2>1. c.op # "node" => Valid(c.views[1])
    BY <1>1, <1>3 DEF Confirmed
  <2>2. \A f \in c.files : ~ busy[f] /\ state[f] = "open"
    BY <1>1, <1>2, <2>1 DEF Valid, Available
  <2>3. state' = [f \in File |-> IF f \in c.files /\ state[f] = "none" THEN "closed" ELSE state[f]]
    BY <1>3, <2>2 DEF TypeOK
  <2> HIDE DEF c
  <2> QED BY <1>1, <1>2, <1>3, <2>1, <2>2, <2>3, EnterStep DEF c
<1>4. CASE call' = [call EXCEPT ![t] = Idle] /\ UNCHANGED ownerVars
  <2>1. Others(t) /\ call'[t] = Idle
    BY <1>4 DEF Others, TypeOK
  <2>2. Shape(call'[t])
    BY <2>1, IdleKnown DEF Shape
  <2> QED BY <1>1, <1>4, <2>1, <2>2, IdleKnown, WaitStep
<1> QED BY <1>3, <1>4 DEF Resume

-----------------------------------------------------------------------------
(* Working.                                                                *)

\* A step of the work of t, on its own files.
Works(t) ==
  /\ Running(t) /\ Running(t)' /\ Others(t) /\ UNCHANGED <<ownerVars, view>>
  /\ call'[t].op = call[t].op /\ call'[t].files = call[t].files /\ call'[t].views = call[t].views
  /\ call'[t].before = call[t].before

LEMMA WorkFrame ==
  ASSUME OwnerInv, NEW t \in Thread, Works(t), Shape(call'[t])
  PROVE  /\ CallsShaped' /\ ViewsHeld' /\ BusyExact'
         /\ \A u \in Thread : Running(u)' = Running(u)
         /\ \A f \in call[t].files : f \in File /\ \A u \in Thread : u # t /\ Running(u) => f \notin call[u].files
<1>1. CallsShaped' /\ ViewsHeld' /\ \A u \in Thread : Running(u)' = Running(u)
  BY DEF Works, Others, CallsShaped, ViewsHeld, Running
<1>2. \A u \in Thread : call'[u].op = call[u].op /\ call'[u].files = call[u].files
  BY DEF Works, Others
<1>3. BusyExact'
  BY <1>1, <1>2 DEF BusyExact, Works
<1>4. \A f \in call[t].files : f \in File /\ \A u \in Thread : u # t /\ Running(u) => f \notin call[u].files
  BY Typed DEF Works, BusyExact
<1> QED BY <1>1, <1>3, <1>4

\* A step that leaves the files what they have.
LEMMA StillStep ==
  ASSUME OwnerInv, NEW t \in Thread, Works(t), Shape(call'[t]), UNCHANGED <<array, count, tree>>,
         BlocksApart', HeapExact',
         call[t].op = "open" => \A f \in call[t].files : Opening(t, f)' <=> Opening(t, f),
         call[t].op = "replace" => call[t].pc # "leave" /\ (call'[t].failed \/ call'[t].pc # "leave"),
         call[t].op = "read" =>
           /\ call'[t].failed \/ (call'[t].grid = call[t].grid /\ ~ call[t].failed)
           /\ call'[t].pc = "leave" => \A f \in call[t].files : call'[t].grid > count[f]
  PROVE  TypeOK' => OwnerInv'
<1>1. /\ CallsShaped' /\ ViewsHeld' /\ BusyExact'
      /\ \A u \in Thread : Running(u)' = Running(u)
  BY WorkFrame
<1>2. FilesKnown'
  <2>1. \A u \in Thread, f \in File : Opening(u, f)' <=> Opening(u, f)
    BY DEF Opening, Works, Others
  <2> QED BY <2>1 DEF FilesKnown, Works
<1>3. ViewsKnown'
  <2>1. \A f \in File : Replaced(f)' <=> Replaced(f)
    BY DEF Replaced, Works, Others, Running
  <2> QED BY <2>1, Typed DEF ViewsKnown, Known, Current, Good, Works
<1>4. WorkKnown'
  BY <1>1 DEF WorkKnown, Bound, Current, Works, Others
<1>5. GridsKept'
  <2>1. \A u \in Thread : u # t => call'[u] = call[u]
    BY DEF Works, Others
  <2>2. ASSUME NEW f \in call[t].files
        PROVE  /\ call'[t].op = "replace" => tree[f] = call'[t].before
               /\ call'[t].op = "read" =>
                    /\ \A i \in Grid : call'[t].before[i] # None => tree[f][i] # None
                    /\ call'[t].failed \/ \A i \in Grid : i < call'[t].grid => tree[f][i] # None
                    /\ call'[t].pc = "leave" => call'[t].grid > count[f]
    BY DEF GridsKept, Kept, Works
  <2> QED BY <1>1, <2>1, <2>2 DEF GridsKept, Kept, Works
<1> QED BY <1>1, <1>2, <1>3, <1>4, <1>5

\* A step that moves no memory.
LEMMA PlainStep ==
  ASSUME OwnerInv, NEW t \in Thread, Works(t), Shape(call'[t]), UNCHANGED fileVars,
         call'[t].fresh = call[t].fresh,
         call[t].op = "open" => \A f \in call[t].files : Opening(t, f)' <=> Opening(t, f),
         call[t].op = "replace" => call[t].pc # "leave" /\ (call'[t].failed \/ call'[t].pc # "leave"),
         call[t].op = "read" =>
           /\ call'[t].failed \/ (call'[t].grid = call[t].grid /\ ~ call[t].failed)
           /\ call'[t].pc = "leave" => \A f \in call[t].files : call'[t].grid > count[f]
  PROVE  TypeOK' => OwnerInv'
<1>1. BlocksApart' /\ HeapExact'
  BY MemoryFrame DEF Works, Others
<1> QED BY <1>1, StillStep

LEMMA GotoIs ==
  ASSUME TypeOK, NEW t \in Thread, NEW l, Goto(t, l)
  PROVE  /\ Others(t) /\ call'[t].pc = l /\ call'[t].failed = call[t].failed
         /\ call'[t].op = call[t].op /\ call'[t].files = call[t].files
         /\ call'[t].views = call[t].views /\ call'[t].grid = call[t].grid
         /\ call'[t].fresh = call[t].fresh /\ call'[t].before = call[t].before
  BY Typed DEF Goto, Others, TypeOK, CallType

LEMMA FailIs ==
  ASSUME TypeOK, NEW t \in Thread, NEW l, Fail(t, l)
  PROVE  /\ Others(t) /\ call'[t].pc = l /\ call'[t].failed
         /\ call'[t].op = call[t].op /\ call'[t].files = call[t].files
         /\ call'[t].views = call[t].views /\ call'[t].grid = call[t].grid
         /\ call'[t].fresh = call[t].fresh /\ call'[t].before = call[t].before
  BY Typed DEF Fail, Others, TypeOK, CallType

\* A step that moves memory of one file leaves the views and the work on the
\* others as they were.
LEMMA ForeignKept ==
  ASSUME OwnerInv, NEW t \in Thread, NEW f \in File, Works(t), call[t].files = {f},
         \A g \in File : g # f => array'[g] = array[g] /\ tree'[g] = tree[g] /\ count'[g] = count[g]
  PROVE  /\ \A u \in Thread : u # t /\ Running(u)' => Bound(u)' /\ Kept(u)'
         /\ \A v \in View : view[v].file # f => Known(v)'
<1>1. ASSUME NEW u \in Thread, u # t, Running(u)'
      PROVE  Bound(u)' /\ Kept(u)'
  <2>1. Running(u) /\ call'[u] = call[u] /\ \A g \in call[u].files : g \in File /\ g # f
    BY <1>1, Typed DEF Works, Others, Running, BusyExact
  <2>2. \A g \in call[u].files : array'[g] = array[g] /\ tree'[g] = tree[g] /\ count'[g] = count[g]
    BY <2>1
  <2>3. Kept(u)'
    BY <2>1, <2>2 DEF GridsKept, Kept
  <2>4. Bound(u)'
    <3>1. call[u].op # "node" =>
            \A k \in DOMAIN call[u].views : view[call[u].views[k]].file \in call[u].files
      BY DEF ViewsHeld
    <3>2. \A v \in View : Current(v)' <=> Current(v)
      BY DEF Current, Works
    <3> QED BY <2>1, <2>2, <3>1, <3>2 DEF WorkKnown, Bound, Works
  <2> QED BY <2>3, <2>4
<1>2. ASSUME NEW v \in View, view[v].file # f
      PROVE  Known(v)'
  <2>1. \A g \in File : g # f => (Replaced(g)' <=> Replaced(g))
    BY DEF Replaced, Works, Others
  <2> QED BY <1>2, <2>1, Typed DEF ViewsKnown, Known, Current, Good, Works
<1> QED BY <1>1, <1>2

\* Which calls open a file does not change but by the call on it.
LEMMA OpeningElsewhere ==
  ASSUME OwnerInv, NEW t \in Thread, NEW f \in File, Works(t), call[t].files = {f}
  PROVE  /\ \A u \in Thread, g \in File : u # t \/ g # f => (Opening(u, g)' <=> Opening(u, g))
         /\ \A u \in Thread : Opening(u, f) \/ Opening(u, f)' => u = t
<1>1. \A u \in Thread : u # t => call'[u] = call[u]
  BY DEF Works, Others
<1>2. \A u \in Thread, g \in File : u # t \/ g # f => (Opening(u, g)' <=> Opening(u, g))
  BY <1>1 DEF Opening, Works
<1>3. \A u \in Thread : Opening(u, f) => Running(u) /\ f \in call[u].files
  BY DEF Opening, Running
<1>4. \A u \in Thread : Opening(u, f) => u = t
  BY <1>3 DEF Works, BusyExact
<1>5. \A u \in Thread : Opening(u, f)' => u = t
  BY <1>2, <1>4
<1> QED BY <1>2, <1>4, <1>5

-----------------------------------------------------------------------------
(* How memory moves.                                                       *)

\* A call takes up a block.
LEMMA TakeUp ==
  ASSUME TypeOK, BlocksApart, HeapExact, NEW t \in Thread, Others(t), NEW b \in Block, b \notin heap,
         heap' = heap \cup {b}, UNCHANGED <<array, tree>>, call[t].fresh = None, call'[t].fresh = b
  PROVE  BlocksApart' /\ HeapExact'
<1>1. b # None
  OBVIOUS
<1>2. BlocksApart'
  <2>1. \A u \in Thread : u # t => call'[u].fresh = call[u].fresh
    BY DEF Others
  <2>2. \A u \in Thread : call[u].fresh # b
    BY <1>1 DEF HeapExact
  <2>3. /\ \A f \in File : array[f] # b
        /\ \A f \in File, i \in Grid : tree[f][i] # b
    BY <1>1 DEF HeapExact
  <2> QED BY <1>1, <2>1, <2>2, <2>3 DEF BlocksApart
<1>3. HeapExact'
  <2>1. \A c \in heap : \/ \E f \in File : array[f] = c
                        \/ \E f \in File, i \in Grid : tree[f][i] = c
                        \/ \E u \in Thread : u # t /\ call[u].fresh = c
    BY DEF HeapExact, TypeOK
  <2>2. \A c \in heap' : \/ \E f \in File : array'[f] = c
                         \/ \E f \in File, i \in Grid : tree'[f][i] = c
                         \/ \E u \in Thread : call'[u].fresh = c
    BY <2>1 DEF Others
  <2> QED BY <1>1, <2>2 DEF HeapExact, Others
<1> QED BY <1>2, <1>3

\* A call frees the block it holds.
LEMMA GiveUp ==
  ASSUME BlocksApart, HeapExact, NEW t \in Thread, Others(t), heap' = heap \ {call[t].fresh},
         UNCHANGED <<array, tree>>, call'[t].fresh = None
  PROVE  BlocksApart' /\ HeapExact'
<1>1. BlocksApart'
  BY DEF BlocksApart, Others
<1>2. HeapExact'
  <2>1. CASE call[t].fresh = None
    BY <2>1 DEF HeapExact, Others
  <2>2. CASE call[t].fresh # None
    <3>1. /\ \A f \in File : array[f] # call[t].fresh
          /\ \A f \in File, i \in Grid : tree[f][i] # call[t].fresh
          /\ \A u \in Thread : u # t => call[u].fresh # call[t].fresh
      BY <2>2 DEF BlocksApart
    <3>2. \A b \in heap' : \/ \E f \in File : array[f] = b
                           \/ \E f \in File, i \in Grid : tree[f][i] = b
                           \/ \E u \in Thread : call'[u].fresh = b
      <4>1. \A b \in heap' : b \in heap /\ b # call[t].fresh
        OBVIOUS
      <4> QED BY <4>1 DEF HeapExact, Others
    <3> QED BY <3>1, <3>2 DEF HeapExact, Others
  <2> QED BY <2>1, <2>2
<1> QED BY <1>1, <1>2

\* The block a call holds takes the place of a tree.
LEMMA HandOver ==
  ASSUME TypeOK, BlocksApart, HeapExact, NEW t \in Thread, Others(t), NEW f \in File, NEW i \in Grid,
         NEW s, Install(f, i, call[t].fresh, s), call[t].fresh # None, call'[t].fresh = None
  PROVE  BlocksApart' /\ HeapExact'
<1>1. /\ heap' = heap \ {tree[f][i]} /\ array' = array /\ tree'[f][i] = call[t].fresh
      /\ \A g \in File, j \in Grid : g # f \/ j # i => tree'[g][j] = tree[g][j]
  BY DEF Install, TypeOK
<1>2. \A u \in Thread : u # t => call'[u].fresh = call[u].fresh
  BY DEF Others
<1>3. BlocksApart'
  BY <1>1, <1>2 DEF BlocksApart
<1>4. HeapExact'
  <2>1. /\ \A g \in File : array[g] # None => array[g] \in heap /\ array[g] # tree[f][i]
        /\ \A g \in File, j \in Grid : (g # f \/ j # i) /\ tree[g][j] # None =>
             tree[g][j] \in heap /\ tree[g][j] # tree[f][i]
        /\ \A u \in Thread : call[u].fresh # None => call[u].fresh \in heap /\ call[u].fresh # tree[f][i]
    BY DEF HeapExact, BlocksApart
  <2>2. \A b \in heap' : \/ \E g \in File : array[g] = b
                         \/ \E g \in File, j \in Grid : (g # f \/ j # i) /\ tree[g][j] = b
                         \/ \E u \in Thread : call[u].fresh = b
    BY <1>1 DEF HeapExact
  <2>3. \A b \in heap' : \/ \E g \in File : array'[g] = b
                         \/ \E g \in File, j \in Grid : tree'[g][j] = b
                         \/ \E u \in Thread : call'[u].fresh = b
    BY <1>1, <1>2, <2>2
  <2> QED BY <1>1, <1>2, <2>1, <2>3 DEF HeapExact
<1> QED BY <1>3, <1>4

\* A file that has nothing gets its array of grids.
LEMMA SetUp ==
  ASSUME TypeOK, BlocksApart, HeapExact, NEW f \in File, NEW b \in Block, b \notin heap,
         heap' = heap \cup {b}, array[f] = None, array'[f] = b, tree' = tree,
         \A g \in File : g # f => array'[g] = array[g],
         \A u \in Thread : call'[u].fresh = call[u].fresh
  PROVE  BlocksApart' /\ HeapExact'
<1>1. b # None
  OBVIOUS
<1>2. /\ \A u \in Thread : call[u].fresh # b
      /\ \A g \in File : array[g] # b
      /\ \A g \in File, i \in Grid : tree[g][i] # b
  BY <1>1 DEF HeapExact
<1>3. BlocksApart'
  BY <1>1, <1>2 DEF BlocksApart
<1>4. HeapExact'
  <2>1. \A c \in heap : \/ \E g \in File : g # f /\ array[g] = c
                        \/ \E g \in File, i \in Grid : tree[g][i] = c
                        \/ \E t \in Thread : call[t].fresh = c
    BY DEF HeapExact, TypeOK
  <2>2. \A c \in heap' : \/ \E g \in File : array'[g] = c
                         \/ \E g \in File, i \in Grid : tree'[g][i] = c
                         \/ \E t \in Thread : call'[t].fresh = c
    BY <2>1
  <2> QED BY <1>1, <2>2 DEF HeapExact
<1> QED BY <1>3, <1>4

-----------------------------------------------------------------------------
(* The steps of the work.                                                  *)

\* A step that moves memory of the one file the call works on.
LEMMA OwnFileStep ==
  ASSUME OwnerInv, NEW t \in Thread, NEW f \in File, Works(t), call[t].files = {f},
         Shape(call'[t]), BlocksApart', HeapExact',
         \A g \in File : g # f => array'[g] = array[g] /\ tree'[g] = tree[g] /\ count'[g] = count[g],
         array'[f] # None <=> (state[f] = "open" \/ Opening(t, f)'),
         state[f] # "open" => \A i \in Grid : tree'[f][i] = None,
         \A v \in View : view[v].file = f => Known(v)',
         Bound(t)', Kept(t)'
  PROVE  TypeOK' => OwnerInv'
<1>1. CallsShaped' /\ ViewsHeld' /\ BusyExact'
  BY WorkFrame
<1>2. FilesKnown'
  <2>1. \A u \in Thread, g \in File : u # t \/ g # f => (Opening(u, g)' <=> Opening(u, g))
    BY OpeningElsewhere
  <2>2. \A u \in Thread : Opening(u, f)' => u = t
    BY OpeningElsewhere
  <2>3. state' = state
    BY DEF Works
  <2>4. ASSUME NEW g \in File
        PROVE  /\ array'[g] # None <=> (state'[g] = "open" \/ \E u \in Thread : Opening(u, g)')
               /\ state'[g] # "open" => \A i \in Grid : tree'[g][i] = None
    <3>1. CASE g = f
      BY <2>2, <2>3, <3>1
    <3>2. CASE g # f
      BY <2>1, <2>3, <3>2 DEF FilesKnown
    <3> QED BY <3>1, <3>2
  <2> QED BY <2>4 DEF FilesKnown
<1>3. \A u \in Thread : u # t /\ Running(u)' => Bound(u)' /\ Kept(u)'
  BY ForeignKept
<1>4. \A v \in View : view[v].file # f => Known(v)'
  BY ForeignKept
<1>5. ViewsKnown'
  BY <1>4 DEF ViewsKnown
<1>6. WorkKnown' /\ GridsKept'
  BY <1>3 DEF WorkKnown, GridsKept
<1> QED BY <1>1, <1>2, <1>5, <1>6

LEMMA ParseStep ==
  ASSUME OwnerInv, NEW t \in Thread, Parse(t)
  PROVE  TypeOK' => OwnerInv'
<1>1. PICK f \in File : /\ f = Target(t) /\ call[t].files = {f} /\ call[t].op = "open"
                       /\ call[t].pc \in {"run", "parse"}
  BY TargetKnown DEF Parse, At
<1>2. UNCHANGED <<ownerVars, view>> /\ Running(t) /\ call[t].fresh = None /\ call[t].views = <<>>
      /\ ~ call[t].failed /\ state[f] = "closed"
  BY <1>1 DEF Parse, Running, CallsShaped, Shape, BusyExact
<1>3. ASSUME NEW l \in {"parse", "leave"}, Goto(t, l) \/ (l = "leave" /\ Fail(t, l))
      PROVE  /\ Works(t) /\ Shape(call'[t]) /\ call'[t].fresh = None /\ call'[t].op = "open"
             /\ call'[t].files = {f} /\ call'[t].views = <<>> /\ call'[t].pc = l
  <2>1. /\ Others(t) /\ call'[t].pc = l
        /\ (call'[t].failed => l = "leave")
        /\ call'[t].op = call[t].op /\ call'[t].files = call[t].files
        /\ call'[t].views = call[t].views /\ call'[t].fresh = call[t].fresh
        /\ call'[t].before = call[t].before
    <3>1. CASE Goto(t, l)
      BY <1>2, <3>1, GotoIs
    <3>2. CASE l = "leave" /\ Fail(t, l)
      BY <3>2, FailIs
    <3> QED BY <1>3, <3>1, <3>2
  <2>2. Shape(call'[t])
    BY <1>1, <1>2, <2>1 DEF Shape
  <2> QED BY <1>1, <1>2, <2>1, <2>2 DEF Works, Running
<1>4. ASSUME call'[t].op = "open", call'[t].views = <<>>, call'[t].files = {f},
             \A v \in View : view[v].file = f => ~ Current(v)
      PROVE  Bound(t)' /\ Kept(t)' /\ (Works(t) => \A v \in View : view[v].file = f => Known(v)')
  <2>1. Bound(t)' /\ Kept(t)'
    BY <1>4 DEF Bound, Kept
  <2>2. ASSUME NEW v \in View, view[v].file = f, Works(t)
        PROVE  Known(v)'
    BY <1>4, <2>2 DEF ViewsKnown, Known, Current, Works
  <2> QED BY <2>1, <2>2
<1>5. \A v \in View : view[v].file = f => ~ Current(v)
  BY <1>2 DEF ViewsKnown, Known
<1>6. CASE Goto(t, "parse") /\ call[t].pc = "run" /\ \E b \in Block : ParseArray(f, b)
  <2>1. /\ Works(t) /\ Shape(call'[t]) /\ call'[t].fresh = None /\ call'[t].op = "open"
        /\ call'[t].files = {f} /\ call'[t].views = <<>> /\ call'[t].pc = "parse"
    BY <1>3, <1>6
  <2>2. PICK b \in Block : ParseArray(f, b)
    BY <1>6
  <2>3. array[f] = None /\ \A i \in Grid : tree[f][i] = None
    <3>1. \A u \in Thread : Opening(u, f) => u = t
      BY <1>1, <2>1, OpeningElsewhere
    <3>2. ~ Opening(t, f)
      BY <1>6 DEF Opening
    <3> QED BY <1>1, <1>2, <3>1, <3>2 DEF FilesKnown
  <2>4. /\ array'[f] = b /\ b \notin heap /\ heap' = heap \cup {b} /\ tree' = tree
        /\ \A g \in File : g # f => array'[g] = array[g] /\ count'[g] = count[g]
    BY <1>1, <2>2 DEF ParseArray, Alloc, TypeOK
  <2>5. BlocksApart' /\ HeapExact'
    <3>1. \A u \in Thread : call'[u].fresh = call[u].fresh
      BY <1>2, <2>1 DEF Works, Others
    <3> QED BY <1>1, <2>3, <2>4, <3>1, SetUp
  <2>6. Opening(t, f)' /\ b # None
    BY <2>1 DEF Opening
  <2> QED BY <1>1, <1>2, <1>4, <1>5, <2>1, <2>3, <2>4, <2>5, <2>6, OwnFileStep
<1>7. CASE Fail(t, "leave") /\ call[t].pc = "run" /\ UNCHANGED fileVars
  <2>1. call'[t].failed
    BY <1>7, FailIs
  <2>2. ~ Opening(t, f) /\ ~ Opening(t, f)'
    BY <1>7, <2>1, FailIs DEF Opening
  <2> QED BY <1>1, <1>2, <1>3, <1>7, <2>2, PlainStep
<1>8. CASE Goto(t, "leave") /\ call[t].pc = "parse" /\ UNCHANGED fileVars
  <2>1. Opening(t, f) /\ Opening(t, f)'
    BY <1>1, <1>2, <1>8, GotoIs DEF Opening
  <2> QED BY <1>1, <1>2, <1>3, <1>8, <2>1, PlainStep
<1>9. CASE Fail(t, "leave") /\ call[t].pc = "parse" /\ CloseFile(f)
  <2>1. /\ Works(t) /\ Shape(call'[t]) /\ call'[t].fresh = None /\ call'[t].op = "open"
        /\ call'[t].files = {f} /\ call'[t].views = <<>>
    BY <1>3, <1>9
  <2>2. ~ Opening(t, f)'
    BY <1>9, FailIs DEF Opening
  <2>3. /\ array'[f] = None /\ heap' = heap \ Owned(f) /\ \A i \in Grid : tree'[f][i] = None
        /\ \A g \in File : g # f => array'[g] = array[g] /\ tree'[g] = tree[g] /\ count'[g] = count[g]
    BY <1>1, <1>9 DEF CloseFile, NoTrees, TypeOK
  <2>4. \A u \in Thread : call'[u].fresh = call[u].fresh
    BY <1>2, <2>1 DEF Works, Others
  <2>5. BlocksApart'
    BY <2>3, <2>4 DEF BlocksApart
  <2>6. HeapExact'
    BY <1>1, <2>3, <2>4 DEF HeapExact, BlocksApart, Owned
  <2> QED BY <1>1, <1>2, <1>4, <1>5, <2>1, <2>2, <2>3, <2>5, <2>6, OwnFileStep
<1> QED BY <1>1, <1>6, <1>7, <1>8, <1>9 DEF Parse, At

LEMMA BuildStep ==
  ASSUME OwnerInv, NEW t \in Thread, Build(t)
  PROVE  TypeOK' => OwnerInv'
<1>1. PICK f \in File : /\ call[t].files = {f} /\ call[t].op \in {"replace", "maintain"}
                        /\ call[t].pc = "run" /\ Running(t)
  BY TargetKnown DEF Build, Running
<1>2. /\ UNCHANGED <<ownerVars, view>> /\ call[t].fresh = None /\ ~ call[t].failed
      /\ call[t].op = "maintain" => DOMAIN call[t].views = {1}
      /\ call[t].op = "replace" => call[t].grid \in Grid /\ call[t].views = <<>>
  BY <1>1 DEF Build, CallsShaped, Shape
<1>3. CASE Fail(t, "leave") /\ UNCHANGED fileVars
  <2>1. /\ Others(t) /\ call'[t].pc = "leave" /\ call'[t].failed
        /\ call'[t].op = call[t].op /\ call'[t].files = call[t].files
        /\ call'[t].views = call[t].views /\ call'[t].grid = call[t].grid
        /\ call'[t].fresh = call[t].fresh /\ call'[t].before = call[t].before
    BY <1>3, FailIs
  <2>2. Works(t) /\ Shape(call'[t])
    BY <1>1, <1>2, <2>1 DEF Works, Running, Shape
  <2> QED BY <1>1, <1>3, <2>1, <2>2, PlainStep
<1>4. ASSUME NEW b \in Block, b \notin heap, heap' = heap \cup {b},
             UNCHANGED <<array, count, tree, offsets>>,
             call' = [call EXCEPT ![t].pc = "built", ![t].fresh = b]
      PROVE  TypeOK' => OwnerInv'
  <2>1. /\ Others(t) /\ call'[t].pc = "built" /\ (call'[t].failed <=> call[t].failed)
        /\ call'[t].op = call[t].op /\ call'[t].files = call[t].files
        /\ call'[t].views = call[t].views /\ call'[t].grid = call[t].grid
        /\ call'[t].fresh = b /\ call'[t].before = call[t].before
    <3>1. call[t] \in CallType
      BY Typed
    <3>2. Others(t) /\ call'[t] = [call[t] EXCEPT !.pc = "built", !.fresh = b]
      BY <1>4 DEF Others, TypeOK
    <3> QED BY <3>1, <3>2 DEF CallType
  <2>2. Works(t) /\ Shape(call'[t])
    BY <1>1, <1>2, <2>1 DEF Works, Running, Shape
  <2>3. BlocksApart' /\ HeapExact'
    BY <1>2, <1>4, <2>1, TakeUp
  <2> QED BY <1>1, <1>4, <2>1, <2>2, <2>3, StillStep
<1>5. \/ Fail(t, "leave") /\ UNCHANGED fileVars
      \/ \E b \in Block : /\ b \notin heap /\ heap' = heap \cup {b}
                          /\ UNCHANGED <<array, count, tree, offsets>>
                          /\ call' = [call EXCEPT ![t].pc = "built", ![t].fresh = b]
  BY DEF Build, Alloc
<1> QED BY <1>3, <1>4, <1>5

LEMMA BuiltStep ==
  ASSUME OwnerInv, NEW t \in Thread, Built(t)
  PROVE  TypeOK' => OwnerInv'
<1>1. PICK f \in File : /\ f = Target(t) /\ call[t].files = {f}
                        /\ call[t].op \in {"replace", "maintain"}
                        /\ call[t].pc = "built" /\ Running(t)
  BY TargetKnown DEF Built, Running
<1>2. /\ UNCHANGED <<ownerVars, view>> /\ call[t].fresh # None /\ ~ call[t].failed
      /\ call[t].op = "maintain" => DOMAIN call[t].views = {1}
      /\ call[t].op = "replace" => call[t].grid \in Grid /\ call[t].views = <<>>
  BY <1>1 DEF Built, CallsShaped, Shape
<1>3. CASE /\ call[t].op = "replace" /\ Install(f, call[t].grid, call[t].fresh, FALSE)
           /\ call' = [call EXCEPT ![t].pc = "leave", ![t].fresh = None]
  <2>1. PICK i \in Grid : i = call[t].grid
    BY <1>2, <1>3
  <2>2. /\ Others(t) /\ call'[t].pc = "leave" /\ (call'[t].failed <=> call[t].failed)
        /\ call'[t].op = call[t].op /\ call'[t].files = call[t].files
        /\ call'[t].views = call[t].views /\ call'[t].grid = call[t].grid
        /\ call'[t].fresh = None /\ call'[t].before = call[t].before
    <3>1. call[t] \in CallType
      BY Typed
    <3>2. Others(t) /\ call'[t] = [call[t] EXCEPT !.pc = "leave", !.fresh = None]
      BY <1>3 DEF Others, TypeOK
    <3> QED BY <3>1, <3>2 DEF CallType
  <2>3. Works(t) /\ Shape(call'[t])
    BY <1>1, <1>2, <1>3, <2>1, <2>2 DEF Works, Running, Shape
  <2>4. BlocksApart' /\ HeapExact'
    BY <1>2, <1>3, <2>1, <2>2, HandOver
  <2>5. array' = array /\ count' = count /\ \A g \in File : g # f => tree'[g] = tree[g]
    BY <1>3, <2>1 DEF Install, TypeOK
  <2>6. Replaced(f)'
    BY <1>1, <1>2, <1>3, <2>2 DEF Replaced
  <2>7. state[f] = "open" /\ array'[f] # None
    BY <1>1, <1>3, <2>5 DEF BusyExact, FilesKnown
  <2>8. ASSUME NEW v \in View, view[v].file = f
        PROVE  Known(v)'
    <3>1. /\ Known(v) /\ view[v].kind \in {"none", "grid", "node"} /\ view'[v] = view[v]
          /\ UNCHANGED <<state, generation>>
      BY <1>2, Typed DEF ViewsKnown, ViewType
    <3>2. view[v].kind = "grid" /\ Good(v) => Good(v)'
      BY <2>5, <3>1 DEF Good
    <3>3. Current(v)' <=> Current(v)
      BY <3>1 DEF Current
    <3> QED BY <2>6, <2>7, <2>8, <3>1, <3>2, <3>3 DEF Known
  <2>9. Bound(t)' /\ Kept(t)'
    <3>1. /\ call'[t].op = "replace" /\ call'[t].pc = "leave" /\ ~ call'[t].failed
          /\ call'[t].views = <<>>
      BY <1>2, <1>3, <2>2
    <3>2. Bound(t)'
      BY <3>1 DEF Bound
    <3>3. Kept(t)'
      BY <3>1 DEF Kept
    <3> QED BY <3>2, <3>3
  <2> QED BY <1>1, <2>3, <2>4, <2>5, <2>7, <2>8, <2>9, OwnFileStep
<1>4. CASE call[t].op = "maintain" /\ Goto(t, "leave") /\ UNCHANGED fileVars
  <2>1. /\ Others(t) /\ call'[t].pc = "leave" /\ call'[t].failed = call[t].failed
        /\ call'[t].op = call[t].op /\ call'[t].files = call[t].files
        /\ call'[t].views = call[t].views /\ call'[t].grid = call[t].grid
        /\ call'[t].fresh = call[t].fresh /\ call'[t].before = call[t].before
    BY <1>4, GotoIs
  <2>2. Works(t) /\ Shape(call'[t])
    BY <1>1, <1>2, <1>4, <2>1 DEF Works, Running, Shape
  <2> QED BY <1>1, <1>4, <2>1, <2>2, PlainStep
<1>5. CASE /\ Discard(call[t].fresh)
           /\ call' = [call EXCEPT ![t].pc = "leave", ![t].fresh = None, ![t].failed = TRUE]
  <2>1. /\ Others(t) /\ call'[t].pc = "leave" /\ call'[t].failed
        /\ call'[t].op = call[t].op /\ call'[t].files = call[t].files
        /\ call'[t].views = call[t].views /\ call'[t].grid = call[t].grid
        /\ call'[t].fresh = None /\ call'[t].before = call[t].before
    <3>1. call[t] \in CallType
      BY Typed
    <3>2. Others(t) /\ call'[t] = [call[t] EXCEPT !.pc = "leave", !.fresh = None, !.failed = TRUE]
      BY <1>5 DEF Others, TypeOK
    <3> QED BY <3>1, <3>2 DEF CallType
  <2>2. Works(t) /\ Shape(call'[t])
    BY <1>1, <1>2, <2>1 DEF Works, Running, Shape
  <2>3. BlocksApart' /\ HeapExact'
    BY <1>5, <2>1, GiveUp DEF Discard
  <2> QED BY <1>1, <1>5, <2>1, <2>2, <2>3, StillStep DEF Discard
<1> QED BY <1>1, <1>3, <1>4, <1>5 DEF Built

LEMMA LoadStep ==
  ASSUME OwnerInv, NEW t \in Thread, Load(t)
  PROVE  TypeOK' => OwnerInv'
<1>1. PICK f \in File : /\ f = Target(t) /\ call[t].files = {f} /\ call[t].op = "read"
                        /\ call[t].pc = "run" /\ Running(t)
  BY TargetKnown DEF Load, At, Running
<1>2. /\ UNCHANGED <<ownerVars, view>> /\ call[t].fresh = None /\ call[t].views = <<>>
      /\ call[t].grid \in Grid
  <2>1. call[t].grid \in 0..(NumGrids + 1) /\ call[t].grid # 0 /\ call[t].grid <= count[f]
        /\ count[f] \in 0..NumGrids
    BY <1>1, Typed DEF Load, CallsShaped, Shape, CallType, TypeOK
  <2> QED BY <1>1, <2>1 DEF Load, CallsShaped, Shape
<1>3. ASSUME call' = [call EXCEPT ![t].grid = @ + 1, ![t].failed = TRUE], UNCHANGED fileVars
      PROVE  TypeOK' => OwnerInv'
  <2>1. /\ Others(t) /\ call'[t].pc = "run" /\ call'[t].failed
        /\ call'[t].op = call[t].op /\ call'[t].files = call[t].files
        /\ call'[t].views = call[t].views /\ call'[t].grid = call[t].grid + 1
        /\ call'[t].fresh = call[t].fresh /\ call'[t].before = call[t].before
    <3>1. call[t] \in CallType
      BY Typed
    <3>2. Others(t) /\ call'[t] = [call[t] EXCEPT !.grid = @ + 1, !.failed = TRUE]
      BY <1>3 DEF Others, TypeOK
    <3> QED BY <1>1, <3>1, <3>2 DEF CallType
  <2>2. Works(t) /\ Shape(call'[t])
    BY <1>1, <1>2, <2>1 DEF Works, Running, Shape
  <2> QED BY <1>1, <1>3, <2>1, <2>2, PlainStep
<1>4. ASSUME NEW b \in Block, b \notin heap, heap' = heap \cup {b},
             UNCHANGED <<array, count, tree, offsets>>,
             call' = [call EXCEPT ![t].pc = "load", ![t].fresh = b]
      PROVE  TypeOK' => OwnerInv'
  <2>1. /\ Others(t) /\ call'[t].pc = "load" /\ (call'[t].failed <=> call[t].failed)
        /\ call'[t].op = call[t].op /\ call'[t].files = call[t].files
        /\ call'[t].views = call[t].views /\ call'[t].grid = call[t].grid
        /\ call'[t].fresh = b /\ call'[t].before = call[t].before
    <3>1. call[t] \in CallType
      BY Typed
    <3>2. Others(t) /\ call'[t] = [call[t] EXCEPT !.pc = "load", !.fresh = b]
      BY <1>4 DEF Others, TypeOK
    <3> QED BY <3>1, <3>2 DEF CallType
  <2>2. Works(t) /\ Shape(call'[t])
    BY <1>1, <1>2, <2>1 DEF Works, Running, Shape
  <2>3. BlocksApart' /\ HeapExact'
    BY <1>2, <1>4, <2>1, TakeUp
  <2> QED BY <1>1, <1>4, <2>1, <2>2, <2>3, StillStep
<1>5. \/ call' = [call EXCEPT ![t].grid = @ + 1, ![t].failed = TRUE] /\ UNCHANGED fileVars
      \/ \E b \in Block : /\ b \notin heap /\ heap' = heap \cup {b}
                          /\ UNCHANGED <<array, count, tree, offsets>>
                          /\ call' = [call EXCEPT ![t].pc = "load", ![t].fresh = b]
  BY DEF Load, Alloc
<1> QED BY <1>3, <1>4, <1>5

LEMMA LoadedStep ==
  ASSUME OwnerInv, NEW t \in Thread, Loaded(t)
  PROVE  TypeOK' => OwnerInv'
<1>1. PICK f \in File : /\ f = Target(t) /\ call[t].files = {f} /\ call[t].op = "read"
                        /\ call[t].pc = "load" /\ Running(t)
  BY TargetKnown DEF Loaded, At, Running
<1>2. /\ UNCHANGED <<ownerVars, view>> /\ call[t].fresh # None /\ call[t].views = <<>>
  BY <1>1 DEF Loaded, CallsShaped, Shape
<1>3. PICK i \in Grid : i = call[t].grid /\ i \in Nat
  BY <1>1 DEF CallsShaped, Shape
<1>4. CASE /\ Install(f, call[t].grid, call[t].fresh, TRUE)
           /\ call' = [call EXCEPT ![t].pc = "run", ![t].fresh = None, ![t].grid = @ + 1]
  <2>1. /\ Others(t) /\ call'[t].pc = "run" /\ (call'[t].failed <=> call[t].failed)
        /\ call'[t].op = call[t].op /\ call'[t].files = call[t].files
        /\ call'[t].views = call[t].views /\ call'[t].grid = i + 1
        /\ call'[t].fresh = None /\ call'[t].before = call[t].before
    <3>1. call[t] \in CallType
      BY Typed
    <3>2. Others(t) /\ call'[t] = [call[t] EXCEPT !.pc = "run", !.fresh = None, !.grid = @ + 1]
      BY <1>4 DEF Others, TypeOK
    <3> QED BY <1>3, <3>1, <3>2 DEF CallType
  <2>2. Works(t) /\ Shape(call'[t])
    BY <1>1, <1>2, <2>1 DEF Works, Running, Shape
  <2>3. BlocksApart' /\ HeapExact'
    BY <1>2, <1>3, <1>4, <2>1, HandOver
  <2>4. /\ array' = array /\ count' = count /\ tree'[f][i] = call[t].fresh
        /\ \A g \in File : g # f => tree'[g] = tree[g]
        /\ \A j \in Grid : j # i => tree'[f][j] = tree[f][j]
    BY <1>3, <1>4 DEF Install, TypeOK
  <2>5. state[f] = "open" /\ array'[f] # None
    BY <1>1, <2>4 DEF BusyExact, FilesKnown
  <2>6. \A v \in View : view[v].file = f => ~ Current(v)
    BY <1>1 DEF WorkKnown, Bound
  <2>7. ASSUME NEW v \in View, view[v].file = f
        PROVE  Known(v)'
    BY <1>2, <2>6, <2>7 DEF ViewsKnown, Known, Current
  <2>8. Bound(t)'
    BY <1>1, <1>2, <2>1, <2>6 DEF Bound, Current
  <2>9. Kept(t)'
    <3>1. /\ \A j \in Grid : call[t].before[j] # None => tree[f][j] # None
          /\ call[t].failed \/ \A j \in Grid : j < i => tree[f][j] # None
      BY <1>1, <1>3 DEF GridsKept, Kept
    <3>2. \A j \in Grid : j < i + 1 <=> j < i \/ j = i
      BY <1>3
    <3>3. /\ \A j \in Grid : call[t].before[j] # None => tree'[f][j] # None
          /\ call[t].failed \/ \A j \in Grid : j < i + 1 => tree'[f][j] # None
      BY <1>2, <2>4, <3>1, <3>2
    <3> QED BY <1>1, <2>1, <3>3 DEF Kept
  <2> QED BY <1>1, <2>2, <2>3, <2>4, <2>5, <2>7, <2>8, <2>9, OwnFileStep
<1>5. CASE /\ Discard(call[t].fresh)
           /\ call' = [call EXCEPT ![t].pc = "run", ![t].fresh = None, ![t].grid = @ + 1,
                                   ![t].failed = TRUE]
  <2>1. /\ Others(t) /\ call'[t].pc = "run" /\ call'[t].failed
        /\ call'[t].op = call[t].op /\ call'[t].files = call[t].files
        /\ call'[t].views = call[t].views /\ call'[t].grid = i + 1
        /\ call'[t].fresh = None /\ call'[t].before = call[t].before
    <3>1. call[t] \in CallType
      BY Typed
    <3>2. Others(t) /\ call'[t] = [call[t] EXCEPT !.pc = "run", !.fresh = None, !.grid = @ + 1, !.failed = TRUE]
      BY <1>5 DEF Others, TypeOK
    <3> QED BY <1>3, <3>1, <3>2 DEF CallType
  <2>2. Works(t) /\ Shape(call'[t])
    BY <1>1, <1>2, <2>1 DEF Works, Running, Shape
  <2>3. BlocksApart' /\ HeapExact'
    BY <1>5, <2>1, GiveUp DEF Discard
  <2> QED BY <1>1, <1>5, <2>1, <2>2, <2>3, StillStep DEF Discard
<1> QED BY <1>1, <1>4, <1>5 DEF Loaded

LEMMA ReadAllStep ==
  ASSUME OwnerInv, NEW t \in Thread, ReadAll(t)
  PROVE  TypeOK' => OwnerInv'
<1>1. PICK f \in File : /\ f = Target(t) /\ call[t].files = {f} /\ call[t].op = "read"
                        /\ call[t].pc = "run" /\ Running(t)
  BY TargetKnown DEF ReadAll, At, Running
<1>2. /\ UNCHANGED <<fileVars, ownerVars, view>> /\ call[t].fresh = None /\ call[t].views = <<>>
      /\ call[t].grid > count[f] /\ call[t].grid # 0
  BY <1>1 DEF ReadAll, CallsShaped, Shape
<1>3. /\ Others(t) /\ call'[t].pc = "leave" /\ call'[t].failed = call[t].failed
      /\ call'[t].op = call[t].op /\ call'[t].files = call[t].files
      /\ call'[t].views = call[t].views /\ call'[t].grid = call[t].grid
      /\ call'[t].fresh = call[t].fresh /\ call'[t].before = call[t].before
  BY GotoIs DEF ReadAll
<1>4. Works(t) /\ Shape(call'[t])
  BY <1>1, <1>2, <1>3 DEF Works, Running, Shape
<1> QED BY <1>1, <1>2, <1>3, <1>4, PlainStep

-----------------------------------------------------------------------------
(* Leaving.                                                                *)

\* A call is over: its files are free, the others are what they were.
LEMMA LeaveFrame ==
  ASSUME OwnerInv, NEW t \in Thread, Running(t), Others(t), call'[t] = Idle, view' = view,
         busy' = [f \in File |-> busy[f] /\ f \notin call[t].files],
         \A g \in File : state[g] # "none" => state'[g] # "none",
         \A g \in File : g \notin call[t].files /\ state[g] # "none" =>
           /\ state'[g] = state[g] /\ generation'[g] = generation[g]
           /\ array'[g] = array[g] /\ count'[g] = count[g] /\ tree'[g] = tree[g],
         \A v \in View : view[v].file \in call[t].files => Known(v)'
  PROVE  /\ CallsShaped' /\ ViewsHeld' /\ BusyExact' /\ ViewsKnown' /\ WorkKnown' /\ GridsKept'
         /\ \A u \in Thread, f \in File : Opening(u, f)' <=> u # t /\ Opening(u, f)
<1>1. \A u \in Thread : u # t => call'[u] = call[u]
  BY DEF Others
<1>2. ~ Running(t)' /\ \A u \in Thread : u # t => Running(u)' = Running(u)
  BY <1>1, IdleKnown DEF Running
<1>3. CallsShaped'
  <2>1. Shape(call'[t])
    BY IdleKnown DEF Shape
  <2> QED BY <1>1, <2>1 DEF CallsShaped
<1>4. ViewsHeld'
  BY <1>1, IdleKnown DEF ViewsHeld
<1>5. ASSUME NEW u \in Thread, Running(u)'
      PROVE  /\ u # t /\ Running(u) /\ call'[u] = call[u]
             /\ \A g \in call[u].files : g \in File /\ g \notin call[t].files /\ state[g] # "none"
  BY <1>1, <1>2, <1>5, Typed DEF BusyExact
<1>6. BusyExact'
  <2>1. ASSUME NEW f \in File, busy'[f]
        PROVE  \E u \in Thread : Running(u)' /\ f \in call'[u].files
    <3>1. PICK u \in Thread : Running(u) /\ f \in call[u].files /\ f \notin call[t].files
      BY <2>1 DEF BusyExact
    <3> QED BY <1>1, <1>2, <3>1
  <2>2. ASSUME NEW u \in Thread, Running(u)', NEW f \in call'[u].files
        PROVE  /\ busy'[f] /\ state'[f] = IF call'[u].op = "open" THEN "closed" ELSE "open"
               /\ \A w \in Thread : Running(w)' /\ f \in call'[w].files => w = u
    <3>1. /\ u # t /\ Running(u) /\ call'[u] = call[u] /\ f \in call[u].files
          /\ f \in File /\ f \notin call[t].files /\ state[f] # "none"
      BY <1>5, <2>2
    <3>2. busy[f] /\ state[f] = IF call[u].op = "open" THEN "closed" ELSE "open"
      BY <3>1 DEF BusyExact
    <3>3. busy'[f] /\ state'[f] = state[f]
      BY <3>1, <3>2
    <3>4. \A w \in Thread : Running(w)' /\ f \in call'[w].files => w = u
      BY <1>5, <3>1 DEF BusyExact
    <3> QED BY <3>1, <3>2, <3>3, <3>4
  <2>3. ASSUME NEW u \in Thread, NEW f \in File, f \in call'[u].files
        PROVE  state'[f] # "none"
    BY <1>1, <2>3, IdleKnown DEF BusyExact
  <2> QED BY <2>1, <2>2, <2>3 DEF BusyExact
<1>7. ViewsKnown'
  <2>1. \A g \in File : g \notin call[t].files => (Replaced(g)' <=> Replaced(g))
    BY <1>1, IdleKnown DEF Replaced
  <2>2. ASSUME NEW v \in View, view[v].file \notin call[t].files
        PROVE  Known(v)'
    <3>1. CASE view[v].file = None
      BY <3>1 DEF ViewsKnown, Known, Current
    <3>2. CASE view[v].file # None
      <4>1. view[v].file \in File /\ state[view[v].file] # "none"
        BY <3>2, Typed DEF ViewsKnown, Known
      <4>2. /\ state'[view[v].file] = state[view[v].file]
            /\ generation'[view[v].file] = generation[view[v].file]
            /\ array'[view[v].file] = array[view[v].file]
            /\ tree'[view[v].file] = tree[view[v].file]
            /\ Replaced(view[v].file)' <=> Replaced(view[v].file)
        BY <2>1, <2>2, <4>1
      <4> QED BY <4>1, <4>2 DEF ViewsKnown, Known, Current, Good
    <3> QED BY <3>1, <3>2
  <2> QED BY <2>2 DEF ViewsKnown
<1>8. WorkKnown'
  <2>1. ASSUME NEW u \in Thread, Running(u)'
        PROVE  Bound(u)'
    <3>1. /\ u # t /\ Running(u) /\ call'[u] = call[u]
          /\ \A g \in call[u].files : /\ g \in File /\ generation'[g] = generation[g]
                                      /\ array'[g] = array[g]
      BY <1>5, <2>1
    <3>2. call[u].op # "node" =>
            \A k \in DOMAIN call[u].views : view[call[u].views[k]].file \in call[u].files
      BY DEF ViewsHeld
    <3>3. \A v \in View : view[v].file \in call[u].files => (Current(v)' <=> Current(v))
      BY <3>1 DEF Current
    <3> QED BY <3>1, <3>2, <3>3 DEF WorkKnown, Bound
  <2> QED BY <2>1 DEF WorkKnown
<1>9. GridsKept'
  <2>1. ASSUME NEW u \in Thread, Running(u)'
        PROVE  Kept(u)'
    <3>1. /\ u # t /\ Running(u) /\ call'[u] = call[u]
          /\ \A g \in call[u].files : g \in File /\ count'[g] = count[g] /\ tree'[g] = tree[g]
      BY <1>5, <2>1
    <3> QED BY <3>1 DEF GridsKept, Kept
  <2> QED BY <2>1 DEF GridsKept
<1>10. \A u \in Thread, f \in File : Opening(u, f)' <=> u # t /\ Opening(u, f)
  BY <1>1, IdleKnown DEF Opening
<1> QED BY <1>3, <1>4, <1>6, <1>7, <1>8, <1>9, <1>10

LEMMA LeaveStep ==
  ASSUME OwnerInv, NEW t \in Thread, Leave(t)
  PROVE  TypeOK' => OwnerInv'
<1> DEFINE c == call[t]
           ok == ~ call[t].failed
<1>1. /\ Others(t) /\ call'[t] = Idle /\ UNCHANGED <<fileVars, view>> /\ Running(t)
      /\ c.fresh = None /\ c.files \subseteq File
  <2>1. Others(t) /\ call'[t] = Idle /\ UNCHANGED <<fileVars, view>>
    BY DEF Leave, Others, TypeOK
  <2>2. Running(t)
    BY DEF Leave, Running
  <2>3. c.fresh = None
    BY DEF Leave, CallsShaped, Shape
  <2>4. c.files \subseteq File
    BY Typed
  <2> QED BY <2>1, <2>2, <2>3, <2>4
<1>2. /\ busy' = [f \in File |-> busy[f] /\ f \notin c.files]
      /\ state' = [f \in File |-> IF c.op = "open" /\ f \in c.files /\ ok THEN "open" ELSE state[f]]
      /\ generation' = [f \in File |-> IF c.op = "replace" /\ f \in c.files /\ ok
                                       THEN generation[f] + 1 ELSE generation[f]]
      /\ c.op = "open" => c.pc = "leave"
      /\ c.pc = "leave" \/ c.op # "replace"
  BY DEF Leave
<1>3. ASSUME NEW v \in View, view[v].file \in c.files
      PROVE  Known(v)'
  <2>1. PICK f \in File : f = view[v].file /\ f \in c.files
    BY <1>1, <1>3
  <2>2. /\ state[f] = IF c.op = "open" THEN "closed" ELSE "open"
        /\ view[v].gen <= generation[f] /\ view[v].gen \in Nat /\ generation[f] \in Nat
        /\ view[v].ptr # None /\ view[v].grid \in Grid /\ view[v].kind # "none"
    BY <1>1, <2>1, Typed DEF BusyExact, ViewsKnown, Known
  <2>3. CASE c.op = "open"
    BY <1>1, <1>2, <2>1, <2>2, <2>3 DEF ViewsKnown, Known, Current
  <2>4. CASE c.op = "replace" /\ ok
    BY <1>1, <1>2, <2>1, <2>2, <2>4 DEF Known, Current
  <2>5. CASE c.op # "open" /\ ~ (c.op = "replace" /\ ok)
    <3>1. state'[f] = state[f] /\ generation'[f] = generation[f]
      BY <1>2, <2>5
    <3>2. Replaced(f) => Replaced(f)'
      BY <1>1, <2>5 DEF Replaced, Others
    <3> QED BY <1>1, <2>1, <2>2, <3>1, <3>2 DEF ViewsKnown, Known, Current, Good
  <2> QED BY <2>3, <2>4, <2>5
<1>4. /\ CallsShaped' /\ ViewsHeld' /\ BusyExact' /\ ViewsKnown' /\ WorkKnown' /\ GridsKept'
      /\ \A u \in Thread, f \in File : Opening(u, f)' <=> u # t /\ Opening(u, f)
  <2>1. \A g \in File : state[g] # "none" => state'[g] # "none"
    BY <1>2
  <2>2. \A g \in File : g \notin c.files /\ state[g] # "none" =>
          /\ state'[g] = state[g] /\ generation'[g] = generation[g]
          /\ array'[g] = array[g] /\ count'[g] = count[g] /\ tree'[g] = tree[g]
    BY <1>1, <1>2
  <2> QED BY <1>1, <1>2, <1>3, <2>1, <2>2, LeaveFrame
<1>5. BlocksApart' /\ HeapExact'
  BY <1>1, MemoryFrame, IdleKnown DEF Others
<1>6. FilesKnown'
  <2>1. ASSUME NEW f \in File
        PROVE  /\ array'[f] # None <=> (state'[f] = "open" \/ \E u \in Thread : Opening(u, f)')
               /\ state'[f] # "open" => \A i \in Grid : tree'[f][i] = None
    <3>1. CASE Opening(t, f)
      <4>1. c.op = "open" /\ f \in c.files /\ ok
        BY <1>2, <3>1 DEF Opening
      <4>2. state'[f] = "open"
        BY <1>2, <4>1
      <4> QED BY <1>1, <3>1, <4>2 DEF FilesKnown
    <3>2. CASE ~ Opening(t, f)
      <4>1. state'[f] = state[f]
        BY <1>2, <3>2 DEF Opening
      <4>2. (\E u \in Thread : Opening(u, f)') <=> \E u \in Thread : Opening(u, f)
        BY <1>4, <3>2
      <4> QED BY <1>1, <4>1, <4>2 DEF FilesKnown
    <3> QED BY <3>1, <3>2
  <2> QED BY <2>1 DEF FilesKnown
<1> QED BY <1>4, <1>5, <1>6

\* A result becomes the one grid of a new owner.
LEMMA AdoptMemory ==
  ASSUME TypeOK, BlocksApart, HeapExact, NEW t \in Thread, Others(t), call'[t].fresh = None,
         call[t].fresh # None, NEW f \in File, NEW b \in Block, Adopt(f, call[t].fresh, b),
         array[f] = None, \A i \in Grid : tree[f][i] = None
  PROVE  /\ BlocksApart' /\ HeapExact' /\ array'[f] = b
         /\ \A g \in File : g # f => array'[g] = array[g] /\ tree'[g] = tree[g] /\ count'[g] = count[g]
<1> DEFINE r == call[t].fresh
<1>1. /\ b \notin heap /\ b # None /\ heap' = heap \cup {b} /\ array'[f] = b /\ 1 \in Grid
      /\ tree'[f][1] = r /\ \A i \in Grid : i # 1 => tree'[f][i] = None
      /\ \A g \in File : g # f => array'[g] = array[g] /\ tree'[g] = tree[g] /\ count'[g] = count[g]
  BY DEF Adopt, Alloc, TypeOK
<1>2. \A u \in Thread : u # t => call'[u].fresh = call[u].fresh
  BY DEF Others
<1>3. /\ \A u \in Thread : call[u].fresh # b
      /\ \A g \in File : array[g] # b
      /\ \A g \in File, i \in Grid : tree[g][i] # b
  BY <1>1 DEF HeapExact
<1>4. /\ \A u \in Thread : u # t => call[u].fresh # r
      /\ \A g \in File : array[g] # r
      /\ \A g \in File, i \in Grid : tree[g][i] # r
      /\ r \in heap
  BY DEF BlocksApart, HeapExact
<1>5. /\ \A g, h \in File : array'[g] # None /\ array'[g] = array'[h] => g = h
      /\ \A g, h \in File, i \in Grid : tree'[g][i] # None => tree'[g][i] # array'[h]
  BY <1>1, <1>3, <1>4 DEF BlocksApart
<1>6. \A g, h \in File, i, j \in Grid :
        tree'[g][i] # None /\ tree'[g][i] = tree'[h][j] => g = h /\ i = j
  <2>1. ASSUME NEW g \in File, NEW h \in File, NEW i \in Grid, NEW j \in Grid,
               tree'[g][i] # None, tree'[g][i] = tree'[h][j]
        PROVE  g = h /\ i = j
    <3>1. CASE g = f /\ h = f
      BY <1>1, <1>4, <2>1, <3>1
    <3>2. CASE g = f /\ h # f
      BY <1>1, <1>4, <2>1, <3>2
    <3>3. CASE g # f /\ h = f
      BY <1>1, <1>4, <2>1, <3>3
    <3>4. CASE g # f /\ h # f
      BY <1>1, <2>1, <3>4 DEF BlocksApart
    <3> QED BY <3>1, <3>2, <3>3, <3>4
  <2> QED BY <2>1
<1>7. /\ \A u \in Thread, g \in File : call'[u].fresh # None => call'[u].fresh # array'[g]
      /\ \A u \in Thread, g \in File, i \in Grid : call'[u].fresh # None => call'[u].fresh # tree'[g][i]
      /\ \A u, w \in Thread : call'[u].fresh # None /\ call'[u].fresh = call'[w].fresh => u = w
  BY <1>1, <1>2, <1>3, <1>4 DEF BlocksApart
<1>8. BlocksApart'
  BY <1>5, <1>6, <1>7 DEF BlocksApart
<1>9. /\ \A g \in File : array'[g] # None => array'[g] \in heap'
      /\ \A g \in File, i \in Grid : tree'[g][i] # None => tree'[g][i] \in heap'
      /\ \A u \in Thread : call'[u].fresh # None => call'[u].fresh \in heap'
  BY <1>1, <1>2, <1>4 DEF HeapExact
<1>10. ASSUME NEW c \in heap'
       PROVE  \/ \E g \in File : array'[g] = c
              \/ \E g \in File, i \in Grid : tree'[g][i] = c
              \/ \E u \in Thread : call'[u].fresh = c
  <2>1. CASE c = b
    BY <1>1, <2>1
  <2>2. CASE c = r
    BY <1>1, <2>2
  <2>3. CASE c # b /\ c # r
    <3>1. c \in heap /\ c # None
      BY <1>1, <2>3 DEF TypeOK
    <3>2. \/ \E g \in File : array[g] = c
          \/ \E g \in File, i \in Grid : tree[g][i] = c
          \/ \E u \in Thread : call[u].fresh = c
      BY <3>1 DEF HeapExact
    <3>3. \/ \E g \in File : g # f /\ array[g] = c
          \/ \E g \in File, i \in Grid : g # f /\ tree[g][i] = c
          \/ \E u \in Thread : u # t /\ call[u].fresh = c
      BY <2>3, <3>1, <3>2
    <3> QED BY <1>1, <1>2, <3>3
  <2> QED BY <2>1, <2>2, <2>3
<1>11. HeapExact'
  BY <1>9, <1>10 DEF HeapExact
<1> QED BY <1>1, <1>8, <1>11

LEMMA LeaveMaintenanceStep ==
  ASSUME OwnerInv, NEW t \in Thread, LeaveMaintenance(t)
  PROVE  TypeOK' => OwnerInv'
<1> DEFINE c == call[t]
<1>1. /\ Others(t) /\ call'[t] = Idle /\ view' = view /\ Running(t)
      /\ c.op = "maintain" /\ c.pc = "leave" /\ c.files \subseteq File
      /\ busy' = [f \in File |-> busy[f] /\ f \notin c.files]
      /\ (~ c.failed => c.fresh # None)
  BY Typed DEF LeaveMaintenance, At, Others, Running, CallsShaped, Shape, TypeOK
<1>2. \A f \in c.files : state[f] = "open" /\ (Replaced(f) => Replaced(f)')
  <2>1. \A f \in File : Replaced(f) => Replaced(f)'
    BY <1>1 DEF Replaced, Others
  <2> QED BY <1>1, <2>1 DEF BusyExact
<1>3. CASE Discard(c.fresh) /\ UNCHANGED <<state, generation>>
  <2>1. UNCHANGED <<array, count, tree>>
    BY <1>3 DEF Discard
  <2>2. ASSUME NEW v \in View, view[v].file \in c.files
        PROVE  Known(v)'
    BY <1>1, <1>2, <1>3, <2>1, <2>2, Typed DEF ViewsKnown, Known, Current, Good
  <2>3. /\ CallsShaped' /\ ViewsHeld' /\ BusyExact' /\ ViewsKnown' /\ WorkKnown' /\ GridsKept'
        /\ \A u \in Thread, f \in File : Opening(u, f)' <=> u # t /\ Opening(u, f)
    BY <1>1, <1>3, <2>1, <2>2, LeaveFrame
  <2>4. BlocksApart' /\ HeapExact'
    BY <1>1, <1>3, <2>1, GiveUp, IdleKnown DEF Discard
  <2>5. FilesKnown'
    <3>1. \A f \in File : ~ Opening(t, f)
      BY <1>1 DEF Opening
    <3> QED BY <1>3, <2>1, <2>3, <3>1 DEF FilesKnown
  <2> QED BY <2>3, <2>4, <2>5
<1>4. ASSUME NEW f \in File, NEW b \in Block, ~ c.failed, state[f] = "none", Adopt(f, c.fresh, b),
             state' = [state EXCEPT ![f] = "open"], generation' = [generation EXCEPT ![f] = 1]
      PROVE  TypeOK' => OwnerInv'
  <2>1. /\ f \notin c.files /\ \A v \in View : view[v].file # f
        /\ \A u \in Thread : ~ Opening(u, f)
    BY <1>2, <1>4 DEF ViewsKnown, Known, BusyExact, Opening
  <2>2. array[f] = None /\ \A i \in Grid : tree[f][i] = None
    BY <1>4, <2>1 DEF FilesKnown
  <2>3. /\ BlocksApart' /\ HeapExact' /\ array'[f] = b
        /\ \A g \in File : g # f => array'[g] = array[g] /\ tree'[g] = tree[g] /\ count'[g] = count[g]
    BY <1>1, <1>4, <2>2, AdoptMemory, IdleKnown
  <2>4. /\ state'[f] = "open"
        /\ \A g \in File : g # f => state'[g] = state[g] /\ generation'[g] = generation[g]
    BY <1>4 DEF TypeOK
  <2>5. ASSUME NEW v \in View, view[v].file \in c.files
        PROVE  Known(v)'
    <3>1. PICK g \in File : g = view[v].file /\ g \in c.files /\ g # f
      BY <1>1, <2>1, <2>5
    <3>2. state[g] = "open" /\ (Replaced(g) => Replaced(g)') /\ UNCHANGED <<state[g], generation[g], array[g], tree[g]>>
      BY <1>2, <2>3, <2>4, <3>1
    <3> QED BY <1>1, <3>1, <3>2, Typed DEF ViewsKnown, Known, Current, Good
  <2>6. /\ CallsShaped' /\ ViewsHeld' /\ BusyExact' /\ ViewsKnown' /\ WorkKnown' /\ GridsKept'
        /\ \A u \in Thread, g \in File : Opening(u, g)' <=> u # t /\ Opening(u, g)
    <3>1. \A g \in File : state[g] # "none" => state'[g] # "none"
      BY <1>4, <2>4
    <3>2. \A g \in File : g \notin c.files /\ state[g] # "none" =>
            /\ state'[g] = state[g] /\ generation'[g] = generation[g]
            /\ array'[g] = array[g] /\ count'[g] = count[g] /\ tree'[g] = tree[g]
      BY <1>4, <2>3, <2>4
    <3> QED BY <1>1, <2>5, <3>1, <3>2, LeaveFrame
  <2>7. FilesKnown'
    <3>1. \A g \in File : ~ Opening(t, g)
      BY <1>1 DEF Opening
    <3>2. ASSUME NEW g \in File
          PROVE  /\ array'[g] # None <=> (state'[g] = "open" \/ \E u \in Thread : Opening(u, g)')
                 /\ state'[g] # "open" => \A i \in Grid : tree'[g][i] = None
      <4>1. CASE g = f
        <5>1. b # None
          OBVIOUS
        <5> QED BY <2>3, <2>4, <4>1, <5>1
      <4>2. CASE g # f
        BY <2>3, <2>4, <2>6, <3>1, <4>2 DEF FilesKnown
      <4> QED BY <4>1, <4>2
    <3> QED BY <3>2 DEF FilesKnown
  <2> QED BY <2>3, <2>6, <2>7
<1> QED BY <1>3, <1>4 DEF LeaveMaintenance

-----------------------------------------------------------------------------
(* The steps that Python code of the arguments may follow or precede.      *)

\* A replacement lets go of its file, and has yet to count up the generation.
LEMMA ReleaseStep ==
  ASSUME OwnerInv, NEW t \in Thread, Release(t)
  PROVE  TypeOK' => OwnerInv'
<1> DEFINE c == call[t]
<1>1. /\ Others(t) /\ call'[t].pc = "released" /\ call'[t].op = "replace" /\ c.op = "replace"
      /\ c.pc = "leave" /\ call'[t].failed = c.failed /\ call'[t].files = c.files
      /\ call'[t].views = c.views /\ call'[t].grid = c.grid /\ call'[t].fresh = c.fresh
      /\ "release" \in Yielding /\ UNCHANGED <<fileVars, state, generation, view>>
      /\ busy' = [f \in File |-> busy[f] /\ f \notin c.files]
  BY GotoIs DEF Release, At
<1>2. /\ ~ Running(t)' /\ Running(t)
      /\ \A u \in Thread : u # t => call'[u] = call[u] /\ Running(u)' = Running(u)
  BY <1>1 DEF Running, Others
<1>3. CallsShaped' /\ ViewsHeld'
  <2>1. Shape(call'[t]) /\ c.views = <<>>
    BY <1>1 DEF CallsShaped, Shape
  <2> QED BY <1>1, <1>2, <2>1 DEF CallsShaped, ViewsHeld
<1>4. BlocksApart' /\ HeapExact'
  BY <1>1, MemoryFrame DEF Others
<1>5. FilesKnown'
  <2>1. \A u \in Thread, f \in File : Opening(u, f)' <=> Opening(u, f)
    BY <1>1, <1>2 DEF Opening
  <2> QED BY <1>1, <2>1 DEF FilesKnown
<1>6. BusyExact'
  <2>1. ASSUME NEW f \in File, busy'[f]
        PROVE  \E u \in Thread : Running(u)' /\ f \in call'[u].files
    BY <1>1, <1>2, <2>1 DEF BusyExact
  <2>2. ASSUME NEW u \in Thread, Running(u)', NEW f \in call'[u].files
        PROVE  /\ busy'[f] /\ state'[f] = IF call'[u].op = "open" THEN "closed" ELSE "open"
               /\ \A w \in Thread : Running(w)' /\ f \in call'[w].files => w = u
    <3>1. u # t /\ Running(u) /\ call'[u] = call[u] /\ f \in File
      BY <1>2, <2>2, Typed
    <3>2. f \notin c.files
      BY <1>2, <2>2, <3>1 DEF BusyExact
    <3>3. busy[f] /\ state[f] = IF call[u].op = "open" THEN "closed" ELSE "open"
      BY <2>2, <3>1 DEF BusyExact
    <3>4. \A w \in Thread : Running(w)' /\ f \in call'[w].files => w = u
      BY <1>2, <2>2, <3>1 DEF BusyExact
    <3> QED BY <1>1, <3>1, <3>2, <3>3, <3>4
  <2>3. \A u \in Thread, f \in File : f \in call'[u].files => state'[f] # "none"
    BY <1>1, <1>2 DEF BusyExact
  <2> QED BY <2>1, <2>2, <2>3 DEF BusyExact
<1>7. ViewsKnown'
  <2>1. \A f \in File : Replaced(f)' <=> Replaced(f)
    BY <1>1, <1>2 DEF Replaced
  <2> QED BY <1>1, <2>1, Typed DEF ViewsKnown, Known, Current, Good
<1>8. WorkKnown'
  BY <1>1, <1>2 DEF WorkKnown, Bound, Current
<1>9. GridsKept'
  BY <1>1, <1>2 DEF GridsKept, Kept
<1> QED BY <1>3, <1>4, <1>5, <1>6, <1>7, <1>8, <1>9

\* The generation is counted up: by then another call may work on the file.
LEMMA CountUpStep ==
  ASSUME OwnerInv, NEW t \in Thread, CountUp(t)
  PROVE  TypeOK' => OwnerInv'
<1> DEFINE c == call[t]
<1>1. PICK f \in File : f = Target(t) /\ c.files = {f} /\ c.op = "replace" /\ c.pc = "released"
  BY TargetKnown DEF CountUp, CallsShaped, Shape
<1>2. /\ Others(t) /\ call'[t] = Idle /\ UNCHANGED <<fileVars, state, busy, view>> /\ c.fresh = None
      /\ \A g \in File : generation'[g] = IF g = f /\ ~ c.failed THEN generation[g] + 1 ELSE generation[g]
  <2>1. Others(t) /\ call'[t] = Idle /\ UNCHANGED <<fileVars, state, busy, view>>
    BY DEF CountUp, Others, TypeOK
  <2>2. c.fresh = None
    BY <1>1 DEF CallsShaped, Shape
  <2>3. IF c.failed THEN generation' = generation
        ELSE generation' = [generation EXCEPT ![f] = @ + 1]
    BY <1>1 DEF CountUp, Bump
  <2> QED BY <2>1, <2>2, <2>3 DEF TypeOK
<1>3. /\ ~ Running(t)' /\ ~ Running(t)
      /\ \A u \in Thread : u # t => call'[u] = call[u] /\ Running(u)' = Running(u)
  BY <1>1, <1>2, IdleKnown DEF Running, Others
<1>4. CallsShaped' /\ ViewsHeld'
  <2>1. Shape(call'[t])
    BY <1>2, IdleKnown DEF Shape
  <2> QED BY <1>2, <1>3, <2>1, IdleKnown DEF CallsShaped, ViewsHeld
<1>5. BlocksApart' /\ HeapExact'
  BY <1>2, MemoryFrame, IdleKnown DEF Others
<1>6. FilesKnown'
  <2>1. \A u \in Thread, g \in File : Opening(u, g)' <=> Opening(u, g)
    BY <1>1, <1>2, <1>3, IdleKnown DEF Opening
  <2> QED BY <1>2, <2>1 DEF FilesKnown
<1>7. BusyExact'
  BY <1>2, <1>3, IdleKnown DEF BusyExact
<1>8. \A v \in View : Current(v)' => Current(v) /\ (view[v].file = f => c.failed)
  <2>1. ASSUME NEW v \in View, Current(v)'
        PROVE  Current(v) /\ (view[v].file = f => c.failed)
    <3>1. view[v].file \in File /\ view[v].gen = generation'[view[v].file]
      BY <1>2, <2>1, Typed DEF Current
    <3>2. view[v].gen <= generation[view[v].file] /\ generation[view[v].file] \in Nat
      BY <3>1, Typed DEF ViewsKnown, Known
    <3> QED BY <1>2, <3>1, <3>2 DEF Current
  <2> QED BY <2>1
<1>9. ViewsKnown'
  <2>1. \A g \in File : g # f \/ c.failed => (Replaced(g)' <=> Replaced(g))
    BY <1>1, <1>2, <1>3, IdleKnown DEF Replaced
  <2>2. ASSUME NEW v \in View
        PROVE  Known(v)'
    <3>1. view[v].file # None =>
            /\ view[v].file \in File /\ state[view[v].file] # "none"
            /\ view[v].gen <= generation'[view[v].file]
            /\ view[v].ptr # None /\ view[v].grid \in Grid /\ view[v].kind # "none"
      BY <1>2, Typed DEF ViewsKnown, Known
    <3>2. Current(v)' => /\ state[view[v].file] = "open"
                         /\ Good(v) \/ (view[v].kind = "node" /\ Replaced(view[v].file)')
      <4>1. ASSUME Current(v)'
            PROVE  /\ state[view[v].file] = "open"
                   /\ Good(v) \/ (view[v].kind = "node" /\ Replaced(view[v].file)')
        <5>1. Current(v) /\ (view[v].file # f \/ c.failed)
          BY <1>8, <4>1
        <5>2. view[v].file \in File
          BY <3>1, <5>1 DEF Current
        <5>3. /\ state[view[v].file] = "open"
              /\ Good(v) \/ (view[v].kind = "node" /\ Replaced(view[v].file))
          BY <5>1 DEF ViewsKnown, Known
        <5>4. Replaced(view[v].file)' <=> Replaced(view[v].file)
          <6>1. \A g \in File : g # f \/ c.failed =>
                  ((\E u \in Thread : /\ call'[u].op = "replace" /\ g \in call'[u].files
                                      /\ call'[u].pc \in {"leave", "released"} /\ ~call'[u].failed)
                   <=> Replaced(g))
            BY <2>1 DEF Replaced
          <6> QED BY <1>2, <5>1, <5>2, <6>1 DEF Replaced
        <5> QED BY <5>3, <5>4
      <4> QED BY <4>1
    <3>3. Good(v)' <=> Good(v)
      BY <1>2 DEF Good
    <3>4. view[v].file = None => view[v].kind = "none"
      BY DEF ViewsKnown, Known
    <3> QED BY <1>2, <3>1, <3>2, <3>3, <3>4 DEF Known
  <2> QED BY <2>2 DEF ViewsKnown
<1>10. WorkKnown'
  <2>1. ASSUME NEW u \in Thread, Running(u)'
        PROVE  Bound(u)'
    <3>1. call'[u] = call[u] /\ Bound(u)
      BY <1>3, <2>1 DEF WorkKnown
    <3> QED BY <1>2, <1>8, <3>1 DEF Bound
  <2> QED BY <2>1 DEF WorkKnown
<1>11. GridsKept'
  BY <1>2, <1>3 DEF GridsKept, Kept
<1> QED BY <1>4, <1>5, <1>6, <1>7, <1>9, <1>10, <1>11

\* A node is taken through a view that nobody looked at again: if the view is
\* stale, so is the node, and view_valid refuses it.
LEMMA TakeNodeStep ==
  ASSUME OwnerInv, NEW t \in Thread, TakeNode(t)
  PROVE  TypeOK' => OwnerInv'
<1> DEFINE c == call[t]
           w == c.views[1]
<1>1. /\ c.op = "node" /\ c.pc = "run" /\ c.files = {} /\ DOMAIN c.views = {1} /\ c.fresh = None
      /\ w \in View /\ view[w] \in ViewType /\ view[w].kind = "grid"
  BY Typed DEF TakeNode, At, CallsShaped, Shape, ViewsHeld
<1>2. Others(t) /\ call'[t] = Idle /\ UNCHANGED <<fileVars, ownerVars>>
  BY DEF TakeNode, Others, TypeOK
<1>3. /\ ~ Running(t)' /\ \A u \in Thread : u # t => call'[u] = call[u] /\ Running(u)' = Running(u)
  BY <1>2, IdleKnown DEF Running, Others
<1>4. CallsShaped'
  <2>1. Shape(call'[t])
    BY <1>2, IdleKnown DEF Shape
  <2> QED BY <1>3, <2>1 DEF CallsShaped
<1>5. BlocksApart' /\ HeapExact'
  BY <1>1, <1>2, MemoryFrame, IdleKnown DEF Others
<1>6. FilesKnown'
  <2>1. \A u \in Thread, g \in File : Opening(u, g)' <=> Opening(u, g)
    BY <1>1, <1>2, <1>3, IdleKnown DEF Opening
  <2> QED BY <1>2, <2>1 DEF FilesKnown
<1>7. BusyExact'
  <2>1. \A f \in File : busy'[f] => \E u \in Thread : Running(u)' /\ f \in call'[u].files
    BY <1>1, <1>2, <1>3 DEF BusyExact
  <2>2. \A u \in Thread : Running(u)' => Running(u) /\ call'[u] = call[u]
    BY <1>3
  <2>3. \A u \in Thread, f \in File : f \in call'[u].files => state'[f] # "none"
    BY <1>2, <1>3, IdleKnown DEF BusyExact
  <2> QED BY <1>2, <2>1, <2>2, <2>3 DEF BusyExact
<1>8. GridsKept'
  BY <1>2, <1>3 DEF GridsKept, Kept
<1>9. \A f \in File : Replaced(f)' <=> Replaced(f)
  BY <1>1, <1>2, <1>3, IdleKnown DEF Replaced
<1>10. CASE view' = view
  <2>1. ViewsHeld'
    BY <1>2, <1>3, <1>10, IdleKnown DEF ViewsHeld
  <2>2. ViewsKnown'
    BY <1>2, <1>9, <1>10, Typed DEF ViewsKnown, Known, Current, Good
  <2>3. WorkKnown'
    BY <1>2, <1>3, <1>10 DEF WorkKnown, Bound, Current
  <2> QED BY <1>4, <1>5, <1>6, <1>7, <1>8, <2>1, <2>2, <2>3
<1>11. ASSUME NEW v \in View, NEW b \in Block, view[v] = NoView,
              view[w].ptr = array[view[w].file] => b = tree[view[w].file][view[w].grid],
              view' = [view EXCEPT ![v] = NodeOf(w, b)]
       PROVE  TypeOK' => OwnerInv'
  <2>1. /\ view'[v].file = view[w].file /\ view'[v].kind = "node" /\ view'[v].grid = view[w].grid
        /\ view'[v].gen = view[w].gen /\ view'[v].ptr = b /\ b # None
        /\ \A u \in View : u # v => view'[u] = view[u]
    BY <1>1, <1>11 DEF NodeOf, TypeOK, ViewType
  <2>2. \A u \in Thread : \A k \in DOMAIN call[u].views :
          call[u].views[k] \in View /\ view'[call[u].views[k]] = view[call[u].views[k]]
    BY <1>11, <2>1, Typed DEF NoView, ViewsHeld
  <2>3. ViewsHeld'
    BY <1>2, <1>3, <2>2, IdleKnown DEF ViewsHeld
  <2>4. Current(v)' <=> Current(w)
    BY <1>2, <2>1 DEF Current
  <2>5. ViewsKnown'
    <3>1. ASSUME NEW u \in View, u # v
          PROVE  Known(u)'
      BY <1>2, <1>9, <2>1, <3>1, Typed DEF ViewsKnown, Known, Current, Good
    <3>2. Known(v)'
      <4>1. Current(v)' => state[view[w].file] = "open" /\ b = tree[view[w].file][view[w].grid]
        BY <1>1, <1>11, <2>4 DEF ViewsKnown, Known, Good
      <4>2. /\ view[w].file # None
            /\ state[view[w].file] # "none" /\ view[w].gen <= generation[view[w].file]
            /\ view[w].grid \in Grid
        BY <1>1 DEF ViewsKnown, Known
      <4>3. Current(v)' => Good(v)'
        BY <1>2, <2>1, <4>1 DEF Good
      <4> QED BY <1>2, <2>1, <4>1, <4>2, <4>3 DEF Known
    <3> QED BY <3>1, <3>2 DEF ViewsKnown
  <2>6. WorkKnown'
    <3>1. ASSUME NEW u \in Thread, Running(u)'
          PROVE  Bound(u)'
      <4>1. Running(u) /\ call'[u] = call[u] /\ Bound(u)
        BY <1>3, <3>1 DEF WorkKnown
      <4>2. call[u].op = "read" => \A x \in View : view'[x].file \in call[u].files => ~ Current(x)'
        <5>1. ASSUME call[u].op = "read", NEW x \in View, view'[x].file \in call[u].files
              PROVE  ~ Current(x)'
          <6>1. CASE x = v
            BY <1>1, <2>1, <2>4, <4>1, <5>1, <6>1 DEF Bound
          <6>2. CASE x # v
            BY <1>2, <2>1, <4>1, <5>1, <6>2 DEF Bound, Current
          <6> QED BY <6>1, <6>2
        <5> QED BY <5>1
      <4> QED BY <1>2, <2>2, <4>1, <4>2 DEF Bound
    <3> QED BY <3>1 DEF WorkKnown
  <2> QED BY <1>4, <1>5, <1>6, <1>7, <1>8, <2>3, <2>5, <2>6
<1> QED BY <1>10, <1>11 DEF TakeNode

-----------------------------------------------------------------------------
(* The theorems.                                                           *)

\* Every step keeps the invariant.
LEMMA OwnerStep ==
  ASSUME OwnerInv, Next, Yielding \subseteq {"maintain", "node", "release"}
  PROVE  OwnerInv'
<1>1. TypeOK'
  BY StepType
<1>2. CASE \E f \in File : Close(f) \/ Dealloc(f)
  BY <1>1, <1>2, CloseStep
<1>3. CASE \/ \E v \in View, f \in File, i \in Grid : GetGrid(v, f, i)
           \/ \E v, w \in View : GetNode(v, w)
           \/ \E v \in View : Drop(v)
  BY <1>1, <1>3, ViewSteps
<1>4. CASE \E t \in Thread : (\E c \in Calls : Begin(t, c)) \/ Resume(t)
  BY <1>1, <1>4, BeginStep, ResumeStep
<1>5. CASE \E t \in Thread : TakeNode(t) \/ Parse(t) \/ Build(t) \/ Built(t) \/ Load(t) \/ Loaded(t)
  BY <1>1, <1>5, TakeNodeStep, ParseStep, BuildStep, BuiltStep, LoadStep, LoadedStep
<1>6. CASE \E t \in Thread :
             ReadAll(t) \/ Leave(t) \/ Release(t) \/ CountUp(t) \/ LeaveMaintenance(t)
  BY <1>1, <1>6, ReadAllStep, LeaveStep, ReleaseStep, CountUpStep, LeaveMaintenanceStep
<1> QED BY <1>2, <1>3, <1>4, <1>5, <1>6 DEF Next

\* Nothing happens.
LEMMA OwnerStutter ==
  ASSUME OwnerInv, UNCHANGED vars
  PROVE  OwnerInv'
<1>1. TypeOK' /\ CallsShaped' /\ ViewsHeld'
  BY DEF TypeOK, CallsShaped, ViewsHeld
<1>2. BlocksApart' /\ HeapExact'
  BY MemoryFrame
<1>3. FilesKnown' /\ BusyExact'
  BY DEF FilesKnown, Opening, BusyExact, Running
<1>4. ViewsKnown'
  BY DEF ViewsKnown, Known, Current, Replaced, Good
<1>5. WorkKnown' /\ GridsKept'
  BY DEF WorkKnown, Bound, Current, GridsKept, Kept, Running
<1> QED BY <1>1, <1>2, <1>3, <1>4, <1>5

\* The invariant holds in every reachable state of every application in which
\* only the tree operations, which look at their view again afterwards, and node,
\* which only reads, convert arguments that run Python code.  Buffers may run
\* Python code when they are released.
THEOREM OwnerInvHolds ==
  ASSUME Yielding \subseteq {"maintain", "node", "release"}
  PROVE  Spec => []OwnerInv
<1> USE DEF Spec
<1> HIDE DEF OwnerInv, vars
<1>1. OwnerInv /\ [Next]_vars => OwnerInv'
  BY OwnerStep, OwnerStutter
<1> QED BY OwnerInit, <1>1, PTL

\* The variables have the types of the C structures, for any number of owners,
\* views, threads, grids and addresses.
THEOREM TypeHolds ==
  ASSUME Yielding \subseteq {"maintain", "node", "release"}
  PROVE  Spec => []TypeOK
<1>1. OwnerInv => TypeOK
  OBVIOUS
<1> QED BY <1>1, OwnerInvHolds, PTL

\* A view that passes view_valid never points at freed or replaced memory, but for
\* nodes while the release of the buffers of a replacement runs Python code.
THEOREM ViewsNeverDangleHolds ==
  ASSUME Yielding \subseteq {"maintain", "node", "release"}
  PROVE  Spec => []ViewsNeverDangle
<1>1. OwnerInv => ViewsNeverDangle
  <2>1. ASSUME OwnerInv, NEW v \in View, Valid(v),
               ~ (view[v].kind = "node" /\ Releasing(view[v].file))
        PROVE  LET f == view[v].file IN
                 /\ view[v].ptr \in heap
                 /\ view[v].ptr = IF view[v].kind = "grid" THEN array[f] ELSE tree[f][view[v].grid]
    <3>1. /\ view[v].file \in File /\ ~ busy[view[v].file] /\ Current(v)
          /\ view[v].ptr # None /\ view[v].grid \in Grid
      BY <2>1, Typed DEF Valid, Available, Current, ViewsKnown, Known
    <3>2. view[v].kind = "node" => ~ Replaced(view[v].file)
      BY <2>1, <3>1 DEF Replaced, Releasing, Refers, BusyExact, Running
    <3>3. Good(v)
      BY <2>1, <3>1, <3>2 DEF ViewsKnown, Known
    <3> QED BY <2>1, <3>1, <3>3 DEF Good, HeapExact
  <2> QED BY <2>1 DEF ViewsNeverDangle
<1>2. Spec => []OwnerInv
  BY OwnerInvHolds
<1> QED BY <1>1, <1>2, PTL

\* Work without the GIL has its owners to itself, and what it holds is not freed.
THEOREM WorkUndisturbedHolds ==
  ASSUME Yielding \subseteq {"maintain", "node", "release"}
  PROVE  Spec => []WorkUndisturbed
<1>1. OwnerInv => WorkUndisturbed
  <2>1. ASSUME OwnerInv, NEW t \in Thread, Running(t), call[t].op # "node"
        PROVE  /\ \A f \in call[t].files : busy[f] /\ (call[t].op # "open" => state[f] = "open")
               /\ \A k \in DOMAIN call[t].views :
                    LET w == view[call[t].views[k]] IN w.ptr \in heap /\ w.ptr = array[w.file]
               /\ \A u \in Thread \ {t} : Running(u) => call[u].files \cap call[t].files = {}
    <3>1. \A f \in call[t].files : f \in File /\ busy[f] /\ (call[t].op # "open" => state[f] = "open")
      BY <2>1, Typed DEF BusyExact
    <3>2. \A u \in Thread \ {t} : Running(u) => call[u].files \cap call[t].files = {}
      BY <2>1 DEF BusyExact
    <3>3. ASSUME NEW k \in DOMAIN call[t].views
          PROVE  LET w == view[call[t].views[k]] IN w.ptr \in heap /\ w.ptr = array[w.file]
      <4>1. PICK w \in View : w = call[t].views[k]
        BY <2>1, Typed
      <4>2. view[w].file \in call[t].files /\ view[w].file \in File /\ view[w].ptr = array[view[w].file]
        BY <2>1, <3>1, <4>1 DEF ViewsHeld, WorkKnown, Bound
      <4>3. view[w].ptr # None
        BY <2>1, <4>2 DEF ViewsKnown, Known
      <4> QED BY <2>1, <4>1, <4>2, <4>3 DEF HeapExact
    <3> QED BY <3>1, <3>2, <3>3
  <2> QED BY <2>1 DEF WorkUndisturbed
<1>2. Spec => []OwnerInv
  BY OwnerInvHolds
<1> QED BY <1>1, <1>2, PTL

\* Every allocated block has one owner that will free it, whatever step failed.
THEOREM NothingLeakedHolds ==
  ASSUME Yielding \subseteq {"maintain", "node", "release"}
  PROVE  Spec => []NothingLeaked
<1>1. OwnerInv => NothingLeaked
  <2> SUFFICES ASSUME OwnerInv PROVE NothingLeaked
    OBVIOUS
  <2> DEFINE held(t) == {call[t].fresh} \ {None}
  <2>1. (UNION {Owned(f) : f \in File}) \cup (UNION {held(t) : t \in Thread}) \subseteq heap
    BY DEF Owned, HeapExact
  <2>2. ASSUME NEW b \in heap
        PROVE  b \in (UNION {Owned(f) : f \in File}) \cup (UNION {held(t) : t \in Thread})
    <3>1. b # None
      BY DEF TypeOK
    <3>2. CASE \E f \in File : array[f] = b
      BY <3>1, <3>2 DEF Owned
    <3>3. CASE \E f \in File, i \in Grid : tree[f][i] = b
      BY <3>1, <3>3 DEF Owned
    <3>4. CASE \E t \in Thread : call[t].fresh = b
      BY <3>1, <3>4
    <3> QED BY <3>2, <3>3, <3>4 DEF HeapExact
  <2>3. \A f, g \in File : f # g => Owned(f) \cap Owned(g) = {}
    BY DEF Owned, BlocksApart
  <2>4. ASSUME NEW f \in File, state[f] = "none"
        PROVE  Owned(f) = {}
    <3>1. \A t \in Thread : ~ Opening(t, f)
      BY <2>4 DEF Opening, BusyExact
    <3>2. array[f] = None /\ \A i \in Grid : tree[f][i] = None
      BY <2>4, <3>1 DEF FilesKnown
    <3> QED BY <3>2 DEF Owned
  <2>5. heap = (UNION {Owned(f) : f \in File}) \cup (UNION {held(t) : t \in Thread})
    BY <2>1, <2>2
  <2> QED BY <2>3, <2>4, <2>5 DEF NothingLeaked
<1> QED BY <1>1, OwnerInvHolds, PTL

\* A failed replacement changes no grid, a failed reload loses none, and a reload
\* that reports success has loaded all.
THEOREM FailureKeepsGridsHolds ==
  ASSUME Yielding \subseteq {"maintain", "node", "release"}
  PROVE  Spec => []FailureKeepsGrids
<1>1. OwnerInv => FailureKeepsGrids
  <2>1. ASSUME OwnerInv, NEW t \in Thread, call[t].pc = "leave"
        PROVE  LET c == call[t]  now == tree[Target(t)] IN
                 /\ c.op = "replace" /\ c.failed => now = c.before
                 /\ c.op = "read" => \A i \in Grid : c.before[i] # None => now[i] # None
                 /\ c.op = "read" /\ ~c.failed => \A i \in 1..count[Target(t)] : now[i] # None
    <3>1. Running(t)
      BY <2>1 DEF Running
    <3>2. CASE call[t].op \in {"read", "replace"}
      <4>1. PICK f \in File : f = Target(t) /\ f \in call[t].files
        BY <2>1, <3>2, TargetKnown
      <4>2. /\ call[t].op = "replace" /\ call[t].failed => tree[f] = call[t].before
            /\ call[t].op = "read" =>
                 /\ \A i \in Grid : call[t].before[i] # None => tree[f][i] # None
                 /\ call[t].failed \/ \A i \in Grid : i < call[t].grid => tree[f][i] # None
                 /\ call[t].grid > count[f]
        BY <2>1, <3>1, <4>1 DEF GridsKept, Kept
      <4>3. \A i \in 1..count[f] : call[t].grid > count[f] => i \in Grid /\ i < call[t].grid
        BY <2>1, Typed DEF TypeOK, CallType
      <4> QED BY <4>1, <4>2, <4>3
    <3>3. CASE call[t].op \notin {"read", "replace"}
      BY <3>3
    <3> QED BY <3>2, <3>3
  <2> QED BY <2>1 DEF FailureKeepsGrids
<1> QED BY <1>1, OwnerInvHolds, PTL

\* The payload of every grid can be written and read again: the codec that the
\* trees are stored with gives back what it was given.
THEOREM NodesRoundTripHolds == Spec => []NodesRoundTrip
<1>1. NodesRoundTrip
  BY RoundTripHolds DEF NodesRoundTrip
<1>2. Init => NodesRoundTrip
  BY <1>1
<1>3. NodesRoundTrip /\ [Next]_vars => NodesRoundTrip'
  BY RoundTripHolds DEF NodesRoundTrip
<1> QED BY <1>2, <1>3, PTL DEF Spec
=============================================================================
