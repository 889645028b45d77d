----------------------------- MODULE MCPyOwner ------------------------------
(***************************************************************************)
(* Small instances of PyOwner, with the MaskCodec of the nodes that its    *)
(* loads and saves read and write.  Which of its addresses a purpose gets  *)
(* makes no difference, nor what a view that is refused for ever points    *)
(* at: MCView describes an address by whether it is the one in use, the    *)
(* lead of its purpose, and such a view by its file.                       *)
(***************************************************************************)
EXTENDS PyOwnerInvariants, TLC

CONSTANTS f1, f2

\* f1 goes through two reloads, replacements or closes; f2 is a maintenance
\* result, born with generation 1, that is used and dropped.
MCMaxGeneration == f1 :> 2 @@ f2 :> 1

\* Three entries tell one, two and more inactive values apart.
MCVoxel == 1..3

\* The address of purpose p that a grid holds, or else a call.
Places(p) == {x \in File \X Grid : tree[x[1]][x[2]] # None /\ tree[x[1]][x[2]][1] = p}
Lead(p) ==
  IF Places(p) # {} THEN LET x == CHOOSE x \in Places(p) : TRUE IN tree[x[1]][x[2]]
  ELSE IF \E b \in heap : b[1] = p THEN CHOOSE b \in heap : b[1] = p ELSE <<p, 1>>

Seen(b)      == IF b = None THEN None ELSE <<b[1], b = Lead(b[1])>>
SeenGrids(s) == [i \in Grid |-> Seen(s[i])]

\* No call uses the view, and its generation has gone, which none brings back: no
\* call will begin with it (for a call of two views with "work" not in Yielding).
Forgotten(v) == /\ view[v].file # None /\ ~ Current(v)
                /\ \A t \in Thread : \A k \in DOMAIN call[t].views : call[t].views[k] # v

MCView ==
  <<{Seen(b) : b \in heap}, array, count, [f \in File |-> SeenGrids(tree[f])], offsets, ownerVars,
    [v \in View |-> IF Forgotten(v) THEN view[v].file ELSE [view[v] EXCEPT !.ptr = Seen(@)]],
    [t \in Thread |-> [call[t] EXCEPT !.fresh = Seen(@), !.before = SeenGrids(@)]]>>

MCSymmetry == Permutations(Thread) \cup Permutations(View)
=============================================================================
