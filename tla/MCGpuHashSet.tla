---------------------------- MODULE MCGpuHashSet ----------------------------
(* Three points and the 16 slots the code gives them.  Two voxels hash to   *)
(* the last slot, so that probes wrap, and a third to the first.            *)
EXTENDS GpuHashSet, TLC

CONSTANTS a, b, c

HomeCrowded == (a :> 15) @@ (b :> 15) @@ (c :> 0)
=============================================================================
