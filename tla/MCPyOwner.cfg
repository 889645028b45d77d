CONSTANTS
  f1 = f1
  f2 = f2
  File = {f1, f2}
  NumGrids = 2
  Result = {t1, t2}
  Copies = 2
  None = None
  Disk = {f1}
  Thread = {t1, t2}
  View = {v1, v2}
  Yielding = {"maintain", "node", "release"}
  MaxGeneration <- MCMaxGeneration
  Voxel <- MCVoxel
  Value = {p, q, r}
SPECIFICATION Spec
VIEW MCView
SYMMETRY MCSymmetry
INVARIANTS ViewsNeverDangle WorkUndisturbed NothingLeaked FailureKeepsGrids NodesRoundTrip OwnerInv
