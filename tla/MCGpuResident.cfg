CONSTANTS
  h1 = h1
  h2 = h2
  d1 = d1
  d2 = d2
  Handle = {h1, h2}
  Dense = {d1, d2}
  Buffer <- MCBuffer
  Topology <- MCTopology
  MaxIterations = 2
  None = None
SPECIFICATION Spec
VIEW MCView
SYMMETRY MCSymmetry
INVARIANTS GridsWhole FailureKeepsGrids AccountedFor
