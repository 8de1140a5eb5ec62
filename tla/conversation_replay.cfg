SPECIFICATION Spec
CONSTANTS
  Investigations = {i1}
  Keys = {k1}
  LastDataset = 2
  Calls = {c1, c2}
  Faults = {}
  None = None
SYMMETRY Symmetry
INVARIANT ReplayReturnsGroup
