SPECIFICATION Spec
CONSTANTS
  Investigations = {i1}
  Runs = {r1, r2}
  Addresses = {a1, a2}
  Requests = {q1, q2}
  Faults = {"deadline"}
  None = None
SYMMETRY Symmetry
INVARIANT NoAbandonedRun
