SPECIFICATION Spec
CONSTANTS
  Kinds <- MCKinds
  Keys = {k1, k2}
  Callers = {c1, c2}
  MaxCalls = 3
  MaxFaults = 2
  MaxAuto = 1
SYMMETRY Symmetry
CHECK_DEADLOCK FALSE
INVARIANTS RecordsTrue SentOnce
