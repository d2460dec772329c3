CONSTANTS
  Adders = {a1, a2, a3}
  Sources = {s1}
  Contents = {c1, c2}
  Ops <- MCOps
  MaxFaults = 1
  MaxEdits = 1
SYMMETRY MCSymmetry
SPECIFICATION Spec
INVARIANTS TypeOK Promises
PROPERTIES ExistingOnlyCreatesNothing WholeFileIsKept
CHECK_DEADLOCK FALSE
