\* A secret is saved while all data is cleared.
CONSTANTS
  o1 = o1  o2 = o2  x1 = x1  x2 = x2
  Owners = {o1, o2}
  Refs = {x1, x2}
  Nothing = Nothing
  MaxVersion = 3
SYMMETRY Symmetry
SPECIFICATION Spec
INVARIANT WipeLeavesNothing
\* References are drawn once and profiles are not created: the behaviour ends.
CHECK_DEADLOCK FALSE
