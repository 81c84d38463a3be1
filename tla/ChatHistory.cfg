SPECIFICATION Spec
CONSTANTS
  Sessions = {s1, s2}
  First = s1
  Jobs = {j1, j2}
  Retained = 1
  MaxMessages = 4
  MaxMarks = 2
  MaxRevision = 4
INVARIANTS NothingLost EffectiveSound ForkIsolation
PROPERTIES AuthoredFromCurrent
SYMMETRY JobSymmetry
CHECK_DEADLOCK FALSE
