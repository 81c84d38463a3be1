CONSTANTS
  f1 = f1
  f2 = f2
  c1 = c1
  c2 = c2
  w1 = w1
  w2 = w2
  Files = {f1, f2}
  InFolder = {f1}
  Rank <- MCRank
  Contents = {c1, c2}
  Written = {c2}
  Initial <- MCInitial
  Absent = Absent
  None = None
  External = External
  t1 = t1
  t2 = t2
  Tasks = {t1, t2}
  Requests = {1, 2, 3}
  Workers = {w1, w2}
  Loop = loop
  MaxOps = 3
  MaxCalls = 2
  MaxTrouble = 1
  Kinds = {"mutate", "move", "save", "restore", "delete", "undo"}
SPECIFICATION VaultSpec
INVARIANT  NoCircularWait
PROPERTIES RollbackExact FailureHarmless
CHECK_DEADLOCK FALSE
SYMMETRY Symmetry
