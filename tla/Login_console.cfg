SPECIFICATION Spec
CONSTANTS
  Tasks = {t1}
  Pids = {p1, p2}
  MaxSessions = 2
  MaxInhibitors = 0
  MaxEvents = 1
  Hints = {}
  MayFail = {"at"}
INVARIANTS SessionBelongsToItsProcess PamBracketed EchoRestored
SYMMETRY Symmetry
CHECK_DEADLOCK FALSE
