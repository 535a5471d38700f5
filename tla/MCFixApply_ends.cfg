\* A tool rewrites two files, crashes or fails at any step, and runs again.
SPECIFICATION MCSpec
CONSTANTS
  Tools = {t1}
  Paths = {p1, p2}
  Links = {}
  Nodes = {1, 2, 3, 4, 5, 6}
  Absent = absent
  Edited = edited
  Attempts = 2
  MaxNonce = 3
  MaxEdits = 1
  MaxRuns = 2
INVARIANTS NoTempLeftBehind SuccessMeansFixed
PROPERTIES EveryRunEnds
CHECK_DEADLOCK FALSE
