\* Two tools rewrite one file, which is edited once.
SPECIFICATION MCSpec
CONSTANTS
  Tools = {t1, t2}
  Paths = {p1}
  Links = {l1}
  Nodes = {1, 2, 3, 4}
  Absent = absent
  Edited = edited
  Attempts = 2
  MaxNonce = 2
  MaxEdits = 1
  MaxRuns = 1
INVARIANT ReadersSeeWholeFiles
PROPERTIES ToolsOnlyPublishVerified OverwritesOnlyInWindow
CHECK_DEADLOCK FALSE
