SPECIFICATION FairSpec
CONSTANTS
  Entry = entry
  Exit = exit
  b1 = b1
  b2 = b2
  Inner = {b1, b2}
  Blocks = {entry, exit, b1, b2}
  Facts = {x}
  Graphs <- FlowGraphs
  Transfers <- InnerTransfers
INVARIANTS TypeOK BelowSolutions SolvedWhenDone
PROPERTIES Terminates
CHECK_DEADLOCK FALSE
