SPECIFICATION MCSpec
CONSTANTS
  Blocks = {0, 1, 2, 3}
  Entry = 0
  Graphs <- EveryGraph
  None = None
  MaxPayloads = 4
  MaxEdges = 4
INVARIANTS SeenIsReach DominatorsCorrect ComponentsCorrect EdgesMirrored
PROPERTIES PruneKeepsMeaning CallsEnd
