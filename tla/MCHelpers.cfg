SPECIFICATION Spec
CONSTANTS
  Capacity = 2
  RequestSize = 3
  MaxOutput = 2
  MaxWritten = 3
INVARIANTS ResourcesBounded OnlyWholeAnswersUsed
PROPERTIES CallsReturn
