SPECIFICATION Spec
CONSTANTS
  Length = 2
  MaxPosition = 3
  Rules = {1, 2}
  MaxFixes = 3
  PlannedFixes <- FixesOfRules
INVARIANTS ExactRewrite EarlierFixesWin ResolvedPlansApply
CONSTRAINT InBounds
CHECK_DEADLOCK FALSE
