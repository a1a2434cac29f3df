SPECIFICATION SearchFairSpec
CONSTANTS
  B = 2
  Open = {3, 4, 6, 9, 10, 13, 15}
  Puzzles <- MCPuzzles
INVARIANTS
  FailOnlyWithoutSolution
  CheckedIsSolution
PROPERTY
  Terminates
CHECK_DEADLOCK FALSE
