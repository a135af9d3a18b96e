SPECIFICATION Spec
CONSTANTS
  c1 = c1
  d1 = d1
  d2 = d2
  Code <- MCCode
  Data <- MCData
  Values = {0, 1}
  Segments = 6
  Rounds = 2
INVARIANTS TypeOK CopyIsMemory ExpectedIsMemory AbortsOnlyIfRewritten
