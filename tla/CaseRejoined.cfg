\* One handler at a time, nothing fails: the member of a pending case leaves
\* and comes back.
SPECIFICATION Spec
CONSTANTS
  h1 = h1
  h2 = h2
  Handler = {h1}
  Kinds = {"open", "left"}
  Parallel <- OneByOne
  MaxCases = 1
  MaxThreads = 1
  MaxStarts = 3
  MaxMoves = 2
  MaxMishaps = 0
PROPERTY OpenedIsRestricted
CHECK_DEADLOCK FALSE
