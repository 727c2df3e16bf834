\* Two messages of one member are handled at the same time, nothing fails.
SPECIFICATION Spec
CONSTANTS
  h1 = h1
  h2 = h2
  Handler = {h1, h2}
  Kinds = {"open"}
  Parallel <- Openings
  MaxCases = 2
  MaxThreads = 2
  MaxStarts = 2
  MaxMoves = 0
  MaxMishaps = 0
SYMMETRY HandlerSymmetry
INVARIANT OneCasePerMember
CHECK_DEADLOCK FALSE
