\* Openings, reopenings, departures and bans one after another, two
\* resolutions at a time, one mishap.
SPECIFICATION Spec
CONSTANTS
  h1 = h1
  h2 = h2
  Handler = {h1, h2}
  Kinds <- AllKinds
  Parallel <- Resolutions
  MaxCases = 2
  MaxThreads = 2
  MaxStarts = 4
  MaxMoves = 2
  MaxMishaps = 1
SYMMETRY HandlerSymmetry
INVARIANT TypeOK
INVARIANT BannedMeansBanned
 
 
 
CHECK_DEADLOCK FALSE
