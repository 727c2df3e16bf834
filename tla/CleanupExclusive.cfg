SPECIFICATION Spec
CONSTANTS
  Message = {m1, m2, m3}
  Executor = {e1}
  Exclusive = TRUE
  ExecutionLimit = 2
  MaxRev = 1
  MaxGen = 2
  MaxMishaps = 1
SYMMETRY CleanupSymmetry
INVARIANTS
  TypeOK
  
  DeletedIsGone
  CompletedIsSettled
