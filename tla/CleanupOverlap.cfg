SPECIFICATION FairSpec
CONSTANTS
  Message = {m1}
  Executor = {e1, e2}
  Exclusive = FALSE
  ExecutionLimit = 2
  MaxRev = 1
  MaxGen = 2
  MaxMishaps = 2
PROPERTIES
  LedgerSpec
  OutcomeIsFinal
  
