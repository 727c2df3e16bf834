SPECIFICATION FairSpec
CONSTANTS
  Job = {j1, j2}
  NoJob = NoJob
  WriterKinds = {"observedBan", "observedKick", "left", "resolve", "memberBan"}
  WritesFail = TRUE
  MaxMishaps = 2
  MaxOutside = 2
CHECK_DEADLOCK FALSE
INVARIANTS
  TypeOK
  StepsInOrder
PROPERTIES
  DurableBanIsKept
  RequestIsAnswered
