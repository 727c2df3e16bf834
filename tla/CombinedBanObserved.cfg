SPECIFICATION Spec
CONSTANTS
  Job = {j1, j2}
  NoJob = NoJob
  WriterKinds = {"observedBan"}
  WritesFail = FALSE
  MaxMishaps = 0
  MaxOutside = 2
SYMMETRY JobSymmetry
CHECK_DEADLOCK FALSE
PROPERTIES
  ObservedBanSparesCleanup
