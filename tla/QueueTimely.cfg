SPECIFICATION FairSpec
CONSTANTS
  Worker = {w1, w2}
  Case = {c1}
  c1 = c1
  NoCase = NoCase
  NoRequest = {verify, preview, detached}
  verify = verify
  reopen = reopen
  preview = preview
  execute = execute
  detached = detached
  Request = {verify, preview, detached}
  CaseOf <- MCCaseOf
  KindOf <- MCKindOf
  HeartbeatsTimely = TRUE
  MaxSubmits = 2
  MaxMishaps = 2
INVARIANTS
  TypeOK
  OneActivePerCase
  OneHandlerPerCase
  AttemptsWithinSubmissions
PROPERTIES
  QueuedIsOnlyClaimed
  CompletedIsFinal
  QueuedIsAnswered
