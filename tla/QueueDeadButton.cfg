SPECIFICATION Spec
CONSTANTS
  Worker = {w1, w2}
  Case = {c1}
  c1 = c1
  NoCase = NoCase
  NoRequest = NoRequest
  verify = verify
  reopen = reopen
  preview = preview
  execute = execute
  detached = detached
  Request = {verify, reopen}
  CaseOf <- MCCaseOf
  KindOf <- MCKindOf
  HeartbeatsTimely = TRUE
  MaxSubmits = 2
  MaxMishaps = 1
PROPERTIES
  OfferedActionIsQueued
