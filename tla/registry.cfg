SPECIFICATION Spec
CONSTANTS
  Null = Null
  t1 = t1
  t2 = t2
  t3 = t3
  a = a
  b = b
  main = main
  Tenant = {t1, t2, t3}
  Code = {a, b, main}
  Main = main
  Tolerance = 1
  Staffed = {t1}
  Seeded <- MCSeeded
  SeededLinks <- MCSeededLinks
  Dto <- MCDto
  Request = {r1, r2, r3}
SYMMETRY AnyRequest
INVARIANTS
  ReferencesInTenant
  OneFirstUserUnlessOvertaken
  UnsuccessfulLeavesNothing
  TokenSpentOnceUnlessOvertaken
  TrialBalanceWithinTolerance
