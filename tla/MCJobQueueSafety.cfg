SPECIFICATION Spec
CONSTANTS
  r = r
  a = a
  b = b
  c = c
  d = d
  app1 = app1
  NoJob = NoJob
  NoWorker = NoWorker
  Jobs = {r, a, b, c}
  Workers = {w1, w2}
  Calls = {c1, c2}
  ParentJob <- TreeParent
  Parents <- TreeParents
  RunAfter <- BAfterA
  CronJobs = {}
  DetachedJobs = {}
  ActiveLists <- ActiveAppLists
  RunsOutlastCooldown = FALSE
  MaxFaults = 2
SYMMETRY Symmetry
INVARIANTS TypeOK OneRunner CompletedIsSettled FailureReachesParent DependenciesHold
PROPERTIES TerminalIsFinal
