SPECIFICATION FairSpec
CONSTANTS
  r = r
  a = a
  b = b
  c = c
  d = d
  app1 = app1
  NoJob = NoJob
  NoWorker = NoWorker
  Jobs = {r, a}
  Workers = {w1, w2}
  Calls = {c1, c2}
  ParentJob <- TreeParent
  Parents <- TreeParents
  RunAfter <- NoConditions
  CronJobs = {}
  DetachedJobs = {}
  ActiveLists <- ActiveAppLists
  RunsOutlastCooldown = FALSE
  MaxFaults = 1
PROPERTIES LeafJobsEnd FailureSpreads
