SPECIFICATION FairSpec
CONSTANTS
  t1 = t1
  t2 = t2
  k1 = k1
  Tasks = {t1}
  Keys = {}
  Workers = {}
  NoWorker = NoWorker
  NoTask = NoTask
  NoResult = NoResult
  NoKey = NoKey
  Threads = {h1}
  Ops = {"submit", "process", "cancel"}
  KeyOf <- NoKeys
  MaxAttempts = 2
  LeaseSeconds = 1
  TimeoutSeconds = 1
  BackoffSeconds = 1
  MaxTime = 2
  MaxCrashes = 0
  RunCap = 3
  AttemptCap = 2
INVARIANTS ExecutionsBounded
PROPERTIES RetriesEnd
