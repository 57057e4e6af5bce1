SPECIFICATION Spec
CONSTANTS
  t1 = t1
  t2 = t2
  k1 = k1
  Tasks = {t1}
  Keys = {k1}
  Workers = {w1, w2}
  NoWorker = NoWorker
  NoTask = NoTask
  NoResult = NoResult
  NoKey = NoKey
  Threads = {h1}
  Ops = {"submit", "approve", "reject", "cancel", "result", "process", "timeouts", "delete"}
  KeyOf <- OneKey
  MaxAttempts = 2
  LeaseSeconds = 1
  TimeoutSeconds = 1
  BackoffSeconds = 1
  MaxTime = 3
  MaxCrashes = 0
  RunCap = 3
  AttemptCap = 2
INVARIANTS TypeOK ResultMatchesState RowMatchesState DeletedIsGone
PROPERTIES FirstResultWins FollowsLifecycle
