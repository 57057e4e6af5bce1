SPECIFICATION Spec
CONSTANTS
  t1 = t1
  t2 = t2
  k1 = k1
  Tasks = {t1}
  Keys = {}
  Workers = {w1}
  NoWorker = NoWorker
  NoTask = NoTask
  NoResult = NoResult
  NoKey = NoKey
  Threads = {h1}
  Ops = {"submit", "approve", "reject", "cancel", "process", "timeouts", "recover_job", "recover_approval"}
  KeyOf <- NoKeys
  MaxAttempts = 2
  LeaseSeconds = 1
  TimeoutSeconds = 1
  BackoffSeconds = 1
  MaxTime = 2
  MaxCrashes = 1
  RunCap = 1
  AttemptCap = 2
INVARIANTS ApprovalGate NothingToReconcile
