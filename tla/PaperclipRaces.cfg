SPECIFICATION Spec
CONSTANTS
  t1 = t1
  t2 = t2
  k1 = k1
  Tasks = {t1}
  Keys = {}
  Workers = {}
  NoWorker = NoWorker
  NoTask = NoTask
  NoResult = NoResult
  NoKey = NoKey
  Threads = {h1, h2}
  Ops = {"submit", "approve", "reject", "process"}
  KeyOf <- NoKeys
  MaxAttempts = 2
  LeaseSeconds = 1
  TimeoutSeconds = 1
  BackoffSeconds = 1
  MaxTime = 1
  MaxCrashes = 1
  RunCap = 1
  AttemptCap = 2
SYMMETRY ThreadSymmetry
INVARIANTS ApprovalGate NothingToReconcile AcknowledgedSubmitIsDurable AttemptsBounded
