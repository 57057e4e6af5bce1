SPECIFICATION FlowSpec
CONSTANTS
  t1 = t1
  Clients = {c1, c2}
  Tasks = {t1}
  NoTask = NoTask
  Review = {t1}
  MaxIssues = 2
  MaxFailures = 1
  Runs = {t1}
  NoRun = NoRun
  Handlers = {h1, h2}
  Replays = {p1}
  NoRecord = NoRecord
  Torn = Torn
  MaxExecutions = 2
  MaxFaults = 1
SYMMETRY FlowSymmetry
INVARIANTS FlowTypeOK ReviewBeforeWake OrphanNeedsAFailure SuccessIsPosted RepetitionNeedsAFault PostbackIsAccountedFor
