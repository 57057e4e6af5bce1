SPECIFICATION Spec
CONSTANTS
  Tasks = {"patch", "half", "astray", "undo"}
  Workers = {w1, w2}
  Paths = {f, g}
  DefaultPath = f
  NoPath = NoPath
  Outside = Outside
  Contents = {e, a, acr}
  Empty = e
  Absent = Absent
  Garbled = Garbled
  Unreadable = Unreadable
  ReadText <- Universal
  NoTask = NoTask
  Torn = Torn
  Request <- Chosen
  Initial <- FirstFiles
  f = f
  g = g
  a = a
  acr = acr
SYMMETRY WorkerSymmetry
INVARIANTS DeniedHasNoEffect SucceededIsComplete
PROPERTIES OwnWorkIsNoObstacle
