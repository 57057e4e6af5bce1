SPECIFICATION Spec
CONSTANTS
  Tasks = {"bold", "button"}
  Workers = {w1}
  Paths = {f, g}
  DefaultPath = f
  NoPath = NoPath
  Outside = Outside
  Contents = {e, a, acr}
  Empty = e
  Absent = Absent
  Garbled = Garbled
  Unreadable = Unreadable
  ReadText <- Universal
  NoTask = NoTask
  Torn = Torn
  Request <- Chosen
  Initial <- FirstFiles
  f = f
  g = g
  a = a
  acr = acr
INVARIANT PolicyIsEnforced
