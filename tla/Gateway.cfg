SPECIFICATION GatewaySpec
CONSTANTS
  Threads = {h1, h2}
  Callers = {c1}
  NoCaller = NoCaller
  Limit = 2
  WindowSeconds = 1
  MaxTime = 2
  KeyIds = {k1, k2}
  Operators = {o1}
  OtherToken = OtherToken
  Torn = Torn
  MaxKeys = 2
SYMMETRY ThreadSymmetry
INVARIANTS GatewayTypeOK WindowLimit BurstIsBounded
PROPERTIES RefusalIsDeserved RevokedStaysOut
