SPECIFICATION Spec
CONSTANTS
  p1 = p1
  p2 = p2
  k1 = k1
  OpeningP1 = 8
  Profiles = {p1, p2}
  Requests = {r1, r2}
  Keys = {k1}
  NoKey = NoKey
  NoResult = NoResult
  Calls <- MCRetriedCalls
  OpeningBalance <- MCOpening
  MaxBalance = 11
  MaxConns = 2
INVARIANTS
  AtMostOncePerKey
