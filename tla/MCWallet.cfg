SPECIFICATION FairSpec
CONSTANTS
  p1 = p1
  p2 = p2
  k1 = k1
  OpeningP1 = 4
  Profiles = {p1, p2}
  Requests = {r1, r2, r3}
  Keys = {k1}
  NoKey = NoKey
  NoResult = NoResult
  Calls <- MCCalls
  OpeningBalance <- MCOpening
  MaxBalance = 11
  MaxConns = 2
INVARIANTS
  TypeOK
  BalanceInRange
  Conservation
  KeyLandsWithMoney
  RetryReplays
  AnswersTruthful
PROPERTIES
  FirstResultStays
  EveryRequestEnds
  ImplementsLedger
