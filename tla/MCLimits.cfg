SPECIFICATION LimitsSpec
CONSTANTS
  c1 = c1
  c2 = c2
  q6 = q6
  Clients = {c1, c2}
  Requests = {q1, q2, q3, q4, q6}
  From <- MCFrom
  Cost = 3
  Rate = 2
  Burst = 6
  MaxTime = 3
  h1 = h1
  h2 = h2
  h3 = h3
  h4 = h4
  Handlers = {h1, h2, h3, h4}
  MaxConns = 4
  MaxInner = 2
  Route <- MCRoute
CHECK_DEADLOCK FALSE
INVARIANTS
  TypeOK
  WindowBound
  LimitedOnlyAtBound
  NeverStuck
PROPERTIES
  EveryRequestServed
