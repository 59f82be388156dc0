SPECIFICATION FairPoolSpec
CONSTANTS
  h1 = h1
  h2 = h2
  h3 = h3
  h4 = h4
  Handlers = {h1, h2}
  MaxConns = 1
  MaxInner = 2
  Route <- MCSoloRoute
INVARIANTS
  NeverStuck
