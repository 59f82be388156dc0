SPECIFICATION FairSpec
CONSTANTS
  Servers = {s1, s2}
  Dialects = {"sqlite", "postgres"}
  SeedRows = 2
  MaxFaults = 2
  MaxChats = 3
  MaxId = 6
CHECK_DEADLOCK FALSE
INVARIANTS
  SchemaReady
  DataReady
  ChatIdsClashOnce
PROPERTIES
  ImplementsDeployment
  ServesUnlessSpoiled
