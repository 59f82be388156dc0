SPECIFICATION FairSpec
CONSTANTS
  master = master
  customer = customer
  r1 = r1
  r2 = r2
  r3 = r3
  Keys = {master, customer}
  MasterKeys = {master}
  Requests = {r1, r2, r3}
  Workloads <- MCWorkloads
  MaxFaults = 1
  MaxStarts = 1
CHECK_DEADLOCK FALSE
INVARIANTS
  TypeOK
  LoginsAgree
  MovedOnlyAfterTrouble
  MasterHasListing
PROPERTIES
  EveryLoginGetsIn
  ImplementsDirectory
