SPECIFICATION Spec
CONSTANTS
  Ids = {o1}
  Masters = {m1, m2}
  Linked = {m1}
  Names = {n1}
  Blank = Blank
  NoMaster = NoMaster
  Requests = {r1, r2}
CHECK_DEADLOCK FALSE
INVARIANTS
  SelectionReturnsOwnChat
