SPECIFICATION Spec
CONSTANTS
  Ids = {o1, o2}
  Masters = {m1, m2}
  Linked = {m1}
  Names = {n1}
  Blank = Blank
  NoMaster = NoMaster
  Requests = {r1, r2, r3}
SYMMETRY Symmetry
CHECK_DEADLOCK FALSE
INVARIANTS
  TypeOK
  FinishedHasMaster
  SelectedMasterResponded
  JobsEarned
  ChatMissingHasCause
