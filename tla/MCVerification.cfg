SPECIFICATION Spec
CONSTANTS
  Masters = {m1, m2}
  Requests = {r1, r2, r3}
SYMMETRY Symmetry
CHECK_DEADLOCK FALSE
INVARIANTS
  TypeOK
  FlagMatchesDocuments
PROPERTY
  AnswersTrue
