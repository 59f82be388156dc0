SPECIFICATION Spec
CONSTANTS
  Orders = {o1, o2}
  Images = {i1, i2}
  Requests = {r1, r2, r3}
  Sizes = 3
  MaxFaults = 3
SYMMETRY Symmetry
CHECK_DEADLOCK FALSE
INVARIANTS
  TypeOK
  RowsHaveFiles
  PhotosInUploadOrder
