CONSTANTS
  p1 = p1
  p2 = p2
  p3 = p3
  i1 = i1
  i2 = i2
  Uploads = {p1, p2, p3}
  Images = {i1, i2}
  NoImage = NoImage
  LastDay = 1
SPECIFICATION Spec
SYMMETRY Interchangeable
INVARIANTS
  TypeOK
  NoDoubleUpload
  ObjectAgrees
  ChecksumKept
CHECK_DEADLOCK FALSE
