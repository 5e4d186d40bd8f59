CONSTANTS
  Requests = {r1, r2}
  Users = {u1, u2}
  Admins = {}
  Container = {c1, c2, c3}
  None = None
  NoRow = NoRow
  NoTx = NoTx
  Overlap = FALSE
  MaxFolders = 4
  MaxDepth = 4
  Limit <- MCLimitAll
  MaxEvents = 4
SPECIFICATION Spec
INVARIANTS FoldersTypeOK Forest DepthsAreRight PositionsDiffer PlacesDiffer
PROPERTIES OthersKeepOrder
SYMMETRY MCSymmetry
CHECK_DEADLOCK FALSE
