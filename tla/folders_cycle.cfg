CONSTANTS
  Requests = {r1, r2}
  Users = {u1}
  Admins = {}
  Container = {c1, c2, c3}
  None = None
  NoRow = NoRow
  NoTx = NoTx
  Overlap = TRUE
  MaxFolders = 3
  MaxDepth = 4
  Limit <- MCLimitMoves
  MaxEvents = 5
SPECIFICATION Spec
INVARIANT Forest
CHECK_DEADLOCK FALSE
