CONSTANTS
  Requests = {r1}
  x = x
  y = y
  Old = old
  Name = {x, y, old}
  mine = mine
  new = new
  backup_a = backup_a
  backup_b = backup_b
  Content = {mine, new, backup_a, backup_b}
  Written = {new}
  NoFile = NoFile
  NoArchive = NoArchive
  NoCopy = NoCopy
  Damaged = Damaged
  NoStage = NoStage
  Archives <- MCOneArchive
  Initially <- MCBoth
  Unreadable = {}
  Faulty = {}
  Overlap = FALSE
  SameSecond = TRUE
  WriteAnyTime = TRUE
  MaxTime = 1
  Limit <- MCLimitWrite
SPECIFICATION Spec
PROPERTY FailedSwapChangesNothing
CHECK_DEADLOCK FALSE
