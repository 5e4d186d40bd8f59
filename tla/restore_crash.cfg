CONSTANTS
  Requests = {r1, r2}
  x = x
  y = y
  Old = old
  Name = {x, y, old}
  mine = mine
  new = new
  backup_a = backup_a
  backup_b = backup_b
  Content = {mine, new, backup_a, backup_b}
  Written = {new}
  NoFile = NoFile
  NoArchive = NoArchive
  NoCopy = NoCopy
  Damaged = Damaged
  NoStage = NoStage
  Archives <- MCFullArchive
  Initially <- MCBoth
  Unreadable = {}
  Faulty <- MCNoticed
  Overlap = TRUE
  SameSecond = FALSE
  WriteAnyTime = FALSE
  MaxTime = 1
  Limit <- MCLimitCrash
SPECIFICATION Spec
INVARIANTS RestoreTypeOK StageIsPrivate OriginalsRecoverable
SYMMETRY MCSymmetry
CHECK_DEADLOCK FALSE
