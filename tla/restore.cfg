CONSTANTS
  Requests = {r1}
  x = x
  y = y
  Old = old
  Name = {x, y, old}
  mine = mine
  new = new
  backup_a = backup_a
  backup_b = backup_b
  Content = {mine, new, backup_a, backup_b}
  Written = {new}
  NoFile = NoFile
  NoArchive = NoArchive
  NoCopy = NoCopy
  Damaged = Damaged
  NoStage = NoStage
  Archives <- MCArchives
  Initially <- MCInitially
  Unreadable = {}
  Faulty <- MCForgiven
  Overlap = FALSE
  SameSecond = TRUE
  WriteAnyTime = FALSE
  MaxTime = 1
  Limit <- MCLimit
SPECIFICATION FairSpec
PROPERTY ReplacesAtomically
CHECK_DEADLOCK FALSE
