SPECIFICATION Spec
CONSTANTS
  Scheduler = sched
  Triggers = {tr}
  Exports = {ex}
  Admins = {ad}
  Job = {j1}
  Target = {s1, s2}
  JobTargets <- MCJobTargets
  Keep <- MCKeep1
  Retention <- MCRetention0
  AtClock <- MCClock
  Period = 1
  Days = {1}
  Expiry = 1
  None = None
  SameSecond = FALSE
  MaxTime = 1
  MaxBackups = 7
  Limit <- MCLimitKeep
  MaxEvents = 1
INVARIANT KeepLastHonoured
PROPERTIES
  OncePerSlot
  EveryTargetTried
CHECK_DEADLOCK FALSE
