SPECIFICATION FairSpec
CONSTANTS
  Scheduler = sched
  Triggers = {tr}
  Exports = {ex}
  Admins = {ad}
  Job = {j1}
  Target = {s1}
  JobTargets <- MCJobTargets
  Keep <- MCKeep1
  Retention <- MCRetention1
  AtClock <- MCClock
  Period = 2
  Days = {1}
  Expiry = 1
  None = None
  SameSecond = TRUE
  MaxTime = 2
  MaxBackups = 4
  Limit <- MCLimitAny
  MaxEvents = 2
INVARIANT NoStaleRow
CHECK_DEADLOCK FALSE
