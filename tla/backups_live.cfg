SPECIFICATION FairSpec
CONSTANTS
  Scheduler = sched
  Triggers = {tr}
  Exports = {ex}
  Admins = {ad}
  Job = {j1}
  Target = {s1}
  JobTargets <- MCJobTargets
  Keep <- MCKeep1
  Retention <- MCRetention0
  AtClock <- MCInterval
  Period = 1
  Days = {1}
  Expiry = 1
  None = None
  SameSecond = TRUE
  MaxTime = 1
  MaxBackups = 4
  Limit <- MCLimitAny
  MaxEvents = 1
PROPERTIES
  DownloadsGoAway
  DueJobsRun
  RunsSettle
CHECK_DEADLOCK FALSE
