SPECIFICATION Spec
CONSTANTS
  p1 = p1
  p2 = p2
  user = user
  cron = cron
  Projects = {p1, p2}
  Kind <- MCKind
  Procs = {user, cron}
  Duties <- MCDuties
  Lifetimes = {0, 1}
  MaxTime = 1
  Crowded = TRUE
INVARIANTS TypeOK VictimsWereExpired CreatedOnceOrReauthenticated ProjectAfterClusters
CHECK_DEADLOCK FALSE
