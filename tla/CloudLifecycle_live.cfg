SPECIFICATION MCSpecLive
CONSTANTS
  p1 = p1
  p2 = p2
  user = user
  cron = cron
  Projects = {p1, p2}
  Kind <- MCKind
  Procs = {user, cron}
  Duties <- MCDutiesLive
  Lifetimes = {1}
  MaxTime = 1
  Crowded = TRUE
PROPERTIES LeftoversAreReclaimed CommandsEnd
CHECK_DEADLOCK FALSE
