SPECIFICATION MCSpec
CONSTANTS
  c1 = c1
  user = user
  cron = cron
  Clusters = {c1}
  Procs = {user, cron}
  Duties <- MCDuties
  MaxCommands <- MCCommands
  OpenShift = TRUE
  Settle = 2
  Lag = 1
INVARIANTS TypeOK
PROPERTIES SettledOnSuccess EnabledIsServed ExpiredIsReclaimed
