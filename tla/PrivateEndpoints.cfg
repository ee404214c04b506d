SPECIFICATION MCSpec
CONSTANTS
  l1 = l1
  l2 = l2
  Links = {l1, l2}
INVARIANTS TypeOK
PROPERTIES CleanRunIsComplete SparesLive DeadIsReclaimed
