CONSTANTS
  d1 = d1
  d2 = d2
  t1 = t1
  t2 = t2
  Daemons = {d1, d2}
  Tuis = {t1, t2}
  NoOne = NoOne
  Pid <- TwoPids
  IdleChecks = 2
  Patience = 1
SPECIFICATION LiveSpec
INVARIANTS
  DaemonTypeOK
  AtMostOneServes
  PidfileNamesHolder
PROPERTIES
  IdleExitIsEarned
  QuitEnds
CHECK_DEADLOCK FALSE
