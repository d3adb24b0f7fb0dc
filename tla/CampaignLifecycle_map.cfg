SPECIFICATION Spec
CONSTANTS
  NoRun = NoRun
  Campaigns = {c1}
  Starts = {s1, s2}
  Stops = {t1}
  Faults = {}
INVARIANT RunningMapAuthoritative
CHECK_DEADLOCK FALSE
