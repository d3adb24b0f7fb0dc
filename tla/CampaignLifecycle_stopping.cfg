SPECIFICATION FairSpec
CONSTANTS
  NoRun = NoRun
  Campaigns = {c1}
  Starts = {s1, s2}
  Stops = {t1}
  Faults = {}
PROPERTY StoppingSettles
CHECK_DEADLOCK FALSE
