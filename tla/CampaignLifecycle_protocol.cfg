SPECIFICATION FairSpec
CONSTANTS
  NoRun = NoRun
  Campaigns = {c1}
  Starts = {s1, s2}
  Stops = {t1, t2}
  Faults = {}
INVARIANTS TypeOK ExclusiveRun NoOrphan
PROPERTIES ImplementsStatus ActiveSettles StoppingRunSettles
CHECK_DEADLOCK FALSE
