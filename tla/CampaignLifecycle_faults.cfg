SPECIFICATION Spec
CONSTANTS
  NoRun = NoRun
  Campaigns = {c1, c2}
  Starts = {s1, s2}
  Stops = {t1}
  Faults = {"lost", "applied"}
SYMMETRY Symmetry
INVARIANTS NoDeadHandle
PROPERTIES StoppedOnlyByCancel
CHECK_DEADLOCK FALSE
