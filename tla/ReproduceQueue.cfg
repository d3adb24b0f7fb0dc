SPECIFICATION FairSpec
CONSTANTS
  Findings = {f1, f2}
  Reqs = {r1, r2}
  MaxRuns = 2
  Faults = {"lost"}
  NoFinding = NoFinding
INVARIANTS TypeOK NoEarlyVerdict
PROPERTIES EnqueuedLeaves JobSettles ShutdownNotBlocked
