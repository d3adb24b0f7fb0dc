SPECIFICATION Spec
CONSTANTS
  Findings = {f1}
  Reqs = {r1, r2}
  MaxRuns = 1
  Faults = {}
  NoFinding = NoFinding
PROPERTIES AcceptedIsPickedUp
