SPECIFICATION Spec
CONSTANTS
  Campaigns = {c1}
  Recordings = {r1, r2}
  Configs = {g1, g2}
  Invalid = Invalid
  QuickConfig = g1
  Selections <- MCSelections
  Requests = {q1, q2}
  None = None
SYMMETRY Symmetry
INVARIANTS TypeOK RunMatchesRow
PROPERTIES CreatedWhole
