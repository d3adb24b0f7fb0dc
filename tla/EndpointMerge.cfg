SPECIFICATION Spec
CONSTANTS
  a = a
  b = b
  c = c
  p = p
  PH = PH
  None = None
  Committed = Committed
  Exchanges = {x1, x2, x3, x4}
  Paths <- MCPaths
  Params <- MCParams
  Extends <- MCExtends
  MaxLinked = 1
  MaxFaults = 1
SYMMETRY Symmetry
CHECK_DEADLOCK FALSE
INVARIANTS TypeOK EntriesNumbered NothingLost PathGeneralises TrieSettled TargetsKnown
PROPERTY ActiveUntouched
