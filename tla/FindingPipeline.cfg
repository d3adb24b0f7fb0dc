SPECIFICATION Spec
CONSTANTS
  Workers = {w1, w2}
  Findings = {f1, f2}
  Sigs = {s1, s2}
  Keys = {k1, k2}
  MaxGroup = 6
  MaxFaults = 1
  None = None
SYMMETRY Symmetry
INVARIANTS TypeOK OnePerWorker TotalWithinFindings ArtifactHasFile ConfirmedHasArtifact GroupsAgree
