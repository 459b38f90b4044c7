SPECIFICATION Spec
CONSTANTS
  p1 = p1
  p2 = p2

  Pid = {p1, p2}
  NoPid = NoPid
  MaxJobs = 2
  Keys = {"INT", "TSTP"}
SYMMETRY Symmetry
INVARIANTS
  OneForeground
  NextJidExact
PROPERTIES
  AbortCauses
