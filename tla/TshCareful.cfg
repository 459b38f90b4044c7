SPECIFICATION FairSpec
CONSTANTS
  p1 = p1
  p2 = p2
  Pid = {p1, p2}
  NoPid = NoPid
  MaxJobs = 2
  Keys = {"TSTP"}
INVARIANTS
  JobListExact
  JobStatesTrack
  MaskRestored
  NeverAborts
PROPERTIES
  ForegroundEnds
  ZombiesReaped
