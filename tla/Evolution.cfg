SPECIFICATION Spec
CONSTANTS
  p1 = p1
  p2 = p2
  Procs <- MCProcs
  Deployments <- MCDeployments
  Drafts <- MCDrafts
  Targets <- MCTargets
  MinVerified = 2
  IdHead = 3
  MaxHistory = 5
  MaxCrashes = 1
SYMMETRY Symmetry
INVARIANTS
  
  GatesHeld
  HistoryIsPath
CHECK_DEADLOCK FALSE
