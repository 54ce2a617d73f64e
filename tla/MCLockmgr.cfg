SPECIFICATION FairSpec
CONSTANTS
  p1 = p1
  p2 = p2
  p3 = p3
  p4 = p4
  LK_NOPROC = LK_NOPROC
  Procs <- MCProcs
  Drainer = p1
  Prios <- MCPrios
  MaxRecurse = 2
INVARIANTS TypeOK Exclusion CountsMatch NoLostWakeup
PROPERTIES WantStopsOthers WantGranted
