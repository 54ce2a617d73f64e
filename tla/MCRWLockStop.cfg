SPECIFICATION Spec
CONSTANTS
  p1 = p1
  p2 = p2
  p3 = p3
  NoProc = NoProc
  Procs <- MCProcs
  Flags <- MCFlags
INVARIANT ReadyForSleep
