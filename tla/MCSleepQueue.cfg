SPECIFICATION FairSpec
CONSTANTS
  p1 = p1
  p2 = p2
  c1 = c1
  c2 = c2
  NoProc = NoProc
  NULL = NULL
  Procs <- MCProcs
  Idents <- OneIdent
  Calls <- MixedSleeps
  ContCaught <- Never
INVARIANTS TypeOK AsleepIffQueued ReturnTellsCause
PROPERTIES WokenReturns TimedSleepEnds
