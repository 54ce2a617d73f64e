SPECIFICATION FairSpec
CONSTANTS
  p1 = p1
  p2 = p2
  p3 = p3
  NoProc = NoProc
  Procs <- MCProcs
  Flags <- MCFlags
INVARIANTS
  TypeOK
  Exclusion
  WordTellsTruth
  NoLostWakeup
PROPERTY SleepersWoken
