SPECIFICATION Spec
CONSTANTS
  p1 = p1
  p2 = p2
  c1 = c1
  c2 = c2
  NoProc = NoProc
  NULL = NULL
  Procs <- MCProcs
  Idents <- MCIdents
  Calls <- MutexSleeps
  ContCaught <- Never
INVARIANT MutexDropped
