SPECIFICATION Spec
CONSTANTS
  p1 = p1
  p2 = p2
  p3 = p3
  d1 = d1
  d2 = d2
  f1 = f1
  f2 = f2
  NULL = NULL
  Procs <- TwoThreads
  Filedescs <- MCFiledescs
  p_fd <- Apart
  Files <- MCFiles
  LastByte = 1
  Ranges <- AllPieces
  FlockTypes = {}
  Limits <- HighLimit
INVARIANT NoPosixCycle
