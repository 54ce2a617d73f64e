SPECIFICATION Spec
CONSTANTS
  p1 = p1
  p2 = p2
  p3 = p3
  d1 = d1
  d2 = d2
  f1 = f1
  f2 = f2
  NULL = NULL
  Procs <- ThreeThreads
  Filedescs <- MCFiledescs
  p_fd <- Shared
  Files <- MCFiles
  LastByte = 1
  Ranges <- MCRanges
  FlockTypes = {"RDLCK", "WRLCK"}
  Limits <- MCLimits
SYMMETRY Symmetry
INVARIANTS TypeOK LocksMatchRequests Exclusion WaitersBlocked EveryLockCharged CloseReleases NoFlockCycle
