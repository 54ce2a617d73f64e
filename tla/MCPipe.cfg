SPECIFICATION Spec
CONSTANTS
  r1 = r1
  w1 = w1
  w2 = w2
  Closer = Closer
  NoProc = NoProc
  Readers <- OneReader
  Writers <- TwoWriters
  ReadSizes <- Read2
  WriteSizes <- MixedWrites
  PIPE_SIZE = 3
  BIG_PIPE_SIZE = 4
  PIPE_BUF = 2
  LIMITBIGPIPES = 1
  BigElsewhere = {0, 1}
  Failures <- AllFailures
SYMMETRY Symmetry
VIEW LiveState
INVARIANTS TypeOK LockAndBusy BufferIsFifo SmallWritesAtomic BigPipesCounted NoStandoff
CHECK_DEADLOCK FALSE
