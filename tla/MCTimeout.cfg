\* Two timeouts, 4-bit ints, with the fairness of the clock and softclock.
SPECIFICATION FairSpec
CONSTANTS
  t1 = t1
  t2 = t2
  NoTimeout = NoTimeout
  Timeouts <- Two
  WHEELBITS = 1
  hz = 2
  tick = 1
  Secs <- FewSecs
  Usecs <- FewUsecs
  MaxLate = 1
INVARIANTS TypeOK QueuedOnce
PROPERTY DueTimeoutsFire
