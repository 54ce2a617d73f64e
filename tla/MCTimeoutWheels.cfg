\* One timeout, 8-bit ints: every wheel boundary and the wrap of ticks.
SPECIFICATION Spec
CONSTANTS
  t1 = t1
  t2 = t2
  NoTimeout = NoTimeout
  Timeouts <- One
  WHEELBITS = 2
  hz = 4
  tick = 5
  Secs <- BoundarySecs
  Usecs <- BoundaryUsecs
  MaxLate = 2
VIEW LiveState
INVARIANT DueOnTodo
PROPERTY TimersImplemented
