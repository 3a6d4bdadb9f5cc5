SPECIFICATION PartsSpec
CONSTANTS
  a = a
  b = b
  w1 = w1
  w2 = w2
  s1 = s1
  c1 = c1
  None = None
  Timers = {a, b}
  Timeouts <- MCTimeouts
  Top = 7
  IntMax = 2
  MaxClock = 3
  Forever = Forever
CHECK_DEADLOCK FALSE
INVARIANTS
  NotBeforeDue
PROPERTIES
  FiringOrder
  ArmedFires
  EndsComplete
