SPECIFICATION PartsSpec
CONSTANTS
  m1 = m1
  m2 = m2
  m3 = m3
  Conns = {m1, m2, m3}
  Limit = 3
  h1 = h1
  h2 = h2
  h3 = h3
  c1 = c1
  c2 = c2
  c3 = c3
  r1 = r1
  r2 = r2
  r3 = r3
  p1 = p1
  p2 = p2
  p3 = p3
  this = this
  listed = listed
  dead = dead
  other = other
  None = None
CHECK_DEADLOCK FALSE
INVARIANTS
  ListenServes
  RoundIsFair
  PollEndsClean
  DeathsTold
  EventsTold
  MacThreadsServe
PROPERTIES
  EndsAtLast
  RingAnswers
