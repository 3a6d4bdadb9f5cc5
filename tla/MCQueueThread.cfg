SPECIFICATION PartsSpec
CONSTANTS
  t1 = t1
  t2 = t2
  t3 = t3
  a = a
  b = b
  c = c
  loop = loop
  owner = owner
  user = user
  task1 = task1
  stop1 = stop1
  stop2 = stop2
  NoCommand = NoCommand
  NoThread = NoThread
  Threads = {t1, t2, t3}
  Elements = {a, b, c}
CHECK_DEADLOCK FALSE
INVARIANTS
  QueueServes
PROPERTIES
  ImplementsExecutor
  StopsAtLast
