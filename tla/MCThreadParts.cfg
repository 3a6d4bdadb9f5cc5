SPECIFICATION PartsSpec
CONSTANTS
  t1 = t1
  t2 = t2
  t3 = t3
  cpu = cpu
  slow1 = slow1
  slow2 = slow2
  None = None
  Threads = {t1, t2, t3}
  EdgeTriggered = FALSE
  Loop = Loop
  Slow = Slow
  Exit = Exit
CHECK_DEADLOCK FALSE
INVARIANTS
  AsyncSafe
  PoolAnswers
  PrimitivesHold
PROPERTIES
  EveryoneServed
