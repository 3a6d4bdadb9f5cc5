SPECIFICATION PartsSpec
CONSTANTS
  loop = loop
  owner = owner
  user = user
  controller = controller
  task1 = task1
  task2 = task2
  timer1 = timer1
  stop1 = stop1
  stop2 = stop2
  Threads = {loop, owner, controller}
  Loop = loop
  Controllers = {controller}
  Commands = {task1, timer1, stop1, stop2}
  Kind <- MCKind
  NoCommand = NoCommand
  NoThread = NoThread
  EdgeTriggered = TRUE
  LoopJoins = TRUE
  w1 = w1
  w2 = w2
  w3 = w3
  w4 = w4
  f1 = f1
  f2 = f2
  h1 = h1
  h2 = h2
  s1 = s1
  s2 = s2
  r1 = r1
  r2 = r2
  r3 = r3
  None = None
SYMMETRY PartsSymmetry
CHECK_DEADLOCK FALSE
INVARIANTS
  NothingStranded
  NoUseAfterFree
  OnlyLateTimersSurvive
  DeathHasCause
  WatchersHear
  KqueueHears
  SignalsCounted
  HeapIsHeap
  StdioPlaced
  TextsReadBack
PROPERTIES
  JoinSeesEnd
  DatagramsKept
