SPECIFICATION Spec
CONSTANTS
  loop = loop
  owner = owner
  user = user
  controller = controller
  task1 = task1
  task2 = task2
  timer1 = timer1
  stop1 = stop1
  stop2 = stop2
  Threads = {loop, owner}
  Loop = loop
  Controllers = {}
  Commands = {timer1, stop1}
  Kind <- MCKind
  NoCommand = NoCommand
  NoThread = NoThread
  EdgeTriggered = TRUE
  LoopJoins = FALSE
CHECK_DEADLOCK FALSE
INVARIANTS
  LoopClosesCleanly
