---------------------- MODULE UVExecutionThreadProofs ----------------------
(***************************************************************************)
(* Proofs about UVExecutionThread, for every finite set of threads, every  *)
(* set of commands of any kind, either kind of descriptor and either       *)
(* answer to the question whether the loop thread may join itself.         *)
(*                                                                         *)
(* The wakeup protocol inside the thread is that of UVAsync, so that its   *)
(* invariant is not proved again: every step of the thread is a step of    *)
(* UVAsync or leaves it alone (WakeSteps).                                 *)
(***************************************************************************)
EXTENDS UVExecutionThread, FiniteSetTheorems, SequenceTheorems, TLAPS

Wake == INSTANCE UVAsyncProofs WITH io <- IoOf(lp)

-----------------------------------------------------------------------------
(* The inductive invariant.                                                *)

(* Where a thread inside add() holds the lock, and how far its send may    *)
(* have come.                                                              *)
CallShape ==
  \A t \in Threads :
    /\ at[t] = "locked" <=> lock = t
    /\ at[t] \notin {"locked", "send"} => snd[t] = "idle"
    /\ at[t] = "locked" => snd[t] \in {"idle", "load", "inc"}
    /\ at[t] \in {"enq", "locked", "guard"} => cmd[t] \in Commands

(* A sender that read a set flag inside the critical section, before its   *)
(* command was in the queue, can still rely on it.                         *)
HoistedLoadIsSafe ==
  handle = "open" /\ lp \notin {"jobs", "run"} \cup Ended =>
    \A t \in Threads : at[t] = "locked" /\ snd[t] = "idle" => pending = 1

(* main holds `running` from its first to its last statement.              *)
InMain == LoopPlaces \ {"created", "lock", "exited", "freed", "fatal"}
MainHoldsRunning == running = Loop <=> lp \in InMain

(* What the loop thread calls, it calls from a task.                       *)
LoopCallsFromTasks == at[Loop] # "idle" => InUserCode

(* The loop thread has a command, or a timer, exactly in a callback.       *)
CurIsCommand == lp \in {"run", "spin", "fire", "aborted"} => cur \in Commands

FreedIsClosed == lp = "freed" => handle = "closed"

(* The queue is the part of the history that was not taken.                *)
QueueIsRest ==
  /\ Len(items) <= Len(accepted)
  /\ \A i \in 1..Len(items) :
       items[i] = accepted[Len(accepted) - Len(items) + i]

(* Nobody asks for a stop without setting the flag of the thread first.    *)
StopIsCancelled ==
  /\ \A t \in Threads :
       at[t] \in {"enq", "locked"} /\ Kind[cmd[t]] = "stop" => cancelled
  /\ \A i \in 1..Len(accepted) : Kind[accepted[i]] = "stop" => cancelled
  /\ lp = "run" /\ Kind[cur] = "stop" => cancelled
  /\ lp \in Ended => cancelled

(* The teardown.  Commands are taken from the front of the history; a      *)
(* command that the loop executes is the last one taken.                   *)
Taken == Len(accepted) - Len(items)
CurIsLatest ==
  lp \in {"run", "spin", "aborted"} => Taken >= 1 /\ cur = accepted[Taken]

(* The handle is closed by a stop; whoever runs after it was taken later.  *)
StopAmong(n) == \E i \in 1..n : Kind[accepted[i]] = "stop"
ClosedByStop ==
  handle # "open" => /\ StopAmong(Taken)
                     /\ lp \in {"run", "aborted"} => StopAmong(Taken - 1)

(* A timer is armed by its command, runs while it is active, and is late   *)
(* when a stop was taken before its command.                               *)
Late(c) == \E i, j \in 1..Taken :
             i < j /\ Kind[accepted[i]] = "stop" /\ accepted[j] = c
TimersOfTimers ==
  /\ \A c \in Commands : timer[c] # "none" => Kind[c] = "timer"
  /\ lp = "fire" => timer[cur] = "active"
OnlyLateLeft ==
  \A c \in Commands :
    /\ handle = "removed" /\ timer[c] = "active" => Late(c)
    /\ handle = "closed" /\ timer[c] \in {"active", "closing"} => Late(c)

(* A loop that was stopped runs its closing handles before uv_run returns. *)
StoppedLoopCloses ==
  /\ handle = "removed" => lp \in {"jobs", "run", "closing", "aborted"}
  /\ stopFlag => handle \in {"removed", "closed"}
RanOrClosed ==
  /\ lp \in {"created", "lock"} => Taken = 0
  /\ lp \in {"check", "exited"} => handle = "closed" \/ Taken = 0

(* Why the process has died.                                               *)
Causes ==
  /\ lp = "fatal" =>
       \/ Taken = 0
       \/ \E i, j \in 1..Len(accepted) : /\ i < j
                                          /\ Kind[accepted[i]] = "stop"
                                          /\ Kind[accepted[j]] = "timer"
  /\ lp = "aborted" => Kind[cur] = "stop" /\ handle # "open"

TearDownInv == /\ CurIsLatest /\ ClosedByStop /\ TimersOfTimers
               /\ OnlyLateLeft /\ StoppedLoopCloses /\ RanOrClosed
               /\ Causes

LocalInv == /\ TypeOK
            /\ CallShape
            /\ MainHoldsRunning
            /\ LoopCallsFromTasks
            /\ CurIsCommand

ThreadInv == /\ LocalInv
             /\ Wake!AsyncInv
             /\ HoistedLoadIsSafe
             /\ NothingStranded
             /\ FreedIsClosed
             /\ QueueIsRest
             /\ StopIsCancelled
             /\ TearDownInv

-----------------------------------------------------------------------------
(* The steps of the threads and the steps of the loop.                     *)

CallStep(t) == \/ \E c \in Fresh : Submit(t, c) \/ Cancel(t, c)
                                   \/ StopSeesNoFlag(t, c)
               \/ StopSeesFlag(t)
               \/ ThreadStep(t)

LoopSide == Start \/ LoopStep \/ Deinit

LEMMA NextSplits == Next <=> (\E t \in Threads : CallStep(t)) \/ LoopSide
BY DEF Next, CallStep, LoopSide

LEMMA FreshIsCommand == Fresh \subseteq Commands
BY DEF Fresh

(* A call leaves the loop thread where it is.                              *)
LEMMA CallFrame ==
  ASSUME NEW t \in Threads, CallStep(t)
  PROVE  UNCHANGED <<handle, loopVars, running>>
BY DEF CallStep, ThreadStep, Submit, Cancel, StopSeesNoFlag, StopSeesFlag,
   StopCancel, Join, EnqLock, SendLoad, Enqueue, SendRest, AddReturn,
   asyncVars, queueVars, callVars, loopVars, lifeVars,
   Async!CallSend, Async!Load, Async!Inc, Async!Xchg, Async!Write, Async!Dec

(* The loop leaves the calls of the other threads alone.                   *)
LEMMA LoopFrame ==
  LoopSide => UNCHANGED <<snd, at, cmd, joins, lock, accepted, cancelled>>
BY DEF LoopSide, Start, LoopStep, Deinit, LockRunning, EnterRun, LeaveMain,
   FireTimer, FireEnd, NextIteration, RunReturns, Poll, RunClosing, Dequeue,
   HandlerReturn, RunEnd, ArmTimer, StopClose, StopAgain, SpinDone,
   asyncVars, queueVars, callVars, loopVars, lifeVars,
   Async!EnterPoll, Async!Wakeup, Async!PollOther, Async!Drain,
   Async!Exchange, Async!Close, Async!SpinDone, Async!CallbackReturn,
   Async!FinishClose

-----------------------------------------------------------------------------
(* The wakeup protocol of UVAsync, inside the thread.                      *)

(* The assumptions of UVAsync hold of the instance.                        *)
LEMMA WakeFinite == Wake!IsFiniteSet(Threads)
BY ThreadsAssumption DEF Wake!IsFiniteSet, IsFiniteSet

LEMMA WakeTypes == Wake!AsyncInv => Async!TypeOK
BY DEF Wake!AsyncInv, Wake!TypeOK, Async!TypeOK, Wake!SendSteps,
   Async!SendSteps, Wake!IoSteps, Async!IoSteps, Wake!HandleStates,
   Async!HandleStates

LEMMA WakeInit == Init => Wake!AsyncInv
<1>1. Init => Wake!Init
  BY DEF Init, Async!Init, Wake!Init, IoOf
<1>2. QED
  BY <1>1, Wake!AsyncInit, WakeFinite, ModesAssumption

(* Every step of the thread is a step of the wakeup protocol, or does not  *)
(* touch it.                                                               *)
LEMMA WakeSteps == [Next]_vars => [Wake!Next]_(Wake!vars)
<1> SUFFICES ASSUME [Next]_vars PROVE [Wake!Next]_(Wake!vars)
  OBVIOUS
<1> USE DEF Wake!Next, Wake!vars
<1>1. ASSUME NEW t \in Threads, CallStep(t)
      PROVE  [Wake!Next]_(Wake!vars)
  <2>1. UNCHANGED <<lp, handle>>
    BY <1>1, CallFrame DEF loopVars
  <2>2. CASE EnqLock(t)
    BY <2>2 DEF EnqLock, Async!CallSend, Wake!CallSend
  <2>3. CASE SendLoad(t)
    BY <2>3 DEF SendLoad, Async!Load, Wake!Load, Wake!SendStep
  <2>4. CASE SendRest(t)
    BY <2>4 DEF SendRest, Wake!SendStep, Async!Inc, Wake!Inc, Async!Xchg,
       Wake!Xchg, Async!Write, Wake!Write, Async!Dec, Wake!Dec
  <2>5. ASSUME ~EnqLock(t), ~SendLoad(t), ~SendRest(t)
        PROVE  UNCHANGED asyncVars
    BY <1>1, <2>5 DEF CallStep, ThreadStep, Submit, Cancel, StopSeesNoFlag,
       StopSeesFlag, StopCancel, Join, Enqueue, AddReturn
  <2>6. QED
    BY <2>1, <2>2, <2>3, <2>4, <2>5 DEF asyncVars
<1>2. CASE LoopSide
  <2>1. CASE NextIteration
    BY <2>1 DEF NextIteration, Async!EnterPoll, Wake!EnterPoll, Wake!LoopStep
  <2>2. CASE Poll
    BY <2>2 DEF Poll, Async!Wakeup, Wake!Wakeup, Async!PollOther,
       Wake!PollOther, Async!Drain, Wake!Drain, Async!Exchange,
       Wake!Exchange, Wake!LoopStep
  <2>3. CASE RunClosing
    BY <2>3 DEF RunClosing, Async!FinishClose, Wake!FinishClose,
       Wake!LoopStep, asyncVars, IoOf
  <2>4. CASE HandlerReturn
    BY <2>4 DEF HandlerReturn, Async!CallbackReturn, Wake!CallbackReturn,
       Wake!LoopStep
  <2>5. CASE StopClose
    BY <2>5 DEF StopClose, Async!Close, Wake!Close, Wake!LoopStep
  <2>6. CASE StopAgain
    BY <2>6 DEF StopAgain, Wake!CallbackReturn, Wake!LoopStep, asyncVars, IoOf
  <2>7. CASE SpinDone
    BY <2>7 DEF SpinDone, Async!SpinDone, Wake!SpinDone, Wake!LoopStep
  <2>8. ASSUME ~NextIteration, ~Poll, ~RunClosing, ~HandlerReturn,
               ~StopClose, ~StopAgain, ~SpinDone
        PROVE  UNCHANGED <<asyncVars, IoOf(lp)>>
    BY <1>2, <2>8 DEF LoopSide, LoopStep, Start, Deinit, LockRunning,
       EnterRun, LeaveMain, FireTimer, FireEnd, RunReturns, Dequeue, RunEnd,
       ArmTimer, IoOf
  <2>9. QED
    BY <2>1, <2>2, <2>3, <2>4, <2>5, <2>6, <2>7, <2>8 DEF asyncVars
<1>3. CASE UNCHANGED vars
  BY <1>3 DEF vars, asyncVars, loopVars, IoOf
<1>4. QED
  BY <1>1, <1>2, <1>3, NextSplits

LEMMA WakeInvStep == Wake!AsyncInv /\ [Next]_vars => Wake!AsyncInv'
BY WakeSteps, Wake!AsyncStep, WakeFinite, ModesAssumption

-----------------------------------------------------------------------------
(* Calls, lock, and the places of the loop thread.                         *)

LEMMA LocalInit == Init => LocalInv
<1> SUFFICES ASSUME Init PROVE LocalInv
  OBVIOUS
<1>1. Async!TypeOK
  BY WakeInit, WakeTypes
<1>2. TypeOK
  <2>1. items \in Seq(Commands) /\ accepted \in Seq(Commands)
    BY DEF Init
  <2>2. QED
    BY <1>1, <2>1 DEF Init, TypeOK, Places, TimerStates, LoopPlaces
<1>3. CallShape
  BY ThreadsAssumption DEF Init, Async!Init, CallShape
<1>4. MainHoldsRunning /\ LoopCallsFromTasks /\ CurIsCommand
  BY ThreadsAssumption DEF Init, MainHoldsRunning, InMain, LoopPlaces,
     LoopCallsFromTasks, CurIsCommand
<1>5. QED
  BY <1>2, <1>3, <1>4 DEF LocalInv

LEMMA LocalCall ==
  ASSUME LocalInv, Async!TypeOK', NEW t \in Threads, CallStep(t)
  PROVE  LocalInv'
<1> USE DEF LocalInv, TypeOK, Places
<1>1. UNCHANGED <<handle, lp, cur, timer, stopFlag, running>>
  BY CallFrame DEF loopVars
<1>2. MainHoldsRunning' /\ CurIsCommand'
  BY <1>1 DEF MainHoldsRunning, CurIsCommand
<1>3. ASSUME NEW c \in Fresh,
             Submit(t, c) \/ Cancel(t, c) \/ StopSeesNoFlag(t, c)
      PROVE  TypeOK' /\ CallShape' /\ LoopCallsFromTasks'
  <2>1. c \in Commands
    BY FreshIsCommand
  <2>2. TypeOK'
    BY <1>1, <1>3, <2>1 DEF Submit, Cancel, StopSeesNoFlag, asyncVars,
       queueVars, callVars, lifeVars
  <2>3. CallShape'
    BY <1>1, <1>3, <2>1 DEF Submit, Cancel, StopSeesNoFlag, CallShape,
       MayCall, asyncVars, queueVars
  <2>4. LoopCallsFromTasks'
    BY <1>1, <1>3, ThreadsAssumption
       DEF Submit, Cancel, StopSeesNoFlag, MayCall, LoopCallsFromTasks, InUserCode
  <2>5. QED
    BY <2>2, <2>3, <2>4
<1>4. CASE StopSeesFlag(t) \/ StopCancel(t) \/ Join(t)
  <2>1. TypeOK'
    BY <1>1, <1>4 DEF StopSeesFlag, StopCancel, Join, asyncVars, queueVars,
       callVars, lifeVars
  <2>2. CallShape'
    BY <1>1, <1>4 DEF StopSeesFlag, StopCancel, Join, CallShape, MayCall,
       asyncVars, queueVars
  <2>3. LoopCallsFromTasks'
    BY <1>1, <1>4, ThreadsAssumption
       DEF StopSeesFlag, StopCancel, Join, MayCall, LoopCallsFromTasks, InUserCode
  <2>4. QED
    BY <1>2, <2>1, <2>2, <2>3
<1>5. CASE EnqLock(t)
  <2>1. TypeOK'
    BY <1>1, <1>5 DEF EnqLock, lifeVars
  <2>2. CallShape'
    BY <1>1, <1>5, ThreadsAssumption
       DEF EnqLock, CallShape, Async!CallSend, Async!TypeOK
  <2>3. QED
    BY <1>1, <1>2, <1>5, <2>1, <2>2, ThreadsAssumption
       DEF EnqLock, LoopCallsFromTasks, InUserCode
<1>6. CASE SendLoad(t) \/ SendRest(t)
  <2>1. TypeOK'
    BY <1>1, <1>6 DEF SendLoad, SendRest, queueVars, callVars, lifeVars
  <2>2. CallShape'
    BY <1>1, <1>6 DEF SendLoad, SendRest, CallShape, Async!TypeOK,
       Async!Load, Async!Inc, Async!Xchg, Async!Write, Async!Dec,
       queueVars, callVars
  <2>3. QED
    BY <1>1, <1>2, <1>6, <2>1, <2>2, ThreadsAssumption
       DEF SendLoad, SendRest, LoopCallsFromTasks, InUserCode,
       callVars
<1>7. CASE Enqueue(t)
  <2>1. cmd[t] \in Commands
    BY <1>7 DEF Enqueue, CallShape
  <2>2. items' \in Seq(Commands) /\ accepted' \in Seq(Commands)
    BY <1>7, <2>1 DEF Enqueue
  <2>3. TypeOK'
    BY <1>1, <1>7, <2>2 DEF Enqueue, asyncVars, lifeVars
  <2>4. CallShape'
    BY <1>1, <1>7, ThreadsAssumption
       DEF Enqueue, CallShape, asyncVars
  <2>5. QED
    BY <1>1, <1>2, <1>7, <2>3, <2>4, ThreadsAssumption
       DEF Enqueue, LoopCallsFromTasks, InUserCode
<1>8. CASE AddReturn(t)
  <2>1. TypeOK'
    BY <1>1, <1>8 DEF AddReturn, asyncVars, queueVars, lifeVars
  <2>2. CallShape'
    BY <1>1, <1>8 DEF AddReturn, CallShape, asyncVars, queueVars
  <2>3. QED
    BY <1>1, <1>2, <1>8, <2>1, <2>2, ThreadsAssumption
       DEF AddReturn, LoopCallsFromTasks, InUserCode
<1>9. QED
  BY <1>2, <1>3, <1>4, <1>5, <1>6, <1>7, <1>8 DEF CallStep, ThreadStep

LEMMA LocalLoop ==
  ASSUME LocalInv, Async!TypeOK', LoopSide
  PROVE  LocalInv'
<1> USE DEF LocalInv, TypeOK, LoopPlaces, TimerStates
<1>1. UNCHANGED <<snd, at, cmd, joins, lock, accepted, cancelled>>
  BY LoopFrame
<1>2. CallShape'
  BY <1>1 DEF CallShape
<1>3. CASE Start \/ LockRunning \/ EnterRun \/ LeaveMain \/ Deinit
  BY <1>1, <1>2, <1>3, ThreadsAssumption DEF Start, LockRunning, EnterRun,
     LeaveMain, Deinit, MainHoldsRunning, InMain, LoopCallsFromTasks,
     InUserCode, CurIsCommand, asyncVars, queueVars, lifeVars
<1>4. CASE (\E c \in Commands : FireTimer(c)) \/ FireEnd
  BY <1>1, <1>2, <1>4 DEF FireTimer, FireEnd, MainHoldsRunning, InMain,
     LoopCallsFromTasks, InUserCode, CurIsCommand, asyncVars, queueVars,
     lifeVars
<1>5. CASE NextIteration \/ RunReturns \/ RunClosing
  BY <1>1, <1>2, <1>5 DEF NextIteration, RunReturns, RunClosing,
     MainHoldsRunning, InMain, LoopCallsFromTasks, InUserCode, CurIsCommand,
     queueVars, lifeVars
<1>6. CASE Poll
  <2>1. /\ lp \in {"poll", "drain", "xchg"}
        /\ lp' \in {"drain", "xchg", "closing", "jobs"}
    BY <1>6 DEF Poll, IoOf, Async!Wakeup, Async!PollOther, Async!Drain,
       Async!Exchange
  <2>2. QED
    BY <1>1, <1>2, <1>6, <2>1 DEF Poll, MainHoldsRunning, InMain,
       LoopCallsFromTasks, InUserCode, CurIsCommand, queueVars, lifeVars
<1>7. CASE Dequeue
  <2>1. items' \in Seq(Commands) /\ cur' \in Commands
    BY <1>7 DEF Dequeue
  <2>2. QED
    BY <1>1, <1>2, <1>7, <2>1 DEF Dequeue, MainHoldsRunning, InMain,
       LoopCallsFromTasks, InUserCode, CurIsCommand, asyncVars, lifeVars
<1>8. CASE HandlerReturn \/ RunEnd \/ ArmTimer
  BY <1>1, <1>2, <1>8 DEF HandlerReturn, RunEnd, ArmTimer,
     MainHoldsRunning, InMain, LoopCallsFromTasks, InUserCode, CurIsCommand,
     asyncVars, queueVars, lifeVars
<1>9. CASE StopClose \/ StopAgain \/ SpinDone
  BY <1>1, <1>2, <1>9 DEF StopClose, StopAgain, SpinDone,
     MainHoldsRunning, InMain, LoopCallsFromTasks, InUserCode, CurIsCommand,
     asyncVars, queueVars, lifeVars
<1>10. QED
  BY <1>3, <1>4, <1>5, <1>6, <1>7, <1>8, <1>9 DEF LoopSide, LoopStep

LEMMA LocalStep ==
  ASSUME LocalInv, Async!TypeOK', [Next]_vars
  PROVE  LocalInv'
<1>1. CASE UNCHANGED vars
  BY <1>1 DEF vars, asyncVars, queueVars, callVars, loopVars, lifeVars,
     LocalInv, TypeOK, CallShape, MainHoldsRunning, LoopCallsFromTasks,
     InUserCode, CurIsCommand
<1>2. QED
  BY <1>1, LocalCall, LocalLoop, NextSplits

-----------------------------------------------------------------------------
(* No stranded command.                                                    *)

Announced == HoistedLoadIsSafe /\ NothingStranded

LEMMA AnnouncedCall ==
  ASSUME LocalInv, Announced, NEW t \in Threads, CallStep(t)
  PROVE  Announced'
<1> USE DEF LocalInv, TypeOK, Async!TypeOK, Places, Announced
<1>1. UNCHANGED <<handle, lp>>
  BY CallFrame DEF loopVars
<1>2. CASE EnqLock(t)
  BY <1>1, <1>2 DEF EnqLock, Async!CallSend, HoistedLoadIsSafe,
     NothingStranded
<1>3. CASE SendLoad(t)
  BY <1>1, <1>3 DEF SendLoad, Async!Load, HoistedLoadIsSafe,
     NothingStranded, queueVars, callVars
<1>4. CASE SendRest(t)
  BY <1>1, <1>4 DEF SendRest, Async!Inc, Async!Xchg, Async!Write, Async!Dec,
     HoistedLoadIsSafe, NothingStranded, CallShape, queueVars, callVars
<1>5. CASE Enqueue(t)
  BY <1>1, <1>5 DEF Enqueue, HoistedLoadIsSafe, NothingStranded, CallShape,
     asyncVars
<1>6. ASSUME ~EnqLock(t), ~SendLoad(t), ~SendRest(t), ~Enqueue(t)
      PROVE  /\ UNCHANGED <<pending, snd, items>>
             /\ \A u \in Threads : at'[u] = "locked" => at[u] = "locked"
  BY <1>6 DEF CallStep, ThreadStep, Submit, Cancel, StopSeesNoFlag,
     StopSeesFlag, StopCancel, Join, AddReturn, asyncVars, queueVars
<1>7. QED
  BY <1>1, <1>2, <1>3, <1>4, <1>5, <1>6 DEF HoistedLoadIsSafe,
     NothingStranded

LEMMA AnnouncedLoop ==
  ASSUME LocalInv, Announced, LoopSide
  PROVE  Announced'
<1> USE DEF LocalInv, TypeOK, Async!TypeOK, LoopPlaces, Announced, Ended
<1>1. UNCHANGED <<snd, at, cmd, joins, lock, accepted, cancelled>>
  BY LoopFrame
<1>2. CASE \/ Start \/ LockRunning \/ EnterRun \/ LeaveMain \/ Deinit
           \/ (\E c \in Commands : FireTimer(c)) \/ FireEnd \/ RunReturns
  BY <1>1, <1>2 DEF Start, LockRunning, EnterRun, LeaveMain, Deinit,
     FireTimer, FireEnd, RunReturns, HoistedLoadIsSafe, NothingStranded,
     asyncVars, queueVars
<1>3. CASE NextIteration
  BY <1>1, <1>3 DEF NextIteration, Async!EnterPoll, HoistedLoadIsSafe,
     NothingStranded, queueVars
<1>4. CASE Poll
  <2>1. CASE lp = "xchg" /\ handle = "open" /\ pending = 1
    BY <1>1, <1>4, <2>1 DEF Poll, IoOf, Async!Wakeup, Async!PollOther,
       Async!Drain, Async!Exchange, HoistedLoadIsSafe, NothingStranded
  <2>2. CASE ~(lp = "xchg" /\ handle = "open" /\ pending = 1)
    <3>1. /\ lp \in {"poll", "drain", "xchg"}
          /\ handle = "open" => pending' = pending
          /\ UNCHANGED <<handle, items>>
      BY <1>4, <2>2 DEF Poll, IoOf, Async!Wakeup, Async!PollOther,
         Async!Drain, Async!Exchange, queueVars
    <3>2. QED
      BY <1>1, <3>1 DEF HoistedLoadIsSafe, NothingStranded
  <2>3. QED
    BY <2>1, <2>2
<1>5. CASE RunClosing
  BY <1>1, <1>5 DEF RunClosing, Async!FinishClose, HoistedLoadIsSafe,
     NothingStranded, asyncVars, queueVars
<1>6. CASE HandlerReturn
  BY <1>1, <1>6, ThreadsAssumption DEF HandlerReturn, HoistedLoadIsSafe,
     NothingStranded, CallShape, queueVars
<1>7. CASE Dequeue \/ RunEnd \/ ArmTimer
  BY <1>1, <1>7 DEF Dequeue, RunEnd, ArmTimer, HoistedLoadIsSafe,
     NothingStranded
<1>8. CASE StopClose \/ StopAgain \/ SpinDone
  BY <1>1, <1>8 DEF StopClose, StopAgain, SpinDone, Async!Close,
     Async!SpinDone, HoistedLoadIsSafe, NothingStranded
<1>9. QED
  BY <1>2, <1>3, <1>4, <1>5, <1>6, <1>7, <1>8 DEF LoopSide, LoopStep

LEMMA AnnouncedStep ==
  ASSUME LocalInv, Announced, [Next]_vars
  PROVE  Announced'
<1>1. CASE UNCHANGED vars
  BY <1>1 DEF vars, asyncVars, queueVars, callVars, loopVars, Announced,
     HoistedLoadIsSafe, NothingStranded
<1>2. QED
  BY <1>1, AnnouncedCall, AnnouncedLoop, NextSplits

-----------------------------------------------------------------------------
(* The end of the thread, and the order of the commands.                   *)

LEMMA FreedStep ==
  ASSUME LocalInv, FreedIsClosed, [Next]_vars
  PROVE  FreedIsClosed'
<1>1. ASSUME NEW t \in Threads, CallStep(t) PROVE FreedIsClosed'
  BY <1>1, CallFrame DEF FreedIsClosed, loopVars
<1>2. CASE LoopSide
  BY <1>2 DEF LoopSide, LoopStep, Start, LockRunning, EnterRun, LeaveMain,
     FireTimer, FireEnd, NextIteration, RunReturns, Poll, RunClosing,
     Dequeue, HandlerReturn, RunEnd, ArmTimer, StopClose, StopAgain,
     SpinDone, Deinit, FreedIsClosed, asyncVars, IoOf, Async!Wakeup,
     Async!PollOther, Async!Drain, Async!Exchange
<1>3. CASE UNCHANGED vars
  BY <1>3 DEF vars, asyncVars, loopVars, FreedIsClosed
<1>4. QED
  BY <1>1, <1>2, <1>3, NextSplits

LEMMA QueueStep ==
  ASSUME LocalInv, QueueIsRest, [Next]_vars
  PROVE  QueueIsRest'
<1> USE DEF LocalInv, TypeOK
<1>1. ASSUME NEW t \in Threads, Enqueue(t) PROVE QueueIsRest'
  <2>1. cmd[t] \in Commands
    BY <1>1 DEF Enqueue, CallShape
  <2>2. /\ Len(items') = Len(items) + 1
        /\ Len(accepted') = Len(accepted) + 1
        /\ items'[Len(items) + 1] = cmd[t]
        /\ accepted'[Len(accepted) + 1] = cmd[t]
        /\ \A i \in 1..Len(items) : items'[i] = items[i]
        /\ \A i \in 1..Len(accepted) : accepted'[i] = accepted[i]
    BY <1>1, <2>1 DEF Enqueue
  <2>3. Len(items) \in Nat /\ Len(accepted) \in Nat
    OBVIOUS
  <2>4. ASSUME NEW i \in 1..Len(items')
        PROVE  items'[i] = accepted'[Len(accepted') - Len(items') + i]
    <3>1. CASE i \in 1..Len(items)
      <4>1. Len(accepted) - Len(items) + i \in 1..Len(accepted)
        BY <2>3, <3>1 DEF QueueIsRest
      <4>2. items'[i] = accepted[Len(accepted) - Len(items) + i]
        BY <2>2, <3>1 DEF QueueIsRest
      <4>3. Len(accepted') - Len(items') + i = Len(accepted) - Len(items) + i
        BY <2>2, <2>3
      <4>4. QED
        BY <2>2, <4>1, <4>2, <4>3
    <3>2. CASE i = Len(items) + 1
      BY <2>2, <2>3, <3>2 DEF QueueIsRest
    <3>3. QED
      BY <2>2, <2>3, <3>1, <3>2
  <2>5. QED
    BY <2>2, <2>3, <2>4 DEF QueueIsRest
<1>2. CASE Dequeue
  <2>1. /\ Len(items') = Len(items) - 1
        /\ \A i \in 1..Len(items') : items'[i] = items[i + 1]
        /\ accepted' = accepted
    BY <1>2 DEF Dequeue
  <2>2. Len(items) \in Nat /\ Len(accepted) \in Nat
    OBVIOUS
  <2>3. ASSUME NEW i \in 1..Len(items')
        PROVE  items'[i] = accepted'[Len(accepted') - Len(items') + i]
    <3>1. i + 1 \in 1..Len(items)
      BY <2>1, <2>2
    <3>2. items[i + 1] = accepted[Len(accepted) - Len(items) + (i + 1)]
      BY <3>1 DEF QueueIsRest
    <3>3. Len(accepted) - Len(items) + (i + 1)
            = Len(accepted') - Len(items') + i
      BY <2>1, <2>2
    <3>4. QED
      BY <2>1, <3>2, <3>3
  <2>4. QED
    BY <2>1, <2>2, <2>3 DEF QueueIsRest
<1>3. ASSUME \A t \in Threads : ~Enqueue(t), ~Dequeue
      PROVE  UNCHANGED <<items, accepted>>
  <2>1. ASSUME NEW t \in Threads, CallStep(t), ~Enqueue(t)
        PROVE  UNCHANGED <<items, accepted>>
    BY <2>1 DEF CallStep, ThreadStep, Submit, Cancel, StopSeesNoFlag,
       StopSeesFlag, StopCancel, Join, EnqLock, SendLoad, SendRest,
       AddReturn, queueVars
  <2>2. CASE LoopSide
    BY <1>3, <2>2 DEF LoopSide, LoopStep, Start, LockRunning, EnterRun,
       LeaveMain, FireTimer, FireEnd, NextIteration, RunReturns, Poll,
       RunClosing, HandlerReturn, RunEnd, ArmTimer, StopClose, StopAgain,
       SpinDone, Deinit, queueVars
  <2>3. CASE UNCHANGED vars
    BY <2>3 DEF vars, queueVars
  <2>4. QED
    BY <1>3, <2>1, <2>2, <2>3, NextSplits
<1>4. QED
  BY <1>1, <1>2, <1>3 DEF QueueIsRest

LEMMA CancelledStays == [Next]_vars => (cancelled => cancelled')
<1>1. ASSUME NEW t \in Threads, CallStep(t), cancelled PROVE cancelled'
  BY <1>1 DEF CallStep, ThreadStep, Submit, Cancel, StopSeesNoFlag,
     StopSeesFlag, StopCancel, Join, EnqLock, SendLoad, Enqueue, SendRest,
     AddReturn, lifeVars
<1>2. QED
  BY <1>1, LoopFrame, NextSplits DEF vars, lifeVars

LEMMA StopCancelledStep ==
  ASSUME LocalInv, QueueIsRest, StopIsCancelled, [Next]_vars
  PROVE  StopIsCancelled'
<1> USE DEF LocalInv, TypeOK, Places, LoopPlaces, Ended
<1>1. CASE cancelled
  BY <1>1, CancelledStays DEF StopIsCancelled
<1>2. CASE ~cancelled
  <2>1. ASSUME NEW t \in Threads, CallStep(t) PROVE StopIsCancelled'
    <3>1. UNCHANGED <<lp, cur>>
      BY <2>1, CallFrame DEF loopVars
    <3>2. CASE Enqueue(t)
      <4>1. cmd[t] \in Commands /\ Kind[cmd[t]] # "stop"
        BY <1>2, <3>2 DEF Enqueue, CallShape, StopIsCancelled
      <4>2. /\ Len(accepted') = Len(accepted) + 1
            /\ accepted'[Len(accepted) + 1] = cmd[t]
            /\ \A i \in 1..Len(accepted) : accepted'[i] = accepted[i]
        BY <3>2, <4>1 DEF Enqueue
      <4>3. ASSUME NEW i \in 1..Len(accepted')
            PROVE  Kind[accepted'[i]] # "stop"
        <5>1. CASE i \in 1..Len(accepted)
          BY <1>2, <4>2, <5>1 DEF StopIsCancelled
        <5>2. CASE i = Len(accepted) + 1
          BY <4>1, <4>2, <5>2
        <5>3. Len(accepted) \in Nat
          OBVIOUS
        <5>4. QED
          BY <4>2, <5>1, <5>2, <5>3
      <4>4. QED
        BY <1>2, <3>1, <3>2, <4>3 DEF Enqueue, StopIsCancelled
    <3>3. ASSUME NEW c \in Fresh,
                 Submit(t, c) \/ Cancel(t, c) \/ StopSeesNoFlag(t, c)
          PROVE  StopIsCancelled'
      BY <1>2, <3>1, <3>3 DEF Submit, Cancel, StopSeesNoFlag, queueVars,
         lifeVars, StopIsCancelled
    <3>4. CASE StopCancel(t)
      BY <3>1, <3>4 DEF StopCancel, queueVars, StopIsCancelled
    <3>5. CASE StopSeesFlag(t) \/ Join(t) \/ EnqLock(t) \/ SendLoad(t)
               \/ SendRest(t) \/ AddReturn(t)
      BY <1>2, <3>1, <3>5 DEF StopSeesFlag, Join, EnqLock, SendLoad,
         SendRest, AddReturn, queueVars, callVars, lifeVars, StopIsCancelled
    <3>6. QED
      BY <2>1, <3>2, <3>3, <3>4, <3>5 DEF CallStep, ThreadStep
  <2>2. CASE LoopSide
    <3>1. UNCHANGED <<at, cmd, accepted, cancelled>>
      BY <2>2, LoopFrame
    <3>2. CASE Dequeue
      <4>1. 1 \in 1..Len(items) /\ cur' = items[1] /\ lp' = "run"
        BY <3>2 DEF Dequeue
      <4>2. Len(accepted) - Len(items) + 1 \in 1..Len(accepted)
        BY <4>1 DEF QueueIsRest
      <4>3. Kind[cur'] # "stop"
        BY <1>2, <4>1, <4>2 DEF QueueIsRest, StopIsCancelled
      <4>4. QED
        BY <1>2, <3>1, <4>1, <4>3 DEF StopIsCancelled
    <3>3. ASSUME ~Dequeue PROVE lp' \notin Ended \cup {"run"}
      BY <1>2, <2>2, <3>3 DEF LoopSide, LoopStep, Start, LockRunning,
         EnterRun, LeaveMain, FireTimer, FireEnd, NextIteration, RunReturns,
         Poll, RunClosing, HandlerReturn, RunEnd, ArmTimer, StopClose,
         StopAgain, SpinDone, Deinit, StopIsCancelled
    <3>4. QED
      BY <1>2, <3>1, <3>2, <3>3 DEF StopIsCancelled
  <2>3. CASE UNCHANGED vars
    BY <2>3 DEF vars, queueVars, callVars, loopVars, lifeVars,
       StopIsCancelled
  <2>4. QED
    BY <2>1, <2>2, <2>3, NextSplits
<1>3. QED
  BY <1>1, <1>2

-----------------------------------------------------------------------------
(* The teardown.                                                           *)

LEMMA SpinIsClosing == Wake!AsyncInv => (lp = "spin" <=> handle = "closing")
BY DEF Wake!AsyncInv, Wake!CloseProtocol, IoOf

LEMMA TakenBounds ==
  LocalInv /\ QueueIsRest => Taken \in 0..Len(accepted) /\ Len(accepted) \in Nat
BY DEF LocalInv, TypeOK, QueueIsRest, Taken

(* A call only adds to the history, and to a dead process not even that.   *)
LEMMA CallKeepsHistory ==
  ASSUME LocalInv, NEW t \in Threads, CallStep(t)
  PROVE  /\ Taken' = Taken
         /\ Len(accepted') \in Nat /\ Len(accepted') >= Len(accepted)
         /\ \A i \in 1..Len(accepted) : accepted'[i] = accepted[i]
         /\ Crashed => UNCHANGED accepted
<1> USE DEF LocalInv, TypeOK
<1>1. CASE Enqueue(t)
  <2>1. cmd[t] \in Commands
    BY <1>1 DEF Enqueue, CallShape
  <2>2. /\ Len(items') = Len(items) + 1
        /\ Len(accepted') = Len(accepted) + 1
        /\ \A i \in 1..Len(accepted) : accepted'[i] = accepted[i]
    BY <1>1, <2>1 DEF Enqueue
  <2>3. Len(items) \in Nat /\ Len(accepted) \in Nat
    OBVIOUS
  <2>4. QED
    BY <1>1, <2>2, <2>3 DEF Enqueue, Taken
<1>2. CASE ~Enqueue(t)
  <2>1. UNCHANGED <<items, accepted>>
    BY <1>2 DEF CallStep, ThreadStep, Submit, Cancel, StopSeesNoFlag,
       StopSeesFlag, StopCancel, Join, EnqLock, SendLoad, SendRest,
       AddReturn, queueVars
  <2>2. QED
    BY <2>1 DEF Taken
<1>3. QED
  BY <1>1, <1>2

(* The loop takes from the front, one command at a time.                   *)
LEMMA LoopKeepsHistory ==
  ASSUME LocalInv, LoopSide
  PROVE  /\ UNCHANGED accepted
         /\ ~Dequeue => Taken' = Taken
         /\ Dequeue => Taken' = Taken + 1
<1> USE DEF LocalInv, TypeOK
<1>1. UNCHANGED accepted
  BY LoopFrame
<1>2. ASSUME ~Dequeue PROVE UNCHANGED items
  BY <1>2 DEF LoopSide, LoopStep, Start, LockRunning, EnterRun, LeaveMain,
     FireTimer, FireEnd, NextIteration, RunReturns, Poll, RunClosing,
     HandlerReturn, RunEnd, ArmTimer, StopClose, StopAgain, SpinDone,
     Deinit, queueVars
<1>3. ASSUME Dequeue PROVE Len(items') = Len(items) - 1
  BY <1>3 DEF Dequeue
<1>4. Len(items) \in Nat /\ Len(accepted) \in Nat
  OBVIOUS
<1>5. QED
  BY <1>1, <1>2, <1>3, <1>4 DEF Taken

LEMMA TearDownCall ==
  ASSUME LocalInv, QueueIsRest, TearDownInv, NEW t \in Threads, CallStep(t)
  PROVE  TearDownInv'
<1> USE DEF TearDownInv
<1>1. UNCHANGED <<handle, lp, cur, timer, stopFlag>>
  BY CallFrame DEF loopVars
<1>2. /\ Taken' = Taken /\ Taken \in 0..Len(accepted)
      /\ Len(accepted) \in Nat /\ Len(accepted') \in Nat
      /\ Len(accepted') >= Len(accepted)
      /\ \A i \in 1..Len(accepted) : accepted'[i] = accepted[i]
      /\ Crashed => UNCHANGED accepted
  BY CallKeepsHistory, TakenBounds
<1>3. CurIsLatest'
  BY <1>1, <1>2 DEF CurIsLatest
<1>4. \A n \in 0..Len(accepted) : StopAmong(n) => StopAmong(n)'
  BY <1>2 DEF StopAmong
<1>5. ClosedByStop'
  <2>1. StopAmong(Taken) => StopAmong(Taken)'
    BY <1>2 DEF StopAmong
  <2>2. StopAmong(Taken - 1) => StopAmong(Taken - 1)'
    BY <1>2 DEF StopAmong
  <2>3. QED
    BY <1>1, <2>1, <2>2 DEF ClosedByStop
<1>6. TimersOfTimers' /\ StoppedLoopCloses' /\ RanOrClosed'
  BY <1>1, <1>2 DEF TimersOfTimers, StoppedLoopCloses, RanOrClosed
<1>7. OnlyLateLeft'
  <2>1. \A c \in Commands : Late(c) => Late(c)'
    BY <1>2 DEF Late
  <2>2. QED
    BY <1>1, <2>1 DEF OnlyLateLeft
<1>8. Causes'
  BY <1>1, <1>2 DEF Causes, Crashed
<1>9. QED
  BY <1>3, <1>5, <1>6, <1>7, <1>8

LEMMA TearDownLoop ==
  ASSUME LocalInv, Wake!AsyncInv, QueueIsRest, TearDownInv, LoopSide
  PROVE  TearDownInv'
<1> USE DEF LocalInv, TypeOK, LoopPlaces, TimerStates, TearDownInv
<1>0. /\ lp = "spin" <=> handle = "closing"
      /\ handle \in {"open", "closing", "removed", "closed"}
  BY SpinIsClosing DEF Async!TypeOK, Async!HandleStates
<1>1. /\ UNCHANGED accepted
      /\ Taken \in 0..Len(accepted) /\ Len(accepted) \in Nat
      /\ ~Dequeue => Taken' = Taken
      /\ Dequeue => Taken' = Taken + 1
  BY LoopKeepsHistory, TakenBounds
<1>2. ASSUME ~Dequeue
      PROVE  /\ \A n : StopAmong(n)' <=> StopAmong(n)
             /\ \A c : Late(c)' <=> Late(c)
  BY <1>1, <1>2 DEF StopAmong, Late
<1>3. CASE Start \/ LockRunning \/ EnterRun \/ LeaveMain
  <2>1. UNCHANGED <<handle, timer, stopFlag, cur>> /\ ~Dequeue
    BY <1>3 DEF Start, LockRunning, EnterRun, LeaveMain, Dequeue, asyncVars
  <2>2. lp' \in {"lock", "check", "timers", "exited"}
    BY <1>3 DEF Start, LockRunning, EnterRun, LeaveMain
  <2>3. RanOrClosed' /\ StoppedLoopCloses'
    BY <1>1, <1>3, <2>1 DEF Start, LockRunning, EnterRun, LeaveMain,
       RanOrClosed, StoppedLoopCloses
  <2>4. QED
    BY <1>1, <1>2, <2>1, <2>2, <2>3 DEF CurIsLatest, ClosedByStop,
       TimersOfTimers, OnlyLateLeft, Causes
<1>4. ASSUME NEW c \in Commands, FireTimer(c) PROVE TearDownInv'
  <2>1. UNCHANGED <<handle, timer, stopFlag>> /\ ~Dequeue
    BY <1>4 DEF FireTimer, Dequeue, asyncVars
  <2>2. QED
    BY <1>1, <1>2, <1>4, <2>1 DEF FireTimer, CurIsLatest, ClosedByStop,
       TimersOfTimers, OnlyLateLeft, StoppedLoopCloses, RanOrClosed, Causes
<1>5. CASE FireEnd
  <2>1. UNCHANGED <<handle, stopFlag>> /\ ~Dequeue /\ cur \in Commands
    BY <1>5 DEF FireEnd, Dequeue, CurIsCommand, asyncVars
  <2>2. TimersOfTimers' /\ OnlyLateLeft'
    BY <1>1, <1>2, <1>5, <2>1 DEF FireEnd, TimersOfTimers, OnlyLateLeft,
       StoppedLoopCloses
  <2>3. QED
    BY <1>1, <1>2, <1>5, <2>1, <2>2 DEF FireEnd, CurIsLatest, ClosedByStop,
       StoppedLoopCloses, RanOrClosed, Causes
<1>6. CASE NextIteration
  <2>1. UNCHANGED <<handle, timer, stopFlag, cur>> /\ ~Dequeue
    BY <1>6 DEF NextIteration, Async!EnterPoll, Dequeue
  <2>2. QED
    BY <1>1, <1>2, <1>6, <2>1 DEF NextIteration, CurIsLatest, ClosedByStop,
       TimersOfTimers, OnlyLateLeft, StoppedLoopCloses, RanOrClosed, Causes
<1>7. CASE RunReturns
  <2>1. UNCHANGED <<handle, timer, cur>> /\ ~Dequeue
    BY <1>7 DEF RunReturns, Dequeue, asyncVars
  <2>2. handle = "closed"
    BY <1>0, <1>7 DEF RunReturns, Alive, StoppedLoopCloses
  <2>3. QED
    BY <1>1, <1>2, <1>7, <2>1, <2>2 DEF RunReturns, CurIsLatest,
       ClosedByStop, TimersOfTimers, OnlyLateLeft, StoppedLoopCloses,
       RanOrClosed, Causes
<1>8. CASE Poll
  <2>1. /\ UNCHANGED <<handle, timer, stopFlag, cur>> /\ ~Dequeue
        /\ lp \in {"poll", "drain", "xchg"}
        /\ lp' \in {"drain", "xchg", "closing", "jobs"}
    BY <1>8 DEF Poll, Dequeue, IoOf, Async!Wakeup, Async!PollOther,
       Async!Drain, Async!Exchange
  <2>2. QED
    BY <1>1, <1>2, <2>1 DEF CurIsLatest, ClosedByStop,
       TimersOfTimers, OnlyLateLeft, StoppedLoopCloses, RanOrClosed, Causes
<1>9. CASE RunClosing
  <2>1. /\ UNCHANGED <<stopFlag, cur>> /\ ~Dequeue
        /\ lp = "closing" /\ lp' = "timers"
        /\ handle' = IF handle = "removed" THEN "closed" ELSE handle
    BY <1>9 DEF RunClosing, Dequeue, Async!FinishClose, asyncVars
  <2>2. \A c \in Commands : timer'[c] = IF timer[c] = "closing" THEN "closed"
                                        ELSE timer[c]
    BY <1>9 DEF RunClosing
  <2>3. TimersOfTimers' /\ OnlyLateLeft'
    BY <1>1, <1>2, <2>1, <2>2 DEF TimersOfTimers, OnlyLateLeft
  <2>4. QED
    BY <1>1, <1>2, <2>1, <2>3 DEF CurIsLatest, ClosedByStop,
       StoppedLoopCloses, RanOrClosed, Causes
<1>10. CASE Dequeue
  <2>1. UNCHANGED <<handle, timer, stopFlag>> /\ lp = "jobs" /\ lp' = "run"
    BY <1>10 DEF Dequeue, asyncVars
  <2>2. Taken' = Taken + 1 /\ Taken' \in 1..Len(accepted)
        /\ cur' = accepted[Taken']
    <3>1. 1 \in 1..Len(items) /\ cur' = items[1]
      BY <1>10 DEF Dequeue
    <3>2. items[1] = accepted[Taken + 1]
      BY <3>1 DEF QueueIsRest, Taken
    <3>3. Taken + 1 <= Len(accepted)
      BY <1>1, <3>1 DEF Taken
    <3>4. QED
      BY <1>1, <1>10, <3>1, <3>2, <3>3
  <2>3. CurIsLatest'
    BY <1>1, <2>1, <2>2 DEF CurIsLatest
  <2>4. ClosedByStop'
    <3>1. StopAmong(Taken) => StopAmong(Taken)' /\ StopAmong(Taken - 1)'
      BY <1>1, <2>2 DEF StopAmong
    <3>2. QED
      BY <2>1, <3>1 DEF ClosedByStop
  <2>5. OnlyLateLeft'
    <3>1. \A c \in Commands : Late(c) => Late(c)'
      BY <1>1, <2>2 DEF Late
    <3>2. QED
      BY <2>1, <3>1 DEF OnlyLateLeft
  <2>6. QED
    BY <2>1, <2>3, <2>4, <2>5 DEF TimersOfTimers, StoppedLoopCloses,
       RanOrClosed, Causes
<1>11. CASE HandlerReturn \/ RunEnd
  <2>1. /\ UNCHANGED <<handle, timer, stopFlag>> /\ ~Dequeue
        /\ lp \in {"jobs", "run"} /\ lp' \in {"closing", "jobs"}
    BY <1>11 DEF HandlerReturn, RunEnd, Dequeue, Async!CallbackReturn,
       asyncVars
  <2>2. QED
    BY <1>1, <1>2, <2>1 DEF CurIsLatest, ClosedByStop,
       TimersOfTimers, OnlyLateLeft, StoppedLoopCloses, RanOrClosed, Causes
<1>12. CASE ArmTimer
  <2>1. /\ UNCHANGED <<handle, stopFlag>> /\ ~Dequeue
        /\ lp = "run" /\ lp' = "jobs" /\ cur \in Commands
        /\ Kind[cur] = "timer" /\ timer' = [timer EXCEPT ![cur] = "active"]
    BY <1>12 DEF ArmTimer, Dequeue, CurIsCommand, asyncVars
  <2>2. handle # "open" => Late(cur)
    <3>1. Taken \in 1..Len(accepted) /\ cur = accepted[Taken]
      BY <1>1, <2>1 DEF CurIsLatest
    <3>2. StopAmong(Taken - 1) => Late(cur)
      BY <3>1 DEF StopAmong, Late
    <3>3. QED
      BY <2>1, <3>2 DEF ClosedByStop
  <2>3. TimersOfTimers' /\ OnlyLateLeft'
    BY <1>1, <1>2, <2>1, <2>2 DEF TimersOfTimers, OnlyLateLeft
  <2>4. QED
    BY <1>1, <1>2, <2>1, <2>3 DEF CurIsLatest, ClosedByStop,
       StoppedLoopCloses, RanOrClosed, Causes
<1>13. CASE StopClose
  <2>1. /\ UNCHANGED <<timer, stopFlag, cur>> /\ ~Dequeue
        /\ handle = "open" /\ handle' = "closing"
        /\ lp = "run" /\ lp' = "spin" /\ Kind[cur] = "stop"
    BY <1>13 DEF StopClose, Dequeue, Async!Close
  <2>2. StopAmong(Taken)
    <3>1. Taken \in 1..Len(accepted) /\ cur = accepted[Taken]
      BY <1>1, <2>1 DEF CurIsLatest
    <3>2. QED
      BY <2>1, <3>1 DEF StopAmong
  <2>3. QED
    BY <1>1, <1>2, <2>1, <2>2 DEF CurIsLatest, ClosedByStop,
       TimersOfTimers, OnlyLateLeft, StoppedLoopCloses, RanOrClosed, Causes
<1>14. CASE StopAgain
  <2>1. UNCHANGED <<handle, timer, stopFlag, cur>> /\ ~Dequeue
    BY <1>14 DEF StopAgain, Dequeue, asyncVars
  <2>2. QED
    BY <1>0, <1>1, <1>2, <1>14, <2>1 DEF StopAgain, CurIsLatest,
       ClosedByStop, TimersOfTimers, OnlyLateLeft, StoppedLoopCloses,
       RanOrClosed, Causes
<1>15. CASE SpinDone
  <2>1. /\ ~Dequeue /\ stopFlag' = TRUE
        /\ handle = "closing" /\ handle' = "removed"
        /\ lp = "spin" /\ lp' = "jobs"
    BY <1>0, <1>15 DEF SpinDone, Dequeue, Async!SpinDone
  <2>2. \A c \in Commands : timer'[c] = IF timer[c] = "active" THEN "closing"
                                        ELSE timer[c]
    BY <1>15 DEF SpinDone
  <2>3. QED
    BY <1>1, <1>2, <2>1, <2>2 DEF CurIsLatest, ClosedByStop,
       TimersOfTimers, OnlyLateLeft, StoppedLoopCloses, RanOrClosed, Causes
<1>16. CASE Deinit
  <2>1. /\ UNCHANGED <<handle, timer, stopFlag, cur>> /\ ~Dequeue
        /\ lp = "exited" /\ lp' \in {"freed", "fatal"}
    BY <1>16 DEF Deinit, Dequeue, asyncVars
  <2>2. ASSUME lp' = "fatal", Taken # 0
        PROVE  \E i, j \in 1..Len(accepted) : /\ i < j
                                              /\ Kind[accepted[i]] = "stop"
                                              /\ Kind[accepted[j]] = "timer"
    <3>1. PICK c \in Commands : timer[c] \in {"active", "closing"}
      BY <1>16, <2>1, <2>2 DEF Deinit, RanOrClosed
    <3>2. Late(c) /\ Kind[c] = "timer"
      BY <2>1, <2>2, <3>1 DEF RanOrClosed, OnlyLateLeft, TimersOfTimers
    <3>3. QED
      BY <1>1, <3>2 DEF Late
  <2>3. Causes'
    BY <1>1, <2>1, <2>2 DEF Causes
  <2>4. QED
    BY <1>1, <1>2, <2>1, <2>3 DEF CurIsLatest, ClosedByStop,
       TimersOfTimers, OnlyLateLeft, StoppedLoopCloses, RanOrClosed
<1>17. QED
  BY <1>3, <1>4, <1>5, <1>6, <1>7, <1>8, <1>9, <1>10, <1>11, <1>12, <1>13,
     <1>14, <1>15, <1>16 DEF LoopSide, LoopStep

LEMMA TearDownStep ==
  ASSUME LocalInv, Wake!AsyncInv, QueueIsRest, TearDownInv, [Next]_vars
  PROVE  TearDownInv'
<1>1. CASE UNCHANGED vars
  <2>1. UNCHANGED <<items, accepted, handle, lp, cur, timer, stopFlag>>
    BY <1>1 DEF vars, asyncVars, queueVars, loopVars
  <2>2. /\ Taken' = Taken
        /\ \A n : StopAmong(n)' <=> StopAmong(n)
        /\ \A c : Late(c)' <=> Late(c)
    BY <2>1 DEF Taken, StopAmong, Late
  <2>3. QED
    BY <2>1, <2>2 DEF TearDownInv, CurIsLatest, ClosedByStop,
       TimersOfTimers, OnlyLateLeft, StoppedLoopCloses, RanOrClosed, Causes
<1>2. QED
  BY <1>1, TearDownCall, TearDownLoop, NextSplits

-----------------------------------------------------------------------------
(* The theorems.                                                           *)

LEMMA ThreadInit == Init => ThreadInv
<1> SUFFICES ASSUME Init PROVE ThreadInv
  OBVIOUS
<1>1. HoistedLoadIsSafe /\ NothingStranded /\ FreedIsClosed
  BY DEF Init, HoistedLoadIsSafe, NothingStranded, FreedIsClosed
<1>2. QueueIsRest
  BY DEF Init, QueueIsRest
<1>3. StopIsCancelled
  BY DEF Init, StopIsCancelled, Ended
<1>4. TearDownInv
  <2>1. Taken = 0
    BY DEF Init, Taken
  <2>2. QED
    BY <2>1 DEF Init, Async!Init, TearDownInv, CurIsLatest, ClosedByStop,
       TimersOfTimers, OnlyLateLeft, StoppedLoopCloses, RanOrClosed, Causes
<1>5. QED
  BY <1>1, <1>2, <1>3, <1>4, LocalInit, WakeInit DEF ThreadInv

LEMMA ThreadInvStep == ThreadInv /\ [Next]_vars => ThreadInv'
<1> SUFFICES ASSUME ThreadInv, [Next]_vars PROVE ThreadInv'
  OBVIOUS
<1> USE DEF ThreadInv
<1>1. Wake!AsyncInv'
  BY WakeInvStep
<1>2. Async!TypeOK'
  BY <1>1, WakeTypes, PTL
<1>3. LocalInv'
  BY <1>2, LocalStep
<1>4. (HoistedLoadIsSafe /\ NothingStranded)'
  BY AnnouncedStep DEF Announced
<1>5. FreedIsClosed' /\ QueueIsRest' /\ StopIsCancelled'
  BY FreedStep, QueueStep, StopCancelledStep
<1>6. TearDownInv'
  BY TearDownStep
<1>7. QED
  BY <1>1, <1>3, <1>4, <1>5, <1>6

(* ThreadInv holds in every reachable state.                               *)
THEOREM ThreadInvariance == SafetySpec => []ThreadInv
BY ThreadInit, ThreadInvStep, PTL DEF SafetySpec

(* Type correctness of the execution thread.                               *)
THEOREM ThreadTypeCorrect == SafetySpec => []TypeOK
<1>1. ThreadInv => TypeOK
  BY DEF ThreadInv, LocalInv
<1>2. QED
  BY <1>1, ThreadInvariance, PTL

(* A command in the queue of a living thread is always announced: no       *)
(* wakeup is lost between UVFIFOQueue and the loop.                        *)
THEOREM NoCommandStranded == SafetySpec => []NothingStranded
<1>1. ThreadInv => NothingStranded
  BY DEF ThreadInv
<1>2. QED
  BY <1>1, ThreadInvariance, PTL

(* The flag that announces it is backed by an event the loop has yet to    *)
(* see: FlagIsBacked of UVAsync, of the protocol inside the thread.        *)
THEOREM AnnouncementReachesLoop == SafetySpec => []Async!FlagIsBacked
<1>1. ThreadInv => Async!FlagIsBacked
  BY DEF ThreadInv, Wake!AsyncInv, Wake!FlagIsBacked, Async!FlagIsBacked
<1>2. QED
  BY <1>1, ThreadInvariance, PTL

(* A send that comes after deinit does not touch the freed loop.           *)
THEOREM NoUseOfFreedLoop == SafetySpec => []NoUseAfterFree
<1>1. ThreadInv => NoUseAfterFree
  BY DEF ThreadInv, FreedIsClosed, NoUseAfterFree, Wake!AsyncInv,
     Wake!QuietAfterClose
<1>2. QED
  BY <1>1, ThreadInvariance, PTL

(* The walk of UVJobs.stop leaves no timer behind but those of commands    *)
(* that came after the stop and were taken in the same drain.              *)
THEOREM SurvivorsAreLate == SafetySpec => []OnlyLateTimersSurvive
<1>1. ThreadInv => OnlyLateTimersSurvive
  <2> SUFFICES ASSUME ThreadInv, handle \in {"removed", "closed"},
                      NEW c \in Commands, timer[c] = "active"
               PROVE  \E i, j \in 1..Len(accepted) :
                        i < j /\ Kind[accepted[i]] = "stop" /\ accepted[j] = c
    BY DEF OnlyLateTimersSurvive
  <2>1. Late(c)
    BY DEF ThreadInv, TearDownInv, OnlyLateLeft
  <2>2. Taken \in 0..Len(accepted) /\ Len(accepted) \in Nat
    BY TakenBounds DEF ThreadInv
  <2>3. QED
    BY <2>1, <2>2 DEF Late
<1>2. QED
  BY <1>1, ThreadInvariance, PTL

(* The process dies in deinit only if the loop ran no command at all, or   *)
(* if a timer command followed a stop; it dies in uv_close only at a       *)
(* second stop.                                                            *)
THEOREM DeathIsExplained == SafetySpec => []DeathHasCause
<1>1. ThreadInv => DeathHasCause
  <2> SUFFICES ASSUME ThreadInv PROVE DeathHasCause
    OBVIOUS
  <2> USE DEF ThreadInv, LocalInv, TypeOK, TearDownInv
  <2>1. Taken \in 0..Len(accepted) /\ Len(accepted) \in Nat
    BY TakenBounds
  <2>2. ASSUME Taken = 0 PROVE items = accepted
    <3>1. Len(items) = Len(accepted)
      BY <2>1, <2>2 DEF Taken
    <3>2. \A i \in 1..Len(items) : items[i] = accepted[i]
      BY <2>2 DEF QueueIsRest, Taken
    <3>3. QED
      BY <3>1, <3>2, SeqEqual
  <2>3. ASSUME lp = "aborted"
        PROVE  Cardinality({i \in 1..Len(accepted) :
                              Kind[accepted[i]] = "stop"}) > 1
    <3> DEFINE S == {i \in 1..Len(accepted) : Kind[accepted[i]] = "stop"}
    <3>1. Taken \in 1..Len(accepted) /\ Kind[accepted[Taken]] = "stop"
      BY <2>1, <2>3 DEF CurIsLatest, Causes
    <3>2. PICK i \in 1..(Taken - 1) : Kind[accepted[i]] = "stop"
      BY <2>3 DEF Causes, ClosedByStop, StopAmong
    <3>3. {i, Taken} \subseteq S /\ i # Taken
      BY <2>1, <3>1, <3>2
    <3>4. IsFiniteSet(S)
      <4>1. IsFiniteSet(1..Len(accepted))
        BY <2>1, FS_Interval
      <4>2. S \subseteq 1..Len(accepted)
        OBVIOUS
      <4>3. QED
        BY <4>1, <4>2, FS_Subset
    <3>5. Cardinality({i, Taken}) = 2
      <4>1. IsFiniteSet({i}) /\ Cardinality({i}) = 1
        BY FS_Singleton
      <4>2. {i, Taken} = {i} \cup {Taken} /\ Taken \notin {i}
        BY <3>3
      <4>3. Cardinality({i} \cup {Taken}) = Cardinality({i}) + 1
        BY <4>1, <4>2, FS_AddElement
      <4>4. Cardinality({i} \cup {Taken}) = 2
        <5>1. PICK n \in Nat : n = Cardinality({i}) /\ n = 1
          BY <4>1
        <5>2. Cardinality({i} \cup {Taken}) = n + 1
          BY <4>3, <5>1
        <5>3. n + 1 = 2
          BY <5>1
        <5>4. QED
          BY <5>2, <5>3
      <4>5. QED
        BY <4>2, <4>4
    <3>6. Cardinality({i, Taken}) <= Cardinality(S) /\ Cardinality(S) \in Nat
      BY <3>3, <3>4, FS_Subset, FS_CardinalityType
    <3>7. QED
      BY <3>5, <3>6
  <2>4. QED
    BY <2>2, <2>3 DEF DeathHasCause, Causes
<1>2. QED
  BY <1>1, ThreadInvariance, PTL

(* join() returns too early in one case only: main has not begun.          *)
THEOREM JoinWaitsForMain == SafetySpec => JoinSeesEnd
<1>1. ThreadInv /\ [Next]_vars =>
        [\A t \in Threads : at[t] = "join" /\ at'[t] # "join" =>
           lp \in {"created", "lock"} \cup Ended]_vars
  <2> SUFFICES ASSUME ThreadInv, Next, NEW t \in Threads,
                      at[t] = "join", at'[t] # "join"
               PROVE  lp \in {"created", "lock"} \cup Ended
    BY DEF vars, callVars
  <2> USE DEF ThreadInv, LocalInv, TypeOK
  <2>1. PICK u \in Threads : CallStep(u)
    BY NextSplits, LoopFrame
  <2>2. u = t
    BY <2>1 DEF CallStep, ThreadStep, Submit, Cancel, StopSeesNoFlag,
       StopSeesFlag, StopCancel, Join, EnqLock, SendLoad, Enqueue, SendRest,
       AddReturn, callVars
  <2>3. Join(t)
    BY <2>1, <2>2 DEF CallStep, ThreadStep, Submit, Cancel, StopSeesNoFlag,
       StopSeesFlag, StopCancel, EnqLock, SendLoad, Enqueue, SendRest,
       AddReturn, MayCall, callVars
  <2>4. QED
    BY <2>3, ThreadsAssumption DEF Join, MainHoldsRunning, InMain,
       LoopPlaces, Ended
<1>2. QED
  BY <1>1, ThreadInvariance, PTL DEF SafetySpec, JoinSeesEnd

(* A join on the loop thread waits for itself: it never returns, and the   *)
(* loop thread never takes another step.                                   *)
THEOREM SelfJoinNeverReturns == SafetySpec => SelfJoinHangs
<1>1. ThreadInv /\ [Next]_vars =>
        [at[Loop] = "join" => at'[Loop] = "join" /\ lp' = lp]_vars
  <2> SUFFICES ASSUME ThreadInv, Next, at[Loop] = "join"
               PROVE  at'[Loop] = "join" /\ lp' = lp
    OBVIOUS
  <2> USE DEF ThreadInv, LocalInv, TypeOK
  <2>1. InUserCode /\ running = Loop /\ Loop # NoThread /\ Loop \in Threads
    BY ThreadsAssumption DEF LoopCallsFromTasks, InUserCode,
       MainHoldsRunning, InMain, LoopPlaces
  <2>2. ASSUME NEW t \in Threads, CallStep(t)
        PROVE  at'[Loop] = "join" /\ lp' = lp
    <3>1. lp' = lp
      BY <2>2, CallFrame DEF loopVars
    <3>2. at'[Loop] = "join"
      BY <2>1, <2>2 DEF CallStep, ThreadStep, Submit, Cancel,
         StopSeesNoFlag, StopSeesFlag, StopCancel, Join, EnqLock, SendLoad,
         Enqueue, SendRest, AddReturn, MayCall, callVars
    <3>3. QED
      BY <3>1, <3>2
  <2>3. ~LoopSide
    BY <2>1 DEF InUserCode, LoopSide, Start, LoopStep, Deinit, LockRunning,
       EnterRun, LeaveMain, FireTimer, FireEnd, NextIteration, RunReturns,
       Poll, RunClosing, Dequeue, HandlerReturn, RunEnd, ArmTimer,
       StopClose, StopAgain, SpinDone, IoOf, Async!Wakeup, Async!PollOther,
       Async!Drain, Async!Exchange
  <2>4. QED
    BY <2>2, <2>3, NextSplits
<1>2. QED
  BY <1>1, ThreadInvariance, PTL DEF SafetySpec, SelfJoinHangs

(* The thread implements the safety part of SerialExecutor: commands are   *)
(* taken one at a time, in the order of the queue and each once, and the   *)
(* thread halts only when it was cancelled.                                *)
THEOREM ThreadImplementsExecutor == SafetySpec => Executor!SafetySpec
<1> USE DEF Executor!vars
<1>1. Init => Executor!Init
  BY DEF Init, Executor!Init, Ended
<1>2. ThreadInv /\ [Next]_vars => [Executor!Next]_(Executor!vars)
  <2> SUFFICES ASSUME ThreadInv, [Next]_vars
               PROVE  [Executor!Next]_(Executor!vars)
    OBVIOUS
  <2> USE DEF ThreadInv, LocalInv, TypeOK, Executor!Next
  <2>1. ASSUME NEW t \in Threads, CallStep(t)
        PROVE  [Executor!Next]_(Executor!vars)
    <3>1. UNCHANGED <<lp, cur>>
      BY <2>1, CallFrame DEF loopVars
    <3>2. CASE Enqueue(t)
      <4>1. cmd[t] \in Commands
        BY <3>2 DEF Enqueue, CallShape
      <4>2. Len(accepted') - Len(items') = Len(accepted) - Len(items)
        BY <3>2, <4>1 DEF Enqueue
      <4>3. Executor!Accept(cmd[t])
        BY <3>1, <3>2, <4>2 DEF Enqueue, Executor!Accept, lifeVars
      <4>4. QED
        BY <4>1, <4>3
    <3>3. ASSUME ~Enqueue(t)
          PROVE  /\ UNCHANGED <<items, accepted>>
                 /\ cancelled' # cancelled => cancelled' = TRUE
      BY <2>1, <3>3 DEF CallStep, ThreadStep, Submit, Cancel,
         StopSeesNoFlag, StopSeesFlag, StopCancel, Join, EnqLock, SendLoad,
         SendRest, AddReturn, queueVars, lifeVars
    <3>4. QED
      BY <3>1, <3>2, <3>3 DEF Executor!Cancel
  <2>2. CASE LoopSide
    <3>1. UNCHANGED <<accepted, cancelled>>
      BY <2>2, LoopFrame
    <3>2. CASE Dequeue
      <4>1. /\ Len(items) >= 1
            /\ cur' = items[1]
            /\ Len(items') = Len(items) - 1
        BY <3>2 DEF Dequeue
      <4>2. cur' = accepted[Len(accepted) - Len(items) + 1]
        BY <4>1 DEF QueueIsRest
      <4>3. /\ Len(accepted) - Len(items) < Len(accepted)
            /\ Len(accepted) - Len(items') = Len(accepted) - Len(items) + 1
        BY <4>1 DEF QueueIsRest
      <4>4. Executor!Take
        BY <3>1, <3>2, <4>2, <4>3 DEF Dequeue, Executor!Take, Ended
      <4>5. QED
        BY <4>4
    <3>3. CASE RunEnd \/ ArmTimer \/ SpinDone
      <4>1. UNCHANGED items
        BY <3>3 DEF RunEnd, ArmTimer, SpinDone, queueVars
      <4>2. cur # NoCommand
        BY <3>3, CommandsAssumption DEF RunEnd, ArmTimer, SpinDone,
           CurIsCommand
      <4>3. Executor!Finish
        BY <3>1, <3>3, <4>1, <4>2 DEF RunEnd, ArmTimer, SpinDone,
           Executor!Finish, Ended
      <4>4. QED
        BY <4>3
    <3>4. CASE LeaveMain \/ StopAgain
      BY <3>1, <3>4 DEF LeaveMain, StopAgain, StopIsCancelled, Executor!Halt,
         queueVars, Ended
    <3>5. ASSUME ~Dequeue, ~RunEnd, ~ArmTimer, ~SpinDone, ~LeaveMain,
                 ~StopAgain
          PROVE  /\ UNCHANGED items
                 /\ lp \in Ended <=> lp' \in Ended
                 /\ \/ lp \notin {"run", "spin", "aborted"}
                       /\ lp' \notin {"run", "spin", "aborted"}
                    \/ /\ lp = "run" /\ lp' = "spin"
                       /\ UNCHANGED cur
      BY <2>2, <3>5 DEF LoopSide, LoopStep, Start, LockRunning, EnterRun,
         FireTimer, FireEnd, NextIteration, RunReturns, Poll, RunClosing,
         HandlerReturn, StopClose, Deinit, Ended, IoOf, Async!Wakeup,
         Async!PollOther, Async!Drain, Async!Exchange, queueVars
    <3>6. QED
      BY <3>1, <3>2, <3>3, <3>4, <3>5
  <2>3. CASE UNCHANGED vars
    BY <2>3 DEF vars, queueVars, loopVars, lifeVars
  <2>4. QED
    BY <2>1, <2>2, <2>3, NextSplits
<1>3. QED
  BY <1>1, <1>2, ThreadInvariance, PTL DEF SafetySpec, Executor!SafetySpec
=============================================================================
