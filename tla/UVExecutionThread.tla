------------------------- MODULE UVExecutionThread -------------------------
(***************************************************************************)
(* An execution thread of swift-uv: the command queue (UVFIFOQueue), the   *)
(* loop thread that drains it (UVJobs.handleJobs, called through the async *)
(* handle of UVAsync), the phases of uv_run the thread goes through, and   *)
(* the life of the thread: start, cancel, join, deinit.                    *)
(*                                                                         *)
(* Timers stand for every handle that a command creates on the loop; when  *)
(* they are due is the subject of UVTimers.  TCP handles are in UVTcp.     *)
(***************************************************************************)
EXTENDS Naturals, Sequences, FiniteSets

CONSTANTS Threads,       \* every thread that adds commands, Loop included
          Loop,          \* the thread main() runs on
          Controllers,   \* threads that reach the queue through an object
                         \* that retains UVJobs but not the thread object
          Commands,      \* the commands of a behaviour, each added once
          Kind,          \* Kind[c]: what the command c is
          NoCommand, NoThread,
          EdgeTriggered, \* see UVAsync
          LoopJoins      \* TRUE: code on the loop thread may drop the last
                         \* reference to a UVServer or a UVExecutor

Kinds == {"task", "timer", "stop"}

ASSUME ThreadsAssumption == /\ IsFiniteSet(Threads)
                            /\ Loop \in Threads
                            /\ Controllers \in SUBSET (Threads \ {Loop})
                            /\ NoThread \notin Threads
ASSUME CommandsAssumption == /\ Kind \in [Commands -> Kinds]
                             /\ NoCommand \notin Commands
ASSUME ModesAssumption == /\ EdgeTriggered \in BOOLEAN
                          /\ LoopJoins \in BOOLEAN

VARIABLES
  pending, busy, readable, handle, snd, owed,   \* see UVAsync
  items,       \* UVFIFOQueue.items
  lock,        \* the thread that holds hasItemsWaiter
  at, cmd,     \* at[t]: where t is in a call on the thread object or on its
               \* queue; cmd[t]: the command it adds
  joins,       \* joins[t]: the call of t ends with join()
  lp,          \* where the loop thread is
  cur,         \* the command, or the timer, the loop thread executes
  timer,       \* timer[c]: life of the uv_timer_t that command c created
  stopFlag,    \* loop->stop_flag
  cancelled,   \* Thread.isCancelled
  running,     \* the thread that holds UVExecutionThread.running
  accepted     \* history: every command the queue accepted, in order

asyncVars == <<pending, busy, readable, handle, snd, owed>>
queueVars == <<items, lock, accepted>>
callVars == <<at, cmd, joins>>
loopVars == <<lp, cur, timer, stopFlag>>
lifeVars == <<cancelled, running>>
vars == <<asyncVars, queueVars, callVars, loopVars, lifeVars>>

Places == {"idle", "enq", "locked", "send", "guard", "join"}
TimerStates == {"none", "active", "closing", "closed"}

(* The loop thread: before main ("created", "lock"), between two uv_run    *)
(* ("check"), in a phase of uv_run ("timers", "poll", "drain", "xchg",     *)
(* "closing"), in a callback ("fire", "jobs", "run", "spin"), after main   *)
(* ("exited", "freed") or dead with the process ("fatal", "aborted").      *)
LoopPlaces == {"created", "lock", "check", "timers", "poll", "drain", "xchg",
               "closing", "fire", "jobs", "run", "spin",
               "exited", "freed", "fatal", "aborted"}

(* The position of the loop thread as UVAsync sees it.                     *)
IoOf(p) == IF p \in {"poll", "drain", "xchg", "spin"} THEN p
           ELSE IF p \in {"jobs", "run"} THEN "cb"
           ELSE "away"

Async == INSTANCE UVAsync WITH io <- IoOf(lp)

Crashed == lp \in {"fatal", "aborted"}
Ended == {"exited", "freed", "fatal", "aborted"}

(* Code of the program that runs on the loop thread: a blocking task or    *)
(* the task of a timer.                                                    *)
InUserCode == \/ lp = "run" /\ Kind[cur] = "task"
              \/ lp = "fire"

Used == {accepted[i] : i \in 1..Len(accepted)}
Added == Used \cup {cmd[t] : t \in {u \in Threads : at[u] # "idle"}}
Fresh == Commands \ Added

(* Who may start a call now: any thread, the loop thread from the tasks it *)
(* runs; without the thread object only the holders of UVJobs.             *)
MayCall(t) == /\ at[t] = "idle"
              /\ t = Loop => InUserCode
              /\ lp = "freed" => t \in Controllers
              /\ ~Crashed

MayJoin(t) == /\ t \notin Controllers
              /\ t = Loop => LoopJoins

Init == /\ lp = "created"
        /\ Async!Init
        /\ items = <<>>
        /\ lock = NoThread
        /\ accepted = <<>>
        /\ at = [t \in Threads |-> "idle"]
        /\ cmd = [t \in Threads |-> NoCommand]
        /\ joins = [t \in Threads |-> FALSE]
        /\ cur = NoCommand
        /\ timer = [c \in Commands |-> "none"]
        /\ stopFlag = FALSE
        /\ cancelled = FALSE
        /\ running = NoThread

-----------------------------------------------------------------------------
(* Calls on the thread object, by any thread.                              *)

(* submitBlocking in its three forms, startListening, and the commands of  *)
(* the connection controllers.                                             *)
Submit(t, c) ==
  /\ MayCall(t)
  /\ Kind[c] # "stop"
  /\ at' = [at EXCEPT ![t] = "enq"]
  /\ cmd' = [cmd EXCEPT ![t] = c]
  /\ UNCHANGED <<joins, asyncVars, queueVars, loopVars, lifeVars>>

(* Variants of actions, each with a fault a maintainer might introduce,    *)
(* stand before the action they would replace; Next uses none of them.     *)

(* cancel(): the flag first, then the stop command.  A deinit of UVServer  *)
(* goes on with join().                                                    *)
Cancel(t, c) ==
  /\ MayCall(t)
  /\ t \notin Controllers
  /\ Kind[c] = "stop"
  /\ cancelled' = TRUE
  /\ at' = [at EXCEPT ![t] = "enq"]
  /\ cmd' = [cmd EXCEPT ![t] = c]
  /\ \E j \in BOOLEAN : /\ j => MayJoin(t)
                       /\ joins' = [joins EXCEPT ![t] = j]
  /\ UNCHANGED <<asyncVars, queueVars, loopVars, running>>

(* UVExecutor.stop, from its deinit: read isCancelled; cancel in a later   *)
(* step (StopCancel) if it was not set; join in either case.               *)
StopSeesFlag(t) ==
  /\ MayCall(t)
  /\ MayJoin(t)
  /\ cancelled
  /\ at' = [at EXCEPT ![t] = "join"]
  /\ UNCHANGED <<cmd, joins, asyncVars, queueVars, loopVars, lifeVars>>

StopSeesNoFlag(t, c) ==
  /\ MayCall(t)
  /\ MayJoin(t)
  /\ Kind[c] = "stop"
  /\ ~cancelled
  /\ at' = [at EXCEPT ![t] = "guard"]
  /\ cmd' = [cmd EXCEPT ![t] = c]
  /\ joins' = [joins EXCEPT ![t] = TRUE]
  /\ UNCHANGED <<asyncVars, queueVars, loopVars, lifeVars>>

StopCancel(t) ==
  /\ ~Crashed
  /\ at[t] = "guard"
  /\ cancelled' = TRUE
  /\ at' = [at EXCEPT ![t] = "enq"]
  /\ UNCHANGED <<cmd, joins, asyncVars, queueVars, loopVars, running>>

(* Variant of Join: the lock is only tried.                                *)
JoinTries(t) ==
  /\ ~Crashed
  /\ at[t] = "join"
  /\ at' = [at EXCEPT ![t] = "idle"]
  /\ UNCHANGED <<cmd, joins, asyncVars, queueVars, loopVars, lifeVars>>

(* join(): lock and unlock what main holds while it runs.                  *)
Join(t) ==
  /\ ~Crashed
  /\ at[t] = "join"
  /\ running = NoThread
  /\ at' = [at EXCEPT ![t] = "idle"]
  /\ UNCHANGED <<cmd, joins, asyncVars, queueVars, loopVars, lifeVars>>

-----------------------------------------------------------------------------
(* UVJobs.add: enqueue under the lock of the queue, then uv_async_send.    *)

EnqLock(t) ==
  /\ ~Crashed
  /\ at[t] = "enq"
  /\ lock = NoThread
  /\ lock' = t
  /\ at' = [at EXCEPT ![t] = "locked"]
  /\ UNCHANGED <<cmd, joins, items, accepted, loopVars, lifeVars>>
  /\ Async!CallSend(t)

(* The cheap read of the pending flag is relaxed: the processor may do it  *)
(* before the unlock that precedes it in the program, never before the     *)
(* lock.                                                                   *)
SendLoad(t) ==
  /\ ~Crashed
  /\ at[t] \in {"locked", "send"}
  /\ UNCHANGED <<queueVars, callVars, loopVars, lifeVars>>
  /\ Async!Load(t)

Enqueue(t) ==
  /\ ~Crashed
  /\ at[t] = "locked"
  /\ items' = Append(items, cmd[t])
  /\ accepted' = Append(accepted, cmd[t])
  /\ lock' = NoThread
  /\ at' = [at EXCEPT ![t] = "send"]
  /\ UNCHANGED <<cmd, joins, asyncVars, loopVars, lifeVars>>

SendRest(t) ==
  /\ ~Crashed
  /\ at[t] = "send"
  /\ UNCHANGED <<queueVars, callVars, loopVars, lifeVars>>
  /\ Async!Inc(t) \/ Async!Xchg(t) \/ Async!Write(t) \/ Async!Dec(t)

AddReturn(t) ==
  /\ ~Crashed
  /\ at[t] = "send"
  /\ snd[t] = "idle"
  /\ at' = [at EXCEPT ![t] = IF joins[t] THEN "join" ELSE "idle"]
  /\ cmd' = [cmd EXCEPT ![t] = NoCommand]
  /\ joins' = [joins EXCEPT ![t] = FALSE]
  /\ UNCHANGED <<asyncVars, queueVars, loopVars, lifeVars>>

ThreadStep(t) == \/ StopCancel(t) \/ Join(t) \/ EnqLock(t) \/ SendLoad(t)
                 \/ Enqueue(t) \/ SendRest(t) \/ AddReturn(t)

-----------------------------------------------------------------------------
(* main and uv_run, on the loop thread.                                    *)

Start ==
  /\ lp = "created"
  /\ lp' = "lock"
  /\ UNCHANGED <<cur, timer, stopFlag, asyncVars, queueVars, callVars, lifeVars>>

LockRunning ==
  /\ lp = "lock"
  /\ running = NoThread
  /\ running' = Loop
  /\ lp' = "check"
  /\ UNCHANGED <<cur, timer, stopFlag, cancelled, asyncVars, queueVars, callVars>>

(* uv__loop_alive                                                          *)
Alive == \/ handle \in {"open", "removed"}
         \/ \E c \in Commands : timer[c] \in {"active", "closing"}

EnterRun ==
  /\ lp = "check"
  /\ ~cancelled
  /\ Alive
  /\ lp' = "timers"
  /\ UNCHANGED <<cur, timer, stopFlag, asyncVars, queueVars, callVars, lifeVars>>

(* Variant of LeaveMain: main returns with the lock held.                  *)
LeaveMainLocked ==
  /\ lp = "check"
  /\ cancelled
  /\ lp' = "exited"
  /\ UNCHANGED <<cur, timer, stopFlag, asyncVars, queueVars, callVars, lifeVars>>

(* main finds the thread cancelled, before or after a uv_run; it releases  *)
(* the entry in `all` and unlocks `running`.                               *)
LeaveMain ==
  /\ lp = "check"
  /\ cancelled
  /\ lp' = "exited"
  /\ running' = NoThread
  /\ UNCHANGED <<cur, timer, stopFlag, cancelled, asyncVars, queueVars, callVars>>

(* uv__run_timers finds the timer of c due: UVTimer.run.                   *)
FireTimer(c) ==
  /\ lp = "timers"
  /\ timer[c] = "active"
  /\ cur' = c
  /\ lp' = "fire"
  /\ UNCHANGED <<timer, stopFlag, asyncVars, queueVars, callVars, lifeVars>>

(* The task has returned; UVTimer.stop closes the handle.                  *)
FireEnd ==
  /\ lp = "fire"
  /\ at[Loop] = "idle"
  /\ timer' = [timer EXCEPT ![cur] = "closing"]
  /\ cur' = NoCommand
  /\ lp' = "timers"
  /\ UNCHANGED <<stopFlag, asyncVars, queueVars, callVars, lifeVars>>

(* The loop condition of uv_run, after the timers.                         *)
NextIteration ==
  /\ lp = "timers"
  /\ Alive /\ ~stopFlag
  /\ lp' = "poll"
  /\ Async!EnterPoll
  /\ UNCHANGED <<cur, timer, stopFlag, queueVars, callVars, lifeVars>>

RunReturns ==
  /\ lp = "timers"
  /\ ~Alive \/ stopFlag
  /\ stopFlag' = FALSE
  /\ lp' = "check"
  /\ UNCHANGED <<cur, timer, asyncVars, queueVars, callVars, lifeVars>>

(* uv__io_poll and uv__async_io.                                           *)
Poll ==
  /\ \/ lp' \in {"drain", "xchg"} /\ Async!Wakeup
     \/ lp' = "closing" /\ Async!PollOther
     \/ lp' = "xchg" /\ Async!Drain
     \/ lp' = (IF handle = "open" /\ pending = 1 THEN "jobs" ELSE "closing")
        /\ Async!Exchange
  /\ UNCHANGED <<cur, timer, stopFlag, queueVars, callVars, lifeVars>>

(* uv__run_closing_handles                                                 *)
RunClosing ==
  /\ lp = "closing"
  /\ lp' = "timers"
  /\ timer' = [c \in Commands |-> IF timer[c] = "closing" THEN "closed"
                                  ELSE timer[c]]
  /\ IF handle = "removed" THEN Async!FinishClose ELSE UNCHANGED asyncVars
  /\ UNCHANGED <<cur, stopFlag, queueVars, callVars, lifeVars>>

-----------------------------------------------------------------------------
(* UVJobs.handleJobs, the callback of the async handle: it goes on until a *)
(* dequeue finds the queue empty, also behind a stop.                      *)

(* Variant of Dequeue: the newest command first.                           *)
DequeueLast ==
  /\ lp = "jobs"
  /\ lock = NoThread
  /\ items # <<>>
  /\ cur' = items[Len(items)]
  /\ items' = SubSeq(items, 1, Len(items) - 1)
  /\ lp' = "run"
  /\ UNCHANGED <<lock, accepted, timer, stopFlag, asyncVars, callVars, lifeVars>>

Dequeue ==
  /\ lp = "jobs"
  /\ lock = NoThread
  /\ items # <<>>
  /\ cur' = Head(items)
  /\ items' = Tail(items)
  /\ lp' = "run"
  /\ UNCHANGED <<lock, accepted, timer, stopFlag, asyncVars, callVars, lifeVars>>

(* Variants of HandlerReturn: one job for each wakeup; the closing handles *)
(* are not run in the iteration of the stop.                               *)
HandlerReturnsEarly ==
  /\ lp = "jobs"
  /\ lock = NoThread
  /\ lp' = "closing"
  /\ Async!CallbackReturn
  /\ UNCHANGED <<cur, timer, stopFlag, queueVars, callVars, lifeVars>>

HandlerSkipsClosing ==
  /\ lp = "jobs"
  /\ lock = NoThread
  /\ items = <<>>
  /\ lp' = "timers"
  /\ Async!CallbackReturn
  /\ UNCHANGED <<cur, timer, stopFlag, queueVars, callVars, lifeVars>>

HandlerReturn ==
  /\ lp = "jobs"
  /\ lock = NoThread
  /\ items = <<>>
  /\ lp' = "closing"
  /\ Async!CallbackReturn
  /\ UNCHANGED <<cur, timer, stopFlag, queueVars, callVars, lifeVars>>

RunEnd ==
  /\ lp = "run"
  /\ Kind[cur] = "task"
  /\ at[Loop] = "idle"
  /\ lp' = "jobs"
  /\ cur' = NoCommand
  /\ UNCHANGED <<timer, stopFlag, asyncVars, queueVars, callVars, lifeVars>>

(* UVScheduledManager.submit: a timer on the loop, even a stopped one.     *)
ArmTimer ==
  /\ lp = "run"
  /\ Kind[cur] = "timer"
  /\ timer' = [timer EXCEPT ![cur] = "active"]
  /\ lp' = "jobs"
  /\ cur' = NoCommand
  /\ UNCHANGED <<stopFlag, asyncVars, queueVars, callVars, lifeVars>>

(* UVJobs.stop: uv_close on the async handle, up to its spin ...           *)
StopClose ==
  /\ lp = "run"
  /\ Kind[cur] = "stop"
  /\ lp' = "spin"
  /\ Async!Close
  /\ UNCHANGED <<cur, timer, stopFlag, queueVars, callVars, lifeVars>>

(* ... which asserts that the handle is not closing yet.                   *)
StopAgain ==
  /\ lp = "run"
  /\ Kind[cur] = "stop"
  /\ handle # "open"
  /\ lp' = "aborted"
  /\ UNCHANGED <<cur, timer, stopFlag, asyncVars, queueVars, callVars, lifeVars>>

(* Variant of SpinDone: the loop is stopped without the walk.              *)
SpinDoneNoWalk ==
  /\ lp = "spin"
  /\ lp' = "jobs"
  /\ Async!SpinDone
  /\ stopFlag' = TRUE
  /\ cur' = NoCommand
  /\ UNCHANGED <<timer, queueVars, callVars, lifeVars>>

(* ... then uv_walk closes what is open, and uv_stop raises the flag.      *)
SpinDone ==
  /\ lp = "spin"
  /\ lp' = "jobs"
  /\ Async!SpinDone
  /\ timer' = [c \in Commands |-> IF timer[c] = "active" THEN "closing"
                                  ELSE timer[c]]
  /\ stopFlag' = TRUE
  /\ cur' = NoCommand
  /\ UNCHANGED <<queueVars, callVars, lifeVars>>

LoopStep == \/ LockRunning \/ EnterRun \/ LeaveMain
            \/ (\E c \in Commands : FireTimer(c)) \/ FireEnd
            \/ NextIteration \/ RunReturns \/ Poll \/ RunClosing
            \/ Dequeue \/ HandlerReturn \/ RunEnd \/ ArmTimer
            \/ StopClose \/ StopAgain \/ SpinDone

(* deinit, when nobody holds the thread object any more: uv_loop_close     *)
(* succeeds, or returns EBUSY for every one of the 15 attempts.            *)
Deinit ==
  /\ lp = "exited"
  /\ \A t \in Threads \ Controllers : at[t] = "idle"
  /\ lp' = IF /\ handle = "closed"
              /\ \A c \in Commands : timer[c] \in {"none", "closed"}
           THEN "freed" ELSE "fatal"
  /\ UNCHANGED <<cur, timer, stopFlag, asyncVars, queueVars, callVars, lifeVars>>

Next == \/ \E t \in Threads : \/ \E c \in Fresh : \/ Submit(t, c)
                                             \/ Cancel(t, c)
                                             \/ StopSeesNoFlag(t, c)
                             \/ StopSeesFlag(t)
                             \/ ThreadStep(t)
        \/ Start \/ LoopStep \/ Deinit

(* A thread inside a call goes on, the thread is started, the loop thread  *)
(* goes on and the tasks it runs return.                                   *)
Fairness == /\ \A t \in Threads : WF_vars(ThreadStep(t))
            /\ WF_vars(Start)
            /\ WF_vars(LoopStep)

SafetySpec == Init /\ [][Next]_vars
Spec == SafetySpec /\ Fairness

-----------------------------------------------------------------------------
(* Properties.                                                             *)

TypeOK == /\ Async!TypeOK
          /\ items \in Seq(Commands)
          /\ accepted \in Seq(Commands)
          /\ lock \in Threads \cup {NoThread}
          /\ at \in [Threads -> Places]
          /\ cmd \in [Threads -> Commands \cup {NoCommand}]
          /\ joins \in [Threads -> BOOLEAN]
          /\ lp \in LoopPlaces
          /\ cur \in Commands \cup {NoCommand}
          /\ timer \in [Commands -> TimerStates]
          /\ stopFlag \in BOOLEAN
          /\ cancelled \in BOOLEAN
          /\ running \in {Loop, NoThread}

(* No command is stranded: while the loop is outside the handler and the   *)
(* handle is open, a queue that is not empty is announced by the pending   *)
(* flag or by a thread that is still on its way to set it.  The sender     *)
(* checks the flag only after it has taken the lock of the queue; the      *)
(* handler clears the flag before it looks into the queue.                 *)
NothingStranded ==
  /\ items # <<>>
  /\ handle = "open"
  /\ lp \notin {"jobs", "run"} \cup Ended
  => \/ pending = 1
     \/ \E t \in Threads : snd[t] \in {"load", "inc", "xchg"}

(* The loop lives inside the thread object.  Once deinit has freed it, the *)
(* controllers that are left may add commands, and none of their sends     *)
(* reaches the write to the loop's descriptor.                             *)
NoUseAfterFree ==
  lp = "freed" => /\ pending = 1
                  /\ \A t \in Threads : snd[t] # "write"

(* The walk of UVJobs.stop leaves no timer behind except those whose       *)
(* command was accepted after the stop and taken in the same drain.        *)
OnlyLateTimersSurvive ==
  handle \in {"removed", "closed"} =>
    \A c \in Commands : timer[c] = "active" =>
      \E i, j \in 1..Len(accepted) :
        i < j /\ Kind[accepted[i]] = "stop" /\ accepted[j] = c

(* Why the process may die.  deinit gives up only when the loop never ran, *)
(* the thread having been cancelled before main looked, or when a timer    *)
(* command followed a stop; the assertion of uv_close fails only on a      *)
(* second stop.                                                            *)
DeathHasCause ==
  /\ lp = "fatal" =>
       \/ items = accepted
       \/ \E i, j \in 1..Len(accepted) :
            /\ i < j
            /\ Kind[accepted[i]] = "stop"
            /\ Kind[accepted[j]] = "timer"
  /\ lp = "aborted" =>
       Cardinality({i \in 1..Len(accepted) : Kind[accepted[i]] = "stop"}) > 1

(* join() returns when main has ended, or when main has not got hold of    *)
(* the lock yet: then the thread is still to run.                          *)
JoinSeesEnd ==
  [][\A t \in Threads :
       at[t] = "join" /\ at'[t] # "join" =>
         lp \in {"created", "lock"} \cup Ended]_vars

(* A join on the loop thread never returns, and the loop is dead with it.  *)
SelfJoinHangs ==
  [][at[Loop] = "join" => at'[Loop] = "join" /\ lp' = lp]_vars

(* A cancelled thread ends.                                                *)
CancelEnds == cancelled ~> lp \in Ended

(* A join of another thread on a cancelled thread returns.                 *)
JoinReturns ==
  \A t \in Threads : at[t] = "join" /\ cancelled ~> at[t] # "join" \/ Crashed

(* A cancel ends the thread, and lets go who waits for its end.            *)
StopsAtLast == CancelEnds /\ JoinReturns

(* The thread implements SerialExecutor.                                   *)
Executor == INSTANCE SerialExecutor WITH
              taken <- Len(accepted) - Len(items),
              current <- IF lp \in {"run", "spin", "aborted"} THEN cur
                         ELSE NoCommand,
              halted <- lp \in Ended
ImplementsExecutor == Executor!Spec

(* UVExecutionThread.swift:52 has no other answer to a loop that cannot be *)
(* closed than to end the process.                                         *)
LoopClosesCleanly == lp # "fatal"
=============================================================================
