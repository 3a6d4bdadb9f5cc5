------------------------------ MODULE UVTimers ------------------------------
(***************************************************************************)
(* Scheduled tasks: UVScheduledManager and UVTimer over libuv's timers     *)
(* (timer.c), in the phases of uv_run that decide when a timer fires.      *)
(*                                                                         *)
(* Two clocks matter: the time of day in milliseconds, which passes at any *)
(* moment, also while a task keeps the loop busy, and the time the loop    *)
(* has cached, which is brought up to date in three places only.           *)
(*                                                                         *)
(* The loop is running and is not stopped here, and no wakeup is lost:     *)
(* UVExecutionThread is about both.                                        *)
(***************************************************************************)
EXTENDS Naturals, Sequences, FiniteSets

CONSTANTS Timers,     \* the scheduling commands of a behaviour
          Timeouts,   \* the values callers pass
          Top,        \* (uint64_t) -1
          IntMax,     \* INT_MAX
          MaxClock,   \* bound: the clock stops here, and stands for
                      \* every later moment
          Forever     \* the poll has no deadline

ASSUME WidthAssumption == /\ Top \in Nat
                          /\ IntMax \in Nat
                          /\ Timeouts \in SUBSET (0..Top)
ASSUME ClockAssumption == MaxClock \in Nat /\ MaxClock < Top
ASSUME ForeverAssumption == Forever \notin Nat
ASSUME TimersFinite == IsFiniteSet(Timers)

VARIABLES
  clock,     \* uv_hrtime, in milliseconds
  time,      \* loop->time
  lp,        \* the phase of uv_run
  until,     \* the clock at which the poll gives up, or Forever
  jobs,      \* the scheduling commands in the queue of the thread
  state,     \* state[c]: life of the UVTimer of c
  ask,       \* ask[c]: what the caller asked for, and when
  due,       \* handle->timeout
  startId,   \* handle->start_id
  counter,   \* loop->timer_counter
  ready,     \* ready_queue of uv__run_timers
  armedAt,   \* history: loop->time when c was started
  firedAt    \* history: the clock when the task of c began

askVars == <<jobs, ask>>
heapVars == <<due, startId, counter, armedAt>>
vars == <<clock, time, lp, until, askVars, state, heapVars, ready, firedAt>>

Phases == {"poll", "jobs", "closing", "update", "collect", "fire", "task"}
States == {"none", "queued", "armed", "ready", "firing", "closing", "closed"}
Asks == [kind : {"in", "at"}, timeout : 0..Top, when : 0..MaxClock]

Init == /\ clock = 0
        /\ time = 0
        /\ lp = "update"
        /\ until = Forever
        /\ jobs = <<>>
        /\ state = [c \in Timers |-> "none"]
        /\ ask = [c \in Timers |-> [kind |-> "in", timeout |-> 0, when |-> 0]]
        /\ due = [c \in Timers |-> 0]
        /\ startId = [c \in Timers |-> 0]
        /\ counter = 0
        /\ ready = <<>>
        /\ armedAt = [c \in Timers |-> 0]
        /\ firedAt = [c \in Timers |-> 0]

-----------------------------------------------------------------------------
(* The world outside the loop thread.                                      *)

Tick == /\ clock < MaxClock
        /\ clock' = clock + 1
        /\ UNCHANGED <<time, lp, until, askVars, state, heapVars, ready,
                       firedAt>>

(* submitBlocking(task:after:) and submitBlocking(task:at:), on any thread *)
(* or from a task on the loop.                                             *)
Submit(c, kind, timeout) ==
  /\ state[c] = "none"
  /\ state' = [state EXCEPT ![c] = "queued"]
  /\ jobs' = Append(jobs, c)
  /\ ask' = [ask EXCEPT ![c] =
               [kind |-> kind, timeout |-> timeout, when |-> clock]]
  /\ UNCHANGED <<clock, time, lp, until, heapVars, ready, firedAt>>

-----------------------------------------------------------------------------
(* timer.c                                                                 *)

Armed == {c \in Timers : state[c] = "armed"}

(* timer_less_than, and a variant that mistakes the order of the starts.   *)
LaterFirst(c, d) == \/ due[c] < due[d]
                    \/ due[c] = due[d] /\ startId[c] > startId[d]

TimerLess(c, d) == \/ due[c] < due[d]
                   \/ due[c] = due[d] /\ startId[c] < startId[d]

(* heap_min                                                                *)
IsMin(c) == /\ c \in Armed
            /\ \A d \in Armed \ {c} : TimerLess(c, d)

(* The deadline of uv_timer_start, an addition of two uint64_t with a      *)
(* clamp, and a variant that wraps.                                        *)
DeadlineWraps(now, timeout) == (now + timeout) % (Top + 1)

Deadline(now, timeout) ==
  LET sum == (now + timeout) % (Top + 1)
  IN  IF sum < timeout THEN Top ELSE sum

(* uv__next_timeout, for the earliest timer.                               *)
WaitFor(c) ==
  IF due[c] <= time THEN 0
  ELSE IF due[c] - time > IntMax THEN IntMax ELSE due[c] - time

-----------------------------------------------------------------------------
(* The loop thread.                                                        *)

(* uv__io_poll returns for the async handle, because its time is over, or  *)
(* for an event of another handle; it updates the time of the loop.        *)
PollJobs ==
  /\ lp = "poll"
  /\ jobs # <<>>
  /\ time' = clock
  /\ lp' = "jobs"
  /\ UNCHANGED <<clock, until, askVars, state, heapVars, ready, firedAt>>

PollTimeout ==
  /\ lp = "poll"
  /\ until # Forever
  /\ clock >= until \/ clock = MaxClock
  /\ time' = clock
  /\ lp' = "closing"
  /\ UNCHANGED <<clock, until, askVars, state, heapVars, ready, firedAt>>

PollOther ==
  /\ lp = "poll"
  /\ time' = clock
  /\ lp' = "closing"
  /\ UNCHANGED <<clock, until, askVars, state, heapVars, ready, firedAt>>

(* UVJobs.handleJobs, UVScheduledManager.submit, UVTimer.start.  Other     *)
(* commands of the drain may have kept the loop busy since the poll.       *)
TakeJob ==
  /\ lp = "jobs"
  /\ jobs # <<>>
  /\ LET c == Head(jobs)
         t == ask[c].timeout
         delay == IF ask[c].kind = "in" THEN t
                  ELSE IF t > time THEN t - time ELSE 0
     IN  /\ due' = [due EXCEPT ![c] = Deadline(time, delay)]
         /\ startId' = [startId EXCEPT ![c] = counter]
         /\ armedAt' = [armedAt EXCEPT ![c] = time]
         /\ state' = [state EXCEPT ![c] = "armed"]
  /\ counter' = counter + 1
  /\ jobs' = Tail(jobs)
  /\ UNCHANGED <<clock, time, lp, until, ask, ready, firedAt>>

JobsDone ==
  /\ lp = "jobs"
  /\ jobs = <<>>
  /\ lp' = "closing"
  /\ UNCHANGED <<clock, time, until, askVars, state, heapVars, ready, firedAt>>

(* uv__run_closing_handles calls closeScheduledJob: the slot is released.  *)
RunClosing ==
  /\ lp = "closing"
  /\ state' = [c \in Timers |-> IF state[c] = "closing" THEN "closed"
                                ELSE state[c]]
  /\ lp' = "update"
  /\ UNCHANGED <<clock, time, until, askVars, heapVars, ready, firedAt>>

UpdateTime ==
  /\ lp = "update"
  /\ time' = clock
  /\ lp' = "collect"
  /\ UNCHANGED <<clock, until, askVars, state, heapVars, ready, firedAt>>

(* uv__run_timers: first all the timers that are due are stopped and       *)
(* queued, in the order of the heap ...                                    *)
Collect(c) ==
  /\ lp = "collect"
  /\ IsMin(c)
  /\ due[c] <= time
  /\ state' = [state EXCEPT ![c] = "ready"]
  /\ ready' = Append(ready, c)
  /\ UNCHANGED <<clock, time, lp, until, askVars, heapVars, firedAt>>

CollectEnd ==
  /\ lp = "collect"
  /\ \A c \in Armed : due[c] > time
  /\ lp' = "fire"
  /\ UNCHANGED <<clock, time, until, askVars, state, heapVars, ready, firedAt>>

(* ... then each is called: UVTimer.run executes the task ...              *)
Fire ==
  /\ lp = "fire"
  /\ ready # <<>>
  /\ state' = [state EXCEPT ![Head(ready)] = "firing"]
  /\ firedAt' = [firedAt EXCEPT ![Head(ready)] = clock]
  /\ ready' = Tail(ready)
  /\ lp' = "task"
  /\ UNCHANGED <<clock, time, until, askVars, heapVars>>

(* ... and closes the timer.                                               *)
TaskEnd ==
  /\ lp = "task"
  /\ state' = [c \in Timers |-> IF state[c] = "firing" THEN "closing"
                                ELSE state[c]]
  /\ lp' = "fire"
  /\ UNCHANGED <<clock, time, until, askVars, heapVars, ready, firedAt>>

(* Variant of EnterPoll: while handles are closing the poll has no         *)
(* deadline, instead of one that is over.                                  *)
EnterPollForgetsTimers ==
  /\ lp = "fire"
  /\ ready = <<>>
  /\ \/ /\ \/ Armed = {}
           \/ \E c \in Timers : state[c] = "closing"
        /\ until' = Forever
     \/ \E c \in Timers : IsMin(c) /\ until' = clock + WaitFor(c)
  /\ lp' = "poll"
  /\ UNCHANGED <<clock, time, askVars, state, heapVars, ready, firedAt>>

(* uv__backend_timeout for the next poll: it does not wait while handles   *)
(* are closing.                                                            *)
EnterPoll ==
  /\ lp = "fire"
  /\ ready = <<>>
  /\ IF \E c \in Timers : state[c] = "closing" THEN until' = clock
     ELSE \/ Armed = {} /\ until' = Forever
          \/ \E c \in Timers : IsMin(c) /\ until' = clock + WaitFor(c)
  /\ lp' = "poll"
  /\ UNCHANGED <<clock, time, askVars, state, heapVars, ready, firedAt>>

(* What the loop does without being asked.                                 *)
LoopStep == \/ PollJobs \/ PollTimeout \/ TakeJob \/ JobsDone \/ RunClosing
            \/ UpdateTime \/ (\E c \in Timers : Collect(c)) \/ CollectEnd
            \/ Fire \/ TaskEnd \/ EnterPoll

Next == \/ Tick
        \/ \E c \in Timers, k \in {"in", "at"}, t \in Timeouts : Submit(c, k, t)
        \/ LoopStep
        \/ PollOther

(* Time passes, the loop goes on, its tasks return, and a poll returns     *)
(* when there is a job for it or its time is over.  Nobody has to submit.  *)
Fairness == WF_vars(Tick) /\ WF_vars(LoopStep)

SafetySpec == Init /\ [][Next]_vars
Spec == SafetySpec /\ Fairness

-----------------------------------------------------------------------------
(* Properties.                                                             *)

TypeOK == /\ clock \in 0..MaxClock
          /\ time \in 0..MaxClock
          /\ lp \in Phases
          /\ until \in Nat \cup {Forever}
          /\ jobs \in Seq(Timers)
          /\ state \in [Timers -> States]
          /\ ask \in [Timers -> Asks]
          /\ due \in [Timers -> 0..Top]
          /\ startId \in [Timers -> Nat]
          /\ counter \in Nat
          /\ ready \in Seq(Timers)
          /\ armedAt \in [Timers -> 0..MaxClock]
          /\ firedAt \in [Timers -> 0..MaxClock]

Fired(c) == state[c] \in {"firing", "closing", "closed"}

(* A task runs no earlier than the time it names (submit at) or than its   *)
(* timeout after the loop's time when its command was taken (submit in),   *)
(* whatever the timeout is: a sum that does not fit into 64 bits does not  *)
(* become an early deadline.                                               *)
NotBeforeDue ==
  \A c \in Timers : Fired(c) =>
    IF ask[c].kind = "at" THEN firedAt[c] >= ask[c].timeout
    ELSE firedAt[c] >= armedAt[c] + ask[c].timeout

(* Tasks start in the order of their deadlines, and of their commands when *)
(* the deadlines are the same, although they are collected first and run   *)
(* one by one while the clock goes on.                                     *)
FiringOrder ==
  [][\A c, d \in Timers :
       /\ state[c] = "ready" /\ state'[c] = "firing"
       /\ state[d] \in {"armed", "ready"} /\ d # c
       => \/ due[c] < due[d]
          \/ due[c] = due[d] /\ startId[c] < startId[d]]_vars

(* A scheduled task whose deadline comes is run: the poll never sleeps     *)
(* past the earliest deadline for good.                                    *)
ArmedFires ==
  \A c \in Timers :
    state[c] = "armed" /\ due[c] <= MaxClock ~> state[c] = "closed"
=============================================================================
