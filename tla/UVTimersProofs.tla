--------------------------- MODULE UVTimersProofs ---------------------------
(***************************************************************************)
(* Proofs about UVTimers for every set of timers, every width of the       *)
(* integers and every set of timeouts: no task runs before its deadline,   *)
(* and tasks run in the order of their deadlines.                          *)
(***************************************************************************)
EXTENDS UVTimers, TLAPS

-----------------------------------------------------------------------------
(* The deadline of uv_timer_start is the sum, or the largest integer when  *)
(* the sum does not fit.                                                   *)
LEMMA DeadlineIsClampedSum ==
  ASSUME NEW now \in 0..Top, NEW timeout \in 0..Top
  PROVE  Deadline(now, timeout) = IF now + timeout <= Top THEN now + timeout
                                  ELSE Top
<1> DEFINE sum == now + timeout
<1> Top \in Nat
  BY WidthAssumption
<1>1. CASE sum <= Top
  <2>1. sum % (Top + 1) = sum
    BY <1>1
  <2>2. QED
    BY <1>1, <2>1 DEF Deadline
<1>2. CASE sum > Top
  <2>1. sum % (Top + 1) = sum - (Top + 1)
    BY <1>2
  <2>2. sum - (Top + 1) < timeout
    OBVIOUS
  <2>3. QED
    BY <1>2, <2>1, <2>2 DEF Deadline
<1>3. QED
  BY <1>1, <1>2

-----------------------------------------------------------------------------
(* Queues without repetition.                                              *)

Elements(q) == {q[i] : i \in 1..Len(q)}

Distinct(q) == \A i, j \in 1..Len(q) : i # j => q[i] # q[j]

LEMMA AppendElements ==
  ASSUME NEW S, NEW q \in Seq(S), NEW c \in S, c \notin Elements(q),
         Distinct(q)
  PROVE  /\ Append(q, c) \in Seq(S)
         /\ Elements(Append(q, c)) = Elements(q) \cup {c}
         /\ Distinct(Append(q, c))
<1> DEFINE p == Append(q, c)
<1>1. /\ p \in Seq(S) /\ Len(p) = Len(q) + 1 /\ p[Len(q) + 1] = c
      /\ \A i \in 1..Len(q) : p[i] = q[i]
  OBVIOUS
<1>2. Len(q) \in Nat
  OBVIOUS
<1> HIDE DEF p
<1>3. 1..Len(p) = (1..Len(q)) \cup {Len(q) + 1}
  BY <1>1, <1>2
<1>4. Elements(p) = Elements(q) \cup {c}
  BY <1>1, <1>3 DEF Elements
<1>5. Distinct(p)
  BY <1>1, <1>2, <1>3 DEF Elements, Distinct
<1>6. QED
  BY <1>1, <1>4, <1>5 DEF p

LEMMA TailElements ==
  ASSUME NEW S, NEW q \in Seq(S), q # <<>>, Distinct(q)
  PROVE  /\ Head(q) \in S /\ Head(q) \in Elements(q)
         /\ Tail(q) \in Seq(S)
         /\ Elements(Tail(q)) = Elements(q) \ {Head(q)}
         /\ Distinct(Tail(q))
<1> DEFINE p == Tail(q)
<1>1. /\ p \in Seq(S) /\ Len(p) = Len(q) - 1
      /\ \A i \in 1..Len(p) : p[i] = q[i + 1]
  OBVIOUS
<1>2. Len(q) \in Nat /\ Len(q) > 0 /\ Head(q) = q[1] /\ q[1] \in S
  OBVIOUS
<1> HIDE DEF p
<1>3. \A i \in 1..Len(p) : i + 1 \in 1..Len(q) /\ i + 1 # 1
  BY <1>1, <1>2
<1>4. \A i \in 1..Len(q) : i # 1 => i - 1 \in 1..Len(p) /\ p[i - 1] = q[i]
  BY <1>1, <1>2
<1>5. 1 \in 1..Len(q)
  BY <1>2
<1>6. Elements(p) = Elements(q) \ {q[1]}
  <2>1. ASSUME NEW x \in Elements(p) PROVE x \in Elements(q) \ {q[1]}
    BY <1>1, <1>3, <1>5, <2>1 DEF Elements, Distinct
  <2>2. ASSUME NEW x \in Elements(q), x # q[1] PROVE x \in Elements(p)
    <3>1. PICK i \in 1..Len(q) : x = q[i]
      BY <2>2 DEF Elements
    <3>2. i - 1 \in 1..Len(p) /\ p[i - 1] = x
      BY <1>4, <2>2, <3>1
    <3>3. QED
      BY <3>2 DEF Elements
  <2>3. QED
    BY <2>1, <2>2
<1>7. Distinct(p)
  <2>1. SUFFICES ASSUME NEW i \in 1..Len(p), NEW j \in 1..Len(p), i # j
                 PROVE  p[i] # p[j]
    BY DEF Distinct
  <2>2. i + 1 # j + 1
    BY <1>1, <1>2, <2>1
  <2>3. QED
    BY <1>1, <1>3, <2>2 DEF Distinct
<1>8. QED
  BY <1>1, <1>2, <1>5, <1>6, <1>7 DEF p, Elements

-----------------------------------------------------------------------------
(* The inductive invariant.                                                *)

Started(c) == state[c] \in {"armed", "ready"} \/ Fired(c)

(* The cached time is never ahead of the clock.                            *)
TimeIsPast == time <= clock

(* The two queues hold the timers in the states named, each once.          *)
QueuesMatch ==
  /\ Distinct(jobs) /\ Elements(jobs) = {c \in Timers : state[c] = "queued"}
  /\ Distinct(ready) /\ Elements(ready) = {c \in Timers : state[c] = "ready"}

(* A deadline is what the caller asked for, counted from the loop's time.  *)
DueIsRight ==
  \A c \in Timers : Started(c) =>
    IF ask[c].kind = "at" THEN due[c] >= ask[c].timeout
    ELSE due[c] = Top \/ due[c] >= armedAt[c] + ask[c].timeout

(* What was collected was due.                                             *)
CollectedIsDue ==
  \A c \in Timers : /\ state[c] = "ready" => due[c] <= time
                    /\ Fired(c) => /\ firedAt[c] >= due[c]
                                   /\ due[c] <= time

(* The ready queue is in the order of the heap, before what is left there, *)
(* and it is empty while no timers are collected or called.                *)
InOrder(q) == \A i, j \in 1..Len(q) : i < j => TimerLess(q[i], q[j])

ReadyInOrder ==
  /\ InOrder(ready)
  /\ \A c, d \in Timers :
       state[c] = "ready" /\ state[d] = "armed" => TimerLess(c, d)
  /\ lp \notin {"collect", "fire", "task"} => ready = <<>>

TimersInv == /\ TypeOK
             /\ TimeIsPast
             /\ QueuesMatch
             /\ DueIsRight
             /\ CollectedIsDue
             /\ ReadyInOrder

LEMMA TimersInit == Init => TimersInv
<1> SUFFICES ASSUME Init PROVE TimersInv
  OBVIOUS
<1>1. jobs \in Seq(Timers) /\ ready \in Seq(Timers)
  BY DEF Init
<1>2. 0 \in 0..Top /\ 0 \in 0..MaxClock
  BY WidthAssumption, ClockAssumption
<1>3. ask \in [Timers -> Asks]
  BY <1>2 DEF Init, Asks
<1>4. TypeOK
  BY <1>1, <1>2, <1>3 DEF Init, TypeOK, Phases, States
<1>5. QED
  BY <1>4 DEF Init, TimersInv, TimeIsPast, QueuesMatch, DueIsRight,
     CollectedIsDue, ReadyInOrder, InOrder, Started, Fired, Distinct, Elements

(* The phases that only move on, or read the clock.                        *)
PassiveStep == \/ Tick \/ PollJobs \/ PollTimeout \/ PollOther \/ JobsDone
               \/ UpdateTime \/ CollectEnd \/ EnterPoll

LEMMA PassiveKeeps ==
  ASSUME TimersInv, PassiveStep
  PROVE  TimersInv'
<1> USE DEF TimersInv, TypeOK
<1>1. UNCHANGED <<jobs, ask, state, due, startId, counter, armedAt, ready,
                  firedAt>>
  BY DEF PassiveStep, Tick, PollJobs, PollTimeout, PollOther, JobsDone,
     UpdateTime, CollectEnd, EnterPoll, askVars, heapVars
<1>2. /\ clock' \in 0..MaxClock /\ clock' >= clock
      /\ time' = time \/ time' = clock'
  BY ClockAssumption DEF PassiveStep, Tick, PollJobs, PollTimeout,
     PollOther, JobsDone, UpdateTime, CollectEnd, EnterPoll
<1>3. lp' \in Phases
  BY DEF PassiveStep, Tick, PollJobs, PollTimeout, PollOther, JobsDone,
     UpdateTime, CollectEnd, EnterPoll, Phases
<1>4. lp' \notin {"collect", "fire", "task"} => ready' = <<>>
  BY DEF PassiveStep, Tick, PollJobs, PollTimeout, PollOther, JobsDone,
     UpdateTime, CollectEnd, EnterPoll, ReadyInOrder
<1>5. until' \in Nat \cup {Forever}
  <2>1. \A c \in Timers : WaitFor(c) \in Nat
    BY WidthAssumption, ClockAssumption DEF WaitFor
  <2>2. QED
    BY <2>1, ClockAssumption DEF PassiveStep, Tick, PollJobs, PollTimeout,
       PollOther, JobsDone, UpdateTime, CollectEnd, EnterPoll
<1>6. TypeOK'
  BY <1>1, <1>2, <1>3, <1>5
<1>7. TimeIsPast' /\ time' >= time
  BY <1>2 DEF TimeIsPast
<1>8. QueuesMatch'
  BY <1>1 DEF QueuesMatch
<1>9. DueIsRight'
  BY <1>1 DEF DueIsRight, Started, Fired
<1>10. CollectedIsDue'
  <2>1. Top \in Nat /\ MaxClock \in Nat
    BY WidthAssumption, ClockAssumption
  <2>2. time \in Nat /\ time' \in Nat /\ time' >= time
    BY <1>6, <1>7, <2>1
  <2>3. SUFFICES ASSUME NEW c \in Timers
                 PROVE  /\ state[c] = "ready" => due[c] <= time'
                        /\ Fired(c) => /\ firedAt[c] >= due[c]
                                       /\ due[c] <= time'
    BY <1>1 DEF CollectedIsDue, Fired
  <2>4. due[c] \in Nat
    BY <2>1
  <2>5. QED
    BY <2>2, <2>4 DEF CollectedIsDue
<1>11. ReadyInOrder'
  BY <1>1, <1>4 DEF ReadyInOrder, InOrder, TimerLess
<1>12. QED
  BY <1>6, <1>7, <1>8, <1>9, <1>10, <1>11

-----------------------------------------------------------------------------
(* The steps that move a timer.                                            *)

(* What the proofs below take from the invariant and from the assumptions. *)
LEMMA Types ==
  ASSUME TimersInv
  PROVE  /\ TypeOK /\ Top \in Nat /\ MaxClock \in Nat /\ MaxClock < Top
         /\ Timeouts \subseteq 0..Top
         /\ \A c \in Timers : ask[c].timeout \in 0..Top
                             /\ ask[c].kind \in {"in", "at"}
<1>1. ask \in [Timers -> Asks]
  BY DEF TimersInv, TypeOK
<1>2. QED
  BY <1>1, WidthAssumption, ClockAssumption DEF TimersInv, Asks

LEMMA SubmitKeeps ==
  ASSUME TimersInv, NEW c \in Timers, NEW k \in {"in", "at"},
         NEW t \in Timeouts, Submit(c, k, t)
  PROVE  TimersInv'
<1>1. /\ state[c] = "none" /\ state' = [state EXCEPT ![c] = "queued"]
      /\ jobs' = Append(jobs, c)
      /\ ask' = [ask EXCEPT ![c] =
                   [kind |-> k, timeout |-> t, when |-> clock]]
      /\ UNCHANGED <<clock, time, lp, until, due, startId, counter, armedAt,
                     ready, firedAt>>
  BY DEF Submit, heapVars
<1>2. state \in [Timers -> States] /\ jobs \in Seq(Timers)
  BY Types DEF TypeOK
<1>3. /\ jobs' \in Seq(Timers)
      /\ Distinct(jobs') /\ Elements(jobs') = Elements(jobs) \cup {c}
  <2>1. c \notin Elements(jobs) /\ Distinct(jobs)
    BY <1>1 DEF TimersInv, QueuesMatch
  <2>2. QED
    BY <1>1, <1>2, <2>1, AppendElements
<1>4. TypeOK'
  <2>1. [kind |-> k, timeout |-> t, when |-> clock] \in Asks
    BY Types DEF Asks, TypeOK
  <2>2. QED
    BY <1>1, <1>3, <2>1, Types DEF States, TypeOK
<1>5. QueuesMatch'
  BY <1>1, <1>2, <1>3 DEF TimersInv, QueuesMatch
<1>6. DueIsRight'
  BY <1>1, <1>2 DEF TimersInv, DueIsRight, Started, Fired
<1>7. CollectedIsDue'
  BY <1>1, <1>2 DEF TimersInv, CollectedIsDue, Fired
<1>8. ReadyInOrder'
  BY <1>1, <1>2 DEF TimersInv, ReadyInOrder, InOrder, TimerLess
<1>9. QED
  BY <1>1, <1>4, <1>5, <1>6, <1>7, <1>8 DEF TimersInv, TimeIsPast

LEMMA TakeJobKeeps ==
  ASSUME TimersInv, TakeJob
  PROVE  TimersInv'
<1> DEFINE c == Head(jobs)
           t == ask[c].timeout
           delay == IF ask[c].kind = "in" THEN t
                    ELSE IF t > time THEN t - time ELSE 0
           deadline == Deadline(time, delay)
<1>1. /\ jobs # <<>> /\ jobs' = Tail(jobs)
      /\ state' = [state EXCEPT ![c] = "armed"]
      /\ startId' = [startId EXCEPT ![c] = counter]
      /\ armedAt' = [armedAt EXCEPT ![c] = time]
      /\ due' = [due EXCEPT ![c] = deadline]
      /\ counter' = counter + 1
      /\ lp = "jobs"
      /\ UNCHANGED <<clock, time, lp, until, ask, ready, firedAt>>
  BY DEF TakeJob
<1>2. /\ state \in [Timers -> States] /\ jobs \in Seq(Timers)
      /\ due \in [Timers -> 0..Top] /\ armedAt \in [Timers -> 0..MaxClock]
      /\ time \in 0..MaxClock
  BY Types DEF TypeOK
<1>3. /\ c \in Timers /\ c \in Elements(jobs)
      /\ jobs' \in Seq(Timers)
      /\ Distinct(jobs') /\ Elements(jobs') = Elements(jobs) \ {c}
  BY <1>1, <1>2, TailElements DEF TimersInv, QueuesMatch
<1>4. state[c] = "queued"
  BY <1>3 DEF TimersInv, QueuesMatch
<1>5. delay \in 0..Top /\ time \in 0..Top
  <2>1. t \in 0..Top /\ Top \in Nat /\ MaxClock \in Nat /\ MaxClock < Top
    BY <1>3, Types
  <2> HIDE DEF t
  <2>2. QED
    BY <1>2, <2>1
<1>6. /\ deadline = IF time + delay <= Top THEN time + delay ELSE Top
      /\ deadline \in 0..Top
  <2> HIDE DEF delay
  <2>1. deadline = IF time + delay <= Top THEN time + delay ELSE Top
    BY <1>5, DeadlineIsClampedSum
  <2>2. QED
    BY <1>5, <2>1, WidthAssumption
<1>7. IF ask[c].kind = "at" THEN deadline >= t
      ELSE deadline = Top \/ deadline >= time + t
  <2>1. t \in 0..Top /\ Top \in Nat /\ ask[c].kind \in {"in", "at"}
    BY <1>3, Types
  <2>2. ask[c].kind = "in" => delay = t
    OBVIOUS
  <2>3. ask[c].kind = "at" =>
          IF t > time THEN delay = t - time ELSE delay = 0
    BY <2>1
  <2> HIDE DEF t, deadline, delay
  <2>4. CASE ask[c].kind = "in"
    BY <1>5, <1>6, <2>1, <2>2, <2>4
  <2>5. CASE ask[c].kind = "at"
    BY <1>5, <1>6, <2>1, <2>3, <2>5
  <2>6. QED
    BY <2>1, <2>4, <2>5
<1> HIDE DEF c, t, delay, deadline
<1>8. TypeOK'
  <2>1. /\ due' \in [Timers -> 0..Top] /\ armedAt' \in [Timers -> 0..MaxClock]
        /\ state' \in [Timers -> States]
    BY <1>1, <1>2, <1>6 DEF States
  <2>2. startId' \in [Timers -> Nat] /\ counter' \in Nat
    <3>1. startId \in [Timers -> Nat] /\ counter \in Nat
      BY Types DEF TypeOK
    <3>2. startId' = [startId EXCEPT ![c] = counter] /\ counter' = counter + 1
      BY <1>1
    <3>3. startId' \in [Timers -> Nat]
      BY <1>3, <3>1, <3>2
    <3>4. QED
      BY <3>1, <3>2, <3>3
  <2>3. QED
    BY <1>1, <1>3, <2>1, <2>2, Types DEF TypeOK
<1>9. ready = <<>>
  BY <1>1 DEF TimersInv, ReadyInOrder
<1>10. QueuesMatch'
  BY <1>1, <1>2, <1>3, <1>4 DEF TimersInv, QueuesMatch
<1>11. DueIsRight'
  <2>1. SUFFICES ASSUME NEW d \in Timers, Started(d)'
                 PROVE  IF ask[d].kind = "at" THEN due'[d] >= ask[d].timeout
                        ELSE \/ due'[d] = Top
                             \/ due'[d] >= armedAt'[d] + ask[d].timeout
    BY <1>1 DEF DueIsRight
  <2>2. CASE d = c
    BY <1>1, <1>2, <1>3, <1>7, <2>2 DEF t
  <2>3. CASE d # c
    BY <1>1, <1>2, <1>3, <2>1, <2>3
       DEF TimersInv, DueIsRight, Started, Fired
  <2>4. QED
    BY <2>2, <2>3
<1>12. CollectedIsDue'
  BY <1>1, <1>2, <1>3, <1>4 DEF TimersInv, CollectedIsDue, Fired
<1>13. ReadyInOrder'
  <2>1. \A d \in Timers : state'[d] # "ready"
    BY <1>1, <1>2, <1>3, <1>9 DEF TimersInv, QueuesMatch, Elements
  <2>2. QED
    BY <1>1, <1>9, <2>1 DEF ReadyInOrder, InOrder
<1>14. QED
  BY <1>1, <1>8, <1>10, <1>11, <1>12, <1>13 DEF TimersInv, TimeIsPast

(* Closing a timer and releasing it touch no queue.                        *)
LEMMA ClosingKeeps ==
  ASSUME TimersInv, RunClosing \/ TaskEnd
  PROVE  TimersInv'
<1>1. /\ UNCHANGED <<clock, time, until, jobs, ask, due, startId, counter,
                     armedAt, ready, firedAt>>
      /\ state' \in [Timers -> States] /\ lp' \in Phases
      /\ lp' \notin {"collect", "fire", "task"} => ready = <<>>
  BY Types DEF RunClosing, TaskEnd, askVars, heapVars, States, Phases,
     TypeOK, TimersInv, ReadyInOrder
<1>2. \A c \in Timers : /\ Started(c)' <=> Started(c)
                        /\ Fired(c)' <=> Fired(c)
                        /\ state'[c] = "queued" <=> state[c] = "queued"
                        /\ state'[c] = "armed" <=> state[c] = "armed"
                        /\ state'[c] = "ready" <=> state[c] = "ready"
  BY DEF RunClosing, TaskEnd, Started, Fired
<1>3. TypeOK'
  BY <1>1, Types DEF TypeOK
<1>4. QueuesMatch'
  BY <1>1, <1>2 DEF TimersInv, QueuesMatch
<1>5. DueIsRight'
  BY <1>1, <1>2 DEF TimersInv, DueIsRight
<1>6. CollectedIsDue'
  BY <1>1, <1>2 DEF TimersInv, CollectedIsDue
<1>7. ReadyInOrder'
  BY <1>1, <1>2 DEF TimersInv, ReadyInOrder, InOrder, TimerLess
<1>8. QED
  BY <1>1, <1>3, <1>4, <1>5, <1>6, <1>7 DEF TimersInv, TimeIsPast

LEMMA CollectKeeps ==
  ASSUME TimersInv, NEW c \in Timers, Collect(c)
  PROVE  TimersInv'
<1>1. /\ state[c] = "armed" /\ state' = [state EXCEPT ![c] = "ready"]
      /\ ready' = Append(ready, c)
      /\ due[c] <= time /\ lp = "collect"
      /\ \A d \in Timers : state[d] = "armed" /\ d # c => TimerLess(c, d)
      /\ UNCHANGED <<clock, time, lp, until, jobs, ask, due, startId, counter,
                     armedAt, firedAt>>
  BY DEF Collect, IsMin, Armed, askVars, heapVars
<1>2. state \in [Timers -> States] /\ ready \in Seq(Timers)
  BY Types DEF TypeOK
<1>3. /\ ready' \in Seq(Timers)
      /\ Distinct(ready') /\ Elements(ready') = Elements(ready) \cup {c}
  <2>1. c \notin Elements(ready) /\ Distinct(ready)
    BY <1>1 DEF TimersInv, QueuesMatch
  <2>2. QED
    BY <1>1, <1>2, <2>1, AppendElements
<1>4. TypeOK'
  BY <1>1, <1>3, Types DEF TypeOK, States
<1>5. QueuesMatch'
  BY <1>1, <1>2, <1>3 DEF TimersInv, QueuesMatch
<1>6. DueIsRight'
  BY <1>1, <1>2 DEF TimersInv, DueIsRight, Started, Fired
<1>7. CollectedIsDue'
  BY <1>1, <1>2 DEF TimersInv, CollectedIsDue, Fired
<1>8. ReadyInOrder'
  <2>1. InOrder(ready')
    <3>1. SUFFICES ASSUME NEW i \in 1..Len(ready'), NEW j \in 1..Len(ready'),
                          i < j
                   PROVE  TimerLess(ready'[i], ready'[j])
      BY DEF InOrder
    <3>2. /\ i \in 1..Len(ready) /\ ready'[i] = ready[i]
          /\ \/ j \in 1..Len(ready) /\ ready'[j] = ready[j]
             \/ ready'[j] = c
      BY <1>1, <1>2, <3>1
    <3>3. CASE j \in 1..Len(ready) /\ ready'[j] = ready[j]
      BY <3>1, <3>2, <3>3 DEF TimersInv, ReadyInOrder, InOrder
    <3>4. CASE ready'[j] = c
      <4>1. ready[i] \in Elements(ready)
        BY <3>2 DEF Elements
      <4>2. ready[i] \in Timers /\ state[ready[i]] = "ready"
        BY <4>1 DEF TimersInv, QueuesMatch
      <4>3. QED
        BY <1>1, <3>2, <3>4, <4>2 DEF TimersInv, ReadyInOrder
    <3>5. QED
      BY <3>2, <3>3, <3>4
  <2>2. InOrder(ready)' 
    BY <1>1, <2>1 DEF InOrder, TimerLess
  <2>3. \A d, e \in Timers :
          state'[d] = "ready" /\ state'[e] = "armed" => TimerLess(d, e)
    BY <1>1, <1>2 DEF TimersInv, ReadyInOrder
  <2>4. QED
    BY <1>1, <2>2, <2>3 DEF ReadyInOrder, TimerLess
<1>9. QED
  BY <1>1, <1>4, <1>5, <1>6, <1>7, <1>8 DEF TimersInv, TimeIsPast

LEMMA FireKeeps ==
  ASSUME TimersInv, Fire
  PROVE  TimersInv'
<1> DEFINE c == Head(ready)
<1>1. /\ ready # <<>> /\ ready' = Tail(ready)
      /\ state' = [state EXCEPT ![c] = "firing"]
      /\ firedAt' = [firedAt EXCEPT ![c] = clock]
      /\ lp = "fire" /\ lp' = "task"
      /\ UNCHANGED <<clock, time, until, jobs, ask, due, startId, counter,
                     armedAt>>
  BY DEF Fire, askVars, heapVars
<1>2. /\ state \in [Timers -> States] /\ ready \in Seq(Timers)
      /\ firedAt \in [Timers -> 0..MaxClock] /\ clock \in 0..MaxClock
  BY Types DEF TypeOK
<1>3. /\ c \in Timers /\ c \in Elements(ready)
      /\ ready' \in Seq(Timers)
      /\ Distinct(ready') /\ Elements(ready') = Elements(ready) \ {c}
  BY <1>1, <1>2, TailElements DEF TimersInv, QueuesMatch
<1>4. InOrder(ready')
  <2>1. SUFFICES ASSUME NEW i \in 1..Len(ready'), NEW j \in 1..Len(ready'),
                        i < j
                 PROVE  TimerLess(ready'[i], ready'[j])
    BY DEF InOrder
  <2>2. /\ i + 1 \in 1..Len(ready) /\ ready'[i] = ready[i + 1]
        /\ j + 1 \in 1..Len(ready) /\ ready'[j] = ready[j + 1]
        /\ i + 1 < j + 1
    BY <1>1, <1>2, <2>1
  <2>3. QED
    BY <2>2 DEF TimersInv, ReadyInOrder, InOrder
<1> HIDE DEF c
<1>5. state[c] = "ready"
  BY <1>3 DEF TimersInv, QueuesMatch
<1>6. TypeOK'
  BY <1>1, <1>2, <1>3, Types DEF TypeOK, States, Phases
<1>7. QueuesMatch'
  BY <1>1, <1>2, <1>3, <1>5 DEF TimersInv, QueuesMatch
<1>8. DueIsRight'
  BY <1>1, <1>2, <1>3, <1>5 DEF TimersInv, DueIsRight, Started, Fired
<1>9. CollectedIsDue'
  <2>1. due[c] <= time /\ time <= clock
    BY <1>3, <1>5 DEF TimersInv, CollectedIsDue, TimeIsPast
  <2>2. due[c] \in Nat /\ time \in Nat /\ clock \in Nat
    BY <1>3, Types DEF TypeOK
  <2>3. clock >= due[c]
    BY <2>1, <2>2
  <2>4. /\ state'[c] = "firing" /\ firedAt'[c] = clock
        /\ \A d \in Timers \ {c} : state'[d] = state[d]
                                 /\ firedAt'[d] = firedAt[d]
    BY <1>1, <1>2, <1>3
  <2>5. SUFFICES ASSUME NEW d \in Timers
                 PROVE  /\ state'[d] = "ready" => due[d] <= time
                        /\ Fired(d)' => firedAt'[d] >= due[d] /\ due[d] <= time
    BY <1>1 DEF CollectedIsDue
  <2>6. CASE d = c
    BY <2>1, <2>3, <2>4, <2>6
  <2>7. CASE d # c
    BY <2>4, <2>7 DEF TimersInv, CollectedIsDue, Fired
  <2>8. QED
    BY <2>6, <2>7
<1>10. ReadyInOrder'
  <2>1. InOrder(ready)'
    <3>1. UNCHANGED <<due, startId>>
      BY <1>1
    <3>2. QED
      BY <1>4, <3>1 DEF InOrder, TimerLess
  <2>2. QED
    BY <1>1, <1>2, <1>3, <1>5, <2>1 DEF TimersInv, ReadyInOrder, TimerLess
<1>11. QED
  BY <1>1, <1>6, <1>7, <1>8, <1>9, <1>10 DEF TimersInv, TimeIsPast

LEMMA TimersStep == TimersInv /\ [Next]_vars => TimersInv'
<1> SUFFICES ASSUME TimersInv, [Next]_vars PROVE TimersInv'
  OBVIOUS
<1>1. CASE PassiveStep
  BY <1>1, PassiveKeeps
<1>2. ASSUME NEW c \in Timers, NEW k \in {"in", "at"}, NEW t \in Timeouts,
             Submit(c, k, t)
      PROVE  TimersInv'
  BY <1>2, SubmitKeeps
<1>3. CASE TakeJob
  BY <1>3, TakeJobKeeps
<1>4. CASE RunClosing \/ TaskEnd
  BY <1>4, ClosingKeeps
<1>5. ASSUME NEW c \in Timers, Collect(c) PROVE TimersInv'
  BY <1>5, CollectKeeps
<1>6. CASE Fire
  BY <1>6, FireKeeps
<1>7. CASE UNCHANGED vars
  BY <1>7 DEF vars, askVars, heapVars, TimersInv, TypeOK, TimeIsPast,
     QueuesMatch, DueIsRight, CollectedIsDue, ReadyInOrder, InOrder, Started,
     Fired, TimerLess
<1>8. QED
  BY <1>1, <1>2, <1>3, <1>4, <1>5, <1>6, <1>7
     DEF Next, LoopStep, PassiveStep

-----------------------------------------------------------------------------
(* The invariant holds in every reachable state.                           *)
THEOREM TimersInvariance == SafetySpec => []TimersInv
<1>1. QED
  BY TimersInit, TimersStep, PTL DEF SafetySpec

(* Type correctness: deadlines, for one, stay within uint64_t.             *)
THEOREM TimersTypeCorrect == SafetySpec => []TypeOK
<1>1. TimersInv => TypeOK
  BY DEF TimersInv
<1>2. QED
  BY <1>1, TimersInvariance, PTL

(* uv_timer_start and uv__run_timers: no task runs before its deadline,    *)
(* for any timeout.  A deadline that was clamped never comes.              *)
THEOREM NeverBeforeDue == SafetySpec => []NotBeforeDue
<1>1. ASSUME TimersInv PROVE NotBeforeDue
  <2>1. SUFFICES ASSUME NEW c \in Timers, Fired(c)
                 PROVE  IF ask[c].kind = "at"
                        THEN firedAt[c] >= ask[c].timeout
                        ELSE firedAt[c] >= armedAt[c] + ask[c].timeout
    BY DEF NotBeforeDue
  <2>2. /\ Top \in Nat /\ MaxClock \in Nat /\ MaxClock < Top
        /\ due[c] \in 0..Top /\ armedAt[c] \in 0..MaxClock
        /\ firedAt[c] \in 0..MaxClock /\ ask[c].timeout \in 0..Top
    BY <1>1, WidthAssumption, ClockAssumption DEF TimersInv, TypeOK, Asks
  <2>3. IF ask[c].kind = "at" THEN due[c] >= ask[c].timeout
        ELSE due[c] = Top \/ due[c] >= armedAt[c] + ask[c].timeout
    BY <1>1, <2>1 DEF TimersInv, DueIsRight, Started
  <2>4. firedAt[c] >= due[c]
    BY <1>1, <2>1 DEF TimersInv, CollectedIsDue
  <2>5. QED
    BY <2>2, <2>3, <2>4
<1>2. QED
  BY <1>1, TimersInvariance, PTL

(* uv__run_timers: tasks begin in the order of timer_less_than.            *)
THEOREM FiresInOrder == SafetySpec => FiringOrder
<1> DEFINE Ordered ==
      \A c, d \in Timers :
        /\ state[c] = "ready" /\ state'[c] = "firing"
        /\ state[d] \in {"armed", "ready"} /\ d # c
        => \/ due[c] < due[d]
           \/ due[c] = due[d] /\ startId[c] < startId[d]
<1>1. ASSUME TimersInv, [Next]_vars PROVE [Ordered]_vars
  <2>1. SUFFICES ASSUME NEW c \in Timers, NEW d \in Timers,
                        state[c] = "ready", state'[c] = "firing",
                        state[d] \in {"armed", "ready"}, d # c
                 PROVE  TimerLess(c, d)
    BY DEF TimerLess
  <2>2. Fire
    BY <1>1, <2>1 DEF Next, LoopStep, Tick, Submit, PollJobs, PollTimeout,
       PollOther, TakeJob, JobsDone, RunClosing, UpdateTime, Collect,
       CollectEnd, TaskEnd, EnterPoll, vars, TimersInv, TypeOK
  <2>3. ready \in Seq(Timers) /\ ready # <<>> /\ Head(ready) = c
    BY <1>1, <2>1, <2>2 DEF Fire, TimersInv, TypeOK
  <2>4. CASE state[d] = "armed"
    BY <1>1, <2>1, <2>4 DEF TimersInv, ReadyInOrder
  <2>5. CASE state[d] = "ready"
    <3>1. PICK i \in 1..Len(ready) : ready[i] = d
      BY <1>1, <2>5 DEF TimersInv, QueuesMatch, Elements
    <3>2. 1 \in 1..Len(ready) /\ ready[1] = c /\ 1 < i
      BY <2>1, <2>3, <3>1
    <3>3. QED
      BY <1>1, <3>1, <3>2 DEF TimersInv, ReadyInOrder, InOrder
  <2>6. QED
    BY <2>1, <2>4, <2>5
<1>2. QED
  BY <1>1, TimersInvariance, PTL DEF SafetySpec, FiringOrder
=============================================================================
