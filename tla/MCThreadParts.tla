---------------------------- MODULE MCThreadParts ----------------------------
(***************************************************************************)
(* Parts that several threads use, each on its own: they share no state,   *)
(* and one run checks them all.  A behaviour is one of the part it has     *)
(* chosen; the others rest in their initial states.  The names of UVAsync  *)
(* are this module's own: here three threads wake a loop through a pipe.   *)
(***************************************************************************)
EXTENDS UVAsync, Sequences

CONSTANTS t1, t2, t3, cpu, slow1, slow2, None, Loop, Slow, Exit

VARIABLES
  part,
  wq, slowQ, mutex, slowRunning, worker, job, doneQ, wqMutex, sent, field,
  local, loopAt, target, cancels, result, ran,
  in, out, place, notified, freed, calls, arrived, left, told,
  value, sleeping, woken, posts, passed, piled

poolVars ==
  <<wq, slowQ, mutex, slowRunning, worker, job, doneQ, wqMutex, sent, field,
    local, loopAt, target, cancels, result, ran>>
barrierVars == <<in, out, place, notified, freed, calls, arrived, left, told>>
semaphoreVars == <<value, sleeping, woken, posts, passed, piled>>

(* Two workers, of which one may do slow work, two slow requests and       *)
(* another one.                                                            *)
Pool == INSTANCE UVThreadPool
          WITH Workers <- {t1, t2}, CpuWork <- {cpu},
               SlowWork <- {slow1, slow2}, MaxCancels <- 2

ASSUME PoolConstants == Pool!ConstantsOK

(* Rounds of two for three threads, two calls each.                        *)
Barrier == INSTANCE UVBarrier
             WITH Parties <- {t1, t2, t3}, Threshold <- 2, MaxRounds <- 2

(* Three users of a semaphore, and three posts.                            *)
Semaphore == INSTANCE UVSemaphore
               WITH Users <- {t1, t2, t3}, MaxPosts <- 3

PartsInit ==
  /\ part \in {"async", "pool", "barrier", "semaphore"}
  /\ Init /\ Pool!Init /\ Barrier!Init /\ Semaphore!Init

AsyncRests == UNCHANGED vars
PoolRests == UNCHANGED poolVars
BarrierRests == UNCHANGED barrierVars
SemaphoreRests == UNCHANGED semaphoreVars

PartsNext ==
  /\ \/ part = "async" /\ Next
        /\ PoolRests /\ BarrierRests /\ SemaphoreRests
     \/ part = "pool" /\ Pool!Next
        /\ AsyncRests /\ BarrierRests /\ SemaphoreRests
     \/ part = "barrier" /\ Barrier!Next
        /\ AsyncRests /\ PoolRests /\ SemaphoreRests
     \/ part = "semaphore" /\ Semaphore!Next
        /\ AsyncRests /\ PoolRests /\ BarrierRests
  /\ UNCHANGED part

partsVars == <<part, vars, poolVars, barrierVars, semaphoreVars>>

(* The fairness of each part, for the behaviours that are its own.         *)
AsyncFair ==
  /\ \A t \in {t1, t2, t3} : WF_vars(part = "async" /\ SendStep(t))
  /\ WF_vars(part = "async" /\ EnterPoll)
  /\ WF_vars(part = "async" /\ Wakeup)
  /\ WF_vars(part = "async" /\ Drain)
  /\ WF_vars(part = "async" /\ Exchange)
  /\ WF_vars(part = "async" /\ SpinDone)
  /\ WF_vars(part = "async" /\ CallbackReturn)
  /\ WF_vars(part = "async" /\ FinishClose)

PoolFair == /\ WF_poolVars(part = "pool" /\ Pool!LoopStep)
            /\ \A t \in {t1, t2} :
                 WF_poolVars(part = "pool" /\ Pool!WorkerStep(t))

BarrierFair == \A t \in {t1, t2, t3} :
  WF_barrierVars(part = "barrier" /\ Barrier!Step(t))

PartsSpec ==
  PartsInit /\ [][PartsNext]_partsVars /\ AsyncFair /\ PoolFair /\ BarrierFair

-----------------------------------------------------------------------------
(* The promises of the parts: the conjuncts are stated in their modules.   *)
(* Threads are alike: one of them stands for all in what must happen at    *)
(* last; the requests of the pool are of two kinds.  What the wakeup keeps *)
(* safe, AsyncSafe, is checked as it is.                                   *)

(* A request of the pool is answered once, slow work takes half of the     *)
(* threads at most, and no worker sleeps beside work it could do.          *)
PoolAnswers == Pool!PoolAnswers

(* What thread.c puts together where the system has no barrier, or none    *)
(* of its semaphores, holds: threads pass the barrier together, one is told*)
(* that it was the last, and may destroy it, and the others get out before;*)
(* as many pass the semaphore as were let in, and who is left asleep was   *)
(* passed over by two posts in a row.                                      *)
PrimitivesHold ==
  /\ Barrier!TypeOK /\ Barrier!LeaveTogether /\ Barrier!OneIsLast
  /\ Barrier!DestroyedIsEmpty
  /\ Semaphore!TypeOK /\ Semaphore!OnePostOnePass
  /\ Semaphore!LeftAsleepByPile

(* Nobody waits for ever: not for the callback of an async that was sent   *)
(* to, nor does its close for a sender; not for the answer to a request of *)
(* the pool, nor for its threads to leave, nor at the barrier when as many *)
(* as it wants are there.                                                  *)
EveryoneServed ==
  /\ AsyncAnswers
  /\ Pool!WorkAnswered(cpu) /\ Pool!WorkAnswered(slow1) /\ Pool!CleanupEnds
  /\ Barrier!NeverStuck(t1)
=============================================================================
