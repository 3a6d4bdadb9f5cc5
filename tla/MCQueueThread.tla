----------------------------- MODULE MCQueueThread -----------------------------
(***************************************************************************)
(* The command queue under every use of it, and the execution thread with  *)
(* what must happen at last: they share no state here, and one run checks  *)
(* both.  A behaviour is one of the part it has chosen; the other rests in *)
(* its initial state.  The names of UVFIFOQueue are this module's own: here*)
(* three threads share three items.                                        *)
(***************************************************************************)
EXTENDS UVFIFOQueue

CONSTANTS t1, t2, t3, a, b, c,
          loop, owner, user, task1, stop1, stop2, NoCommand, NoThread

VARIABLES
  part,
  pending, busy, readable, handle, snd, owed, jobs, lock, place, cmd, joins,
  lp, cur, timer, stopFlag, cancelled, running, accepted

threadVars ==
  <<pending, busy, readable, handle, snd, owed, jobs, lock, place, cmd, joins,
    lp, cur, timer, stopFlag, cancelled, running, accepted>>
partsVars == <<part, vars, threadVars>>

(* Two threads that hold the thread object, a task and two stops.          *)
KindOf == [x \in {task1, stop1, stop2} |-> IF x = task1 THEN "task" ELSE "stop"]

Thread == INSTANCE UVExecutionThread
            WITH Threads <- {loop, owner, user}, Loop <- loop,
                 Controllers <- {}, Commands <- {task1, stop1, stop2},
                 Kind <- KindOf, EdgeTriggered <- TRUE, LoopJoins <- FALSE,
                 items <- jobs, at <- place

ASSUME QueueConstants == ConstantsOK

PartsInit == part \in {"queue", "thread"} /\ Init /\ Thread!Init

PartsNext == /\ \/ part = "queue" /\ Next /\ UNCHANGED threadVars
                \/ part = "thread" /\ Thread!Next /\ UNCHANGED vars
             /\ UNCHANGED part

(* The fairness of each part, for the behaviours that are its own.         *)
QueueFair == \A t \in {t1, t2, t3} :
  /\ WF_vars(part = "queue" /\ Resume(t))
  /\ WF_vars(part = "queue" /\ ReturnNil(t))

ThreadFair == /\ \A t \in {loop, owner, user} :
                   WF_threadVars(part = "thread" /\ Thread!ThreadStep(t))
              /\ WF_threadVars(part = "thread" /\ Thread!Start)
              /\ WF_threadVars(part = "thread" /\ Thread!LoopStep)

PartsSpec == PartsInit /\ [][PartsNext]_partsVars /\ QueueFair /\ ThreadFair

-----------------------------------------------------------------------------
(* What the queue keeps safe, QueueServes, is checked as it is; the rest is*)
(* stated in the modules of the parts.                                     *)

(* The thread takes commands as SerialExecutor promises.                   *)
ImplementsExecutor == Thread!ImplementsExecutor

(* A cancel ends the thread and a join returns; a wait for an item ends,   *)
(* with nil at a limit only, unless its signal went another way.           *)
StopsAtLast ==
  Thread!StopsAtLast /\ NilNeedsLimit /\ SleeperServed(t1)
=============================================================================
