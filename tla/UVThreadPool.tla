---------------------------- MODULE UVThreadPool ----------------------------
(***************************************************************************)
(* The thread pool of libuv: work is queued by the loop thread, run by the *)
(* workers and handed back to the loop, which calls `done`.  At most half  *)
(* of the threads run slow work; the message Slow in the queue stands for  *)
(* all slow work that waits.                                               *)
(*                                                                         *)
(* The mutex of the pool and the mutex of the loop's queue are variables:  *)
(* uv_cancel holds both.  Each step of a worker that has the mutex of the  *)
(* pool is one iteration of its loop.  A wait ends with a signal only: that *)
(* it may end for no reason does not matter to a loop that tests again.    *)
(***************************************************************************)
EXTENDS Integers, Sequences, FiniteSets, SequencesExt

CONSTANTS Workers, Loop,   \* threads
          CpuWork, SlowWork,
          Slow, Exit,      \* run_slow_work_message, exit_message
          None,
          MaxCancels       \* bound: calls of uv_cancel

Work == CpuWork \cup SlowWork

ConstantsOK ==
  /\ IsFiniteSet(Workers) /\ MaxCancels \in Nat
  /\ Loop # None /\ {Loop, None} \cap Workers = {}
  /\ CpuWork \cap SlowWork = {} /\ None \notin Work
  /\ Slow # Exit /\ {Slow, Exit} \cap Work = {}

Threshold == (Cardinality(Workers) + 1) \div 2

VARIABLES
  wq,        \* the queue of the pool
  slowQ,     \* slow_io_pending_wq
  mutex,     \* who holds the mutex of the pool
  wqMutex,   \* who holds the mutex of the loop's queue
  worker,    \* worker[t]: "wants" the mutex, "has" it, "asleep", "signalled",
             \* "works", "handsOver", "gone"
  job,       \* job[t]: the work of t
  slowRunning,
  doneQ,     \* loop->wq
  local,     \* the work uv__work_done has taken and not called back yet
  sent,      \* uv_async_send was called and not answered
  field,     \* w->work: "none", "set", "null", "cancelled"
  loopAt,    \* "run": the loop, or a callback on it; "cancel" holds the
             \* mutex, "cancelled" is about to queue the request
  target,    \* the request uv_cancel was called for
  cancels,   \* number of calls of uv_cancel
  ran,       \* history: how often the work was run
  result     \* history: the calls of `done`

shared == <<wq, slowQ, mutex, slowRunning>>
handed == <<doneQ, wqMutex, sent>>
loopVars == <<local, loopAt, target, cancels, result>>
vars == <<shared, worker, job, handed, field, loopVars, ran>>

Init == /\ wq = <<>> /\ slowQ = <<>>
        /\ mutex = None /\ wqMutex = None
        /\ worker = [t \in Workers |-> "wants"]
        /\ job = [t \in Workers |-> None]
        /\ slowRunning = 0
        /\ doneQ = <<>> /\ local = <<>> /\ sent = FALSE
        /\ field = [w \in Work |-> "none"]
        /\ loopAt = "run" /\ target = None
        /\ cancels = 0
        /\ ran = [w \in Work |-> 0]
        /\ result = [w \in Work |-> <<>>]

At(place) == {t \in Workers : worker[t] = place}

(* uv__queue_remove, if x is in q at all.                                  *)
Drop(q, x) == IF Contains(q, x)
              THEN RemoveAt(q, CHOOSE i \in DOMAIN q : q[i] = x) ELSE q

(* idle_threads > 0: uv_cond_signal, which reaches one that is asleep.     *)
Signal == IF At("asleep") = {} THEN UNCHANGED worker
          ELSE \E t \in At("asleep") : worker' = [worker EXCEPT ![t] = "signalled"]

-----------------------------------------------------------------------------
(* The loop thread.                                                        *)

Shut == Contains(wq, Exit) \/ At("gone") # {}

Post(q) == wq' = Append(wq, q) /\ Signal

(* uv__work_submit and post: one message stands for all slow work.         *)
Submit(w) ==
  /\ loopAt = "run" /\ ~Shut /\ mutex = None
  /\ field[w] = "none"
  /\ field' = [field EXCEPT ![w] = "set"]
  /\ IF w \in SlowWork
     THEN /\ slowQ' = Append(slowQ, w)
          /\ IF Contains(wq, Slow) THEN UNCHANGED <<wq, worker>> ELSE Post(Slow)
     ELSE Post(w) /\ UNCHANGED slowQ
  /\ UNCHANGED <<mutex, slowRunning, job, handed, loopVars, ran>>

(* uv__threadpool_cleanup, after which nothing is submitted; it then joins *)
(* the threads.                                                            *)
Cleanup ==
  /\ loopAt = "run" /\ ~Shut /\ mutex = None /\ local = <<>>
  /\ Post(Exit)
  /\ UNCHANGED <<slowQ, mutex, slowRunning, job, handed, field, loopVars, ran>>

(* uv__work_cancel: the mutex of the pool, then that of the loop's queue.  *)
(* w->wq is not empty while it is in a queue: of the pool, of the loop, or *)
(* the one uv__work_done took.  After `done` a request is not cancelled.   *)
Cancel(w) ==
  /\ loopAt = "run" /\ ~Shut /\ mutex = None
  /\ cancels < MaxCancels /\ field[w] # "none" /\ result[w] = <<>>
  /\ cancels' = cancels + 1
  /\ mutex' = Loop /\ loopAt' = "cancel" /\ target' = w
  /\ UNCHANGED <<wq, slowQ, slowRunning, worker, job, handed, field, local,
                 result, ran>>

Queued(w) == \E q \in {wq, slowQ, doneQ, local} : Contains(q, w)

(* Variant of CancelDecides: w->work is not looked at.                     *)
CancelDecidesBlindly ==
  /\ loopAt = "cancel" /\ wqMutex = None
  /\ IF Queued(target)
     THEN /\ wq' = Drop(wq, target) /\ slowQ' = Drop(slowQ, target)
          /\ doneQ' = Drop(doneQ, target) /\ local' = Drop(local, target)
          /\ loopAt' = "cancelled"
     ELSE /\ loopAt' = "run"
          /\ UNCHANGED <<wq, slowQ, doneQ, local>>
  /\ mutex' = None
  /\ UNCHANGED <<slowRunning, worker, job, wqMutex, sent, field, target,
                 cancels, result, ran>>

CancelDecides ==
  /\ loopAt = "cancel" /\ wqMutex = None
  /\ IF Queued(target) /\ field[target] # "null"
     THEN /\ wq' = Drop(wq, target) /\ slowQ' = Drop(slowQ, target)
          /\ doneQ' = Drop(doneQ, target) /\ local' = Drop(local, target)
          /\ loopAt' = "cancelled"
     ELSE /\ loopAt' = "run"
          /\ UNCHANGED <<wq, slowQ, doneQ, local>>
  /\ mutex' = None
  /\ UNCHANGED <<slowRunning, worker, job, wqMutex, sent, field, target,
                 cancels, result, ran>>

CancelQueues ==
  /\ loopAt = "cancelled" /\ wqMutex = None
  /\ field' = [field EXCEPT ![target] = "cancelled"]
  /\ doneQ' = Append(doneQ, target)
  /\ sent' = TRUE
  /\ loopAt' = "run"
  /\ UNCHANGED <<shared, worker, job, wqMutex, local, target, cancels, result,
                 ran>>

(* uv__work_done takes what is there ...                                   *)
WorkDone ==
  /\ loopAt = "run" /\ sent /\ local = <<>> /\ wqMutex = None
  /\ sent' = FALSE
  /\ local' = doneQ /\ doneQ' = <<>>
  /\ UNCHANGED <<shared, worker, job, wqMutex, field, loopAt, target, cancels,
                 result, ran>>

(* ... and calls back one by one.                                          *)
CallDone ==
  /\ loopAt = "run" /\ local # <<>>
  /\ LET w == Head(local)
     IN  result' = [result EXCEPT ![w] = Append(@,
           IF field[w] = "cancelled" THEN "ECANCELED" ELSE "ok")]
  /\ local' = Tail(local)
  /\ UNCHANGED <<shared, worker, job, handed, field, loopAt, target, cancels,
                 ran>>

LoopStep == CancelDecides \/ CancelQueues \/ WorkDone \/ CallDone
UserStep == \/ \E w \in Work : Submit(w) \/ Cancel(w)
            \/ Cleanup

-----------------------------------------------------------------------------
(* A worker.                                                               *)

Lock(t) ==
  /\ worker[t] \in {"wants", "signalled"} /\ mutex = None
  /\ mutex' = t
  /\ worker' = [worker EXCEPT ![t] = "has"]
  /\ UNCHANGED <<wq, slowQ, slowRunning, job, handed, field, loopVars, ran>>

AtThreshold == slowRunning >= Threshold

Waits == wq = <<>> \/ (wq = <<Slow>> /\ AtThreshold)

Sleep(t) ==
  /\ worker[t] = "has" /\ Waits
  /\ worker' = [worker EXCEPT ![t] = "asleep"]
  /\ mutex' = None
  /\ UNCHANGED <<wq, slowQ, slowRunning, job, handed, field, loopVars, ran>>

Begin(t, w) == /\ job' = [job EXCEPT ![t] = w]
               /\ mutex' = None

(* The exit message stays in the queue for the next worker.                *)
Leave(t) ==
  /\ worker[t] = "has" /\ ~Waits /\ Head(wq) = Exit
  /\ \/ /\ At("asleep") = {} /\ worker' = [worker EXCEPT ![t] = "gone"]
     \/ \E u \in At("asleep") :
          worker' = [worker EXCEPT ![t] = "gone", ![u] = "signalled"]
  /\ mutex' = None
  /\ UNCHANGED <<wq, slowQ, slowRunning, job, handed, field, loopVars, ran>>

TakeCpu(t) ==
  /\ worker[t] = "has" /\ ~Waits /\ Head(wq) \in CpuWork
  /\ wq' = Tail(wq)
  /\ Begin(t, Head(wq))
  /\ worker' = [worker EXCEPT ![t] = "works"]
  /\ UNCHANGED <<slowQ, slowRunning, handed, field, loopVars, ran>>

(* Slow work goes behind everything else while enough of it runs ...       *)
Postpone(t) ==
  /\ worker[t] = "has" /\ ~Waits /\ Head(wq) = Slow /\ AtThreshold
  /\ wq' = Append(Tail(wq), Slow)
  /\ UNCHANGED <<slowQ, mutex, slowRunning, worker, job, handed, field,
                 loopVars, ran>>

(* ... is nothing if it was cancelled ...                                  *)
TakeNothing(t) ==
  /\ worker[t] = "has" /\ ~Waits /\ Head(wq) = Slow /\ ~AtThreshold
  /\ slowQ = <<>>
  /\ wq' = Tail(wq)
  /\ UNCHANGED <<slowQ, mutex, slowRunning, worker, job, handed, field,
                 loopVars, ran>>

(* ... and announces what is left of it.                                   *)
TakeSlow(t) ==
  /\ worker[t] = "has" /\ ~Waits /\ Head(wq) = Slow /\ ~AtThreshold
  /\ slowQ # <<>>
  /\ slowRunning' = slowRunning + 1
  /\ slowQ' = Tail(slowQ)
  /\ IF Tail(slowQ) = <<>>
     THEN wq' = Tail(wq) /\ worker' = [worker EXCEPT ![t] = "works"]
     ELSE /\ wq' = Append(Tail(wq), Slow)
          /\ IF At("asleep") = {}
             THEN worker' = [worker EXCEPT ![t] = "works"]
             ELSE \E u \in At("asleep") :
                    worker' = [worker EXCEPT ![t] = "works", ![u] = "signalled"]
  /\ Begin(t, Head(slowQ))
  /\ UNCHANGED <<handed, field, loopVars, ran>>

(* The work is done without a mutex ...                                    *)
Run(t) ==
  /\ worker[t] = "works" /\ wqMutex = None
  /\ ran' = [ran EXCEPT ![job[t]] = @ + 1]
  /\ wqMutex' = t
  /\ worker' = [worker EXCEPT ![t] = "handsOver"]
  /\ UNCHANGED <<shared, job, doneQ, sent, field, loopVars>>

(* ... is handed over under the mutex of the loop ...                      *)
HandOver(t) ==
  /\ worker[t] = "handsOver"
  /\ field' = [field EXCEPT ![job[t]] = "null"]
  /\ doneQ' = Append(doneQ, job[t])
  /\ sent' = TRUE
  /\ wqMutex' = None
  /\ worker' = [worker EXCEPT ![t] = "handedOver"]
  /\ UNCHANGED <<shared, job, loopVars, ran>>

(* ... and only with the mutex of the pool again is it counted.             *)
Relock(t) ==
  /\ worker[t] = "handedOver" /\ mutex = None
  /\ mutex' = t
  /\ worker' = [worker EXCEPT ![t] = "has"]
  /\ slowRunning' = slowRunning - (IF job[t] \in SlowWork THEN 1 ELSE 0)
  /\ job' = [job EXCEPT ![t] = None]
  /\ UNCHANGED <<wq, slowQ, handed, field, loopVars, ran>>

WorkerStep(t) ==
  \/ Lock(t) \/ Sleep(t) \/ Leave(t) \/ TakeCpu(t) \/ Postpone(t)
  \/ TakeNothing(t) \/ TakeSlow(t) \/ Run(t) \/ HandOver(t) \/ Relock(t)

Next == UserStep \/ LoopStep \/ \E t \in Workers : WorkerStep(t)

(* Threads go on where a mutex lets them, and work ends.                   *)
Fairness == WF_vars(LoopStep) /\ \A t \in Workers : WF_vars(WorkerStep(t))

Spec == Init /\ [][Next]_vars /\ Fairness

-----------------------------------------------------------------------------
(* Properties.                                                             *)

TypeOK == /\ wq \in Seq(CpuWork \cup {Slow, Exit}) /\ slowQ \in Seq(SlowWork)
          /\ mutex \in Workers \cup {Loop, None}
          /\ wqMutex \in Workers \cup {None}
          /\ worker \in [Workers -> {"wants", "has", "asleep", "signalled",
                                     "works", "handsOver", "handedOver",
                                     "gone"}]
          /\ job \in [Workers -> Work \cup {None}]
          /\ slowRunning \in Nat
          /\ doneQ \in Seq(Work) /\ local \in Seq(Work) /\ sent \in BOOLEAN
          /\ field \in [Work -> {"none", "set", "null", "cancelled"}]
          /\ loopAt \in {"run", "cancel", "cancelled"}
          /\ target \in Work \cup {None}
          /\ cancels \in 0..MaxCancels
          /\ ran \in [Work -> 0..1]
          /\ result \in [Work -> Seq({"ok", "ECANCELED"})]

(* Neither a message nor a request is in the queues twice.                 *)
QueuedOnce == IsInjective(wq) /\ IsInjective(slowQ \o doneQ \o local)

(* A request is answered once, with success if and only if its work was    *)
(* run, however uv_cancel falls between the steps of a worker, is called   *)
(* again for a request it has cancelled, or from the callback of another   *)
(* request taken together with it.                                         *)
DoneOnce == \A w \in Work :
  result[w] # <<>> => result[w] = IF ran[w] = 0 THEN <<"ECANCELED">> ELSE <<"ok">>

(* Slow work never takes more than half of the threads, so that other work *)
(* goes on.                                                                *)
SlowIsLimited == Cardinality({t \in Workers : job[t] \in SlowWork}) <= Threshold

(* A worker sleeps beside work it may run only while another is awake to   *)
(* take it.                                                                *)
NoIdleWorker ==
  mutex = None /\ At("asleep") # {} /\ ~Waits
    => At("signalled") \cup At("wants") \cup At("handedOver") # {}

(* A request of the pool is answered once, with what became of it, slow    *)
(* work takes half of the threads at most, and no thread sleeps beside     *)
(* work that nobody is awake to take.                                      *)
PoolAnswers == TypeOK /\ QueuedOnce /\ DoneOnce /\ SlowIsLimited /\ NoIdleWorker

(* Every request is answered, unless the pool is shut down before: none is *)
(* left behind by a message that stands for several, by a cancellation, or *)
(* by two mutexes that are taken in different orders.                      *)
WorkAnswered(w) == field[w] # "none" ~> result[w] # <<>> \/ Shut

(* The threads end, so that uv__threadpool_cleanup returns.                *)
CleanupEnds == Contains(wq, Exit) ~> At("gone") = Workers
=============================================================================
