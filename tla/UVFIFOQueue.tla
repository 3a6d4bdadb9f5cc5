---------------------------- MODULE UVFIFOQueue ----------------------------
(***************************************************************************)
(* UVFIFOQueue: a deque under an NSCondition, with every operation it has. *)
(* UVExecutionThread uses enqueue and dequeue; waitForNextItem, with and   *)
(* without a limit, is for threads that have no loop.                      *)
(*                                                                         *)
(* The lock is held from the beginning of an operation to its end or to    *)
(* the wait, so what lies between is one action.  A wait may end without a *)
(* signal, other threads may come between the signal and the moment the    *)
(* waiter holds the lock again, and a wait that ends at its limit may have *)
(* consumed a signal (POSIX allows it for pthread_cond_timedwait).         *)
(***************************************************************************)
EXTENDS Naturals, Sequences, FiniteSets

CONSTANTS Threads,   \* finitely many
          Elements   \* each is enqueued once

ConstantsOK == IsFiniteSet(Threads)

VARIABLES
  items,   \* the deque
  at,      \* at[t]: "out", "asleep" in wait, "awake": signalled,
           \* "roused" without a signal, "late": the limit was reached
  limited, \* the threads whose wait has a limit
  added,   \* history: the elements in the order of enqueue ...
  taken,   \* ... and in the order they were returned
  spent    \* history: a wait ended at its limit, and a signal with it

vars == <<items, at, limited, added, taken, spent>>

Init == /\ items = <<>>
        /\ at = [t \in Threads |-> "out"]
        /\ limited = {}
        /\ added = <<>> /\ taken = <<>> /\ spent = FALSE

In(state) == {t \in Threads : at[t] = state}

(* Variant of Enqueue: a signal only for the first item.                   *)
EnqueueSignalsFirst(t, x) ==
  /\ at[t] = "out" /\ \A k \in 1..Len(added) : added[k] # x
  /\ items' = Append(items, x) /\ added' = Append(added, x)
  /\ IF In("asleep") = {} \/ items # <<>> THEN UNCHANGED at
     ELSE \E w \in In("asleep") : at' = [at EXCEPT ![w] = "awake"]
  /\ UNCHANGED <<limited, taken, spent>>

Enqueue(t, x) ==
  /\ at[t] = "out" /\ \A k \in 1..Len(added) : added[k] # x
  /\ items' = Append(items, x) /\ added' = Append(added, x)
  /\ IF In("asleep") = {} THEN UNCHANGED at
     ELSE \E w \in In("asleep") : at' = [at EXCEPT ![w] = "awake"]
  /\ UNCHANGED <<limited, taken, spent>>

(* Variant of RemoveFirst: the newest.                                     *)
RemoveLast == /\ taken' = Append(taken, items[Len(items)])
              /\ items' = SubSeq(items, 1, Len(items) - 1)

RemoveFirst == /\ taken' = Append(taken, Head(items))
               /\ items' = Tail(items)

(* dequeue, which returns nil when there is nothing.                       *)
Dequeue(t) ==
  /\ at[t] = "out" /\ items # <<>>
  /\ RemoveFirst
  /\ UNCHANGED <<at, limited, added, spent>>

(* waitForNextItem finds an item, or goes to sleep.                        *)
WaitForNextItem(t) ==
  /\ at[t] = "out"
  /\ IF items # <<>>
     THEN RemoveFirst /\ UNCHANGED <<at, limited>>
     ELSE /\ at' = [at EXCEPT ![t] = "asleep"]
          /\ limited' \in {limited \cup {t}, limited \ {t}}
          /\ UNCHANGED <<items, taken>>
  /\ UNCHANGED <<added, spent>>

(* A wait may return for no reason.                                        *)
Spurious(t) == /\ at[t] = "asleep"
               /\ at' = [at EXCEPT ![t] = "roused"]
               /\ UNCHANGED <<items, limited, added, taken, spent>>

(* The waiter holds the lock again and looks again.                        *)
Resume(t) ==
  /\ at[t] \in {"awake", "roused"}
  /\ IF items # <<>>
     THEN RemoveFirst /\ at' = [at EXCEPT ![t] = "out"]
     ELSE at' = [at EXCEPT ![t] = "asleep"] /\ UNCHANGED <<items, taken>>
  /\ UNCHANGED <<limited, added, spent>>

(* The limit is reached, before or together with a signal; the waiter      *)
(* returns nil without another look.                                       *)
Expire(t) == /\ at[t] \in {"asleep", "awake", "roused"} /\ t \in limited
             /\ at' = [at EXCEPT ![t] = "late"]
             /\ spent' = (spent \/ at[t] = "awake")
             /\ UNCHANGED <<items, limited, added, taken>>

ReturnNil(t) == /\ at[t] = "late"
                /\ at' = [at EXCEPT ![t] = "out"]
                /\ UNCHANGED <<items, limited, added, taken, spent>>

Next == \E t \in Threads :
          \/ \E x \in Elements : Enqueue(t, x)
          \/ Dequeue(t) \/ WaitForNextItem(t)
          \/ Spurious(t) \/ Resume(t) \/ Expire(t) \/ ReturnNil(t)

(* A thread that was woken gets the lock.  Nobody has to call anything.    *)
Fairness == \A t \in Threads : WF_vars(Resume(t)) /\ WF_vars(ReturnNil(t))

Spec == Init /\ [][Next]_vars /\ Fairness

-----------------------------------------------------------------------------
(* Properties.                                                             *)

TypeOK == /\ items \in Seq(Elements)
          /\ at \in [Threads -> {"out", "asleep", "awake", "roused", "late"}]
          /\ In("late") \subseteq limited /\ limited \subseteq Threads
          /\ added \in Seq(Elements) /\ taken \in Seq(Elements)
          /\ spent \in BOOLEAN

(* Items leave in the order they came, each once, whoever takes them:      *)
(* neither a wait that runs into its limit at the moment of a signal nor a *)
(* dequeue that overtakes a waiter loses or doubles one.                   *)
FirstInFirstOut == taken \o items = added

(* No item waits unnoticed: while anyone sleeps, as many are on their way  *)
(* to the queue as there are items.  A signal that was overtaken is not    *)
(* missed; one that a wait at its limit has taken with it may be.          *)
NoLostWakeup ==
  In("asleep") # {} /\ Len(items) > Cardinality(In("awake")) => spent

(* Items leave in the order in which they came, once, and nobody sleeps    *)
(* beside one.                                                             *)
QueueServes == TypeOK /\ FirstInFirstOut /\ NoLostWakeup

(* Only a limit makes waitForNextItem return without an item.              *)
NilNeedsLimit ==
  [][\A t \in Threads : at[t] # "out" /\ at'[t] = "out" =>
       t \in limited \/ taken' # taken]_vars

(* Nobody sleeps for ever beside an item, unless a signal went that way.   *)
SleeperServed(t) ==
  at[t] = "asleep" /\ items # <<>>
    ~> at[t] # "asleep" \/ items = <<>> \/ spent
=============================================================================
