----------------------------- MODULE UVBarrier -----------------------------
(***************************************************************************)
(* The barrier of libuv where the system has none: a mutex, a condition    *)
(* and two counters.  Threshold threads wait for each other, again and     *)
(* again; one of them is told that it was the last to leave.  Threads may  *)
(* come for the next round while others have not left the last one, and    *)
(* one may destroy the barrier at once when it has passed it.              *)
(*                                                                         *)
(* What happens with the mutex is one action, up to a wait.                *)
(***************************************************************************)
EXTENDS Naturals, FiniteSets

CONSTANTS Parties,    \* the threads
          Threshold,  \* how many of them make a round
          MaxRounds   \* bound: calls of uv_barrier_wait by a thread

VARIABLES
  in, out,    \* b->in, b->out
  place,      \* place[t]: "outside", "full" and "inside" are waits, "destroys"
  notified,   \* the threads the condition has woken
  freed,      \* the barrier is gone, or will be: no further calls
  calls,      \* calls[t]: the calls of uv_barrier_wait
  arrived,    \* history: how many went in ...
  left,       \* ... and came out ...
  told        \* ... as the last

vars == <<in, out, place, notified, freed, calls, arrived, left, told>>

Init == /\ in = 0 /\ out = 0
        /\ place = [t \in Parties |-> "outside"]
        /\ notified = {} /\ freed = "no"
        /\ calls = [t \in Parties |-> 0]
        /\ arrived = 0 /\ left = 0 /\ told = 0

Waiting == {t \in Parties : place[t] # "outside"}

(* Thread t comes out, of n that are still in ...                          *)
Leave(t, n) == /\ out' = n - 1
               /\ left' = left + 1
               /\ told' = IF n = 1 THEN told + 1 ELSE told
               /\ place' = [place EXCEPT ![t] = "outside"]

(* ... and wakes all who wait, or nobody.                                  *)
Tell(t, all) == notified' = IF all THEN Waiting \ {t} ELSE notified \ {t}

(* The last round is not over.                                             *)
MustWait == out # 0

(* uv_barrier_wait, with the mutex: wait for the round before to end, or   *)
(* go in; the one that makes the round complete comes out at once.         *)
Enter(t) ==
  IF MustWait
  THEN /\ place' = [place EXCEPT ![t] = "full"]
       /\ notified' = notified \ {t}
       /\ UNCHANGED <<in, out, arrived, left, told>>
  ELSE /\ arrived' = arrived + 1
       /\ IF in + 1 = Threshold
          THEN /\ in' = 0
               /\ Leave(t, Threshold)
               /\ Tell(t, TRUE)
          ELSE /\ in' = in + 1
               /\ place' = [place EXCEPT ![t] = "inside"]
               /\ notified' = notified \ {t}
               /\ UNCHANGED <<out, left, told>>

Wait(t) ==
  /\ place[t] = "outside" /\ freed = "no" /\ calls[t] < MaxRounds
  /\ calls' = [calls EXCEPT ![t] = @ + 1]
  /\ Enter(t)
  /\ UNCHANGED freed

TryAgain(t) == /\ place[t] = "full" /\ t \in notified
               /\ Enter(t)
               /\ UNCHANGED <<freed, calls>>

(* Variant of ComeOut: without the second look.                            *)
ComeOutAtOnce(t) ==
  /\ place[t] = "inside" /\ t \in notified
  /\ Leave(t, out)
  /\ Tell(t, out = 1)
  /\ UNCHANGED <<in, freed, calls, arrived>>

ComeOut(t) ==
  /\ place[t] = "inside" /\ t \in notified
  /\ IF in = 0
     THEN Leave(t, out) /\ Tell(t, out = 1)
     ELSE /\ notified' = notified \ {t}
          /\ UNCHANGED <<out, left, told, place>>
  /\ UNCHANGED <<in, freed, calls, arrived>>

(* A wait may end for no reason.                                           *)
Spurious(t) == /\ t \in Waiting \ notified
               /\ notified' = notified \cup {t}
               /\ UNCHANGED <<in, out, place, freed, calls, arrived, left, told>>

(* uv_barrier_destroy, by a thread that knows that nobody will come and    *)
(* nobody waits for a round: it waits for those still inside.              *)
MayDestroy(t) == /\ place[t] = "outside" /\ freed = "no"
                 /\ in = 0 /\ \A u \in Parties : place[u] # "full"

Destroy(t) ==
  /\ MayDestroy(t)
  /\ IF out = 0 THEN freed' = "yes" /\ UNCHANGED place
     ELSE freed' = "soon" /\ place' = [place EXCEPT ![t] = "destroys"]
  /\ UNCHANGED <<notified, in, out, calls, arrived, left, told>>

DestroyAgain(t) ==
  /\ place[t] = "destroys" /\ t \in notified
  /\ notified' = notified \ {t}
  /\ IF out = 0
     THEN freed' = "yes" /\ place' = [place EXCEPT ![t] = "outside"]
     ELSE UNCHANGED <<freed, place>>
  /\ UNCHANGED <<in, out, calls, arrived, left, told>>

Step(t) == TryAgain(t) \/ ComeOut(t) \/ DestroyAgain(t)

Next == \E t \in Parties : Wait(t) \/ Step(t) \/ Spurious(t) \/ Destroy(t)

(* A thread that was woken gets the mutex.                                 *)
Fairness == \A t \in Parties : WF_vars(Step(t))

Spec == Init /\ [][Next]_vars /\ Fairness

-----------------------------------------------------------------------------
(* Properties.                                                             *)

(* in and out are never both in use: there is one round at a time.         *)
TypeOK == /\ in \in 0..Threshold - 1 /\ out \in 0..Threshold - 1
          /\ in = 0 \/ out = 0
          /\ place \in [Parties -> {"outside", "full", "inside", "destroys"}]
          /\ notified \subseteq Waiting /\ freed \in {"no", "soon", "yes"}
          /\ calls \in [Parties -> 0..MaxRounds]
          /\ arrived \in Nat /\ left \in Nat /\ told \in Nat

(* Nobody leaves before the threads of his round have come ...             *)
LeaveTogether == left <= Threshold * (arrived \div Threshold)

(* ... and of each round one is told that it was the last.                 *)
OneIsLast == told = left \div Threshold

(* Nobody touches a barrier that was destroyed.                            *)
DestroyedIsEmpty == freed = "yes" => Waiting = {}

(* A round that is complete ends for all, so that those who came too early *)
(* and the one who destroys the barrier go on.                             *)
NeverStuck(t) ==
  place[t] \in {"full", "destroys"} ~> place[t] \in {"inside", "outside"}
=============================================================================
