---------------------------- MODULE UVSemaphore ----------------------------
(***************************************************************************)
(* The semaphore libuv builds from a mutex and a condition variable where  *)
(* that of the C library cannot be used (unix/thread.c: glibc before 2.21, *)
(* z/OS).  What a thread does between lock and unlock is one step.         *)
(***************************************************************************)
EXTENDS Naturals, FiniteSets

CONSTANTS Users,
          MaxPosts  \* bound: calls of uv_sem_post

VARIABLES
  value,     \* sem->value
  sleeping,  \* the threads in uv_cond_wait
  woken,     \* the threads that were woken, and have to look at the value
  posts,     \* the number of calls of uv_sem_post
  passed,    \* the number of waits and tries that took one
  piled      \* history: a post found a value that others had not taken
             \* yet, when threads had gone to sleep before it

vars == <<value, sleeping, woken, posts, passed, piled>>

Waiting == sleeping \cup woken

Init == /\ value = 0 /\ sleeping = {} /\ woken = {}
        /\ posts = 0 /\ passed = 0 /\ piled = FALSE

-----------------------------------------------------------------------------
(* uv_cond_signal wakes one of the threads that sleep, if there is one.    *)
Signal ==
  IF sleeping = {}
  THEN UNCHANGED <<sleeping, woken>>
  ELSE \E t \in sleeping : /\ sleeping' = sleeping \ {t}
                           /\ woken' = woken \cup {t}

(* uv__custom_sem_post: it signals when the value becomes 1.               *)
Post(t) ==
  /\ t \notin Waiting /\ posts < MaxPosts
  /\ posts' = posts + 1 /\ value' = value + 1
  /\ IF value = 0 THEN Signal ELSE UNCHANGED <<sleeping, woken>>
  /\ piled' = (piled \/ (value > 0 /\ Waiting # {}))
  /\ UNCHANGED passed

(* uv__custom_sem_wait, and uv__custom_sem_trywait when it finds one.      *)
Take(t) ==
  /\ t \notin sleeping /\ value > 0
  /\ value' = value - 1 /\ passed' = passed + 1
  /\ woken' = woken \ {t}
  /\ UNCHANGED <<sleeping, posts, piled>>

Sleep(t) ==
  /\ t \notin sleeping /\ value = 0
  /\ sleeping' = sleeping \cup {t} /\ woken' = woken \ {t}
  /\ UNCHANGED <<value, posts, passed, piled>>

(* uv_cond_wait may return without a signal.                               *)
Spurious(t) ==
  /\ t \in sleeping
  /\ sleeping' = sleeping \ {t} /\ woken' = woken \cup {t}
  /\ UNCHANGED <<value, posts, passed, piled>>

(* The loop of uv__custom_sem_wait.                                        *)
GoOn(t) == t \in woken /\ (Take(t) \/ Sleep(t))

Wait(t) == t \notin Waiting /\ (Take(t) \/ Sleep(t))

Next == \E t \in Users : Post(t) \/ Wait(t) \/ GoOn(t) \/ Spurious(t)

Spec == Init /\ [][Next]_vars

-----------------------------------------------------------------------------
(* Properties.                                                             *)

TypeOK == /\ value \in Nat /\ posts \in 0..MaxPosts /\ passed \in Nat
          /\ sleeping \subseteq Users /\ woken \subseteq Users
          /\ sleeping \cap woken = {}
          /\ piled \in BOOLEAN

(* Every post lets one pass, whoever was woken meanwhile and for whatever. *)
OnePostOnePass == passed + value = posts

(* A post that finds a value signals nobody.  So a thread may be left      *)
(* asleep beside a value, with nobody awake to take it, but only when two  *)
(* posts came before the thread that the first had woken got the mutex.    *)
LeftAsleepByPile == value > 0 /\ sleeping # {} /\ woken = {} => piled
=============================================================================
