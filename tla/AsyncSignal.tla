---------------------------- MODULE AsyncSignal ----------------------------
(***************************************************************************)
(* What uv_async_send promises to its callers, without the flags and the   *)
(* descriptor that implement it: a call made while the handle is open is   *)
(* followed by a run of the handle's callback that starts after the call.  *)
(* Calls coalesce: one run of the callback answers all the calls made      *)
(* before it.  Once the handle is shut nothing more is promised.           *)
(***************************************************************************)
CONSTANT Threads

VARIABLES owed,    \* the threads whose last call no callback run has answered
          shut     \* uv_close was called on the handle

vars == <<owed, shut>>

Init == /\ owed = {}
        /\ shut = FALSE

Call(t) == /\ owed' = owed \cup {t}
           /\ UNCHANGED shut

Answer == /\ ~shut
          /\ owed' = {}
          /\ UNCHANGED shut

Shut == /\ ~shut
        /\ shut' = TRUE
        /\ UNCHANGED owed

Next == \/ \E t \in Threads : Call(t)
        \/ Answer
        \/ Shut

(* A call that is owed a run gets one, or the handle is shut.              *)
Fairness == \A t \in Threads : WF_vars(t \in owed /\ Answer)

Spec == Init /\ [][Next]_vars /\ Fairness
=============================================================================
