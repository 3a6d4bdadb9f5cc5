---------------------------- MODULE StreamWrites ----------------------------
(***************************************************************************)
(* What a stream promises to those who write to it: the callback of each   *)
(* accepted write is called once, the callbacks come in the order of the   *)
(* writes, nothing is accepted once the stream is closing, and the close   *)
(* callback comes after all of them.                                       *)
(***************************************************************************)
EXTENDS Naturals, Sequences

CONSTANT Requests

VARIABLES
  pending,   \* the accepted writes whose callbacks are owed, in order
  state      \* "open", "closing", "closed": the last from the moment the
             \* close callback is called

vars == <<pending, state>>

Init == pending = <<>> /\ state = "open"

Accept == /\ state = "open"
          /\ \E r \in Requests : pending' = Append(pending, r)
          /\ UNCHANGED state

BeginClose == state = "open" /\ state' = "closing"

(* The callbacks of the oldest writes, one or several; the last of them    *)
(* may be what closes the stream.                                          *)
Answer == /\ \E k \in 1..Len(pending) :
               pending' = SubSeq(pending, k + 1, Len(pending))
          /\ UNCHANGED state \/ BeginClose

EndClose == /\ state = "closing"
            /\ pending = <<>>
            /\ state' = "closed"
            /\ UNCHANGED pending

Next == Accept \/ Answer \/ (BeginClose /\ UNCHANGED pending) \/ EndClose

(* A close sees the remaining callbacks through.                           *)
Fairness == WF_vars(state = "closing" /\ (Answer \/ EndClose))

SafetySpec == Init /\ [][Next]_vars
Spec == SafetySpec /\ Fairness
=============================================================================
