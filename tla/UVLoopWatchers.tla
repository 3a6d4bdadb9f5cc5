--------------------------- MODULE UVLoopWatchers ---------------------------
(***************************************************************************)
(* Idle, prepare and check handles of libuv: a round moves all of them to  *)
(* a queue of its own and calls them one by one, while the callbacks start *)
(* and stop any of them.                                                   *)
(***************************************************************************)
EXTENDS Naturals, Sequences, FiniteSets
LOCAL INSTANCE SequencesExt

CONSTANTS Handles, None

VARIABLES
  queue,   \* loop->idle_handles
  moved,   \* the queue of the round
  calling, \* the handle that is called back, or None
  inRound,
  called,  \* history: called[h]: calls of h in this round, 2: many
  stayed   \* history: the handles active since the round began

vars == <<queue, moved, calling, inRound, called, stayed>>

Init == /\ queue = <<>> /\ moved = <<>>
        /\ calling = None /\ inRound = FALSE
        /\ called = [h \in Handles |-> 0] /\ stayed = {}

(* uv__is_active.                                                          *)
Active(h) == Contains(queue \o moved, h)
UserCode == ~inRound \/ calling # None

(* Variant of Started: to the end of the round.                            *)
StartedInRound(h) == IF inRound
                     THEN moved' = Append(moved, h) /\ UNCHANGED queue
                     ELSE queue' = <<h>> \o queue /\ UNCHANGED moved

Started(h) == queue' = <<h>> \o queue /\ UNCHANGED moved

Start(h) == /\ UserCode /\ ~Active(h)
            /\ Started(h)
            /\ UNCHANGED <<calling, inRound, called, stayed>>

(* A stop, or the stop of a close: out of the queue it is in.              *)
Stop(h) == /\ UserCode /\ Active(h)
           /\ queue' = Remove(queue, h) /\ moved' = Remove(moved, h)
           /\ stayed' = stayed \ {h}
           /\ UNCHANGED <<calling, inRound, called>>

RoundBegins == /\ ~inRound /\ inRound' = TRUE
               /\ moved' = queue /\ queue' = <<>>
               /\ called' = [h \in Handles |-> 0]
               /\ stayed' = Range(queue)
               /\ UNCHANGED calling

Requeued == queue' = Append(queue, Head(moved))

Call == /\ inRound /\ calling = None /\ moved # <<>>
        /\ Requeued
        /\ moved' = Tail(moved)
        /\ calling' = Head(moved)
        /\ called' = [called EXCEPT ![Head(moved)] = IF @ = 0 THEN 1 ELSE 2]
        /\ UNCHANGED <<inRound, stayed>>

Return == /\ calling # None /\ calling' = None
          /\ UNCHANGED <<queue, moved, inRound, called, stayed>>

RoundEnds == /\ inRound /\ calling = None /\ moved = <<>>
             /\ inRound' = FALSE
             /\ UNCHANGED <<queue, moved, calling, called, stayed>>

Loop == RoundBegins \/ Call \/ Return \/ RoundEnds
Next == Loop \/ \E h \in Handles : Start(h) \/ Stop(h)

(* Callbacks return and the loop goes on.                                  *)
Fairness == WF_vars(Call \/ RoundEnds) /\ WF_vars(Return)
Spec == Init /\ [][Next]_vars /\ Fairness

-----------------------------------------------------------------------------
(* Properties.                                                             *)

TypeOK == /\ queue \in Seq(Handles) /\ moved \in Seq(Handles)
          /\ IsInjective(queue \o moved)
          /\ calling \in Handles \cup {None}
          /\ inRound \in BOOLEAN
          /\ called \in [Handles -> 0..2]
          /\ stayed \subseteq Handles

(* In a round each handle is called at most once, and each that stays      *)
(* active is called or waits for it, whatever the callbacks start and stop *)
(* in the queue that is being walked.                                      *)
OncePerRound ==
  inRound => /\ \A h \in Handles : called[h] <= 1
             /\ \A h \in stayed : called[h] = 1 \/ Contains(moved, h)

(* A handle that is active is not lost with the queue of the round.        *)
StaysActive == \A h \in stayed : Active(h)

(* A round ends, although callbacks stop and start handles again and again.*)
RoundEndsAtLast == inRound ~> ~inRound
=============================================================================
