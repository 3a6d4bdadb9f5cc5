------------------------------ MODULE UVFsEvents ------------------------------
(***************************************************************************)
(* Directories watched on macOS: fsevents.c, where a second thread runs a  *)
(* CFRunLoop for one FSEventStream over the paths of all handles.  The     *)
(* loop changes the list of handles and signals the thread, which makes a  *)
(* new stream of the list; a handle that is stopped waits for that on a    *)
(* semaphore.  A change is queued for the handles of its path, and an      *)
(* async handle of each takes it to the loop.                              *)
(*                                                                         *)
(* A section under a mutex is one step; only the thread holds one for      *)
(* longer, fsevent_mutex while it queues a change (Locked).  What it does  *)
(* between two sections with what no one else sees is part of the step     *)
(* before.  The thread is there from the start, memory does not run out,   *)
(* and paths are equal or have nothing in common.                          *)
(***************************************************************************)
EXTENDS Naturals, Sequences, FiniteSets

CONSTANTS Handles, Paths, None,
          MaxStarts, MaxChanges   \* bounds: of uv_fs_event_start, of changes

VARIABLES
  on,        \* uv__is_active
  realpath,  \* None where handle->cf_cb is NULL
  members,   \* state->fsevent_handles
  need,      \* state->fsevent_need_reschedule
  signals,   \* loop->cf_signals: "regular", "closing", or "end" for NULL
  source,    \* the run loop was told that there are some
  sem,       \* state->fsevent_sem
  stream,    \* the paths of state->fsevent_stream, {} where it is NULL
  failed,    \* the last attempt to make a stream failed
  cf,        \* where the thread is
  taken,     \* the signals it has taken
  todo,      \* the handles it has still to queue a change for
  pushed,    \* the one it has queued it for, and is to signal
  news,      \* that change: a path, or "error"
  cfEvents, cfError, sent,   \* of each handle; sent: cf_cb is signalled
  loopAt,    \* "user" code; "regular", "closing": about to signal; "wait",
             \* "join", "over"
  target,    \* the handle that is being closed
  call,      \* uv__fsevents_cb: [to, rest, err, in]; in: the callback runs
  again,     \* history: that handle was stopped and started in a callback
  starts, changes

loopVars == <<on, realpath, loopAt, target, call, again, starts>>
listVars == <<members, need>>
signalVars == <<signals, source, sem>>
streamVars == <<stream, failed, changes>>
pushVars == <<todo, pushed, news>>
queues == <<cfEvents, cfError, sent>>
vars == <<loopVars, listVars, signalVars, streamVars, cf, taken, pushVars,
          queues>>

NoCall == [to |-> None, rest |-> <<>>, err |-> FALSE, in |-> None]

Init == /\ on = [h \in Handles |-> FALSE]
        /\ realpath = [h \in Handles |-> None]
        /\ members = {} /\ need = FALSE
        /\ signals = <<>> /\ source = FALSE /\ sem = 0
        /\ stream = {} /\ failed = FALSE
        /\ cf = "idle" /\ taken = <<>> /\ todo = {} /\ pushed = None
        /\ news = None
        /\ cfEvents = [h \in Handles |-> <<>>]
        /\ cfError = [h \in Handles |-> FALSE]
        /\ sent = [h \in Handles |-> FALSE]
        /\ loopAt = "user" /\ target = None /\ call = NoCall
        /\ again = FALSE /\ starts = 0 /\ changes = 0

-----------------------------------------------------------------------------
(* The loop.                                                               *)

Locked == cf \in {"push", "send"}

UserCode == loopAt = "user" /\ (call = NoCall \/ call.in # None)

(* uv__cf_loop_signal.                                                     *)
Signal(type) == /\ signals' = Append(signals, type)
                /\ source' = TRUE

(* uv__fsevents_init: the handle is listed, and then the thread is told.   *)
Start(h, p) ==
  /\ UserCode /\ ~on[h] /\ starts < MaxStarts
  /\ ~Locked
  /\ on' = [on EXCEPT ![h] = TRUE]
  /\ realpath' = [realpath EXCEPT ![h] = p]
  /\ members' = members \cup {h} /\ need' = TRUE
  /\ loopAt' = "regular"
  /\ again' = (again \/ call.to = h)
  /\ starts' = starts + 1
  /\ UNCHANGED <<signalVars, streamVars, pushVars, queues, cf, taken, target,
                 call>>

Started == /\ loopAt = "regular"
           /\ Signal("regular")
           /\ loopAt' = "user"
           /\ UNCHANGED <<listVars, streamVars, pushVars, queues, on, realpath,
                          target, call, again, starts, cf, taken, sem>>

(* uv_fs_event_stop with uv__fsevents_close: the handle is taken off the   *)
(* list, the thread is told ...                                            *)
Stop(h) ==
  /\ UserCode /\ on[h]
  /\ ~Locked
  /\ on' = [on EXCEPT ![h] = FALSE]
  /\ members' = members \ {h} /\ need' = TRUE
  /\ loopAt' = "closing" /\ target' = h
  /\ UNCHANGED <<signalVars, streamVars, pushVars, queues, realpath, call,
                 again, starts, cf, taken>>

Closing == /\ loopAt = "closing"
           /\ Signal("closing")
           /\ loopAt' = "wait"
           /\ UNCHANGED <<listVars, streamVars, pushVars, queues, on, realpath,
                          target, call, again, starts, cf, taken, sem>>

(* ... and when it has answered, cf_cb is closed and the mutex destroyed.  *)
Stopped ==
  /\ loopAt = "wait" /\ sem > 0
  /\ sem' = sem - 1
  /\ realpath' = [realpath EXCEPT ![target] = None]
  /\ sent' = [sent EXCEPT ![target] = FALSE]
  /\ cfEvents' = [cfEvents EXCEPT ![target] = <<>>]
  /\ cfError' = [cfError EXCEPT ![target] = FALSE]
  /\ loopAt' = "user" /\ target' = None
  /\ UNCHANGED <<listVars, streamVars, pushVars, on, call, again, starts, cf,
                 taken, signals, source>>

(* uv__fsevents_cb: everything queued for a handle is taken off; what is   *)
(* told of it is told while the handle is active.                          *)
EventsCb(h) ==
  /\ loopAt = "user" /\ call = NoCall /\ sent[h]
  /\ call' = [to |-> h, rest |-> cfEvents[h], err |-> cfError[h], in |-> None]
  /\ cfEvents' = [cfEvents EXCEPT ![h] = <<>>]
  /\ cfError' = [cfError EXCEPT ![h] = FALSE]
  /\ sent' = [sent EXCEPT ![h] = FALSE]
  /\ again' = FALSE
  /\ UNCHANGED <<listVars, signalVars, streamVars, pushVars, on, realpath,
                 loopAt, target, starts, cf, taken>>

CallLoop ==
  /\ loopAt = "user" /\ call # NoCall /\ call.in = None
  /\ \/ /\ call.rest # <<>>
        /\ call' = [call EXCEPT !.rest = Tail(@),
                      !.in = IF on[call.to] THEN Head(call.rest) ELSE None]
     \/ /\ call.rest = <<>> /\ call.err /\ on[call.to]
        /\ call' = [call EXCEPT !.err = FALSE, !.in = "error"]
     \/ /\ call.rest = <<>> /\ ~(call.err /\ on[call.to])
        /\ call' = NoCall
  /\ UNCHANGED <<listVars, signalVars, streamVars, pushVars, queues, on,
                 realpath, loopAt, target, again, starts, cf, taken>>

Return ==
  /\ loopAt = "user" /\ call.in # None
  /\ call' = [call EXCEPT !.in = None]
  /\ UNCHANGED <<listVars, signalVars, streamVars, pushVars, queues, on,
                 realpath, loopAt, target, again, starts, cf, taken>>

(* uv__fsevents_loop_delete, when every handle is closed.                  *)
Delete == /\ loopAt = "user" /\ call = NoCall
          /\ \A h \in Handles : ~on[h]
          /\ Signal("end")
          /\ loopAt' = "join"
          /\ UNCHANGED <<listVars, streamVars, pushVars, queues, on, realpath,
                         target, call, again, starts, cf, taken, sem>>

Join == /\ loopAt = "join" /\ cf = "gone"
        /\ signals' = <<>>
        /\ loopAt' = "over"
        /\ UNCHANGED <<listVars, streamVars, pushVars, queues, on, realpath,
                       target, call, again, starts, cf, taken, source, sem>>

-----------------------------------------------------------------------------
(* The thread of the CFRunLoop.                                            *)

(* uv__cf_loop_cb takes all signals; behind the last of them the run loop  *)
(* goes on, or ends if one told it to.                                     *)
Take == /\ cf = "idle" /\ source
        /\ source' = FALSE
        /\ taken' = signals /\ signals' = <<>>
        /\ cf' = "perform"
        /\ UNCHANGED <<loopVars, listVars, streamVars, pushVars, queues, sem>>

TakenAll == /\ cf \in {"perform", "stopping"} /\ taken = <<>>
            /\ cf' = IF cf = "stopping" THEN "gone" ELSE "idle"
            /\ UNCHANGED <<loopVars, listVars, signalVars, streamVars,
                           pushVars, queues, taken>>

TakeEnd == /\ cf = "perform" /\ taken # <<>> /\ Head(taken) = "end"
           /\ cf' = "stopping" /\ taken' = Tail(taken)
           /\ UNCHANGED <<loopVars, listVars, signalVars, streamVars, pushVars,
                          queues>>

(* uv__fsevents_reschedule: nothing is to be done if an earlier signal has *)
(* seen the change of the list already ...                                 *)
Reschedule ==
  /\ cf = "perform" /\ taken # <<>> /\ Head(taken) # "end"
  /\ cf' = IF need THEN "rebuild" ELSE "final"
  /\ need' = FALSE
  /\ UNCHANGED <<loopVars, signalVars, streamVars, pushVars, queues, members,
                 taken>>

(* ... otherwise the stream is made again of what is listed by now, which  *)
(* may fail ...                                                            *)
Rebuild ==
  /\ cf = "rebuild"
  /\ failed' \in IF members = {} THEN {FALSE} ELSE BOOLEAN
  /\ stream' = IF failed' THEN {} ELSE {realpath[h] : h \in members}
  /\ cf' = IF failed' THEN "failed" ELSE "final"
  /\ UNCHANGED <<loopVars, listVars, signalVars, pushVars, queues, taken,
                 changes>>

(* ... and every handle is told of.                                        *)
TellError ==
  /\ cf = "failed"
  /\ todo' = members /\ news' = "error"
  /\ cf' = "push"
  /\ UNCHANGED <<loopVars, listVars, signalVars, streamVars, queues, taken,
                 pushed>>

(* Variant of Final: fsevent_need_reschedule is cleared when all is done.  *)
FinalClearsNeed ==
  /\ cf = "final"
  /\ sem' = sem + IF Head(taken) = "closing" THEN 1 ELSE 0
  /\ taken' = Tail(taken)
  /\ need' = FALSE
  /\ cf' = "perform"
  /\ UNCHANGED <<loopVars, streamVars, pushVars, queues, members, signals,
                 source>>

(* The one who waits for this signal may go on.                            *)
Final ==
  /\ cf = "final"
  /\ sem' = sem + IF Head(taken) = "closing" THEN 1 ELSE 0
  /\ taken' = Tail(taken)
  /\ cf' = "perform"
  /\ UNCHANGED <<loopVars, listVars, streamVars, pushVars, queues, signals,
                 source>>

(* uv__fsevents_event_cb: changes of a path in the stream.                 *)
Change(p) ==
  /\ cf = "idle" /\ p \in stream /\ changes < MaxChanges
  /\ todo' = {h \in members : realpath[h] = p} /\ news' = p
  /\ changes' = changes + 1
  /\ cf' = "push"
  /\ UNCHANGED <<loopVars, listVars, signalVars, queues, stream, failed, taken,
                 pushed>>

(* uv__fsevents_push_event: one or more events are queued, and the loop is *)
(* told.                                                                   *)
Push(h) ==
  /\ cf = "push" /\ h \in todo
  /\ IF news = "error"
     THEN cfError' = [cfError EXCEPT ![h] = TRUE] /\ UNCHANGED cfEvents
     ELSE /\ \E batch \in {<<news>>, <<news, news>>} :
               cfEvents' = [cfEvents EXCEPT ![h] = @ \o batch]
          /\ UNCHANGED cfError
  /\ cf' = "send" /\ pushed' = h
  /\ todo' = todo \ {h}
  /\ UNCHANGED <<loopVars, listVars, signalVars, streamVars, taken, news,
                 sent>>

Send == /\ cf = "send"
        /\ sent' = [sent EXCEPT ![pushed] = TRUE]
        /\ cf' = "push" /\ pushed' = None
        /\ UNCHANGED <<loopVars, listVars, signalVars, streamVars, taken, todo,
                       news, cfEvents, cfError>>

Told == /\ cf = "push" /\ todo = {}
        /\ cf' = IF news = "error" THEN "final" ELSE "idle"
        /\ news' = None
        /\ UNCHANGED <<loopVars, listVars, signalVars, streamVars, queues,
                       taken, todo, pushed>>

-----------------------------------------------------------------------------
LoopStep == \/ Started \/ Closing \/ Stopped \/ CallLoop \/ Return \/ Join
            \/ \E h \in Handles : EventsCb(h)

Thread == \/ Take \/ TakenAll \/ TakeEnd \/ Reschedule \/ Rebuild \/ TellError
          \/ Final \/ Send \/ Told \/ \E h \in Handles : Push(h)

Next == \/ LoopStep \/ Thread \/ Delete
        \/ \E h \in Handles : Stop(h) \/ \E p \in Paths : Start(h, p)
        \/ \E p \in Paths : Change(p)

(* The loop and the thread go on; nothing else has to happen.              *)
Spec == Init /\ [][Next]_vars /\ WF_vars(LoopStep) /\ WF_vars(Thread)

-----------------------------------------------------------------------------
(* Properties.                                                             *)

TypeOK == /\ on \in [Handles -> BOOLEAN]
          /\ realpath \in [Handles -> Paths \cup {None}]
          /\ members = {h \in Handles : on[h]}
          /\ stream \in SUBSET Paths /\ failed \in BOOLEAN
          /\ cf \in {"idle", "perform", "stopping", "gone", "rebuild", "failed",
                     "push", "send", "final"}
          /\ loopAt \in {"user", "regular", "closing", "wait", "join", "over"}
          /\ target \in Handles \cup {None}
          /\ call.to \in Handles \cup {None}

(* The thread queues changes for no handle whose mutex and async handle    *)
(* are gone.                                                               *)
NoUseAfterFree ==
  \A h \in todo \cup ({pushed} \ {None}) : realpath[h] # None

(* When every signal is taken and handled, the stream has the paths of the *)
(* listed handles, although one signal is skipped for another: or the last *)
(* attempt failed, and there is none.                                      *)
StreamCovers ==
  cf = "idle" /\ signals = <<>> /\ loopAt \notin {"regular", "closing"} =>
    stream = IF failed THEN {} ELSE {realpath[h] : h \in members}

(* The thread posts the semaphore once for every handle that waits: none   *)
(* goes on early, or waits for ever.                                       *)
OnePostEach ==
  LET Awaited(s) == Cardinality({k \in DOMAIN s : s[k] = "closing"})
  IN  sem + Awaited(signals) + Awaited(taken) =
        IF loopAt = "wait" THEN 1 ELSE 0

(* A callback is told of a change of the path its handle watches, with one *)
(* exception: what was queued before the callback stopped the handle and   *)
(* started it again is told to the new watch.                              *)
OwnChange ==
  call.in \in Paths /\ on[call.to] /\ ~again => realpath[call.to] = call.in

(* A handle that is being closed is closed, and the thread ends.           *)
CloseReturns ==
  loopAt \in {"wait", "join"} ~> loopAt \in {"user", "over"}

(* What is queued for a handle is told to it or thrown away.               *)
Reported(h) == cfEvents[h] # <<>> ~> cfEvents[h] = <<>>
=============================================================================
