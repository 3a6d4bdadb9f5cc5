----------------------------- MODULE UVSignals -----------------------------
(***************************************************************************)
(* Signal handles of libuv: the handler of a signal runs on any thread,    *)
(* looks for the handles that watch the signal and writes a message for    *)
(* each into a pipe of the loop, which calls back.  A lock, itself a pipe, *)
(* protects the tree of handles; the loop blocks signals while it has it.  *)
(*                                                                         *)
(* The section under the lock is one action for the loop, and one action   *)
(* for each message and each count of the handler: the loop reads the pipe *)
(* in between.  caught_signals - dispatched_signals is one variable.       *)
(***************************************************************************)
EXTENDS Integers, Sequences, FiniteSets
LOCAL INSTANCE SequencesExt

CONSTANTS Handles, Sigs, None,
          PipeSize,   \* messages the pipe of the loop takes
          BufSize,    \* 32 messages are read at once
          MaxSignals  \* bound: the signals that come

VARIABLES
  signum,   \* handle->signum, or None
  oneshot,  \* the handles with UV_SIGNAL_ONE_SHOT, which is never cleared
  life,     \* life[h]: "open", "closing", "closed"
  came,     \* the number of signals that came
  action,   \* action[s]: "default", "handler", "once": SA_RESETHAND
  arrived,  \* the signals whose handler waits for the lock
  handler,  \* the handler that has the lock: [sig, todo, wrote]
  trapped,  \* trapped[h]: caught_signals - dispatched_signals
  pipe,     \* loop->signal_pipefd: messages [sig, handle]
  buf,      \* the messages uv__signal_event has read
  full,     \* the buffer was full: it reads again
  at,       \* the loop: "run", "event", "callback", "dispatched", "start"
  request   \* the start that has stopped its handle: [handle, sig, once]

tree == <<signum, oneshot, action>>
kernel == <<arrived, handler, came>>
messages == <<trapped, pipe, buf, full>>
vars == <<tree, kernel, messages, life, at, request>>

NoHandler == [sig |-> None, todo |-> <<>>, wrote |-> FALSE]
NoRequest == [handle |-> None, sig |-> None, once |-> FALSE]

Init == /\ signum = [h \in Handles |-> None]
        /\ oneshot = {}
        /\ life = [h \in Handles |-> "open"]
        /\ action = [s \in Sigs |-> "default"]
        /\ came = 0 /\ arrived = {} /\ handler = NoHandler
        /\ trapped = [h \in Handles |-> 0]
        /\ pipe = <<>> /\ buf = <<>> /\ full = FALSE
        /\ at = "run" /\ request = NoRequest

Unlocked == handler.sig = None

(* The handles in the tree for s; the first is one-shot only if all are.   *)
Watching(s) == {h \in Handles : signum[h] = s}
FirstIsOneShot(some) == some \subseteq oneshot

-----------------------------------------------------------------------------
(* Signals.                                                                *)

(* A signal comes that has a handler, on some thread.                      *)
Deliver(s) == /\ action[s] # "default" /\ s \notin arrived
              /\ came < MaxSignals /\ came' = came + 1
              /\ action' = [action EXCEPT ![s] = IF @ = "once" THEN "default"
                                                 ELSE @]
              /\ arrived' = arrived \cup {s}
              /\ UNCHANGED <<signum, oneshot, handler, messages, life, at,
                             request>>

(* uv__signal_handler: the lock, ...                                       *)
HandlerLock(s) ==
  /\ s \in arrived /\ Unlocked
  /\ arrived' = arrived \ {s}
  /\ handler' = IF Watching(s) = {} THEN NoHandler
                ELSE [sig |-> s, todo |-> SetToSeq(Watching(s)),
                      wrote |-> FALSE]
  /\ UNCHANGED <<tree, came, messages, life, at, request>>

(* ... a message, if the pipe takes it, ...                                *)
HandlerWrite ==
  /\ ~Unlocked /\ ~handler.wrote
  /\ IF Len(pipe) < PipeSize
     THEN /\ pipe' = Append(pipe, [sig |-> handler.sig,
                                   handle |-> Head(handler.todo)])
          /\ handler' = [handler EXCEPT !.wrote = TRUE]
     ELSE /\ handler' = IF Len(handler.todo) = 1 THEN NoHandler
                        ELSE [handler EXCEPT !.todo = Tail(@)]
          /\ UNCHANGED pipe
  /\ UNCHANGED <<tree, came, arrived, trapped, buf, full, life, at, request>>

(* ... which is then counted; the next handle, or the end of the lock.     *)
HandlerCount ==
  /\ handler.wrote
  /\ trapped' = [trapped EXCEPT ![Head(handler.todo)] = @ + 1]
  /\ handler' = IF Len(handler.todo) = 1 THEN NoHandler
                ELSE [handler EXCEPT !.todo = Tail(@), !.wrote = FALSE]
  /\ UNCHANGED <<tree, came, arrived, pipe, buf, full, life, at, request>>

Handler == HandlerWrite \/ HandlerCount \/ \E s \in Sigs : HandlerLock(s)

-----------------------------------------------------------------------------
(* The loop: calls of the user.                                            *)

(* uv__signal_stop of a handle that watches: the handler of the signal is  *)
(* removed with the last handle, and becomes one-shot with the last        *)
(* regular one.                                                            *)
Removed(h) ==
  LET s == signum[h]
      rest == Watching(s) \ {h}
  IN  /\ signum' = [signum EXCEPT ![h] = None]
      /\ action' = [action EXCEPT ![s] =
           IF rest = {} THEN "default"
           ELSE IF FirstIsOneShot(rest) /\ h \notin oneshot THEN "once"
           ELSE @]

Stopped(h) == /\ IF signum[h] = None THEN UNCHANGED <<signum, action>>
                 ELSE Unlocked /\ Removed(h)
              /\ UNCHANGED oneshot

UserCode == at \in {"run", "callback"}

Stop(h) == /\ UserCode /\ life[h] = "open" /\ signum[h] # None
           /\ Stopped(h)
           /\ UNCHANGED <<kernel, messages, life, at, request>>

(* uv_close.                                                               *)
Close(h) == /\ UserCode /\ life[h] = "open"
            /\ Stopped(h)
            /\ life' = [life EXCEPT ![h] = "closing"]
            /\ UNCHANGED <<kernel, messages, at, request>>

(* The rest of uv__signal_start, under the lock.                           *)
Insert(h, s, once) ==
  /\ signum' = [signum EXCEPT ![h] = s]
  /\ oneshot' = IF once THEN oneshot \cup {h} ELSE oneshot
  /\ action' = IF \/ Watching(s) = {}
                  \/ ~once /\ FirstIsOneShot(Watching(s))
               THEN [action EXCEPT ![s] = IF once THEN "once" ELSE "handler"]
               ELSE action

(* uv__signal_start: a handle that watches this signal is left as it is;   *)
(* one that watches another is stopped first, under a lock of its own.     *)
Start(h, s, once) ==
  /\ UserCode /\ life[h] = "open" /\ signum[h] = None /\ Unlocked
  /\ Insert(h, s, once)
  /\ UNCHANGED <<kernel, messages, life, at, request>>

StartOther(h, s, once) ==
  /\ at = "run" /\ life[h] = "open" /\ signum[h] \notin {None, s}
  /\ Stopped(h)
  /\ request' = [handle |-> h, sig |-> s, once |-> once]
  /\ at' = "start"
  /\ UNCHANGED <<kernel, messages, life>>

StartGoesOn ==
  /\ at = "start" /\ Unlocked
  /\ Insert(request.handle, request.sig, request.once)
  /\ request' = NoRequest
  /\ at' = "run"
  /\ UNCHANGED <<kernel, messages, life>>

User == \E h \in Handles :
          \/ Stop(h) \/ Close(h)
          \/ \E s \in Sigs, once \in BOOLEAN :
               Start(h, s, once) \/ StartOther(h, s, once)

-----------------------------------------------------------------------------
(* The loop: uv__signal_event and the closing of handles.                  *)

ReadPipe ==
  /\ \/ at = "run"
     \/ at = "event" /\ buf = <<>> /\ full
  /\ pipe # <<>>
  /\ LET n == IF Len(pipe) < BufSize THEN Len(pipe) ELSE BufSize
     IN  /\ buf' = SubSeq(pipe, 1, n)
         /\ pipe' = SubSeq(pipe, n + 1, Len(pipe))
         /\ full' = (n = BufSize)
  /\ at' = "event"
  /\ UNCHANGED <<tree, kernel, trapped, life, request>>

EventDone == /\ at = "event" /\ buf = <<>>
             /\ ~full \/ pipe = <<>>
             /\ at' = "run"
             /\ UNCHANGED <<tree, kernel, messages, life, request>>

(* A message of a handle that watches the signal still is called back ...  *)
Ours == Head(buf).sig = signum[Head(buf).handle]

CallBack == /\ at = "event" /\ buf # <<>> /\ Ours
            /\ at' = "callback"
            /\ UNCHANGED <<tree, kernel, messages, life, request>>

CallBackReturns == /\ at = "callback"
                   /\ at' = "dispatched"
                   /\ UNCHANGED <<tree, kernel, messages, life, request>>

(* Variant of Dispatched: only what was called back is counted.            *)
DispatchedOurs ==
  LET h == Head(buf).handle
  IN  /\ trapped' = [trapped EXCEPT ![h] = IF at = "event" THEN @ ELSE @ - 1]
      /\ IF h \in oneshot THEN Stopped(h) ELSE UNCHANGED tree

(* ... and counted; a one-shot handle is stopped.                          *)
Dispatched ==
  LET h == Head(buf).handle
  IN  /\ trapped' = [trapped EXCEPT ![h] = @ - 1]
      /\ IF h \in oneshot THEN Stopped(h) ELSE UNCHANGED tree

Dispatch ==
  /\ \/ at = "dispatched"
     \/ at = "event" /\ buf # <<>> /\ ~Ours
  /\ Dispatched
  /\ buf' = Tail(buf)
  /\ at' = "event"
  /\ UNCHANGED <<kernel, pipe, full, life, request>>

(* uv__finish_close puts the handle back while messages are on their way.  *)
Finished(h) == trapped[h] <= 0

FinishClose(h) == /\ at = "run" /\ life[h] = "closing"
                  /\ Finished(h)
                  /\ life' = [life EXCEPT ![h] = "closed"]
                  /\ UNCHANGED <<tree, kernel, messages, at, request>>

LoopStep == \/ StartGoesOn \/ EventDone \/ Dispatch \/ ReadPipe
            \/ CallBack \/ CallBackReturns
            \/ \E h \in Handles : FinishClose(h)

Next == User \/ LoopStep \/ Handler \/ \E s \in Sigs : Deliver(s)

Spec == Init /\ [][Next]_vars

-----------------------------------------------------------------------------
(* Properties.                                                             *)

Message == [sig : Sigs, handle : Handles]

TypeOK == /\ signum \in [Handles -> Sigs \cup {None}]
          /\ oneshot \subseteq Handles
          /\ life \in [Handles -> {"open", "closing", "closed"}]
          /\ \A h \in Handles : life[h] # "open" => signum[h] = None
          /\ action \in [Sigs -> {"default", "handler", "once"}]
          /\ arrived \subseteq Sigs /\ came \in 0..MaxSignals
          /\ handler.todo \in Seq(Handles)
          /\ pipe \in Seq(Message) /\ buf \in Seq(Message)
          /\ \A h \in Handles : trapped[h] \in -1..PipeSize + BufSize
          /\ full \in BOOLEAN
          /\ at \in {"run", "event", "callback", "dispatched", "start"}

(* No message of a handle that was closed, and so may be freed, is in the  *)
(* pipe, and no handler is about to count one: though the handler counts   *)
(* after it has written, and the loop may have answered before.            *)
ClosedIsForgotten ==
  \A h \in Handles : life[h] = "closed" =>
    /\ \A m \in Range(pipe) \cup Range(buf) : m.handle # h
    /\ \A k \in DOMAIN handler.todo : handler.todo[k] # h

(* While a regular handle watches a signal its handler stays, and is not   *)
(* the kind that is reset, whatever one-shot handles come and go; nothing  *)
(* is handled for nobody.                                                  *)
HandlersFit ==
  \A s \in Sigs : /\ Watching(s) \ oneshot # {} => action[s] = "handler"
                  /\ Watching(s) = {} => action[s] = "default"

(* caught_signals - dispatched_signals is the number of messages of the    *)
(* handle, but for one that is written and not counted yet: so a closing   *)
(* handle is held back while a message is on its way and never longer,     *)
(* whoever the message is for by then.                                     *)
MessagesOf(h, q) == Cardinality({k \in DOMAIN q : q[k].handle = h})
Uncounted(h) == IF handler.wrote /\ Head(handler.todo) = h THEN 1 ELSE 0

CaughtIsExact ==
  \A h \in Handles :
    trapped[h] + Uncounted(h) = MessagesOf(h, pipe) + MessagesOf(h, buf)
=============================================================================
