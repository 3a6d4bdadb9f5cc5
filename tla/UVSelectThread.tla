---------------------------- MODULE UVSelectThread ----------------------------
(***************************************************************************)
(* Streams that kqueue does not take, on macOS: a thread waits in select   *)
(* for the descriptor, and for a socket pair with which the loop makes it  *)
(* look again at what the stream asks for.  What select finds goes to the  *)
(* loop through stream->select->events and an async handle, and the thread *)
(* waits on a semaphore until the loop has read and written.               *)
(*                                                                         *)
(* A read takes all there is, and nobody else reads from the descriptor.   *)
(* For kqueue the stream is its end of the socket pair, which is always    *)
(* writable: a stream that wants to write is called by the poll as well.   *)
(***************************************************************************)
EXTENDS Naturals

Asked == {"IN", "OUT"}

VARIABLES
  asked,     \* io_watcher.pevents
  ready,     \* what the descriptor is ready for
  poked,     \* there are bytes in the socket pair
  events,    \* s->events
  async,     \* s->async is signalled
  asyncSem, closeSem,
  at,        \* where the thread is
  watched,   \* the sets of the thread: what it gives to select ...
  found,     \* ... and what it gets
  loopAt,    \* "run"; "in", "read", "out", "wrote", "end" of the callback of
             \* the async handle; "polled": called by the poll
  got,       \* the events that callback has taken
  owed,      \* the stream asks for something else, and is to poke the thread
  leave,     \* "open"; "close", "async", "poke", "join", "gone" of
             \* uv__stream_close
  dry        \* history: a read found nothing

loopVars == <<loopAt, got, owed, leave, asked>>
threadVars == <<at, watched, found>>
semaphores == <<asyncSem, closeSem>>
toLoop == <<events, async>>
vars == <<loopVars, threadVars, semaphores, toLoop, ready, poked, dry>>

Init == /\ asked = {} /\ ready = {}
        /\ poked = FALSE /\ events = {} /\ async = FALSE
        /\ asyncSem = 0 /\ closeSem = 0
        /\ at = "check" /\ watched = {} /\ found = {}
        /\ loopAt = "run" /\ got = {} /\ owed = FALSE
        /\ leave = "open" /\ dry = FALSE

(* The descriptor: data comes, or room for more.                           *)
Ready(e) == /\ e \notin ready
            /\ ready' = ready \cup {e}
            /\ UNCHANGED <<loopVars, threadVars, semaphores, toLoop, poked,
                           dry>>

-----------------------------------------------------------------------------
(* The loop.                                                               *)

UserCode == /\ loopAt \in {"run", "read", "wrote", "polled"}
            /\ ~owed /\ leave = "open"

(* Variant of Ask: the thread is not interrupted.                          *)
AskSilent(e) ==
  /\ UserCode /\ e \notin asked
  /\ asked' = asked \cup {e}
  /\ UNCHANGED <<threadVars, semaphores, toLoop, loopAt, got, owed, leave,
                 ready, poked, dry>>

(* uv__io_start and uv__io_stop, by uv_read_start, uv_write and others ... *)
Ask(e) ==
  /\ UserCode /\ e \notin asked
  /\ asked' = asked \cup {e} /\ owed' = TRUE
  /\ UNCHANGED <<threadVars, semaphores, toLoop, loopAt, got, leave, ready,
                 poked, dry>>

Unask(e) ==
  /\ UserCode /\ e \in asked
  /\ asked' = asked \ {e} /\ owed' = TRUE
  /\ UNCHANGED <<threadVars, semaphores, toLoop, loopAt, got, leave, ready,
                 poked, dry>>

(* ... and uv__stream_osx_interrupt_select behind them.                    *)
Poke == /\ owed
        /\ owed' = FALSE /\ poked' = TRUE
        /\ UNCHANGED <<threadVars, semaphores, toLoop, loopAt, got, leave,
                       asked, ready, dry>>

(* uv__stream_osx_select_cb takes the events, reads and writes, each if    *)
(* the stream still wants it, and lets the thread go on.                   *)
Callback ==
  /\ loopAt = "run" /\ ~owed /\ leave \in {"open", "gone"} /\ async
  /\ async' = FALSE
  /\ got' = events /\ events' = {}
  /\ loopAt' = IF events = {} THEN "abort" ELSE "in"
  /\ UNCHANGED <<threadVars, semaphores, owed, leave, asked, ready, poked,
                 dry>>

In == /\ loopAt = "in"
      /\ IF "IN" \in got \cap asked
         THEN /\ loopAt' = "read"
              /\ ready' = ready \ {"IN"}
              /\ dry' = (dry \/ "IN" \notin ready)
         ELSE loopAt' = "out" /\ UNCHANGED <<ready, dry>>
      /\ UNCHANGED <<threadVars, semaphores, toLoop, got, owed, leave, asked,
                     poked>>

Writes(then) == /\ loopAt' = then
                /\ ready' \in {ready, ready \ {"OUT"}}
                /\ UNCHANGED <<threadVars, semaphores, toLoop, got, owed,
                               leave, asked, poked, dry>>

Out == /\ loopAt = "out"
       /\ IF "OUT" \in got \cap asked THEN Writes("wrote")
          ELSE /\ loopAt' = "end"
               /\ UNCHANGED <<threadVars, semaphores, toLoop, got, owed, leave,
                              asked, ready, poked, dry>>

PollOut == /\ loopAt = "run" /\ ~owed /\ leave = "open"
           /\ "OUT" \in asked
           /\ Writes("polled")

UserReturns ==
  /\ loopAt \in {"read", "wrote", "polled"}
  /\ ~owed /\ leave \in {"open", "gone"}
  /\ loopAt' = CASE loopAt = "read" -> "out"
                 [] loopAt = "wrote" -> "end"
                 [] loopAt = "polled" -> "run"
  /\ UNCHANGED <<threadVars, semaphores, toLoop, got, owed, leave, asked,
                 ready, poked, dry>>

End == /\ loopAt = "end"
       /\ asyncSem' = asyncSem + IF leave = "open" THEN 1 ELSE 0
       /\ loopAt' = "run" /\ got' = {}
       /\ UNCHANGED <<threadVars, toLoop, owed, leave, asked, ready, poked,
                      closeSem, dry>>

(* uv__stream_close: the thread is told to end and let go on, interrupted  *)
(* and waited for; then the async handle and the watcher are closed.       *)
Close == /\ UserCode
         /\ leave' = "close"
         /\ UNCHANGED <<threadVars, semaphores, toLoop, loopAt, got, owed,
                        asked, ready, poked, dry>>

CloseStep ==
  /\ \/ leave = "close" /\ leave' = "async" /\ closeSem' = closeSem + 1
        /\ UNCHANGED <<asyncSem, poked>>
     \/ leave = "async" /\ leave' = "poke" /\ asyncSem' = asyncSem + 1
        /\ UNCHANGED <<closeSem, poked>>
     \/ leave = "poke" /\ leave' = "join" /\ poked' = TRUE
        /\ UNCHANGED semaphores
  /\ UNCHANGED <<threadVars, toLoop, loopAt, got, owed, asked, ready, dry>>

Join == /\ leave = "join" /\ at = "gone"
        /\ leave' = "gone"
        /\ async' = FALSE /\ asked' = {}
        /\ UNCHANGED <<threadVars, semaphores, loopAt, got, owed, ready, poked,
                       events, dry>>

-----------------------------------------------------------------------------
(* uv__stream_osx_select, the thread.                                      *)

Check == /\ at = "check"
         /\ IF closeSem > 0
            THEN closeSem' = closeSem - 1 /\ at' = "gone"
            ELSE at' = "set" /\ UNCHANGED closeSem
         /\ UNCHANGED <<loopVars, toLoop, watched, found, ready, poked,
                        asyncSem, dry>>

Set == /\ at = "set"
       /\ watched' = asked
       /\ at' = "select"
       /\ UNCHANGED <<loopVars, semaphores, toLoop, found, ready, poked, dry>>

Select == /\ at = "select"
          /\ poked \/ watched \cap ready # {}
          /\ found' = watched \cap ready
          /\ at' = IF poked THEN "drain" ELSE "tell"
          /\ UNCHANGED <<loopVars, semaphores, toLoop, watched, ready, poked,
                         dry>>

Drain == /\ at = "drain"
         /\ poked' = FALSE
         /\ at' = "tell"
         /\ UNCHANGED <<loopVars, semaphores, toLoop, watched, found, ready,
                        dry>>

Tell == /\ at = "tell"
        /\ IF found = {} THEN at' = "check" /\ UNCHANGED events
           ELSE at' = "send" /\ events' = found
        /\ UNCHANGED <<loopVars, semaphores, watched, found, ready, poked,
                       async, dry>>

Send == /\ at = "send"
        /\ async' = TRUE
        /\ at' = "wait"
        /\ UNCHANGED <<loopVars, semaphores, watched, found, ready, poked,
                       events, dry>>

Wait == /\ at = "wait" /\ asyncSem > 0
        /\ asyncSem' = asyncSem - 1
        /\ at' = IF events = {} \/ leave # "open" THEN "check" ELSE "abort"
        /\ UNCHANGED <<loopVars, toLoop, watched, found, ready, poked,
                       closeSem, dry>>

-----------------------------------------------------------------------------
LoopStep == Poke \/ In \/ Out \/ End \/ CloseStep \/ Join

Thread == Check \/ Set \/ Select \/ Drain \/ Tell \/ Send \/ Wait

Next == \/ LoopStep \/ Callback \/ UserReturns \/ Thread \/ PollOut \/ Close
        \/ \E e \in Asked : Ready(e) \/ Ask(e) \/ Unask(e)

(* The loop and the thread go on; callbacks return, whatever they do       *)
(* before, and the poll calls the async handle, whatever it calls before.  *)
Spec == Init /\ [][Next]_vars
        /\ WF_vars(LoopStep) /\ WF_vars(Thread)
        /\ SF_vars(Callback) /\ SF_vars(UserReturns)

-----------------------------------------------------------------------------
(* Properties.                                                             *)

TypeOK == /\ asked \subseteq Asked /\ ready \subseteq Asked
          /\ events \subseteq Asked /\ got \subseteq Asked
          /\ found \subseteq Asked /\ watched \subseteq Asked
          /\ asyncSem \in 0..2 /\ closeSem \in 0..1
          /\ leave \in {"open", "close", "async", "poke", "join", "gone"}

(* The assertions of both sides hold (stream.c:228 and 246): the loop is   *)
(* called for events, and has taken them before the thread goes on.        *)
NeverAborts == at # "abort" /\ loopAt # "abort"

(* The loop reads only when there is something to read: the thread does    *)
(* not ask select again before the loop has read (the NOTE at              *)
(* stream.c:259).                                                          *)
NeverDry == ~dry

(* The thread signals no async handle that was closed.                     *)
SignalsOpenHandle == leave = "gone" => at = "gone" /\ ~async

(* Data the stream wants to read is read, unless the stream changes its    *)
(* mind or is closed.                                                      *)
Wants == "IN" \in asked /\ "IN" \in ready /\ leave = "open"
DataIsRead == Wants ~> ~Wants

(* uv__stream_close comes back from its join.                              *)
CloseReturns == leave = "close" ~> leave = "gone"
=============================================================================
