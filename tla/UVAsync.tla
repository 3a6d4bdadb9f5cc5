------------------------------ MODULE UVAsync ------------------------------
(***************************************************************************)
(* The wakeup protocol of libuv's uv_async_t (unix/async.c), through which *)
(* swift-uv hands work to an event loop: any thread calls uv_async_send,   *)
(* the loop thread polls, clears the pending flag and runs the callback,   *)
(* and the callback may close the handle.                                  *)
(*                                                                         *)
(* The threads of this module run on different processors: every atomic    *)
(* access of the C code is a step of its own.                              *)
(***************************************************************************)
EXTENDS Naturals, FiniteSets

CONSTANTS Threads,        \* the threads that call uv_async_send
          EdgeTriggered   \* TRUE: eventfd with EPOLLET, never read (Linux);
                          \* FALSE: a pipe the loop reads until it is empty

ASSUME ThreadsFinite == IsFiniteSet(Threads)
ASSUME EdgeIsBoolean == EdgeTriggered \in BOOLEAN

VARIABLES pending,   \* handle->pending
          busy,      \* handle->u.fd, the number of threads inside the send
          readable,  \* the descriptor has an event for the loop's next poll
          handle,    \* life of the uv_async_t
          snd,       \* snd[t]: the next access of t inside uv_async_send
          io,        \* where the loop thread is with respect to the handle
          owed       \* history: threads whose send no callback run followed

vars == <<pending, busy, readable, handle, snd, io, owed>>

SendSteps == {"idle", "load", "inc", "xchg", "write", "dec"}

(* "away" stands for everything the loop does outside the poll, the        *)
(* watcher's callback uv__async_io and the handle's own callback.          *)
IoSteps == {"away", "poll", "drain", "xchg", "cb", "spin"}

(* "closing": uv_close set UV_HANDLE_CLOSING and spins in uv__async_spin.  *)
(* "removed": off loop->async_handles, in loop->closing_handles.           *)
HandleStates == {"open", "closing", "removed", "closed"}

(* The threads that busy counts.                                           *)
Inside == {t \in Threads : snd[t] \in {"xchg", "write", "dec"}}

TypeOK == /\ pending \in {0, 1}
          /\ busy \in Nat
          /\ readable \in BOOLEAN
          /\ handle \in HandleStates
          /\ snd \in [Threads -> SendSteps]
          /\ io \in IoSteps
          /\ owed \in SUBSET Threads

Init == /\ pending = 0
        /\ busy = 0
        /\ readable = FALSE
        /\ handle = "open"
        /\ snd = [t \in Threads |-> "idle"]
        /\ io = "away"
        /\ owed = {}

-----------------------------------------------------------------------------
(* uv_async_send, one action per atomic access.                            *)

CallSend(t) ==
  /\ snd[t] = "idle"
  /\ snd' = [snd EXCEPT ![t] = "load"]
  /\ owed' = owed \cup {t}
  /\ UNCHANGED <<pending, busy, readable, handle, io>>

(* Variants of actions, each with a fault a maintainer might introduce,    *)
(* stand before the action they would replace; Next uses none of them.     *)

(* Variant of Load: leaves the work to a sender that is already inside.    *)
LoadTrustsOthers(t) ==
  /\ snd[t] = "load"
  /\ snd' = [snd EXCEPT ![t] = IF pending # 0 \/ busy # 0 THEN "idle"
                               ELSE "inc"]
  /\ UNCHANGED <<pending, busy, readable, handle, io, owed>>

Load(t) ==
  /\ snd[t] = "load"
  /\ snd' = [snd EXCEPT ![t] = IF pending # 0 THEN "idle" ELSE "inc"]
  /\ UNCHANGED <<pending, busy, readable, handle, io, owed>>

Inc(t) ==
  /\ snd[t] = "inc"
  /\ busy' = busy + 1
  /\ snd' = [snd EXCEPT ![t] = "xchg"]
  /\ UNCHANGED <<pending, readable, handle, io, owed>>

Xchg(t) ==
  /\ snd[t] = "xchg"
  /\ pending' = 1
  /\ snd' = [snd EXCEPT ![t] = IF pending = 0 THEN "write" ELSE "dec"]
  /\ UNCHANGED <<busy, readable, handle, io, owed>>

(* uv__async_send: the write to the loop's descriptor.                     *)
Write(t) ==
  /\ snd[t] = "write"
  /\ readable' = TRUE
  /\ snd' = [snd EXCEPT ![t] = "dec"]
  /\ UNCHANGED <<pending, busy, handle, io, owed>>

Dec(t) ==
  /\ snd[t] = "dec"
  /\ busy' = busy - 1
  /\ snd' = [snd EXCEPT ![t] = "idle"]
  /\ UNCHANGED <<pending, readable, handle, io, owed>>

SendStep(t) == Load(t) \/ Inc(t) \/ Xchg(t) \/ Write(t) \/ Dec(t)

-----------------------------------------------------------------------------
(* The loop thread.                                                        *)

(* uv_run runs the closing handles before it polls again.                  *)
EnterPoll ==
  /\ io = "away"
  /\ handle # "removed"
  /\ io' = "poll"
  /\ UNCHANGED <<pending, busy, readable, handle, snd, owed>>

(* The poll returns with the descriptor among its events.  In              *)
(* edge-triggered mode the event is consumed by the poll itself.           *)
Wakeup ==
  /\ io = "poll"
  /\ readable
  /\ IF EdgeTriggered
       THEN readable' = FALSE /\ io' = "xchg"
       ELSE readable' = readable /\ io' = "drain"
  /\ UNCHANGED <<pending, busy, handle, snd, owed>>

(* The poll returns for a timer or another descriptor only.  It reports    *)
(* every ready descriptor, so this one was not ready.                      *)
PollOther ==
  /\ io = "poll"
  /\ ~readable
  /\ io' = "away"
  /\ UNCHANGED <<pending, busy, readable, handle, snd, owed>>

(* uv__async_io where the descriptor is a pipe: read it until it is empty. *)
Drain ==
  /\ io = "drain"
  /\ readable' = FALSE
  /\ io' = "xchg"
  /\ UNCHANGED <<pending, busy, handle, snd, owed>>

(* Variant of Exchange: the flag is cleared, the callback skipped.         *)
ExchangeSkipsCallback ==
  /\ io = "xchg"
  /\ pending' = IF handle = "open" THEN 0 ELSE pending
  /\ io' = "away"
  /\ UNCHANGED <<busy, readable, handle, snd, owed>>

(* uv__async_io: fetch and clear the pending flag of a handle that is on   *)
(* loop->async_handles, and run the callback if the flag was set.          *)
Exchange ==
  /\ io = "xchg"
  /\ IF handle = "open"
       THEN /\ pending' = 0
            /\ io' = IF pending = 0 THEN "away" ELSE "cb"
            /\ owed' = IF pending = 0 THEN owed ELSE {}
       ELSE /\ io' = "away"
            /\ UNCHANGED <<pending, owed>>
  /\ UNCHANGED <<busy, readable, handle, snd>>

(* uv_close on the handle, called by its callback: the flag is set for     *)
(* good, then uv__async_spin waits for the threads inside the send.        *)
Close ==
  /\ io = "cb"
  /\ handle = "open"
  /\ handle' = "closing"
  /\ pending' = 1
  /\ io' = "spin"
  /\ UNCHANGED <<busy, readable, snd, owed>>

(* Variant of SpinDone: no spin.                                           *)
SpinDoneAtOnce ==
  /\ io = "spin"
  /\ handle' = "removed"
  /\ io' = "cb"
  /\ UNCHANGED <<pending, busy, readable, snd, owed>>

SpinDone ==
  /\ io = "spin"
  /\ busy = 0
  /\ handle' = "removed"
  /\ io' = "cb"
  /\ UNCHANGED <<pending, busy, readable, snd, owed>>

CallbackReturn ==
  /\ io = "cb"
  /\ io' = "away"
  /\ UNCHANGED <<pending, busy, readable, handle, snd, owed>>

(* uv__finish_close, from uv__run_closing_handles.                         *)
FinishClose ==
  /\ io = "away"
  /\ handle = "removed"
  /\ handle' = "closed"
  /\ UNCHANGED <<pending, busy, readable, snd, io, owed>>

LoopStep == \/ EnterPoll \/ Wakeup \/ PollOther \/ Drain \/ Exchange
            \/ Close \/ SpinDone \/ CallbackReturn \/ FinishClose

Next == \/ \E t \in Threads : CallSend(t) \/ SendStep(t)
        \/ LoopStep

(* A thread that entered uv_async_send goes on; the loop thread goes on    *)
(* and its callbacks return.  Nobody has to call uv_async_send or close.   *)
Fairness == /\ \A t \in Threads : WF_vars(SendStep(t))
            /\ WF_vars(EnterPoll) /\ WF_vars(Wakeup) /\ WF_vars(Drain)
            /\ WF_vars(Exchange) /\ WF_vars(SpinDone)
            /\ WF_vars(CallbackReturn) /\ WF_vars(FinishClose)

SafetySpec == Init /\ [][Next]_vars
Spec == SafetySpec /\ Fairness

-----------------------------------------------------------------------------
(* Properties.                                                             *)

(* The loop may be torn down after the close: once uv__async_close has     *)
(* returned, no thread is about to write to the loop's descriptor, and     *)
(* none can get there, however late it was overtaken inside uv_async_send. *)
QuietAfterClose ==
  handle \in {"removed", "closed"} =>
    /\ pending = 1
    /\ \A t \in Threads : snd[t] # "write"

(* What the spin waits for: busy counts the threads that are between the   *)
(* two fetch-and-adds, so that it is zero only when none of them is.       *)
BusyCounts == busy = Cardinality(Inside)

(* No lost wakeup.  A set flag on an open handle is always backed by an    *)
(* event the loop has yet to see: in the descriptor, in the hands of a     *)
(* thread about to write it, or already taken by a loop about to exchange. *)
FlagIsBacked ==
  handle = "open" /\ pending = 1 =>
    \/ readable
    \/ io \in {"drain", "xchg"}
    \/ \E t \in Threads : snd[t] = "write"

(* A send that returned without a callback run since it was called has     *)
(* left the flag set, even when it only did the cheap relaxed read.        *)
ReturnedSendIsFlagged ==
  handle = "open" => \A t \in owed : snd[t] = "idle" => pending = 1

(* The safety of the wakeup, in one invariant.                             *)
AsyncSafe == /\ TypeOK /\ QuietAfterClose /\ BusyCounts
             /\ FlagIsBacked /\ ReturnedSendIsFlagged

(* The spin of uv__async_close ends although other threads keep calling    *)
(* uv_async_send: every thread that raised busy lowers it again, and the   *)
(* set flag keeps newcomers from raising it.                               *)
SpinEnds == (io = "spin") ~> (io = "cb")

(* The protocol implements the promise of AsyncSignal: every call is       *)
(* followed by a callback run unless the handle is closed.                 *)
Signal == INSTANCE AsyncSignal WITH shut <- (handle # "open")
SendIsAnswered == Signal!Spec

(* Every call is answered, and so is a close.                              *)
AsyncAnswers == SpinEnds /\ SendIsAnswered
=============================================================================
