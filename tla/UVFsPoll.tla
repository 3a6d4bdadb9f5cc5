------------------------------ MODULE UVFsPoll ------------------------------
(***************************************************************************)
(* A uv_fs_poll_t: a context per start, with a timer and a stat request    *)
(* that takes turns.  A stop closes the timer, or leaves the context to    *)
(* the answer of the stat request, which cannot be taken back; contexts of *)
(* earlier starts wait in a list for their timers to close.                *)
(*                                                                         *)
(* Each context is used once.  The callback of the user may call anything. *)
(***************************************************************************)
EXTENDS Integers, Sequences, FiniteSets
LOCAL INSTANCE SequencesExt

CONSTANTS Contexts, None

VARIABLES
  life,      \* of the handle: "open", "closing", "pending", "closed"
  active,    \* uv_is_active(handle)
  list,      \* handle->poll_ctx, and the contexts before it
  ctx,       \* ctx[c]: "new", "stat", "timer", "closing", "freed"
  busy,      \* busy[c]: ctx->busy_polling: 0, 1, -1 for an error
  running,   \* the context whose callback runs, or None
  aborted,   \* an assertion has failed
  overtaken  \* history: the contexts whose stat was on its way at a start

handle == <<life, active, list>>
history == <<aborted, overtaken>>
vars == <<handle, ctx, busy, running, history>>

Init == /\ life = "open" /\ active = FALSE /\ list = <<>>
        /\ ctx = [c \in Contexts |-> "new"]
        /\ busy = [c \in Contexts |-> 0]
        /\ running = None
        /\ aborted = FALSE /\ overtaken = {}

At(state) == {c \in Contexts : ctx[c] = state}

(* handle->poll_ctx.                                                       *)
Current == IF list = <<>> THEN None ELSE Head(list)

-----------------------------------------------------------------------------
(* Calls of the user.                                                      *)

Start == /\ life = "open" /\ ~active
         /\ \E c \in At("new") : /\ ctx' = [ctx EXCEPT ![c] = "stat"]
                                 /\ list' = <<c>> \o list
         /\ active' = TRUE
         /\ overtaken' = overtaken \cup At("stat")
                                   \cup ({running} \ {None})
         /\ UNCHANGED <<life, busy, running, aborted>>

Stopped == ctx' = IF active /\ ctx[Current] = "timer"
                  THEN [ctx EXCEPT ![Current] = "closing"] ELSE ctx

Stop == /\ life = "open" /\ active
        /\ Stopped
        /\ active' = FALSE
        /\ UNCHANGED <<life, list, busy, running, history>>

Close == /\ life = "open"
         /\ Stopped
         /\ active' = FALSE
         /\ life' = IF list = <<>> THEN "pending" ELSE "closing"
         /\ UNCHANGED <<list, busy, running, history>>

User == Start \/ Stop \/ Close

-----------------------------------------------------------------------------
(* The loop.                                                               *)

(* timer_cb asks for the next stat.                                        *)
TimerCb(c) ==
  /\ running = None /\ ctx[c] = "timer"
  /\ IF Current = c
     THEN ctx' = [ctx EXCEPT ![c] = "stat"] /\ UNCHANGED aborted
     ELSE aborted' = TRUE /\ UNCHANGED ctx
  /\ UNCHANGED <<handle, busy, running, overtaken>>

(* poll_cb from `out`: the timer is closed, or armed again.                *)
Rescheduled(c) == ctx' = [ctx EXCEPT ![c] = IF active THEN "timer" ELSE "closing"]

(* poll_cb when nobody wants to know, or nothing has changed.              *)
PollCbQuiet(c) ==
  /\ running = None /\ ctx[c] = "stat"
  /\ \/ ~active /\ UNCHANGED busy
     \/ active /\ \E result \in {1, -1} :
          /\ busy[c] \in {0, result}
          /\ busy[c] = 0 => result = 1
          /\ busy' = [busy EXCEPT ![c] = result]
  /\ Rescheduled(c)
  /\ UNCHANGED <<handle, running, history>>

(* poll_cb calls back: an error that is new, or a file that has changed ... *)
PollCb(c) ==
  /\ running = None /\ ctx[c] = "stat" /\ active
  /\ \E result \in {1, -1} :
       /\ result = 1 => busy[c] # 0
       /\ busy' = [busy EXCEPT ![c] = result]
  /\ running' = c
  /\ UNCHANGED <<handle, ctx, history>>

(* ... and goes on when the callback returns.                              *)
PollCbReturns ==
  /\ running # None
  /\ Rescheduled(running)
  /\ running' = None
  /\ UNCHANGED <<handle, busy, history>>

(* Variant of Unlinked: older contexts go with it.                         *)
UnlinkedDropsOlder(c) ==
  /\ list' = SubSeq(list, 1, IndexFirstSubSeq(<<c>>, list) - 1)
  /\ life' = IF c = Current /\ life = "closing" THEN "pending" ELSE life

(* timer_close_cb: the context leaves the list and is freed.               *)
Unlinked(c) ==
  /\ list' = Remove(list, c)
  /\ life' = IF c = Current /\ Len(list) = 1 /\ life = "closing"
             THEN "pending" ELSE life

TimerCloseCb(c) ==
  /\ running = None /\ ctx[c] = "closing"
  /\ Unlinked(c)
  /\ ctx' = [ctx EXCEPT ![c] = "freed"]
  /\ UNCHANGED <<active, busy, running, history>>

FinishClose == /\ running = None /\ life = "pending"
               /\ life' = "closed"
               /\ UNCHANGED <<active, list, ctx, busy, running, history>>

Loop == \/ \E c \in Contexts : \/ TimerCb(c) \/ PollCbQuiet(c) \/ PollCb(c)
                               \/ TimerCloseCb(c)
        \/ PollCbReturns \/ FinishClose

Next == ~aborted /\ (User \/ Loop)

(* The loop runs, stat is answered and timers fire, in any order.  Nobody  *)
(* has to close the handle.                                                *)
Fairness == WF_vars(~aborted /\ Loop)

Spec == Init /\ [][Next]_vars /\ Fairness

-----------------------------------------------------------------------------
(* Properties.                                                             *)

TypeOK == /\ life \in {"open", "closing", "pending", "closed"}
          /\ active \in BOOLEAN
          /\ list \in Seq(Contexts) /\ IsInjective(list)
          /\ ctx \in [Contexts -> {"new", "stat", "timer", "closing", "freed"}]
          /\ busy \in [Contexts -> {-1, 0, 1}]
          /\ running \in Contexts \cup {None}
          /\ aborted \in BOOLEAN /\ overtaken \subseteq Contexts

(* The handle knows every context that a request, a timer or a callback    *)
(* will come back to, and none that is freed: none is lost from the list   *)
(* or freed twice, in whatever order timers close and stats are answered.  *)
ListIsExact == Range(list) = At("stat") \cup At("timer") \cup At("closing")

(* The close callback comes after the last of the contexts, which point to *)
(* the handle, ...                                                         *)
ClosedIsAlone == life \in {"pending", "closed"} => list = <<>>

(* ... and it does come.                                                   *)
CloseEnds == life = "closing" ~> life = "closed" \/ aborted

(* The assertion of timer_cb fails only for a context whose stat was on    *)
(* its way, or whose callback ran, when the handle was started again: such *)
(* a context goes on as if it had never been stopped.                      *)
AbortNeedsRestart == aborted => overtaken # {}
=============================================================================
