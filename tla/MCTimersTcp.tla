----------------------------- MODULE MCTimersTcp -----------------------------
(***************************************************************************)
(* Two things a thread does, each on its own: its timers, and writing to a *)
(* connection.  They share no state, and one run checks both.  A behaviour *)
(* is one of the part it has chosen; the other rests in its initial state. *)
(* The names of UVTimers are this module's own.                            *)
(*                                                                         *)
(* Timers: integers of three bits (Top = 7), a clock that stops at 3,      *)
(* timeouts that are over at once, within the run, and beyond the width; a *)
(* poll never waits longer than IntMax = 2.                                *)
(***************************************************************************)
EXTENDS UVTimers, TLC

CONSTANTS a, b, w1, w2, s1, c1, None

MCTimeouts == {0, 2, 6}

VARIABLES
  part,
  queue, phase, held, id, serverOf, hnd, opened, onClose, closing, batch, deaf,
  called, reading, writes, ctrl, calls, stopped, end, twice, heard,
  answers, sentTo, dropped, cut

tcpVars ==
  <<queue, phase, held, id, serverOf, hnd, opened, onClose, closing, batch,
    deaf, called, reading, writes, ctrl, calls, stopped, end, twice, heard,
    answers, sentTo, dropped, cut>>
partsVars == <<part, vars, tcpVars>>

(* One connection with two writes.                                         *)
Tcp == INSTANCE UVTcp
         WITH Servers <- {s1}, Conns <- {c1}, Writes <- {w1, w2}, Ids <- 0..2,
              AcceptMayFail <- TRUE, MaxCalls <- 1, MaxHeard <- 1,
              lp <- phase

PartsInit == part \in {"timers", "tcp"} /\ Init /\ Tcp!Init

PartsNext == /\ \/ part = "timers" /\ Next /\ UNCHANGED tcpVars
                \/ part = "tcp" /\ Tcp!Next /\ UNCHANGED vars
             /\ UNCHANGED part

(* The fairness of each part, for the behaviours that are its own.         *)
TimersFair == /\ WF_vars(part = "timers" /\ Tick)
              /\ WF_vars(part = "timers" /\ LoopStep)

TcpFair == /\ SF_tcpVars(part = "tcp" /\ Tcp!Quiet(Tcp!TakeCommands))
           /\ WF_tcpVars(part = "tcp" /\ Tcp!Running(Tcp!TakeCommand))
           /\ WF_tcpVars(part = "tcp" /\ Tcp!Quiet(Tcp!CommandsDone))
           /\ WF_tcpVars(part = "tcp" /\ Tcp!Quiet(Tcp!LoopStep))

PartsSpec == PartsInit /\ [][PartsNext]_partsVars /\ TimersFair /\ TcpFair

-----------------------------------------------------------------------------
(* The promises of the timers are checked under their own names; what the  *)
(* connections keep safe has runs of its own.                              *)

(* Neither a close nor a stop leaves anything unfinished.                  *)
EndsComplete == Tcp!EndsComplete
=============================================================================
