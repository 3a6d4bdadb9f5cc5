----------------------------- MODULE MCLoopParts -----------------------------
(***************************************************************************)
(* Parts of libuv that belong to one loop and use none of the other parts  *)
(* here: they share no state, and one run checks them all.  A behaviour is *)
(* one of the part it has chosen; the others rest in their initial states. *)
(* The names of UVListen are this module's own: here three connections come*)
(* to a server, and two of them reach the limit.                           *)
(***************************************************************************)
EXTENDS UVListen, Sequences

CONSTANTS h1, h2, h3, c1, c2, c3, r1, r2, r3, p1, p2, p3, this, listed, dead,
          other, m1, m2, m3

VARIABLES
  part,
  queue, moved, calling, inRound, called, stayed,
  life, active, list, ctx, busy, running, aborted, overtaken,
  link, xLife, xActive, child, watching, sigchld, at, q, xCalled, late,
  wd, tree, path, eList, eMoved, iterating, watch, nextWd, events, buf, eAt,
  eCalled,
  sqhead, sqtail, sqe, cqhead, cqtail, cqe, inKernel, overflow, asleep,
  hidden, state, in_flight, kAt, i, end,
  on, realpath, members, need, signals, source, sem, stream, failed, cf,
  taken, todo, pushed, news, cfEvents, cfError, sent, loopAt, target, call,
  again, starts, changes,
  asked, ready, poked, lEvents, async, asyncSem, closeSem, lAt, watched,
  found, lLoopAt, got, owed, leave, dry

roundVars == <<queue, moved, calling, inRound, called, stayed>>
pollVars == <<life, active, list, ctx, busy, running, aborted, overtaken>>
processVars ==
  <<link, xLife, xActive, child, watching, sigchld, at, q, xCalled, late>>
eventVars ==
  <<wd, tree, path, eList, eMoved, iterating, watch, nextWd, events, buf, eAt,
    eCalled>>
ringVars ==
  <<sqhead, sqtail, sqe, cqhead, cqtail, cqe, inKernel, overflow, asleep,
    hidden, state, in_flight, kAt, i, end>>
streamVars ==
  <<on, realpath, members, need, signals, source, sem, stream, failed, cf,
    taken, todo, pushed, news, cfEvents, cfError, sent, loopAt, target, call,
    again, starts, changes>>
selectVars ==
  <<asked, ready, poked, lEvents, async, asyncSem, closeSem, lAt, watched,
    found, lLoopAt, got, owed, leave, dry>>

(* Three idle handles.                                                     *)
Round == INSTANCE UVLoopWatchers
  WITH Handles <- {h1, h2, h3}

(* A file system poll that is started up to three times.                   *)
Poll == INSTANCE UVFsPoll
  WITH Contexts <- {c1, c2, c3}

(* Three children.                                                         *)
Process == INSTANCE UVProcess
  WITH Procs <- {p1, p2, p3}, Handles <- listed, Pending <- dead,
       life <- xLife, active <- xActive, called <- xCalled

(* Three handles watch a file that is removed, or that they stop watching, *)
(* twice.                                                                  *)
Inotify == INSTANCE UVFsEvent
  WITH Handles <- {h1, h2, h3}, Paths <- {this}, MaxWds <- 3, MaxEvents <- 1,
       list <- eList, moved <- eMoved, at <- eAt, called <- eCalled

(* Three requests, rings of two entries, counters of two bits.             *)
Ring == INSTANCE UVUring
  WITH Reqs <- {r1, r2, r3}, SqSize <- 2, CqSize <- 2, Wrap <- 4, at <- kAt

(* Two handles watch directories on macOS, with two starts and one batch   *)
(* of changes between them.                                                *)
Stream == INSTANCE UVFsEvents
  WITH Handles <- {h1, h2}, Paths <- {this, other}, MaxStarts <- 2,
       MaxChanges <- 1

(* A stream whose descriptor is waited for by a thread, on macOS.          *)
Sel == INSTANCE UVSelectThread
  WITH events <- lEvents, at <- lAt, loopAt <- lLoopAt

ASSUME ListenConstants == ConstantsOK

PartsInit ==
  /\ part \in {"listen", "round", "poll", "process", "event", "ring", "stream",
               "select"}
  /\ Init /\ Round!Init /\ Poll!Init /\ Process!Init /\ Inotify!Init
  /\ Ring!Init /\ Stream!Init /\ Sel!Init

ListenRests == UNCHANGED vars
RoundRests == UNCHANGED roundVars
PollRests == UNCHANGED pollVars
ProcessRests == UNCHANGED processVars
EventRests == UNCHANGED eventVars
RingRests == UNCHANGED ringVars
StreamRests == UNCHANGED streamVars
SelectRests == UNCHANGED selectVars

(* Only the chosen part moves.                                             *)
PartsNext ==
  /\ \/ part = "listen" /\ Next
        /\ RoundRests /\ PollRests /\ ProcessRests /\ EventRests /\ RingRests
        /\ StreamRests /\ SelectRests
     \/ part = "round" /\ Round!Next /\ ListenRests
        /\ PollRests /\ ProcessRests /\ EventRests /\ RingRests /\ StreamRests
        /\ SelectRests
     \/ part = "poll" /\ Poll!Next /\ ListenRests
        /\ RoundRests /\ ProcessRests /\ EventRests /\ RingRests /\ StreamRests
        /\ SelectRests
     \/ part = "process" /\ Process!Next /\ ListenRests
        /\ RoundRests /\ PollRests /\ EventRests /\ RingRests /\ StreamRests
        /\ SelectRests
     \/ part = "event" /\ Inotify!Next /\ ListenRests
        /\ RoundRests /\ PollRests /\ ProcessRests /\ RingRests /\ StreamRests
        /\ SelectRests
     \/ part = "ring" /\ Ring!Next /\ ListenRests
        /\ RoundRests /\ PollRests /\ ProcessRests /\ EventRests /\ StreamRests
        /\ SelectRests
     \/ part = "stream" /\ Stream!Next /\ ListenRests
        /\ RoundRests /\ PollRests /\ ProcessRests /\ EventRests /\ RingRests
        /\ SelectRests
     \/ part = "select" /\ Sel!Next /\ ListenRests
        /\ RoundRests /\ PollRests /\ ProcessRests /\ EventRests /\ RingRests
        /\ StreamRests
  /\ UNCHANGED part

partsVars ==
  <<part, vars, roundVars, pollVars, processVars, eventVars, ringVars,
    streamVars, selectVars>>

(* The fairness of each part, for the behaviours that are its own.         *)
RoundFair ==
  /\ WF_roundVars(part = "round" /\ (Round!Call \/ Round!RoundEnds))
  /\ WF_roundVars(part = "round" /\ Round!Return)

PollFair == WF_pollVars(part = "poll" /\ ~aborted /\ Poll!Loop)

ProcessFair == WF_processVars(part = "process" /\ Process!Loop)

EventFair == WF_eventVars(part = "event" /\ Inotify!Loop)

RingFair ==
  /\ WF_ringVars(part = "ring" /\ Ring!Loop)
  /\ WF_ringVars(part = "ring" /\ Ring!StoreSeen)
  /\ WF_ringVars(part = "ring" /\ Ring!TakeEntry)
  /\ \A r \in {r1, r2, r3} : WF_ringVars(part = "ring" /\ Ring!Complete(r))

StreamFair == /\ WF_streamVars(part = "stream" /\ Stream!LoopStep)
              /\ WF_streamVars(part = "stream" /\ Stream!Thread)

SelectFair == /\ WF_selectVars(part = "select" /\ Sel!LoopStep)
              /\ WF_selectVars(part = "select" /\ Sel!Thread)
              /\ SF_selectVars(part = "select" /\ Sel!Callback)
              /\ SF_selectVars(part = "select" /\ Sel!UserReturns)

ListenFair == /\ WF_vars(part = "listen" /\ ServerStep)
              /\ WF_vars(part = "listen" /\ Taken)

PartsSpec == PartsInit /\ [][PartsNext]_partsVars
             /\ ListenFair /\ RoundFair /\ PollFair /\ ProcessFair
             /\ EventFair /\ RingFair /\ StreamFair /\ SelectFair

-----------------------------------------------------------------------------
(* The promises of the parts: the conjuncts are stated in their modules.   *)
(* Children, requests and connections are alike: one stands for all in what*)
(* must happen at last.  What the server keeps safe, ListenServes, is      *)
(* checked as it is.                                                       *)

(* A round calls every active handle once and loses none.                  *)
RoundIsFair == Round!TypeOK /\ Round!OncePerRound /\ Round!StaysActive

(* A poll of a file forgets none of its contexts and is closed behind the  *)
(* last of them; it aborts only when started over a stat in flight.        *)
PollEndsClean == Poll!TypeOK /\ Poll!ListIsExact /\ Poll!ClosedIsAlone
                 /\ Poll!AbortNeedsRestart

(* No child is reported twice, or left among the dead, and the loop waits  *)
(* for those that live and for no other.                                   *)
DeathsTold == Process!TypeOK /\ Process!PendingIsEmpty
              /\ Process!WaitsForActive /\ Process!ReportedOnce

(* A change of a file is told to each of its handles at most once, whatever*)
(* they start and stop then, and the kernel watches what somebody wants.   *)
EventsTold == Inotify!TypeOK /\ Inotify!HandlesListed /\ Inotify!WatchesWanted
              /\ Inotify!ToldOnce

(* A request in the rings is in one place and is answered, unless it is    *)
(* stranded, and only the order of two accesses strands it.                *)
RingAnswers ==
  /\ []Ring!TypeOK /\ []Ring!EachOnce /\ []Ring!StrandedByReordering
  /\ Ring!RequestAnswered(r1)

(* The threads of macOS.  A change of a directory is told to the handles   *)
(* that watch it; the thread never touches a handle that is closed; and the*)
(* stream has the paths of all that are watched.  What select finds is read*)
(* by the loop before select is asked again, and its thread signals a      *)
(* handle that is open.                                                    *)
MacThreadsServe ==
  /\ Stream!TypeOK /\ Stream!NoUseAfterFree /\ Stream!StreamCovers
  /\ Stream!OnePostEach /\ Stream!OwnChange
  /\ Sel!TypeOK /\ Sel!NeverAborts /\ Sel!NeverDry /\ Sel!SignalsOpenHandle

(* What these parts have begun ends: a round, the close of a poll, the walk*)
(* over the handles of a file, the close of a handle that a thread serves; *)
(* a child that dies is reported (late only to a handle that was closed in *)
(* the same walk), a change of a directory too, data that select finds is  *)
(* read, and a connection is accepted.                                     *)
EndsAtLast ==
  /\ ConnServed(m1) /\ Round!RoundEndsAtLast /\ Poll!CloseEnds
  /\ Process!LateReports /\ Process!DeathReported(p1)
  /\ Inotify!EventEnds
  /\ Stream!CloseReturns /\ Stream!Reported(h1)
  /\ Sel!DataIsRead /\ Sel!CloseReturns
=============================================================================
