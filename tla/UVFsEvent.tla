----------------------------- MODULE UVFsEvent -----------------------------
(***************************************************************************)
(* Watching files with inotify (unix/linux.c): the lists of handles, one   *)
(* for each watch descriptor, and the walk of uv__inotify_read over one of *)
(* them, whose callbacks start and stop handles.  A handle that is closed  *)
(* is stopped, and that is all.                                            *)
(***************************************************************************)
EXTENDS Naturals, Sequences, FiniteSets, SequencesExt

CONSTANTS Handles, Paths, None,
          MaxWds,    \* bound: watch descriptors the kernel has given out
          MaxEvents  \* bound: events that wait in the kernel

VARIABLES
  wd,        \* wd[h]: handle->wd, 0 for -1: h is not active
  tree,      \* loop->inotify_watchers: the descriptors that have a list
  path,      \* path[w]: w->path
  list,      \* list[w]: w->watchers
  moved,     \* the local queue of uv__inotify_read
  iterating, \* the descriptor whose list iterates, or 0
  watch,     \* kernel: watch[p]: the descriptor of the file, or 0
  nextWd,    \* kernel: the next descriptor
  events,    \* kernel: the descriptors of the events nobody has read
  buf,       \* the events that were read
  at,        \* "run", "events" in uv__inotify_read, "callback"
  called     \* history: the handles called for this event

lists == <<wd, tree, path, list>>
walk == <<moved, iterating, called>>
kernel == <<watch, nextWd, events>>
vars == <<lists, walk, kernel, buf, at>>

Wds == 1..MaxWds

Init == /\ wd = [h \in Handles |-> 0]
        /\ tree = {}
        /\ path = [w \in Wds |-> None] /\ list = [w \in Wds |-> <<>>]
        /\ moved = <<>> /\ iterating = 0 /\ called = {}
        /\ watch = [p \in Paths |-> 0] /\ nextWd = 1 /\ events = <<>>
        /\ buf = <<>> /\ at = "run"

-----------------------------------------------------------------------------
(* inotify_rm_watch: the kernel reports the end of a watch it still has.   *)
RmWatch(w) ==
  IF \E p \in Paths : watch[p] = w
  THEN /\ watch' = [p \in Paths |-> IF watch[p] = w THEN 0 ELSE watch[p]]
       /\ events' = Append(events, w)
  ELSE UNCHANGED <<watch, events>>

(* maybe_free_watcher_list, with the list as it is after the call.         *)
MaybeFree(w) ==
  IF iterating' # w /\ list'[w] = <<>>
  THEN tree' = tree \ {w} /\ RmWatch(w)
  ELSE UNCHANGED <<tree, watch, events>>

-----------------------------------------------------------------------------
(* Calls of the user.                                                      *)

UserCode == at \in {"run", "callback"}

(* uv_fs_event_start: a file that is watched has its list.                 *)
Start(h, p) ==
  /\ UserCode /\ wd[h] = 0
  /\ watch[p] = 0 => nextWd \in Wds
  /\ LET w == IF watch[p] = 0 THEN nextWd ELSE watch[p]
     IN /\ watch' = [watch EXCEPT ![p] = w]
        /\ nextWd' = IF watch[p] = 0 THEN nextWd + 1 ELSE nextWd
        /\ tree' = tree \cup {w}
        /\ path' = IF w \in tree THEN path ELSE [path EXCEPT ![w] = p]
        /\ list' = [list EXCEPT ![w] = Append(@, h)]
        /\ wd' = [wd EXCEPT ![h] = w]
  /\ UNCHANGED <<events, walk, buf, at>>

(* uv_fs_event_stop: off the list of its file, or the queue of the walk.   *)
Stop(h) ==
  /\ UserCode /\ wd[h] # 0
  /\ wd' = [wd EXCEPT ![h] = 0]
  /\ list' = [list EXCEPT ![wd[h]] = SelectSeq(@, LAMBDA x : x # h)]
  /\ moved' = SelectSeq(moved, LAMBDA x : x # h)
  /\ UNCHANGED iterating
  /\ MaybeFree(wd[h])
  /\ UNCHANGED <<path, called, nextWd, buf, at>>

(* uv__inotify_fork, in the child of a fork: a new inotify descriptor.     *)
(* All handles are stopped, list by list, and started again in that order, *)
(* until a file is gone.                                                   *)
Fork ==
  LET all == FlattenSeq([w \in Wds |-> list[w]])
      file(h) == path[wd[h]]
  IN
  /\ at = "run" /\ tree # {}
  /\ \E n \in 0..Len(all) :
       LET again == SubSeq(all, 1, n)
           first(p) == CHOOSE i \in 1..n :
             file(again[i]) = p /\ \A j \in 1..i - 1 : file(again[j]) # p
           number(h) ==
             Cardinality({file(again[i]) : i \in 1..first(file(h))})
           files == {file(again[i]) : i \in 1..n}
       IN /\ wd' = [h \in Handles |-> IF h \in ToSet(again) THEN number(h)
                                      ELSE 0]
          /\ tree' = 1..Cardinality(files)
          /\ list' = [w \in Wds |-> SelectSeq(again, LAMBDA h : number(h) = w)]
          /\ path' = [w \in Wds |-> IF list'[w] = <<>> THEN None
                                    ELSE file(list'[w][1])]
          /\ watch' = [p \in Paths |-> IF p \in files
                         THEN CHOOSE w \in Wds : path'[w] = p ELSE 0]
          /\ nextWd' = Cardinality(files) + 1
  /\ events' = <<>>
  /\ UNCHANGED <<walk, buf, at>>

User == \/ Fork
        \/ \E h \in Handles : Stop(h) \/ \E p \in Paths : Start(h, p)

-----------------------------------------------------------------------------
(* The files change, or are removed together with their watch.             *)

Change(p) ==
  /\ watch[p] # 0 /\ Len(events) < MaxEvents
  /\ events' = Append(events, watch[p])
  /\ UNCHANGED <<lists, walk, watch, nextWd, buf, at>>

Delete(p) ==
  /\ watch[p] # 0 /\ Len(events) < MaxEvents
  /\ events' = Append(events, watch[p])
  /\ watch' = [watch EXCEPT ![p] = 0]
  /\ UNCHANGED <<lists, walk, nextWd, buf, at>>

Files == \E p \in Paths : Change(p) \/ Delete(p)

-----------------------------------------------------------------------------
(* uv__inotify_read.                                                       *)

Between == at = "events" /\ iterating = 0

(* As many events as fit into the buffer.                                  *)
Read == /\ at = "run" \/ Between
        /\ buf = <<>> /\ events # <<>>
        /\ \E n \in 1..Len(events) :
             /\ buf' = SubSeq(events, 1, n)
             /\ events' = SubSeq(events, n + 1, Len(events))
        /\ at' = "events"
        /\ UNCHANGED <<lists, walk, watch, nextWd>>

(* EAGAIN.                                                                 *)
ReadEnds == /\ Between /\ buf = <<>> /\ events = <<>>
            /\ at' = "run"
            /\ UNCHANGED <<lists, walk, kernel, buf>>

(* A stale event, whose list is gone ...                                   *)
SkipEvent == /\ Between /\ buf # <<>> /\ buf[1] \notin tree
             /\ buf' = Tail(buf)
             /\ UNCHANGED <<lists, walk, kernel, at>>

(* ... or one to tell all handles of the list.                             *)
TakeEvent == /\ Between /\ buf # <<>> /\ buf[1] \in tree
             /\ iterating' = buf[1] /\ buf' = Tail(buf) /\ called' = {}
             /\ moved' = list[buf[1]]
             /\ list' = [list EXCEPT ![buf[1]] = <<>>]
             /\ UNCHANGED <<wd, tree, path, kernel, at>>

CallNext ==
  /\ at = "events" /\ iterating # 0 /\ moved # <<>>
  /\ at' = "callback"
  /\ called' = called \cup {moved[1]}
  /\ moved' = Tail(moved)
  /\ list' = [list EXCEPT ![iterating] = Append(@, moved[1])]
  /\ UNCHANGED <<wd, tree, path, iterating, kernel, buf>>

Return == /\ at = "callback"
          /\ at' = "events"
          /\ UNCHANGED <<lists, walk, kernel, buf>>

(* Variant of WalkEnds: the list of a walk is not freed.                   *)
WalkEndsKeeping ==
  /\ at = "events" /\ iterating # 0 /\ moved = <<>>
  /\ iterating' = 0
  /\ UNCHANGED <<lists, moved, called, kernel, buf, at>>

WalkEnds ==
  /\ at = "events" /\ iterating # 0 /\ moved = <<>>
  /\ iterating' = 0 /\ UNCHANGED list
  /\ MaybeFree(iterating)
  /\ UNCHANGED <<wd, path, moved, called, nextWd, buf, at>>

Loop == \/ Read \/ ReadEnds \/ SkipEvent \/ TakeEvent \/ CallNext \/ Return
        \/ WalkEnds
Next == User \/ Files \/ Loop

(* Callbacks return, and the loop goes on.                                 *)
Spec == Init /\ [][Next]_vars /\ WF_vars(Loop)

-----------------------------------------------------------------------------
(* Properties.                                                             *)

TypeOK == /\ wd \in [Handles -> 0..MaxWds] /\ tree \subseteq Wds
          /\ path \in [Wds -> Paths \cup {None}]
          /\ list \in [Wds -> Seq(Handles)] /\ moved \in Seq(Handles)
          /\ iterating \in 0..MaxWds
          /\ watch \in [Paths -> 0..MaxWds] /\ nextWd \in 1..MaxWds + 1
          /\ events \in Seq(Wds) /\ buf \in Seq(Wds)
          /\ at \in {"run", "events", "callback"}
          /\ called \subseteq Handles

(* linux.c:2679: the list of an active handle exists, and the handle is on *)
(* it or on the queue of the walk, once; the list of a walk exists too,    *)
(* even when callbacks have stopped all its handles.                       *)
HandlesListed ==
  /\ \A h \in Handles :
       LET all(w) == list[w] \o (IF w = iterating THEN moved ELSE <<>>)
       IN /\ wd[h] # 0 => wd[h] \in tree
          /\ \A w \in Wds : Cardinality({i \in DOMAIN all(w) : all(w)[i] = h})
                              = IF w = wd[h] THEN 1 ELSE 0
  /\ iterating # 0 => iterating \in tree

(* The kernel watches for a list, and a list is there for its handles: a   *)
(* walk at whose end nobody is left cleans up after itself.                *)
WatchesWanted ==
  /\ \A p \in Paths : watch[p] # 0 => watch[p] \in tree
  /\ \A w \in tree : list[w] = <<>> => w = iterating

(* An event is told to a handle at most once: who has been called does not *)
(* wait, not even when a callback has stopped and started it again.        *)
ToldOnce == iterating # 0 => ToSet(moved) \cap called = {}

(* Each event is done with at last, although every callback may start      *)
(* handles on the list that is walked.                                     *)
EventEnds == iterating # 0 ~> iterating = 0
=============================================================================
