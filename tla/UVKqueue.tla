------------------------------ MODULE UVKqueue ------------------------------
(***************************************************************************)
(* The poll on macOS: uv__io_poll over a kqueue, which has one filter for  *)
(* each direction of a descriptor, and the file watchers of                *)
(* uv_fs_event_start, whose filter fires once and is armed again by        *)
(* uv__fs_event.  The watchers are those of UVWatchers; what differs is    *)
(* what the kernel is told, and when.                                      *)
(*                                                                         *)
(* The kernel takes every change it is given.  EVFILT_PROC, EVFILT_USER,   *)
(* out-of-band data and the signal watcher, which is called behind the     *)
(* others, are left out.                                                   *)
(***************************************************************************)
EXTENDS Naturals, Sequences, FiniteSets
LOCAL INSTANCE SequencesExt

CONSTANTS Watchers, Fds, None,
          Files,       \* the watchers whose callback is uv__fs_event
          ArraySize    \* of the events one kevent returns

ConstantsOK == /\ IsFiniteSet(Watchers) /\ IsFiniteSet(Fds)
               /\ None \notin Watchers \cup Fds
               /\ Files \subseteq Watchers /\ ArraySize \in Nat \ {0}

VARIABLES
  fd, unused, pevents, events, changed, watchers, \* as in UVWatchers
  knotes,   \* the filters in the kernel: [fd, filter]
  batch,    \* the events still to be handled: [fd, filter, file]
  full,     \* the array was full
  pc,       \* as in UVWatchers, and "abort"
  now,      \* the callback that runs: [to, file]
  late,     \* history: the batch was fetched without an update before it
  lost      \* history: <<w, e>> whose filter was taken away while w->events
            \* had e

registry == <<pevents, events, changed, watchers>>
vars == <<fd, unused, registry, knotes, batch, full, pc, now, late, lost>>

(* core.c: uv__io_start, uv__io_stop; they leave the kernel alone.         *)
W == INSTANCE UVWatchers WITH Inherited <- {}, epoll <- knotes

Nobody == [to |-> None, file |-> None]

Init == W!Init /\ full = FALSE /\ late = FALSE /\ lost = {}

Asks(w) == IF w \in Files THEN {"IN"} ELSE W!Asked

(* The filter for what a watcher asks for.                                 *)
Filter(w, e) == IF w \in Files THEN "VNODE"
                ELSE IF e = "IN" THEN "READ" ELSE "WRITE"
Knote(w, e) == [fd |-> fd[w], filter |-> Filter(w, e)]

-----------------------------------------------------------------------------
(* Outside the poll and in callbacks.                                      *)

(* uv__io_close, which takes the descriptor out of the batch, and close,   *)
(* with which the kernel forgets its filters.  A file watcher may be       *)
(* started again, on a new descriptor.                                     *)
Close(w) ==
  /\ w \in W!Open
  /\ W!Stopped(w, W!Asked)
  /\ batch' = [k \in DOMAIN batch |->
                 IF batch[k].fd = fd[w]
                 THEN [batch[k] EXCEPT !.fd = None, !.file = None]
                 ELSE batch[k]]
  /\ knotes' = {k \in knotes : k.fd # fd[w]}
  /\ fd' = [fd EXCEPT ![w] = None]
  /\ unused' = unused \cup ({w} \cap Files)

(* uv_fs_event_start starts the watcher it opens; the others are started   *)
(* and stopped at will.                                                    *)
User == /\ W!UserCode
        /\ \E w \in Watchers :
             \/ w \notin Files /\ W!OpenFd(w)
             \/ Close(w)
             \/ w \notin Files /\ \E e \in SUBSET W!Asked \ {{}} :
                  W!Start(w, e) \/ W!Stop(w, e)
        /\ UNCHANGED <<full, pc, now, late, lost>>

FsEventStart(w) ==
  /\ W!UserCode
  /\ w \in unused \cap Files
  /\ \E f \in Fds \ {fd[v] : v \in W!Open} :
       /\ fd' = [fd EXCEPT ![w] = f]
       /\ watchers' = [watchers EXCEPT ![f] = w]
  /\ unused' = unused \ {w}
  /\ pevents' = [pevents EXCEPT ![w] = {"IN"}]
  /\ changed' = changed \cup {w}
  /\ UNCHANGED <<events, knotes, batch, full, pc, now, late, lost>>

-----------------------------------------------------------------------------
(* uv__io_poll.                                                            *)

(* What is asked for and was not yet; a filter that is not wanted any more *)
(* stays until it has an event.                                            *)
Update ==
  /\ pc = "run"
  /\ knotes' = knotes \cup
       UNION {{Knote(w, e) : e \in pevents[w] \ events[w]} : w \in changed}
  /\ events' = [w \in Watchers |-> IF w \in changed THEN pevents[w]
                                   ELSE events[w]]
  /\ changed' = {}
  /\ pc' = "wait"
  /\ lost' = {p \in lost : p[2] \in pevents[p[1]] \cap events[p[1]]}
  /\ UNCHANGED <<fd, unused, pevents, watchers, batch, full, now, late>>

(* kevent: some of the filters, in any order, at most as many as the array *)
(* takes; one for a file is gone with its event.                           *)
FileOf(k) == CHOOSE w \in W!Open : fd[w] = k.fd

Wait ==
  /\ W!Waits
  /\ \E some \in SUBSET knotes \ {{}} : \E order \in SetToSeqs(some) :
       /\ Cardinality(some) <= ArraySize
       /\ full' = (Cardinality(some) = ArraySize)
       /\ batch' = [k \in DOMAIN order |->
            [fd |-> order[k].fd, filter |-> order[k].filter,
             file |-> FileOf(order[k])]]
       /\ knotes' = knotes \ {k \in some : k.filter = "VNODE"}
  /\ pc' = IF pc = "wait" THEN "batch" ELSE "more"
  /\ late' = (pc = "again")
  /\ UNCHANGED <<fd, unused, registry, now, lost>>

TimedOut ==
  /\ W!Waits
  /\ pc' = "run"
  /\ UNCHANGED <<fd, unused, registry, knotes, batch, full, now, late, lost>>

First == Head(batch)
Direction == IF First.filter = "WRITE" THEN "OUT" ELSE "IN"
Owner == IF First.fd = None THEN None ELSE watchers[First.fd]
Wanted == Owner # None /\ Direction \in pevents[Owner]
Believers == {w \in {Owner} \ {None} : Direction \in events[w]}

(* The event of a descriptor that was closed ...                           *)
Skip == /\ W!Handles /\ batch # <<>>
        /\ First.fd = None
        /\ batch' = Tail(batch)
        /\ UNCHANGED <<fd, unused, registry, knotes, full, pc, now, late, lost>>

(* ... one nobody watches, or nobody wants now: uv__kqueue_delete takes    *)
(* the filter away ...                                                     *)
Disarm ==
  /\ W!Handles /\ batch # <<>>
  /\ First.fd # None /\ ~Wanted
  /\ lost' = lost \cup {<<w, Direction>> : w \in Believers}
  /\ knotes' = knotes \ {[fd |-> First.fd, filter |-> First.filter]}
  /\ batch' = Tail(batch)
  /\ UNCHANGED <<fd, unused, registry, full, pc, now, late>>

(* ... and the others go to the callback.  For a file the code asserts     *)
(* that w->events is what the kernel was told.                             *)
CallBack ==
  /\ W!Handles /\ batch # <<>>
  /\ Wanted
  /\ now' = [to |-> Owner, file |-> First.file]
  /\ pc' = IF First.filter = "VNODE" /\ events[Owner] # {"IN"}
           THEN "abort" ELSE "callback"
  /\ batch' = Tail(batch)
  /\ UNCHANGED <<fd, unused, registry, knotes, full, late, lost>>

(* Variant of Return: the filter is not armed again.                       *)
ReturnUnarmed ==
  /\ pc = "callback"
  /\ pc' = "called"
  /\ now' = Nobody
  /\ UNCHANGED <<fd, unused, registry, knotes, batch, full, late, lost>>

(* uv__fs_event arms the filter of a file again, at once, for the          *)
(* descriptor the watcher has now, if it has one.                          *)
Return ==
  /\ pc = "callback"
  /\ knotes' = knotes \cup
       {Knote(w, "IN") : w \in {now.to} \cap Files \cap W!Open}
  /\ pc' = "called"
  /\ now' = Nobody
  /\ UNCHANGED <<fd, unused, registry, batch, full, late, lost>>

(* A full array is asked for more, without a new Update; if nothing was    *)
(* called the poll goes on, unless it only asked for more.                 *)
BatchDone ==
  /\ W!Handles /\ batch = <<>>
  /\ pc' = CASE pc = "batch" -> "wait"
             [] pc = "more" -> "run"
             [] pc = "called" -> IF full THEN "again" ELSE "run"
  /\ UNCHANGED <<fd, unused, registry, knotes, batch, full, now, late, lost>>

Poll == Skip \/ Disarm \/ CallBack \/ Return \/ BatchDone

Next == \/ User \/ \E w \in Watchers : FsEventStart(w)
        \/ Update \/ Wait \/ TimedOut \/ Poll

Spec == Init /\ [][Next]_vars

-----------------------------------------------------------------------------
(* Properties.                                                             *)

Filters == [fd : Fds, filter : {"READ", "WRITE", "VNODE"}]

TypeOK == /\ fd \in [Watchers -> Fds \cup {None}]
          /\ unused \in SUBSET Watchers
          /\ \A w \in Watchers : /\ pevents[w] \subseteq Asks(w)
                                 /\ events[w] \subseteq Asks(w)
          /\ changed \subseteq {w \in Watchers : pevents[w] # {}}
          /\ watchers \in [Fds -> Watchers \cup {None}]
          /\ knotes \in SUBSET Filters
          /\ \A k \in knotes : \E w \in W!Open : fd[w] = k.fd
          /\ full \in BOOLEAN /\ late \in BOOLEAN
          /\ lost \in SUBSET (Watchers \X W!Asked)

(* A callback is called for an event of the file it watches now, whatever  *)
(* was closed and opened under the same number before it in the batch.     *)
OwnEvents == pc # "abort" => now.to = now.file

(* When the loop waits, the kernel has a filter for all that a watcher     *)
(* asks for, with one exception: a filter taken away in a batch, because   *)
(* the watcher had stopped asking, while w->events still has it.  If the   *)
(* watcher asks again before the next update, kqueue.c:208 finds nothing   *)
(* to tell the kernel, and the watcher waits in vain.                      *)
FiltersKept ==
  pc = "wait" =>
    \A w \in Watchers : \A e \in pevents[w] :
      Knote(w, e) \in knotes \/ <<w, e>> \in lost

(* The assertion about the events of a file watcher (kqueue.c:382) fails   *)
(* only for an event fetched behind a full array, before the next update:  *)
(* for a watcher that its own callback has started again and uv__fs_event  *)
(* has armed at once.                                                      *)
AbortNeedsFullArray == pc = "abort" => late

(* The table of watchers: as in UVWatchers.                                *)
TableExact == W!TableExact
=============================================================================
