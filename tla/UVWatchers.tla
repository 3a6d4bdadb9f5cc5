----------------------------- MODULE UVWatchers -----------------------------
(***************************************************************************)
(* The watchers of a loop and the kernel's epoll: uv__io_start, stop and   *)
(* close, and uv__io_poll, which brings epoll up to date with the watchers *)
(* and hands a batch of events to their callbacks.  A callback may start,  *)
(* stop and close any watcher and open new ones, while the rest of the     *)
(* batch waits; descriptors are numbers and are used again at once.        *)
(*                                                                         *)
(* A watcher is opened once, so it also stands for the open file behind    *)
(* its descriptor.  With io_uring the changes go to the kernel through a   *)
(* ring, which is flushed before every wait: that makes no difference here.*)
(***************************************************************************)
EXTENDS Naturals, Sequences, FiniteSets
LOCAL INSTANCE SequencesExt

CONSTANTS Watchers, Fds, None,
          Inherited   \* watchers whose file another process keeps open

ConstantsOK == /\ IsFiniteSet(Watchers) /\ IsFiniteSet(Fds)
               /\ None \notin Watchers \cup Fds
               /\ Inherited \subseteq Watchers

Asked == {"IN", "OUT"}
Always == {"ERR", "HUP"}

VARIABLES
  fd,        \* w->fd, or None when it is not open
  unused,    \* the watchers not opened yet
  pevents,   \* w->pevents
  events,    \* w->events
  changed,   \* loop->watcher_queue
  watchers,  \* loop->watchers
  epoll,     \* what the kernel watches: records [fd, file, events]
  batch,     \* the events of this poll that are still to be handled
  pc,        \* "run": outside the poll; "wait", "again": about to wait, or
             \* to look for more; "batch", "more": events are handled, none
             \* called yet, "called": some were; "callback"
  now        \* the callback that runs: [to, file]

registry == <<pevents, events, changed, watchers>>
vars == <<fd, unused, registry, epoll, batch, pc, now>>

Init == /\ fd = [w \in Watchers |-> None]
        /\ unused = Watchers
        /\ pevents = [w \in Watchers |-> {}]
        /\ events = [w \in Watchers |-> {}]
        /\ changed = {}
        /\ watchers = [f \in Fds |-> None]
        /\ epoll = {} /\ batch = <<>>
        /\ pc = "run" /\ now = [to |-> None, file |-> None]

Open == {w \in Watchers : fd[w] # None}

-----------------------------------------------------------------------------
(* Outside the poll and in callbacks.                                      *)

UserCode == pc \in {"run", "callback"}

(* A new descriptor: any number that is free.                              *)
OpenFd(w) ==
  /\ w \in unused
  /\ \E f \in Fds \ {fd[v] : v \in Open} : fd' = [fd EXCEPT ![w] = f]
  /\ unused' = unused \ {w}
  /\ UNCHANGED <<registry, epoll, batch>>

(* uv__io_start.                                                           *)
Start(w, e) ==
  /\ w \in Open
  /\ LET p == pevents[w] \cup e
     IN  /\ pevents' = [pevents EXCEPT ![w] = p]
         /\ IF events[w] = p
            THEN UNCHANGED <<changed, watchers>>
            ELSE /\ changed' = changed \cup {w}
                 /\ watchers' = [watchers EXCEPT ![fd[w]] =
                                   IF @ = None THEN w ELSE @]
  /\ UNCHANGED <<fd, unused, events, epoll, batch>>

(* uv__io_stop of an open watcher.                                         *)
Stopped(w, e) ==
  LET p == pevents[w] \ e
  IN  /\ pevents' = [pevents EXCEPT ![w] = p]
      /\ IF p = {}
         THEN /\ changed' = changed \ {w}
              /\ events' = [events EXCEPT ![w] = {}]
              /\ watchers' = [watchers EXCEPT ![fd[w]] =
                                IF @ = w THEN None ELSE @]
         ELSE /\ changed' = changed \cup {w}
              /\ UNCHANGED <<events, watchers>>

Stop(w, e) ==
  /\ w \in Open
  /\ Stopped(w, e)
  /\ UNCHANGED <<fd, unused, epoll, batch>>

Entry(w) == {x \in epoll : x.fd = fd[w] /\ x.file = w}

(* Variant of Close: the batch keeps the events of the descriptor.         *)
CloseKeepsBatch(w) ==
  /\ w \in Open
  /\ Stopped(w, Asked)
  /\ epoll' = epoll \ Entry(w)
  /\ fd' = [fd EXCEPT ![w] = None]
  /\ UNCHANGED <<unused, batch>>

(* uv__io_close, which takes the descriptor out of the batch and of epoll, *)
(* and close.                                                              *)
Close(w) ==
  /\ w \in Open
  /\ Stopped(w, Asked)
  /\ batch' = [k \in DOMAIN batch |->
                 IF batch[k].fd = fd[w] THEN [batch[k] EXCEPT !.fd = None]
                 ELSE batch[k]]
  /\ epoll' = epoll \ Entry(w)
  /\ fd' = [fd EXCEPT ![w] = None]
  /\ UNCHANGED unused

User == /\ UserCode
        /\ \E w \in Watchers :
             \/ OpenFd(w) \/ Close(w)
             \/ \E e \in SUBSET Asked \ {{}} : Start(w, e) \/ Stop(w, e)
        /\ UNCHANGED <<pc, now>>

-----------------------------------------------------------------------------
(* uv__io_poll.                                                            *)

(* The changed watchers: EPOLL_CTL_ADD if w->events is 0, which becomes    *)
(* EPOLL_CTL_MOD if the kernel has the descriptor, and EPOLL_CTL_MOD       *)
(* otherwise (NeverAborts says that the kernel has it then).               *)
Update ==
  /\ pc = "run"
  /\ epoll' = (epoll \ UNION {Entry(w) : w \in changed})
              \cup {[fd |-> fd[w], file |-> w, events |-> pevents[w]] :
                      w \in changed}
  /\ events' = [w \in Watchers |-> IF w \in changed THEN pevents[w]
                                   ELSE events[w]]
  /\ changed' = {}
  /\ pc' = "wait"
  /\ UNCHANGED <<fd, unused, pevents, watchers, batch, now>>

(* epoll_pwait: some of what is watched, in any order, with some of the    *)
(* events asked for, or an error or a hangup, that no one has to ask for.  *)
Waits == pc \in {"wait", "again"}
Handles == pc \in {"batch", "more", "called"}

Raised(x) == {e \in SUBSET (x.events \cup Always) : e # {}}

Wait ==
  /\ Waits
  /\ \E some \in SUBSET epoll \ {{}} : \E order \in SetToSeqs(some) :
       \E e \in [some -> SUBSET (Asked \cup Always)] :
         /\ \A x \in some : e[x] \in Raised(x)
         /\ batch' = [k \in DOMAIN order |->
              [fd |-> order[k].fd, file |-> order[k].file,
               events |-> e[order[k]]]]
  /\ pc' = IF pc = "wait" THEN "batch" ELSE "more"
  /\ UNCHANGED <<fd, unused, registry, epoll, now>>

(* The timeout, or no watcher at all.                                      *)
TimedOut == /\ Waits
            /\ pc' = "run"
            /\ UNCHANGED <<fd, unused, registry, epoll, batch, now>>

(* What a callback is given of the events e.                               *)
Given(w, e) == LET g == e \cap (pevents[w] \cup Always)
               IN  IF g \in {{"ERR"}, {"HUP"}} THEN g \cup pevents[w] ELSE g

(* An event whose descriptor was closed, or whose watcher does not want    *)
(* it, is skipped ...                                                      *)
Skip == /\ Handles /\ batch # <<>>
        /\ \/ Head(batch).fd = None
           \/ /\ Head(batch).fd # None
              /\ watchers[Head(batch).fd] # None
              /\ Given(watchers[Head(batch).fd], Head(batch).events) = {}
        /\ batch' = Tail(batch)
        /\ UNCHANGED <<fd, unused, registry, epoll, pc, now>>

(* ... one that nobody watches is disarmed ...                             *)
Disarm == /\ Handles /\ batch # <<>>
          /\ Head(batch).fd # None
          /\ watchers[Head(batch).fd] = None
          /\ epoll' = {x \in epoll : ~(/\ x.fd = Head(batch).fd
                                       /\ x.file \in Open
                                       /\ fd[x.file] = x.fd)}
          /\ batch' = Tail(batch)
          /\ UNCHANGED <<fd, unused, registry, pc, now>>

(* ... and the others go to the callback of the watcher the descriptor     *)
(* belongs to now.                                                         *)
CallBack == /\ Handles /\ batch # <<>>
            /\ Head(batch).fd # None
            /\ LET w == watchers[Head(batch).fd]
               IN  /\ w # None
                   /\ Given(w, Head(batch).events) # {}
                   /\ now' = [to |-> w, file |-> Head(batch).file]
            /\ batch' = Tail(batch)
            /\ pc' = "callback"
            /\ UNCHANGED <<fd, unused, registry, epoll>>

Return == /\ pc = "callback"
          /\ pc' = "called"
          /\ now' = [to |-> None, file |-> None]
          /\ UNCHANGED <<fd, unused, registry, epoll, batch>>

(* The poll is over, unless the array was full: then it asks for more, and *)
(* does not tell the kernel of changes first.  If nothing was called, it   *)
(* goes on waiting, unless it only asked for more.                         *)
BatchDone == /\ Handles /\ batch = <<>>
             /\ pc' \in CASE pc = "called" -> {"run", "again"}
                        [] pc = "more" -> {"run"}
                        [] pc = "batch" -> {"wait"}
             /\ UNCHANGED <<fd, unused, registry, epoll, batch, now>>

Poll == Skip \/ Disarm \/ CallBack \/ Return \/ BatchDone

Next == User \/ Update \/ Wait \/ TimedOut \/ Poll

Spec == Init /\ [][Next]_vars

-----------------------------------------------------------------------------
(* Properties.                                                             *)

Ofd == [fd : Fds \cup {None}, file : Watchers,
        events : SUBSET (Asked \cup Always)]

TypeOK == /\ fd \in [Watchers -> Fds \cup {None}]
          /\ unused \in SUBSET Watchers
          /\ pevents \in [Watchers -> SUBSET Asked]
          /\ events \in [Watchers -> SUBSET Asked]
          /\ changed \subseteq {w \in Watchers : pevents[w] # {}}
          /\ watchers \in [Fds -> Watchers \cup {None}]
          /\ epoll \in SUBSET Ofd /\ batch \in Seq(Ofd)
          /\ pc \in {"run", "wait", "again", "batch", "more", "called",
                    "callback"}
          /\ now \in [to : Watchers \cup {None}, file : Watchers \cup {None}]
          /\ \A v, w \in Open : fd[v] = fd[w] => v = w

(* A callback is called for an event of its own file, although callbacks   *)
(* before it in the batch close descriptors and open others under the same *)
(* number, and although the file of a closed descriptor may live on in     *)
(* another process and raise events.                                       *)
OwnEvents == now.to = now.file

(* When the loop waits, the kernel watches for exactly what the watchers   *)
(* ask for: no watcher waits for an event the kernel was not told of,      *)
(* whatever was started, stopped and started again since the last poll and *)
(* whatever was disarmed in it.                                            *)
KernelKnows ==
  pc = "wait" =>
    \A w \in Watchers : pevents[w] # {} =>
      [fd |-> fd[w], file |-> w, events |-> pevents[w]] \in epoll

(* The EPOLL_CTL_MOD of a watcher whose events are not 0 finds it in the   *)
(* kernel: linux.c:1413 asserts it, 1312 aborts otherwise.  What is closed *)
(* or disarmed goes together with w->events.                               *)
NeverAborts == pc = "run" => \A w \in changed : events[w] # {} => Entry(w) # {}

(* The table of watchers has the watchers that ask for something, at their *)
(* descriptors, and nothing else: a closed or stopped watcher is not       *)
(* called, and none overwrites another.                                    *)
TableExact ==
  /\ \A w \in Watchers : pevents[w] # {} => fd[w] # None /\ watchers[fd[w]] = w
  /\ \A f \in Fds : watchers[f] # None =>
       fd[watchers[f]] = f /\ pevents[watchers[f]] # {}

(* The kernel watches no file that was closed here.                        *)
NoJunk == \A x \in epoll : fd[x.file] = x.fd
=============================================================================
