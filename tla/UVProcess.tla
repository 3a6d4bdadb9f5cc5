----------------------------- MODULE UVProcess -----------------------------
(***************************************************************************)
(* Child processes (unix/process.c): uv_spawn, the walks of                *)
(* uv__wait_children after a SIGCHLD, and exit callbacks that close other  *)
(* processes and spawn new ones.  The two lists are those of queue.h, with *)
(* the pointers that a removed element keeps.                              *)
(***************************************************************************)
EXTENDS Naturals, FiniteSets

CONSTANTS Procs,
          Handles,  \* the head of loop->process_handles
          Pending   \* the head of the list that is local to the walk

VARIABLES
  link,      \* link.next and link.prev
  life,      \* life[p]: "new", "open", "closed" by uv_close; the memory may
             \* be gone when the loop gets to the close callback
  active,    \* the handles for which uv__is_active
  child,     \* child[p]: "none", "running", "zombie", "reaped", "stolen"
  watching,  \* loop->child_watcher is started
  sigchld,   \* a SIGCHLD that this loop has caught was not dispatched yet
  at,        \* "run", "wait" and "report": the loops of uv__wait_children,
             \* "callback"
  q,         \* the element the loop looks at next
  called,    \* history: called[p], the number of exit callbacks
  late       \* history: the handles closed since the walk began

walk == <<at, q>>
vars == <<link, life, active, child, watching, sigchld, walk, called, late>>

Elements == Procs \cup {Handles, Pending}

Init == /\ link = [next |-> [e \in Elements |-> e],
                   prev |-> [e \in Elements |-> e]]
        /\ life = [p \in Procs |-> "new"]
        /\ active = {}
        /\ child = [p \in Procs |-> "none"]
        /\ watching = FALSE /\ sigchld = FALSE
        /\ at = "run" /\ q = Handles
        /\ called = [p \in Procs |-> 0] /\ late = {}

-----------------------------------------------------------------------------
(* queue.h.                                                                *)

uv__queue_empty(h) == link.next[h] = h

uv__queue_init(l, e) == [next |-> [l.next EXCEPT ![e] = e],
                         prev |-> [l.prev EXCEPT ![e] = e]]

uv__queue_insert_tail(l, h, e) ==
  LET last == l.prev[h] IN
  [next |-> [l.next EXCEPT ![e] = h, ![last] = e],
   prev |-> [l.prev EXCEPT ![e] = last, ![h] = e]]

(* The element keeps its own pointers.                                     *)
uv__queue_remove(l, e) ==
  [next |-> [l.next EXCEPT ![l.prev[e]] = l.next[e]],
   prev |-> [l.prev EXCEPT ![l.next[e]] = l.prev[e]]]

-----------------------------------------------------------------------------
(* Calls of the user, between callbacks and in exit callbacks.             *)

UserCode == at \in {"run", "callback"}

(* uv_spawn, and the child runs its program: it sleeps until the pipe of   *)
(* exec is closed, but lets nothing else of the loop run.                  *)
Spawn(p) ==
  /\ UserCode /\ life[p] = "new"
  /\ life' = [life EXCEPT ![p] = "open"]
  /\ watching' = TRUE
  /\ child' = [child EXCEPT ![p] = "running"]
  /\ link' = uv__queue_insert_tail(link, Handles, p)
  /\ active' = active \cup {p}
  /\ UNCHANGED <<sigchld, walk, called, late>>

(* The program cannot be executed: uv_spawn waits for the child, whose     *)
(* SIGCHLD comes all the same, and the handle is not in any list.          *)
SpawnFails(p) ==
  /\ UserCode /\ life[p] = "new"
  /\ life' = [life EXCEPT ![p] = "open"]
  /\ watching' = TRUE /\ sigchld' = TRUE
  /\ child' = [child EXCEPT ![p] = "reaped"]
  /\ UNCHANGED <<link, active, walk, called, late>>

(* Variant of Close: the handle stays in its list.                         *)
CloseKeepsLinks(p) ==
  /\ UserCode /\ life[p] = "open"
  /\ life' = [life EXCEPT ![p] = "closed"]
  /\ active' = active \ {p}
  /\ watching' = (watching /\ ~uv__queue_empty(Handles))
  /\ late' = IF at = "callback" THEN late \cup {p} ELSE late
  /\ UNCHANGED <<link, child, sigchld, walk, called>>

(* uv__process_close.                                                      *)
Close(p) ==
  /\ UserCode /\ life[p] = "open"
  /\ life' = [life EXCEPT ![p] = "closed"]
  /\ link' = uv__queue_remove(link, p)
  /\ active' = active \ {p}
  /\ watching' = (watching /\ link'.next[Handles] # Handles)
  /\ late' = IF at = "callback" THEN late \cup {p} ELSE late
  /\ UNCHANGED <<child, sigchld, walk, called>>

User == \E p \in Procs : Spawn(p) \/ SpawnFails(p) \/ Close(p)

-----------------------------------------------------------------------------
(* The child dies; someone else in the program may wait for it before this *)
(* loop does, which then finds none (ECHILD).                              *)
ChildExits(p) ==
  /\ child[p] = "running"
  /\ \E c \in {"zombie", "stolen"} : child' = [child EXCEPT ![p] = c]
  /\ sigchld' = (sigchld \/ watching)
  /\ UNCHANGED <<link, life, active, watching, walk, called, late>>

-----------------------------------------------------------------------------
(* uv__wait_children.                                                      *)

(* uv__chld, or nobody watches any more.                                   *)
Dispatch ==
  /\ at = "run" /\ sigchld
  /\ sigchld' = FALSE
  /\ IF watching
     THEN at' = "wait" /\ q' = link.next[Handles] /\ late' = {}
     ELSE UNCHANGED <<walk, late>>
  /\ UNCHANGED <<link, life, active, child, watching, called>>

(* The first loop waits for each child; those that are dead go to Pending. *)
WaitFor ==
  /\ at = "wait" /\ q # Handles
  /\ q' = link.next[q]
  /\ IF child[q] = "zombie"
     THEN /\ child' = [child EXCEPT ![q] = "reaped"]
          /\ link' = uv__queue_insert_tail(uv__queue_remove(link, q), Pending, q)
     ELSE UNCHANGED <<child, link>>
  /\ UNCHANGED <<life, active, watching, sigchld, at, called, late>>

WaitEnds ==
  /\ at = "wait" /\ q = Handles
  /\ at' = "report" /\ q' = link.next[Pending]
  /\ UNCHANGED <<link, life, active, child, watching, sigchld, called, late>>

(* The second loop calls back.  It has read the next element before.       *)
Report ==
  /\ at = "report" /\ q # Pending
  /\ q' = link.next[q]
  /\ link' = uv__queue_init(uv__queue_remove(link, q), q)
  /\ active' = active \ {q}
  /\ called' = [called EXCEPT ![q] = @ + 1]
  /\ at' = "callback"
  /\ UNCHANGED <<life, child, watching, sigchld, late>>

Return ==
  /\ at = "callback"
  /\ at' = "report"
  /\ UNCHANGED <<link, life, active, child, watching, sigchld, q, called, late>>

ReportEnds ==
  /\ at = "report" /\ q = Pending
  /\ at' = "run" /\ q' = Handles
  /\ UNCHANGED <<link, life, active, child, watching, sigchld, called, late>>

Loop == Dispatch \/ WaitFor \/ WaitEnds \/ Report \/ Return \/ ReportEnds
Next == \/ User \/ Loop
        \/ \E p \in Procs : ChildExits(p)

(* The loop goes on, and callbacks return.                                 *)
Spec == Init /\ [][Next]_vars /\ WF_vars(Loop)

-----------------------------------------------------------------------------
(* Properties.                                                             *)

TypeOK == /\ link \in [next : [Elements -> Elements],
                       prev : [Elements -> Elements]]
          /\ life \in [Procs -> {"new", "open", "closed"}]
          /\ active \subseteq Procs
          /\ child \in [Procs ->
                          {"none", "running", "zombie", "reaped", "stolen"}]
          /\ watching \in BOOLEAN /\ sigchld \in BOOLEAN
          /\ at \in {"run", "wait", "report", "callback"}
          /\ q \in Elements
          /\ called \in [Procs -> Nat] /\ late \subseteq Procs

(* The assertion at process.c:176: all that died were reported, whatever   *)
(* the callbacks have removed from the list that is walked.                *)
PendingIsEmpty == at = "run" => uv__queue_empty(Pending)

(* The k-th element behind the head h, or the head when there are fewer.   *)
Behind(h) ==
  LET step[k \in 0..Cardinality(Procs)] ==
        IF k = 0 THEN h
        ELSE IF k > 1 /\ step[k - 1] = h THEN h ELSE link.next[step[k - 1]]
  IN {step[k] : k \in 1..Cardinality(Procs)} \ {h}

(* The loop waits for the active handles, and for no other: not for one    *)
(* that is closed and whose memory may be gone, nor one that never ran.    *)
WaitsForActive ==
  /\ at \in {"run", "wait"} => Behind(Handles) \cup Behind(Pending) = active
  /\ \A p \in Behind(Handles) : link.prev[link.next[p]] = p

(* A child is reported once, after it was waited for; its handle may have  *)
(* been closed, but only by a callback of the same walk: the element that  *)
(* the loop looks at next is not looked up again.                          *)
ReportedOnce == \A p \in Procs : called[p] <= IF child[p] = "reaped" THEN 1 ELSE 0

LateReports ==
  [][\A p \in Procs :
       called'[p] # called[p] => life[p] = "open" \/ p \in late]_vars

(* Who dies is reported, unless his handle is closed or somebody else has  *)
(* waited for him; SIGCHLDs that become one, that come during the walk or  *)
(* for a child that ran no program, make no difference.                    *)
DeathReported(p) ==
  child[p] = "zombie" /\ p \in active ~> called[p] = 1 \/ life[p] # "open"
=============================================================================
