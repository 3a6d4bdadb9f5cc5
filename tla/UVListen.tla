------------------------------ MODULE UVListen ------------------------------
(***************************************************************************)
(* A listening stream of libuv: connections wait in the kernel, one at a   *)
(* time waits in the stream for uv_accept, and the process has a limit of  *)
(* descriptors, which other threads use too.  At the limit the loop gives  *)
(* up a spare descriptor to turn the waiting connections away.             *)
(***************************************************************************)
EXTENDS Integers, FiniteSets

CONSTANTS Conns, None,
          Limit   \* descriptors the process may have, but for those the
                  \* loop and the server always use

ConstantsOK == /\ IsFiniteSet(Conns) /\ None \notin Conns
               /\ Limit \in Nat \ {0}

VARIABLES
  conn,      \* conn[c]: "new", "waiting" in the kernel, "open" in this
             \* process, "closed"
  accepted,  \* accepted_fd: the connection it is for
  polled,    \* the watcher asks for POLLIN
  server,    \* "open", "closed"
  spare,     \* the loop has its emfile_fd
  used,      \* descriptors of connections in this process
  others,    \* descriptors other threads opened
  pc,        \* "idle", "callback", "trick": in uv__emfile_trick
  failedLate,  \* history: uv_accept failed when the server was not polled
  raced      \* history: others opened a descriptor during the trick

vars == <<conn, accepted, polled, server, spare, used, others, pc,
          failedLate, raced>>

Init == /\ conn = [c \in Conns |-> "new"]
        /\ accepted = None /\ polled = TRUE /\ server = "open"
        /\ spare = TRUE /\ used = 0 /\ others = 0
        /\ pc = "idle" /\ failedLate = FALSE /\ raced = FALSE

Waiting == {c \in Conns : conn[c] = "waiting"}
Spare == IF spare THEN 1 ELSE 0
Free == used + others + Spare < Limit

-----------------------------------------------------------------------------
(* The kernel and the other threads.                                       *)

Arrive(c) == /\ conn[c] = "new" /\ server = "open"
             /\ conn' = [conn EXCEPT ![c] = "waiting"]
             /\ UNCHANGED <<accepted, used, others, raced>>

(* The peer gives up before it was accepted.                               *)
GiveUp(c) == /\ conn[c] = "waiting"
             /\ conn' = [conn EXCEPT ![c] = "closed"]
             /\ UNCHANGED <<accepted, used, others, raced>>

(* A connection that was accepted is closed by its user.                   *)
CloseConn(c) == /\ conn[c] = "open" /\ c # accepted
                /\ conn' = [conn EXCEPT ![c] = "closed"]
                /\ used' = used - 1
                /\ UNCHANGED <<accepted, others, raced>>

OthersOpen == /\ Free
              /\ others' = others + 1
              /\ raced' = (raced \/ pc = "trick")
              /\ UNCHANGED <<conn, accepted, used>>

OthersClose == /\ others > 0
               /\ others' = others - 1
               /\ UNCHANGED <<conn, accepted, used, raced>>

Environment ==
  /\ \/ \E c \in Conns : Arrive(c) \/ GiveUp(c) \/ CloseConn(c)
     \/ OthersOpen \/ OthersClose
  /\ UNCHANGED <<polled, server, spare, pc, failedLate>>

-----------------------------------------------------------------------------
(* uv__server_io.                                                          *)

Event == pc = "idle" /\ server = "open" /\ polled /\ Waiting # {}

(* A connection is accepted and the callback is called ...                 *)
ServerIo ==
  /\ Event /\ Free
  /\ \E c \in Waiting : /\ accepted' = c
                        /\ conn' = [conn EXCEPT ![c] = "open"]
  /\ used' = used + 1
  /\ pc' = "callback"
  /\ UNCHANGED <<polled, server, spare>>

(* ... or there is no descriptor left: uv__emfile_trick gives up the spare *)
(* one, if there still is one.                                             *)
TrickBegins ==
  /\ Event /\ ~Free /\ spare
  /\ spare' = FALSE
  /\ pc' = "trick"
  /\ UNCHANGED <<conn, accepted, polled, server, used>>

(* Accepted and closed at once, as long as there are any ...               *)
TrickAccepts ==
  /\ pc = "trick" /\ Waiting # {} /\ Free
  /\ \E c \in Waiting : conn' = [conn EXCEPT ![c] = "closed"]
  /\ UNCHANGED <<accepted, polled, server, spare, used, pc>>

(* ... and a new spare descriptor, if it can be had.                       *)
TrickEnds ==
  /\ pc = "trick" /\ (Waiting = {} \/ ~Free)
  /\ spare' = Free
  /\ pc' = "idle"
  /\ UNCHANGED <<conn, accepted, polled, server, used>>

(* The callback returns: not polled until the connection is taken.         *)
Return ==
  /\ pc = "callback"
  /\ polled' = (polled /\ accepted = None)
  /\ pc' = "idle"
  /\ UNCHANGED <<conn, accepted, server, spare, used>>

ServerStep == /\ \/ ServerIo \/ TrickBegins \/ TrickAccepts \/ TrickEnds
                 \/ Return
              /\ UNCHANGED <<others, failedLate, raced>>

-----------------------------------------------------------------------------
(* Calls of the user, in the callback or later.                            *)

UserCode == pc \in {"idle", "callback"} /\ server = "open"

(* Variant of Accept: the watcher is not started again.                    *)
AcceptStaysDeaf ==
  /\ UserCode /\ accepted # None
  /\ accepted' = None
  /\ UNCHANGED <<polled, conn, server, spare, used, failedLate>>

Accept ==
  /\ UserCode /\ accepted # None
  /\ accepted' = None
  /\ polled' = TRUE
  /\ UNCHANGED <<conn, server, spare, used, failedLate>>

(* uv_accept fails: the descriptor is closed, and polling does not resume. *)
AcceptFails ==
  /\ UserCode /\ accepted # None
  /\ conn' = [conn EXCEPT ![accepted] = "closed"]
  /\ used' = used - 1
  /\ accepted' = None
  /\ failedLate' = (failedLate \/ ~polled)
  /\ UNCHANGED <<polled, server, spare>>

(* uv__stream_close: the connection nobody took is closed, and the kernel  *)
(* closes those it has.                                                    *)
Close ==
  /\ UserCode
  /\ server' = "closed" /\ polled' = FALSE
  /\ conn' = [c \in Conns |-> IF conn[c] = "waiting" \/ c = accepted
                              THEN "closed" ELSE conn[c]]
  /\ used' = IF accepted = None THEN used ELSE used - 1
  /\ accepted' = None
  /\ UNCHANGED <<spare, failedLate>>

UserStep == /\ Accept \/ AcceptFails \/ Close
            /\ UNCHANGED <<others, pc, raced>>

Next == Environment \/ ServerStep \/ UserStep

(* The loop goes on and the user takes, sooner or later, what it was told  *)
(* of.  Other threads may come in between whenever they like.              *)
Taken == Accept /\ UNCHANGED <<others, pc, raced>>

Fairness == WF_vars(ServerStep) /\ WF_vars(Taken)

Spec == Init /\ [][Next]_vars /\ Fairness

-----------------------------------------------------------------------------
(* Properties.                                                             *)

TypeOK == /\ conn \in [Conns -> {"new", "waiting", "open", "closed"}]
          /\ accepted \in Conns \cup {None}
          /\ accepted # None => conn[accepted] = "open"
          /\ polled \in BOOLEAN /\ server \in {"open", "closed"}
          /\ spare \in BOOLEAN /\ used \in 0..Limit /\ others \in 0..Limit
          /\ used + others + Spare <= Limit
          /\ pc \in {"idle", "callback", "trick"}
          /\ failedLate \in BOOLEAN /\ raced \in BOOLEAN

(* stream.c:515: uv__server_io is not entered while a connection waits to  *)
(* be taken, which it would overwrite, whether the user takes it in the    *)
(* callback, later, or never.                                              *)
OneAtATime == pc = "idle" /\ polled => accepted = None

(* No descriptor is lost: those of this process belong to a connection     *)
(* that is open or waits to be taken, after failures, in the trick and     *)
(* when the server is closed too.                                          *)
NoLeak == used = Cardinality({c \in Conns : conn[c] = "open"})

(* An open server that holds no connection is polled, unless uv_accept     *)
(* failed after the callback had returned.                                 *)
NotDeaf == server = "open" /\ accepted = None /\ pc = "idle"
             => polled \/ failedLate

(* The spare descriptor is lost only to another thread that opens one in   *)
(* the middle of the trick, the caveat of stream.c:479.                    *)
SpareLostInRace == ~spare /\ pc # "trick" => raced

(* A server takes connections one at a time, loses no descriptor and does  *)
(* not go deaf, at the limit of descriptors too.                           *)
ListenServes == TypeOK /\ OneAtATime /\ NoLeak /\ NotDeaf /\ SpareLostInRace

(* A connection does not wait for ever, even at the limit of descriptors,  *)
(* as long as there is the spare one.                                      *)
ConnServed(c) ==
  conn[c] = "waiting"
    ~> conn[c] # "waiting" \/ (~spare /\ pc = "idle") \/ failedLate
=============================================================================
