------------------------------- MODULE UVTcp -------------------------------
(***************************************************************************)
(* The TCP side of UVCore: UVTcpManager with its two containers, servers,  *)
(* connections and the responses they keep, the raw callbacks libuv calls, *)
(* and the controllers that other threads hold.                            *)
(*                                                                         *)
(* Three things that do not end together are kept apart for each server    *)
(* and connection: its place in a container under an id that is used       *)
(* again, the Swift object, and the uv_tcp_t embedded in the object, which *)
(* libuv uses until its close callback.                                    *)
(*                                                                         *)
(* An action of the loop is a whole handler.  Queue and wakeup are those   *)
(* of UVExecutionThread and take one step here; what a stream does with a  *)
(* write is UVStream's.                                                    *)
(***************************************************************************)
EXTENDS Naturals, Sequences, FiniteSets, SequencesExt

CONSTANTS Servers, Conns,  \* the servers and connections of a behaviour
          Writes,          \* the calls of write
          Ids,             \* the ids the containers hand out
          None,
          AcceptMayFail,   \* may uv_accept fail (it can on Apple systems)
          MaxCalls,        \* bound: calls of read and close
          MaxHeard         \* bound: read callbacks of a connection

Handles == Servers \cup Conns

ASSUME HandlesDisjoint == Servers \cap Conns = {} /\ None \notin Handles
ASSUME NoneIsNobody == None \notin [from : Conns, to : Conns]
ASSUME IdsSuffice == /\ IsFiniteSet(Ids) /\ IsFiniteSet(Handles)
                     /\ Cardinality(Conns) <= Cardinality(Ids)
                     /\ Cardinality(Servers) <= Cardinality(Ids)
                     /\ None \notin Ids
ASSUME BoundsAssumption == /\ MaxCalls \in Nat /\ MaxHeard \in Nat
                           /\ AcceptMayFail \in BOOLEAN

VARIABLES
  queue,     \* the commands in the queue of the thread
  lp,        \* the phase of uv_run
  held,      \* the handles whose object a container holds ...
  id,        \* ... and the id it was given
  serverOf,  \* serverOf[c]: the server object c retains
  hnd,       \* life of the uv_tcp_t
  opened,    \* the field `opened` of the Swift object
  onClose,   \* what the callback given to uv_close does
  closing,   \* loop->closing_handles, newest first
  batch,     \* the closing handles this iteration still has to finish
  deaf,      \* servers with a descriptor nobody accepts: not polled
  called,    \* connections with read callbacks
  reading,   \* UV_HANDLE_READING
  writes,    \* writes[c]: the responses of c whose callback is owed
  ctrl,      \* ctrl[c]: the controller of c
  calls,     \* number of calls of read and close
  stopped,   \* the stop command was taken
  end,       \* "running", "aborted" by an assertion, "crashed"
  twice,     \* history: the handles uv_close was called for although they
             \* were closing
  heard,     \* history, heard[c]: the read and disconnect callbacks of c
             \* and the stream they were for
  answers,   \* history, answers[w]: calls of the callback of w
  sentTo,    \* history: the connection w was meant for, and got to
  dropped,   \* history: the writes no connection was found for
  cut        \* history: handles taken from their container by anything
             \* but their own close callback

uv == <<hnd, opened, onClose, closing>>
objects == <<held, id, serverOf, uv, end, twice, cut>>
reads == <<called, reading, heard>>
replies == <<writes, answers, sentTo, dropped>>
users == <<ctrl, calls>>
vars == <<queue, lp, objects, batch, deaf, reads, replies, users, stopped>>

Init == /\ queue = <<>> /\ lp = "poll"
        /\ held = {}
        /\ id = [h \in Handles |-> None]
        /\ serverOf = [c \in Conns |-> None]
        /\ hnd = [h \in Handles |-> "none"]
        /\ opened = [h \in Handles |-> TRUE]
        /\ onClose = [h \in Handles |-> "none"]
        /\ closing = <<>> /\ batch = <<>>
        /\ deaf = {} /\ called = {} /\ reading = {}
        /\ writes = [c \in Conns |-> <<>>]
        /\ ctrl = [c \in Conns |-> "none"]
        /\ calls = 0 /\ stopped = FALSE /\ end = "running"
        /\ heard = [c \in Conns |-> <<>>]
        /\ answers = [w \in Writes |-> 0]
        /\ sentTo = [w \in Writes |-> None]
        /\ dropped = {} /\ cut = {} /\ twice = {}

-----------------------------------------------------------------------------
(* Objects.                                                                *)

(* find(by:) of a container: the handle that has the id now.               *)
Server(i) == {s \in held \cap Servers : id[s] = i}
Conn(i) == {c \in held \cap Conns : id[c] = i}

(* Who is found by the id that the callbacks of h were given.              *)
Holder(h) == IF h \in Conns THEN Conn(id[h]) ELSE Server(id[h])

(* retain of a container: any id that is free.                             *)
NewId(h, kind) ==
  \E i \in Ids \ {id[x] : x \in held \cap kind} : id' = [id EXCEPT ![h] = i]

(* The objects that are retained if the containers hold h and the writes w *)
(* are pending: a response retains its connection, which retains the       *)
(* response; a connection retains its server.                              *)
LiveConns(h, w) == (h \cap Conns) \cup {c \in Conns : w[c] # <<>>}
LiveObjects(h, w) == LiveConns(h, w) \cup (h \cap Servers)
                     \cup {serverOf[c] : c \in LiveConns(h, w)}
Live == LiveObjects(held, writes)

(* close() of the objects cs: those that have not called it before.        *)
Close(cs) == {h \in cs : opened[h]}

(* uv_close for the handles cs, in the order in which objects go away: a   *)
(* connection before its server.  life is the state of the handles, and    *)
(* uv_close asserts that none of them is closing yet.                      *)
CloseHandles(life, cs) ==
  IF \E h \in cs : life[h] \in {"closing", "closed"}
  THEN /\ end' = "aborted"
       /\ twice' = {h \in cs : life[h] \in {"closing", "closed"}}
       /\ UNCHANGED uv
  ELSE /\ hnd' = [h \in Handles |-> IF h \in cs THEN "closing" ELSE life[h]]
       /\ opened' = [h \in Handles |-> opened[h] /\ h \notin cs]
       /\ onClose' = [h \in Handles |-> IF h \in cs THEN "release"
                                        ELSE onClose[h]]
       /\ closing' = SetToSeq(cs \cap Servers) \o SetToSeq(cs \cap Conns)
                                               \o closing
       /\ UNCHANGED <<end, twice>>

(* Variant of Retain: deinit closes without looking at `opened`.           *)
RetainClosesAgain(life, h, w, cs) ==
  /\ held' = h
  /\ writes' = w
  /\ CloseHandles(life, cs \cup (Live \ LiveObjects(h, w)))

(* The containers come to hold h and the writes w are pending, after       *)
(* close() was called for cs; deinit of every object that loses its last   *)
(* reference calls close() too.                                            *)
Retain(life, h, w, cs) ==
  /\ held' = h
  /\ writes' = w
  /\ CloseHandles(life, Close(cs \cup (Live \ LiveObjects(h, w))))

-----------------------------------------------------------------------------
(* Calls of other threads, and of callbacks on the loop.                   *)

Add(cmd) == queue' = Append(queue, cmd)
Queued == {queue[k] : k \in 1..Len(queue)}

(* UVExecutionThread.startListening.                                       *)
Listen(s) ==
  /\ hnd[s] = "none" /\ [op |-> "listen", of |-> s] \notin Queued
  /\ Add([op |-> "listen", of |-> s])
  /\ UNCHANGED users

(* UVTcpConnectionController: read, close, and deinit, which closes too.   *)
Call(c, op) ==
  /\ ctrl[c] = "held" /\ calls < MaxCalls
  /\ calls' = calls + 1
  /\ Add([op |-> op, of |-> c])
  /\ UNCHANGED ctrl

Drop(c) ==
  /\ ctrl[c] = "held"
  /\ ctrl' = [ctrl EXCEPT ![c] = "dropped"]
  /\ Add([op |-> "close", of |-> c])
  /\ UNCHANGED calls

Write(c, w) ==
  /\ ctrl[c] = "held"
  /\ sentTo[w] = None /\ w \notin dropped
  /\ \A cmd \in Queued : cmd.op = "write" => cmd.w # w
  /\ Add([op |-> "write", of |-> c, w |-> w])
  /\ UNCHANGED users

(* UVExecutionThread.cancel, once: UVExecutionThread is about two of them. *)
Cancel ==
  /\ ~stopped /\ [op |-> "stop", of |-> None] \notin Queued
  /\ Add([op |-> "stop", of |-> None])
  /\ UNCHANGED users

Users ==
  /\ \/ \E s \in Servers : Listen(s)
     \/ \E c \in Conns : Call(c, "read") \/ Call(c, "close") \/ Drop(c)
     \/ \E c \in Conns, w \in Writes : Write(c, w)
     \/ Cancel
  /\ UNCHANGED <<lp, objects, batch, deaf, reads, replies, stopped>>

-----------------------------------------------------------------------------
(* UVJobs.handleJobs.                                                      *)

First(op) == Head(queue).op = op
Target == Head(queue).of

(* UVTcpManager.start: bind and listen succeed ...                         *)
ListenSucceeds ==
  /\ First("listen")
  /\ NewId(Target, Servers)
  /\ held' = held \cup {Target}
  /\ hnd' = [hnd EXCEPT ![Target] = "open"]
  /\ UNCHANGED <<serverOf, opened, onClose, closing, end, twice, cut, reads,
                 replies, stopped>>

(* ... or one of them fails: the server is closed and released at once.    *)
ListenFails ==
  /\ First("listen")
  /\ NewId(Target, Servers)
  /\ Retain(hnd, held, writes, {Target})
  /\ cut' = cut \cup {Target}
  /\ UNCHANGED <<serverOf, reads, answers, sentTo, dropped, stopped>>

(* The connection the command names, if its server is there.               *)
Named == IF Server(id[serverOf[Target]]) = {} THEN {} ELSE Conn(id[Target])

(* UVTcpManager.startReading, UVTcpConnection.startReading.                *)
ReadNobody == /\ First("read")
              /\ Named = {}
              /\ UNCHANGED <<objects, reads, replies, stopped>>

ReadStarts ==
  /\ First("read")
  /\ \E c \in Named : /\ hnd[c] = "open" /\ c \notin reading
                      /\ called' = called \cup {c}
                      /\ reading' = reading \cup {c}
  /\ UNCHANGED <<objects, heard, replies, stopped>>

(* uv_read_start fails, with EALREADY or EINVAL: close().                  *)
ReadFails ==
  /\ First("read")
  /\ \E c \in Named : /\ hnd[c] # "open" \/ c \in reading
                      /\ called' = called \cup {c}
                      /\ Retain(hnd, held, writes, {c})
  /\ UNCHANGED <<id, serverOf, cut, reading, heard, answers, sentTo, dropped,
                 stopped>>

(* UVTcpManager.write, UVTcpConnection.write: nobody is there ...          *)
WriteNobody == /\ First("write")
               /\ Named = {}
               /\ dropped' = dropped \cup {Head(queue).w}
               /\ UNCHANGED <<objects, reads, writes, answers, sentTo, stopped>>

Sent(c) == sentTo' = [sentTo EXCEPT ![Head(queue).w] =
                        [from |-> Target, to |-> c]]
Answered(w) == answers' = [answers EXCEPT ![w] = @ + 1]

(* ... the stream takes the write (in the variant, in front of the others) *)
(* ...                                                                     *)
WriteStartsInFront ==
  /\ First("write")
  /\ \E c \in Named : /\ hnd[c] = "open"
                      /\ writes' = [writes EXCEPT ![c] = <<Head(queue).w>> \o @]
                      /\ Sent(c)
  /\ UNCHANGED <<objects, reads, answers, dropped, stopped>>

WriteStarts ==
  /\ First("write")
  /\ \E c \in Named : /\ hnd[c] = "open"
                      /\ writes' = [writes EXCEPT ![c] = Append(@, Head(queue).w)]
                      /\ Sent(c)
  /\ UNCHANGED <<objects, reads, answers, dropped, stopped>>

(* ... or uv_write fails, the handle being closed: finalise() at once.     *)
WriteFails ==
  /\ First("write")
  /\ \E c \in Named : hnd[c] # "open" /\ Sent(c)
  /\ Answered(Head(queue).w)
  /\ UNCHANGED <<objects, reads, writes, dropped, stopped>>

(* UVTcpManager.close(connection:).                                        *)
Release ==
  /\ First("close")
  /\ Retain(hnd, held \ Conn(id[Target]), writes, {})
  /\ cut' = cut \cup Conn(id[Target])
  /\ UNCHANGED <<id, serverOf, reads, answers, sentTo, dropped, stopped>>

(* UVJobs.stop: uv_walk closes every handle that is not closing, with a    *)
(* callback that does nothing, and behind the back of the objects.         *)
Stop ==
  /\ First("stop")
  /\ stopped' = TRUE
  /\ LET open == {h \in Handles : hnd[h] = "open"}
     IN  /\ hnd' = [h \in Handles |-> IF h \in open THEN "closing" ELSE hnd[h]]
         /\ onClose' = [h \in Handles |-> IF h \in open THEN "nothing"
                                          ELSE onClose[h]]
         /\ \E order \in SetToSeqs(open) : closing' = order \o closing
  /\ UNCHANGED <<held, id, serverOf, opened, end, twice, cut, reads, replies>>

TakeCommand ==
  /\ lp = "jobs" /\ queue # <<>>
  /\ queue' = Tail(queue)
  /\ \/ ListenSucceeds \/ ListenFails \/ Release \/ Stop
     \/ ReadNobody \/ ReadStarts \/ ReadFails
     \/ WriteNobody \/ WriteStarts \/ WriteFails
  /\ UNCHANGED <<lp, batch, deaf, users>>

-----------------------------------------------------------------------------
(* The events of a poll.  A stop does not end the batch of events, but it  *)
(* closes the descriptors the rest of the batch is for.                    *)

Incoming(s, c) == /\ hnd[s] = "open" /\ s \notin deaf
                  /\ hnd[c] = "none"
                  /\ ~stopped

(* uv__server_io, onTcpConnect, UVTcpManager.connect: the server the id    *)
(* stands for accepts the connection ...                                   *)
Connect(s, c) ==
  /\ Incoming(s, c)
  /\ s \in held
  /\ NewId(c, Conns)
  /\ held' = held \cup {c}
  /\ serverOf' = [serverOf EXCEPT ![c] = s]
  /\ hnd' = [hnd EXCEPT ![c] = "open"]
  /\ ctrl' = [ctrl EXCEPT ![c] = "held"]
  /\ UNCHANGED <<opened, onClose, closing, end, twice, cut, deaf, reads,
                 replies>>

(* ... uv_accept fails for it, or the id stands for another server, which  *)
(* has nothing to accept: the new connection is closed and released ...    *)
AcceptFails(s, c) ==
  /\ Incoming(s, c)
  /\ \E t \in Server(id[s]) :
       /\ t = s => AcceptMayFail
       /\ serverOf' = [serverOf EXCEPT ![c] = t]
       /\ deaf' = deaf \cup ({s} \ {t})
  /\ NewId(c, Conns)
  /\ Retain(hnd, held, writes, {c})
  /\ cut' = cut \cup {c}
  /\ UNCHANGED <<reads, answers, sentTo, dropped, ctrl>>

(* ... or there is no such server any more, and the descriptor stays       *)
(* where it is; the server is not polled until it is taken.                *)
ConnectNobody(s, c) ==
  /\ Incoming(s, c)
  /\ Server(id[s]) = {}
  /\ deaf' = deaf \cup {s}
  /\ UNCHANGED <<objects, reads, replies, ctrl>>

Polled(c) == hnd[c] = "open" /\ c \in reading
Note(c, what) == [from |-> c, what |-> what]

(* onTcpRead looks the connection up by the id the stream was given.       *)
ReadData(c) ==
  /\ Polled(c)
  /\ \E d \in Conn(id[c]) \cap called :
       /\ Len(heard[d]) < MaxHeard
       /\ heard' = [heard EXCEPT ![d] = Append(@, Note(c, "data"))]
  /\ UNCHANGED <<objects, deaf, called, reading, replies, ctrl>>

Disconnect(c) == heard' = [d \in Conns |->
                             IF d \in Conn(id[c]) \cap called
                             THEN Append(heard[d], Note(c, "end")) ELSE heard[d]]

(* Variants of ReadEnd: the connection is not closed, or it is released    *)
(* before its handle has been closed.                                      *)
ReadEndStaysOpen(c) ==
  /\ Polled(c)
  /\ Disconnect(c)
  /\ UNCHANGED <<objects, deaf, called, reading, replies, ctrl>>

ReadEndReleases(c) ==
  /\ Polled(c)
  /\ Disconnect(c)
  /\ reading' = reading \ {c}
  /\ Retain(hnd, held \ Conn(id[c]), writes, {})
  /\ UNCHANGED <<id, serverOf, cut, deaf, called, answers, sentTo, dropped,
                 ctrl>>

(* The end of the stream: the disconnect callback, then close() ...        *)
ReadEnd(c) ==
  /\ Polled(c)
  /\ Disconnect(c)
  /\ reading' = reading \ {c}
  /\ Retain(hnd, held, writes, Conn(id[c]))
  /\ UNCHANGED <<id, serverOf, cut, deaf, called, answers, sentTo, dropped,
                 ctrl>>

(* ... and any other error: close() alone.                                 *)
ReadError(c) ==
  /\ Polled(c)
  /\ reading' = reading \ {c}
  /\ Retain(hnd, held, writes, Conn(id[c]))
  /\ UNCHANGED <<id, serverOf, cut, deaf, called, heard, answers, sentTo,
                 dropped, ctrl>>

(* onTcpWrite: the stream is through with its oldest write, for better or  *)
(* worse; the response goes, and the connection if nothing else holds it.  *)
WriteDone(c) ==
  /\ hnd[c] = "open"
  /\ writes[c] # <<>>
  /\ Answered(Head(writes[c]))
  /\ Retain(hnd, held, [writes EXCEPT ![c] = Tail(@)], {})
  /\ UNCHANGED <<id, serverOf, cut, deaf, reads, sentTo, dropped, ctrl>>

PollStep(A) == lp = "poll" /\ A /\ UNCHANGED <<queue, lp, batch, calls, stopped>>

Network ==
  PollStep(\/ \E s \in Servers, c \in Conns :
                Connect(s, c) \/ AcceptFails(s, c) \/ ConnectNobody(s, c)
           \/ \E c \in Conns : ReadData(c) \/ ReadEnd(c) \/ ReadError(c)
                               \/ WriteDone(c))

-----------------------------------------------------------------------------
(* The loop: uv__io_poll, uv__run_closing_handles.                         *)

TakeCommands == /\ lp = "poll" /\ queue # <<>> /\ ~stopped
                /\ lp' = "jobs"
                /\ UNCHANGED <<queue, objects, batch, replies>>

CommandsDone == /\ lp = "jobs" /\ queue = <<>>
                /\ lp' = "poll"
                /\ UNCHANGED <<queue, objects, batch, replies>>

PollEnd == /\ lp = "poll"
           /\ lp' = "closing"
           /\ batch' = closing
           /\ closing' = <<>>
           /\ UNCHANGED <<queue, held, id, serverOf, hnd, opened, onClose, end,
                          twice, cut, replies>>

(* Variant of FinishClose: the callbacks of pending writes are left out.   *)
FinishCloseForgetsWrites ==
  /\ lp = "closing" /\ batch # <<>>
  /\ hnd' = [hnd EXCEPT ![Head(batch)] = "closed"]
  /\ lp' = "callback"
  /\ UNCHANGED <<queue, held, id, serverOf, opened, onClose, closing, end,
                 twice, cut, batch, replies>>

(* uv__finish_close, uv__stream_destroy: the writes that are left are      *)
(* cancelled and called back.  If one of them was all that held the        *)
(* connection, deinit finds it closed already, or, when uv_walk closed it, *)
(* closes it again.                                                        *)
FinishClose ==
  /\ lp = "closing" /\ batch # <<>>
  /\ LET h == Head(batch)
         left == [c \in Conns |-> IF c = h THEN <<>> ELSE writes[c]]
     IN  /\ answers' = [w \in Writes |->
              IF h \in Conns /\ \E k \in DOMAIN writes[h] : writes[h][k] = w
              THEN answers[w] + 1 ELSE answers[w]]
         /\ Retain([hnd EXCEPT ![h] = "closed"], held, left, {})
  /\ lp' = "callback"
  /\ UNCHANGED <<queue, id, serverOf, cut, batch, sentTo, dropped>>

(* The close callback: onTcpDisconnect and onTcpServerClose release the id *)
(* they were given, whoever has it now.                                    *)
CloseCallback ==
  /\ lp = "callback"
  /\ LET h == Head(batch)
         gone == IF onClose[h] = "nothing" THEN {} ELSE Holder(h)
     IN  /\ Retain(hnd, held \ gone, writes, {})
         /\ cut' = cut \cup (gone \ {h})
  /\ batch' = Tail(batch)
  /\ lp' = "closing"
  /\ UNCHANGED <<queue, id, serverOf, answers, sentTo, dropped>>

(* uv_run goes on, unless uv_stop was called (a variant forgets that).     *)
ClosingDoneGoesOn == /\ lp = "closing" /\ batch = <<>>
                     /\ lp' = "poll"
                     /\ UNCHANGED <<queue, objects, batch, replies>>

ClosingDone == /\ lp = "closing" /\ batch = <<>>
               /\ lp' = IF stopped THEN "ended" ELSE "poll"
               /\ UNCHANGED <<queue, objects, batch, replies>>

(* The object of a handle is gone and libuv still uses the handle: what it *)
(* finds there is what was there before (every action above), or not.      *)
Crash == /\ \E h \in Handles \ Live : hnd[h] = "closing"
         /\ end' = "crashed"
         /\ UNCHANGED <<queue, lp, held, id, serverOf, uv, twice, cut, batch,
                        replies>>

Running(A) == end = "running" /\ A
Quiet(A) == Running(A /\ UNCHANGED <<deaf, reads, users, stopped>>)
LoopStep == PollEnd \/ FinishClose \/ CloseCallback \/ ClosingDone

Next == \/ Running(Users \/ Network \/ TakeCommand)
        \/ Quiet(TakeCommands \/ CommandsDone \/ LoopStep \/ Crash)

(* The loop goes on, finishes what is closing, and does not pass over the  *)
(* commands in poll after poll, as the event of their wakeup stays until   *)
(* it is taken.  Nothing is assumed of users and of peers: a peer that     *)
(* does not read leaves its writes pending.                                *)
Fairness == /\ SF_vars(Quiet(TakeCommands))
            /\ WF_vars(Running(TakeCommand))
            /\ WF_vars(Quiet(CommandsDone))
            /\ WF_vars(Quiet(LoopStep))

SafetySpec == Init /\ [][Next]_vars
Spec == SafetySpec /\ Fairness

-----------------------------------------------------------------------------
(* Properties.                                                             *)

Commands == [op : {"listen"}, of : Servers]
            \cup [op : {"read", "close"}, of : Conns]
            \cup [op : {"write"}, of : Conns, w : Writes]
            \cup [op : {"stop"}, of : {None}]

TypeOK == /\ queue \in Seq(Commands)
          /\ lp \in {"poll", "jobs", "closing", "callback", "ended"}
          /\ held \in SUBSET Handles
          /\ id \in [Handles -> Ids \cup {None}]
          /\ serverOf \in [Conns -> Servers \cup {None}]
          /\ hnd \in [Handles -> {"none", "open", "closing", "closed"}]
          /\ opened \in [Handles -> BOOLEAN]
          /\ onClose \in [Handles -> {"none", "release", "nothing"}]
          /\ closing \in Seq(Handles) /\ batch \in Seq(Handles)
          /\ IsInjective(batch \o closing)
          /\ deaf \in SUBSET Servers
          /\ called \in SUBSET Conns /\ reading \in SUBSET Conns
          /\ writes \in [Conns -> Seq(Writes)]
          /\ ctrl \in [Conns -> {"none", "held", "dropped"}]
          /\ calls \in 0..MaxCalls
          /\ stopped \in BOOLEAN /\ end \in {"running", "aborted", "crashed"}
          /\ heard \in [Conns -> Seq([from : Conns, what : {"data", "end"}])]
          /\ answers \in [Writes -> Nat]
          /\ sentTo \in [Writes -> [from : Conns, to : Conns] \cup {None}]
          /\ dropped \in SUBSET Writes
          /\ cut \in SUBSET Handles /\ twice \in SUBSET Handles

Heard(c) == {heard[c][k] : k \in 1..Len(heard[c])}

(* An abort is the assertion of uv_close, and it takes a socket that       *)
(* uv_walk closed on a stop behind the back of its object: the field       *)
(* `opened` is still TRUE.                                                 *)
SecondCloses ==
  /\ end = "aborted" => twice # {}
  /\ \A h \in twice : stopped /\ opened[h] /\ onClose[h] = "nothing"

(* No handle is twice among those that libuv is about to finish (TypeOK),  *)
(* and before a stop uv_close is not called for one that is closing,       *)
(* although commands, the end of a stream, close callbacks of others and   *)
(* deinit all close in any order.  After a stop it is called for one that  *)
(* uv_walk closed (a command behind the stop, or the last write called     *)
(* back, closes or releases its object), and for no other.                 *)
OnlyWalkedClosedTwice == TypeOK /\ SecondCloses

(* An object that goes by its own close callback is still there when the   *)
(* callback comes, whatever its peer and the writes on the way do.  Only a *)
(* close command, a start or accept that fails, or the close callback of   *)
(* another handle frees an object whose handle libuv still uses.           *)
OnlyCutDieEarly == \A h \in Handles \ Live : hnd[h] = "closing" => h \in cut

(* What a connection hears is its own stream, or that of a connection that *)
(* lost its id while its writes kept it open: the id was given again, and  *)
(* the new owner hears what comes for the old one.                         *)
MixupNeedsCut ==
  \A c \in Conns : \A e \in Heard(c) :
    e.from # c => e.from \in cut /\ id[e.from] = id[c]

(* The disconnect callback comes once and after every read callback: a     *)
(* sequence of requests built on them (UVTcpConn) is finished once and not *)
(* added to after that.                                                    *)
EndIsLast ==
  \A c \in Conns :
    (\A e \in Heard(c) : e.from = c) =>
      \A k \in 1..Len(heard[c]) : heard[c][k].what = "end" => k = Len(heard[c])

(* The writes that a connection took and still has to call back.           *)
Pending(w) == \E c \in Conns : w \in {writes[c][k] : k \in 1..Len(writes[c])}

(* The callback of a write resumes a continuation (UVTcpConn.write), which *)
(* must not be resumed twice.  It is called once for a write that a        *)
(* connection took, whether the write fails at once, is done, or is        *)
(* cancelled by a close or by the stop, and the write is pending until     *)
(* then.  It is never called for a write that found no connection, or that *)
(* is still in the queue when the loop ends: those wait for ever.          *)
AnsweredOnce ==
  \A w \in Writes :
    answers[w] = IF sentTo[w] # None /\ ~Pending(w) THEN 1 ELSE 0

(* Nothing is pending when the loop has ended, although uv_walk closes the *)
(* sockets behind the back of the connections.                             *)
StopAnswersWrites ==
  lp = "ended" /\ end = "running" => \A c \in Conns : writes[c] = <<>>

(* When the loop has ended the writes that a connection took have been     *)
(* answered, each of them once, and no other write has been answered.      *)
AnsweredInTheEnd == AnsweredOnce /\ StopAnswersWrites

(* A server whose id was not taken away by another handle never leaves an  *)
(* incoming connection unaccepted.                                         *)
DeafNeedsCut == deaf \subseteq cut

(* libuv may still call a callback of h.                                   *)
CallsBack(h) == \/ hnd[h] \in {"open", "closing"}
                \/ lp = "callback" /\ h = Head(batch)

(* The callbacks of a handle that was not cut off find that handle by its  *)
(* id; those of one that was cut may find the new owner of the id, which   *)
(* they close or release.                                                  *)
StraysNeedCut == \A h \in Handles \ cut : CallsBack(h) => Holder(h) = {h}

(* All that releases under a wrong id, or too early, can do starts with a  *)
(* handle that was cut off from its id.  The handle itself is freed while  *)
(* it closes, or left deaf; and the new owner of its id, cut off or not,   *)
(* hears its stream and is closed at the end of it.                        *)
OnlyCutDoHarm ==
  OnlyCutDieEarly /\ StraysNeedCut /\ MixupNeedsCut /\ DeafNeedsCut

(* Writes keep the promise of StreamWrites: in order, once, before the end *)
(* of the close.                                                           *)
Promise(c) == INSTANCE StreamWrites WITH
  Requests <- Writes,
  pending <- writes[c],
  state <- IF hnd[c] \in {"none", "open"} THEN "open"
           ELSE IF hnd[c] = "closing" \/ (lp = "callback" /\ Head(batch) = c)
           THEN "closing" ELSE "closed"

WritesKeepPromise ==
  [][\A c \in Conns : Promise(c)!Next \/ UNCHANGED Promise(c)!vars]_vars

(* A write that is pending when its connection starts to close is answered *)
(* by the close.                                                           *)
CloseAnswers ==
  \A c \in Conns :
    hnd[c] = "closing" /\ writes[c] # <<>>
      ~> writes[c] = <<>> \/ end # "running"

(* A stop ends the loop, whatever is open, closing or on its way.          *)
StopEnds ==
  [op |-> "stop", of |-> None] \in Queued ~> lp = "ended" \/ end # "running"

(* Neither a close nor a stop leaves anything unfinished.                  *)
EndsComplete == CloseAnswers /\ StopEnds

-----------------------------------------------------------------------------
(* What the code does not do.                                              *)

(* core.c:158, of the handle uv_close is called for:                       *)
(* "assert(!uv__is_closing(handle));".                                     *)
NoSecondClose == twice = {}

(* core.c:312, of the handle uv__finish_close has before it:               *)
(* "assert(handle->flags & UV_HANDLE_CLOSING);".  The memory it looks at   *)
(* has to be the handle still.                                             *)
HandleOutlivesClose == \A h \in Handles : hnd[h] = "closing" => h \in Live

(* uvTests.swift:48, of one connection: "success.read { buffer in          *)
(* success.write(buffer)": what a connection is asked to write goes to its *)
(* own peer.                                                               *)
WritesOwnPeer ==
  \A w \in Writes : sentTo[w] # None => sentTo[w].from = sentTo[w].to
=============================================================================
