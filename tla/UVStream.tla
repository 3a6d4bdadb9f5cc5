------------------------------ MODULE UVStream ------------------------------
(***************************************************************************)
(* A connected stream of libuv: the queue of writes and the queue of those *)
(* that are done, the watcher and its place among the pending callbacks of *)
(* the loop, reading, shutdown and close.                                  *)
(*                                                                         *)
(* Only one thread is at work.  What makes the code hard is that it calls  *)
(* the user back from the middle of its loops, and that the user calls the *)
(* stream again from there: pc says where a callback returns to.           *)
(*                                                                         *)
(* The other side and the kernel are free: how much a write takes, what a  *)
(* read gives, which events a poll reports.                                *)
(***************************************************************************)
EXTENDS Integers, Sequences, FiniteSets, SequencesExt

CONSTANTS Requests,    \* the requests of the calls of uv_write
          Sizes,       \* the sizes of what they write
          WriteBurst,  \* 32 in uv__write
          ReadBurst    \* 32 in uv__read

ASSUME StreamAssumption == /\ IsFiniteSet(Requests)
                           /\ Sizes \subseteq Nat
                           /\ WriteBurst \in Nat /\ ReadBurst \in Nat

VARIABLES
  writeQ,     \* write_queue
  completed,  \* write_completed_queue
  pq,         \* the completed requests uv__write_callbacks is calling back
  left,       \* left[r]: the bytes of r not written yet
  failed,     \* the requests with an error: their bufs are kept
  size,       \* write_queue_size
  flags,      \* the flags of the handle
  shutReq,    \* shutdown_req is set
  pevents,    \* the events the watcher asks for
  fed,        \* the watcher is in the loop's pending_queue
  pc,         \* where the loop is in the code of the stream
  events,     \* the events of this call of uv__stream_io
  count,      \* reads left in this call of uv__read
  after,      \* where the read callback returns to
  asked,      \* history: the requests uv_write was called with
  wanted      \* history: the user asked for reads, and has not been told
              \* of their end

queues == <<writeQ, completed, pq, left, failed, size>>
watcher == <<pevents, fed>>
place == <<pc, events, count, after>>
vars == <<queues, flags, shutReq, watcher, place, asked, wanted>>

Init == /\ writeQ = <<>> /\ completed = <<>> /\ pq = <<>>
        /\ left = [r \in Requests |-> 0]
        /\ failed = {} /\ size = 0
        /\ flags = {"readable", "writable"}
        /\ shutReq = FALSE
        /\ pevents = {} /\ fed = FALSE
        /\ pc = "idle" /\ events = {} /\ count = 0 /\ after = "hup"
        /\ asked = {} /\ wanted = FALSE

Has(f) == f \in flags

(* How many bytes the requests of a set have, each byte counted.           *)
BytesOf(R, bytes) == Cardinality(UNION {{r} \X (1..bytes[r]) : r \in R})

-----------------------------------------------------------------------------
(* uv__write, with q the queue, bytes what is left of each request, and n  *)
(* the size.  It writes request after request, at most WriteBurst + 1 of   *)
(* them, until the socket takes no more or fails.                          *)

(* uv__write_req_finish for the requests done.                             *)
Finish(done, n) == /\ completed' = completed \o done
                   /\ fed' = (fed \/ done # <<>>)
                   /\ size' = n

WriteOut(q, bytes, n) ==
  \E k \in 0..Len(q) :
    LET done == SubSeq(q, 1, k)
        rest == SubSeq(q, k + 1, Len(q))
        now == [r \in Requests |-> IF r \in ToSet(done) THEN 0 ELSE bytes[r]]
        m == n - BytesOf(ToSet(done), bytes)
    IN  /\ k <= WriteBurst + 1
        /\ \/ /\ rest = <<>> \/ k = WriteBurst + 1
              /\ Finish(done, m)
              /\ writeQ' = rest /\ left' = now
              /\ UNCHANGED <<failed, pevents>>
           \/ (* EAGAIN, or part of the next request                       *)
              /\ rest # <<>> /\ k <= WriteBurst
              /\ \E p \in 0..bytes[Head(rest)] :
                   /\ p < bytes[Head(rest)] \/ p = 0
                   /\ Finish(done, m - p)
                   /\ left' = [now EXCEPT ![Head(rest)] = @ - p]
              /\ writeQ' = rest
              /\ pevents' = pevents \cup {"OUT"}
              /\ UNCHANGED failed
           \/ (* an error of the next request                              *)
              /\ rest # <<>> /\ k <= WriteBurst
              /\ Finish(Append(done, Head(rest)), m)
              /\ failed' = failed \cup {Head(rest)}
              /\ writeQ' = Tail(rest) /\ left' = now
              /\ pevents' = pevents \ {"OUT"}

-----------------------------------------------------------------------------
(* Calls of the user: from callbacks of the stream or of anything else.    *)

UserCode == pc \in {"idle", "readCb", "writeCb", "shutCb", "closeCb"}

(* uv_write on a closed stream, or one that was shut or failed.            *)
WriteRejected == /\ Has("closing") \/ ~Has("writable")
                 /\ UNCHANGED <<queues, watcher>>

(* Nothing is waiting: uv__write at once ...                               *)
WriteNow(r, n) ==
  /\ ~Has("closing") /\ Has("writable")
  /\ size = 0
  /\ WriteOut(Append(writeQ, r), [left EXCEPT ![r] = n], n)
  /\ UNCHANGED pq

(* ... and behind others when the socket is writable.                      *)
WriteLater(r, n) ==
  /\ ~Has("closing") /\ Has("writable")
  /\ size > 0
  /\ writeQ' = Append(writeQ, r)
  /\ left' = [left EXCEPT ![r] = n]
  /\ size' = size + n
  /\ pevents' = pevents \cup {"OUT"}
  /\ UNCHANGED <<completed, pq, failed, fed>>

Write(r) ==
  /\ r \notin asked
  /\ asked' = asked \cup {r}
  /\ \/ WriteRejected
     \/ \E n \in Sizes : WriteNow(r, n) \/ WriteLater(r, n)
  /\ UNCHANGED <<flags, shutReq, wanted>>

Shutting == Has("writable") /\ ~Has("shut") /\ ~shutReq /\ ~Has("closing")

(* Variant of Shutdown: the watcher is not fed.                            *)
ShutdownUnfed ==
  /\ Shutting
  /\ shutReq' = TRUE
  /\ flags' = flags \ {"writable"}
  /\ UNCHANGED <<queues, watcher, asked, wanted>>

(* uv_shutdown, where it does not return ENOTCONN.                         *)
Shutdown ==
  /\ Shutting
  /\ shutReq' = TRUE
  /\ flags' = flags \ {"writable"}
  /\ fed' = (fed \/ writeQ = <<>>)
  /\ UNCHANGED <<queues, pevents, asked, wanted>>

(* uv_read_start, where it does not return an error.                       *)
ReadStart ==
  /\ ~Has("closing") /\ ~Has("reading") /\ Has("readable")
  /\ flags' = (flags \cup {"reading"}) \ {"eof"}
  /\ pevents' = pevents \cup {"IN"}
  /\ wanted' = TRUE
  /\ UNCHANGED <<queues, shutReq, fed, asked>>

ReadStop ==
  /\ Has("reading")
  /\ flags' = flags \ {"reading"}
  /\ pevents' = pevents \ {"IN"}
  /\ wanted' = FALSE
  /\ UNCHANGED <<queues, shutReq, fed, asked>>

(* uv_close, uv__stream_close.                                             *)
Close ==
  /\ ~Has("closing")
  /\ flags' = (flags \cup {"closing"}) \ {"reading", "readable", "writable"}
  /\ pevents' = {} /\ fed' = FALSE
  /\ wanted' = FALSE
  /\ UNCHANGED <<queues, shutReq, asked>>

User == /\ UserCode
        /\ \/ \E r \in Requests : Write(r)
           \/ Shutdown \/ ReadStart \/ ReadStop \/ Close
        /\ UNCHANGED place

-----------------------------------------------------------------------------
(* uv__stream_io.                                                          *)

Go(to) == pc' = to /\ UNCHANGED <<events, count, after>>

(* uv__run_pending: once for each time the watcher was fed.                *)
RunPending ==
  /\ pc = "idle" /\ fed
  /\ fed' = FALSE
  /\ events' = {"OUT"}
  /\ pc' = "out"
  /\ UNCHANGED <<queues, flags, shutReq, pevents, count, after, wanted>>

(* uv__io_poll: the events that were asked for, and errors in any case; an *)
(* error or a hangup alone counts as all events that were asked for.       *)
Reported(mask) ==
  LET e == mask \cap (pevents \cup {"ERR", "HUP"})
  IN  IF e = {"ERR"} \/ e = {"HUP"} THEN e \cup pevents ELSE e

PollEvent ==
  /\ pc = "idle" /\ pevents # {}
  /\ \E mask \in SUBSET {"IN", "OUT", "ERR", "HUP"} :
       /\ Reported(mask) # {}
       /\ events' = Reported(mask)
  /\ IF events' \cap {"IN", "ERR", "HUP"} # {}
     THEN pc' = "read" /\ flags' = flags \ {"partial"}
     ELSE pc' = "out" /\ UNCHANGED flags
  /\ count' = ReadBurst
  /\ UNCHANGED <<queues, shutReq, watcher, after, wanted>>

(* uv__read: another read, if it is still wanted ...                       *)
CallRead(to) == /\ pc' = "readCb" /\ after' = to
                /\ UNCHANGED events

(* Variant of ReadData: the loop does not look at the flag again.          *)
ReadDataUnchecked ==
  /\ pc = "read" /\ count > 0
  /\ \/ CallRead("read") \/ CallRead("partial") \/ CallRead("hup")
  /\ count' = count - 1
  /\ UNCHANGED <<queues, flags, shutReq, watcher, wanted>>

(* ... gives data that fill the buffer, data that do not, or there is no   *)
(* buffer ...                                                              *)
ReadData ==
  /\ pc = "read" /\ Has("reading") /\ count > 0
  /\ \/ CallRead("read") \/ CallRead("partial") \/ CallRead("hup")
  /\ count' = count - 1
  /\ UNCHANGED <<queues, flags, shutReq, watcher, wanted>>

(* ... nothing for now (EAGAIN) ...                                        *)
ReadAgain ==
  /\ pc = "read" /\ Has("reading") /\ count > 0
  /\ CallRead("hup")
  /\ count' = count - 1
  /\ pevents' = pevents \cup {"IN"}
  /\ UNCHANGED <<queues, flags, shutReq, fed, wanted>>

(* ... an error ...                                                        *)
ReadError ==
  /\ pc = "read" /\ Has("reading") /\ count > 0
  /\ CallRead("error")
  /\ count' = count - 1
  /\ flags' = flags \ {"readable", "writable"}
  /\ wanted' = FALSE
  /\ UNCHANGED <<queues, shutReq, watcher>>

(* ... or the end: uv__stream_eof.                                         *)
Eof(to) ==
  /\ CallRead(to)
  /\ flags' = (flags \cup {"eof"}) \ {"reading"}
  /\ pevents' = pevents \ {"IN"}
  /\ wanted' = FALSE
  /\ UNCHANGED <<queues, shutReq, fed>>

ReadEof == /\ pc = "read" /\ Has("reading") /\ count > 0
           /\ Eof("hup")
           /\ count' = count - 1

ReadEnds == /\ pc = "read"
            /\ ~Has("reading") \/ count = 0
            /\ Go("hup")
            /\ UNCHANGED <<queues, flags, shutReq, watcher, wanted>>

(* The read callback returns.                                              *)
ReadReturns ==
  /\ pc = "readCb"
  /\ pc' = IF after \in {"partial", "error"} THEN "hup" ELSE after
  /\ flags' = IF after = "partial" THEN flags \cup {"partial"}
              ELSE IF after = "error" THEN flags \ {"reading"} ELSE flags
  /\ pevents' = IF after = "error" /\ Has("reading") THEN pevents \ {"IN"}
                ELSE pevents
  /\ UNCHANGED <<queues, shutReq, fed, events, count, after, wanted>>

(* A hangup is the end of what was read, unless there may be more.         *)
HupIsEnd == /\ "HUP" \in events
            /\ Has("reading") /\ Has("partial") /\ ~Has("eof")

HangUp == /\ pc = "hup" /\ ~Has("closing") /\ HupIsEnd
          /\ Eof("out")
          /\ UNCHANGED count

NoHangUp == /\ pc = "hup" /\ (Has("closing") \/ ~HupIsEnd)
            /\ Go(IF Has("closing") THEN "idle" ELSE "out")
            /\ UNCHANGED <<queues, flags, shutReq, watcher, wanted>>

OutEvent == events \cap {"OUT", "ERR", "HUP"} # {} /\ ~Has("closing")

OutWrites == /\ pc = "out" /\ OutEvent
             /\ WriteOut(writeQ, left, size)
             /\ Go("callbacks")
             /\ UNCHANGED <<pq, flags, shutReq, wanted>>

NoOut == /\ pc = "out" /\ ~OutEvent
         /\ Go("idle")
         /\ UNCHANGED <<queues, flags, shutReq, watcher, wanted>>

(* uv__write_callbacks takes what is completed now ...                     *)
TakeCompleted == /\ pc = "callbacks"
                 /\ pq' = completed /\ completed' = <<>>
                 /\ Go("next")
                 /\ UNCHANGED <<writeQ, left, failed, size, flags, shutReq,
                                watcher, wanted>>

(* ... and calls back one by one.  A request that failed gives up its size *)
(* only here (in a variant, never).                                        *)
CallBackKeepsSize ==
  /\ pc = "next" /\ pq # <<>>
  /\ pq' = Tail(pq)
  /\ Go("writeCb")
  /\ UNCHANGED <<writeQ, completed, left, failed, size, flags, shutReq,
                 watcher, wanted>>

CallBack ==
  /\ pc = "next" /\ pq # <<>>
  /\ LET r == Head(pq)
     IN  IF r \in failed
         THEN /\ size' = size - left[r]
              /\ failed' = failed \ {r}
              /\ left' = [left EXCEPT ![r] = 0]
         ELSE UNCHANGED <<size, failed, left>>
  /\ pq' = Tail(pq)
  /\ Go("writeCb")
  /\ UNCHANGED <<writeQ, completed, flags, shutReq, watcher, wanted>>

WriteReturns == /\ pc = "writeCb"
                /\ Go("next")
                /\ UNCHANGED <<queues, flags, shutReq, watcher, wanted>>

Finished == IF Has("closed") THEN "closeCb" ELSE "idle"

(* More to write: no drain.                                                *)
NotDrained == /\ pc = "next" /\ pq = <<>> /\ writeQ # <<>>
              /\ Go(Finished)
              /\ UNCHANGED <<queues, flags, shutReq, watcher, wanted>>

Unwatch == pevents' = IF Has("closing") THEN pevents ELSE pevents \ {"OUT"}

(* uv__drain without a shutdown ...                                        *)
Drain == /\ pc = "next" /\ pq = <<>> /\ writeQ = <<>>
         /\ ~shutReq
         /\ Unwatch
         /\ Go(Finished)
         /\ UNCHANGED <<queues, flags, shutReq, fed, wanted>>

(* ... and with one.                                                       *)
DrainShuts ==
  /\ pc = "next" /\ pq = <<>> /\ writeQ = <<>>
  /\ shutReq
  /\ shutReq' = FALSE
  /\ Unwatch
  /\ \/ UNCHANGED flags
     \/ ~Has("closing") /\ flags' = flags \cup {"shut"}
  /\ Go("shutCb")
  /\ UNCHANGED <<queues, fed, wanted>>

ShutReturns == /\ pc = "shutCb"
               /\ Go(Finished)
               /\ UNCHANGED <<queues, flags, shutReq, watcher, wanted>>

-----------------------------------------------------------------------------
(* uv__finish_close, uv__stream_destroy.                                   *)

(* Variant of Destroy: newest request first.                               *)
DestroyInReverse ==
  /\ pc = "idle" /\ Has("closing") /\ ~Has("closed")
  /\ flags' = flags \cup {"closed"}
  /\ completed' = completed \o Reverse(writeQ)
  /\ failed' = failed \cup {r \in Requests : Contains(writeQ, r)}
  /\ writeQ' = <<>>
  /\ Go("callbacks")
  /\ UNCHANGED <<pq, left, size, shutReq, watcher, wanted>>

Destroy ==
  /\ pc = "idle" /\ Has("closing") /\ ~Has("closed")
  /\ flags' = flags \cup {"closed"}
  /\ completed' = completed \o writeQ
  /\ failed' = failed \cup {r \in Requests : Contains(writeQ, r)}
  /\ writeQ' = <<>>
  /\ Go("callbacks")
  /\ UNCHANGED <<pq, left, size, shutReq, watcher, wanted>>

CloseReturns == /\ pc = "closeCb"
                /\ Go("gone")
                /\ UNCHANGED <<queues, flags, shutReq, watcher, wanted>>

-----------------------------------------------------------------------------
Reading == \/ ReadData \/ ReadAgain \/ ReadError \/ ReadEof \/ ReadEnds
           \/ ReadReturns \/ HangUp \/ NoHangUp
Writing == \/ OutWrites \/ NoOut \/ TakeCompleted \/ CallBack \/ WriteReturns
           \/ NotDrained \/ Drain \/ DrainShuts \/ ShutReturns
Loop(A) == A /\ UNCHANGED asked

Next == User \/ Loop(\/ RunPending \/ PollEvent \/ Reading \/ Writing
                     \/ Destroy \/ CloseReturns)

(* Callbacks return, and a call of the loop's goes on to its end.  Every   *)
(* iteration of the loop runs what is pending and what is closing, however *)
(* many events the polls report.                                           *)
Fairness == /\ WF_vars(Loop(Reading \/ Writing \/ CloseReturns))
            /\ SF_vars(Loop(RunPending)) /\ SF_vars(Loop(Destroy))

(* The other side takes what it is sent: the socket becomes writable, and  *)
(* a write takes something.                                                *)
PeerReads == /\ SF_vars(Loop(PollEvent) /\ "OUT" \in events')
             /\ SF_vars(Loop(OutWrites) /\ <<writeQ, size>>' # <<writeQ, size>>)

SafetySpec == Init /\ [][Next]_vars
Spec == SafetySpec /\ Fairness
SpecWithPeer == Spec /\ PeerReads

-----------------------------------------------------------------------------
(* Properties.                                                             *)

Flags == {"readable", "writable", "reading", "eof", "partial", "shut",
          "closing", "closed"}

(* The accepted requests that were not called back, oldest first.          *)
Pending == pq \o completed \o writeQ

TypeOK == /\ writeQ \in Seq(Requests) /\ completed \in Seq(Requests)
          /\ pq \in Seq(Requests)
          /\ IsInjective(Pending)
          /\ left \in [Requests -> Nat]
          /\ failed \in SUBSET Requests /\ size \in Nat
          /\ flags \in SUBSET Flags /\ shutReq \in BOOLEAN
          /\ pevents \in SUBSET {"IN", "OUT"} /\ fed \in BOOLEAN
          /\ pc \in {"idle", "read", "readCb", "hup", "out", "callbacks",
                     "next", "writeCb", "shutCb", "closeCb", "gone"}
          /\ events \in SUBSET {"IN", "OUT", "ERR", "HUP"}
          /\ count \in 0..ReadBurst
          /\ after \in {"read", "partial", "error", "hup", "out"}
          /\ asked \in SUBSET Requests /\ wanted \in BOOLEAN

(* The requests with bytes that were not written.                          *)
Unwritten == ToSet(writeQ) \cup (failed \cap ToSet(pq \o completed))

(* write_queue_size, by which uv_write decides whether to write at once    *)
(* and users whether to go on, counts the bytes of the queue and of failed *)
(* requests not called back yet, whatever is called from callbacks: it is  *)
(* zero when the stream is destroyed, as uv__stream_destroy asserts.       *)
SizeCounts ==
  /\ size = BytesOf(Unwritten, left)
  /\ pc = "closeCb" => size = 0

(* What waits is announced: a request in the queue has the watcher asking  *)
(* for a writable socket or among the pending, a completed one and a       *)
(* shutdown too.  uv__write stops after a burst, and stops asking after an *)
(* error, and relies on it.                                                *)
NothingStranded ==
  pc = "idle" /\ ~Has("closing") =>
    /\ writeQ # <<>> => fed \/ "OUT" \in pevents
    /\ completed # <<>> => fed
    /\ shutReq => fed \/ "OUT" \in pevents

(* The queues of requests hold each request once, its bytes are counted,   *)
(* and none waits without an event that takes it on.                       *)
RequestsKept == TypeOK /\ SizeCounts /\ NothingStranded

(* A stream that is closing asks for no event and is not pending, so that  *)
(* uv__stream_io is not entered for it and nothing is written, as          *)
(* stream.c:1197, 846 and 456 assert, though any callback may have closed  *)
(* it in the middle of uv__read or uv__write_callbacks.                    *)
ClosingIsQuiet == Has("closing") => pevents = {} /\ ~fed /\ ~Has("reading")

(* The read callback is called only while the user wants it: not after     *)
(* uv_read_stop, uv_close, the end or an error, wherever in a loop of      *)
(* reads one of them comes.                                                *)
ReadsWhileWanted == [][pc # "readCb" /\ pc' = "readCb" => wanted]_vars

(* The socket is shut down after everything accepted before was written or *)
(* has failed.                                                             *)
ShutAfterWrites == Has("shut") => writeQ = <<>>

(* What the flags of the stream say is kept, whatever callbacks do.        *)
HonoursFlags == []ClosingIsQuiet /\ []ShutAfterWrites /\ ReadsWhileWanted

(* The promise to those who write.                                         *)
Promise == INSTANCE StreamWrites WITH
  pending <- Pending,
  state <- IF pc \in {"closeCb", "gone"} THEN "closed"
           ELSE IF Has("closing") THEN "closing" ELSE "open"

KeepsPromise == Promise!Spec

(* As long as the other side reads, every accepted write is called back,   *)
(* although a burst or an error stops uv__write in the middle of the queue *)
(* and callbacks add to it ...                                             *)
Owed(r) == Contains(Pending, r)
WriteAnswered == \A r \in Requests : Owed(r) ~> ~Owed(r)

(* ... a shutdown too, which waits for the writes before it, and so every  *)
(* request.                                                                *)
ShutdownAnswered == shutReq ~> ~shutReq

RequestsAnswered == WriteAnswered /\ ShutdownAnswered
=============================================================================
