------------------------------- MODULE UVUdp -------------------------------
(***************************************************************************)
(* A UDP handle of libuv: the queue of datagrams to send, the requests     *)
(* that are done and wait for their callbacks, and the reception, with the *)
(* calls of the user between any two steps, callbacks included.            *)
(***************************************************************************)
EXTENDS Naturals, Sequences, FiniteSets

CONSTANTS Requests, None,
          Batch,      \* 20 messages for sendmmsg
          ReadBurst   \* 32 in uv__udp_recvmsg

VARIABLES
  unsent,     \* the requests not used yet
  writeQ,     \* handle->write_queue
  completed,  \* handle->write_completed_queue
  count,      \* handle->send_queue_count
  processing, \* UV_HANDLE_UDP_PROCESSING
  pevents,    \* what the watcher asks for
  fed,        \* the watcher is in loop->pending_queue
  receiving,  \* handle->recv_cb is set
  life,       \* "open", "closing", "flushing" in uv__udp_finish_close,
              \* "closed"
  at,         \* "idle", "recv", "recvCb", "out", "run" and "sendCb" in
              \* uv__udp_run_completed, "closeCb"
  left,       \* datagrams uv__udp_recvmsg may still take
  revents     \* the events of uv__udp_io

queues == <<unsent, writeQ, completed, count>>
watcher == <<pevents, fed>>
vars == <<queues, processing, watcher, receiving, life, at, left, revents>>

Init == /\ unsent = Requests
        /\ writeQ = <<>> /\ completed = <<>> /\ count = 0
        /\ processing = FALSE
        /\ pevents = {} /\ fed = FALSE
        /\ receiving = FALSE /\ life = "open"
        /\ at = "idle" /\ left = 0 /\ revents = {}

-----------------------------------------------------------------------------
(* uv__udp_sendmsg takes the first n of the queue q; feed: it puts the     *)
(* watcher into the pending queue.                                         *)
Took(q, n, feed) == /\ writeQ' = SubSeq(q, n + 1, Len(q))
                    /\ completed' = completed \o SubSeq(q, 1, n)
                    /\ fed' = (fed \/ feed)

(* Variant of SendMsg: an error does not feed.                             *)
SendMsgUnfed(q) ==
  \/ \E n \in 0..Len(q) : Took(q, n, n = Len(q) /\ n > 0)
  \/ \E n \in 0..Len(q) - 1 :
       Took(q, IF n + Batch < Len(q) THEN n + Batch ELSE Len(q), FALSE)

(* The socket takes all, or some and then no more, or has an error, which  *)
(* all requests of that call of sendmmsg are given.                        *)
SendMsg(q) ==
  \/ \E n \in 0..Len(q) : Took(q, n, n = Len(q) /\ n > 0)
  \/ \E n \in 0..Len(q) - 1 :
       Took(q, IF n + Batch < Len(q) THEN n + Batch ELSE Len(q), TRUE)

-----------------------------------------------------------------------------
(* Calls of the user.                                                      *)

UserCode == at \in {"idle", "recvCb", "sendCb", "closeCb"} /\ life = "open"

(* uv__udp_send: at once, unless others are before it.                     *)
Send(r) ==
  /\ UserCode /\ r \in unsent
  /\ unsent' = unsent \ {r}
  /\ count' = count + 1
  /\ IF count = 0 /\ ~processing
     THEN /\ SendMsg(<<r>>)
          /\ pevents' = IF writeQ' = <<>> THEN pevents ELSE pevents \cup {"OUT"}
     ELSE /\ writeQ' = Append(writeQ, r)
          /\ pevents' = pevents \cup {"OUT"}
          /\ UNCHANGED <<completed, fed>>
  /\ UNCHANGED <<processing, receiving, life, at, left, revents>>

RecvStart == /\ UserCode /\ "IN" \notin pevents
             /\ receiving' = TRUE
             /\ pevents' = pevents \cup {"IN"}
             /\ UNCHANGED <<queues, processing, fed, life, at, left, revents>>

RecvStop == /\ UserCode /\ receiving
            /\ receiving' = FALSE
            /\ pevents' = pevents \ {"IN"}
            /\ UNCHANGED <<queues, processing, fed, life, at, left, revents>>

Close == /\ UserCode
         /\ life' = "closing"
         /\ pevents' = {} /\ fed' = FALSE
         /\ UNCHANGED <<queues, processing, receiving, at, left, revents>>

User == RecvStart \/ RecvStop \/ Close \/ \E r \in Requests : Send(r)

-----------------------------------------------------------------------------
(* uv__udp_io.                                                             *)

Io(events) == /\ revents' = events
              /\ at' = IF "IN" \in events THEN "recv" ELSE "out"
              /\ left' = IF "IN" \in events THEN ReadBurst ELSE 0

Event == /\ at = "idle"
         /\ \E e \in SUBSET pevents \ {{}} : Io(e)
         /\ UNCHANGED <<queues, processing, watcher, receiving, life>>

(* uv__run_pending.                                                        *)
RunPending == /\ at = "idle" /\ fed
              /\ fed' = FALSE
              /\ Io({"OUT"})
              /\ UNCHANGED <<queues, processing, pevents, receiving, life>>

(* A datagram, an error, or nothing: each is a callback, and the last two  *)
(* end the loop.                                                           *)
Recv == /\ at = "recv"
        /\ at' = "recvCb"
        /\ left' \in {left - 1, 0}
        /\ UNCHANGED <<queues, processing, watcher, receiving, life, revents>>

RecvReturns ==
  /\ at = "recvCb"
  /\ at' = IF left > 0 /\ life = "open" /\ receiving THEN "recv" ELSE "out"
  /\ UNCHANGED <<queues, processing, watcher, receiving, life, left, revents>>

Out ==
  /\ at = "out"
  /\ IF "OUT" \in revents /\ life = "open"
     THEN SendMsg(writeQ) /\ processing' = TRUE /\ at' = "run"
     ELSE at' = "idle" /\ UNCHANGED <<writeQ, completed, fed, processing>>
  /\ UNCHANGED <<unsent, count, pevents, receiving, life, left, revents>>

(* uv__udp_run_completed: callbacks, to which the user may add ...         *)
CallBack == /\ at = "run" /\ completed # <<>>
            /\ completed' = Tail(completed)
            /\ count' = count - 1
            /\ at' = "sendCb"
            /\ UNCHANGED <<unsent, writeQ, processing, watcher, receiving, life,
                           left, revents>>

SendCbReturns ==
  /\ at = "sendCb"
  /\ at' = "run"
  /\ UNCHANGED <<queues, processing, watcher, receiving, life, left, revents>>

Completed ==
  /\ at = "run" /\ completed = <<>>
  /\ processing' = FALSE
  /\ pevents' = IF writeQ = <<>> THEN pevents \ {"OUT"} ELSE pevents
  /\ at' = IF life = "flushing" THEN "closeCb" ELSE "idle"
  /\ life' = IF life = "flushing" THEN "closed" ELSE life
  /\ UNCHANGED <<queues, fed, receiving, left, revents>>

(* uv__udp_finish_close.                                                   *)
FinishClose ==
  /\ at = "idle" /\ life = "closing"
  /\ life' = "flushing"
  /\ completed' = completed \o writeQ /\ writeQ' = <<>>
  /\ processing' = TRUE /\ at' = "run"
  /\ UNCHANGED <<unsent, count, watcher, receiving, left, revents>>

CloseReturns == /\ at = "closeCb"
                /\ at' = "idle" /\ receiving' = FALSE
                /\ UNCHANGED <<queues, processing, watcher, life, left, revents>>

LoopStep == \/ Recv \/ RecvReturns \/ Out \/ CallBack \/ SendCbReturns
            \/ Completed \/ CloseReturns

Next == User \/ Event \/ RunPending \/ LoopStep \/ FinishClose

Spec == Init /\ [][Next]_vars

-----------------------------------------------------------------------------
(* Properties.                                                             *)

TypeOK == /\ unsent \subseteq Requests
          /\ writeQ \in Seq(Requests) /\ completed \in Seq(Requests)
          /\ count \in 0..Cardinality(Requests)
          /\ processing \in BOOLEAN /\ fed \in BOOLEAN /\ receiving \in BOOLEAN
          /\ pevents \subseteq {"IN", "OUT"} /\ revents \subseteq {"IN", "OUT"}
          /\ life \in {"open", "closing", "flushing", "closed"}
          /\ at \in {"idle", "recv", "recvCb", "out", "run", "sendCb", "closeCb"}
          /\ left \in 0..ReadBurst

(* send_queue_count is right in every callback: uv__udp_send takes 0 for   *)
(* the permission to pass the queue, and uv__udp_finish_close asserts it   *)
(* at the end.                                                             *)
CountExact == count = Len(writeQ) + Len(completed)

(* No datagram and no callback waits for nothing.                          *)
DatagramsMove ==
  at = "idle" /\ life = "open" =>
    /\ writeQ # <<>> => "OUT" \in pevents
    /\ completed # <<>> => fed \/ "OUT" \in pevents

(* udp.c:227: the reception is entered with a callback to call, after      *)
(* whatever callbacks have stopped it or closed the handle.                *)
RecvHasCallback == at = "recv" => receiving /\ life = "open"

(* The socket of a closed handle is not written to (its descriptor is -1,  *)
(* or another's): what is left is called back without it.                  *)
NothingSentClosed == life # "open" /\ at = "out" => UNCHANGED writeQ

(* The promise of StreamWrites is that of datagrams too.                   *)
Promise == INSTANCE StreamWrites WITH
  pending <- completed \o writeQ,
  state <- CASE life = "open" -> "open" [] life = "closed" -> "closed"
             [] OTHER -> "closing"

SendsInOrder == Promise!Next \/ UNCHANGED Promise!vars
=============================================================================
