----------------------------- MODULE MCLoopState -----------------------------
(***************************************************************************)
(* The execution thread with its command queue and its loop, and parts of *)
(* libuv that belong to one loop: they share no state here, and one run    *)
(* checks them all.  A behaviour is one of the part it has chosen; the     *)
(* others rest in their initial states.  No property of these needs        *)
(* fairness.  The names of UVExecutionThread are this module's own: here a *)
(* controller outlives the owner of the thread, and a task, a timer and two*)
(* stops come in any order.                                                *)
(***************************************************************************)
EXTENDS MCUVExecutionThread

CONSTANTS w1, w2, w3, w4, f1, f2, h1, h2, s1, s2, r1, r2, r3, None

VARIABLES
  part,
  fd, unused, pevents, events, changed, watchers, epoll, batch, pc, now,
  full, late, lost,
  signum, oneshot, life, came, action, arrived, handler, trapped, pipe, buf,
  noRoom, sAt, request,
  unsent, writeQ, completed, count, processing, uPevents, fed, receiving,
  uLife, uAt, left, revents,
  root, nelts, nLeft, right, parent, inside, moving, way,
  by, asked, pipes, table, cloexec, errorFd, place, step, heard,
  words, text, quad,
  bytes, name

watchVars ==
  <<fd, unused, pevents, events, changed, watchers, epoll, batch, pc, now,
    full, late, lost>>
signalVars ==
  <<signum, oneshot, life, came, action, arrived, handler, trapped, pipe, buf,
    noRoom, sAt, request>>
udpVars ==
  <<unsent, writeQ, completed, count, processing, uPevents, fed, receiving,
    uLife, uAt, left, revents>>
heapVars == <<root, nelts, nLeft, right, parent, inside, moving, way>>

spawnVars ==
  <<by, asked, pipes, table, cloexec, errorFd, place, step, heard>>
inetVars == <<words, text, quad>>
idnaVars == <<bytes, name>>

(* Four watchers, one of whose files another process keeps open, take      *)
(* turns at two descriptors.                                               *)
Watch == INSTANCE UVWatchers
  WITH Watchers <- {w1, w2, w3, w4}, Fds <- {f1, f2}, Inherited <- {w1}

(* The same with a kqueue, where one of them watches a file and two events *)
(* fill the array.                                                         *)
Kq == INSTANCE UVKqueue
  WITH Watchers <- {w1, w2, w3, w4}, Fds <- {f1, f2}, Files <- {w1},
       ArraySize <- 2, knotes <- epoll

(* Two handles and two signals, a pipe that takes two messages.            *)
Sig == INSTANCE UVSignals
  WITH Handles <- {h1, h2}, Sigs <- {s1, s2}, PipeSize <- 2, BufSize <- 1,
       MaxSignals <- 2, full <- noRoom, at <- sAt

(* Three datagrams, of which sendmmsg takes two.                           *)
Udp == INSTANCE UVUdp
  WITH Requests <- {r1, r2, r3}, Batch <- 2, ReadBurst <- 2,
       pevents <- uPevents, life <- uLife, at <- uAt

(* Seven timers: the smallest heap in which the last node may have to move *)
(* up when it replaces another one has six.                                *)
Heap == INSTANCE UVHeap
  WITH Nodes <- 1..7, left <- nLeft

(* Four places, and descriptors up to the second one that posix_spawn may  *)
(* take for a copy.                                                        *)
Spawned == INSTANCE UVSpawnStdio
  WITH Count <- 4, LastFd <- 5, way <- by, fd <- place, at <- step

(* Addresses of zeros, ones and the largest word; IPv4 texts with up to    *)
(* nine characters.                                                        *)
Inet == INSTANCE UVInet
  WITH Words <- {0, 1, 65535}, Digits <- {0, 2, 6}, MaxLength <- 9

(* Names of up to four of: a letter, a hyphen, two dots, characters of two *)
(* and three bytes, and those at the ends of the range that takes two      *)
(* units of UTF-16.  Texts of up to five bytes: every pair of first bits,  *)
(* and every kind of first byte (one that begins no character is 248).     *)
Idna == INSTANCE UVIdna
  WITH Bytes <- {32, 65, 128, 175, 195, 226, 241, 248}, MaxBytes <- 5,
       Points <- {45, 46, 97, 252, 12290, 20013, 65536, 65537, 1114111},
       MaxName <- 4

ASSUME PartsConstants ==
  /\ Watch!ConstantsOK /\ Kq!ConstantsOK
  /\ Spawned!ConstantsOK /\ Inet!ConstantsOK /\ Idna!ConstantsOK

PartsInit == /\ part \in {"thread", "watch", "kqueue", "signal", "udp", "heap",
                         "spawn", "inet", "idna"}
             /\ Init /\ Watch!Init /\ Kq!Init /\ Sig!Init /\ Udp!Init
             /\ Heap!Init /\ Spawned!Init /\ Inet!Init /\ Idna!Init

ThreadRests == UNCHANGED vars
WatchRests == UNCHANGED watchVars
SignalRests == UNCHANGED signalVars
UdpRests == UNCHANGED udpVars
HeapRests == UNCHANGED heapVars
SpawnRests == UNCHANGED spawnVars
InetRests == UNCHANGED inetVars
IdnaRests == UNCHANGED idnaVars
TextsRest == InetRests /\ IdnaRests

(* Only the chosen part moves.                                             *)
PartsNext ==
  /\ \/ part = "thread" /\ Next /\ WatchRests
        /\ SignalRests /\ UdpRests /\ HeapRests /\ SpawnRests /\ TextsRest
     \/ part = "watch" /\ Watch!Next /\ ThreadRests
        /\ UNCHANGED <<full, late, lost>>
        /\ SignalRests /\ UdpRests /\ HeapRests /\ SpawnRests /\ TextsRest
     \/ part = "kqueue" /\ Kq!Next /\ ThreadRests
        /\ SignalRests /\ UdpRests /\ HeapRests /\ SpawnRests /\ TextsRest
     \/ part = "signal" /\ Sig!Next /\ ThreadRests
        /\ WatchRests /\ UdpRests /\ HeapRests /\ SpawnRests /\ TextsRest
     \/ part = "udp" /\ Udp!Next /\ ThreadRests
        /\ WatchRests /\ SignalRests /\ HeapRests /\ SpawnRests /\ TextsRest
     \/ part = "heap" /\ Heap!Next /\ ThreadRests
        /\ WatchRests /\ SignalRests /\ UdpRests /\ SpawnRests /\ TextsRest
     \/ part = "spawn" /\ Spawned!Next /\ ThreadRests
        /\ WatchRests /\ SignalRests /\ UdpRests /\ HeapRests /\ TextsRest
     \/ part = "inet" /\ Inet!Next /\ ThreadRests /\ IdnaRests
        /\ WatchRests /\ SignalRests /\ UdpRests /\ HeapRests /\ SpawnRests
     \/ part = "idna" /\ Idna!Next /\ ThreadRests /\ InetRests
        /\ WatchRests /\ SignalRests /\ UdpRests /\ HeapRests /\ SpawnRests
  /\ UNCHANGED part

partsVars == <<part, vars, watchVars, signalVars, udpVars, heapVars, spawnVars,
               inetVars, idnaVars>>

PartsSpec == PartsInit /\ [][PartsNext]_partsVars

-----------------------------------------------------------------------------
(* The promises of the parts: the conjuncts are stated in their modules.   *)
(* Those of UVExecutionThread are checked as they are.                     *)

(* A watcher hears of its own file only, the kernel knows what it waits    *)
(* for, and the table of watchers and the kernel keep nothing that is gone.*)
WatchersHear ==
  part = "watch" =>
    /\ Watch!TypeOK /\ Watch!OwnEvents /\ Watch!KernelKnows
    /\ Watch!NeverAborts /\ Watch!TableExact /\ Watch!NoJunk

(* So does one of a kqueue, except for a filter that is lost when its      *)
(* watcher stops and starts within a batch; and the assertion about file   *)
(* watchers fails behind a full array only.                                *)
KqueueHears ==
  part = "kqueue" =>
    /\ Kq!TypeOK /\ Kq!OwnEvents /\ Kq!FiltersKept
    /\ Kq!AbortNeedsFullArray /\ Kq!TableExact

(* A signal handle is closed behind the last of its messages, which are    *)
(* counted right, and the handlers are those the handles need.             *)
SignalsCounted ==
  Sig!TypeOK /\ Sig!ClosedIsForgotten /\ Sig!HandlersFit /\ Sig!CaughtIsExact

(* The callbacks of datagrams come once and in the order in which they were*)
(* sent, also those that a close cancels, which sends none of them; and no *)
(* step leaves a datagram without an event that takes it on, or is about to*)
(* call back a handle that does not receive.                               *)
DatagramsKept ==
  [][/\ Udp!SendsInOrder /\ Udp!NothingSentClosed
     /\ (Udp!TypeOK /\ Udp!CountExact /\ Udp!DatagramsMove
           /\ Udp!RecvHasCallback)']_udpVars

(* The pointers of the heap agree, it is complete and ordered.             *)
HeapIsHeap ==
  Heap!TypeOK /\ Heap!LinksMirror /\ Heap!Complete /\ Heap!HeapOrdered

(* A child has the files it was given, each in its place, and no others,   *)
(* and its failure is heard, with the exceptions that UVSpawnStdio names.  *)
StdioPlaced ==
  part = "spawn" =>
    /\ Spawned!TypeOK /\ Spawned!PlacesFilled /\ Spawned!NothingElse
    /\ Spawned!ErrorHeard

(* The text of an address is read as that address and leaves out all it    *)
(* can, and a text is read as what it says or refused; a name and its      *)
(* characters can be read back from what is made of them, with the         *)
(* exceptions that UVIdna names.                                           *)
TextsReadBack ==
  /\ part = "inet" => /\ Inet!TypeOK /\ Inet!ReadBack /\ Inet!LeavesOutMost
                      /\ Inet!ReadsLegalTexts /\ Inet!ReadsQuads
  /\ part = "idna" => /\ Idna!TypeOK /\ Idna!CharsReadBack
                      /\ Idna!RefusesOthers /\ Idna!NamesReadBack
                      /\ Idna!Utf16ReadBack

-----------------------------------------------------------------------------
PartsSymmetry == Permutations({w2, w3, w4}) \cup Permutations({f1, f2})
=============================================================================
