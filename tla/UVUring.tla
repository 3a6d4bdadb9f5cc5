------------------------------ MODULE UVUring ------------------------------
(***************************************************************************)
(* File system requests over io_uring (unix/linux.c), with a kernel thread *)
(* that polls the submission ring: the two rings, the completions that do  *)
(* not fit, callbacks that submit while the completions are read, and the  *)
(* kernel thread that goes to sleep.                                       *)
(***************************************************************************)
EXTENDS Naturals, Sequences, FiniteSets

CONSTANTS Reqs, None,
          SqSize, CqSize,  \* entries of the rings, powers of two
          Wrap             \* 2^32, here any multiple of both sizes

VARIABLES
  sqhead, sqtail, sqe,  \* the submission ring; sqe[slot] is a request, None
                        \* when it was read (the memory keeps it)
  cqhead, cqtail, cqe,  \* the completion ring; cqe[slot]: [req, res],
                        \* likewise
  inKernel,             \* the requests the kernel works on
  overflow,             \* completions that did not fit
  asleep,               \* the kernel thread: "no"; "yes": it sleeps, and
                        \* SQ_NEED_WAKEUP is set; "blind": so it does, and
                        \* has not seen the last store of sqtail
  hidden,               \* the last store of sqtail is in the store buffer
  state,                \* state[r]: "free", "ring", "pool"
  in_flight,            \* iou->in_flight
  at,                   \* "run", "reap" in uv__poll_io_uring, "callback"
  i, end                \* its variables i and tail

sq == <<sqhead, sqtail, sqe>>
cq == <<cqhead, cqtail, cqe>>
reap == <<at, i, end>>
vars == <<sq, cq, inKernel, overflow, asleep, hidden, state, in_flight, reap>>

Plus(n, k) == (n + k) % Wrap
Distance(from, to) == (to + Wrap - from) % Wrap

NoEntry == [req |-> None, res |-> "none"]

Init == /\ sqhead = 0 /\ sqtail = 0 /\ sqe = [s \in 0..SqSize - 1 |-> None]
        /\ cqhead = 0 /\ cqtail = 0
        /\ cqe = [s \in 0..CqSize - 1 |-> NoEntry]
        /\ inKernel = {} /\ overflow = <<>>
        /\ asleep = "no" /\ hidden = FALSE
        /\ state = [r \in Reqs |-> "free"] /\ in_flight = 0
        /\ at = "run" /\ i = 0 /\ end = 0

-----------------------------------------------------------------------------
(* The loop: uv__iou_get_sqe and uv__iou_submit.                           *)

Room == sqhead % SqSize # (sqtail + 1) % SqSize

Put(r) == /\ sqe' = [sqe EXCEPT ![sqtail % SqSize] = r]
          /\ sqtail' = Plus(sqtail, 1)
          /\ state' = [state EXCEPT ![r] = "ring"]
          /\ in_flight' = in_flight + 1
          /\ UNCHANGED <<sqhead, cq, inKernel, overflow, reap>>

(* The store of sqtail is a release and the load of the flags an acquire:  *)
(* nothing keeps the load behind the store.  If it comes first and finds   *)
(* the kernel thread awake, the store may still be hidden from it.         *)
Submit(r) ==
  /\ at # "reap" /\ state[r] = "free" /\ Room
  /\ Put(r)
  /\ asleep' = "no"
  /\ hidden' \in IF asleep = "no" THEN BOOLEAN ELSE {FALSE}

StoreSeen == /\ hidden
             /\ hidden' = FALSE
             /\ UNCHANGED <<sq, cq, inKernel, overflow, asleep, state, in_flight,
                            reap>>

-----------------------------------------------------------------------------
(* The kernel.                                                             *)

VisibleTail == IF hidden THEN Plus(sqtail, Wrap - 1) ELSE sqtail

TakeEntry ==
  /\ asleep = "no" /\ sqhead # VisibleTail
  /\ inKernel' = inKernel \cup {sqe[sqhead % SqSize]}
  /\ sqe' = [sqe EXCEPT ![sqhead % SqSize] = None]
  /\ sqhead' = Plus(sqhead, 1)
  /\ UNCHANGED <<sqtail, cq, overflow, asleep, hidden, state, in_flight,
                 reap>>

(* It sets the flag, looks at the tail once more, and sleeps.              *)
FallAsleep ==
  /\ asleep = "no" /\ sqhead = VisibleTail
  /\ asleep' = IF hidden THEN "blind" ELSE "yes"
  /\ UNCHANGED <<sq, cq, inKernel, overflow, hidden, state, in_flight, reap>>

Fits == Distance(cqhead, cqtail) < CqSize

(* "nosys" stands for EOPNOTSUPP, "done" for any other result.             *)
Complete(r) ==
  /\ r \in inKernel
  /\ inKernel' = inKernel \ {r}
  /\ \E res \in {"done", "nosys"} :
       IF Fits /\ overflow = <<>>
       THEN /\ cqe' = [cqe EXCEPT ![cqtail % CqSize] = [req |-> r, res |-> res]]
            /\ cqtail' = Plus(cqtail, 1)
            /\ UNCHANGED overflow
       ELSE /\ overflow' = Append(overflow, [req |-> r, res |-> res])
            /\ UNCHANGED <<cqe, cqtail>>
  /\ UNCHANGED <<sq, cqhead, asleep, hidden, state, in_flight, reap>>

Kernel == TakeEntry \/ \E r \in Reqs : Complete(r)

(* The thread pool, to which a request goes that the kernel cannot do.     *)
PoolDone(r) ==
  /\ at = "run" /\ state[r] = "pool"
  /\ state' = [state EXCEPT ![r] = "free"]
  /\ UNCHANGED <<sq, cq, inKernel, overflow, asleep, hidden, in_flight, reap>>

-----------------------------------------------------------------------------
(* uv__poll_io_uring.                                                      *)

Poll ==
  /\ at = "run" /\ (cqhead # cqtail \/ overflow # <<>>)
  /\ at' = "reap" /\ i' = cqhead /\ end' = cqtail
  /\ UNCHANGED <<sq, cq, inKernel, overflow, asleep, hidden, state, in_flight>>

Entry == cqe[i % CqSize]

CallBack ==
  /\ at = "reap" /\ i # end /\ Entry.res = "done"
  /\ i' = Plus(i, 1) /\ at' = "callback"
  /\ in_flight' = in_flight - 1
  /\ state' = [state EXCEPT ![Entry.req] = "free"]
  /\ cqe' = [cqe EXCEPT ![i % CqSize] = NoEntry]
  /\ UNCHANGED <<sq, cqhead, cqtail, inKernel, overflow, asleep, hidden, end>>

(* uv__fs_post.                                                            *)
Post ==
  /\ at = "reap" /\ i # end /\ Entry.res = "nosys"
  /\ i' = Plus(i, 1)
  /\ in_flight' = in_flight - 1
  /\ state' = [state EXCEPT ![Entry.req] = "pool"]
  /\ cqe' = [cqe EXCEPT ![i % CqSize] = NoEntry]
  /\ UNCHANGED <<sq, cqhead, cqtail, inKernel, overflow, asleep, hidden, at, end>>

Return == /\ at = "callback"
          /\ at' = "reap"
          /\ UNCHANGED <<sq, cq, inKernel, overflow, asleep, hidden, state,
                         in_flight, i, end>>

(* Variant of ReapEnds: the flags are not looked at.                       *)
ReapEndsBlind ==
  /\ at = "reap" /\ i = end
  /\ at' = "run" /\ cqhead' = end
  /\ UNCHANGED <<sq, cqtail, cqe, inKernel, overflow, asleep, hidden, state,
                 in_flight, i, end>>

(* The entries are given back.  When some did not fit the kernel is called *)
(* to put them into the ring, for the next iteration of the loop.          *)
ReapEnds ==
  /\ at = "reap" /\ i = end
  /\ at' = "run" /\ cqhead' = end
  /\ LET room == CqSize - Distance(end, cqtail)
         n == IF Len(overflow) < room THEN Len(overflow) ELSE room
         new(s) == CHOOSE k \in 1..n : (cqtail + k - 1) % CqSize = s
     IN /\ cqe' = [s \in 0..CqSize - 1 |->
                     IF \E k \in 1..n : (cqtail + k - 1) % CqSize = s
                     THEN overflow[new(s)] ELSE cqe[s]]
        /\ cqtail' = Plus(cqtail, n)
        /\ overflow' = SubSeq(overflow, n + 1, Len(overflow))
  /\ UNCHANGED <<sq, inKernel, asleep, hidden, state, in_flight, i, end>>

Loop == Poll \/ CallBack \/ Post \/ Return \/ ReapEnds
Next == \/ Loop \/ Kernel \/ FallAsleep \/ StoreSeen
        \/ \E r \in Reqs : Submit(r) \/ PoolDone(r)

(* The loop goes on, callbacks return, and the kernel works when it is     *)
(* awake.                                                                  *)
Fairness == /\ WF_vars(Loop) /\ WF_vars(StoreSeen) /\ WF_vars(TakeEntry)
            /\ \A r \in Reqs : WF_vars(Complete(r))

Spec == Init /\ [][Next]_vars /\ Fairness

-----------------------------------------------------------------------------
(* Properties.                                                             *)

TypeOK == /\ {sqhead, sqtail, cqhead, cqtail, i, end} \subseteq 0..Wrap - 1
          /\ sqe \in [0..SqSize - 1 -> Reqs \cup {None}]
          /\ cqe \in [0..CqSize - 1 -> [req : Reqs \cup {None},
                                        res : {"none", "done", "nosys"}]]
          /\ inKernel \subseteq Reqs
          /\ overflow \in Seq([req : Reqs, res : {"done", "nosys"}])
          /\ asleep \in {"no", "yes", "blind"} /\ hidden \in BOOLEAN
          /\ state \in [Reqs -> {"free", "ring", "pool"}]
          /\ in_flight \in Nat
          /\ at \in {"run", "reap", "callback"}

(* Where the requests in the rings and the kernel are.                     *)
FirstUnread == IF at = "run" THEN cqhead ELSE i
Submitted == {sqe[Plus(sqhead, k) % SqSize] :
                k \in 0..Distance(sqhead, sqtail) - 1}
Completed == {cqe[Plus(FirstUnread, k) % CqSize].req :
                k \in 0..Distance(FirstUnread, cqtail) - 1}
             \cup {overflow[k].req : k \in DOMAIN overflow}

(* A request in flight is in one place, once: no entry is written over     *)
(* that the other side has not read, at the limits of both rings and where *)
(* the counters wrap, and in_flight counts them.                           *)
EachOnce ==
  LET n == Distance(sqhead, sqtail) + Cardinality(inKernel)
             + Distance(FirstUnread, cqtail) + Len(overflow)
  IN /\ {r \in Reqs : state[r] = "ring"} = Submitted \cup inKernel \cup Completed
     /\ in_flight = n
     /\ n = Cardinality({r \in Reqs : state[r] = "ring"})

(* The kernel thread sleeps beside a submission only when it could not see *)
(* the store: uv__iou_submit has no fence between store and load.          *)
Stranded == asleep # "no" /\ sqhead # sqtail
StrandedByReordering == Stranded => asleep = "blind"

(* Every request is called back or given to the pool, however many         *)
(* completions did not fit, unless it is stranded.                         *)
RequestAnswered(r) == state[r] = "ring" ~> state[r] # "ring" \/ Stranded
=============================================================================
