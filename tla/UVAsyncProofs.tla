--------------------------- MODULE UVAsyncProofs ---------------------------
(***************************************************************************)
(* Proofs about UVAsync for every finite set of threads and either kind of *)
(* descriptor.  AsyncInv is the inductive invariant: the checked           *)
(* invariants, where each thread of the protocol stands when the flag it   *)
(* relies on is set, and where the loop stands in the life of the handle.  *)
(***************************************************************************)
EXTENDS UVAsync, FiniteSetTheorems, TLAPS

(* A send past its exchange still finds the flag set, unless a callback    *)
(* run has cleared it and answered the send.                               *)
PassedSendIsFlagged ==
  handle = "open" =>
    \A t \in owed : snd[t] \in {"idle", "write", "dec"} => pending = 1

(* The flag is set for good when the close starts, and the loop spins      *)
(* exactly while the handle is closing.                                    *)
CloseProtocol == /\ (io = "spin") <=> (handle = "closing")
                 /\ handle # "open" => pending = 1

AsyncInv == /\ TypeOK
            /\ BusyCounts
            /\ QuietAfterClose
            /\ FlagIsBacked
            /\ PassedSendIsFlagged
            /\ CloseProtocol

(* The set that busy counts is finite.                                     *)
LEMMA InsideFinite == IsFiniteSet(Inside) /\ Cardinality(Inside) \in Nat
<1>1. Inside \in SUBSET Threads
  BY DEF Inside
<1>2. IsFiniteSet(Inside)
  BY <1>1, ThreadsFinite, FS_Subset
<1>3. QED
  BY <1>2, FS_CardinalityType

(* The initial states satisfy the invariant.                               *)
LEMMA AsyncInit == Init => AsyncInv
<1> SUFFICES ASSUME Init PROVE AsyncInv
  OBVIOUS
<1> USE DEF Init
<1>1. TypeOK
  BY DEF TypeOK, SendSteps, IoSteps, HandleStates
<1>2. BusyCounts
  <2>1. Inside = {}
    BY DEF Inside
  <2>2. QED
    BY <2>1, FS_EmptySet DEF BusyCounts
<1>3. QuietAfterClose /\ FlagIsBacked /\ PassedSendIsFlagged /\ CloseProtocol
  BY DEF QuietAfterClose, FlagIsBacked, PassedSendIsFlagged, CloseProtocol
<1>4. QED
  BY <1>1, <1>2, <1>3 DEF AsyncInv

(* A step that moves no thread in or out of Inside leaves the count right. *)
LEMMA CountKept ==
  ASSUME BusyCounts, Inside' = Inside, busy' = busy
  PROVE  BusyCounts'
BY DEF BusyCounts

(* Every step of the protocol keeps the invariant.                         *)
LEMMA AsyncStep == AsyncInv /\ [Next]_vars => AsyncInv'
<1> SUFFICES ASSUME AsyncInv, [Next]_vars PROVE AsyncInv'
  OBVIOUS
<1> USE DEF AsyncInv, TypeOK, SendSteps, IoSteps, HandleStates
<1>1. ASSUME NEW t \in Threads, CallSend(t) PROVE AsyncInv'
  <2>1. Inside' = Inside
    BY <1>1 DEF CallSend, Inside
  <2>2. BusyCounts'
    BY <1>1, <2>1, CountKept DEF CallSend
  <2>3. QED
    BY <1>1, <2>2 DEF CallSend, QuietAfterClose, FlagIsBacked,
       PassedSendIsFlagged, CloseProtocol
<1>2. ASSUME NEW t \in Threads, Load(t) PROVE AsyncInv'
  <2>1. Inside' = Inside
    BY <1>2 DEF Load, Inside
  <2>2. BusyCounts'
    BY <1>2, <2>1, CountKept DEF Load
  <2>3. QED
    BY <1>2, <2>2 DEF Load, QuietAfterClose, FlagIsBacked,
       PassedSendIsFlagged, CloseProtocol
<1>3. ASSUME NEW t \in Threads, Inc(t) PROVE AsyncInv'
  <2>1. Inside' = Inside \cup {t} /\ t \notin Inside
    BY <1>3 DEF Inc, Inside
  <2>2. Cardinality(Inside') = Cardinality(Inside) + 1
    BY <2>1, InsideFinite, FS_AddElement
  <2>3. BusyCounts' /\ busy' \in Nat
    BY <1>3, <2>2 DEF Inc, BusyCounts
  <2>4. QED
    BY <1>3, <2>3 DEF Inc, QuietAfterClose, FlagIsBacked,
       PassedSendIsFlagged, CloseProtocol
<1>4. ASSUME NEW t \in Threads, Xchg(t) PROVE AsyncInv'
  <2>1. Inside' = Inside
    BY <1>4 DEF Xchg, Inside
  <2>2. BusyCounts'
    BY <1>4, <2>1, CountKept DEF Xchg
  <2>3. QuietAfterClose'
    BY <1>4 DEF Xchg, QuietAfterClose
  <2>4. FlagIsBacked'
    BY <1>4 DEF Xchg, FlagIsBacked
  <2>5. QED
    BY <1>4, <2>2, <2>3, <2>4 DEF Xchg, PassedSendIsFlagged, CloseProtocol
<1>5. ASSUME NEW t \in Threads, Write(t) PROVE AsyncInv'
  <2>1. Inside' = Inside
    BY <1>5 DEF Write, Inside
  <2>2. BusyCounts'
    BY <1>5, <2>1, CountKept DEF Write
  <2>3. QED
    BY <1>5, <2>2 DEF Write, QuietAfterClose, FlagIsBacked,
       PassedSendIsFlagged, CloseProtocol
<1>6. ASSUME NEW t \in Threads, Dec(t) PROVE AsyncInv'
  <2>1. Inside' = Inside \ {t} /\ t \in Inside
    BY <1>6 DEF Dec, Inside
  <2>2. Cardinality(Inside') = Cardinality(Inside) - 1
    BY <2>1, InsideFinite, FS_RemoveElement
  <2>3. Cardinality(Inside') \in Nat
    BY <2>1, InsideFinite, FS_RemoveElement, FS_CardinalityType
  <2>4. BusyCounts' /\ busy' \in Nat
    BY <1>6, <2>2, <2>3 DEF Dec, BusyCounts
  <2>5. QED
    BY <1>6, <2>4 DEF Dec, QuietAfterClose, FlagIsBacked,
       PassedSendIsFlagged, CloseProtocol
<1>7. CASE EnterPoll \/ PollOther \/ CallbackReturn \/ FinishClose
  <2>1. Inside' = Inside /\ busy' = busy
    BY <1>7 DEF EnterPoll, PollOther, CallbackReturn, FinishClose, Inside
  <2>2. BusyCounts'
    BY <2>1, CountKept
  <2>3. QED
    BY <1>7, <2>2 DEF EnterPoll, PollOther, CallbackReturn, FinishClose,
       QuietAfterClose, FlagIsBacked, PassedSendIsFlagged, CloseProtocol
<1>8. CASE Wakeup \/ Drain
  <2>1. Inside' = Inside /\ busy' = busy
    BY <1>8 DEF Wakeup, Drain, Inside
  <2>2. BusyCounts'
    BY <2>1, CountKept
  <2>3. QED
    BY <1>8, <2>2, EdgeIsBoolean DEF Wakeup, Drain,
       QuietAfterClose, FlagIsBacked, PassedSendIsFlagged, CloseProtocol
<1>9. CASE Exchange
  <2>1. Inside' = Inside /\ busy' = busy
    BY <1>9 DEF Exchange, Inside
  <2>2. BusyCounts'
    BY <2>1, CountKept
  <2>3. QuietAfterClose' /\ FlagIsBacked' /\ CloseProtocol'
    BY <1>9 DEF Exchange, QuietAfterClose, FlagIsBacked, CloseProtocol
  <2>4. QED
    BY <1>9, <2>2, <2>3 DEF Exchange, PassedSendIsFlagged
<1>10. CASE Close
  <2>1. Inside' = Inside /\ busy' = busy
    BY <1>10 DEF Close, Inside
  <2>2. BusyCounts'
    BY <2>1, CountKept
  <2>3. QED
    BY <1>10, <2>2 DEF Close, QuietAfterClose, FlagIsBacked,
       PassedSendIsFlagged, CloseProtocol
<1>11. CASE SpinDone
  <2>1. Inside' = Inside /\ busy' = busy
    BY <1>11 DEF SpinDone, Inside
  <2>2. BusyCounts'
    BY <2>1, CountKept
  <2>3. Inside = {}
    BY <1>11, InsideFinite, FS_EmptySet DEF SpinDone, BusyCounts
  <2>4. \A t \in Threads : snd[t] # "write"
    BY <2>3 DEF Inside
  <2>5. QuietAfterClose'
    BY <1>11, <2>4 DEF SpinDone, QuietAfterClose, CloseProtocol
  <2>6. QED
    BY <1>11, <2>2, <2>5 DEF SpinDone, FlagIsBacked,
       PassedSendIsFlagged, CloseProtocol
<1>12. CASE UNCHANGED vars
  BY <1>12 DEF vars, Inside, BusyCounts, QuietAfterClose, FlagIsBacked,
     PassedSendIsFlagged, CloseProtocol
<1>13. QED
  BY <1>1, <1>2, <1>3, <1>4, <1>5, <1>6, <1>7, <1>8, <1>9, <1>10, <1>11,
     <1>12 DEF Next, SendStep, LoopStep

(* AsyncInv holds in every reachable state.                                *)
THEOREM AsyncInvariance == SafetySpec => []AsyncInv
BY AsyncInit, AsyncStep, PTL DEF SafetySpec

(* Type correctness of the wakeup protocol.                                *)
THEOREM AsyncTypeCorrect == Spec => []TypeOK
<1>1. AsyncInv => TypeOK
  BY DEF AsyncInv
<1>2. QED
  BY <1>1, AsyncInvariance, PTL DEF Spec

(* After uv_close no thread can write to the descriptor of the loop.       *)
THEOREM NoWriteAfterClose == Spec => []QuietAfterClose
<1>1. AsyncInv => QuietAfterClose
  BY DEF AsyncInv
<1>2. QED
  BY <1>1, AsyncInvariance, PTL DEF Spec

(* No wakeup is lost: the flag is backed by an event, and a send that      *)
(* returned unanswered has left the flag set.                              *)
THEOREM NoLostWakeup == Spec => [](FlagIsBacked /\ ReturnedSendIsFlagged)
<1>1. AsyncInv => FlagIsBacked /\ ReturnedSendIsFlagged
  BY DEF AsyncInv, PassedSendIsFlagged, ReturnedSendIsFlagged
<1>2. QED
  BY <1>1, AsyncInvariance, PTL DEF Spec

(* The safety of the wakeup as a whole, for any set of sending threads and *)
(* either kind of descriptor: no write after the close, an exact count of  *)
(* the senders inside, and no wakeup lost.                                 *)
THEOREM AsyncIsSafe == Spec => []AsyncSafe
<1>1. AsyncInv => AsyncSafe
  BY DEF AsyncInv, AsyncSafe, PassedSendIsFlagged, ReturnedSendIsFlagged
<1>2. QED
  BY <1>1, AsyncInvariance, PTL DEF Spec

(* The protocol's steps are steps of AsyncSignal or stutter: the callback  *)
(* runs only on an open handle and answers every earlier call.             *)
THEOREM AsyncImplementsSignal ==
  SafetySpec => Signal!Init /\ [][Signal!Next]_(Signal!vars)
<1>1. Init => Signal!Init
  BY DEF Init, Signal!Init
<1>2. AsyncInv /\ [Next]_vars => [Signal!Next]_(Signal!vars)
  <2> SUFFICES ASSUME AsyncInv, [Next]_vars
               PROVE  [Signal!Next]_(Signal!vars)
    OBVIOUS
  <2> USE DEF Signal!Next, Signal!vars
  <2>1. ASSUME NEW t \in Threads, CallSend(t)
        PROVE  [Signal!Next]_(Signal!vars)
    BY <2>1 DEF CallSend, Signal!Call
  <2>2. ASSUME NEW t \in Threads, SendStep(t)
        PROVE  [Signal!Next]_(Signal!vars)
    BY <2>2 DEF SendStep, Load, Inc, Xchg, Write, Dec
  <2>3. CASE Exchange
    BY <2>3 DEF Exchange, Signal!Answer
  <2>4. CASE Close
    BY <2>4 DEF Close, Signal!Shut
  <2>5. CASE SpinDone
    BY <2>5 DEF SpinDone, AsyncInv, CloseProtocol
  <2>6. CASE EnterPoll \/ Wakeup \/ PollOther \/ Drain \/ CallbackReturn
             \/ FinishClose
    BY <2>6 DEF EnterPoll, Wakeup, PollOther, Drain, CallbackReturn,
       FinishClose
  <2>7. CASE UNCHANGED vars
    BY <2>7 DEF vars
  <2>8. QED
    BY <2>1, <2>2, <2>3, <2>4, <2>5, <2>6, <2>7 DEF Next, LoopStep
<1>3. QED
  BY <1>1, <1>2, AsyncInvariance, PTL DEF SafetySpec
=============================================================================
