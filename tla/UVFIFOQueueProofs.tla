------------------------- MODULE UVFIFOQueueProofs -------------------------
(***************************************************************************)
(* Proofs about UVFIFOQueue for every finite set of threads and every set  *)
(* of elements.  What the run checks, QueueServes, is inductive as it      *)
(* stands: a signal and its item are counted in the same action, so that   *)
(* no intermediate state needs a clause of its own.                        *)
(***************************************************************************)
EXTENDS UVFIFOQueue, FiniteSetTheorems, SequenceTheorems, TLAPS

(* The threads in one state are finitely many.                             *)
LEMMA InFinite ==
  ASSUME ConstantsOK, NEW s
  PROVE  IsFiniteSet(In(s)) /\ Cardinality(In(s)) \in Nat
<1>1. In(s) \subseteq Threads
  BY DEF In
<1>2. QED
  BY <1>1, FS_Subset, FS_CardinalityType DEF ConstantsOK

(* A thread that enters a state is counted there, one that leaves is not.  *)
LEMMA InMoves ==
  ASSUME ConstantsOK, TypeOK, NEW t \in Threads, NEW s, NEW new,
         at' = [at EXCEPT ![t] = new]
  PROVE  /\ new # s /\ at[t] # s => In(s)' = In(s)
         /\ new = s /\ at[t] # s =>
              /\ In(s)' = In(s) \cup {t}
              /\ Cardinality(In(s)') = Cardinality(In(s)) + 1
         /\ new # s /\ at[t] = s =>
              /\ In(s)' = In(s) \ {t}
              /\ Cardinality(In(s)') = Cardinality(In(s)) - 1
<1>1. new # s /\ at[t] # s => In(s)' = In(s)
  BY DEF TypeOK, In
<1>2. ASSUME new = s, at[t] # s
      PROVE  /\ In(s)' = In(s) \cup {t}
             /\ Cardinality(In(s)') = Cardinality(In(s)) + 1
  <2>1. In(s)' = In(s) \cup {t} /\ t \notin In(s)
    BY <1>2 DEF TypeOK, In
  <2>2. QED
    BY <2>1, InFinite, FS_AddElement
<1>3. ASSUME new # s, at[t] = s
      PROVE  /\ In(s)' = In(s) \ {t}
             /\ Cardinality(In(s)') = Cardinality(In(s)) - 1
  <2>1. In(s)' = In(s) \ {t} /\ t \in In(s)
    BY <1>3 DEF TypeOK, In
  <2>2. QED
    BY <2>1, InFinite, FS_RemoveElement
<1>4. QED
  BY <1>1, <1>2, <1>3

(* removeFirst moves one element from the queue to the taken.              *)
LEMMA RemoveFirstMoves ==
  ASSUME TypeOK, FirstInFirstOut, items # <<>>, RemoveFirst, added' = added
  PROVE  /\ items' \in Seq(Elements) /\ taken' \in Seq(Elements)
         /\ FirstInFirstOut'
         /\ Len(items') \in Nat /\ Len(items') = Len(items) - 1
         /\ taken' # taken
<1>1. /\ Head(items) \in Elements /\ Tail(items) \in Seq(Elements)
      /\ Len(items) > 0 /\ Len(Tail(items)) = Len(items) - 1
  BY HeadTailProperties, EmptySeq, LenProperties DEF TypeOK
<1>2. taken' \in Seq(Elements) /\ Len(taken') = Len(taken) + 1
  BY <1>1, AppendProperties DEF TypeOK, RemoveFirst
<1>3. taken' \o items' = taken \o items
  BY <1>1 DEF TypeOK, RemoveFirst
<1>4. QED
  BY <1>1, <1>2, <1>3 DEF TypeOK, RemoveFirst, FirstInFirstOut

(* The initial states satisfy the invariant.                               *)
LEMMA QueueInit == Init => QueueServes
<1> SUFFICES ASSUME Init PROVE QueueServes
  OBVIOUS
<1>1. TypeOK /\ In("asleep") = {}
  BY EmptySeq DEF Init, TypeOK, In
<1>2. FirstInFirstOut
  BY DEF Init, FirstInFirstOut
<1>3. QED
  BY <1>1, <1>2 DEF QueueServes, NoLostWakeup

(* Every operation under the lock keeps the invariant.                     *)
LEMMA QueueStep ==
  ASSUME ConstantsOK PROVE QueueServes /\ [Next]_vars => QueueServes'
<1> SUFFICES ASSUME QueueServes, [Next]_vars PROVE QueueServes'
  OBVIOUS
<1>a. TypeOK /\ FirstInFirstOut /\ NoLostWakeup
  BY DEF QueueServes
<1>n. Len(items) \in Nat /\ \A s : Cardinality(In(s)) \in Nat
  BY <1>a, InFinite, LenProperties DEF TypeOK
<1>1. ASSUME NEW t \in Threads, NEW x \in Elements, Enqueue(t, x)
      PROVE  QueueServes'
  <2>1. /\ items' \in Seq(Elements) /\ added' \in Seq(Elements)
        /\ Len(items') = Len(items) + 1
    BY <1>a, <1>1, AppendProperties DEF Enqueue, TypeOK
  <2>2. FirstInFirstOut'
    BY <1>a, <1>1 DEF Enqueue, TypeOK, FirstInFirstOut
  <2>3. CASE In("asleep") = {}
    <3>1. In("asleep")' = {} /\ TypeOK'
      BY <1>a, <1>1, <2>1, <2>3 DEF Enqueue, TypeOK, In
    <3>2. QED
      BY <2>2, <3>1 DEF QueueServes, NoLostWakeup
  <2>4. CASE In("asleep") # {}
    <3>1. PICK w \in In("asleep") : at' = [at EXCEPT ![w] = "awake"]
      BY <1>1, <2>4 DEF Enqueue
    <3>2. w \in Threads /\ at[w] = "asleep"
      BY <3>1 DEF In
    <3>3. Cardinality(In("awake")') = Cardinality(In("awake")) + 1
      BY <1>a, <3>1, <3>2, InMoves
    <3>4. TypeOK'
      BY <1>a, <1>1, <2>1, <3>1, <3>2 DEF Enqueue, TypeOK, In
    <3>5. NoLostWakeup'
      BY <1>a, <1>n, <1>1, <2>1, <2>4, <3>3 DEF Enqueue, NoLostWakeup
    <3>6. QED
      BY <2>2, <3>4, <3>5 DEF QueueServes
  <2>5. QED
    BY <2>3, <2>4
<1>2. ASSUME NEW t \in Threads, Dequeue(t) PROVE QueueServes'
  <2>1. /\ items' \in Seq(Elements) /\ taken' \in Seq(Elements)
        /\ FirstInFirstOut' /\ Len(items') < Len(items) /\ Len(items') \in Nat
    BY <1>a, <1>n, <1>2, RemoveFirstMoves DEF Dequeue
  <2>2. In("asleep")' = In("asleep") /\ In("awake")' = In("awake")
    BY <1>2 DEF Dequeue, In
  <2>3. NoLostWakeup'
    BY <1>a, <1>n, <1>2, <2>1, <2>2 DEF Dequeue, NoLostWakeup
  <2>4. TypeOK'
    BY <1>a, <1>2, <2>1 DEF Dequeue, TypeOK, In
  <2>5. QED
    BY <2>1, <2>3, <2>4 DEF QueueServes
<1>3. ASSUME NEW t \in Threads, WaitForNextItem(t) PROVE QueueServes'
  <2>1. CASE items # <<>>
    <3>1. /\ items' \in Seq(Elements) /\ taken' \in Seq(Elements)
          /\ FirstInFirstOut' /\ Len(items') < Len(items)
          /\ Len(items') \in Nat
      BY <1>a, <1>n, <1>3, <2>1, RemoveFirstMoves
         DEF WaitForNextItem
    <3>2. In("asleep")' = In("asleep") /\ In("awake")' = In("awake")
      BY <1>3, <2>1 DEF WaitForNextItem, In
    <3>3. NoLostWakeup'
      BY <1>a, <1>n, <1>3, <3>1, <3>2 DEF WaitForNextItem, NoLostWakeup
    <3>4. TypeOK'
      BY <1>a, <1>3, <2>1, <3>1 DEF WaitForNextItem, TypeOK, In
    <3>5. QED
      BY <3>1, <3>3, <3>4 DEF QueueServes
  <2>2. CASE items = <<>>
    <3>1. TypeOK' /\ FirstInFirstOut'
      BY <1>a, <1>3, <2>2
         DEF WaitForNextItem, TypeOK, FirstInFirstOut, In
    <3>2. Len(items') = 0 /\ Cardinality(In("awake")') \in Nat
      <4>1. In("awake")' = In("awake")
        BY <1>a, <1>3, <2>2, InMoves DEF WaitForNextItem
      <4>2. QED
        BY <1>n, <1>3, <2>2, <4>1 DEF WaitForNextItem
    <3>3. QED
      BY <3>1, <3>2 DEF QueueServes, NoLostWakeup
  <2>3. QED
    BY <2>1, <2>2
<1>4. ASSUME NEW t \in Threads, Spurious(t) PROVE QueueServes'
  <2>1. In("awake")' = In("awake") /\ In("asleep")' = In("asleep") \ {t}
    BY <1>a, <1>4 DEF Spurious, TypeOK, In
  <2>2. TypeOK' /\ FirstInFirstOut'
    BY <1>a, <1>4 DEF Spurious, TypeOK, FirstInFirstOut, In
  <2>3. NoLostWakeup'
    BY <1>a, <1>4, <2>1 DEF Spurious, NoLostWakeup
  <2>4. QED
    BY <2>2, <2>3 DEF QueueServes
<1>5. ASSUME NEW t \in Threads, Resume(t) PROVE QueueServes'
  <2>1. CASE items # <<>>
    <3>1. /\ items' \in Seq(Elements) /\ taken' \in Seq(Elements)
          /\ FirstInFirstOut' /\ Len(items') = Len(items) - 1
          /\ Len(items') \in Nat
      BY <1>a, <1>n, <1>5, <2>1, RemoveFirstMoves
         DEF Resume
    <3>2. TypeOK'
      BY <1>a, <1>5, <2>1, <3>1 DEF Resume, TypeOK, In
    <3>3. In("asleep")' = In("asleep")
      BY <1>a, <1>5, <2>1 DEF Resume, TypeOK, In
    <3>5. at' = [at EXCEPT ![t] = "out"]
      BY <1>5, <2>1 DEF Resume
    <3>6. \/ In("awake")' = In("awake")
          \/ Cardinality(In("awake")') = Cardinality(In("awake")) - 1
      BY <1>a, <3>5, InMoves
    <3>4. NoLostWakeup'
      BY <1>a, <1>n, <1>5, <3>1, <3>3, <3>6 DEF Resume, NoLostWakeup
    <3>7. QED
      BY <3>1, <3>2, <3>4 DEF QueueServes
  <2>2. CASE items = <<>>
    <3>1. TypeOK' /\ FirstInFirstOut'
      BY <1>a, <1>5, <2>2 DEF Resume, TypeOK, FirstInFirstOut, In
    <3>2. Len(items') = 0 /\ Cardinality(In("awake")') \in Nat
      <4>1. \/ In("awake")' = In("awake")
            \/ In("awake")' = In("awake") \ {t}
        BY <1>a, <1>5, <2>2 DEF Resume, TypeOK, In
      <4>2. Cardinality(In("awake")') \in Nat
        BY <4>1, InFinite, FS_Subset, FS_CardinalityType
      <4>3. QED
        BY <1>5, <2>2, <4>2 DEF Resume
    <3>3. QED
      BY <3>1, <3>2 DEF QueueServes, NoLostWakeup
  <2>3. QED
    BY <2>1, <2>2
<1>6. ASSUME NEW t \in Threads, Expire(t) PROVE QueueServes'
  <2>1. TypeOK' /\ FirstInFirstOut'
    BY <1>a, <1>6 DEF Expire, TypeOK, FirstInFirstOut, In
  <2>2. CASE at[t] = "awake"
    BY <1>6, <2>1, <2>2 DEF Expire, QueueServes, NoLostWakeup
  <2>3. CASE at[t] # "awake"
    <3>1. /\ In("awake")' = In("awake")
          /\ In("asleep")' \subseteq In("asleep")
      BY <1>a, <1>6, <2>3, InMoves DEF Expire
    <3>2. QED
      BY <1>a, <1>6, <2>1, <3>1 DEF Expire, QueueServes, NoLostWakeup
  <2>4. QED
    BY <2>2, <2>3
<1>7. ASSUME NEW t \in Threads, ReturnNil(t) PROVE QueueServes'
  <2>1. TypeOK' /\ FirstInFirstOut'
    BY <1>a, <1>7 DEF ReturnNil, TypeOK, FirstInFirstOut, In
  <2>2. In("awake")' = In("awake") /\ In("asleep")' = In("asleep")
    BY <1>a, <1>7, InMoves DEF ReturnNil
  <2>3. QED
    BY <1>a, <1>7, <2>1, <2>2 DEF ReturnNil, QueueServes, NoLostWakeup
<1>8. CASE UNCHANGED vars
  BY <1>a, <1>8
     DEF vars, QueueServes, TypeOK, FirstInFirstOut, NoLostWakeup, In
<1>9. QED
  BY <1>1, <1>2, <1>3, <1>4, <1>5, <1>6, <1>7, <1>8 DEF Next

(* Items leave in the order of their arrival, each once, whoever takes     *)
(* them, and no item lies unnoticed beside a sleeper unless a wait that    *)
(* ran into its limit took a signal with it: for any number of threads.    *)
THEOREM QueueServesAll == ASSUME ConstantsOK PROVE Spec => []QueueServes
BY QueueInit, QueueStep, PTL DEF Spec

(* waitForNextItem without a limit returns only with an item.              *)
THEOREM NilOnlyAtLimit == ASSUME ConstantsOK PROVE Spec => NilNeedsLimit
<1>1. ASSUME QueueServes, [Next]_vars, NEW t \in Threads,
             at[t] # "out", at'[t] = "out"
      PROVE  t \in limited \/ taken' # taken
  <2>1. TypeOK /\ FirstInFirstOut
    BY <1>1 DEF QueueServes
  <2>2. (Resume(t) /\ items # <<>>) \/ ReturnNil(t)
    BY <1>1, <2>1 DEF TypeOK, Next, vars, Enqueue, Dequeue,
       WaitForNextItem, Spurious, Resume, Expire, ReturnNil, In
  <2>3. QED
    BY <2>1, <2>2, RemoveFirstMoves DEF Resume, ReturnNil, TypeOK, In
<1>2. QueueServes /\ [Next]_vars =>
        [\A t \in Threads : at[t] # "out" /\ at'[t] = "out" =>
           t \in limited \/ taken' # taken]_vars
  BY <1>1
<1>3. QED
  BY <1>2, QueueServesAll, PTL DEF Spec, NilNeedsLimit
=============================================================================
