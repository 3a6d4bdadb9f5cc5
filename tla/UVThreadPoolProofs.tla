-------------------------- MODULE UVThreadPoolProofs --------------------------
(***************************************************************************)
(* Proofs about UVThreadPool, for every finite set of threads and any      *)
(* requests.                                                               *)
(***************************************************************************)
EXTENDS UVThreadPool, FiniteSetTheorems, SequenceTheorems, TLAPS

Holds(t) == worker[t] \in {"works", "handsOver"}
Unanswered(w) == field[w] = "set" /\ ran[w] = 0 /\ result[w] = <<>>
Requeued(w) == loopAt = "cancelled" /\ target = w

(* Who has a mutex, and who has work, can be told from where it is.        *)
LockInv ==
  /\ \A t \in Workers :
       /\ worker[t] = "has" <=> mutex = t
       /\ worker[t] = "handsOver" <=> wqMutex = t
       /\ job[t] # None <=> Holds(t) \/ worker[t] = "handedOver"
  /\ mutex = Loop <=> loopAt = "cancel"
  /\ loopAt # "run" => target \in Work

(* A request is in one place at a time: in a queue, in the hands of a      *)
(* worker or of uv_cancel, or it is answered.                              *)
QueueInv == IsInjective(wq) /\ IsInjective(slowQ)
            /\ IsInjective(doneQ) /\ IsInjective(local)

PlaceInv == \A w \in Work :
  /\ Contains(wq, w) \/ Contains(slowQ, w) => Unanswered(w) /\ ~Requeued(w)
  /\ Contains(doneQ, w) \/ Contains(local, w)
       => /\ field[w] \in {"null", "cancelled"} /\ result[w] = <<>>
          /\ ~Requeued(w) /\ ~(Contains(doneQ, w) /\ Contains(local, w))
  /\ Requeued(w)
       => field[w] \in {"set", "cancelled"} /\ ran[w] = 0 /\ result[w] = <<>>
  /\ field[w] \in {"none", "cancelled"} => ran[w] = 0
  /\ field[w] = "none" => result[w] = <<>>
  /\ field[w] = "null" => ran[w] = 1
  /\ result[w] # <<>>
       => /\ field[w] \in {"null", "cancelled"}
          /\ result[w] = IF ran[w] = 0 THEN <<"ECANCELED">> ELSE <<"ok">>

HandInv == \A t \in Workers : Holds(t) =>
  /\ field[job[t]] = "set" /\ result[job[t]] = <<>> /\ ~Requeued(job[t])
  /\ ran[job[t]] = (IF worker[t] = "handsOver" THEN 1 ELSE 0)
  /\ ~Contains(wq, job[t]) /\ ~Contains(slowQ, job[t])
  /\ \A u \in Workers : Holds(u) /\ job[u] = job[t] => u = t

(* slowRunning counts the threads of slow work.                            *)
AtSlow == {t \in Workers : job[t] \in SlowWork}

SlowInv == slowRunning = Cardinality(AtSlow) /\ slowRunning <= Threshold

(* While a worker sleeps there is one awake for everything that waits to   *)
(* be taken.  A worker that comes back from slow work does not count: what *)
(* its return makes room for has none.                                     *)
Awake == {t \in Workers : \/ worker[t] \in {"wants", "signalled", "has"}
                          \/ worker[t] = "handedOver" /\ job[t] \notin SlowWork}

Takable == IF AtThreshold /\ Contains(wq, Slow) THEN Len(wq) - 1 ELSE Len(wq)

AwakeInv == At("asleep") # {} => Cardinality(Awake) >= Takable

PoolInv == /\ TypeOK /\ LockInv /\ QueueInv /\ PlaceInv /\ HandInv
           /\ SlowInv /\ AwakeInv
-----------------------------------------------------------------------------
(* Queues: what they contain when one is added, taken or dropped.          *)

LEMMA DomainIsLen ==
  ASSUME NEW S, NEW q \in Seq(S)
  PROVE  /\ Len(q) \in Nat /\ DOMAIN q = 1..Len(q)
         /\ \A i \in 1..Len(q) : q[i] \in S
         /\ \A x : Contains(q, x) => x \in S
         /\ Len(q) = 0 <=> q = <<>>
BY LenProperties, ElementOfSeq, EmptySeq DEF Contains

LEMMA QueueAdds ==
  ASSUME NEW S, NEW q \in Seq(S), NEW x \in S
  PROVE  /\ Append(q, x) \in Seq(S) /\ Len(Append(q, x)) = Len(q) + 1
         /\ \A y : Contains(Append(q, x), y) <=> Contains(q, y) \/ y = x
         /\ IsInjective(q) /\ ~Contains(q, x) => IsInjective(Append(q, x))
<1>1. /\ Append(q, x) \in Seq(S) /\ Len(q) \in Nat
      /\ Len(Append(q, x)) = Len(q) + 1
      /\ \A i \in 1..Len(q) : Append(q, x)[i] = q[i]
      /\ Append(q, x)[Len(q) + 1] = x
      /\ DOMAIN Append(q, x) = 1..Len(q) + 1 /\ DOMAIN q = 1..Len(q)
  BY AppendProperties, DomainIsLen
<1>2. \A i \in 1..Len(q) + 1 : i \in 1..Len(q) \/ i = Len(q) + 1
  BY <1>1
<1>3. ASSUME NEW y PROVE Contains(Append(q, x), y) <=> Contains(q, y) \/ y = x
  BY <1>1, <1>2 DEF Contains
<1>4. ASSUME IsInjective(q), ~Contains(q, x) PROVE IsInjective(Append(q, x))
  BY <1>1, <1>2, <1>4 DEF IsInjective, Contains
<1>5. QED
  BY <1>1, <1>3, <1>4

LEMMA QueueTakes ==
  ASSUME NEW S, NEW q \in Seq(S), q # <<>>
  PROVE  /\ Head(q) \in S /\ Tail(q) \in Seq(S) /\ Contains(q, Head(q))
         /\ Len(q) \in Nat \ {0} /\ Len(Tail(q)) = Len(q) - 1
         /\ \A y : Contains(q, y) <=> Contains(Tail(q), y) \/ y = Head(q)
         /\ IsInjective(q) => IsInjective(Tail(q)) /\ ~Contains(Tail(q), Head(q))
<1>1. /\ Head(q) \in S /\ Tail(q) \in Seq(S)
      /\ Len(q) \in Nat /\ Len(q) > 0 /\ Len(Tail(q)) = Len(q) - 1
      /\ Head(q) = q[1]
      /\ \A k \in 1..Len(Tail(q)) : Tail(q)[k] = q[k + 1]
      /\ DOMAIN q = 1..Len(q) /\ DOMAIN Tail(q) = 1..Len(Tail(q))
  BY HeadTailProperties, DomainIsLen
<1>2. /\ \A k \in 1..Len(Tail(q)) : k + 1 \in 1..Len(q) /\ k + 1 # 1
      /\ \A k \in 1..Len(q) : k = 1 \/ (k - 1 \in 1..Len(Tail(q)) /\ (k - 1) + 1 = k)
      /\ 1 \in 1..Len(q)
  BY <1>1
<1>3. ASSUME NEW y PROVE Contains(q, y) <=> Contains(Tail(q), y) \/ y = Head(q)
  <2>1. Contains(q, y) => Contains(Tail(q), y) \/ y = Head(q)
    BY <1>1, <1>2 DEF Contains
  <2>2. Contains(Tail(q), y) \/ y = Head(q) => Contains(q, y)
    BY <1>1, <1>2 DEF Contains
  <2>3. QED
    BY <2>1, <2>2
<1>4. ASSUME IsInjective(q)
      PROVE  IsInjective(Tail(q)) /\ ~Contains(Tail(q), Head(q))
  <2>1. ~Contains(Tail(q), Head(q))
    BY <1>1, <1>2, <1>4 DEF IsInjective, Contains
  <2>2. ASSUME NEW i \in 1..Len(Tail(q)), NEW j \in 1..Len(Tail(q)),
               Tail(q)[i] = Tail(q)[j]
        PROVE  i = j
    <3>1. i + 1 = j + 1
      BY <1>1, <1>2, <1>4, <2>2 DEF IsInjective
    <3>2. QED
      BY <1>1, <3>1
  <2>3. QED
    BY <1>1, <2>1, <2>2 DEF IsInjective
<1>5. QED
  BY <1>1, <1>3, <1>4

LEMMA QueuesJoin ==
  ASSUME NEW S, NEW s \in Seq(S), NEW t \in Seq(S)
  PROVE  /\ s \o t \in Seq(S) /\ Len(s \o t) = Len(s) + Len(t)
         /\ \A y : Contains(s \o t, y) <=> Contains(s, y) \/ Contains(t, y)
         /\ (/\ IsInjective(s) /\ IsInjective(t)
             /\ \A y : ~(Contains(s, y) /\ Contains(t, y)))
              => IsInjective(s \o t)
<1>1. /\ s \o t \in Seq(S) /\ Len(s) \in Nat /\ Len(t) \in Nat
      /\ Len(s \o t) = Len(s) + Len(t)
      /\ \A i \in 1..Len(s) : (s \o t)[i] = s[i]
      /\ \A i \in 1..Len(t) : (s \o t)[Len(s) + i] = t[i]
      /\ DOMAIN s = 1..Len(s) /\ DOMAIN t = 1..Len(t)
      /\ DOMAIN (s \o t) = 1..Len(s) + Len(t)
  BY ConcatProperties, DomainIsLen
<1>2. \A i \in 1..Len(s) + Len(t) :
        i \in 1..Len(s) \/ (i - Len(s) \in 1..Len(t) /\ i = Len(s) + (i - Len(s)))
  BY <1>1
<1>3. /\ \A i \in 1..Len(s) : i \in 1..Len(s) + Len(t)
      /\ \A i \in 1..Len(t) : Len(s) + i \in 1..Len(s) + Len(t)
  BY <1>1
<1>4. ASSUME NEW y PROVE Contains(s \o t, y) <=> Contains(s, y) \/ Contains(t, y)
  <2>1. Contains(s \o t, y) => Contains(s, y) \/ Contains(t, y)
    BY <1>1, <1>2 DEF Contains
  <2>2. Contains(s, y) \/ Contains(t, y) => Contains(s \o t, y)
    BY <1>1, <1>3 DEF Contains
  <2>3. QED
    BY <2>1, <2>2
<1>5. ASSUME IsInjective(s), IsInjective(t),
             \A y : ~(Contains(s, y) /\ Contains(t, y))
      PROVE  IsInjective(s \o t)
  <2> SUFFICES ASSUME NEW i \in 1..Len(s) + Len(t), NEW j \in 1..Len(s) + Len(t),
                      (s \o t)[i] = (s \o t)[j]
               PROVE  i = j
    BY <1>1 DEF IsInjective
  <2>1. ASSUME NEW k \in 1..Len(s), NEW l \in 1..Len(t) PROVE s[k] # t[l]
    BY <1>5 DEF Contains
  <2>2. CASE i \in 1..Len(s) /\ j \in 1..Len(s)
    BY <1>1, <1>5, <2>2 DEF IsInjective
  <2>3. ASSUME NEW k \in 1..Len(t), NEW l \in 1..Len(t),
               i = Len(s) + k, j = Len(s) + l
        PROVE  i = j
    BY <1>1, <1>5, <2>3 DEF IsInjective
  <2>4. ASSUME NEW k \in 1..Len(t), i \in 1..Len(s), j = Len(s) + k
        PROVE  FALSE
    BY <1>1, <2>1, <2>4
  <2>5. ASSUME NEW k \in 1..Len(t), j \in 1..Len(s), i = Len(s) + k
        PROVE  FALSE
    BY <1>1, <2>1, <2>5
  <2>6. QED
    BY <1>2, <2>2, <2>3, <2>4, <2>5
<1>6. QED
  BY <1>1, <1>4, <1>5

LEMMA QueueDrops ==
  ASSUME NEW S, NEW q \in Seq(S), IsInjective(q), NEW x
  PROVE  /\ Drop(q, x) \in Seq(S) /\ IsInjective(Drop(q, x))
         /\ Len(Drop(q, x)) = (IF Contains(q, x) THEN Len(q) - 1 ELSE Len(q))
         /\ \A y : Contains(Drop(q, x), y) <=> Contains(q, y) /\ y # x
<1>1. /\ Len(q) \in Nat /\ DOMAIN q = 1..Len(q)
      /\ \A i \in 1..Len(q) : q[i] \in S
  BY DomainIsLen
<1>2. CASE ~Contains(q, x)
  BY <1>2 DEF Drop
<1>3. CASE Contains(q, x)
  <2>1. PICK n \in 1..Len(q) : q[n] = x /\ Drop(q, x) = RemoveAt(q, n)
    <3> DEFINE m == CHOOSE i \in DOMAIN q : q[i] = x
    <3>1. m \in 1..Len(q) /\ q[m] = x
      BY <1>1, <1>3 DEF Contains
    <3>2. QED
      BY <1>3, <3>1 DEF Drop
  <2>2. /\ n \in Nat \ {0} /\ n <= Len(q)
        /\ Drop(q, x) = SubSeq(q, 1, n - 1) \o SubSeq(q, n + 1, Len(q))
    BY <1>1, <2>1 DEF RemoveAt
  <2> DEFINE a == SubSeq(q, 1, n - 1)
             b == SubSeq(q, n + 1, Len(q))
             d == Drop(q, x)
  <2>3. /\ a \in Seq(S) /\ Len(a) = n - 1
        /\ \A i \in 1..n - 1 : a[i] = q[i]
    <3>1. /\ a \in Seq(S) /\ Len(a) = IF 1 <= n - 1 THEN (n - 1) - 1 + 1 ELSE 0
          /\ \A i \in 1..(n - 1) - 1 + 1 : a[i] = q[1 + i - 1]
      BY <1>1, <2>1, <2>2, SubSeqProperties
    <3> HIDE DEF a
    <3>2. QED
      BY <1>1, <2>1, <2>2, <3>1
  <2>4. /\ b \in Seq(S) /\ Len(b) = Len(q) - n
        /\ \A i \in 1..Len(q) - n : b[i] = q[n + i]
    <3>1. /\ b \in Seq(S)
          /\ Len(b) = IF n + 1 <= Len(q) THEN Len(q) - (n + 1) + 1 ELSE 0
          /\ \A i \in 1..Len(q) - (n + 1) + 1 : b[i] = q[n + 1 + i - 1]
      BY <1>1, <2>1, <2>2, SubSeqProperties
    <3> HIDE DEF b
    <3>2. \A i \in 1..Len(q) - n : i \in 1..Len(q) - (n + 1) + 1 /\ n + 1 + i - 1 = n + i
      BY <1>1, <2>2
    <3>3. ASSUME NEW i \in 1..Len(q) - n PROVE b[i] = q[n + i]
      <4>1. b[i] = q[n + 1 + i - 1] /\ n + 1 + i - 1 = n + i
        BY <3>1, <3>2
      <4>2. QED
        BY <4>1
    <3>4. Len(b) = Len(q) - n
      <4>1. CASE n = Len(q)
        <5>1. ~(n + 1 <= Len(q)) /\ Len(q) - n = 0
          BY <1>1, <2>2, <4>1
        <5>2. QED
          BY <3>1, <5>1
      <4>2. CASE n # Len(q)
        <5>1. n + 1 <= Len(q) /\ Len(q) - (n + 1) + 1 = Len(q) - n
          <6>1. PICK l \in Nat : l = Len(q)
            BY <1>1
          <6>2. n + 1 <= l /\ l - (n + 1) + 1 = l - n
            BY <2>2, <4>2, <6>1
          <6>3. QED
            BY <6>1, <6>2
        <5>2. QED
          BY <3>1, <5>1
      <4>3. QED
        BY <4>1, <4>2
    <3>5. QED
      BY <3>1, <3>3, <3>4
  <2> HIDE DEF a, b
  <2>5. /\ a \o b \in Seq(S) /\ Len(a \o b) = Len(q) - 1
        /\ \A i \in 1..n - 1 : (a \o b)[i] = q[i]
        /\ \A i \in 1..Len(q) - n : (a \o b)[n - 1 + i] = q[n + i]
    <3>1. a \in Seq(S) /\ b \in Seq(S)
      BY <2>3, <2>4
    <3>2. /\ a \o b \in Seq(S) /\ Len(a \o b) = Len(a) + Len(b)
          /\ \A i \in 1..Len(a) : (a \o b)[i] = a[i]
          /\ \A i \in 1..Len(b) : (a \o b)[Len(a) + i] = b[i]
      BY <3>1, ConcatProperties
    <3>3. PICK l \in Nat : l = Len(q)
      BY <1>1
    <3>4. (n - 1) + (l - n) = l - 1
      BY <2>2, <3>3
    <3>5. Len(a \o b) = Len(q) - 1
      BY <2>3, <2>4, <3>2, <3>3, <3>4
    <3>6. \A i \in 1..n - 1 : (a \o b)[i] = q[i]
      BY <2>3, <3>2
    <3>7. \A i \in 1..Len(q) - n : (a \o b)[n - 1 + i] = q[n + i]
      BY <2>3, <2>4, <3>2
    <3>8. QED
      BY <3>1, <3>2, <3>5, <3>6, <3>7
  <2>6. d = a \o b
    BY <2>2 DEF a, b
  <2> HIDE DEF d
  <2>7. /\ d \in Seq(S) /\ Len(d) = Len(q) - 1 /\ DOMAIN d = 1..Len(q) - 1
        /\ \A i \in 1..Len(q) - 1 : i < n => d[i] = q[i]
        /\ \A i \in 1..Len(q) - 1 : i >= n => d[i] = q[i + 1]
    <3>1. \A i \in 1..Len(q) - 1 : i >= n =>
            i - n + 1 \in 1..Len(q) - n /\ n - 1 + (i - n + 1) = i /\ n + (i - n + 1) = i + 1
      BY <1>1, <2>2
    <3>2. \A i \in 1..Len(q) - 1 : i < n => i \in 1..n - 1
      BY <1>1, <2>2
    <3>3. QED
      BY <2>5, <2>6, <3>1, <3>2, DomainIsLen
  <2>8. \A i \in 1..Len(q) - 1 : i \in 1..Len(q) /\ i + 1 \in 1..Len(q)
    BY <1>1
  <2>9. ASSUME NEW y PROVE Contains(d, y) <=> Contains(q, y) /\ y # x
    <3>1. ASSUME Contains(d, y) PROVE Contains(q, y) /\ y # x
      <4>1. PICK i \in 1..Len(q) - 1 : d[i] = y
        BY <2>7, <3>1 DEF Contains
      <4>2. CASE i < n
        <5>1. i \in 1..Len(q) /\ i # n /\ q[i] = y
          BY <2>2, <2>7, <2>8, <4>1, <4>2
        <5>2. QED
          BY <1>1, <2>1, <5>1 DEF Contains, IsInjective
      <4>3. CASE i >= n
        <5>1. i + 1 \in 1..Len(q) /\ i + 1 # n /\ q[i + 1] = y
          <6>1. i + 1 \in 1..Len(q) /\ d[i] = q[i + 1]
            BY <2>7, <2>8, <4>1, <4>3
          <6>2. i + 1 # n
            BY <2>2, <4>1, <4>3
          <6>3. QED
            BY <4>1, <6>1, <6>2
        <5>2. QED
          BY <1>1, <2>1, <2>2, <5>1 DEF Contains, IsInjective
      <4>4. QED
        BY <1>1, <2>1, <2>2, <4>2, <4>3
    <3>2. ASSUME Contains(q, y), y # x PROVE Contains(d, y)
      <4>1. PICK i \in 1..Len(q) : q[i] = y
        BY <3>2 DEF Contains
      <4>2. CASE i < n
        <5>1. i \in 1..Len(q) - 1
          BY <1>1, <2>1, <2>2, <4>2
        <5>2. QED
          BY <2>7, <4>1, <4>2, <5>1 DEF Contains
      <4>3. CASE i > n
        <5>1. i - 1 \in 1..Len(q) - 1 /\ i - 1 >= n /\ (i - 1) + 1 = i
          BY <1>1, <2>1, <2>2, <4>3
        <5>2. QED
          BY <2>7, <4>1, <5>1 DEF Contains
      <4>4. QED
        BY <1>1, <2>1, <2>2, <3>2, <4>1, <4>2, <4>3
    <3>3. QED
      BY <3>1, <3>2
  <2>10. IsInjective(d)
    <3> SUFFICES ASSUME NEW i \in 1..Len(q) - 1, NEW j \in 1..Len(q) - 1,
                        d[i] = d[j]
                 PROVE  i = j
      BY <2>7 DEF IsInjective
    <3> DEFINE At1(k) == IF k < n THEN k ELSE k + 1
    <3>1. /\ At1(i) \in 1..Len(q) /\ At1(j) \in 1..Len(q)
          /\ d[i] = q[At1(i)] /\ d[j] = q[At1(j)]
      BY <1>1, <2>1, <2>2, <2>7
    <3>2. At1(i) = At1(j)
      BY <1>1, <3>1 DEF IsInjective
    <3>3. QED
      BY <1>1, <2>1, <2>2, <3>2
  <2>11. QED
    BY <1>3, <2>7, <2>9, <2>10 DEF d
<1>4. QED
  BY <1>2, <1>3


-----------------------------------------------------------------------------
(* Types.                                                                  *)

Queueable == CpuWork \cup {Slow, Exit}

LEMMA ThresholdIsNat == ASSUME ConstantsOK PROVE Threshold \in Nat
<1>1. PICK n \in Nat : n = Cardinality(Workers)
  BY FS_CardinalityType DEF ConstantsOK
<1>2. QED
  BY <1>1 DEF Threshold

LEMMA SignalTypes ==
  ASSUME TypeOK, Signal
  PROVE  /\ worker' \in [Workers -> {"wants", "has", "asleep", "signalled", "works",
                                     "handsOver", "handedOver", "gone"}]
         /\ \A t \in Workers : \/ worker'[t] = worker[t]
                               \/ worker[t] = "asleep" /\ worker'[t] = "signalled"
<1>1. CASE At("asleep") = {}
  BY <1>1 DEF Signal, TypeOK
<1>2. CASE \E t \in At("asleep") : worker' = [worker EXCEPT ![t] = "signalled"]
  BY <1>2 DEF TypeOK, At
<1>3. QED
  BY <1>1, <1>2 DEF Signal

LEMMA PoolInitiates == ASSUME ConstantsOK, Init PROVE PoolInv
<1>1. Threshold \in Nat
  BY ThresholdIsNat
<1>2. <<>> \in Seq(Queueable) /\ <<>> \in Seq(SlowWork) /\ <<>> \in Seq(Work)
      /\ Len(<<>>) = 0 /\ \A x : ~Contains(<<>>, x)
  BY EmptySeq DEF Contains
<1>3. TypeOK
  <2>1. wq \in Seq(CpuWork \cup {Slow, Exit}) /\ slowQ \in Seq(SlowWork)
        /\ doneQ \in Seq(Work) /\ local \in Seq(Work)
    BY <1>2 DEF Init, Queueable
  <2>2. /\ worker \in [Workers -> {"wants", "has", "asleep", "signalled", "works",
                                   "handsOver", "handedOver", "gone"}]
        /\ job \in [Workers -> Work \cup {None}]
        /\ field \in [Work -> {"none", "set", "null", "cancelled"}]
        /\ ran \in [Work -> 0..1]
    BY DEF Init
  <2>3. result \in [Work -> Seq({"ok", "ECANCELED"})]
    <3>1. <<>> \in Seq({"ok", "ECANCELED"})
      BY EmptySeq
    <3>2. QED
      BY <3>1 DEF Init
  <2>4. sent \in BOOLEAN
    BY DEF Init
  <2>5. /\ mutex = None /\ wqMutex = None /\ slowRunning = 0
        /\ loopAt = "run" /\ target = None /\ cancels \in 0..MaxCancels
    BY DEF Init, ConstantsOK
  <2>6. QED
    BY <2>1, <2>2, <2>3, <2>4, <2>5 DEF TypeOK
<1>4. LockInv
  BY DEF Init, LockInv, Holds, ConstantsOK
<1>5. QueueInv
  BY DEF Init, QueueInv, IsInjective
<1>6. PlaceInv /\ HandInv
  BY <1>2 DEF Init, PlaceInv, HandInv, Unanswered, Requeued, Holds
<1>7. SlowInv
  <2>1. AtSlow = {}
    BY DEF Init, AtSlow, ConstantsOK, Work
  <2>2. QED
    BY <1>1, <2>1, FS_EmptySet DEF Init, SlowInv
<1>8. AwakeInv
  BY DEF Init, AwakeInv, At
<1>9. QED
  BY <1>3, <1>4, <1>5, <1>6, <1>7, <1>8 DEF PoolInv


(* What uv__work_submit posts: the request, or the message that stands for *)
(* it, if it is not there yet.                                             *)
LEMMA SubmitPosts ==
  ASSUME ConstantsOK, PoolInv, NEW w \in Work, Submit(w)
  PROVE  /\ \/ w \in SlowWork /\ slowQ' = Append(slowQ, w)
            \/ w \in CpuWork /\ slowQ' = slowQ
         /\ \/ /\ wq' = wq /\ worker' = worker
               /\ w \in SlowWork /\ Contains(wq, Slow)
            \/ \E x \in Queueable : /\ wq' = Append(wq, x) /\ ~Contains(wq, x)
                                    /\ Signal
                                    /\ \/ x = Slow /\ w \in SlowWork
                                       \/ x = w /\ w \in CpuWork
<1>1. w \in CpuWork \/ w \in SlowWork
  BY DEF Work
<1>2. CASE w \in SlowWork
  BY <1>2 DEF Submit, Post, Queueable
<1>3. CASE w \notin SlowWork
  <2>1. ~Contains(wq, w)
    BY DEF Submit, PoolInv, PlaceInv, Unanswered
  <2>2. QED
    BY <1>1, <1>3, <2>1 DEF Submit, Post, Queueable
<1>4. QED
  BY <1>2, <1>3

(* slowRunning does not go below zero.                                     *)
LEMMA RelockCounts ==
  ASSUME ConstantsOK, PoolInv, NEW t \in Workers, Relock(t)
  PROVE  /\ slowRunning' \in Nat
         /\ slowRunning' = Cardinality(AtSlow') /\ slowRunning' <= Threshold
<1>1. /\ TypeOK /\ SlowInv /\ Threshold \in Nat
      /\ IsFiniteSet(AtSlow) /\ Cardinality(AtSlow) \in Nat
  BY ThresholdIsNat, FS_Subset, FS_CardinalityType DEF PoolInv, AtSlow, ConstantsOK
<1>2. AtSlow' = AtSlow \ {t}
  BY <1>1 DEF Relock, AtSlow, TypeOK, ConstantsOK, Work
<1>3. CASE job[t] \in SlowWork
  <2>1. t \in AtSlow /\ slowRunning' = slowRunning - 1
    BY <1>3 DEF AtSlow, Relock
  <2>2. Cardinality(AtSlow') = Cardinality(AtSlow) - 1 /\ Cardinality(AtSlow') \in Nat
    BY <1>1, <1>2, <2>1, FS_RemoveElement, FS_CardinalityType
  <2>3. QED
    BY <1>1, <2>1, <2>2 DEF SlowInv
<1>4. CASE job[t] \notin SlowWork
  <2>1. AtSlow' = AtSlow /\ slowRunning' = slowRunning
    BY <1>1, <1>2, <1>4 DEF AtSlow, Relock, TypeOK
  <2>2. QED
    BY <1>1, <2>1 DEF SlowInv
<1>5. QED
  BY <1>3, <1>4

LEMMA UserTypes ==
  ASSUME ConstantsOK, PoolInv, UserStep
  PROVE  TypeOK'
<1>1. TypeOK /\ Exit \in Queueable
  BY DEF PoolInv, Queueable
<1>2. ASSUME NEW w \in Work, Submit(w) PROVE TypeOK'
  <2>1. field' \in [Work -> {"none", "set", "null", "cancelled"}]
    BY <1>1, <1>2 DEF Submit, TypeOK
  <2>2. slowQ' \in Seq(SlowWork)
    <3>1. (w \in SlowWork /\ slowQ' = Append(slowQ, w)) \/ slowQ' = slowQ
      BY <1>2, SubmitPosts
    <3>2. slowQ \in Seq(SlowWork)
      BY <1>1 DEF TypeOK
    <3>3. QED
      BY <3>1, <3>2, AppendProperties
  <2>3. /\ wq' \in Seq(CpuWork \cup {Slow, Exit})
        /\ worker' = worker \/ Signal
    <3>1. \/ wq' = wq /\ worker' = worker
          \/ Signal /\ \E x \in Queueable : wq' = Append(wq, x)
      BY <1>2, SubmitPosts
    <3>2. wq \in Seq(Queueable)
      BY <1>1 DEF TypeOK, Queueable
    <3>3. wq' \in Seq(Queueable)
      BY <3>1, <3>2, QueueAdds
    <3>4. QED
      BY <3>1, <3>3 DEF Queueable
  <2>4. QED
    BY <1>1, <1>2, <2>1, <2>2, <2>3, SignalTypes DEF Submit, TypeOK, handed, loopVars
<1>3. ASSUME NEW w \in Work, Cancel(w) PROVE TypeOK'
  BY <1>1, <1>3 DEF Cancel, TypeOK, handed, ConstantsOK
<1>4. CASE Cleanup
  <2>1. wq' \in Seq(CpuWork \cup {Slow, Exit})
    BY <1>1, <1>4, QueueAdds DEF Cleanup, Post, TypeOK, Queueable
  <2>2. QED
    BY <1>1, <1>4, <2>1, SignalTypes DEF Cleanup, Post, TypeOK, handed, loopVars
<1>5. QED
  BY <1>2, <1>3, <1>4 DEF UserStep

LEMMA LoopTypes ==
  ASSUME ConstantsOK, PoolInv, LoopStep
  PROVE  TypeOK'
<1>1. TypeOK /\ QueueInv
  BY DEF PoolInv
<1>2. CASE CancelDecides
  <2>1. /\ wq' \in Seq(CpuWork \cup {Slow, Exit}) /\ slowQ' \in Seq(SlowWork)
        /\ doneQ' \in Seq(Work) /\ local' \in Seq(Work)
    BY <1>1, <1>2, QueueDrops DEF CancelDecides, TypeOK, QueueInv
  <2>2. QED
    BY <1>1, <1>2, <2>1 DEF CancelDecides, TypeOK
<1>3. CASE CancelQueues
  <2>1. target \in Work
    BY <1>3 DEF CancelQueues, PoolInv, LockInv
  <2>2. /\ doneQ' \in Seq(Work) /\ sent' \in BOOLEAN
        /\ field' \in [Work -> {"none", "set", "null", "cancelled"}]
    BY <1>1, <1>3, <2>1, QueueAdds DEF CancelQueues, TypeOK
  <2>3. QED
    BY <1>1, <1>3, <2>2 DEF CancelQueues, TypeOK, shared
<1>4. CASE WorkDone
  <2>1. <<>> \in Seq(Work) /\ sent' \in BOOLEAN
    BY <1>4, EmptySeq DEF WorkDone
  <2>2. QED
    BY <1>1, <1>4, <2>1 DEF WorkDone, TypeOK, shared
<1>5. CASE CallDone
  <2>1. Head(local) \in Work /\ local' \in Seq(Work)
    BY <1>1, <1>5, QueueTakes DEF CallDone, TypeOK
  <2>2. PICK x \in {"ok", "ECANCELED"} :
          result' = [result EXCEPT ![Head(local)] = Append(@, x)]
    BY <1>5 DEF CallDone
  <2>3. Append(result[Head(local)], x) \in Seq({"ok", "ECANCELED"})
    BY <1>1, <2>1, AppendProperties DEF TypeOK
  <2>4. result' \in [Work -> Seq({"ok", "ECANCELED"})]
    BY <1>1, <2>1, <2>2, <2>3 DEF TypeOK
  <2>5. QED
    BY <1>1, <1>5, <2>1, <2>4 DEF CallDone, TypeOK, shared, handed
<1>6. QED
  BY <1>2, <1>3, <1>4, <1>5 DEF LoopStep


LEMMA WorkerTypes ==
  ASSUME ConstantsOK, PoolInv, NEW t \in Workers, WorkerStep(t)
  PROVE  TypeOK'
<1> DEFINE Places == {"wants", "has", "asleep", "signalled", "works", "handsOver",
                      "handedOver", "gone"}
<1>1. /\ TypeOK /\ worker \in [Workers -> Places]
      /\ wq \in Seq(Queueable) /\ slowQ \in Seq(SlowWork) /\ Slow \in Queueable
  BY DEF PoolInv, TypeOK, Queueable
<1> HIDE DEF Places
<1> USE DEF handed, loopVars, shared
<1>2. CASE Lock(t)
  BY <1>1, <1>2 DEF Lock, TypeOK
<1>3. CASE Sleep(t)
  BY <1>1, <1>3 DEF Sleep, TypeOK
<1>4. CASE Leave(t)
  <2>1. worker' \in [Workers -> Places]
    BY <1>1, <1>4 DEF Leave, At, Places
  <2>2. QED
    BY <1>1, <1>4, <2>1 DEF Leave, TypeOK, Places
<1>5. CASE TakeCpu(t)
  <2>1. wq # <<>> /\ Head(wq) \in Work /\ wq' \in Seq(CpuWork \cup {Slow, Exit})
    BY <1>1, <1>5, QueueTakes DEF TakeCpu, Waits, Queueable, Work
  <2>2. job' \in [Workers -> Work \cup {None}]
    BY <1>1, <1>5, <2>1 DEF TakeCpu, Begin, TypeOK
  <2>3. QED
    BY <1>1, <1>5, <2>1, <2>2 DEF TakeCpu, Begin, TypeOK
<1>6. CASE Postpone(t) \/ TakeNothing(t)
  <2>1. wq # <<>> /\ Tail(wq) \in Seq(Queueable)
    BY <1>1, <1>6, QueueTakes DEF Postpone, TakeNothing, Waits
  <2>2. wq' \in Seq(Queueable)
    <3>1. Append(Tail(wq), Slow) \in Seq(Queueable)
      BY <1>1, <2>1, AppendProperties
    <3>2. QED
      BY <1>6, <2>1, <3>1 DEF Postpone, TakeNothing
  <2>3. QED
    BY <1>1, <1>6, <2>2 DEF Queueable, Postpone, TakeNothing, TypeOK
<1>7. CASE TakeSlow(t)
  <2>1. /\ wq # <<>> /\ Tail(wq) \in Seq(Queueable)
        /\ Head(slowQ) \in SlowWork /\ slowQ' \in Seq(SlowWork)
    BY <1>1, <1>7, QueueTakes DEF TakeSlow, Waits
  <2>2. wq' \in Seq(Queueable)
    <3>1. Append(Tail(wq), Slow) \in Seq(Queueable)
      BY <1>1, <2>1, AppendProperties
    <3>2. QED
      BY <1>7, <2>1, <3>1 DEF TakeSlow
  <2>3. job' \in [Workers -> Work \cup {None}]
    BY <1>1, <1>7, <2>1 DEF TakeSlow, Begin, TypeOK, Work
  <2>4. worker' \in [Workers -> Places]
    BY <1>1, <1>7 DEF TakeSlow, At, Places
  <2>5. QED
    BY <1>1, <1>7, <2>1, <2>2, <2>3, <2>4 DEF Queueable, TakeSlow, Begin, TypeOK, Places
<1>8. CASE Run(t)
  <2>1. job[t] \in Work /\ ran[job[t]] = 0
    BY <1>1, <1>8 DEF Run, PoolInv, LockInv, HandInv, Holds, TypeOK
  <2>2. ran' \in [Work -> 0..1]
    BY <1>1, <1>8, <2>1 DEF Run, TypeOK
  <2>3. QED
    BY <1>1, <1>8, <2>2 DEF Run, TypeOK
<1>9. CASE HandOver(t)
  <2>1. job[t] \in Work
    BY <1>1, <1>9 DEF HandOver, PoolInv, LockInv, Holds, TypeOK
  <2>2. /\ doneQ' \in Seq(Work) /\ sent' \in BOOLEAN
        /\ field' \in [Work -> {"none", "set", "null", "cancelled"}]
    BY <1>1, <1>9, <2>1, QueueAdds DEF HandOver, TypeOK
  <2>3. QED
    BY <1>1, <1>9, <2>2 DEF HandOver, TypeOK
<1>10. CASE Relock(t)
  <2>1. slowRunning' \in Nat
    BY <1>10, RelockCounts
  <2>2. QED
    BY <1>1, <1>10, <2>1 DEF Relock, TypeOK
<1>11. QED
  BY <1>2, <1>3, <1>4, <1>5, <1>6, <1>7, <1>8, <1>9, <1>10 DEF WorkerStep


-----------------------------------------------------------------------------
(* Mutexes.                                                                *)

LEMMA UserLocks ==
  ASSUME ConstantsOK, PoolInv, UserStep
  PROVE  LockInv'
<1>1. TypeOK /\ LockInv
  BY DEF PoolInv
<1>2. ASSUME NEW w \in Work, Cancel(w) PROVE LockInv'
  BY <1>1, <1>2 DEF Cancel, LockInv, Holds, ConstantsOK, handed
<1>3. ASSUME NEW w \in Work, Submit(w) PROVE LockInv'
  <2>1. \A t \in Workers : \/ worker'[t] = worker[t]
                           \/ worker[t] = "asleep" /\ worker'[t] = "signalled"
    BY <1>1, <1>3, SubmitPosts, SignalTypes
  <2>2. UNCHANGED <<mutex, wqMutex, job, loopAt, target>>
    BY <1>3 DEF Submit, handed, loopVars
  <2>3. QED
    BY <1>1, <2>1, <2>2 DEF LockInv, Holds
<1>4. CASE Cleanup
  <2>1. \A t \in Workers : \/ worker'[t] = worker[t]
                           \/ worker[t] = "asleep" /\ worker'[t] = "signalled"
    BY <1>1, <1>4, SignalTypes DEF Cleanup, Post
  <2>2. UNCHANGED <<mutex, wqMutex, job, loopAt, target>>
    BY <1>4 DEF Cleanup, handed, loopVars
  <2>3. QED
    BY <1>1, <2>1, <2>2 DEF LockInv, Holds
<1>5. QED
  BY <1>2, <1>3, <1>4 DEF UserStep

LEMMA LoopLocks ==
  ASSUME ConstantsOK, PoolInv, LoopStep
  PROVE  LockInv'
<1>1. TypeOK /\ LockInv
  BY DEF PoolInv
<1>2. QED
  BY <1>1 DEF LoopStep, CancelDecides, CancelQueues, WorkDone, CallDone, LockInv,
              Holds, ConstantsOK, handed, shared

LEMMA WorkerLocks ==
  ASSUME ConstantsOK, PoolInv, NEW t \in Workers, WorkerStep(t)
  PROVE  LockInv'
<1>1. TypeOK /\ LockInv
  BY DEF PoolInv
<1> USE DEF handed, loopVars, shared
<1>2. CASE Lock(t) \/ Sleep(t)
  <2>1. /\ \/ mutex = None /\ mutex' = t /\ worker'[t] = "has"
           \/ worker[t] = "has" /\ mutex' = None /\ worker'[t] = "asleep"
        /\ worker[t] \in {"wants", "signalled", "has"}
        /\ \A u \in Workers \ {t} : worker'[u] = worker[u]
        /\ UNCHANGED <<wqMutex, job, loopAt, target>>
    BY <1>1, <1>2 DEF Lock, Sleep, TypeOK
  <2>2. QED
    BY <1>1, <2>1 DEF LockInv, Holds, ConstantsOK
<1>7. CASE Postpone(t) \/ TakeNothing(t)
  BY <1>1, <1>7 DEF Postpone, TakeNothing, LockInv, Holds
<1>3. CASE Leave(t)
  <2>1. /\ worker[t] = "has" /\ worker'[t] = "gone"
        /\ \A u \in Workers \ {t} :
             \/ worker'[u] = worker[u]
             \/ worker[u] = "asleep" /\ worker'[u] = "signalled"
    BY <1>1, <1>3 DEF Leave, At, TypeOK
  <2>2. mutex' = None /\ UNCHANGED <<wqMutex, job, loopAt, target>>
    BY <1>3 DEF Leave
  <2>3. QED
    BY <1>1, <2>1, <2>2 DEF LockInv, Holds, ConstantsOK
<1>4. CASE TakeCpu(t) \/ TakeSlow(t)
  <2>1. /\ worker[t] = "has" /\ worker'[t] = "works"
        /\ \A u \in Workers \ {t} :
             \/ worker'[u] = worker[u]
             \/ worker[u] = "asleep" /\ worker'[u] = "signalled"
    BY <1>1, <1>4 DEF TakeCpu, TakeSlow, At, TypeOK
  <2>2. mutex' = None /\ UNCHANGED <<wqMutex, loopAt, target>>
    BY <1>4 DEF TakeCpu, TakeSlow, Begin
  <2>3. job'[t] # None /\ \A u \in Workers \ {t} : job'[u] = job[u]
    <3>1. \/ wq # <<>> /\ Head(wq) \in CpuWork /\ job' = [job EXCEPT ![t] = Head(wq)]
          \/ slowQ # <<>> /\ job' = [job EXCEPT ![t] = Head(slowQ)]
      BY <1>4 DEF TakeCpu, TakeSlow, Begin, Waits
    <3>2. slowQ # <<>> => Head(slowQ) \in SlowWork
      BY <1>1, QueueTakes DEF TypeOK
    <3>3. QED
      BY <1>1, <3>1, <3>2 DEF TypeOK, ConstantsOK, Work
  <2>4. QED
    BY <1>1, <2>1, <2>2, <2>3 DEF LockInv, Holds, ConstantsOK
<1>5. CASE Run(t) \/ HandOver(t)
  <2>1. /\ \/ wqMutex = None /\ wqMutex' = t /\ worker[t] = "works"
              /\ worker'[t] = "handsOver"
           \/ wqMutex' = None /\ worker[t] = "handsOver"
              /\ worker'[t] = "handedOver"
        /\ \A u \in Workers \ {t} : worker'[u] = worker[u]
        /\ UNCHANGED <<mutex, job, loopAt, target>>
    BY <1>1, <1>5 DEF Run, HandOver, TypeOK
  <2>2. QED
    BY <1>1, <2>1 DEF LockInv, Holds, ConstantsOK
<1>6. CASE Relock(t)
  BY <1>1, <1>6 DEF Relock, LockInv, Holds, TypeOK, ConstantsOK
<1>8. QED
  BY <1>2, <1>3, <1>4, <1>5, <1>6, <1>7 DEF WorkerStep


-----------------------------------------------------------------------------
(* slowRunning.                                                            *)

LEMMA SlowStep ==
  ASSUME ConstantsOK, PoolInv, [Next]_vars
  PROVE  SlowInv'
<1>1. /\ TypeOK /\ SlowInv /\ LockInv /\ Threshold \in Nat /\ None \notin Work
      /\ CpuWork \cap SlowWork = {} /\ Work = CpuWork \cup SlowWork
      /\ IsFiniteSet(AtSlow) /\ Cardinality(AtSlow) \in Nat
  BY ThresholdIsNat, FS_Subset, FS_CardinalityType
     DEF PoolInv, AtSlow, ConstantsOK, Work
<1>2. CASE UNCHANGED <<slowRunning, job>>
  BY <1>1, <1>2 DEF SlowInv, AtSlow
<1>3. ASSUME NEW t \in Workers, TakeCpu(t) PROVE SlowInv'
  <2>1. /\ job[t] = None /\ job' = [job EXCEPT ![t] = Head(wq)]
        /\ Head(wq) \in CpuWork /\ slowRunning' = slowRunning
    BY <1>1, <1>3 DEF TakeCpu, Begin, LockInv, Holds
  <2>2. AtSlow' = AtSlow
    BY <1>1, <2>1 DEF AtSlow, TypeOK
  <2>3. QED
    BY <1>1, <2>1, <2>2 DEF SlowInv
<1>4. ASSUME NEW t \in Workers, TakeSlow(t) PROVE SlowInv'
  <2>1. /\ job[t] = None /\ job' = [job EXCEPT ![t] = Head(slowQ)]
        /\ slowQ # <<>> /\ slowRunning' = slowRunning + 1
        /\ ~(slowRunning >= Threshold)
    BY <1>1, <1>4 DEF TakeSlow, Begin, LockInv, Holds, AtThreshold
  <2>2. Head(slowQ) \in SlowWork
    BY <1>1, <2>1, QueueTakes DEF TypeOK
  <2>3. AtSlow' = AtSlow \cup {t} /\ t \notin AtSlow
    BY <1>1, <2>1, <2>2 DEF AtSlow, TypeOK
  <2>4. Cardinality(AtSlow') = Cardinality(AtSlow) + 1
    BY <1>1, <2>3, FS_AddElement
  <2>5. QED
    BY <1>1, <2>1, <2>4 DEF SlowInv, TypeOK
<1>5. ASSUME NEW t \in Workers, Relock(t) PROVE SlowInv'
  BY <1>5, RelockCounts DEF SlowInv
<1>6. ASSUME NEW t \in Workers, WorkerStep(t) PROVE SlowInv'
  BY <1>2, <1>3, <1>4, <1>5, <1>6
     DEF WorkerStep, Lock, Sleep, Leave, Postpone, TakeNothing, Run, HandOver, shared
<1>7. CASE UserStep \/ LoopStep \/ UNCHANGED vars
  BY <1>2, <1>7 DEF UserStep, Submit, Cancel, Cleanup, LoopStep, CancelDecides,
                    CancelQueues, WorkDone, CallDone, shared, vars
<1>8. QED
  BY <1>6, <1>7 DEF Next

-----------------------------------------------------------------------------
(* Where the requests are.                                                 *)

Where == QueueInv /\ PlaceInv /\ HandInv

(* The message Slow goes behind everything else.                           *)
LEMMA SlowGoesBehind ==
  ASSUME wq \in Seq(Queueable), wq # <<>>, Head(wq) = Slow, IsInjective(wq),
         wq' = Append(Tail(wq), Slow) \/ wq' = Tail(wq)
  PROVE  /\ wq' \in Seq(Queueable) /\ IsInjective(wq')
         /\ \A y : Contains(wq', y) => Contains(wq, y)
         /\ \A y : y # Slow /\ Contains(wq, y) => Contains(wq', y)
         /\ Contains(wq, Slow) /\ Len(wq) \in Nat \ {0}
         /\ IF wq' = Tail(wq) THEN Len(wq') = Len(wq) - 1 /\ ~Contains(wq', Slow)
                              ELSE Len(wq') = Len(wq) /\ Contains(wq', Slow)
<1>1. /\ Slow \in Queueable /\ Tail(wq) \in Seq(Queueable) /\ Contains(wq, Slow)
      /\ Len(wq) \in Nat \ {0} /\ Len(Tail(wq)) = Len(wq) - 1
      /\ \A y : Contains(wq, y) <=> Contains(Tail(wq), y) \/ y = Slow
      /\ IsInjective(Tail(wq)) /\ ~Contains(Tail(wq), Slow)
  BY QueueTakes DEF Queueable
<1>2. CASE wq' = Tail(wq)
  BY <1>1, <1>2
<1>3. CASE wq' # Tail(wq)
  <2>1. /\ wq' = Append(Tail(wq), Slow)
        /\ wq' \in Seq(Queueable) /\ Len(wq') = Len(Tail(wq)) + 1
        /\ \A y : Contains(wq', y) <=> Contains(Tail(wq), y) \/ y = Slow
        /\ IsInjective(wq')
    <3>1. wq' = Append(Tail(wq), Slow)
      BY <1>3
    <3>2. /\ Append(Tail(wq), Slow) \in Seq(Queueable)
          /\ Len(Append(Tail(wq), Slow)) = Len(Tail(wq)) + 1
          /\ \A y : Contains(Append(Tail(wq), Slow), y) <=> Contains(Tail(wq), y) \/ y = Slow
          /\ IsInjective(Append(Tail(wq), Slow))
      BY <1>1, QueueAdds
    <3>3. QED
      BY <3>1, <3>2
  <2>2. Len(wq') = Len(wq)
    BY <1>1, <2>1
  <2>3. QED
    BY <1>1, <1>3, <2>1, <2>2
<1>4. QED
  BY <1>2, <1>3

LEMMA UserPlaces ==
  ASSUME ConstantsOK, PoolInv, UserStep
  PROVE  Where'
<1>1. /\ TypeOK /\ LockInv /\ QueueInv /\ PlaceInv /\ HandInv
      /\ wq \in Seq(Queueable) /\ slowQ \in Seq(SlowWork) /\ Exit \in Queueable
      /\ field \in [Work -> {"none", "set", "null", "cancelled"}]
  BY DEF PoolInv, TypeOK, Queueable
<1>2. ASSUME NEW w \in Work, Cancel(w) PROVE Where'
  <2>1. /\ UNCHANGED <<wq, slowQ, doneQ, local, field, ran, result, worker, job>>
        /\ loopAt' = "cancel" /\ loopAt = "run"
    BY <1>2 DEF Cancel, handed
  <2>2. QED
    BY <1>1, <2>1 DEF Where, QueueInv, PlaceInv, HandInv, Holds, Unanswered, Requeued
<1>3. ASSUME NEW w \in Work, Submit(w) PROVE Where'
  <2>1. /\ UNCHANGED <<doneQ, local, ran, result, job, loopAt, target>>
        /\ field[w] = "none" /\ field'[w] = "set" /\ ran[w] = 0 /\ result[w] = <<>>
        /\ \A x \in Work \ {w} : field'[x] = field[x]
        /\ ~Contains(slowQ, w) /\ ~Contains(wq, w) /\ loopAt = "run"
        /\ ~Contains(doneQ, w) /\ ~Contains(local, w)
    BY <1>1, <1>3 DEF Submit, handed, loopVars, PlaceInv, Unanswered
  <2>2. /\ IsInjective(slowQ')
        /\ \A y \in Work : Contains(slowQ', y) => Contains(slowQ, y) \/ y = w
    <3>1. (w \in SlowWork /\ slowQ' = Append(slowQ, w)) \/ slowQ' = slowQ
      BY <1>3, SubmitPosts
    <3>2. CASE w \in SlowWork /\ slowQ' = Append(slowQ, w)
      BY <1>1, <2>1, <3>2, QueueAdds DEF QueueInv
    <3>3. QED
      BY <1>1, <3>1, <3>2 DEF QueueInv
  <2>3. /\ IsInjective(wq')
        /\ \A y \in Work : Contains(wq', y) => Contains(wq, y) \/ y = w
    <3>1. CASE wq' = wq
      BY <1>1, <3>1 DEF QueueInv
    <3>2. CASE wq' # wq
      <4>1. PICK x \in Queueable : /\ wq' = Append(wq, x) /\ ~Contains(wq, x)
                                   /\ x = Slow \/ x = w
        BY <1>3, <3>2, SubmitPosts
      <4>2. QED
        BY <1>1, <4>1, QueueAdds DEF QueueInv, ConstantsOK
    <3>3. QED
      BY <3>1, <3>2
  <2>4. \A t \in Workers : Holds(t)' <=> Holds(t)
    BY <1>1, <1>3, SubmitPosts, SignalTypes DEF Holds
  <2>5. \A t \in Workers : worker'[t] = "handsOver" <=> worker[t] = "handsOver"
    BY <1>1, <1>3, SubmitPosts, SignalTypes
  <2>6. \A t \in Workers : Holds(t) => job[t] # w /\ job[t] \in Work
    BY <1>1, <2>1 DEF HandInv, LockInv, TypeOK
  <2>7. QueueInv'
    BY <1>1, <2>1, <2>2, <2>3 DEF QueueInv
  <2>8. PlaceInv'
    BY <1>1, <2>1, <2>2, <2>3 DEF PlaceInv, Unanswered, Requeued
  <2>9. HandInv'
    BY <1>1, <2>1, <2>2, <2>3, <2>4, <2>5, <2>6 DEF HandInv, Requeued
  <2>10. QED
    BY <2>7, <2>8, <2>9 DEF Where
<1>4. CASE Cleanup
  <2>1. /\ UNCHANGED <<slowQ, doneQ, local, ran, field, result, job, loopAt, target>>
        /\ wq' = Append(wq, Exit) /\ ~Contains(wq, Exit)
    BY <1>4 DEF Cleanup, Post, handed, loopVars, Shut
  <2>2. /\ IsInjective(wq')
        /\ \A y \in Work : Contains(wq', y) => Contains(wq, y)
    BY <1>1, <2>1, QueueAdds DEF QueueInv, ConstantsOK
  <2>3. \A t \in Workers : /\ Holds(t)' <=> Holds(t)
                           /\ worker'[t] = "handsOver" <=> worker[t] = "handsOver"
    BY <1>1, <1>4, SignalTypes DEF Holds, Cleanup, Post
  <2>4. \A t \in Workers : Holds(t) => job[t] \in Work
    BY <1>1 DEF LockInv, TypeOK
  <2>5. QueueInv'
    BY <1>1, <2>1, <2>2 DEF QueueInv
  <2>6. PlaceInv'
    BY <1>1, <2>1, <2>2 DEF PlaceInv, Unanswered, Requeued
  <2>7. HandInv'
    BY <1>1, <2>1, <2>2, <2>3, <2>4 DEF HandInv, Requeued
  <2>8. QED
    BY <2>5, <2>6, <2>7 DEF Where
<1>5. QED
  BY <1>2, <1>3, <1>4 DEF UserStep


LEMMA LoopPlaces ==
  ASSUME ConstantsOK, PoolInv, LoopStep
  PROVE  Where'
<1>1. /\ TypeOK /\ LockInv /\ QueueInv /\ PlaceInv /\ HandInv
      /\ wq \in Seq(Queueable) /\ slowQ \in Seq(SlowWork)
      /\ doneQ \in Seq(Work) /\ local \in Seq(Work)
      /\ field \in [Work -> {"none", "set", "null", "cancelled"}]
      /\ result \in [Work -> Seq({"ok", "ECANCELED"})]
      /\ \A t \in Workers : Holds(t) => job[t] \in Work
  BY DEF PoolInv, TypeOK, Queueable, LockInv
<1>2. CASE CancelDecides
  <2>1. /\ UNCHANGED <<worker, job, field, ran, result, target>>
        /\ loopAt = "cancel" /\ target \in Work
    BY <1>1, <1>2 DEF CancelDecides, LockInv
  <2>2. CASE loopAt' = "run" /\ UNCHANGED <<wq, slowQ, doneQ, local>>
    BY <1>1, <2>1, <2>2 DEF Where, QueueInv, PlaceInv, HandInv, Holds, Unanswered,
                            Requeued
  <2>3. CASE /\ Queued(target) /\ field[target] # "null"
             /\ wq' = Drop(wq, target) /\ slowQ' = Drop(slowQ, target)
             /\ doneQ' = Drop(doneQ, target) /\ local' = Drop(local, target)
             /\ loopAt' = "cancelled"
    <3>1. /\ field[target] \in {"set", "cancelled"} /\ ran[target] = 0
          /\ result[target] = <<>>
          /\ \A t \in Workers : Holds(t) => job[t] # target
      BY <1>1, <2>1, <2>3 DEF Queued, PlaceInv, Unanswered, HandInv
    <3>2. /\ IsInjective(wq')
          /\ \A y : Contains(wq', y) <=> Contains(wq, y) /\ y # target
      BY <1>1, <2>3, QueueDrops DEF QueueInv
    <3>3. /\ IsInjective(slowQ')
          /\ \A y : Contains(slowQ', y) <=> Contains(slowQ, y) /\ y # target
      BY <1>1, <2>3, QueueDrops DEF QueueInv
    <3>4. /\ IsInjective(doneQ')
          /\ \A y : Contains(doneQ', y) <=> Contains(doneQ, y) /\ y # target
      BY <1>1, <2>3, QueueDrops DEF QueueInv
    <3>5. /\ IsInjective(local')
          /\ \A y : Contains(local', y) <=> Contains(local, y) /\ y # target
      BY <1>1, <2>3, QueueDrops DEF QueueInv
    <3>6. QueueInv'
      BY <3>2, <3>3, <3>4, <3>5 DEF QueueInv
    <3>7. PlaceInv'
      BY <1>1, <2>1, <2>3, <3>1, <3>2, <3>3, <3>4, <3>5
         DEF PlaceInv, Unanswered, Requeued
    <3>8. HandInv'
      BY <1>1, <2>1, <2>3, <3>1, <3>2, <3>3 DEF HandInv, Requeued, Holds
    <3>9. QED
      BY <3>6, <3>7, <3>8 DEF Where
  <2>4. QED
    BY <1>2, <2>2, <2>3 DEF CancelDecides
<1>3. CASE CancelQueues
  <2>1. /\ UNCHANGED <<wq, slowQ, local, worker, job, ran, result, target>>
        /\ loopAt = "cancelled" /\ loopAt' = "run" /\ target \in Work
        /\ doneQ' = Append(doneQ, target)
        /\ field'[target] = "cancelled"
        /\ \A x \in Work \ {target} : field'[x] = field[x]
    BY <1>1, <1>3 DEF CancelQueues, shared, LockInv
  <2>2. /\ ran[target] = 0 /\ result[target] = <<>>
        /\ ~Contains(doneQ, target) /\ ~Contains(local, target)
        /\ ~Contains(wq, target) /\ ~Contains(slowQ, target)
        /\ \A t \in Workers : Holds(t) => job[t] # target
    BY <1>1, <2>1 DEF PlaceInv, Requeued, HandInv
  <2>3. /\ IsInjective(doneQ')
        /\ \A y : Contains(doneQ', y) <=> Contains(doneQ, y) \/ y = target
    BY <1>1, <2>1, <2>2, QueueAdds DEF QueueInv
  <2>4. QueueInv'
    BY <1>1, <2>1, <2>3 DEF QueueInv
  <2>5. PlaceInv'
    BY <1>1, <2>1, <2>2, <2>3 DEF PlaceInv, Unanswered, Requeued
  <2>6. HandInv'
    BY <1>1, <2>1, <2>2 DEF HandInv, Requeued, Holds
  <2>7. QED
    BY <2>4, <2>5, <2>6 DEF Where
<1>4. CASE WorkDone
  <2>1. /\ UNCHANGED <<wq, slowQ, worker, job, ran, result, field, loopAt, target>>
        /\ local' = doneQ /\ doneQ' = <<>>
    BY <1>4 DEF WorkDone, shared
  <2>2. IsInjective(<<>>) /\ \A y : ~Contains(<<>>, y)
    BY DEF IsInjective, Contains
  <2>3. QED
    BY <1>1, <2>1, <2>2 DEF Where, QueueInv, PlaceInv, HandInv, Holds, Unanswered,
                            Requeued
<1>5. CASE CallDone
  <2> DEFINE w == Head(local)
             x == IF field[w] = "cancelled" THEN "ECANCELED" ELSE "ok"
  <2>1. /\ UNCHANGED <<wq, slowQ, doneQ, worker, job, ran, field, loopAt, target>>
        /\ local # <<>> /\ local' = Tail(local)
        /\ result' = [result EXCEPT ![w] = Append(@, x)]
    BY <1>5 DEF CallDone, shared, handed
  <2>2. /\ w \in Work /\ Contains(local, w)
        /\ IsInjective(local') /\ ~Contains(local', w)
        /\ \A y : Contains(local, y) <=> Contains(local', y) \/ y = w
    BY <1>1, <2>1, QueueTakes DEF QueueInv
  <2>3. /\ result[w] = <<>> /\ field[w] \in {"null", "cancelled"}
        /\ ~Requeued(w) /\ ~Contains(doneQ, w)
        /\ ~Contains(wq, w) /\ ~Contains(slowQ, w)
        /\ \A t \in Workers : Holds(t) => job[t] # w
    BY <1>1, <2>2 DEF PlaceInv, Unanswered, HandInv
  <2>4. /\ result'[w] = <<x>> /\ \A y \in Work \ {w} : result'[y] = result[y]
    <3>1. Append(<<>>, x) = <<x>>
      OBVIOUS
    <3>2. QED
      BY <1>1, <2>1, <2>2, <2>3, <3>1
  <2>5. result'[w] = IF ran[w] = 0 THEN <<"ECANCELED">> ELSE <<"ok">>
    BY <1>1, <2>2, <2>3, <2>4 DEF PlaceInv
  <2> HIDE DEF w, x
  <2>6. QueueInv'
    BY <1>1, <2>1, <2>2 DEF QueueInv
  <2>7. PlaceInv'
    <3> SUFFICES ASSUME NEW y \in Work PROVE PlaceInv!(y)'
      BY DEF PlaceInv
    <3>1. CASE y = w
      BY <1>1, <2>1, <2>2, <2>3, <2>5, <3>1 DEF PlaceInv, Unanswered, Requeued
    <3>2. CASE y # w
      BY <1>1, <2>1, <2>2, <2>4, <3>2 DEF PlaceInv, Unanswered, Requeued
    <3>3. QED
      BY <3>1, <3>2
  <2>8. HandInv'
    BY <1>1, <2>1, <2>3, <2>4 DEF HandInv, Requeued, Holds
  <2>9. QED
    BY <2>6, <2>7, <2>8 DEF Where
<1>6. QED
  BY <1>2, <1>3, <1>4, <1>5 DEF LoopStep


LEMMA WorkerPlaces ==
  ASSUME ConstantsOK, PoolInv, NEW t \in Workers, WorkerStep(t)
  PROVE  Where'
<1>1. /\ TypeOK /\ LockInv /\ QueueInv /\ PlaceInv /\ HandInv
      /\ wq \in Seq(Queueable) /\ slowQ \in Seq(SlowWork) /\ Slow \in Queueable
      /\ doneQ \in Seq(Work) /\ local \in Seq(Work) /\ Slow \notin Work
      /\ field \in [Work -> {"none", "set", "null", "cancelled"}]
      /\ \A u \in Workers : Holds(u) => job[u] \in Work
  BY DEF PoolInv, TypeOK, Queueable, LockInv, ConstantsOK
<1> USE DEF handed, loopVars, shared
(* Nothing moves that the requests are in.                                 *)
<1>2. ASSUME UNCHANGED <<slowQ, job, doneQ, local, field, ran, result, loopAt, target>>,
             IsInjective(wq'), \A y \in Work : Contains(wq', y) => Contains(wq, y),
             \A u \in Workers : /\ Holds(u)' <=> Holds(u)
                                /\ worker'[u] = "handsOver" <=> worker[u] = "handsOver"
      PROVE  Where'
  <2>1. QueueInv'
    BY <1>1, <1>2 DEF QueueInv
  <2>2. PlaceInv'
    BY <1>1, <1>2 DEF PlaceInv, Unanswered, Requeued
  <2>3. HandInv'
    BY <1>1, <1>2 DEF HandInv, Requeued
  <2>4. QED
    BY <2>1, <2>2, <2>3 DEF Where
<1>3. CASE Lock(t) \/ Sleep(t) \/ Leave(t)
  <2>1. /\ UNCHANGED <<wq, slowQ, job, doneQ, local, field, ran, result, loopAt,
                       target>>
        /\ ~Holds(t) /\ ~Holds(t)'
        /\ \A u \in Workers \ {t} :
             \/ worker'[u] = worker[u]
             \/ worker[u] = "asleep" /\ worker'[u] = "signalled"
    BY <1>1, <1>3 DEF Lock, Sleep, Leave, Holds, At, TypeOK
  <2>2. QED
    BY <1>1, <1>2, <2>1 DEF Holds, QueueInv
<1>4. CASE Postpone(t) \/ TakeNothing(t)
  <2>1. /\ UNCHANGED <<slowQ, job, doneQ, local, field, ran, result, loopAt, target,
                       worker>>
        /\ wq # <<>> /\ Head(wq) = Slow
        /\ wq' = Append(Tail(wq), Slow) \/ wq' = Tail(wq)
    BY <1>4 DEF Postpone, TakeNothing, Waits
  <2>2. IsInjective(wq') /\ \A y \in Work : Contains(wq', y) => Contains(wq, y)
    BY <1>1, <2>1, SlowGoesBehind DEF QueueInv
  <2>3. QED
    BY <1>1, <1>2, <2>1, <2>2 DEF Holds
(* One request is taken.                                                   *)
<1>5. ASSUME NEW w \in Work, Contains(wq, w) \/ Contains(slowQ, w),
             job' = [job EXCEPT ![t] = w], worker[t] = "has", worker'[t] = "works",
             \A u \in Workers \ {t} :
               \/ worker'[u] = worker[u]
               \/ worker[u] = "asleep" /\ worker'[u] = "signalled",
             UNCHANGED <<doneQ, local, field, ran, result, loopAt, target>>,
             IsInjective(wq'), IsInjective(slowQ'),
             ~Contains(wq', w), ~Contains(slowQ', w),
             \A y \in Work : /\ Contains(wq', y) => Contains(wq, y)
                             /\ Contains(slowQ', y) => Contains(slowQ, y)
      PROVE  Where'
  <2>1. Unanswered(w) /\ ~Requeued(w) /\ \A u \in Workers : Holds(u) => job[u] # w
    BY <1>1, <1>5 DEF PlaceInv, HandInv
  <2>2. /\ \A u \in Workers \ {t} : /\ Holds(u)' <=> Holds(u)
                                    /\ worker'[u] = "handsOver" <=> worker[u] = "handsOver"
                                    /\ job'[u] = job[u]
        /\ Holds(t)' /\ job'[t] = w /\ worker'[t] = "works"
    BY <1>1, <1>5 DEF Holds, TypeOK
  <2>3. QueueInv'
    BY <1>1, <1>5 DEF QueueInv
  <2>4. PlaceInv'
    BY <1>1, <1>5 DEF PlaceInv, Unanswered, Requeued
  <2>5. HandInv'
    BY <1>1, <1>5, <2>1, <2>2 DEF HandInv, Requeued, Unanswered
  <2>6. QED
    BY <2>3, <2>4, <2>5 DEF Where
<1>6. CASE TakeCpu(t)
  <2> DEFINE w == Head(wq)
  <2>1. /\ wq # <<>> /\ w \in CpuWork /\ wq' = Tail(wq) /\ slowQ' = slowQ
        /\ job' = [job EXCEPT ![t] = w] /\ worker[t] = "has"
        /\ worker' = [worker EXCEPT ![t] = "works"]
        /\ UNCHANGED <<doneQ, local, field, ran, result, loopAt, target>>
    BY <1>6 DEF TakeCpu, Begin, Waits
  <2>2. /\ Contains(wq, w) /\ IsInjective(wq') /\ ~Contains(wq', w)
        /\ \A y : Contains(wq', y) => Contains(wq, y)
    BY <1>1, <2>1, QueueTakes DEF QueueInv
  <2>3. w \in Work /\ ~Contains(slowQ, w)
    BY <1>1, <2>1, DomainIsLen DEF ConstantsOK, Work
  <2> HIDE DEF w
  <2>4. /\ worker'[t] = "works" /\ \A u \in Workers \ {t} : worker'[u] = worker[u]
        /\ IsInjective(slowQ')
    BY <1>1, <2>1 DEF TypeOK, QueueInv
  <2>5. QED
    BY <1>5, <2>1, <2>2, <2>3, <2>4
<1>7. CASE TakeSlow(t)
  <2> DEFINE w == Head(slowQ)
  <2>1. /\ wq # <<>> /\ Head(wq) = Slow /\ slowQ # <<>> /\ slowQ' = Tail(slowQ)
        /\ wq' = Append(Tail(wq), Slow) \/ wq' = Tail(wq)
        /\ job' = [job EXCEPT ![t] = w] /\ worker[t] = "has"
        /\ UNCHANGED <<doneQ, local, field, ran, result, loopAt, target>>
    BY <1>7 DEF TakeSlow, Begin, Waits
  <2>2. /\ worker'[t] = "works"
        /\ \A u \in Workers \ {t} :
             \/ worker'[u] = worker[u]
             \/ worker[u] = "asleep" /\ worker'[u] = "signalled"
    BY <1>1, <1>7 DEF TakeSlow, At, TypeOK
  <2>3. /\ w \in SlowWork /\ Contains(slowQ, w) /\ IsInjective(slowQ')
        /\ ~Contains(slowQ', w) /\ \A y : Contains(slowQ', y) => Contains(slowQ, y)
    BY <1>1, <2>1, QueueTakes DEF QueueInv
  <2>4. IsInjective(wq') /\ \A y \in Work : Contains(wq', y) => Contains(wq, y)
    BY <1>1, <2>1, SlowGoesBehind DEF QueueInv
  <2>5. w \in Work /\ ~Contains(wq, w)
    BY <1>1, <2>3, DomainIsLen DEF ConstantsOK, Work, Queueable
  <2> HIDE DEF w
  <2>6. QED
    BY <1>5, <2>1, <2>2, <2>3, <2>4, <2>5
<1>8. CASE Run(t)
  <2> DEFINE w == job[t]
  <2>1. /\ UNCHANGED <<wq, slowQ, doneQ, local, job, field, result, loopAt, target>>
        /\ Holds(t) /\ worker[t] = "works"
        /\ ran' = [ran EXCEPT ![w] = @ + 1]
        /\ worker' = [worker EXCEPT ![t] = "handsOver"]
    BY <1>8 DEF Run, Holds
  <2>2. /\ w \in Work /\ field[w] = "set" /\ result[w] = <<>> /\ ran[w] = 0
        /\ ~Requeued(w) /\ ~Contains(wq, w) /\ ~Contains(slowQ, w)
        /\ \A u \in Workers \ {t} : Holds(u) => job[u] # w
    BY <1>1, <2>1 DEF HandInv
  <2>3. /\ ran'[w] = 1 /\ \A y \in Work \ {w} : ran'[y] = ran[y]
        /\ worker'[t] = "handsOver"
        /\ \A u \in Workers \ {t} : worker'[u] = worker[u]
    BY <1>1, <2>1, <2>2 DEF TypeOK
  <2>4. QueueInv'
    BY <1>1, <2>1 DEF QueueInv
  <2>5. PlaceInv'
    BY <1>1, <2>1, <2>2, <2>3 DEF PlaceInv, Unanswered, Requeued
  <2>6. HandInv'
    BY <1>1, <2>1, <2>2, <2>3 DEF HandInv, Requeued, Holds
  <2>7. QED
    BY <2>4, <2>5, <2>6 DEF Where
<1>9. CASE HandOver(t)
  <2> DEFINE w == job[t]
  <2>1. /\ UNCHANGED <<wq, slowQ, local, job, ran, result, loopAt, target>>
        /\ Holds(t) /\ worker[t] = "handsOver"
        /\ field' = [field EXCEPT ![w] = "null"] /\ doneQ' = Append(doneQ, w)
        /\ worker' = [worker EXCEPT ![t] = "handedOver"]
    BY <1>9 DEF HandOver, Holds
  <2>2. /\ w \in Work /\ field[w] = "set" /\ result[w] = <<>> /\ ran[w] = 1
        /\ ~Requeued(w) /\ ~Contains(wq, w) /\ ~Contains(slowQ, w)
        /\ \A u \in Workers \ {t} : Holds(u) => job[u] # w
    BY <1>1, <2>1 DEF HandInv
  <2>3. ~Contains(doneQ, w) /\ ~Contains(local, w)
    BY <1>1, <2>2 DEF PlaceInv
  <2>4. /\ field'[w] = "null" /\ \A y \in Work \ {w} : field'[y] = field[y]
        /\ worker'[t] = "handedOver"
        /\ \A u \in Workers \ {t} : worker'[u] = worker[u]
    BY <1>1, <2>1, <2>2 DEF TypeOK
  <2>5. /\ IsInjective(doneQ')
        /\ \A y : Contains(doneQ', y) <=> Contains(doneQ, y) \/ y = w
    BY <1>1, <2>1, <2>2, <2>3, QueueAdds DEF QueueInv
  <2>6. QueueInv'
    BY <1>1, <2>1, <2>5 DEF QueueInv
  <2>7. PlaceInv'
    BY <1>1, <2>1, <2>2, <2>3, <2>4, <2>5 DEF PlaceInv, Unanswered, Requeued
  <2>8. HandInv'
    BY <1>1, <2>1, <2>2, <2>4 DEF HandInv, Requeued, Holds
  <2>9. QED
    BY <2>6, <2>7, <2>8 DEF Where
<1>10. CASE Relock(t)
  <2>1. /\ UNCHANGED <<wq, slowQ, doneQ, local, field, ran, result, loopAt, target>>
        /\ worker[t] = "handedOver" /\ worker' = [worker EXCEPT ![t] = "has"]
        /\ job' = [job EXCEPT ![t] = None]
    BY <1>10 DEF Relock
  <2>2. /\ ~Holds(t) /\ ~Holds(t)'
        /\ \A u \in Workers \ {t} : worker'[u] = worker[u] /\ job'[u] = job[u]
    BY <1>1, <2>1 DEF Holds, TypeOK
  <2>3. QueueInv' /\ PlaceInv'
    BY <1>1, <2>1 DEF QueueInv, PlaceInv, Unanswered, Requeued
  <2>4. HandInv'
    BY <1>1, <2>1, <2>2 DEF HandInv, Requeued, Holds
  <2>5. QED
    BY <2>3, <2>4 DEF Where
<1>11. QED
  BY <1>3, <1>4, <1>6, <1>7, <1>8, <1>9, <1>10 DEF WorkerStep


-----------------------------------------------------------------------------
(* Who is awake for what can be taken.                                     *)

LEMMA AwakeCounts ==
  ASSUME ConstantsOK
  PROVE  /\ IsFiniteSet(Awake) /\ Cardinality(Awake) \in Nat
         /\ IsFiniteSet(Awake') /\ Cardinality(Awake') \in Nat
         /\ \A t \in Awake : \A u \in Workers \ Awake :
              Cardinality((Awake \ {t}) \cup {u}) = Cardinality(Awake)
         /\ \A t \in Awake : Cardinality(Awake \ {t}) = Cardinality(Awake) - 1
         /\ \A u \in Workers \ Awake :
              Cardinality(Awake \cup {u}) = Cardinality(Awake) + 1
<1>1. /\ IsFiniteSet(Awake) /\ IsFiniteSet(Awake')
      /\ Cardinality(Awake) \in Nat /\ Cardinality(Awake') \in Nat
  BY FS_Subset, FS_CardinalityType DEF Awake, ConstantsOK
<1>2. ASSUME NEW t \in Awake
      PROVE  /\ IsFiniteSet(Awake \ {t})
             /\ Cardinality(Awake \ {t}) = Cardinality(Awake) - 1
  BY <1>1, FS_RemoveElement
<1>3. ASSUME NEW u \in Workers \ Awake
      PROVE  Cardinality(Awake \cup {u}) = Cardinality(Awake) + 1
  BY <1>1, FS_AddElement
<1>4. ASSUME NEW t \in Awake, NEW u \in Workers \ Awake
      PROVE  Cardinality((Awake \ {t}) \cup {u}) = Cardinality(Awake)
  <2>1. u \notin Awake \ {t}
    OBVIOUS
  <2>2. Cardinality((Awake \ {t}) \cup {u}) = Cardinality(Awake \ {t}) + 1
    BY <1>2, <2>1, FS_AddElement
  <2>3. QED
    BY <1>1, <1>2, <2>2
<1>5. QED
  BY <1>1, <1>2, <1>3, <1>4

LEMMA TakableIsInt ==
  ASSUME TypeOK, TypeOK'
  PROVE  /\ Takable \in Int /\ Takable' \in Int
         /\ Len(wq) \in Nat /\ Len(wq') \in Nat
<1>1. Len(wq) \in Nat /\ Len(wq') \in Nat
  BY LenProperties DEF TypeOK
<1>2. QED
  BY <1>1 DEF Takable

(* As many are awake, or as many more, as there is more to take.           *)
LEMMA AwakeKept ==
  ASSUME ConstantsOK, TypeOK, TypeOK', AwakeInv, NEW d \in Int,
         At("asleep")' # {} => /\ At("asleep") # {}
                               /\ Cardinality(Awake') >= Cardinality(Awake) + d,
         Takable' <= Takable + d
  PROVE  AwakeInv'
<1>1. PICK n1, n2, a1, a2 \in Int : /\ n1 = Takable /\ n2 = Takable'
                                    /\ a1 = Cardinality(Awake)
                                    /\ a2 = Cardinality(Awake')
  BY TakableIsInt, AwakeCounts
<1>2. QED
  BY <1>1 DEF AwakeInv

(* A signal wakes one if one is asleep.                                    *)
LEMMA SignalWakes ==
  ASSUME ConstantsOK, TypeOK, Signal, job' = job
  PROVE  At("asleep")' # {} => /\ At("asleep") # {}
                               /\ Cardinality(Awake') >= Cardinality(Awake) + 1
<1> SUFFICES ASSUME At("asleep")' # {}
             PROVE  /\ At("asleep") # {}
                    /\ Cardinality(Awake') >= Cardinality(Awake) + 1
  OBVIOUS
<1>1. At("asleep") # {}
  BY SignalTypes DEF At
<1>2. PICK t \in At("asleep") : worker' = [worker EXCEPT ![t] = "signalled"]
  BY <1>1 DEF Signal
<1>3. t \in Workers \ Awake /\ Awake' = Awake \cup {t}
  BY <1>2 DEF At, Awake, TypeOK
<1>4. QED
  BY <1>1, <1>3, AwakeCounts

LEMMA UserWakes ==
  ASSUME ConstantsOK, PoolInv, UserStep
  PROVE  AwakeInv'
<1>1. /\ TypeOK /\ TypeOK' /\ AwakeInv /\ wq \in Seq(Queueable)
      /\ Exit \in Queueable
  BY UserTypes DEF PoolInv, TypeOK, Queueable
<1>2. ASSUME UNCHANGED <<wq, worker, job, slowRunning>> PROVE AwakeInv'
  BY <1>1, <1>2 DEF AwakeInv, At, Awake, Takable, AtThreshold
<1>3. ASSUME NEW x \in Queueable, wq' = Append(wq, x), Signal,
             UNCHANGED <<job, slowRunning>>
      PROVE  AwakeInv'
  <2>1. /\ Len(wq) \in Nat /\ Len(wq') = Len(wq) + 1
        /\ Contains(wq, Slow) => Contains(wq', Slow)
    BY <1>1, <1>3, QueueAdds, DomainIsLen
  <2>2. Takable' <= Takable + 1
    BY <1>3, <2>1 DEF Takable, AtThreshold
  <2>3. QED
    BY <1>1, <1>3, <2>2, SignalWakes, AwakeKept
<1>4. ASSUME NEW w \in Work, Submit(w) PROVE AwakeInv'
  BY <1>2, <1>3, <1>4, SubmitPosts DEF Submit
<1>5. CASE Cleanup
  BY <1>1, <1>3, <1>5 DEF Cleanup, Post
<1>6. ASSUME NEW w \in Work, Cancel(w) PROVE AwakeInv'
  BY <1>2, <1>6 DEF Cancel
<1>7. QED
  BY <1>4, <1>5, <1>6 DEF UserStep

LEMMA LoopWakes ==
  ASSUME ConstantsOK, PoolInv, LoopStep
  PROVE  AwakeInv'
<1>1. /\ TypeOK /\ TypeOK' /\ AwakeInv /\ LockInv /\ QueueInv
      /\ wq \in Seq(Queueable) /\ Slow \notin Work
  BY LoopTypes DEF PoolInv, TypeOK, Queueable, ConstantsOK
<1>2. ASSUME UNCHANGED <<wq, worker, job, slowRunning>> PROVE AwakeInv'
  BY <1>1, <1>2 DEF AwakeInv, At, Awake, Takable, AtThreshold
<1>3. CASE wq' = Drop(wq, target) /\ UNCHANGED <<worker, job, slowRunning>>
           /\ target \in Work
  <2>1. /\ Len(wq) \in Nat /\ Len(wq') \in Nat /\ Len(wq') <= Len(wq)
        /\ Contains(wq, Slow) => Contains(wq', Slow)
    BY <1>1, <1>3, QueueDrops, TakableIsInt DEF QueueInv
  <2>2. Takable' <= Takable + 0
    <3>1. PICK l1, l2 \in Nat : l1 = Len(wq) /\ l2 = Len(wq')
      BY <2>1
    <3>2. QED
      BY <1>3, <2>1, <3>1 DEF Takable, AtThreshold
  <2>3. Awake' = Awake /\ At("asleep")' = At("asleep")
    BY <1>3 DEF Awake, At
  <2>4. QED
    BY <1>1, <2>2, <2>3, AwakeCounts, AwakeKept
<1>4. QED
  BY <1>1, <1>2, <1>3 DEF LoopStep, CancelDecides, CancelQueues, WorkDone, CallDone,
                          shared, LockInv


LEMMA WorkerWakes ==
  ASSUME ConstantsOK, PoolInv, NEW t \in Workers, WorkerStep(t)
  PROVE  AwakeInv'
<1>1. /\ TypeOK /\ TypeOK' /\ AwakeInv /\ LockInv /\ IsInjective(wq)
      /\ wq \in Seq(Queueable) /\ Slow \notin Work /\ Slow # Exit
      /\ Len(wq) \in Nat /\ Len(wq') \in Nat
      /\ Takable \in Int /\ Takable' \in Int
  BY WorkerTypes, TakableIsInt DEF PoolInv, TypeOK, Queueable, ConstantsOK, QueueInv
<1>2. CASE Lock(t)
  <2>1. /\ Takable' = Takable /\ Awake' = Awake /\ At("asleep")' = At("asleep")
    BY <1>1, <1>2 DEF Lock, Takable, AtThreshold, Awake, At, TypeOK
  <2>2. QED
    BY <1>1, <2>1 DEF AwakeInv
<1>3. CASE Sleep(t)
  <2>1. Waits /\ Takable' = Takable
    BY <1>3 DEF Sleep, Takable, AtThreshold
  <2>2. Takable = 0
    <3>1. CASE wq = <<>>
      <4>1. Len(wq) = 0 /\ ~Contains(wq, Slow)
        BY <3>1 DEF Contains
      <4>2. QED
        BY <4>1 DEF Takable
    <3>2. CASE wq = <<Slow>> /\ AtThreshold
      <4>1. Len(wq) = 1 /\ Contains(wq, Slow)
        BY <3>2 DEF Contains
      <4>2. QED
        BY <3>2, <4>1 DEF Takable
    <3>3. QED
      BY <2>1, <3>1, <3>2 DEF Waits
  <2>3. QED
    BY <2>1, <2>2, AwakeCounts DEF AwakeInv
<1>4. CASE Leave(t)
  <2>1. Takable' <= Takable + 0 /\ t \in Awake
    BY <1>1, <1>4 DEF Leave, Takable, AtThreshold, Awake
  <2>2. CASE At("asleep") = {} /\ worker' = [worker EXCEPT ![t] = "gone"]
    <3>1. At("asleep")' = {}
      BY <1>1, <2>2 DEF At, TypeOK
    <3>2. QED
      BY <3>1 DEF AwakeInv
  <2>3. CASE \E u \in At("asleep") :
               worker' = [worker EXCEPT ![t] = "gone", ![u] = "signalled"]
    <3>1. PICK u \in At("asleep") :
                 worker' = [worker EXCEPT ![t] = "gone", ![u] = "signalled"]
      BY <2>3
    <3>2. u \in Workers \ Awake /\ Awake' = (Awake \ {t}) \cup {u}
      BY <1>1, <1>4, <3>1 DEF Leave, At, Awake, TypeOK
    <3>3. Cardinality(Awake') >= Cardinality(Awake) + 0
      BY <2>1, <3>2, AwakeCounts
    <3>4. QED
      BY <1>1, <2>1, <3>1, <3>3, AwakeKept
  <2>4. QED
    BY <1>4, <2>2, <2>3 DEF Leave
<1>5. CASE TakeCpu(t)
  <2>1. /\ wq # <<>> /\ Head(wq) \in CpuWork /\ wq' = Tail(wq) /\ t \in Awake
        /\ worker[t] = "has" /\ worker' = [worker EXCEPT ![t] = "works"]
        /\ slowRunning' = slowRunning
        /\ \A u \in Workers \ {t} : job'[u] = job[u]
    BY <1>1, <1>5 DEF TakeCpu, Waits, Awake, Begin, TypeOK
  <2>2. Len(wq') = Len(wq) - 1 /\ (Contains(wq, Slow) => Contains(wq', Slow))
    BY <1>1, <2>1, QueueTakes DEF Work
  <2>3. Takable' <= Takable + (-1)
    BY <1>1, <2>1, <2>2 DEF Takable, AtThreshold
  <2>4. Awake' = Awake \ {t} /\ At("asleep")' = At("asleep")
    BY <1>1, <2>1 DEF Awake, At, TypeOK
  <2>5. Cardinality(Awake') >= Cardinality(Awake) + (-1)
    BY <2>1, <2>4, AwakeCounts
  <2>6. PICK d \in Int : d = -1
    OBVIOUS
  <2>7. QED
    BY <1>1, <2>3, <2>4, <2>5, <2>6, AwakeKept
<1>6. CASE Postpone(t) \/ TakeNothing(t)
  <2>1. /\ wq # <<>> /\ Head(wq) = Slow
        /\ wq' = Append(Tail(wq), Slow) \/ (wq' = Tail(wq) /\ ~AtThreshold)
        /\ UNCHANGED <<worker, job, slowRunning>>
    BY <1>6 DEF Postpone, TakeNothing, Waits
  <2>2. /\ Len(wq') <= Len(wq)
        /\ AtThreshold => Contains(wq', Slow)
    <3>1. CASE wq' = Tail(wq)
      <4>1. Len(wq') = Len(wq) - 1
        BY <1>1, <2>1, <3>1, SlowGoesBehind
      <4>2. Append(Tail(wq), Slow) # Tail(wq)
        <5>1. Tail(wq) \in Seq(Queueable) /\ Slow \in Queueable
          BY <1>1, <2>1, QueueTakes DEF Queueable
        <5>2. /\ Len(Tail(wq)) \in Nat
              /\ Len(Append(Tail(wq), Slow)) = Len(Tail(wq)) + 1
          BY <5>1, AppendProperties, LenProperties
        <5>3. PICK n \in Nat : n = Len(Tail(wq))
          BY <5>2
        <5>4. Len(Append(Tail(wq), Slow)) # Len(Tail(wq))
          BY <5>2, <5>3
        <5>5. QED
          BY <5>4
      <4>3. ~AtThreshold
        BY <2>1, <3>1, <4>2
      <4>4. PICK n \in Nat : n = Len(wq)
        BY <1>1
      <4>5. QED
        BY <4>1, <4>3, <4>4
    <3>2. CASE wq' # Tail(wq)
      BY <1>1, <2>1, <3>2, SlowGoesBehind
    <3>3. QED
      BY <3>1, <3>2
  <2>3. Takable' <= Takable + 0
    <3>1. PICK l1, l2 \in Nat : l1 = Len(wq) /\ l2 = Len(wq')
      BY <1>1
    <3>2. QED
      BY <2>1, <2>2, <3>1 DEF Takable, AtThreshold
  <2>4. Awake' = Awake /\ At("asleep")' = At("asleep")
    BY <2>1 DEF Awake, At
  <2>5. QED
    BY <1>1, <2>3, <2>4, AwakeCounts, AwakeKept
<1>7. CASE TakeSlow(t)
  <2>1. /\ wq # <<>> /\ Head(wq) = Slow /\ ~AtThreshold
        /\ t \in Awake /\ worker[t] = "has"
        /\ \A u \in Workers \ {t} : job'[u] = job[u]
    BY <1>1, <1>7 DEF TakeSlow, Waits, Awake, Begin, TypeOK
  <2>2. Takable = Len(wq)
    BY <2>1 DEF Takable
  <2>3. CASE wq' = Tail(wq) /\ worker' = [worker EXCEPT ![t] = "works"]
    <3>1. Len(wq') = Len(wq) - 1
      BY <1>1, <2>1, <2>3, SlowGoesBehind
    <3>2. Takable' <= Takable + (-1)
      BY <1>1, <2>2, <3>1 DEF Takable
    <3>3. Awake' = Awake \ {t} /\ At("asleep")' = At("asleep")
      BY <1>1, <2>1, <2>3 DEF Awake, At, TypeOK
    <3>4. Cardinality(Awake') >= Cardinality(Awake) + (-1)
      BY <2>1, <3>3, AwakeCounts
    <3>5. PICK d \in Int : d = -1
      OBVIOUS
    <3>6. QED
      BY <1>1, <3>2, <3>3, <3>4, <3>5, AwakeKept
  <2>4. CASE At("asleep") = {} /\ worker' = [worker EXCEPT ![t] = "works"]
    <3>1. At("asleep")' = {}
      BY <1>1, <2>4 DEF At, TypeOK
    <3>2. QED
      BY <3>1 DEF AwakeInv
  <2>5. CASE /\ wq' = Append(Tail(wq), Slow)
             /\ \E u \in At("asleep") :
                  worker' = [worker EXCEPT ![t] = "works", ![u] = "signalled"]
    <3>1. PICK u \in At("asleep") :
                 worker' = [worker EXCEPT ![t] = "works", ![u] = "signalled"]
      BY <2>5
    <3>2. u \in Workers \ Awake /\ Awake' = (Awake \ {t}) \cup {u}
      BY <1>1, <2>1, <3>1 DEF At, Awake, TypeOK
    <3>3. Cardinality(Awake') >= Cardinality(Awake) + 0
      BY <2>1, <3>2, AwakeCounts
    <3>4. Len(wq') <= Len(wq)
      BY <1>1, <2>1, <2>5, SlowGoesBehind
    <3>5. Takable' <= Takable + 0
      BY <1>1, <2>2, <3>4 DEF Takable
    <3>6. QED
      BY <1>1, <3>1, <3>3, <3>5, AwakeKept
  <2>6. QED
    BY <1>7, <2>3, <2>4, <2>5 DEF TakeSlow
<1>8. CASE Run(t) \/ HandOver(t)
  <2>1. /\ Takable' = Takable /\ Awake \subseteq Awake'
        /\ At("asleep")' = At("asleep")
    BY <1>1, <1>8 DEF Run, HandOver, Takable, AtThreshold, Awake, At, TypeOK, shared
  <2>2. Cardinality(Awake) <= Cardinality(Awake')
    BY <2>1, AwakeCounts, FS_Subset
  <2>3. Cardinality(Awake') >= Cardinality(Awake) + 0 /\ Takable' <= Takable + 0
    BY <1>1, <2>1, <2>2, AwakeCounts
  <2>4. QED
    BY <1>1, <2>1, <2>3, AwakeKept
<1>9. CASE Relock(t)
  <2>1. /\ worker[t] = "handedOver" /\ worker' = [worker EXCEPT ![t] = "has"]
        /\ wq' = wq /\ job' = [job EXCEPT ![t] = None]
        /\ job[t] \notin SlowWork => slowRunning' = slowRunning
    BY <1>1, <1>9 DEF Relock, TypeOK
  <2>2. At("asleep")' = At("asleep") /\ Awake' = Awake \cup {t}
    BY <1>1, <2>1 DEF Awake, At, TypeOK
  <2>3. CASE job[t] \in SlowWork
    <3>1. t \in Workers \ Awake
      BY <2>1, <2>3 DEF Awake
    <3>2. Cardinality(Awake') >= Cardinality(Awake) + 1
      BY <2>2, <3>1, AwakeCounts
    <3>3. Takable' <= Takable + 1
      BY <1>1, <2>1 DEF Takable
    <3>4. At("asleep")' # {} => /\ At("asleep") # {}
                                /\ Cardinality(Awake') >= Cardinality(Awake) + 1
      BY <2>2, <3>2
    <3>5. QED
      BY <1>1, <3>3, <3>4, AwakeKept
  <2>4. CASE job[t] \notin SlowWork
    <3>1. Awake' = Awake
      BY <2>1, <2>2, <2>4 DEF Awake
    <3>2. Takable' = Takable
      BY <2>1, <2>4 DEF Takable, AtThreshold
    <3>3. QED
      BY <1>1, <2>2, <3>1, <3>2 DEF AwakeInv
  <2>5. QED
    BY <2>3, <2>4
<1>10. QED
  BY <1>2, <1>3, <1>4, <1>5, <1>6, <1>7, <1>8, <1>9 DEF WorkerStep

-----------------------------------------------------------------------------
(* The invariant, and what follows from it.                                *)

LEMMA PoolStep ==
  ASSUME ConstantsOK PROVE PoolInv /\ [Next]_vars => PoolInv'
<1> SUFFICES ASSUME PoolInv, [Next]_vars PROVE PoolInv'
  OBVIOUS
<1>1. SlowInv'
  BY SlowStep
<1>2. CASE UserStep
  BY <1>1, <1>2, UserTypes, UserLocks, UserPlaces, UserWakes DEF PoolInv, Where
<1>3. CASE LoopStep
  BY <1>1, <1>3, LoopTypes, LoopLocks, LoopPlaces, LoopWakes DEF PoolInv, Where
<1>4. ASSUME NEW t \in Workers, WorkerStep(t) PROVE PoolInv'
  BY <1>1, <1>4, WorkerTypes, WorkerLocks, WorkerPlaces, WorkerWakes
     DEF PoolInv, Where
<1>5. CASE UNCHANGED vars
  BY <1>5 DEF vars, shared, handed, loopVars, PoolInv, TypeOK, LockInv, QueueInv,
              PlaceInv, HandInv, SlowInv, AwakeInv, Holds, Unanswered, Requeued,
              AtSlow, Awake, Takable, AtThreshold, At
<1>6. QED
  BY <1>2, <1>3, <1>4, <1>5 DEF Next

LEMMA PoolKeepsOnce ==
  ASSUME PoolInv PROVE QueuedOnce
<1>1. slowQ \in Seq(Work) /\ doneQ \in Seq(Work) /\ local \in Seq(Work)
  <2>1. slowQ \in Seq(SlowWork) /\ SlowWork \subseteq Work
    BY DEF PoolInv, TypeOK, Work
  <2>2. slowQ \in Seq(Work)
    BY <2>1, SeqMonotonic
  <2>3. QED
    BY <2>2 DEF PoolInv, TypeOK
<1>2. \A w \in Work : ~(Contains(slowQ, w) /\ Contains(doneQ, w))
                      /\ ~(Contains(slowQ, w) /\ Contains(local, w))
                      /\ ~(Contains(doneQ, w) /\ Contains(local, w))
  BY DEF PoolInv, PlaceInv, Unanswered
<1>3. /\ slowQ \o doneQ \in Seq(Work) /\ IsInjective(slowQ \o doneQ)
      /\ \A y : Contains(slowQ \o doneQ, y) <=> Contains(slowQ, y) \/ Contains(doneQ, y)
  BY <1>1, <1>2, QueuesJoin, DomainIsLen DEF PoolInv, QueueInv
<1>4. IsInjective((slowQ \o doneQ) \o local)
  BY <1>1, <1>2, <1>3, QueuesJoin, DomainIsLen DEF PoolInv, QueueInv
<1>5. QED
  BY <1>4 DEF QueuedOnce, PoolInv, QueueInv

(* A thread that sleeps beside work it may take is not the only one: when  *)
(* nobody has the mutex, another is on its way to it.                      *)
LEMMA PoolNeverIdles ==
  ASSUME ConstantsOK, PoolInv PROVE NoIdleWorker
<1> SUFFICES ASSUME mutex = None, At("asleep") # {}, ~Waits
             PROVE  At("signalled") \cup At("wants") \cup At("handedOver") # {}
  BY DEF NoIdleWorker
<1>1. wq \in Seq(Queueable) /\ wq # <<>> /\ Len(wq) \in Nat \ {0}
      /\ ~(wq = <<Slow>> /\ AtThreshold)
  BY QueueTakes DEF PoolInv, TypeOK, Queueable, Waits
<1>2. Takable >= 1
  <2>1. CASE AtThreshold /\ Contains(wq, Slow) /\ Len(wq) = 1
    <3>1. wq[1] = Slow
      BY <2>1 DEF Contains
    <3>2. wq = <<Slow>>
      BY <1>1, <2>1, <3>1
    <3>3. QED
      BY <1>1, <2>1, <3>2
  <2>2. CASE ~(AtThreshold /\ Contains(wq, Slow))
    BY <1>1, <2>2 DEF Takable
  <2>3. CASE AtThreshold /\ Contains(wq, Slow) /\ Len(wq) # 1
    <3>1. PICK l \in Nat \ {0, 1} : l = Len(wq)
      BY <1>1, <2>3
    <3>2. QED
      BY <2>3, <3>1 DEF Takable
  <2>4. QED
    BY <2>1, <2>2, <2>3
<1>3. Takable \in Int
  BY <1>1 DEF Takable
<1>4. Awake # {}
  BY <1>2, <1>3, AwakeCounts, FS_EmptySet DEF PoolInv, AwakeInv
<1>5. \A t \in Workers : worker[t] # "has"
  BY DEF PoolInv, LockInv, ConstantsOK
<1>6. QED
  BY <1>4, <1>5 DEF Awake, At

(* The pool answers a request once, with what became of it, whatever       *)
(* falls between the two mutexes; slow work takes half of the threads at   *)
(* most; and no thread sleeps beside work nobody is awake to take.         *)
THEOREM PoolServes == ASSUME ConstantsOK PROVE Spec => []PoolAnswers
<1>1. ASSUME PoolInv PROVE PoolAnswers
  <2>1. TypeOK
    BY <1>1 DEF PoolInv
  <2>2. DoneOnce
    BY <1>1 DEF PoolInv, PlaceInv, DoneOnce
  <2>3. SlowIsLimited
    BY <1>1 DEF PoolInv, SlowInv, SlowIsLimited, AtSlow
  <2>4. QED
    BY <1>1, <2>1, <2>2, <2>3, PoolKeepsOnce, PoolNeverIdles DEF PoolAnswers
<1>2. PoolInv => PoolAnswers
  BY <1>1
<1>3. Init => PoolInv
  BY PoolInitiates
<1>4. QED
  BY <1>2, <1>3, PoolStep, PTL DEF Spec

=============================================================================
