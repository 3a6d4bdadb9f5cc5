--------------------------- MODULE UVStreamProofs ---------------------------
(***************************************************************************)
(* Proofs about UVStream, for any finite set of requests, any sizes and    *)
(* any bursts.                                                             *)
(***************************************************************************)
EXTENDS UVStream, FiniteSetTheorems, SequenceTheorems, TLAPS

(* What the flags allow: nothing is written after a shutdown or a close,   *)
(* and reads go on only for a user who wants them, but for the callback    *)
(* that tells of an error.                                                 *)
FlagInv ==
  /\ ClosingIsQuiet /\ ShutAfterWrites
  /\ Has("shut") \/ shutReq \/ Has("closing") => ~Has("writable")
  /\ Has("closed") => Has("closing")
  /\ Has("reading") => wanted \/ (pc = "readCb" /\ after = "error")

(* Where the loop is when a closed stream calls its last callbacks, and    *)
(* when uv__write_callbacks holds requests.                                *)
LastPlaces == {"callbacks", "next", "writeCb", "shutCb", "closeCb", "gone"}
PlaceInv ==
  /\ Has("closed") => /\ writeQ = <<>> /\ pc \in LastPlaces
                      /\ pc # "callbacks" => completed = <<>>
  /\ pc \in {"closeCb", "gone"} => Has("closed")
  /\ pq # <<>> => pc \in {"next", "writeCb"}

(* A request waits in one place, it was accepted, and one that failed is   *)
(* among those completed.                                                  *)
RequestInv == /\ ToSet(Pending) \subseteq asked
              /\ failed \subseteq ToSet(pq \o completed)

(* What waits in an open stream is announced, wherever the loop is: by the *)
(* watcher, or by the events uv__stream_io still has to look at.           *)
Announced == fed \/ (pc = "out" /\ "OUT" \in events)
WaitInv ==
  ~Has("closing") =>
    /\ writeQ # <<>> => Announced \/ "OUT" \in pevents
    /\ completed # <<>> => Announced \/ pc = "callbacks"
    /\ shutReq => \/ Announced \/ "OUT" \in pevents
                  \/ pc \in {"callbacks", "next", "writeCb"}

SizeInv == size = BytesOf(ToSet(writeQ) \cup failed, left)

StreamInv == TypeOK /\ FlagInv /\ PlaceInv /\ RequestInv /\ WaitInv /\ SizeInv
-----------------------------------------------------------------------------
(* Queues: what they hold when they are joined, added to, taken from and   *)
(* split.                                                                  *)

LEMMA QueueProperties ==
  ASSUME NEW S, NEW q \in Seq(S)
  PROVE  /\ Len(q) \in Nat /\ DOMAIN q = 1..Len(q)
         /\ \A i \in 1..Len(q) : q[i] \in S
         /\ ToSet(q) \subseteq S
         /\ \A x : Contains(q, x) <=> x \in ToSet(q)
         /\ ToSet(q) = {} <=> q = <<>>
<1>1. /\ Len(q) \in Nat /\ DOMAIN q = 1..Len(q)
      /\ \A i \in 1..Len(q) : q[i] \in S
  BY LenProperties, ElementOfSeq
<1>2. /\ \A x : Contains(q, x) <=> x \in ToSet(q)
      /\ ToSet(q) \subseteq S
  BY <1>1 DEF Contains, ToSet
<1>3. q = <<>> => ToSet(q) = {}
  BY <1>1, EmptySeq DEF ToSet
<1>4. q # <<>> => q[1] \in ToSet(q)
  BY <1>1, EmptySeq DEF ToSet
<1>5. QED
  BY <1>1, <1>2, <1>3, <1>4

LEMMA QueuesJoin ==
  ASSUME NEW S, NEW s \in Seq(S), NEW t \in Seq(S)
  PROVE  /\ s \o t \in Seq(S)
         /\ ToSet(s \o t) = ToSet(s) \cup ToSet(t)
         /\ IsInjective(s \o t) <=> /\ IsInjective(s) /\ IsInjective(t)
                                    /\ ToSet(s) \cap ToSet(t) = {}
<1>1. /\ s \o t \in Seq(S) /\ Len(s) \in Nat /\ Len(t) \in Nat
      /\ Len(s \o t) = Len(s) + Len(t)
      /\ \A i \in 1..Len(s) : (s \o t)[i] = s[i]
      /\ \A i \in 1..Len(t) : (s \o t)[Len(s) + i] = t[i]
      /\ DOMAIN s = 1..Len(s) /\ DOMAIN t = 1..Len(t)
      /\ DOMAIN (s \o t) = 1..Len(s) + Len(t)
  BY ConcatProperties, QueueProperties
<1>2. \A i \in 1..Len(s) + Len(t) :
        i \in 1..Len(s) \/ (i - Len(s) \in 1..Len(t) /\ i = Len(s) + (i - Len(s)))
  BY <1>1
<1>3. /\ \A i \in 1..Len(s) : i \in 1..Len(s) + Len(t)
      /\ \A i \in 1..Len(t) : Len(s) + i \in 1..Len(s) + Len(t)
      /\ \A i \in 1..Len(s), j \in 1..Len(t) : i # Len(s) + j
      /\ \A i, j \in 1..Len(t) : Len(s) + i = Len(s) + j => i = j
  BY <1>1
<1>4. ToSet(s \o t) = ToSet(s) \cup ToSet(t)
  <2>1. ASSUME NEW y \in ToSet(s \o t) PROVE y \in ToSet(s) \cup ToSet(t)
    BY <1>1, <1>2 DEF ToSet
  <2>2. ASSUME NEW y \in ToSet(s) \cup ToSet(t) PROVE y \in ToSet(s \o t)
    BY <1>1, <1>3 DEF ToSet
  <2>3. QED
    BY <2>1, <2>2
<1>5. ASSUME IsInjective(s), IsInjective(t), ToSet(s) \cap ToSet(t) = {}
      PROVE  IsInjective(s \o t)
  <2> SUFFICES ASSUME NEW i \in 1..Len(s) + Len(t), NEW j \in 1..Len(s) + Len(t),
                      (s \o t)[i] = (s \o t)[j]
               PROVE  i = j
    BY <1>1 DEF IsInjective
  <2>1. ASSUME NEW k \in 1..Len(s), NEW l \in 1..Len(t) PROVE s[k] # t[l]
    BY <1>1, <1>5 DEF ToSet
  <2>2. CASE i \in 1..Len(s) /\ j \in 1..Len(s)
    BY <1>1, <1>5, <2>2 DEF IsInjective
  <2>3. ASSUME NEW k \in 1..Len(t), NEW l \in 1..Len(t),
               i = Len(s) + k, j = Len(s) + l
        PROVE  i = j
    BY <1>1, <1>5, <2>3 DEF IsInjective
  <2>4. ASSUME NEW k \in 1..Len(t), i \in 1..Len(s), j = Len(s) + k
        PROVE  FALSE
    BY <1>1, <2>1, <2>4
  <2>5. ASSUME NEW k \in 1..Len(t), j \in 1..Len(s), i = Len(s) + k
        PROVE  FALSE
    BY <1>1, <2>1, <2>5
  <2>6. QED
    BY <1>2, <2>2, <2>3, <2>4, <2>5
<1>6. ASSUME IsInjective(s \o t)
      PROVE  IsInjective(s) /\ IsInjective(t) /\ ToSet(s) \cap ToSet(t) = {}
  <2>1. IsInjective(s)
    BY <1>1, <1>3, <1>6 DEF IsInjective
  <2>2. IsInjective(t)
    BY <1>1, <1>3, <1>6 DEF IsInjective
  <2>3. ASSUME NEW i \in 1..Len(s), NEW j \in 1..Len(t) PROVE s[i] # t[j]
    BY <1>1, <1>3, <1>6 DEF IsInjective
  <2>4. QED
    BY <1>1, <2>1, <2>2, <2>3 DEF ToSet
<1>7. QED
  BY <1>1, <1>4, <1>5, <1>6

LEMMA QueueOfOne ==
  ASSUME NEW S, NEW x \in S
  PROVE  <<x>> \in Seq(S) /\ ToSet(<<x>>) = {x} /\ IsInjective(<<x>>)
<1>1. /\ <<x>> \in Seq(S) /\ Len(<<x>>) = 1 /\ <<x>>[1] = x
      /\ DOMAIN <<x>> = 1..1
  OBVIOUS
<1>2. QED
  BY <1>1 DEF ToSet, IsInjective

LEMMA QueueAdds ==
  ASSUME NEW S, NEW q \in Seq(S), NEW x \in S
  PROVE  /\ Append(q, x) \in Seq(S) /\ Append(q, x) # <<>>
         /\ Append(q, x) = q \o <<x>>
         /\ ToSet(Append(q, x)) = ToSet(q) \cup {x}
         /\ IsInjective(Append(q, x)) <=> IsInjective(q) /\ x \notin ToSet(q)
<1>1. /\ Append(q, x) \in Seq(S) /\ Append(q, x) # <<>>
      /\ Append(q, x) = q \o <<x>>
  BY AppendIsConcat, AppendProperties
<1>2. PICK t \in Seq(S) : t = <<x>> /\ ToSet(t) = {x} /\ IsInjective(t)
  BY QueueOfOne
<1>3. /\ ToSet(q \o t) = ToSet(q) \cup ToSet(t)
      /\ IsInjective(q \o t) <=> /\ IsInjective(q) /\ IsInjective(t)
                                /\ ToSet(q) \cap ToSet(t) = {}
  BY QueuesJoin
<1>4. QED
  BY <1>1, <1>2, <1>3

LEMMA QueueTakes ==
  ASSUME NEW S, NEW q \in Seq(S), q # <<>>
  PROVE  /\ Head(q) \in S /\ Tail(q) \in Seq(S)
         /\ q = <<Head(q)>> \o Tail(q)
         /\ ToSet(q) = {Head(q)} \cup ToSet(Tail(q))
         /\ IsInjective(q) <=> IsInjective(Tail(q)) /\ Head(q) \notin ToSet(Tail(q))
<1>1. Head(q) \in S /\ Tail(q) \in Seq(S)
  BY HeadTailProperties
<1>2. Len(q) \in Nat /\ Len(q) > 0
  BY QueueProperties, EmptySeq
<1>3. q = <<Head(q)>> \o Tail(q)
  <2>1. SubSeq(q, 1, Len(q)) = <<q[1]>> \o SubSeq(q, 1 + 1, Len(q))
    BY <1>2, SubSeqRecursiveFirst
  <2>2. Tail(q) = SubSeq(q, 2, Len(q)) /\ SubSeq(q, 1, Len(q)) = q
    BY TailIsSubSeq, SubSeqFull
  <2>3. Head(q) = q[1]
    BY <1>2
  <2>4. QED
    BY <2>1, <2>2, <2>3
<1>4. PICK s \in Seq(S) : /\ s = <<Head(q)>> /\ ToSet(s) = {Head(q)}
                          /\ IsInjective(s)
  BY <1>1, QueueOfOne
<1>5. PICK t \in Seq(S) : t = Tail(q)
  BY <1>1
<1>6. /\ ToSet(s \o t) = ToSet(s) \cup ToSet(t)
      /\ IsInjective(s \o t) <=> /\ IsInjective(s) /\ IsInjective(t)
                                /\ ToSet(s) \cap ToSet(t) = {}
  BY QueuesJoin
<1>7. QED
  BY <1>1, <1>3, <1>4, <1>5, <1>6

LEMMA QueueSplits ==
  ASSUME NEW S, NEW q \in Seq(S), NEW k \in 0..Len(q)
  PROVE  /\ SubSeq(q, 1, k) \in Seq(S) /\ SubSeq(q, k + 1, Len(q)) \in Seq(S)
         /\ q = SubSeq(q, 1, k) \o SubSeq(q, k + 1, Len(q))
         /\ k > 0 => SubSeq(q, 1, k) # <<>>
<1>1. /\ Len(q) \in Nat /\ k \in Nat /\ k <= Len(q)
      /\ \A i \in 1..Len(q) : q[i] \in S
  BY QueueProperties
<1>2. \A i \in 1..k : i \in 1..Len(q)
  BY <1>1
<1>3. \A i \in k + 1..Len(q) : i \in 1..Len(q)
  BY <1>1
<1>4. /\ SubSeq(q, 1, k) \in Seq(S)
      /\ Len(SubSeq(q, 1, k)) = IF 1 <= k THEN k - 1 + 1 ELSE 0
  BY <1>1, <1>2, SubSeqProperties
<1>5. SubSeq(q, k + 1, Len(q)) \in Seq(S)
  BY <1>1, <1>3, SubSeqProperties
<1>6. SubSeq(q, 1, k) \o SubSeq(q, k + 1, Len(q)) = SubSeq(q, 1, Len(q))
  <2>1. PICK n \in Nat : n = Len(q)
    BY <1>1
  <2>2. 1 \in 1..n + 1 /\ k \in 1 - 1..n /\ n \in k..n
    BY <1>1, <2>1
  <2>3. SubSeq(q, 1, k) \o SubSeq(q, k + 1, n) = SubSeq(q, 1, n)
    BY <2>1, <2>2, ConcatAdjacentSubSeq
  <2>4. QED
    BY <2>1, <2>3
<1>7. k > 0 => SubSeq(q, 1, k) # <<>>
  BY <1>1, <1>4, EmptySeq
<1>8. QED
  BY <1>4, <1>5, <1>6, <1>7, SubSeqFull

LEMMA QueuesRegroup ==
  ASSUME NEW S, NEW c \in Seq(S), NEW d \in Seq(S), NEW s \in Seq(S)
  PROVE  /\ c \o d \in Seq(S)
         /\ (c \o d) \o s = c \o (d \o s)
         /\ d = <<>> => c \o d = c
         /\ ToSet(c) \subseteq ToSet(c \o d)
<1>1. c \o d \in Seq(S) /\ ToSet(c) \subseteq ToSet(c \o d)
  BY QueuesJoin
<1>2. (c \o d) \o s = c \o (d \o s)
  BY ConcatAssociative
<1>3. c \o <<>> = c
  BY ConcatEmptySeq
<1>4. QED
  BY <1>1, <1>2, <1>3

(* What the lemmas below say of three queues of requests, by name.         *)
Joins(x, y, z) == /\ x \o y \in Seq(Requests) /\ (x \o y) \o z = x \o (y \o z)
                  /\ y = <<>> => x \o y = x
                  /\ ToSet(x) \subseteq ToSet(x \o y)

Passes(x, y, z) == /\ x \o Append(y, Head(z)) \in Seq(Requests)
                   /\ (x \o Append(y, Head(z))) \o Tail(z) = x \o (y \o z)
                   /\ Head(z) \in ToSet(x \o Append(y, Head(z)))
                   /\ ToSet(x) \subseteq ToSet(x \o Append(y, Head(z)))
                   /\ Append(y, Head(z)) # <<>>

(* The first of a queue goes behind another one, the rest stays.           *)
LEMMA RequestsPass ==
  ASSUME NEW c \in Seq(Requests), NEW d \in Seq(Requests),
         NEW s \in Seq(Requests), s # <<>>
  PROVE  Passes(c, d, s)
<1>0. \A x, y, z \in Seq(Requests) : (x \o y) \o z = x \o (y \o z)
  BY ConcatAssociative
<1>1. PICK h \in Requests : h = Head(s)
  BY QueueTakes
<1>2. PICK t \in Seq(Requests) : t = Tail(s)
  BY QueueTakes
<1>3. PICK u \in Seq(Requests) : u = <<h>>
  BY QueueOfOne
<1>4. s = u \o t
  BY <1>1, <1>2, <1>3, QueueTakes
<1>5. PICK a \in Seq(Requests) : /\ a = Append(d, h) /\ a = d \o u /\ a # <<>>
                                 /\ ToSet(a) = ToSet(d) \cup {h}
  <2>1. /\ Append(d, h) \in Seq(Requests) /\ Append(d, h) # <<>>
        /\ Append(d, h) = d \o <<h>>
        /\ ToSet(Append(d, h)) = ToSet(d) \cup {h}
    BY QueueAdds
  <2>2. QED
    BY <1>3, <2>1
<1>6. a \o t = d \o s
  BY <1>0, <1>4, <1>5
<1>7. c \o a \in Seq(Requests) /\ ToSet(c \o a) = ToSet(c) \cup ToSet(a)
  BY QueuesJoin
<1>8. (c \o a) \o t = c \o (a \o t)
  <2>1. \A y, z \in Seq(Requests) : (c \o y) \o z = c \o (y \o z)
    BY <1>0
  <2>2. \A z \in Seq(Requests) : (c \o a) \o z = c \o (a \o z)
    BY <2>1
  <2>3. QED
    BY <2>2
<1>9. QED
  <2>1. c \o Append(d, Head(s)) = c \o a /\ Append(d, Head(s)) = a
    BY <1>1, <1>5
  <2>2. (c \o a) \o Tail(s) = c \o (d \o s)
    BY <1>2, <1>6, <1>8
  <2>3. Head(s) \in ToSet(c \o a) /\ ToSet(c) \subseteq ToSet(c \o a)
    BY <1>1, <1>5, <1>7
  <2>4. QED
    BY <1>5, <1>7, <2>1, <2>2, <2>3 DEF Passes

(* A queue in the middle may be taken to either side.                      *)
LEMMA RequestsJoin == \A x, y, z \in Seq(Requests) : Joins(x, y, z)
<1> TAKE x, y, z \in Seq(Requests)
<1>1. x \o y \in Seq(Requests) /\ ToSet(x) \subseteq ToSet(x \o y)
  BY QueuesJoin
<1>2. (x \o y) \o z = x \o (y \o z)
  BY ConcatAssociative
<1>3. x \o <<>> = x
  BY ConcatEmptySeq
<1>4. QED
  BY <1>1, <1>2, <1>3 DEF Joins

LEMMA JoinIsAssociative ==
  \A x, y, z \in Seq(Requests) : /\ (x \o y) \o z = x \o (y \o z)
                                 /\ x \o y \in Seq(Requests)
BY QueuesRegroup

LEMMA LastOfFour ==
  \A a, b, c, d \in Seq(Requests) :
    a \o (b \o (c \o d)) = (a \o (b \o c)) \o d
<1> TAKE a, b, c, d \in Seq(Requests)
<1>1. b \o (c \o d) = (b \o c) \o d
  BY JoinIsAssociative
<1>2. PICK e \in Seq(Requests) : e = b \o c
  BY JoinIsAssociative
<1>3. (a \o e) \o d = a \o (e \o d)
  BY JoinIsAssociative
<1>4. QED
  BY <1>1, <1>2, <1>3

LEMMA ThreeQueues ==
  ASSUME NEW S, NEW a \in Seq(S), NEW b \in Seq(S), NEW c \in Seq(S)
  PROVE  /\ a \o b \o c \in Seq(S) /\ a \o b \o c = a \o (b \o c)
         /\ ToSet(a \o b) = ToSet(a) \cup ToSet(b)
         /\ ToSet(a \o b \o c) = ToSet(a) \cup ToSet(b) \cup ToSet(c)
         /\ IsInjective(a \o b \o c) <=>
              /\ IsInjective(a) /\ IsInjective(b) /\ IsInjective(c)
              /\ ToSet(a) \cap ToSet(b) = {} /\ ToSet(a) \cap ToSet(c) = {}
              /\ ToSet(b) \cap ToSet(c) = {}
<1>1. PICK d \in Seq(S) : /\ d = a \o b /\ ToSet(d) = ToSet(a) \cup ToSet(b)
                          /\ IsInjective(d) <=> /\ IsInjective(a) /\ IsInjective(b)
                                                /\ ToSet(a) \cap ToSet(b) = {}
  BY QueuesJoin
<1>2. /\ d \o c \in Seq(S) /\ ToSet(d \o c) = ToSet(d) \cup ToSet(c)
      /\ IsInjective(d \o c) <=> /\ IsInjective(d) /\ IsInjective(c)
                                /\ ToSet(d) \cap ToSet(c) = {}
  BY QueuesJoin
<1>3. a \o b \o c = a \o (b \o c)
  BY QueuesRegroup
<1>4. QED
  BY <1>1, <1>2, <1>3

LEMMA QueueShifts ==
  ASSUME NEW S, NEW x \in S, NEW t \in Seq(S)
  PROVE  <<x>> \o t # <<>> /\ Tail(<<x>> \o t) = t
<1>1. PICK u \in Seq(S) : u = <<x>> /\ Len(u) = 1 /\ u[1] = x
  <2>1. <<x>> \in Seq(S)
    BY QueueOfOne
  <2>2. Len(<<x>>) = 1 /\ <<x>>[1] = x
    OBVIOUS
  <2>3. QED
    BY <2>1, <2>2
<1>2. PICK q \in Seq(S) : q = u \o t /\ Len(q) = Len(u) + Len(t)
                          /\ (1 <= Len(u) => q[1] = u[1])
  <2>1. Len(u) \in Nat /\ Len(t) \in Nat
    BY QueueProperties
  <2>2. 1 \in 1..Len(u) + Len(t)
    BY <1>1, <2>1
  <2>3. QED
    <3>1. /\ u \o t \in Seq(S) /\ Len(u \o t) = Len(u) + Len(t)
          /\ \A i \in 1..Len(u) + Len(t) :
               (u \o t)[i] = IF i <= Len(u) THEN u[i] ELSE t[i - Len(u)]
      BY ConcatProperties
    <3>2. 1 <= Len(u) => (u \o t)[1] = u[1]
      BY <2>2, <3>1
    <3>3. QED
      BY <3>1, <3>2
<1>3. Len(q) # 0 /\ q # <<>>
  BY <1>1, <1>2, QueueProperties, EmptySeq
<1>4. Head(q) = x
  BY <1>1, <1>2, <1>3
<1>5. PICK v \in Seq(S) : v = Tail(q) /\ q = <<Head(q)>> \o v
  BY <1>3, QueueTakes
<1>6. u \o v = u \o t
  BY <1>1, <1>2, <1>4, <1>5
<1>7. v = t
  BY <1>6, ConcatSimplifications
<1>8. QED
  BY <1>1, <1>2, <1>3, <1>5, <1>7

-----------------------------------------------------------------------------
(* BytesOf: what the requests of a set have together.                      *)

Bytes(R, f) == UNION {{r} \X (1..f[r]) : r \in R}

LEMMA BytesFinite ==
  ASSUME StreamAssumption, NEW R \in SUBSET Requests,
         NEW f \in [Requests -> Nat]
  PROVE  /\ IsFiniteSet(Bytes(R, f))
         /\ BytesOf(R, f) = Cardinality(Bytes(R, f))
         /\ BytesOf(R, f) \in Nat
<1>1. IsFiniteSet(R)
  BY FS_Subset DEF StreamAssumption
<1>2. PICK h : h = [r \in R |-> {r} \X (1..f[r])]
  OBVIOUS
<1>3. IsFiniteSet({h[r] : r \in R})
  <2>1. h \in Surjection(R, {h[r] : r \in R})
    BY <1>2 DEF Surjection
  <2>2. QED
    BY <1>1, <2>1, FS_Surjection
<1>4. \A r \in R : IsFiniteSet(h[r])
  <2> TAKE r \in R
  <2>1. f[r] \in Nat
    OBVIOUS
  <2>2. IsFiniteSet(1..f[r])
    BY <2>1, FS_Interval
  <2>3. IsFiniteSet({r})
    BY FS_Singleton
  <2>4. IsFiniteSet({r} \X (1..f[r]))
    BY <2>2, <2>3, FS_Product
  <2>5. QED
    BY <1>2, <2>4
<1>5. IsFiniteSet(UNION {h[r] : r \in R})
  BY <1>3, <1>4, FS_UNION
<1>6. {h[r] : r \in R} = {{r} \X (1..f[r]) : r \in R}
  BY <1>2
<1>7. IsFiniteSet(Bytes(R, f))
  BY <1>5, <1>6 DEF Bytes
<1>8. BytesOf(R, f) = Cardinality(Bytes(R, f))
  BY DEF Bytes, BytesOf
<1>9. QED
  BY <1>7, <1>8, FS_CardinalityType

LEMMA BytesJoin ==
  ASSUME StreamAssumption, NEW R \in SUBSET Requests,
         NEW T \in SUBSET Requests, R \cap T = {},
         NEW f \in [Requests -> Nat]
  PROVE  BytesOf(R \cup T, f) = BytesOf(R, f) + BytesOf(T, f)
<1>1. Bytes(R \cup T, f) = Bytes(R, f) \cup Bytes(T, f)
  BY DEF Bytes
<1>2. Bytes(R, f) \cap Bytes(T, f) = {}
  BY DEF Bytes
<1>3. /\ IsFiniteSet(Bytes(R, f)) /\ IsFiniteSet(Bytes(T, f))
      /\ BytesOf(R, f) = Cardinality(Bytes(R, f))
      /\ BytesOf(T, f) = Cardinality(Bytes(T, f))
      /\ BytesOf(R, f) \in Nat /\ BytesOf(T, f) \in Nat
  BY BytesFinite
<1>4. BytesOf(R \cup T, f) = Cardinality(Bytes(R \cup T, f))
  BY DEF Bytes, BytesOf
<1>5. Cardinality({}) = 0
  BY FS_EmptySet
<1>6. Cardinality(Bytes(R, f) \cup Bytes(T, f))
        = Cardinality(Bytes(R, f)) + Cardinality(Bytes(T, f))
            - Cardinality(Bytes(R, f) \cap Bytes(T, f))
  BY <1>3, FS_Union
<1>7. BytesOf(R \cup T, f) = BytesOf(R, f) + BytesOf(T, f) - Cardinality({})
  BY <1>1, <1>2, <1>3, <1>4, <1>6
<1>8. QED
  <2>1. PICK a \in Nat : a = BytesOf(R, f)
    BY <1>3
  <2>2. PICK b \in Nat : b = BytesOf(T, f)
    BY <1>3
  <2>3. a + b - 0 = a + b
    OBVIOUS
  <2>4. QED
    BY <1>5, <1>7, <2>1, <2>2, <2>3

LEMMA BytesOfOne ==
  ASSUME NEW r \in Requests, NEW f \in [Requests -> Nat]
  PROVE  BytesOf({r}, f) = f[r]
<1>1. PICK m \in Nat : m = f[r]
  OBVIOUS
<1>2. PICK h : h = [i \in 1..m |-> <<r, i>>]
  OBVIOUS
<1>3. BytesOf({r}, f) = Cardinality({r} \X (1..m))
  <2>1. UNION {{x} \X (1..f[x]) : x \in {r}} = {r} \X (1..m)
    BY <1>1
  <2>2. QED
    BY <2>1 DEF BytesOf
<1>4. /\ IsFiniteSet({r}) /\ Cardinality({r}) = 1
      /\ IsFiniteSet(1..m) /\ Cardinality(1..m) = m
  <2>1. 1 \in Int /\ m \in Int /\ (IF 1 > m THEN 0 ELSE m - 1 + 1) = m
    OBVIOUS
  <2>2. IsFiniteSet(1..m) /\ Cardinality(1..m) = m
    BY <2>1, FS_Interval
  <2>3. QED
    BY <2>2, FS_Singleton
<1>5. Cardinality({r} \X (1..m)) = Cardinality({r}) * Cardinality(1..m)
  BY <1>4, FS_Product
<1>6. QED
  BY <1>1, <1>3, <1>4, <1>5

LEMMA BytesOfNone == ASSUME NEW f PROVE BytesOf({}, f) = 0
<1>1. UNION {{x} \X (1..f[x]) : x \in {}} = {}
  OBVIOUS
<1>2. QED
  BY <1>1, FS_EmptySet DEF BytesOf

LEMMA BytesSame ==
  ASSUME NEW R, NEW f, NEW g, \A r \in R : f[r] = g[r]
  PROVE  BytesOf(R, f) = BytesOf(R, g)
<1>1. {{r} \X (1..f[r]) : r \in R} = {{r} \X (1..g[r]) : r \in R}
  OBVIOUS
<1>2. QED
  BY <1>1 DEF BytesOf

(* A request more.                                                         *)
LEMMA BytesAdds ==
  ASSUME StreamAssumption, NEW R \in SUBSET Requests, NEW r \in Requests \ R,
         NEW f \in [Requests -> Nat]
  PROVE  BytesOf(R \cup {r}, f) = BytesOf(R, f) + f[r]
<1>1. R \cap {r} = {} /\ {r} \in SUBSET Requests
  OBVIOUS
<1>2. BytesOf(R \cup {r}, f) = BytesOf(R, f) + BytesOf({r}, f)
  BY <1>1, BytesJoin
<1>3. BytesOf({r}, f) = f[r]
  BY BytesOfOne
<1>4. QED
  BY <1>2, <1>3

-----------------------------------------------------------------------------
(* uv__write: whatever it writes, the requests keep their order, and the   *)
(* size counts what is left; what is left or done is announced.            *)

LEMMA WriteOutKeeps ==
  ASSUME StreamAssumption, NEW q \in Seq(Requests),
         NEW f \in [Requests -> Nat], NEW n,
         completed \in Seq(Requests), failed \in SUBSET Requests,
         fed \in BOOLEAN, pevents \in SUBSET {"IN", "OUT"},
         IsInjective(q), failed \cap ToSet(q) = {},
         n = BytesOf(ToSet(q) \cup failed, f),
         WriteOut(q, f, n)
  PROVE  /\ writeQ' \in Seq(Requests) /\ completed' \in Seq(Requests)
         /\ completed' \o writeQ' = completed \o q
         /\ left' \in [Requests -> Nat] /\ failed' \in SUBSET Requests
         /\ size' = BytesOf(ToSet(writeQ') \cup failed', left')
         /\ size' \in Nat
         /\ ToSet(writeQ') \subseteq ToSet(q)
         /\ failed' \subseteq failed \cup ToSet(completed')
         /\ ToSet(completed) \subseteq ToSet(completed')
         /\ fed' \in BOOLEAN /\ (fed => fed')
         /\ pevents' \in SUBSET {"IN", "OUT"}
         /\ "OUT" \in pevents => fed' \/ "OUT" \in pevents'
         /\ writeQ' # <<>> => fed' \/ "OUT" \in pevents'
         /\ completed' # <<>> => fed' \/ completed # <<>>
<1>1. PICK k \in 0..Len(q) :
        LET done == SubSeq(q, 1, k)
            rest == SubSeq(q, k + 1, Len(q))
            now == [r \in Requests |-> IF r \in ToSet(done) THEN 0 ELSE f[r]]
            m == n - BytesOf(ToSet(done), f)
        IN  /\ k <= WriteBurst + 1
            /\ \/ /\ rest = <<>> \/ k = WriteBurst + 1
                  /\ Finish(done, m)
                  /\ writeQ' = rest /\ left' = now
                  /\ UNCHANGED <<failed, pevents>>
               \/ /\ rest # <<>> /\ k <= WriteBurst
                  /\ \E p \in 0..f[Head(rest)] :
                       /\ p < f[Head(rest)] \/ p = 0
                       /\ Finish(done, m - p)
                       /\ left' = [now EXCEPT ![Head(rest)] = @ - p]
                  /\ writeQ' = rest
                  /\ pevents' = pevents \cup {"OUT"}
                  /\ UNCHANGED failed
               \/ /\ rest # <<>> /\ k <= WriteBurst
                  /\ Finish(Append(done, Head(rest)), m)
                  /\ failed' = failed \cup {Head(rest)}
                  /\ writeQ' = Tail(rest) /\ left' = now
                  /\ pevents' = pevents \ {"OUT"}
  BY DEF WriteOut
<1> DEFINE d == SubSeq(q, 1, k)
           s == SubSeq(q, k + 1, Len(q))
           now == [r \in Requests |-> IF r \in ToSet(d) THEN 0 ELSE f[r]]
           m == n - BytesOf(ToSet(d), f)
<1>2. \/ /\ s = <<>> \/ k = WriteBurst + 1
         /\ Finish(d, m)
         /\ writeQ' = s /\ left' = now
         /\ UNCHANGED <<failed, pevents>>
      \/ /\ s # <<>>
         /\ \E p \in 0..f[Head(s)] :
              /\ Finish(d, m - p)
              /\ left' = [now EXCEPT ![Head(s)] = @ - p]
         /\ writeQ' = s
         /\ pevents' = pevents \cup {"OUT"}
         /\ UNCHANGED failed
      \/ /\ s # <<>>
         /\ Finish(Append(d, Head(s)), m)
         /\ failed' = failed \cup {Head(s)}
         /\ writeQ' = Tail(s) /\ left' = now
         /\ pevents' = pevents \ {"OUT"}
  BY <1>1
<1>3. /\ d \in Seq(Requests) /\ s \in Seq(Requests) /\ q = d \o s
      /\ k = WriteBurst + 1 => d # <<>>
  <2>1. k = WriteBurst + 1 => k > 0
    BY DEF StreamAssumption
  <2>2. QED
    BY <2>1, QueueSplits
<1>4. now \in [Requests -> Nat] /\ \A r \in Requests : now[r] =
        IF r \in ToSet(d) THEN 0 ELSE f[r]
  OBVIOUS
<1> HIDE DEF d, s
<1>5. /\ ToSet(d) \subseteq Requests /\ ToSet(s) \subseteq Requests
      /\ ToSet(q) = ToSet(d) \cup ToSet(s)
      /\ IsInjective(d) /\ IsInjective(s) /\ ToSet(d) \cap ToSet(s) = {}
  BY <1>3, QueueProperties, QueuesJoin
<1> DEFINE R == ToSet(s) \cup failed
<1>6. /\ R \in SUBSET Requests /\ R \cap ToSet(d) = {}
      /\ ToSet(q) \cup failed = R \cup ToSet(d)
  BY <1>5
<1> HIDE DEF R, now
<1>7. m = BytesOf(R, now) /\ m \in Nat
  <2>1. n = BytesOf(R, f) + BytesOf(ToSet(d), f)
    <3>1. ToSet(d) \in SUBSET Requests
      BY <1>5
    <3>2. BytesOf(R \cup ToSet(d), f) = BytesOf(R, f) + BytesOf(ToSet(d), f)
      BY <1>6, <3>1, BytesJoin
    <3>3. QED
      BY <1>6, <3>2
  <2>2. BytesOf(R, f) \in Nat /\ BytesOf(ToSet(d), f) \in Nat
    BY <1>5, <1>6, BytesFinite
  <2>3. BytesOf(R, f) = BytesOf(R, now)
    BY <1>4, <1>6, BytesSame
  <2>4. PICK a \in Nat : a = BytesOf(R, f)
    BY <2>2
  <2>5. PICK b \in Nat : b = BytesOf(ToSet(d), f)
    BY <2>2
  <2>6. n = a + b /\ m = n - b
    BY <2>1, <2>4, <2>5
  <2>7. m = (a + b) - b
    BY <2>6
  <2>8. (a + b) - b = a
    OBVIOUS
  <2>9. QED
    BY <2>3, <2>4, <2>7, <2>8
<1> HIDE DEF m
<1>8. /\ (completed \o d) \o s = completed \o q
      /\ completed \o d \in Seq(Requests)
      /\ d = <<>> => completed \o d = completed
      /\ ToSet(completed) \subseteq ToSet(completed \o d)
  <2>2. /\ completed \in Seq(Requests) /\ d \in Seq(Requests)
        /\ s \in Seq(Requests) /\ q = d \o s
    BY <1>3
  <2>3. Joins(completed, d, s)
    BY <2>2, RequestsJoin
  <2>4. /\ (completed \o d) \o s = completed \o (d \o s)
        /\ completed \o d \in Seq(Requests)
        /\ d = <<>> => completed \o d = completed
        /\ ToSet(completed) \subseteq ToSet(completed \o d)
    BY <2>3 DEF Joins
  <2>5. completed \o (d \o s) = completed \o q
    BY <2>2
  <2>6. QED
    BY <2>4, <2>5
<1>9. CASE /\ s = <<>> \/ k = WriteBurst + 1
           /\ Finish(d, m)
           /\ writeQ' = s /\ left' = now
           /\ UNCHANGED <<failed, pevents>>
  <2>1. ToSet(writeQ') \cup failed' = R
    BY <1>9 DEF R
  <2>2. /\ completed' = completed \o d /\ size' = m
        /\ fed' = (fed \/ d # <<>>) /\ writeQ' = s
    BY <1>9 DEF Finish
  <2>3. QED
    BY <1>3, <1>4, <1>5, <1>7, <1>8, <1>9, <2>1, <2>2
<1>10. CASE /\ s # <<>>
            /\ \E p \in 0..f[Head(s)] :
                 /\ Finish(d, m - p)
                 /\ left' = [now EXCEPT ![Head(s)] = @ - p]
            /\ writeQ' = s
            /\ pevents' = pevents \cup {"OUT"}
            /\ UNCHANGED failed
  <2>1. PICK h \in Requests : h = Head(s) /\ h \in ToSet(s)
    <3>1. Head(s) \in Requests /\ ToSet(s) = {Head(s)} \cup ToSet(Tail(s))
      BY <1>3, <1>10, QueueTakes
    <3>2. QED
      BY <3>1
  <2>2. PICK p \in 0..f[h] : /\ Finish(d, m - p)
                             /\ left' = [now EXCEPT ![h] = @ - p]
    BY <1>10, <2>1
  <2>3. now[h] = f[h]
    BY <1>4, <1>5, <2>1
  <2>4. PICK a \in Nat : a = now[h]
    BY <1>4
  <2>5. p \in Nat /\ a - p \in Nat
    BY <2>3, <2>4
  <2>6. left' \in [Requests -> Nat] /\ left'[h] = a - p
        /\ \A r \in Requests \ {h} : left'[r] = now[r]
    BY <1>4, <2>2, <2>4, <2>5
  <2>7. PICK R0 : R0 = R \ {h}
    OBVIOUS
  <2>8. /\ R = R0 \cup {h} /\ h \notin R0 /\ R0 \in SUBSET Requests
    BY <1>6, <2>1, <2>7 DEF R
  <2>9. BytesOf(R, now) = BytesOf(R0, now) + now[h]
    BY <1>4, <2>1, <2>8, BytesAdds
  <2>10. BytesOf(R, left') = BytesOf(R0, left') + left'[h]
    BY <2>1, <2>6, <2>8, BytesAdds
  <2>11. BytesOf(R0, left') = BytesOf(R0, now)
    BY <2>6, <2>8, BytesSame
  <2>12. PICK b \in Nat : b = BytesOf(R0, now)
    BY <1>4, <2>8, BytesFinite
  <2>13. (b + a) - p = b + (a - p) /\ b + (a - p) \in Nat
    BY <2>5
  <2>14. m - p = BytesOf(R, left') /\ m - p \in Nat
    BY <1>7, <2>4, <2>6, <2>9, <2>10, <2>11, <2>12, <2>13
  <2>15. ToSet(writeQ') \cup failed' = R
    BY <1>10 DEF R
  <2>16. /\ completed' = completed \o d /\ size' = m - p
         /\ fed' = (fed \/ d # <<>>) /\ writeQ' = s
    BY <1>10, <2>2 DEF Finish
  <2>17. QED
    BY <1>3, <1>5, <1>8, <1>10, <2>6, <2>14, <2>15, <2>16
<1>11. CASE /\ s # <<>>
            /\ Finish(Append(d, Head(s)), m)
            /\ failed' = failed \cup {Head(s)}
            /\ writeQ' = Tail(s) /\ left' = now
            /\ pevents' = pevents \ {"OUT"}
  <2>1. PICK h \in Requests : h = Head(s)
    BY <1>3, <1>11, QueueTakes
  <2>2. ToSet(s) = {h} \cup ToSet(Tail(s)) /\ Tail(s) \in Seq(Requests)
    BY <1>3, <1>11, <2>1, QueueTakes
  <2>3. /\ completed \o Append(d, h) \in Seq(Requests)
        /\ (completed \o Append(d, h)) \o Tail(s) = completed \o q
        /\ h \in ToSet(completed \o Append(d, h))
        /\ ToSet(completed) \subseteq ToSet(completed \o Append(d, h))
        /\ Append(d, h) # <<>>
    <3>2. /\ completed \in Seq(Requests) /\ d \in Seq(Requests)
          /\ s \in Seq(Requests) /\ s # <<>> /\ q = d \o s
      BY <1>3, <1>11
    <3>3. Passes(completed, d, s)
      BY <3>2, RequestsPass
    <3>4. completed \o (d \o s) = completed \o q
      BY <3>2
    <3>5. QED
      BY <2>1, <3>3, <3>4 DEF Passes
  <2>4. /\ completed' = completed \o Append(d, h) /\ size' = m /\ fed' = TRUE
        /\ writeQ' = Tail(s) /\ failed' = failed \cup {h} /\ left' = now
    BY <1>11, <2>1, <2>3 DEF Finish
  <2>5. ToSet(writeQ') \cup failed' = R
    BY <2>2, <2>4 DEF R
  <2>6. failed' \subseteq failed \cup ToSet(completed')
    BY <2>3, <2>4
  <2>7. size' = BytesOf(ToSet(writeQ') \cup failed', left') /\ size' \in Nat
    BY <1>7, <2>4, <2>5
  <2>8. pevents' \in SUBSET {"IN", "OUT"}
    BY <1>11
  <2>9. QED
    BY <1>4, <1>5, <2>1, <2>2, <2>3, <2>4, <2>6, <2>7, <2>8
<1>12. QED
  BY <1>2, <1>9, <1>10, <1>11 DEF m, now

-----------------------------------------------------------------------------
(* The inductive invariant in two halves: what the queues hold, and where  *)
(* the loop is and what is announced.                                      *)

QueueTypes == /\ writeQ \in Seq(Requests) /\ completed \in Seq(Requests)
              /\ pq \in Seq(Requests)
              /\ IsInjective(Pending)
              /\ left \in [Requests -> Nat]
              /\ failed \in SUBSET Requests /\ size \in Nat
              /\ asked \in SUBSET Requests

PlaceTypes == /\ flags \in SUBSET Flags /\ shutReq \in BOOLEAN
              /\ pevents \in SUBSET {"IN", "OUT"} /\ fed \in BOOLEAN
              /\ pc \in {"idle", "read", "readCb", "hup", "out", "callbacks",
                         "next", "writeCb", "shutCb", "closeCb", "gone"}
              /\ events \in SUBSET {"IN", "OUT", "ERR", "HUP"}
              /\ count \in 0..ReadBurst
              /\ after \in {"read", "partial", "error", "hup", "out"}
              /\ wanted \in BOOLEAN

QueueHalf == QueueTypes /\ RequestInv /\ SizeInv
PlaceHalf == PlaceTypes /\ FlagInv /\ PlaceInv /\ WaitInv

LEMMA Halves == StreamInv <=> QueueHalf /\ PlaceHalf
BY DEF StreamInv, QueueHalf, PlaceHalf, TypeOK, QueueTypes, PlaceTypes

(* The queue half, in terms of the three queues.                           *)
LEMMA QueueFacts ==
  ASSUME QueueTypes
  PROVE  /\ Pending \in Seq(Requests) /\ Pending = pq \o (completed \o writeQ)
         /\ completed \o writeQ \in Seq(Requests)
         /\ ToSet(pq \o completed) = ToSet(pq) \cup ToSet(completed)
         /\ ToSet(Pending) = ToSet(pq) \cup ToSet(completed) \cup ToSet(writeQ)
         /\ IsInjective(pq) /\ IsInjective(completed) /\ IsInjective(writeQ)
         /\ ToSet(pq) \cap ToSet(completed) = {}
         /\ ToSet(pq) \cap ToSet(writeQ) = {}
         /\ ToSet(completed) \cap ToSet(writeQ) = {}
         /\ ToSet(writeQ) \subseteq Requests
<1>1. /\ writeQ \in Seq(Requests) /\ completed \in Seq(Requests)
      /\ pq \in Seq(Requests) /\ IsInjective(pq \o completed \o writeQ)
  BY DEF QueueTypes, Pending
<1>2. /\ pq \o completed \o writeQ \in Seq(Requests)
      /\ pq \o completed \o writeQ = pq \o (completed \o writeQ)
      /\ ToSet(pq \o completed) = ToSet(pq) \cup ToSet(completed)
      /\ ToSet(pq \o completed \o writeQ)
           = ToSet(pq) \cup ToSet(completed) \cup ToSet(writeQ)
      /\ IsInjective(pq) /\ IsInjective(completed) /\ IsInjective(writeQ)
      /\ ToSet(pq) \cap ToSet(completed) = {}
      /\ ToSet(pq) \cap ToSet(writeQ) = {}
      /\ ToSet(completed) \cap ToSet(writeQ) = {}
  BY <1>1, ThreeQueues
<1>3. completed \o writeQ \in Seq(Requests) /\ ToSet(writeQ) \subseteq Requests
  BY <1>1, QueuesJoin, QueueProperties
<1>4. QED
  BY <1>2, <1>3 DEF Pending

(* A step that leaves the queues alone.                                    *)
LEMMA QueuesAlone ==
  ASSUME QueueHalf, UNCHANGED queues,
         asked' \in SUBSET Requests, asked \subseteq asked'
  PROVE  QueueHalf' /\ Pending' = Pending
<1>1. Pending' = Pending
  BY DEF queues, Pending
<1>2. QueueTypes'
  BY <1>1 DEF QueueHalf, QueueTypes, queues
<1>3. RequestInv' /\ SizeInv'
  BY <1>1 DEF QueueHalf, RequestInv, SizeInv, queues
<1>4. QED
  BY <1>1, <1>2, <1>3 DEF QueueHalf

LEMMA TakeQueues ==
  ASSUME QueueHalf, PlaceInv, TakeCompleted, UNCHANGED asked
  PROVE  QueueHalf' /\ Pending' = Pending
<1>1. /\ pq = <<>> /\ pq' = completed /\ completed' = <<>>
      /\ UNCHANGED <<writeQ, left, failed, size, asked>>
  BY DEF TakeCompleted, PlaceInv
<1>2. QueueTypes
  BY DEF QueueHalf
<1>3. /\ completed \in Seq(Requests) /\ writeQ \in Seq(Requests)
      /\ <<>> \in Seq(Requests)
  BY <1>2, EmptySeq DEF QueueTypes
<1>4. <<>> \o completed = completed /\ completed \o <<>> = completed
  BY <1>3, ConcatEmptySeq
<1>5. Pending' = Pending
  BY <1>1, <1>4 DEF Pending
<1>6. (pq \o completed)' = pq \o completed
  BY <1>1, <1>4
<1>7. QueueTypes'
  BY <1>1, <1>2, <1>3, <1>5 DEF QueueTypes
<1>8. RequestInv' /\ SizeInv'
  BY <1>1, <1>5, <1>6 DEF QueueHalf, RequestInv, SizeInv
<1>9. QED
  BY <1>5, <1>7, <1>8 DEF QueueHalf

LEMMA DestroyQueues ==
  ASSUME QueueHalf, Destroy, UNCHANGED asked
  PROVE  QueueHalf' /\ Pending' = Pending
<1>1. QueueTypes
  BY DEF QueueHalf
<1>2. /\ completed' = completed \o writeQ /\ writeQ' = <<>>
      /\ failed' = failed \cup ToSet(writeQ)
      /\ UNCHANGED <<pq, left, size, asked>>
  <2>1. {r \in Requests : Contains(writeQ, r)} = ToSet(writeQ)
    <3>1. writeQ \in Seq(Requests)
      BY <1>1 DEF QueueTypes
    <3>2. QED
      BY <3>1, QueueProperties
  <2>2. QED
    BY <2>1 DEF Destroy
<1>3. Pending' = Pending
  <2>1. pq \o (completed \o writeQ) \in Seq(Requests)
    BY <1>1, QueueFacts
  <2>2. (pq \o (completed \o writeQ)) \o <<>> = pq \o (completed \o writeQ)
    BY <2>1, ConcatEmptySeq
  <2>3. QED
    BY <1>1, <1>2, <2>2, QueueFacts DEF Pending
<1>4. /\ ToSet(<<>>) = {} /\ <<>> \in Seq(Requests)
  BY EmptySeq, QueueProperties
<1>5. QueueTypes'
  BY <1>1, <1>2, <1>3, <1>4, QueueFacts DEF QueueTypes
<1>6. RequestInv'
  <2>1. (pq \o completed)' = Pending
    BY <1>1, <1>2, QueueFacts
  <2>2. failed \subseteq ToSet(pq \o completed) /\ ToSet(Pending) \subseteq asked
    BY DEF QueueHalf, RequestInv
  <2>3. failed' \subseteq ToSet(Pending)
    BY <1>1, <1>2, <2>2, QueueFacts
  <2>4. QED
    BY <1>2, <1>3, <2>1, <2>2, <2>3 DEF RequestInv
<1>7. SizeInv'
  <2>1. ToSet(writeQ') \cup failed' = ToSet(writeQ) \cup failed
    BY <1>2, <1>4
  <2>2. QED
    BY <1>2, <2>1 DEF QueueHalf, SizeInv
<1>8. QED
  BY <1>3, <1>5, <1>6, <1>7 DEF QueueHalf

LEMMA CallBackQueues ==
  ASSUME StreamAssumption, QueueHalf, CallBack, UNCHANGED asked
  PROVE  QueueHalf' /\ Pending # <<>> /\ Pending' = Tail(Pending)
<1>1. QueueTypes /\ RequestInv /\ SizeInv
  BY DEF QueueHalf
<1>2. PICK r \in Requests : r = Head(pq)
  BY <1>1, QueueTakes DEF QueueTypes, CallBack
<1>3. PICK t \in Seq(Requests) : /\ t = Tail(pq) /\ pq = <<r>> \o t
                                 /\ ToSet(pq) = {r} \cup ToSet(t)
  BY <1>1, <1>2, QueueTakes DEF QueueTypes, CallBack
<1>4. /\ pq' = t /\ UNCHANGED <<writeQ, completed, asked>>
      /\ IF r \in failed THEN /\ size' = size - left[r]
                              /\ failed' = failed \ {r}
                              /\ left' = [left EXCEPT ![r] = 0]
                         ELSE UNCHANGED <<size, failed, left>>
  BY <1>2, <1>3 DEF CallBack
<1>5. PICK s \in Seq(Requests) : s = completed \o writeQ
  BY <1>1, QueueFacts
<1>6. Pending' = t \o s /\ t \o s \in Seq(Requests)
  <2>1. \A x, y, z \in Seq(Requests) :
          (x \o y) \o z = x \o (y \o z) /\ x \o y \in Seq(Requests)
    BY QueuesRegroup
  <2>2. completed \in Seq(Requests) /\ writeQ \in Seq(Requests)
    BY <1>1 DEF QueueTypes
  <2>3. t \o completed \o writeQ = t \o s /\ t \o s \in Seq(Requests)
    BY <1>5, <2>1, <2>2
  <2>4. QED
    BY <1>4, <2>3 DEF Pending
<1>7. Pending = <<r>> \o (t \o s)
  <2>1. Pending = (<<r>> \o t) \o s
    BY <1>1, <1>3, <1>5, QueueFacts
  <2>2. PICK u \in Seq(Requests) : u = <<r>>
    BY QueueOfOne
  <2>3. (u \o t) \o s = u \o (t \o s)
    BY QueuesRegroup
  <2>4. QED
    BY <2>1, <2>2, <2>3
<1>8. Pending # <<>> /\ Pending' = Tail(Pending)
  BY <1>6, <1>7, QueueShifts
<1>9. /\ IsInjective(Pending') /\ ToSet(Pending') \subseteq ToSet(Pending)
  <2>1. Pending \in Seq(Requests) /\ IsInjective(Pending)
    BY <1>1, QueueFacts DEF QueueTypes
  <2>2. QED
    BY <1>8, <2>1, QueueTakes
<1>10. RequestInv'
  <2>1. ToSet(t \o completed) = ToSet(t) \cup ToSet(completed)
    BY <1>1, QueuesJoin DEF QueueTypes
  <2>2. failed \subseteq {r} \cup ToSet(t) \cup ToSet(completed)
    BY <1>1, <1>3, QueueFacts DEF RequestInv
  <2>3. failed' \subseteq ToSet(t \o completed)
    BY <1>4, <2>1, <2>2
  <2>4. QED
    BY <1>1, <1>4, <1>9, <2>3 DEF RequestInv
<1>11. /\ left' \in [Requests -> Nat] /\ failed' \in SUBSET Requests
       /\ size' \in Nat /\ SizeInv'
  <2>1. CASE r \notin failed
    BY <1>1, <1>4, <2>1 DEF QueueTypes, SizeInv
  <2>2. CASE r \in failed
    <3>1. /\ left' \in [Requests -> Nat] /\ failed' \in SUBSET Requests
          /\ \A x \in Requests \ {r} : left'[x] = left[x]
      <4>1. left \in [Requests -> Nat] /\ failed \in SUBSET Requests
        BY <1>1 DEF QueueTypes
      <4>2. left' = [left EXCEPT ![r] = 0] /\ failed' = failed \ {r}
        BY <1>4, <2>2
      <4>3. QED
        BY <4>1, <4>2
    <3>2. PICK R : R = ToSet(writeQ) \cup failed'
      OBVIOUS
    <3>3. r \notin ToSet(writeQ)
      BY <1>1, <1>3, QueueFacts
    <3>4. R \in SUBSET Requests /\ r \notin R
      BY <1>1, <1>4, <2>2, <3>1, <3>2, <3>3, QueueFacts
    <3>5. ToSet(writeQ) \cup failed = R \cup {r}
      BY <1>4, <2>2, <3>2
    <3>6. PICK f \in [Requests -> Nat] : f = left
      BY <1>1 DEF QueueTypes
    <3>7. BytesOf(R \cup {r}, f) = BytesOf(R, f) + f[r]
      BY <3>4, BytesAdds
    <3>8. BytesOf(R, left') = BytesOf(R, f)
      BY <3>1, <3>4, <3>6, BytesSame
    <3>9. PICK a \in Nat : a = BytesOf(R, f)
      BY <3>4, BytesFinite
    <3>10. PICK b \in Nat : b = f[r]
      OBVIOUS
    <3>11. size = a + b
      BY <1>1, <3>5, <3>6, <3>7, <3>9, <3>10 DEF SizeInv
    <3>12. size' = (a + b) - b
      BY <1>4, <2>2, <3>6, <3>10, <3>11
    <3>13. (a + b) - b = a
      OBVIOUS
    <3>14. size' \in Nat /\ SizeInv'
      BY <1>4, <3>2, <3>8, <3>9, <3>12, <3>13 DEF SizeInv
    <3>15. QED
      BY <3>1, <3>14
  <2>3. QED
    BY <2>1, <2>2
<1>12. QueueTypes'
  BY <1>1, <1>4, <1>9, <1>11 DEF QueueTypes
<1>13. QED
  BY <1>8, <1>10, <1>11, <1>12 DEF QueueHalf

(* uv__write from the loop, or from uv_write with a request r in n bytes.  *)
LEMMA WriteOutQueues ==
  ASSUME StreamAssumption, QueueHalf, PlaceTypes,
         NEW q \in Seq(Requests), NEW f \in [Requests -> Nat], NEW n,
         IsInjective(q), failed \cap ToSet(q) = {},
         n = BytesOf(ToSet(q) \cup failed, f),
         WriteOut(q, f, n), pq' = pq,
         IsInjective(pq \o (completed \o q)),
         asked' \in SUBSET Requests, ToSet(pq \o (completed \o q)) \subseteq asked'
  PROVE  /\ QueueHalf' /\ Pending' = pq \o (completed \o q)
         /\ ToSet(writeQ') \subseteq ToSet(q)
         /\ fed' \in BOOLEAN /\ (fed => fed')
         /\ pevents' \in SUBSET {"IN", "OUT"}
         /\ "OUT" \in pevents => fed' \/ "OUT" \in pevents'
         /\ writeQ' # <<>> => fed' \/ "OUT" \in pevents'
         /\ completed' # <<>> => fed' \/ completed # <<>>
<1>1. QueueTypes /\ RequestInv
  BY DEF QueueHalf
<1>2. /\ pq \in Seq(Requests)
      /\ completed \in Seq(Requests) /\ failed \in SUBSET Requests
      /\ fed \in BOOLEAN /\ pevents \in SUBSET {"IN", "OUT"}
  BY <1>1 DEF QueueTypes, PlaceTypes
<1>3. /\ writeQ' \in Seq(Requests) /\ completed' \in Seq(Requests)
      /\ completed' \o writeQ' = completed \o q
      /\ left' \in [Requests -> Nat] /\ failed' \in SUBSET Requests
      /\ size' = BytesOf(ToSet(writeQ') \cup failed', left')
      /\ size' \in Nat
      /\ ToSet(writeQ') \subseteq ToSet(q)
      /\ failed' \subseteq failed \cup ToSet(completed')
      /\ ToSet(completed) \subseteq ToSet(completed')
      /\ fed' \in BOOLEAN /\ (fed => fed')
      /\ pevents' \in SUBSET {"IN", "OUT"}
      /\ "OUT" \in pevents => fed' \/ "OUT" \in pevents'
      /\ writeQ' # <<>> => fed' \/ "OUT" \in pevents'
      /\ completed' # <<>> => fed' \/ completed # <<>>
  BY <1>2, WriteOutKeeps
<1>4. PICK c \in Seq(Requests), w \in Seq(Requests) :
        c = completed' /\ w = writeQ'
  BY <1>3
<1>5. /\ pq \o c \o w = pq \o (c \o w)
      /\ ToSet(pq \o c) = ToSet(pq) \cup ToSet(c)
  <2>1. pq \in Seq(Requests)
    BY <1>2
  <2>2. /\ pq \o c \o w = pq \o (c \o w)
        /\ ToSet(pq \o c) = ToSet(pq) \cup ToSet(c)
    BY <2>1, ThreeQueues
  <2>3. QED
    BY <2>2
<1>6. Pending' = pq \o (completed \o q)
  BY <1>3, <1>4, <1>5 DEF Pending
<1>7. QueueTypes'
  BY <1>2, <1>3, <1>6 DEF QueueTypes
<1>8. RequestInv'
  <2>1. failed \subseteq ToSet(pq) \cup ToSet(completed)
    BY <1>1, QueueFacts DEF RequestInv
  <2>2. (pq \o completed)' = pq \o c
    BY <1>4
  <2>3. failed' \subseteq ToSet(pq \o c)
    BY <1>3, <1>4, <1>5, <2>1
  <2>4. QED
    BY <1>6, <2>2, <2>3 DEF RequestInv
<1>9. QED
  BY <1>3, <1>6, <1>7, <1>8 DEF QueueHalf, SizeInv

LEMMA OutWritesQueues ==
  ASSUME StreamAssumption, QueueHalf, PlaceTypes, WriteOut(writeQ, left, size),
         UNCHANGED <<pq, asked>>
  PROVE  /\ QueueHalf' /\ Pending' = Pending
         /\ (writeQ = <<>> => writeQ' = <<>>)
         /\ fed' \in BOOLEAN /\ (fed => fed')
         /\ pevents' \in SUBSET {"IN", "OUT"}
         /\ "OUT" \in pevents => fed' \/ "OUT" \in pevents'
         /\ writeQ' # <<>> => fed' \/ "OUT" \in pevents'
         /\ completed' # <<>> => fed' \/ completed # <<>>
<1>1. QueueTypes /\ RequestInv /\ SizeInv
  BY DEF QueueHalf
<1>2. PICK q \in Seq(Requests), f \in [Requests -> Nat], n \in Nat :
        q = writeQ /\ f = left /\ n = size
  BY <1>1 DEF QueueTypes
<1>3. IsInjective(q) /\ failed \cap ToSet(q) = {}
  BY <1>1, <1>2, QueueFacts DEF RequestInv
<1>4. n = BytesOf(ToSet(q) \cup failed, f) /\ WriteOut(q, f, n)
  BY <1>1, <1>2 DEF SizeInv
<1>5. /\ Pending = pq \o (completed \o q) /\ IsInjective(Pending)
      /\ ToSet(Pending) \subseteq asked' /\ asked' \in SUBSET Requests
  BY <1>1, <1>2, QueueFacts DEF QueueTypes, RequestInv
<1>6. ToSet(writeQ') \subseteq ToSet(q) /\ QueueHalf'
  BY <1>3, <1>4, <1>5, WriteOutQueues
<1>7. writeQ = <<>> => writeQ' = <<>>
  <2>1. writeQ' \in Seq(Requests)
    BY <1>6 DEF QueueHalf, QueueTypes
  <2>2. QED
    <3>1. \A x \in Seq(Requests) : ToSet(x) = {} <=> x = <<>>
      BY QueueProperties
    <3>2. QED
      BY <1>2, <1>6, <2>1, <3>1
<1>8. QED
  BY <1>3, <1>4, <1>5, <1>7, WriteOutQueues
(* What uv_write adds comes last, and adds its bytes.                      *)
LEMMA WriteAdds ==
  ASSUME StreamAssumption, QueueHalf, NEW r \in Requests \ asked, NEW n \in Nat
  PROVE  LET q == Append(writeQ, r)
             f == [left EXCEPT ![r] = n]
         IN  /\ q \in Seq(Requests) /\ IsInjective(q)
             /\ f \in [Requests -> Nat]
             /\ pq \o (completed \o q) = Append(Pending, r)
             /\ IsInjective(Append(Pending, r))
             /\ ToSet(Append(Pending, r)) \subseteq asked \cup {r}
             /\ failed \cap ToSet(q) = {}
             /\ ToSet(q) = ToSet(writeQ) \cup {r}
             /\ BytesOf(ToSet(q) \cup failed, f) = size + n
<1> DEFINE q == Append(writeQ, r)
           f == [left EXCEPT ![r] = n]
<1>1. QueueTypes /\ RequestInv /\ SizeInv
  BY DEF QueueHalf
<1>2. pq \in Seq(Requests) /\ completed \in Seq(Requests)
      /\ writeQ \in Seq(Requests) /\ Pending \in Seq(Requests)
  BY <1>1, QueueFacts DEF QueueTypes
<1>20. \A x \in Seq(Requests) :
         /\ Append(x, r) \in Seq(Requests) /\ Append(x, r) = x \o <<r>>
         /\ ToSet(Append(x, r)) = ToSet(x) \cup {r}
         /\ IsInjective(Append(x, r)) <=> IsInjective(x) /\ r \notin ToSet(x)
  BY QueueAdds
<1>3. /\ ToSet(Pending) \subseteq asked /\ failed \subseteq ToSet(pq) \cup ToSet(completed)
      /\ r \notin ToSet(Pending) /\ ToSet(writeQ) \subseteq ToSet(Pending)
      /\ r \notin failed /\ failed \cap ToSet(writeQ) = {}
  BY <1>1, QueueFacts DEF RequestInv
<1>4. q \in Seq(Requests) /\ ToSet(q) = ToSet(writeQ) \cup {r} /\ IsInjective(q)
  <2>1. r \notin ToSet(writeQ) /\ IsInjective(writeQ)
    BY <1>1, <1>3, QueueFacts
  <2>2. QED
    BY <1>2, <1>20, <2>1
<1>5. pq \o (completed \o q) = Append(Pending, r)
  <2>1. \A a, b, c, d \in Seq(Requests) :
          a \o (b \o (c \o d)) = (a \o (b \o c)) \o d
    BY LastOfFour
  <2>2. <<r>> \in Seq(Requests)
    BY QueueOfOne
  <2>3. pq \o (completed \o (writeQ \o <<r>>))
          = (pq \o (completed \o writeQ)) \o <<r>>
    BY <1>2, <2>1, <2>2
  <2>4. Append(writeQ, r) = writeQ \o <<r>> /\ Append(Pending, r) = Pending \o <<r>>
    BY <1>2, <1>20
  <2>5. Pending = pq \o (completed \o writeQ)
    BY <1>1, QueueFacts
  <2>6. QED
    BY <2>3, <2>4, <2>5
<1>6. /\ IsInjective(Append(Pending, r))
      /\ ToSet(Append(Pending, r)) \subseteq asked \cup {r}
  <2>1. Pending \in Seq(Requests) /\ IsInjective(Pending)
    BY <1>1, QueueFacts DEF QueueTypes
  <2>2. QED
    BY <1>3, <1>20, <2>1
<1>7. f \in [Requests -> Nat] /\ f[r] = n /\ \A x \in Requests \ {r} : f[x] = left[x]
  BY <1>1 DEF QueueTypes
<1>8. failed \cap ToSet(q) = {}
  BY <1>3, <1>4
<1> HIDE DEF q, f
<1>9. BytesOf(ToSet(q) \cup failed, f) = size + n
  <2>1. PICK R : R = ToSet(writeQ) \cup failed
    OBVIOUS
  <2>2. R \in SUBSET Requests /\ r \notin R /\ ToSet(q) \cup failed = R \cup {r}
    <3>1. failed \in SUBSET Requests /\ ToSet(writeQ) \subseteq Requests
      BY <1>1, QueueFacts DEF QueueTypes
    <3>2. QED
      BY <1>3, <1>4, <2>1, <3>1
  <2>3. BytesOf(R \cup {r}, f) = BytesOf(R, f) + f[r]
    BY <1>7, <2>2, BytesAdds
  <2>4. BytesOf(R, f) = BytesOf(R, left)
    BY <1>7, <2>2, BytesSame
  <2>5. QED
    BY <1>1, <1>7, <2>1, <2>2, <2>3, <2>4 DEF SizeInv
<1>10. QED
  BY <1>4, <1>5, <1>6, <1>7, <1>8, <1>9 DEF q, f

LEMMA WriteQueues ==
  ASSUME StreamAssumption, QueueHalf, PlaceTypes,
         NEW r \in Requests \ asked, NEW n \in Nat,
         WriteNow(r, n) \/ WriteLater(r, n), asked' = asked \cup {r}
  PROVE  /\ QueueHalf' /\ Pending' = Append(Pending, r)
         /\ fed' \in BOOLEAN /\ (fed => fed')
         /\ pevents' \in SUBSET {"IN", "OUT"}
         /\ "OUT" \in pevents => fed' \/ "OUT" \in pevents'
         /\ writeQ' # <<>> => fed' \/ "OUT" \in pevents'
         /\ completed' # <<>> => fed' \/ completed # <<>>
<1>1. PICK q \in Seq(Requests), f \in [Requests -> Nat] :
             /\ q = Append(writeQ, r) /\ f = [left EXCEPT ![r] = n]
             /\ IsInjective(q)
             /\ pq \o (completed \o q) = Append(Pending, r)
             /\ IsInjective(Append(Pending, r))
             /\ ToSet(Append(Pending, r)) \subseteq asked \cup {r}
             /\ failed \cap ToSet(q) = {}
             /\ ToSet(q) = ToSet(writeQ) \cup {r}
             /\ BytesOf(ToSet(q) \cup failed, f) = size + n
  BY WriteAdds
<1>2. QueueTypes /\ RequestInv /\ asked' \in SUBSET Requests
  BY DEF QueueHalf, QueueTypes
<1>3. CASE WriteNow(r, n)
  <2>1. WriteOut(q, f, n) /\ pq' = pq /\ size = 0
    BY <1>1, <1>3 DEF WriteNow
  <2>2. n = BytesOf(ToSet(q) \cup failed, f)
    BY <1>1, <2>1
  <2>3. /\ IsInjective(pq \o (completed \o q))
        /\ ToSet(pq \o (completed \o q)) \subseteq asked'
    BY <1>1
  <2>4. QED
    BY <1>1, <1>2, <2>1, <2>2, <2>3, WriteOutQueues
<1>4. CASE WriteLater(r, n)
  <2>1. /\ writeQ' = q /\ left' = f /\ size' = size + n
        /\ pevents' = pevents \cup {"OUT"}
        /\ UNCHANGED <<completed, pq, failed, fed>>
    BY <1>1, <1>4 DEF WriteLater
  <2>2. pq \in Seq(Requests) /\ completed \in Seq(Requests)
    BY <1>2 DEF QueueTypes
  <2>3. pq \o completed \o q = pq \o (completed \o q)
    BY <2>2, ThreeQueues
  <2>4. Pending' = Append(Pending, r)
    BY <1>1, <2>1, <2>3 DEF Pending
  <2>5. size' \in Nat
    BY <1>2, <2>1 DEF QueueTypes
  <2>6. QueueTypes'
    BY <1>1, <1>2, <2>1, <2>2, <2>4, <2>5 DEF QueueTypes
  <2>7. RequestInv' /\ SizeInv'
    BY <1>1, <1>2, <2>1, <2>4 DEF RequestInv, SizeInv
  <2>8. QED
    BY <2>1, <2>4, <2>6, <2>7 DEF QueueHalf, PlaceTypes
<1>5. QED
  BY <1>3, <1>4

-----------------------------------------------------------------------------
(* Steps that leave the queues alone keep the place half too.              *)

LEMMA UserPlaces ==
  ASSUME PlaceHalf, UserCode, UNCHANGED <<queues, place>>,
         \/ Shutdown \/ ReadStart \/ ReadStop \/ Close
         \/ UNCHANGED <<flags, shutReq, watcher, wanted>>
  PROVE  PlaceHalf'
<1> USE DEF PlaceHalf, queues, place, watcher, Has, UserCode
<1>1. PlaceTypes'
  BY DEF PlaceTypes, Flags, Shutdown, Shutting, ReadStart, ReadStop, Close
<1>2. FlagInv'
  BY DEF FlagInv, ClosingIsQuiet, ShutAfterWrites, Shutdown, Shutting,
         ReadStart, ReadStop, Close
<1>3. PlaceInv'
  BY DEF PlaceInv, LastPlaces, Shutdown, ReadStart, ReadStop, Close
<1>4. WaitInv'
  BY DEF WaitInv, Announced, Shutdown, ReadStart, ReadStop, Close
<1>5. QED
  BY <1>1, <1>2, <1>3, <1>4

LEMMA ReadingPlaces ==
  ASSUME StreamAssumption, PlaceHalf, Reading \/ RunPending \/ PollEvent
  PROVE  PlaceHalf' /\ UNCHANGED queues
<1> USE DEF queues, watcher, Has, Go, CallRead, Eof
<1>1. PlaceTypes /\ FlagInv /\ PlaceInv /\ WaitInv
  BY DEF PlaceHalf
<1>0. count > 0 => count - 1 \in 0..ReadBurst
  BY <1>1 DEF PlaceTypes, StreamAssumption
<1>2. CASE ReadData
  <2>1. PlaceTypes'
    BY <1>0, <1>1, <1>2 DEF ReadData, PlaceTypes
  <2>2. FlagInv'
    BY <1>1, <1>2 DEF ReadData, PlaceTypes, FlagInv, ClosingIsQuiet, ShutAfterWrites
  <2>3. PlaceInv' /\ WaitInv'
    BY <1>1, <1>2 DEF ReadData, PlaceInv, LastPlaces, WaitInv, Announced
  <2>4. QED
    BY <1>2, <2>1, <2>2, <2>3 DEF ReadData, PlaceHalf
<1>3. CASE ReadAgain
  BY <1>1, <1>3 DEF ReadAgain, PlaceHalf, PlaceTypes, FlagInv, ClosingIsQuiet,
     ShutAfterWrites, PlaceInv, LastPlaces, WaitInv, Announced
<1>4. CASE ReadError
  <2>1. PlaceTypes'
    BY <1>0, <1>1, <1>4 DEF ReadError, PlaceTypes
  <2>2. FlagInv'
    BY <1>1, <1>4 DEF ReadError, PlaceTypes, FlagInv, ClosingIsQuiet, ShutAfterWrites
  <2>3. PlaceInv' /\ WaitInv'
    BY <1>1, <1>4 DEF ReadError, PlaceInv, LastPlaces, WaitInv, Announced
  <2>4. QED
    BY <1>4, <2>1, <2>2, <2>3 DEF ReadError, PlaceHalf
<1>5. CASE ReadEof
  <2>1. PlaceTypes'
    BY <1>0, <1>1, <1>5 DEF ReadEof, PlaceTypes, Flags
  <2>2. FlagInv'
    BY <1>1, <1>5 DEF ReadEof, PlaceTypes, FlagInv, ClosingIsQuiet, ShutAfterWrites
  <2>3. PlaceInv' /\ WaitInv'
    BY <1>1, <1>5 DEF ReadEof, PlaceInv, LastPlaces, WaitInv, Announced
  <2>4. QED
    BY <1>5, <2>1, <2>2, <2>3 DEF ReadEof, PlaceHalf
<1>6. CASE ReadEnds
  BY <1>1, <1>6 DEF ReadEnds, PlaceHalf, PlaceTypes, FlagInv, ClosingIsQuiet,
     ShutAfterWrites, PlaceInv, LastPlaces, WaitInv, Announced
<1>7. CASE ReadReturns
  BY <1>1, <1>7 DEF ReadReturns, PlaceHalf, PlaceTypes, Flags, FlagInv,
     ClosingIsQuiet, ShutAfterWrites, PlaceInv, LastPlaces, WaitInv, Announced
<1>8. CASE HangUp
  BY <1>1, <1>8 DEF HangUp, HupIsEnd, PlaceHalf, PlaceTypes, Flags, FlagInv,
     ClosingIsQuiet, ShutAfterWrites, PlaceInv, LastPlaces, WaitInv, Announced
<1>9. CASE NoHangUp
  BY <1>1, <1>9 DEF NoHangUp, PlaceHalf, PlaceTypes, FlagInv, ClosingIsQuiet,
     ShutAfterWrites, PlaceInv, LastPlaces, WaitInv, Announced
<1>10. CASE RunPending
  BY <1>1, <1>10 DEF RunPending, PlaceHalf, PlaceTypes, FlagInv,
     ClosingIsQuiet, ShutAfterWrites, PlaceInv, LastPlaces, WaitInv, Announced
<1>11. CASE PollEvent
  <2>1. ReadBurst \in 0..ReadBurst
    BY DEF StreamAssumption
  <2>2. events' \in SUBSET {"IN", "OUT", "ERR", "HUP"}
    BY <1>1, <1>11 DEF PollEvent, Reported, PlaceTypes
  <2>3. /\ UNCHANGED <<queues, shutReq, watcher, after, wanted>>
        /\ pc = "idle" /\ pevents # {} /\ count' = ReadBurst
        /\ \/ pc' = "read" /\ flags' = flags \ {"partial"}
           \/ pc' = "out" /\ flags' = flags
    BY <1>11 DEF PollEvent
  <2>4. QED
    BY <1>1, <2>1, <2>2, <2>3 DEF PlaceHalf, PlaceTypes, FlagInv,
       ClosingIsQuiet, ShutAfterWrites, PlaceInv, LastPlaces, WaitInv, Announced
<1>12. QED
  BY <1>2, <1>3, <1>4, <1>5, <1>6, <1>7, <1>8, <1>9, <1>10, <1>11 DEF Reading

Quiet == NoOut \/ WriteReturns \/ NotDrained \/ Drain \/ DrainShuts
         \/ ShutReturns \/ CloseReturns

LEMMA WritingPlaces ==
  ASSUME PlaceHalf, Quiet
  PROVE  PlaceHalf' /\ UNCHANGED queues
<1> USE DEF PlaceHalf, queues, watcher, Has, Go, Quiet, NoOut, WriteReturns,
            NotDrained, Drain, DrainShuts, ShutReturns, CloseReturns,
            Finished, Unwatch, OutEvent
<1>1. PlaceTypes'
  BY DEF PlaceTypes, Flags
<1>2. FlagInv'
  <2>1. ASSUME flags' = flags, wanted' = wanted, fed' = fed,
               shutReq' => shutReq, pevents' \subseteq pevents,
               writeQ' = writeQ, pc # "readCb"
        PROVE  FlagInv'
    BY <2>1 DEF FlagInv, ClosingIsQuiet, ShutAfterWrites
  <2>2. CASE DrainShuts /\ flags' = flags \cup {"shut"}
    BY <2>2 DEF FlagInv, ClosingIsQuiet, ShutAfterWrites
  <2>3. CASE ~(DrainShuts /\ flags' = flags \cup {"shut"})
    BY <2>1, <2>3
  <2>4. QED
    BY <2>2, <2>3
<1>3. PlaceInv'
  BY DEF PlaceInv, LastPlaces
<1>4. WaitInv'
  BY DEF WaitInv, Announced, PlaceTypes, PlaceInv, FlagInv
<1>5. UNCHANGED queues
  OBVIOUS
<1>6. QED
  BY <1>1, <1>2, <1>3, <1>4, <1>5

(* The steps that move requests.                                           *)
LEMMA QueuePlaces ==
  ASSUME PlaceHalf, fed' \in BOOLEAN, fed => fed',
         pevents' \in SUBSET {"IN", "OUT"},
         "OUT" \in pevents => fed' \/ "OUT" \in pevents',
         writeQ' # <<>> => fed' \/ "OUT" \in pevents',
         completed' # <<>> => fed' \/ completed # <<>>,
         UNCHANGED <<flags, shutReq, pq, wanted, events, count, after>>,
         ~Has("closing"),
         \/ UserCode /\ pc' = pc /\ Has("writable")
         \/ pc = "out" /\ pc' = "callbacks" /\ (Has("shut") => writeQ' = <<>>)
  PROVE  PlaceHalf'
<1> USE DEF PlaceHalf, Has, UserCode
<1>1. PlaceTypes'
  BY DEF PlaceTypes
<1>2. FlagInv'
  BY DEF FlagInv, ClosingIsQuiet, ShutAfterWrites
<1>3. PlaceInv'
  BY DEF PlaceInv, LastPlaces, FlagInv
<1>4. WaitInv'
  BY DEF WaitInv, Announced
<1>5. QED
  BY <1>1, <1>2, <1>3, <1>4

LEMMA LastPlacesKept ==
  ASSUME PlaceHalf, TakeCompleted \/ CallBack \/ Destroy
  PROVE  PlaceHalf'
<1> USE DEF PlaceHalf, Has, Go, watcher
<1>1. PlaceTypes'
  BY DEF PlaceTypes, TakeCompleted, CallBack, Destroy, Flags
<1>2. FlagInv'
  BY DEF FlagInv, ClosingIsQuiet, ShutAfterWrites, TakeCompleted, CallBack,
         Destroy
<1>3. PlaceInv'
  BY DEF PlaceInv, LastPlaces, TakeCompleted, CallBack, Destroy
<1>4. WaitInv'
  BY DEF WaitInv, Announced, TakeCompleted, CallBack, Destroy
<1>5. QED
  BY <1>1, <1>2, <1>3, <1>4

-----------------------------------------------------------------------------
(* The invariant, step by step, and what each step does to the requests    *)
(* whose callbacks are owed.                                               *)

Accepted == \E r \in Requests : /\ Pending' = Append(Pending, r)
                                /\ ~Has("closing") /\ UNCHANGED <<flags, pc>>
Answered == /\ Pending # <<>> /\ Pending' = Tail(Pending)
            /\ pc = "next" /\ pc' = "writeCb" /\ UNCHANGED flags
Moves == Pending' = Pending \/ Accepted \/ Answered

LEMMA StreamInit == ASSUME StreamAssumption, Init PROVE StreamInv
<1>1. <<>> \in Seq(Requests) /\ ToSet(<<>>) = {}
  BY EmptySeq, QueueProperties
<1>2. Pending = <<>>
  <2>1. <<>> \o <<>> = <<>>
    BY <1>1, ConcatEmptySeq
  <2>2. QED
    BY <2>1 DEF Init, Pending
<1>3. IsInjective(<<>>)
  <2>1. DOMAIN <<>> = {}
    BY <1>1, QueueProperties, EmptySeq
  <2>2. QED
    BY <2>1 DEF IsInjective
<1>4. QueueTypes
  BY <1>1, <1>2, <1>3 DEF Init, QueueTypes
<1>5. RequestInv
  <2>1. failed = {} /\ asked = {}
    BY DEF Init
  <2>2. QED
    BY <1>1, <1>2, <2>1 DEF RequestInv
<1>6. SizeInv
  <2>1. size = 0 /\ ToSet(writeQ) \cup failed = {}
    BY <1>1 DEF Init
  <2>2. QED
    BY <2>1, BytesOfNone DEF SizeInv
<1>7. PlaceHalf
  <2>1. PlaceTypes
    <3>1. {"readable", "writable"} \in SUBSET Flags
      BY DEF Flags
    <3>2. /\ {} \in SUBSET {"IN", "OUT"} /\ 0 \in 0..ReadBurst
          /\ {} \in SUBSET {"IN", "OUT", "ERR", "HUP"}
      BY DEF StreamAssumption
    <3>3. QED
      BY <3>1, <3>2 DEF Init, PlaceTypes
  <2>2. FlagInv
    BY DEF Init, FlagInv, ClosingIsQuiet, ShutAfterWrites, Has
  <2>3. PlaceInv /\ WaitInv
    BY DEF Init, PlaceInv, LastPlaces, WaitInv, Has
  <2>4. QED
    BY <2>1, <2>2, <2>3 DEF PlaceHalf
<1>8. QED
  BY <1>4, <1>5, <1>6, <1>7, Halves DEF QueueHalf

LEMMA UserStep ==
  ASSUME StreamAssumption, StreamInv, User
  PROVE  StreamInv' /\ Moves
<1>1. QueueHalf /\ PlaceHalf
  BY Halves
<1>2. UserCode /\ UNCHANGED place /\ asked \in SUBSET Requests
  BY <1>1 DEF User, QueueHalf, QueueTypes
<1>3. CASE Shutdown \/ ReadStart \/ ReadStop \/ Close
  <2>1. UNCHANGED queues /\ asked' = asked
    BY <1>3 DEF Shutdown, ReadStart, ReadStop, Close
  <2>2. QueueHalf' /\ Pending' = Pending
    BY <1>1, <1>2, <2>1, QueuesAlone
  <2>3. PlaceHalf'
    BY <1>1, <1>2, <1>3, <2>1, UserPlaces
  <2>4. QED
    BY <2>2, <2>3, Halves DEF Moves, QueueHalf, PlaceHalf, StreamInv,
       TypeOK, QueueTypes, PlaceTypes
<1>4. ASSUME NEW r \in Requests, Write(r) PROVE StreamInv' /\ Moves
  <2>1. /\ r \in Requests \ asked /\ asked' = asked \cup {r}
        /\ UNCHANGED <<flags, shutReq, wanted>>
    BY <1>4 DEF Write
  <2>2. CASE WriteRejected
    <3>1. UNCHANGED <<queues, watcher>>
      BY <2>2 DEF WriteRejected
    <3>2. QueueHalf' /\ Pending' = Pending
      BY <1>1, <1>2, <2>1, <3>1, QueuesAlone
    <3>3. PlaceHalf'
      BY <1>1, <1>2, <2>1, <3>1, UserPlaces
    <3>4. QED
      BY <3>2, <3>3 DEF Moves, QueueHalf, PlaceHalf, StreamInv,
         TypeOK, QueueTypes, PlaceTypes
  <2>3. ASSUME NEW n \in Sizes, WriteNow(r, n) \/ WriteLater(r, n)
        PROVE  StreamInv' /\ Moves
    <3>1. n \in Nat /\ PlaceTypes
      BY <1>1 DEF StreamAssumption, PlaceHalf
    <3>2. ~Has("closing") /\ Has("writable") /\ UNCHANGED <<pq, pc>>
      BY <1>2, <2>3 DEF WriteNow, WriteLater, place
    <3>3. /\ QueueHalf' /\ Pending' = Append(Pending, r)
          /\ fed' \in BOOLEAN /\ (fed => fed')
          /\ pevents' \in SUBSET {"IN", "OUT"}
          /\ "OUT" \in pevents => fed' \/ "OUT" \in pevents'
          /\ writeQ' # <<>> => fed' \/ "OUT" \in pevents'
          /\ completed' # <<>> => fed' \/ completed # <<>>
      BY <1>1, <2>1, <2>3, <3>1, WriteQueues
    <3>4. PlaceHalf'
      BY <1>1, <1>2, <2>1, <3>2, <3>3, QueuePlaces DEF place
    <3>5. Moves
      BY <2>1, <3>2, <3>3 DEF Moves, Accepted
    <3>6. QED
      BY <3>3, <3>4, <3>5 DEF QueueHalf, PlaceHalf, StreamInv,
         TypeOK, QueueTypes, PlaceTypes
  <2>4. QED
    BY <1>4, <2>2, <2>3 DEF Write
<1>5. QED
  BY <1>3, <1>4 DEF User

LEMMA LoopStep ==
  ASSUME StreamAssumption, StreamInv, UNCHANGED asked,
         \/ RunPending \/ PollEvent \/ Reading \/ Writing
         \/ Destroy \/ CloseReturns
  PROVE  StreamInv' /\ Moves
<1>1. QueueHalf /\ PlaceHalf /\ PlaceTypes /\ PlaceInv /\ FlagInv
  BY Halves DEF PlaceHalf
<1>2. asked \in SUBSET Requests
  BY <1>1 DEF QueueHalf, QueueTypes
<1>3. QueueHalf' /\ PlaceHalf' => StreamInv'
  BY DEF QueueHalf, PlaceHalf, StreamInv, TypeOK, QueueTypes, PlaceTypes
<1>4. CASE Reading \/ RunPending \/ PollEvent
  <2>1. PlaceHalf' /\ UNCHANGED queues
    BY <1>1, <1>4, ReadingPlaces
  <2>2. QueueHalf' /\ Pending' = Pending
    BY <1>1, <1>2, <2>1, QueuesAlone
  <2>3. QED
    BY <1>3, <2>1, <2>2 DEF Moves
<1>5. CASE Quiet
  <2>1. PlaceHalf' /\ UNCHANGED queues
    BY <1>1, <1>5, WritingPlaces
  <2>2. QueueHalf' /\ Pending' = Pending
    BY <1>1, <1>2, <2>1, QueuesAlone
  <2>3. QED
    BY <1>3, <2>1, <2>2 DEF Moves
<1>6. CASE OutWrites
  <2>1. /\ WriteOut(writeQ, left, size) /\ ~Has("closing")
        /\ pc = "out" /\ pc' = "callbacks"
        /\ UNCHANGED <<pq, flags, shutReq, wanted, events, count, after>>
    BY <1>6 DEF OutWrites, OutEvent, Go
  <2>2. /\ QueueHalf' /\ Pending' = Pending
        /\ (writeQ = <<>> => writeQ' = <<>>)
        /\ fed' \in BOOLEAN /\ (fed => fed')
        /\ pevents' \in SUBSET {"IN", "OUT"}
        /\ "OUT" \in pevents => fed' \/ "OUT" \in pevents'
        /\ writeQ' # <<>> => fed' \/ "OUT" \in pevents'
        /\ completed' # <<>> => fed' \/ completed # <<>>
    BY <1>1, <2>1, OutWritesQueues
  <2>3. Has("shut") => writeQ' = <<>>
    BY <1>1, <2>2 DEF FlagInv, ShutAfterWrites
  <2>4. PlaceHalf'
    BY <1>1, <2>1, <2>2, <2>3, QueuePlaces
  <2>5. QED
    BY <1>3, <2>2, <2>4 DEF Moves
<1>7. CASE TakeCompleted
  BY <1>1, <1>3, <1>7, TakeQueues, LastPlacesKept DEF Moves
<1>8. CASE Destroy
  BY <1>1, <1>3, <1>8, DestroyQueues, LastPlacesKept DEF Moves
<1>9. CASE CallBack
  <2>1. pc = "next" /\ pc' = "writeCb" /\ UNCHANGED flags
    BY <1>9 DEF CallBack, Go
  <2>2. QueueHalf' /\ PlaceHalf' /\ Pending # <<>> /\ Pending' = Tail(Pending)
    BY <1>1, <1>9, CallBackQueues, LastPlacesKept
  <2>3. QED
    BY <1>3, <2>1, <2>2 DEF Moves, Answered
<1>10. QED
  BY <1>4, <1>5, <1>6, <1>7, <1>8, <1>9 DEF Writing, Quiet

LEMMA StreamStep ==
  ASSUME StreamAssumption, StreamInv, [Next]_vars
  PROVE  StreamInv' /\ Moves
<1>1. CASE User
  BY <1>1, UserStep
<1>2. CASE Loop(\/ RunPending \/ PollEvent \/ Reading \/ Writing
                \/ Destroy \/ CloseReturns)
  BY <1>2, LoopStep DEF Loop
<1>3. CASE UNCHANGED vars
  <2>1. Pending' = Pending
    BY <1>3 DEF vars, queues, Pending
  <2>2. StreamInv'
    BY <1>3, <2>1 DEF vars, queues, watcher, place, StreamInv, TypeOK,
       FlagInv, ClosingIsQuiet, ShutAfterWrites, PlaceInv, RequestInv,
       WaitInv, Announced, SizeInv, Has
  <2>3. QED
    BY <2>1, <2>2 DEF Moves
<1>4. QED
  BY <1>1, <1>2, <1>3 DEF Next

LEMMA StreamInvariance == ASSUME StreamAssumption PROVE SafetySpec => []StreamInv
BY StreamInit, StreamStep, PTL DEF SafetySpec

-----------------------------------------------------------------------------
(* The theorems.                                                           *)

LEMMA InvariantKeeps == ASSUME StreamInv PROVE RequestsKept
<1>1. QueueHalf /\ PlaceHalf
  BY Halves
<1>2. QueueTypes /\ RequestInv /\ SizeInv /\ PlaceInv /\ WaitInv
  BY <1>1 DEF QueueHalf, PlaceHalf
<1>3. Unwritten = ToSet(writeQ) \cup failed
  BY <1>2 DEF Unwritten, RequestInv
<1>4. ASSUME pc = "closeCb" PROVE size = 0
  <2>1. writeQ = <<>> /\ completed = <<>> /\ pq = <<>>
    BY <1>2, <1>4 DEF PlaceInv
  <2>2. ToSet(writeQ) = {} /\ ToSet(pq) = {} /\ ToSet(completed) = {}
    <3>1. \A x \in Seq(Requests) : ToSet(x) = {} <=> x = <<>>
      BY QueueProperties
    <3>2. QED
      BY <1>2, <2>1, <3>1 DEF QueueTypes
  <2>3. failed = {}
    BY <1>2, <2>2, QueueFacts DEF RequestInv
  <2>4. ToSet(writeQ) \cup failed = {}
    BY <2>2, <2>3
  <2>5. QED
    BY <1>2, <2>4, BytesOfNone DEF SizeInv
<1>5. SizeCounts
  BY <1>2, <1>3, <1>4 DEF SizeCounts, SizeInv
<1>6. NothingStranded
  BY <1>2 DEF NothingStranded, WaitInv, Announced
<1>7. QED
  BY <1>5, <1>6 DEF RequestsKept, StreamInv

(* Each request waits in one queue; write_queue_size counts its bytes, to  *)
(* zero when the stream is destroyed, although failed requests are         *)
(* subtracted only in their callbacks, which write again; and what waits   *)
(* is announced to the loop: for any requests, sizes and bursts.           *)
THEOREM StreamKeepsRequests ==
  ASSUME StreamAssumption PROVE SafetySpec => []RequestsKept
BY StreamInvariance, InvariantKeeps, PTL

(* The flags are honoured wherever in the loops of the stream the user     *)
(* calls it again: nothing is announced for a stream that closes, it is    *)
(* shut down after its last write, and reads are called back while wanted. *)
THEOREM FlagsHonoured == ASSUME StreamAssumption PROVE SafetySpec => HonoursFlags
<1>1. StreamInv => ClosingIsQuiet /\ ShutAfterWrites
  BY DEF StreamInv, FlagInv
<1>2. ASSUME StreamInv, [Next]_vars, pc # "readCb", pc' = "readCb"
      PROVE  wanted
  <2>1. Has("reading") => wanted
    BY <1>2 DEF StreamInv, FlagInv
  <2>2. Has("reading")
    BY <1>2 DEF Next, vars, place, User, Loop, Reading, Writing, ReadData,
       ReadAgain, ReadError, ReadEof, ReadEnds, ReadReturns, HangUp, HupIsEnd,
       NoHangUp, RunPending, PollEvent, OutWrites, NoOut, TakeCompleted,
       CallBack, WriteReturns, NotDrained, Drain, DrainShuts, ShutReturns,
       Destroy, CloseReturns, Finished, Go
  <2>3. QED
    BY <2>1, <2>2
<1>3. StreamInv /\ [Next]_vars =>
        [pc # "readCb" /\ pc' = "readCb" => wanted]_vars
  BY <1>2
<1>4. QED
  BY StreamInvariance, <1>1, <1>3, PTL
     DEF SafetySpec, HonoursFlags, ReadsWhileWanted

(* The state of the stream as StreamWrites has it.                         *)
Stage == IF pc \in {"closeCb", "gone"} THEN "closed"
         ELSE IF Has("closing") THEN "closing" ELSE "open"

LEMMA StageMoves ==
  ASSUME StreamInv, Next
  PROVE  \/ Stage' = Stage
         \/ Stage = "open" /\ Stage' = "closing" /\ Pending' = Pending
         \/ /\ Stage = "closing" /\ Stage' = "closed"
            /\ Pending = <<>> /\ Pending' = Pending
<1>1. /\ FlagInv /\ PlaceInv
      /\ pc \in {"closeCb", "gone"} => Has("closing")
  BY DEF StreamInv, FlagInv, PlaceInv
<1>2. CASE User /\ ~Close
  BY <1>1, <1>2 DEF User, place, Write, Shutdown, ReadStart, ReadStop,
     Stage, Has
<1>3. CASE Close /\ UNCHANGED place
  <2>1. Stage = "open" /\ Stage' = "closing"
    BY <1>1, <1>3 DEF Close, place, Stage, Has
  <2>2. Pending' = Pending
    BY <1>3 DEF Close, queues, Pending
  <2>3. QED
    BY <2>1, <2>2
<1>4. CASE Loop(\/ RunPending \/ PollEvent \/ Reading)
  <2>1. Has("closing")' = Has("closing")
    BY <1>4 DEF Loop, RunPending, PollEvent, Reading, ReadData, ReadAgain,
       ReadError, ReadEof, ReadEnds, ReadReturns, HangUp, NoHangUp, Eof,
       CallRead, Go, Has
  <2>2. pc \in {"idle", "read", "readCb", "hup"}
    BY <1>4 DEF Loop, RunPending, PollEvent, Reading, ReadData, ReadAgain,
       ReadError, ReadEof, ReadEnds, ReadReturns, HangUp, NoHangUp
  <2>3. pc' \notin {"closeCb", "gone"}
    <3>1. after \in {"read", "partial", "error", "hup", "out"}
      BY DEF StreamInv, TypeOK
    <3>2. QED
      BY <1>4, <3>1 DEF Loop, RunPending, PollEvent, Reading, ReadData,
         ReadAgain, ReadError, ReadEof, ReadEnds, ReadReturns, HangUp,
         NoHangUp, Eof, CallRead, Go
  <2>4. QED
    BY <2>1, <2>2, <2>3 DEF Stage
<1>5. CASE \/ Loop(OutWrites) \/ Loop(NoOut) \/ Loop(TakeCompleted)
           \/ Loop(CallBack) \/ Loop(WriteReturns) \/ Loop(Destroy)
           \/ Loop(CloseReturns)
  BY <1>1, <1>5 DEF Loop, OutWrites, NoOut, TakeCompleted, CallBack,
     WriteReturns, Destroy, CloseReturns, Go, Stage, Has
<1>6. CASE \/ Loop(NotDrained) \/ Loop(Drain) \/ Loop(DrainShuts)
           \/ Loop(ShutReturns)
  <2>1. UNCHANGED queues
    BY <1>6 DEF Loop, NotDrained, Drain, DrainShuts, ShutReturns
  <2>2. Pending' = Pending
    BY <2>1 DEF queues, Pending
  <2>3. ASSUME pc' = "closeCb" PROVE Has("closed") /\ pc \in {"next", "shutCb"}
    BY <1>6, <2>3 DEF Loop, NotDrained, Drain, DrainShuts, ShutReturns,
       Finished, Go
  <2>4. ASSUME Has("closed"), pq = <<>>, pc \in {"next", "shutCb"}
        PROVE  Pending = <<>>
    <3>1. writeQ = <<>> /\ completed = <<>> /\ pq = <<>>
      BY <1>1, <2>4 DEF PlaceInv
    <3>2. <<>> \o <<>> = <<>>
      BY EmptySeq, ConcatEmptySeq
    <3>3. QED
      BY <3>1, <3>2 DEF Pending
  <2>5. pq = <<>> /\ pc \in {"next", "shutCb"}
    BY <1>1, <1>6 DEF Loop, NotDrained, Drain, DrainShuts, ShutReturns, PlaceInv
  <2>6. /\ pc' \in {"closeCb", "idle", "shutCb"}
        /\ Has("closing")' = Has("closing")
    BY <1>6 DEF Loop, NotDrained, Drain, DrainShuts, ShutReturns,
       Finished, Go, Has
  <2>7. CASE pc' = "closeCb"
    <3>1. Pending = <<>> /\ Has("closing")
      BY <1>1, <2>3, <2>4, <2>5, <2>7 DEF FlagInv
    <3>2. QED
      BY <2>2, <2>5, <2>7, <3>1 DEF Stage
  <2>8. CASE pc' # "closeCb"
    BY <2>5, <2>6, <2>8 DEF Stage
  <2>9. QED
    BY <2>7, <2>8
<1>7. QED
  BY <1>2, <1>3, <1>4, <1>5, <1>6 DEF Next, User, Loop, Writing

LEMMA PromiseStep ==
  ASSUME StreamAssumption, StreamInv, [Next]_vars
  PROVE  [Promise!Next]_(Promise!vars)
<1> USE DEF Stage
<1>1. CASE UNCHANGED vars
  BY <1>1 DEF vars, queues, place, Pending, Promise!vars, Has
<1>2. CASE Next
  <2>1. Pending \in Seq(Requests)
    BY Halves, QueueFacts DEF QueueHalf
  <2>2. CASE Pending' = Pending
    <3>1. CASE Stage' = Stage
      BY <2>2, <3>1 DEF Promise!vars
    <3>2. CASE Stage = "open" /\ Stage' = "closing"
      BY <2>2, <3>2 DEF Promise!Next, Promise!BeginClose
    <3>3. CASE Stage = "closing" /\ Stage' = "closed" /\ Pending = <<>>
      BY <2>2, <3>3 DEF Promise!Next, Promise!EndClose
    <3>4. QED
      BY <1>2, <3>1, <3>2, <3>3, StageMoves
  <2>3. CASE Accepted
    <3>1. Stage = "open" /\ Stage' = Stage
      BY <2>3 DEF Accepted, StreamInv, PlaceInv, FlagInv, Has
    <3>2. QED
      BY <2>3, <3>1 DEF Accepted, Promise!Next, Promise!Accept
  <2>4. CASE Answered
    <3>1. Stage' = Stage
      BY <2>4 DEF Answered, Has
    <3>2. 1 \in 1..Len(Pending) /\ Pending' = SubSeq(Pending, 1 + 1, Len(Pending))
      <4>1. Len(Pending) \in Nat /\ Len(Pending) > 0
        BY <2>1, <2>4, QueueProperties, EmptySeq DEF Answered
      <4>2. Tail(Pending) = SubSeq(Pending, 2, Len(Pending))
        BY <2>1, <2>4, TailIsSubSeq DEF Answered
      <4>3. QED
        BY <2>4, <4>1, <4>2 DEF Answered
    <3>3. QED
      BY <3>1, <3>2 DEF Promise!Next, Promise!Answer
  <2>5. QED
    BY <1>2, <2>2, <2>3, <2>4, StreamStep DEF Moves
<1>3. QED
  BY <1>1, <1>2

(* The stream does what StreamWrites promises, but for the fairness: every *)
(* accepted write is called back once, in the order of the writes, also    *)
(* through a close, whose callback comes last, and none is accepted then.  *)
THEOREM StreamKeepsOrder ==
  ASSUME StreamAssumption PROVE SafetySpec => Promise!SafetySpec
<1>1. ASSUME Init PROVE Promise!Init
  <2>1. Pending = <<>>
    <3>1. <<>> \o <<>> = <<>>
      BY EmptySeq, ConcatEmptySeq
    <3>2. QED
      BY <1>1, <3>1 DEF Init, Pending
  <2>2. QED
    BY <1>1, <2>1 DEF Init, Promise!Init, Has
<1>2. QED
  BY <1>1, StreamInvariance, PromiseStep, PTL DEF SafetySpec, Promise!SafetySpec

=============================================================================
