---------------------------- MODULE UVTcpProofs ----------------------------
(***************************************************************************)
(* Proofs about UVTcp, for every finite set of servers and connections,    *)
(* every set of writes and ids, and any bound on the calls.                *)
(*                                                                         *)
(* TcpInv is the inductive invariant.  Its parts follow the life of a      *)
(* handle through the containers (HandleInv), a command through the queue  *)
(* (QueueInv), a write to its answer (WriteInv), and what a connection     *)
(* hears (HeardInv).  An abort or a crash ends the behaviour, so that what *)
(* only the next step would need is claimed of a running process.          *)
(***************************************************************************)
EXTENDS UVTcp, FiniteSetTheorems, FunctionTheorems, SequenceTheorems, TLAPS

Elements(s) == {s[k] : k \in 1..Len(s)}
Distinct(s) == \A i, j \in 1..Len(s) : s[i] = s[j] => i = j

-----------------------------------------------------------------------------
(* The inductive invariant.                                                *)

(* What is referred to has been opened once: by a container, by a pending  *)
(* write, by a connection to its server.                                   *)
LiveIsReal ==
  /\ \A h \in held : hnd[h] # "none"
  /\ \A c \in Conns : writes[c] # <<>> => hnd[c] \in {"open", "closing"}
  /\ \A c \in Conns : hnd[c] # "none" => serverOf[c] \in Servers
  /\ \A c \in Conns : serverOf[c] \in Servers => hnd[serverOf[c]] # "none"

(* The field `opened` follows the handle, but for those that the walk of a *)
(* stop closed behind the back of their objects.                           *)
FieldFollows ==
  \A h \in Handles :
    /\ hnd[h] \in {"none", "open"} => opened[h]
    /\ hnd[h] \in {"closing", "closed"} /\ opened[h]
         => stopped /\ onClose[h] = "nothing"

(* A container gives an id to one object at a time.                        *)
IdsAreUnique ==
  /\ \A x, y \in held \cap Conns : id[x] = id[y] => x = y
  /\ \A x, y \in held \cap Servers : id[x] = id[y] => x = y

(* A handle that libuv still uses is in its container, or was cut off.     *)
HeldOrCut ==
  \A h \in Handles : hnd[h] \in {"open", "closing"} => h \in held \cup cut

(* So is the one whose close callback is next.                             *)
CallbackHeld == lp = "callback" => Head(batch) \in held \cup cut

(* The call of uv_close that aborts is the only second one.                *)
AbortIsSecond == SecondCloses /\ (end # "aborted" => twice = {})

(* What closes is in one of the two lists; in the close callback, the      *)
(* first of the batch is closed already.                                   *)
ClosingListed ==
  /\ \A h \in Elements(closing) : hnd[h] = "closing"
  /\ \A k \in 1..Len(batch) :
       hnd[batch[k]] = IF lp = "callback" /\ k = 1 THEN "closed" ELSE "closing"
  /\ \A h \in Handles :
       hnd[h] = "closing" => h \in Elements(closing) \cup Elements(batch)
  /\ lp = "callback" => batch # <<>>
  /\ lp \in {"poll", "jobs", "ended"} => batch = <<>>

(* After a stop no connection is open, and none starts to close when the   *)
(* last batch is under way.                                                *)
StopIsLast ==
  /\ stopped => \A c \in Conns : hnd[c] # "open"
  /\ end = "running" /\ stopped /\ lp \in {"closing", "callback", "ended"}
       => Elements(closing) \cap Conns = {}
  /\ lp = "ended" => stopped

HandleInv == /\ LiveIsReal
             /\ FieldFollows
             /\ IdsAreUnique
             /\ HeldOrCut
             /\ CallbackHeld
             /\ AbortIsSecond
             /\ end = "running" => ClosingListed
             /\ StopIsLast

(* A server is asked to listen once, and before it was opened; a write is  *)
(* in the queue once, and before it was sent or dropped.                   *)
ListensOnce ==
  \A i \in 1..Len(queue) : queue[i].op = "listen" =>
    /\ hnd[queue[i].of] = "none"
    /\ \A j \in 1..Len(queue) :
         queue[j].op = "listen" /\ queue[j].of = queue[i].of => j = i
WritesOnce ==
  \A i \in 1..Len(queue) : queue[i].op = "write" =>
    /\ sentTo[queue[i].w] = None /\ queue[i].w \notin dropped
    /\ \A j \in 1..Len(queue) :
         queue[j].op = "write" /\ queue[j].w = queue[i].w => j = i
QueueInv == ListensOnce /\ WritesOnce

(* A write is pending in one place, was sent there, and is not answered.   *)
PendingOnce ==
  \A c, d \in Conns : \A k \in 1..Len(writes[c]), l \in 1..Len(writes[d]) :
    writes[c][k] = writes[d][l] => c = d /\ k = l
PendingIsOwed ==
  \A c \in Conns : \A k \in 1..Len(writes[c]) :
    sentTo[writes[c][k]] # None /\ answers[writes[c][k]] = 0
WriteInv == PendingOnce /\ PendingIsOwed /\ AnsweredOnce

(* Who hears, and whose stream is heard, has been opened.                  *)
HeardIsReal ==
  \A c \in Conns : \A k \in 1..Len(heard[c]) :
    hnd[c] # "none" /\ hnd[heard[c][k].from] # "none"

(* A connection that heard the end of its own stream is closing.           *)
EndCloses ==
  \A c \in Conns : \A k \in 1..Len(heard[c]) :
    heard[c][k] = Note(c, "end") => hnd[c] \in {"closing", "closed"}
HeardInv == /\ HeardIsReal
            /\ MixupNeedsCut
            /\ DeafNeedsCut
            /\ EndIsLast
            /\ end = "running" => EndCloses

TcpInv == TypeOK /\ HandleInv /\ QueueInv /\ WriteInv /\ HeardInv

-----------------------------------------------------------------------------
(* Sequences.                                                              *)

LEMMA InjectiveIsDistinct ==
  ASSUME NEW S, NEW s \in Seq(S)
  PROVE  IsInjective(s) <=> Distinct(s)
BY DEF IsInjective, Distinct

(* A sequence of a set has each of its elements, once.                     *)
LEMMA OrderOfSet ==
  ASSUME NEW S, IsFiniteSet(S), NEW s \in [1..Cardinality(S) -> S],
         IsInjective(s)
  PROVE  s \in Seq(S) /\ Distinct(s) /\ Elements(s) = S
<1>1. Cardinality(S) \in Nat
  BY FS_CardinalityType
<1>2. s \in Seq(S) /\ Len(s) = Cardinality(S)
  BY <1>1
<1>3. Distinct(s)
  BY <1>2, InjectiveIsDistinct
<1>4. Elements(s) = S
  <2>1. s \in Bijection(1..Cardinality(S), Elements(s))
    BY <1>1, <1>2, <1>3, Fun_IsBij DEF Elements, Distinct
  <2>2. Cardinality(Elements(s)) = Cardinality(S)
    BY <1>1, <2>1, FS_CountingElements DEF ExistsBijection
  <2>3. Elements(s) \subseteq S
    BY <1>2 DEF Elements
  <2>4. QED
    BY <2>2, <2>3, FS_Subset
<1>5. QED
  BY <1>2, <1>3, <1>4

LEMMA SetToSeqIsOrder ==
  ASSUME NEW S, IsFiniteSet(S)
  PROVE  /\ SetToSeq(S) \in [1..Cardinality(S) -> S]
         /\ IsInjective(SetToSeq(S))
<1>1. \E f \in [1..Cardinality(S) -> S] : IsInjective(f)
  <2>1. PICK f \in Bijection(1..Cardinality(S), S) : TRUE
    BY FS_CardinalityType DEF ExistsBijection
  <2>2. f \in [1..Cardinality(S) -> S] /\ IsInjective(f)
    BY <2>1 DEF Bijection, Injection
  <2>3. QED
    BY <2>2
<1>2. QED
  BY <1>1 DEF SetToSeq

LEMMA ConcatDistinct ==
  ASSUME NEW S, NEW s \in Seq(S), NEW t \in Seq(S)
  PROVE  /\ s \o t \in Seq(S)
         /\ Elements(s \o t) = Elements(s) \cup Elements(t)
         /\ Distinct(s \o t) <=> /\ Distinct(s) /\ Distinct(t)
                                 /\ Elements(s) \cap Elements(t) = {}
<1>1. /\ s \o t \in Seq(S) /\ Len(s) \in Nat /\ Len(t) \in Nat
      /\ Len(s \o t) = Len(s) + Len(t)
      /\ \A i \in 1..Len(s) : (s \o t)[i] = s[i]
      /\ \A i \in 1..Len(t) : (s \o t)[Len(s) + i] = t[i]
  BY ConcatProperties
<1>2. \A i \in 1..Len(s \o t) : \/ i \in 1..Len(s)
                                \/ \E k \in 1..Len(t) : i = Len(s) + k
  <2> TAKE i \in 1..Len(s \o t)
  <2>1. i \in 1..Len(s) \/ (i - Len(s) \in 1..Len(t) /\ i = Len(s) + (i - Len(s)))
    BY <1>1
  <2>2. QED
    BY <2>1
<1>3. Elements(s \o t) = Elements(s) \cup Elements(t)
  <2>1. Elements(s \o t) \subseteq Elements(s) \cup Elements(t)
    BY <1>1, <1>2 DEF Elements
  <2>2. Elements(s) \subseteq Elements(s \o t)
    BY <1>1 DEF Elements
  <2>3. Elements(t) \subseteq Elements(s \o t)
    BY <1>1 DEF Elements
  <2>4. QED
    BY <2>1, <2>2, <2>3
<1>4. ASSUME Distinct(s \o t)
      PROVE  Distinct(s) /\ Distinct(t) /\ Elements(s) \cap Elements(t) = {}
  <2>1. Distinct(s)
    BY <1>1, <1>4 DEF Distinct
  <2>2. Distinct(t)
    <3> SUFFICES ASSUME NEW i \in 1..Len(t), NEW j \in 1..Len(t), t[i] = t[j]
                 PROVE  i = j
      BY DEF Distinct
    <3>1. Len(s) + i \in 1..Len(s \o t) /\ Len(s) + j \in 1..Len(s \o t)
      BY <1>1
    <3>2. (s \o t)[Len(s) + i] = (s \o t)[Len(s) + j]
      BY <1>1
    <3>3. Len(s) + i = Len(s) + j
      BY <1>4, <3>1, <3>2 DEF Distinct
    <3>4. QED
      BY <1>1, <3>3
  <2>3. ASSUME NEW i \in 1..Len(s), NEW j \in 1..Len(t), s[i] = t[j]
        PROVE  FALSE
    <3>1. i \in 1..Len(s \o t) /\ Len(s) + j \in 1..Len(s \o t) /\ i # Len(s) + j
      BY <1>1
    <3>2. (s \o t)[i] = (s \o t)[Len(s) + j]
      BY <1>1, <2>3
    <3>3. QED
      BY <1>4, <3>1, <3>2 DEF Distinct
  <2>4. QED
    BY <2>1, <2>2, <2>3 DEF Elements
<1>5. ASSUME Distinct(s), Distinct(t), Elements(s) \cap Elements(t) = {}
      PROVE  Distinct(s \o t)
  <2> SUFFICES ASSUME NEW i \in 1..Len(s \o t), NEW j \in 1..Len(s \o t),
                      (s \o t)[i] = (s \o t)[j]
               PROVE  i = j
    BY DEF Distinct
  <2>1. ASSUME NEW k \in 1..Len(s), NEW l \in 1..Len(t) PROVE s[k] # t[l]
    BY <1>5 DEF Elements
  <2>2. CASE i \in 1..Len(s) /\ j \in 1..Len(s)
    BY <1>1, <1>5, <2>2 DEF Distinct
  <2>3. ASSUME NEW k \in 1..Len(t), NEW l \in 1..Len(t),
               i = Len(s) + k, j = Len(s) + l
        PROVE  i = j
    BY <1>1, <1>5, <2>3 DEF Distinct
  <2>4. ASSUME NEW k \in 1..Len(t), i \in 1..Len(s), j = Len(s) + k
        PROVE  FALSE
    BY <1>1, <2>1, <2>4
  <2>5. ASSUME NEW k \in 1..Len(t), j \in 1..Len(s), i = Len(s) + k
        PROVE  FALSE
    BY <1>1, <2>1, <2>5
  <2>6. QED
    BY <1>2, <2>2, <2>3, <2>4, <2>5
<1>6. QED
  BY <1>1, <1>3, <1>4, <1>5

(* A sequence without its first element.                                   *)
LEMMA TailDistinct ==
  ASSUME NEW S, NEW s \in Seq(S), s # <<>>
  PROVE  /\ Head(s) \in S /\ Tail(s) \in Seq(S)
         /\ Len(s) \in Nat /\ Len(s) > 0 /\ Len(Tail(s)) = Len(s) - 1
         /\ Head(s) = s[1]
         /\ \A k \in 1..Len(Tail(s)) : Tail(s)[k] = s[k + 1]
         /\ Elements(s) = {Head(s)} \cup Elements(Tail(s))
         /\ Distinct(s) => Distinct(Tail(s)) /\ Head(s) \notin Elements(Tail(s))
<1>1. /\ Head(s) \in S /\ Tail(s) \in Seq(S)
      /\ Len(s) \in Nat /\ Len(s) > 0 /\ Len(Tail(s)) = Len(s) - 1
      /\ Head(s) = s[1]
      /\ \A k \in 1..Len(Tail(s)) : Tail(s)[k] = s[k + 1]
  BY HeadTailProperties, EmptySeq, LenProperties
<1>2. Elements(s) = {Head(s)} \cup Elements(Tail(s))
  <2>1. Elements(Tail(s)) \subseteq Elements(s)
    BY <1>1 DEF Elements
  <2>2. \A k \in 1..Len(s) : k = 1 \/ (k - 1 \in 1..Len(Tail(s)) /\ (k - 1) + 1 = k)
    BY <1>1
  <2>3. Elements(s) \subseteq {Head(s)} \cup Elements(Tail(s))
    BY <1>1, <2>2 DEF Elements
  <2>4. Head(s) \in Elements(s)
    BY <1>1 DEF Elements
  <2>5. QED
    BY <2>1, <2>3, <2>4
<1>3. ASSUME Distinct(s)
      PROVE  Distinct(Tail(s)) /\ Head(s) \notin Elements(Tail(s))
  <2>1. \A k \in 1..Len(Tail(s)) : k + 1 \in 1..Len(s) /\ 1 \in 1..Len(s) /\ k + 1 # 1
    BY <1>1
  <2>2. Head(s) \notin Elements(Tail(s))
    BY <1>1, <1>3, <2>1 DEF Elements, Distinct
  <2>3. ASSUME NEW i \in 1..Len(Tail(s)), NEW j \in 1..Len(Tail(s)),
               Tail(s)[i] = Tail(s)[j]
        PROVE  i = j
    <3>1. i + 1 = j + 1
      BY <1>1, <1>3, <2>1, <2>3 DEF Distinct
    <3>2. QED
      BY <1>1, <3>1
  <2>4. QED
    BY <2>2, <2>3 DEF Distinct
<1>4. QED
  BY <1>1, <1>2, <1>3

(* The empty sequence.                                                     *)
LEMMA EmptyDistinct == Elements(<<>>) = {} /\ Distinct(<<>>)
BY DEF Elements, Distinct

-----------------------------------------------------------------------------
(* Closing.                                                                *)

Life == {"none", "open", "closing", "closed"}

(* The two lists of TypeOK.                                                *)
LEMMA ListsInjective ==
  ASSUME NEW s \in Seq(Handles), NEW t \in Seq(Handles)
  PROVE  IsInjective(s \o t) <=> /\ Distinct(s) /\ Distinct(t)
                                 /\ Elements(s) \cap Elements(t) = {}
BY ConcatDistinct, InjectiveIsDistinct

(* The order in which handles of a set are put in front of the list.       *)
LEMMA OrderInFront ==
  ASSUME NEW X \in SUBSET Handles, NEW rest \in Seq(Handles)
  PROVE  LET list == SetToSeq(X \cap Servers) \o SetToSeq(X \cap Conns) \o rest
         IN  /\ list \in Seq(Handles)
             /\ Elements(list) = X \cup Elements(rest)
             /\ Distinct(rest) /\ X \cap Elements(rest) = {} => Distinct(list)
<1> DEFINE a == SetToSeq(X \cap Servers)
           b == SetToSeq(X \cap Conns)
<1>1. IsFiniteSet(X \cap Servers) /\ IsFiniteSet(X \cap Conns)
  BY IdsSuffice, FS_Subset
<1>2. /\ a \in Seq(X \cap Servers) /\ Distinct(a) /\ Elements(a) = X \cap Servers
      /\ b \in Seq(X \cap Conns) /\ Distinct(b) /\ Elements(b) = X \cap Conns
  BY <1>1, SetToSeqIsOrder, OrderOfSet
<1>3. a \in Seq(Handles) /\ b \in Seq(Handles)
  BY <1>2, SeqMonotonic
<1>4. Elements(a) \cap Elements(b) = {} /\ Elements(a) \cup Elements(b) = X
  BY <1>2, HandlesDisjoint DEF Handles
<1> HIDE DEF a, b
<1>5. /\ a \o b \in Seq(Handles)
      /\ Elements(a \o b) = X
      /\ Distinct(a \o b)
  BY <1>2, <1>3, <1>4, ConcatDistinct
<1> DEFINE ab == a \o b
<1> HIDE DEF ab
<1>6. ab \in Seq(Handles) /\ Elements(ab) = X /\ Distinct(ab)
  BY <1>5 DEF ab
<1>7. /\ ab \o rest \in Seq(Handles)
      /\ Elements(ab \o rest) = X \cup Elements(rest)
      /\ Distinct(rest) /\ X \cap Elements(rest) = {} => Distinct(ab \o rest)
  BY <1>6, ConcatDistinct
<1>8. QED
  BY <1>7 DEF ab, a, b

(* uv_close for the handles X, which their objects believe to be open.     *)
LEMMA CloseEffect ==
  ASSUME TypeOK, NEW X \in SUBSET Handles, NEW life \in [Handles -> Life],
         CloseHandles(life, X), end = "running"
  PROVE  /\ hnd' \in [Handles -> Life]
         /\ opened' \in [Handles -> BOOLEAN]
         /\ onClose' \in [Handles -> {"none", "release", "nothing"}]
         /\ closing' \in Seq(Handles)
         /\ twice' \in SUBSET Handles
         /\ \/ /\ end' = "aborted" /\ UNCHANGED uv
               /\ \E h \in X : life[h] \in {"closing", "closed"}
               /\ twice' = {h \in X : life[h] \in {"closing", "closed"}}
            \/ /\ end' = "running" /\ twice' = twice
               /\ \A h \in X : life[h] \notin {"closing", "closed"}
               /\ hnd' = [h \in Handles |-> IF h \in X THEN "closing"
                                            ELSE life[h]]
               /\ opened' = [h \in Handles |-> opened[h] /\ h \notin X]
               /\ onClose' = [h \in Handles |-> IF h \in X THEN "release"
                                                ELSE onClose[h]]
               /\ Elements(closing') = X \cup Elements(closing)
               /\ Distinct(closing) /\ X \cap Elements(closing) = {}
                    => Distinct(closing')
<1>1. CASE \E h \in X : life[h] \in {"closing", "closed"}
  BY <1>1 DEF CloseHandles, TypeOK, uv, Life
<1>2. CASE ~\E h \in X : life[h] \in {"closing", "closed"}
  <2>1. /\ hnd' = [h \in Handles |-> IF h \in X THEN "closing" ELSE life[h]]
        /\ opened' = [h \in Handles |-> opened[h] /\ h \notin X]
        /\ onClose' = [h \in Handles |-> IF h \in X THEN "release"
                                         ELSE onClose[h]]
        /\ closing' = SetToSeq(X \cap Servers) \o SetToSeq(X \cap Conns)
                                               \o closing
        /\ end' = "running" /\ twice' = twice
    BY <1>2 DEF CloseHandles
  <2>2. closing \in Seq(Handles) /\ twice \in SUBSET Handles
    BY DEF TypeOK
  <2>3. /\ closing' \in Seq(Handles)
        /\ Elements(closing') = X \cup Elements(closing)
        /\ Distinct(closing) /\ X \cap Elements(closing) = {}
             => Distinct(closing')
    BY <2>1, <2>2, OrderInFront
  <2>4. hnd' \in [Handles -> Life]
    BY <2>1 DEF Life
  <2>5. opened' \in [Handles -> BOOLEAN]
    BY <2>1
  <2>6. onClose' \in [Handles -> {"none", "release", "nothing"}]
    BY <2>1 DEF TypeOK
  <2>7. QED
    BY <1>2, <2>1, <2>2, <2>3, <2>4, <2>5, <2>6
<1>3. QED
  BY <1>1, <1>2

(* The objects that close themselves when the containers come to hold h    *)
(* and the writes w are pending: those asked to, and those nobody needs.   *)
Closers(h, w, cs) == Close(cs \cup (Live \ LiveObjects(h, w)))

LEMMA ClosersAreReal ==
  ASSUME TypeOK, LiveIsReal, NEW h, NEW w, NEW cs \in SUBSET Handles
  PROVE  /\ Closers(h, w, cs) \in SUBSET Handles
         /\ \A x \in Closers(h, w, cs) : opened[x] /\ (x \in cs \/ hnd[x] # "none")
         /\ \A x \in cs : opened[x] => x \in Closers(h, w, cs)
<1>1. ASSUME NEW c \in LiveConns(held, writes)
      PROVE  /\ c \in Conns /\ hnd[c] # "none"
             /\ serverOf[c] \in Servers /\ hnd[serverOf[c]] # "none"
  <2>1. c \in Conns /\ hnd[c] # "none"
    BY DEF LiveConns, LiveIsReal
  <2>2. QED
    BY <2>1 DEF LiveIsReal
<1>2. ASSUME NEW x \in Live PROVE x \in Handles /\ hnd[x] # "none"
  BY <1>1 DEF Live, LiveObjects, LiveIsReal, Handles
<1>3. QED
  BY <1>2 DEF Closers, Close

(* What TypeOK says of the life of a handle.                               *)
HandleTypes ==
  /\ lp \in {"poll", "jobs", "closing", "callback", "ended"}
  /\ held \in SUBSET Handles
  /\ id \in [Handles -> Ids \cup {None}]
  /\ serverOf \in [Conns -> Servers \cup {None}]
  /\ hnd \in [Handles -> Life]
  /\ opened \in [Handles -> BOOLEAN]
  /\ onClose \in [Handles -> {"none", "release", "nothing"}]
  /\ closing \in Seq(Handles) /\ batch \in Seq(Handles)
  /\ IsInjective(batch \o closing)
  /\ stopped \in BOOLEAN /\ end \in {"running", "aborted", "crashed"}
  /\ cut \in SUBSET Handles /\ twice \in SUBSET Handles

(* Everything of HandleInv but the lists of what is closing.               *)
Aside == /\ LiveIsReal /\ FieldFollows /\ IdsAreUnique /\ HeldOrCut
         /\ AbortIsSecond
         /\ stopped => \A c \in Conns : hnd[c] # "open"

(* What was closed by one step: the handles X, of which each was open or   *)
(* is one of cs.                                                           *)
ClosedBy(life, X, cs) ==
  /\ end' = "running"
  /\ \A x \in X : /\ life[x] = hnd[x] /\ hnd[x] \in {"none", "open"}
                  /\ hnd[x] = "none" => x \in cs
  /\ \A x \in cs : opened[x] => x \in X
  /\ hnd' = [x \in Handles |-> IF x \in X THEN "closing" ELSE life[x]]
  /\ Elements(closing') = X \cup Elements(closing)
  /\ Distinct(closing) /\ X \cap Elements(closing) = {} => Distinct(closing')

(* life is hnd, but that some of what closes has been closed, and has no    *)
(* write of w left.                                                        *)
Finishes(life, w) ==
  \A x \in Handles : \/ life[x] = hnd[x]
                     \/ /\ hnd[x] = "closing" /\ life[x] = "closed"
                        /\ x \in Conns => w[x] = <<>>

(* Retain, whatever it is called for: h is held and the writes w are       *)
(* pending after it, and nothing new is; close() is called for cs.         *)
LEMMA RetainKeeps ==
  ASSUME TypeOK, Aside, end = "running",
         NEW life \in [Handles -> Life], NEW h \in SUBSET held,
         NEW w \in [Conns -> Seq(Writes)], NEW cs \in SUBSET Handles,
         Retain(life, h, w, cs),
         Finishes(life, w),
         \A c \in Conns : w[c] # <<>> => writes[c] # <<>>,
         cut \subseteq cut', cut' \in SUBSET Handles, cs \subseteq held \cup cut',
         \A x \in held \ h : x \in cut' \/ hnd[x] = "closed",
         id' \in [Handles -> Ids \cup {None}], \A x \in held : id'[x] = id[x],
         serverOf' \in [Conns -> Servers \cup {None}],
         \A c \in Conns : \/ serverOf'[c] = serverOf[c]
                          \/ /\ hnd[c] = "none" /\ serverOf'[c] \in Servers
                             /\ hnd[serverOf'[c]] # "none",
         \A c \in cs \cap Conns : hnd[c] = "none" => serverOf'[c] \in Servers,
         UNCHANGED stopped,
         batch' \in Seq(Handles),
         lp' \in {"poll", "jobs", "closing", "callback", "ended"},
         Distinct(batch'),
         Elements(batch') \subseteq Elements(batch)
  PROVE  /\ Aside'
         /\ held' = h /\ writes' = w
         /\ closing' \in Seq(Handles)
         /\ Distinct(closing') /\ Elements(batch') \cap Elements(closing') = {}
              => HandleTypes'
         /\ \/ end' = "aborted" /\ UNCHANGED uv
            \/ \E X \in SUBSET Handles : ClosedBy(life, X, cs)
<1> DEFINE X == Closers(h, w, cs)
<1> USE DEF Finishes
<1>1. /\ held' = h /\ writes' = w
      /\ CloseHandles(life, X)
  BY DEF Retain, Closers
<1>2. /\ X \in SUBSET Handles
      /\ \A x \in X : opened[x] /\ (x \in cs \/ hnd[x] # "none")
      /\ \A x \in cs : opened[x] => x \in X
  BY ClosersAreReal DEF Aside
<1> HIDE DEF X
<1>3. /\ hnd' \in [Handles -> Life]
      /\ opened' \in [Handles -> BOOLEAN]
      /\ onClose' \in [Handles -> {"none", "release", "nothing"}]
      /\ closing' \in Seq(Handles)
      /\ end' \in {"running", "aborted", "crashed"}
      /\ twice' \in SUBSET Handles
  BY <1>1, <1>2, CloseEffect
<1>4. Distinct(closing') /\ Elements(batch') \cap Elements(closing') = {}
        => HandleTypes'
  <2>1. stopped' \in BOOLEAN
    BY DEF TypeOK
  <2>2. held' \in SUBSET Handles
    BY <1>1 DEF TypeOK
  <2>3. Distinct(closing') /\ Elements(batch') \cap Elements(closing') = {}
          => IsInjective(batch' \o closing')
    BY <1>3, ListsInjective
  <2>4. QED
    BY <1>3, <2>1, <2>2, <2>3 DEF HandleTypes
<1>5. CASE /\ end' = "aborted" /\ UNCHANGED uv
           /\ \E x \in X : life[x] \in {"closing", "closed"}
           /\ twice' = {x \in X : life[x] \in {"closing", "closed"}}
  <2>1. LiveIsReal'
    BY <1>1, <1>5 DEF Aside, LiveIsReal, TypeOK, uv
  <2>2. FieldFollows'
    BY <1>5 DEF Aside, FieldFollows, uv
  <2>3. IdsAreUnique'
    BY <1>1 DEF Aside, IdsAreUnique
  <2>4. HeldOrCut'
    BY <1>1, <1>5 DEF Aside, HeldOrCut, uv
  <2>5. AbortIsSecond'
    <3>1. twice' # {}
      BY <1>5
    <3>2. ASSUME NEW x \in twice'
          PROVE  stopped /\ opened[x] /\ onClose[x] = "nothing"
      <4>1. x \in Handles /\ opened[x] /\ life[x] \in {"closing", "closed"}
        BY <1>2, <1>5, <3>2
      <4>2. hnd[x] \in {"closing", "closed"}
        BY <4>1
      <4>3. QED
        BY <4>1, <4>2 DEF Aside, FieldFollows
    <3>3. QED
      BY <1>5, <3>1, <3>2 DEF AbortIsSecond, SecondCloses, uv
  <2>6. (stopped => \A c \in Conns : hnd[c] # "open")'
    BY <1>5 DEF Aside, uv
  <2>7. QED
    BY <1>1, <1>3, <1>4, <1>5, <2>1, <2>2, <2>3, <2>4, <2>5, <2>6 DEF Aside
<1>6. CASE /\ ClosedBy(life, X, cs) /\ twice' = twice
           /\ opened' = [x \in Handles |-> opened[x] /\ x \notin X]
           /\ onClose' = [x \in Handles |-> IF x \in X THEN "release"
                                            ELSE onClose[x]]
  <2> \A x \in Handles : opened[x] \in BOOLEAN
    BY DEF TypeOK
  <2>1. \A x \in Handles :
          /\ x \in X => hnd'[x] = "closing" /\ ~opened'[x]
          /\ x \notin X => /\ hnd'[x] = life[x] /\ onClose'[x] = onClose[x]
                           /\ opened'[x] <=> opened[x]
    BY <1>6 DEF ClosedBy
  <2>2. \A x \in Handles : hnd[x] # "none" => hnd'[x] # "none"
    BY <2>1
  <2>3. LiveIsReal'
    <3>1. \A x \in held' : hnd'[x] # "none"
      BY <1>1, <2>2 DEF Aside, LiveIsReal, TypeOK
    <3>2. \A c \in Conns : writes'[c] # <<>> => hnd'[c] \in {"open", "closing"}
      BY <1>1, <2>1 DEF Aside, LiveIsReal, Handles
    <3>3. ASSUME NEW c \in Conns, hnd'[c] # "none" PROVE serverOf'[c] \in Servers
      <4>1. CASE hnd[c] # "none"
        BY <4>1 DEF Aside, LiveIsReal
      <4>2. CASE hnd[c] = "none"
        <5>1. c \in X
          BY <2>1, <3>3, <4>2 DEF Handles
        <5>2. QED
          BY <1>6, <4>2, <5>1 DEF ClosedBy
      <4>3. QED
        BY <4>1, <4>2
    <3>4. \A c \in Conns : serverOf'[c] \in Servers => hnd'[serverOf'[c]] # "none"
      BY <2>2 DEF Aside, LiveIsReal, Handles
    <3>5. QED
      BY <3>1, <3>2, <3>3, <3>4 DEF LiveIsReal
  <2>4. FieldFollows'
    BY <2>1 DEF Aside, FieldFollows
  <2>5. IdsAreUnique'
    BY <1>1 DEF Aside, IdsAreUnique
  <2>6. HeldOrCut'
    <3> SUFFICES ASSUME NEW x \in Handles, hnd'[x] \in {"open", "closing"}
                 PROVE  x \in held' \cup cut'
      BY DEF HeldOrCut
    <3>1. CASE x \in X /\ hnd[x] = "none"
      BY <1>6, <3>1 DEF ClosedBy, Aside, LiveIsReal
    <3>2. CASE x \in X /\ hnd[x] = "open"
      BY <1>1, <1>6, <3>2 DEF ClosedBy, Aside, HeldOrCut
    <3>3. CASE x \notin X
      BY <1>1, <2>1, <3>3 DEF Aside, HeldOrCut
    <3>4. QED
      BY <1>6, <3>1, <3>2, <3>3 DEF ClosedBy
  <2>7. AbortIsSecond'
    BY <1>6 DEF Aside, AbortIsSecond, SecondCloses, ClosedBy
  <2>8. (stopped => \A c \in Conns : hnd[c] # "open")'
    BY <2>1 DEF Aside, Handles
  <2>9. QED
    BY <1>1, <1>2, <1>3, <1>4, <1>6, <2>3, <2>4, <2>5, <2>6, <2>7, <2>8 DEF Aside
<1>7. QED
  <2>1. \/ /\ end' = "aborted" /\ UNCHANGED uv
           /\ \E x \in X : life[x] \in {"closing", "closed"}
           /\ twice' = {x \in X : life[x] \in {"closing", "closed"}}
        \/ /\ end' = "running" /\ twice' = twice
           /\ \A x \in X : life[x] \notin {"closing", "closed"}
           /\ hnd' = [x \in Handles |-> IF x \in X THEN "closing" ELSE life[x]]
           /\ opened' = [x \in Handles |-> opened[x] /\ x \notin X]
           /\ onClose' = [x \in Handles |-> IF x \in X THEN "release"
                                            ELSE onClose[x]]
           /\ Elements(closing') = X \cup Elements(closing)
           /\ Distinct(closing) /\ X \cap Elements(closing) = {}
                => Distinct(closing')
    BY <1>1, <1>2, CloseEffect
  <2>2. ASSUME end' = "running", \A x \in X : life[x] \notin {"closing", "closed"}
        PROVE  \A x \in X : /\ life[x] = hnd[x] /\ hnd[x] \in {"none", "open"}
                            /\ hnd[x] = "none" => x \in cs
    BY <1>2, <2>2 DEF Life
  <2>3. QED
    BY <1>2, <1>5, <1>6, <2>1, <2>2 DEF ClosedBy


(* Retain while libuv waits for events or the commands are taken.          *)
LEMMA RetainHandles ==
  ASSUME TypeOK, HandleInv, end = "running", lp \in {"poll", "jobs"},
         NEW h \in SUBSET held, NEW w \in [Conns -> Seq(Writes)],
         NEW cs \in SUBSET Handles, Retain(hnd, h, w, cs),
         \A c \in Conns : w[c] # <<>> => writes[c] # <<>>,
         cut \subseteq cut', cut' \in SUBSET Handles, cs \subseteq held \cup cut',
         held \ h \subseteq cut',
         id' \in [Handles -> Ids \cup {None}], \A x \in held : id'[x] = id[x],
         serverOf' \in [Conns -> Servers \cup {None}],
         \A c \in Conns : \/ serverOf'[c] = serverOf[c]
                          \/ /\ hnd[c] = "none" /\ serverOf'[c] \in Servers
                             /\ hnd[serverOf'[c]] # "none",
         \A c \in cs \cap Conns : hnd[c] = "none" => serverOf'[c] \in Servers,
         UNCHANGED <<stopped, batch, lp>>
  PROVE  /\ HandleTypes' /\ HandleInv'
         /\ held' = h /\ writes' = w
<1>1. Aside /\ ClosingListed /\ batch = <<>>
  BY DEF HandleInv, Aside, StopIsLast, ClosingListed
<1>2. /\ hnd \in [Handles -> Life] /\ batch \in Seq(Handles)
      /\ closing \in Seq(Handles)
      /\ lp \in {"poll", "jobs", "closing", "callback", "ended"}
  BY DEF TypeOK, Life
<1>3. Distinct(batch) /\ Distinct(closing)
  BY <1>2, ListsInjective DEF TypeOK
<1>4. /\ Aside'
      /\ held' = h /\ writes' = w
      /\ closing' \in Seq(Handles)
      /\ Distinct(closing') /\ Elements(batch') \cap Elements(closing') = {}
           => HandleTypes'
      /\ \/ end' = "aborted" /\ UNCHANGED uv
         \/ \E X \in SUBSET Handles : ClosedBy(hnd, X, cs)
  <2>1. /\ batch' \in Seq(Handles)
        /\ lp' \in {"poll", "jobs", "closing", "callback", "ended"}
        /\ Elements(batch') \subseteq Elements(batch)
        /\ UNCHANGED stopped
    BY <1>2
  <2>2. Distinct(batch')
    BY <1>3
  <2>3. \A x \in held \ h : x \in cut' \/ hnd[x] = "closed"
    OBVIOUS
  <2>4. Finishes(hnd, w)
    BY DEF Finishes
  <2>5. QED
    BY <1>1, <1>2, <2>1, <2>2, <2>3, <2>4, RetainKeeps, SMTT(60)
<1>5. Elements(batch) = {}
  BY <1>1, EmptyDistinct
<1>6. StopIsLast' /\ CallbackHeld'
  BY <1>4 DEF Aside, StopIsLast, CallbackHeld
<1>7. CASE end' = "aborted" /\ UNCHANGED uv
  <2>1. HandleTypes'
    BY <1>3, <1>4, <1>5, <1>7 DEF uv
  <2>2. HandleInv'
    BY <1>4, <1>6, <1>7 DEF HandleInv, Aside
  <2>3. QED
    BY <1>4, <2>1, <2>2
<1>8. ASSUME NEW X \in SUBSET Handles, ClosedBy(hnd, X, cs)
      PROVE  HandleTypes' /\ HandleInv' /\ held' = h /\ writes' = w
  <2>1. /\ \A x \in X : hnd[x] \in {"none", "open"} /\ hnd'[x] = "closing"
        /\ \A x \in Handles \ X : hnd'[x] = hnd[x]
        /\ Elements(closing') = X \cup Elements(closing)
    BY <1>8 DEF ClosedBy
  <2>2. X \cap Elements(closing) = {}
    BY <1>1, <2>1 DEF ClosingListed
  <2>3. HandleTypes'
    BY <1>3, <1>4, <1>5, <1>8, <2>2 DEF ClosedBy
  <2>4. Elements(closing) \subseteq Handles
    BY <1>2 DEF Elements
  <2>5. ClosingListed'
    BY <1>1, <1>2, <1>5, <2>1, <2>4 DEF ClosingListed
  <2>6. HandleInv'
    BY <1>4, <1>6, <2>5 DEF HandleInv, Aside
  <2>7. QED
    BY <1>4, <2>3, <2>6
<1>9. QED
  BY <1>4, <1>7, <1>8

(* A step that leaves the handles alone, or sees the loop to another phase *)
(* or its end.                                                             *)
LEMMA HandlesRest ==
  ASSUME TypeOK, HandleInv,
         \A c \in Conns : writes'[c] # <<>> => hnd[c] \in {"open", "closing"},
         UNCHANGED <<held, id, serverOf, uv, twice, cut, stopped, batch>>,
         end' \in {"running", "aborted", "crashed"},
         end' = "running" => end = "running",
         end' = "aborted" <=> end = "aborted",
         lp' \in {"poll", "jobs", "closing", "callback", "ended"},
         lp' = lp \/ (lp' # "callback" /\ lp # "callback"),
         lp' \in {"closing", "callback", "ended"}
           => lp \in {"closing", "callback", "ended"},
         lp' \in {"poll", "jobs", "ended"} => batch = <<>>,
         lp' = "ended" => stopped
  PROVE  HandleTypes' /\ HandleInv'
<1>1. HandleTypes'
  BY DEF TypeOK, HandleTypes, uv, Life
<1>2. LiveIsReal'
  BY DEF HandleInv, LiveIsReal, uv
<1>3. FieldFollows'
  BY DEF HandleInv, FieldFollows, uv
<1>4. IdsAreUnique' /\ HeldOrCut' /\ CallbackHeld'
  BY DEF HandleInv, IdsAreUnique, HeldOrCut, CallbackHeld, uv
<1>5. AbortIsSecond'
  BY DEF HandleInv, AbortIsSecond, SecondCloses, uv
<1>6. end' = "running" => ClosingListed'
  BY DEF HandleInv, ClosingListed, uv
<1>7. StopIsLast'
  BY DEF HandleInv, StopIsLast, uv
<1>8. QED
  BY <1>1, <1>2, <1>3, <1>4, <1>5, <1>6, <1>7 DEF HandleInv


LEMMA CommandTypes ==
  ASSUME TypeOK, queue # <<>>
  PROVE  /\ Head(queue) \in Commands
         /\ Tail(queue) \in Seq(Commands)
         /\ First("listen") => Target \in Servers
         /\ First("read") \/ First("close") => Target \in Conns
         /\ First("write") => Target \in Conns /\ Head(queue).w \in Writes
<1>1. Head(queue) \in Commands /\ Tail(queue) \in Seq(Commands)
  BY HeadTailProperties DEF TypeOK
<1>2. QED
  BY <1>1 DEF Commands, First, Target

(* A command to listen is for a server that is not there yet.              *)
LEMMA ListenIsNew ==
  ASSUME TypeOK, HandleInv, QueueInv, queue # <<>>, First("listen")
  PROVE  /\ Target \in Servers /\ hnd[Target] = "none"
         /\ opened[Target] /\ Target \notin held
<1>1. 1 \in 1..Len(queue) /\ Head(queue) = queue[1]
  BY HeadTailProperties, EmptySeq, LenProperties DEF TypeOK
<1>2. Target \in Servers /\ hnd[Target] = "none"
  BY <1>1, CommandTypes DEF QueueInv, ListensOnce, First, Target
<1>3. QED
  BY <1>2 DEF HandleInv, FieldFollows, LiveIsReal, Handles

(* A handle x that opens under a free id of its container.                 *)
LEMMA OpensHandle ==
  ASSUME TypeOK, HandleInv, end = "running", NEW kind \in {Servers, Conns},
         NEW x \in kind, hnd[x] = "none", NewId(x, kind),
         held' = held \cup {x}, hnd' = [hnd EXCEPT ![x] = "open"],
         serverOf' \in [Conns -> Servers \cup {None}],
         \A c \in Conns : \/ serverOf'[c] = serverOf[c]
                          \/ /\ c = x /\ serverOf'[c] \in Servers
                             /\ hnd[serverOf'[c]] # "none",
         x \in Conns => ~stopped /\ serverOf'[x] \in Servers,
         UNCHANGED <<opened, onClose, closing, end, twice, cut, stopped, lp,
                     batch, writes>>
  PROVE  HandleTypes' /\ HandleInv'
<1>1. /\ x \in Handles /\ x \notin held /\ opened[x]
  BY DEF HandleInv, LiveIsReal, FieldFollows, Handles
<1>2. PICK i \in Ids \ {id[y] : y \in held \cap kind} : id' = [id EXCEPT ![x] = i]
  BY DEF NewId
<1>3. /\ hnd'[x] = "open" /\ \A y \in Handles \ {x} : hnd'[y] = hnd[y]
      /\ id'[x] = i /\ \A y \in Handles \ {x} : id'[y] = id[y]
  BY <1>1, <1>2 DEF TypeOK
<1>4. HandleTypes'
  <2>1. hnd' \in [Handles -> Life] /\ id' \in [Handles -> Ids \cup {None}]
    BY <1>1, <1>2 DEF TypeOK, Life
  <2>2. held' \in SUBSET Handles
    BY <1>1 DEF TypeOK
  <2>3. QED
    BY <2>1, <2>2 DEF TypeOK, HandleTypes
<1>5. LiveIsReal'
  <2>1. \A y \in Handles : hnd[y] # "none" => hnd'[y] # "none"
    BY <1>3
  <2>2. \A y \in held' : hnd'[y] # "none"
    BY <1>3, <2>1 DEF HandleInv, LiveIsReal, TypeOK
  <2>3. \A c \in Conns : writes'[c] # <<>> => hnd'[c] \in {"open", "closing"}
    BY <1>3 DEF HandleInv, LiveIsReal, Handles
  <2>4. \A c \in Conns : hnd'[c] # "none" => serverOf'[c] \in Servers
    BY <1>3 DEF HandleInv, LiveIsReal, Handles
  <2>5. \A c \in Conns : serverOf'[c] \in Servers => hnd'[serverOf'[c]] # "none"
    BY <2>1 DEF HandleInv, LiveIsReal, Handles
  <2>6. QED
    BY <2>2, <2>3, <2>4, <2>5 DEF LiveIsReal
<1>6. FieldFollows'
  BY <1>1, <1>3 DEF HandleInv, FieldFollows
<1>7. IdsAreUnique'
  <2>1. \A y \in held \cap kind : id[y] # i
    BY <1>2
  <2>2. ASSUME NEW other \in {Servers, Conns},
               NEW y \in held' \cap other, NEW z \in held' \cap other,
               id'[y] = id'[z]
        PROVE  y = z
    <3>1. CASE y # x /\ z # x
      <4>1. id[y] = id[z] /\ y \in held \cap other /\ z \in held \cap other
        BY <1>3, <2>2, <3>1 DEF TypeOK, Handles
      <4>2. QED
        BY <4>1 DEF HandleInv, IdsAreUnique
    <3>2. CASE y = x \/ z = x
      <4>1. other = kind
        BY <3>2, HandlesDisjoint
      <4>2. QED
        BY <1>3, <2>1, <2>2, <3>2, <4>1 DEF TypeOK, Handles
    <3>3. QED
      BY <3>1, <3>2
  <2>3. QED
    BY <2>2 DEF IdsAreUnique
<1>8. HeldOrCut' /\ CallbackHeld'
  BY <1>3 DEF HandleInv, HeldOrCut, CallbackHeld
<1>9. ClosingListed'
  <2>1. ClosingListed
    BY DEF HandleInv
  <2>2. Elements(closing) \subseteq Handles /\ \A k \in 1..Len(batch) : batch[k] \in Handles
    BY ElementOfSeq DEF Elements, TypeOK
  <2>3. \A y \in Handles : hnd[y] \in {"closing", "closed"} => hnd'[y] = hnd[y]
    BY <1>3
  <2>4. \A y \in Handles : hnd'[y] = "closing" => hnd[y] = "closing"
    BY <1>3
  <2>5. QED
    BY <2>1, <2>2, <2>3, <2>4 DEF ClosingListed
<1>10. StopIsLast'
  BY <1>3, HandlesDisjoint DEF HandleInv, StopIsLast, Handles
<1>11. AbortIsSecond'
  BY DEF HandleInv, AbortIsSecond, SecondCloses
<1>12. QED
  BY <1>4, <1>5, <1>6, <1>7, <1>8, <1>9, <1>10, <1>11 DEF HandleInv

(* uv_walk closes what is open.                                            *)
LEMMA StopHandles ==
  ASSUME TypeOK, HandleInv, end = "running", lp = "jobs", Stop,
         UNCHANGED <<lp, batch>>
  PROVE  HandleTypes' /\ HandleInv'
<1> DEFINE open == {h \in Handles : hnd[h] = "open"}
<1>1. ClosingListed /\ batch = <<>>
  BY DEF HandleInv, ClosingListed
<1>2. /\ \A h \in open : hnd'[h] = "closing"
      /\ \A h \in Handles \ open : hnd'[h] = hnd[h]
      /\ hnd' \in [Handles -> Life]
      /\ onClose' \in [Handles -> {"none", "release", "nothing"}]
      /\ \A h \in Handles : onClose'[h] = IF h \in open THEN "nothing"
                                          ELSE onClose[h]
      /\ stopped' = TRUE
  BY DEF Stop, TypeOK, Life
<1>3. PICK order \in SetToSeqs(open) : closing' = order \o closing
  BY DEF Stop
<1>4. IsFiniteSet(open)
  BY IdsSuffice, FS_Subset
<1>5. order \in [1..Cardinality(open) -> open] /\ IsInjective(order)
  BY <1>4 DEF SetToSeqs, IsInjective
<1>6. /\ order \in Seq(Handles) /\ Distinct(order) /\ Elements(order) = open
      /\ closing \in Seq(Handles)
  <2>1. order \in Seq(open) /\ Distinct(order) /\ Elements(order) = open
    BY <1>4, <1>5, OrderOfSet
  <2>2. order \in Seq(Handles)
    BY <2>1, SeqMonotonic
  <2>3. QED
    BY <2>1, <2>2 DEF TypeOK
<1>7. /\ closing' \in Seq(Handles)
      /\ Elements(closing') = open \cup Elements(closing)
      /\ Distinct(closing) /\ open \cap Elements(closing) = {} => Distinct(closing')
  BY <1>3, <1>6, ConcatDistinct
<1>8. Distinct(closing) /\ open \cap Elements(closing) = {}
  <2>1. Distinct(closing)
    BY <1>6, ListsInjective DEF TypeOK
  <2>2. QED
    BY <1>1, <2>1 DEF ClosingListed
<1>9. IsInjective(batch' \o closing')
  BY <1>1, <1>7, <1>8, ListsInjective, EmptyDistinct DEF TypeOK
<1>10. HandleTypes'
  BY <1>2, <1>7, <1>9 DEF HandleTypes, TypeOK, Stop
<1>11. UNCHANGED <<held, id, serverOf, opened, end, twice, cut, writes>>
  BY DEF Stop, replies
<1> HIDE DEF open
<1>12. /\ open \in SUBSET Handles
       /\ \A h \in open : hnd[h] = "open"
       /\ \A h \in Handles \ open : hnd[h] # "open"
  BY DEF open
<1>13. LiveIsReal'
  <2>1. \A h \in Handles : (hnd[h] = "none") <=> (hnd'[h] = "none")
    BY <1>2, <1>12
  <2>2. \A h \in Handles : hnd[h] \in {"open", "closing"}
                             => hnd'[h] \in {"open", "closing"}
    BY <1>2, <1>12
  <2>3. /\ held \in SUBSET Handles /\ Conns \subseteq Handles
        /\ \A c \in Conns : serverOf[c] \in Servers => serverOf[c] \in Handles
    BY DEF TypeOK, Handles
  <2>4. QED
    BY <1>11, <2>1, <2>2, <2>3 DEF HandleInv, LiveIsReal
<1>14. FieldFollows'
  BY <1>2, <1>11, <1>12 DEF HandleInv, FieldFollows
<1>15. IdsAreUnique' /\ HeldOrCut' /\ CallbackHeld' /\ AbortIsSecond'
  BY <1>2, <1>11, <1>12
     DEF HandleInv, IdsAreUnique, HeldOrCut, CallbackHeld, AbortIsSecond,
         SecondCloses
<1>16. ClosingListed'
  <2>1. Elements(closing) \subseteq Handles
    BY <1>6 DEF Elements
  <2>2. \A h \in Elements(closing') : hnd'[h] = "closing"
    BY <1>1, <1>2, <1>7, <1>12, <2>1 DEF ClosingListed
  <2>3. \A h \in Handles : hnd'[h] = "closing" => h \in Elements(closing')
    BY <1>1, <1>2, <1>7, <1>12, EmptyDistinct DEF ClosingListed
  <2>4. QED
    BY <1>1, <2>2, <2>3 DEF ClosingListed
<1>17. StopIsLast'
  BY <1>2, <1>12 DEF StopIsLast, Handles
<1>18. QED
  BY <1>10, <1>13, <1>14, <1>15, <1>16, <1>17 DEF HandleInv


(* uv__run_closing_handles takes what has been closed until now.           *)
LEMMA PollEndHandles ==
  ASSUME TypeOK, HandleInv, end = "running", PollEnd, UNCHANGED stopped
  PROVE  HandleTypes' /\ HandleInv'
<1>1. /\ ClosingListed /\ batch = <<>> /\ Elements(batch) = {}
      /\ batch' = closing /\ closing' = <<>> /\ Elements(closing') = {}
      /\ lp' = "closing"
  BY EmptyDistinct DEF HandleInv, ClosingListed, PollEnd
<1>2. UNCHANGED <<held, id, serverOf, hnd, opened, onClose, end, twice, cut,
                  writes>>
  BY DEF PollEnd, replies
<1>3. HandleTypes'
  <2>1. closing' \in Seq(Handles) /\ batch' \in Seq(Handles)
    BY <1>1 DEF TypeOK
  <2>2. IsInjective(batch' \o closing')
    BY <1>1, <2>1, ListsInjective, EmptyDistinct DEF TypeOK
  <2>3. lp' \in {"poll", "jobs", "closing", "callback", "ended"}
    BY <1>1
  <2>4. QED
    BY <1>2, <2>1, <2>2, <2>3 DEF HandleTypes, TypeOK, Life
<1>4. LiveIsReal' /\ FieldFollows'
  BY <1>2 DEF HandleInv, LiveIsReal, FieldFollows
<1>5. IdsAreUnique' /\ HeldOrCut' /\ CallbackHeld' /\ AbortIsSecond'
  BY <1>1, <1>2 DEF HandleInv, IdsAreUnique, HeldOrCut, CallbackHeld,
                    AbortIsSecond, SecondCloses
<1>6. ClosingListed'
  <2>1. \A k \in 1..Len(closing) : closing[k] \in Elements(closing)
    BY DEF Elements
  <2>2. QED
    BY <1>1, <1>2, <2>1 DEF ClosingListed
<1>7. StopIsLast'
  BY <1>1, <1>2 DEF HandleInv, StopIsLast
<1>8. QED
  BY <1>3, <1>4, <1>5, <1>6, <1>7 DEF HandleInv

(* The handle uv__finish_close has before it is one that closes.           *)
LEMMA FirstOfBatch ==
  ASSUME TypeOK, HandleInv, end = "running", batch # <<>>
  PROVE  /\ 1 \in 1..Len(batch) /\ Head(batch) = batch[1]
         /\ Head(batch) \in Handles
         /\ Head(batch) \notin Elements(closing)
         /\ Distinct(batch) /\ Distinct(closing)
         /\ Elements(batch) \cap Elements(closing) = {}
         /\ lp = "callback" => hnd[Head(batch)] = "closed"
         /\ lp # "callback" => hnd[Head(batch)] = "closing"
<1>1. batch \in Seq(Handles) /\ closing \in Seq(Handles)
  BY DEF TypeOK
<1>2. /\ Distinct(batch) /\ Distinct(closing)
      /\ Elements(batch) \cap Elements(closing) = {}
  BY <1>1, ListsInjective DEF TypeOK
<1>3. 1 \in 1..Len(batch) /\ Head(batch) = batch[1] /\ Head(batch) \in Elements(batch)
  BY <1>1, TailDistinct DEF Elements
<1>4. QED
  BY <1>1, <1>2, <1>3, TailDistinct DEF HandleInv, ClosingListed

LEMMA FinishCloseHandles ==
  ASSUME TypeOK, HandleInv, end = "running", FinishClose, UNCHANGED stopped
  PROVE  HandleTypes' /\ HandleInv'
<1> DEFINE h == Head(batch)
           left == [c \in Conns |-> IF c = h THEN <<>> ELSE writes[c]]
           life == [hnd EXCEPT ![h] = "closed"]
<1>1. /\ lp = "closing" /\ lp' = "callback" /\ batch # <<>> /\ batch' = batch
      /\ Retain(life, held, left, {})
      /\ UNCHANGED <<id, serverOf, cut>>
  BY DEF FinishClose
<1>2. /\ h = batch[1] /\ 1 \in 1..Len(batch) /\ h \in Handles
      /\ hnd[h] = "closing" /\ h \notin Elements(closing)
      /\ Distinct(batch) /\ Distinct(closing)
      /\ Elements(batch) \cap Elements(closing) = {}
  BY <1>1, FirstOfBatch
<1>3. /\ hnd \in [Handles -> Life] /\ writes \in [Conns -> Seq(Writes)]
      /\ batch \in Seq(Handles) /\ closing \in Seq(Handles)
      /\ held \in SUBSET Handles /\ cut \in SUBSET Handles
      /\ id \in [Handles -> Ids \cup {None}]
      /\ serverOf \in [Conns -> Servers \cup {None}]
  BY DEF TypeOK, Life
<1>4. /\ life \in [Handles -> Life] /\ left \in [Conns -> Seq(Writes)]
      /\ life[h] = "closed" /\ \A x \in Handles \ {h} : life[x] = hnd[x]
      /\ \A c \in Conns : left[c] = IF c = h THEN <<>> ELSE writes[c]
  BY <1>2, <1>3 DEF Life
<1>0. h \in held \cup cut
  BY <1>2 DEF HandleInv, HeldOrCut
<1>A. held' = held => CallbackHeld'
  BY <1>0, <1>1 DEF CallbackHeld
<1> HIDE DEF life, left, h
<1>5. Aside /\ ClosingListed
  BY DEF HandleInv, Aside, StopIsLast
<1>6. /\ Aside'
      /\ held' = held /\ writes' = left
      /\ closing' \in Seq(Handles)
      /\ Distinct(closing') /\ Elements(batch') \cap Elements(closing') = {}
           => HandleTypes'
      /\ \/ end' = "aborted" /\ UNCHANGED uv
         \/ \E X \in SUBSET Handles : ClosedBy(life, X, {})
  <2>1. Finishes(life, left)
    BY <1>2, <1>4 DEF Finishes
  <2>2. \A c \in Conns : left[c] # <<>> => writes[c] # <<>>
    BY <1>4
  <2>3. /\ batch' \in Seq(Handles) /\ Distinct(batch')
        /\ Elements(batch') \subseteq Elements(batch)
        /\ lp' \in {"poll", "jobs", "closing", "callback", "ended"}
        /\ cut' \in SUBSET Handles /\ cut \subseteq cut'
        /\ id' \in [Handles -> Ids \cup {None}]
        /\ serverOf' \in [Conns -> Servers \cup {None}]
        /\ \A x \in held : id'[x] = id[x]
        /\ \A c \in Conns : serverOf'[c] = serverOf[c]
    BY <1>1, <1>2, <1>3
  <2>4. /\ held \in SUBSET held /\ {} \in SUBSET Handles
        /\ {} \subseteq held \cup cut'
        /\ \A c \in {} \cap Conns : hnd[c] = "none" => serverOf'[c] \in Servers
        /\ \A x \in held \ held : x \in cut' \/ hnd[x] = "closed"
    OBVIOUS
  <2>5. QED
    BY <1>1, <1>4, <1>5, <2>1, <2>2, <2>3, <2>4, RetainKeeps
<1>7. CASE end' = "aborted" /\ UNCHANGED uv
  <2>1. HandleTypes'
    BY <1>1, <1>2, <1>6, <1>7 DEF uv
  <2>2. StopIsLast'
    BY <1>1, <1>6, <1>7 DEF Aside, StopIsLast
  <2>3. QED
    BY <1>A, <1>6, <1>7, <2>1, <2>2 DEF HandleInv, Aside
<1>8. ASSUME NEW X \in SUBSET Handles, ClosedBy(life, X, {})
      PROVE  HandleTypes' /\ HandleInv'
  <2>1. /\ \A x \in X : hnd[x] = "open" /\ hnd'[x] = "closing"
        /\ \A x \in Handles \ X : hnd'[x] = life[x]
        /\ Elements(closing') = X \cup Elements(closing)
        /\ h \notin X
    BY <1>2, <1>8 DEF ClosedBy
  <2>2. Elements(closing) \subseteq Handles /\ Elements(batch) \subseteq Handles
    BY <1>3 DEF Elements
  <2>3. X \cap Elements(closing) = {} /\ X \cap Elements(batch) = {}
    BY <1>1, <1>5, <2>1 DEF ClosingListed, Elements
  <2>4. HandleTypes'
    BY <1>1, <1>2, <1>6, <1>8, <2>1, <2>3 DEF ClosedBy
  <2>5. ClosingListed'
    <3>1. \A x \in Elements(closing') : hnd'[x] = "closing"
      BY <1>2, <1>4, <1>5, <2>1, <2>2 DEF ClosingListed
    <3>2. ASSUME NEW k \in 1..Len(batch)
          PROVE  hnd'[batch[k]] = IF k = 1 THEN "closed" ELSE "closing"
      <4>1. batch[k] \in Elements(batch) /\ (k # 1 => batch[k] # h)
        BY <1>2 DEF Elements, Distinct
      <4>2. QED
        BY <1>1, <1>2, <1>4, <1>5, <2>1, <2>2, <2>3, <4>1 DEF ClosingListed
    <3>3. \A x \in Handles : hnd'[x] = "closing"
            => x \in Elements(closing') \cup Elements(batch')
      BY <1>1, <1>2, <1>4, <1>5, <2>1 DEF ClosingListed
    <3>4. QED
      BY <1>1, <3>1, <3>2, <3>3 DEF ClosingListed
  <2>6. StopIsLast'
    <3>1. stopped => X \cap Conns = {}
      BY <2>1 DEF HandleInv, StopIsLast
    <3>2. stopped => Elements(closing) \cap Conns = {}
      BY <1>1 DEF HandleInv, StopIsLast
    <3>3. QED
      BY <1>1, <1>6, <2>1, <3>1, <3>2 DEF Aside, StopIsLast
  <2>7. QED
    BY <1>A, <1>6, <2>4, <2>5, <2>6 DEF HandleInv, Aside
<1>9. QED
  BY <1>6, <1>7, <1>8

LEMMA CloseCallbackHandles ==
  ASSUME TypeOK, HandleInv, end = "running", CloseCallback, UNCHANGED stopped
  PROVE  HandleTypes' /\ HandleInv'
<1> DEFINE h == Head(batch)
           gone == IF onClose[h] = "nothing" THEN {} ELSE Holder(h)
<1>1. /\ lp = "callback" /\ lp' = "closing" /\ batch' = Tail(batch)
      /\ Retain(hnd, held \ gone, writes, {})
      /\ cut' = cut \cup (gone \ {h})
      /\ UNCHANGED <<id, serverOf>>
  BY DEF CloseCallback
<1>2. Aside /\ ClosingListed /\ batch # <<>>
  BY <1>1 DEF HandleInv, Aside, StopIsLast, ClosingListed
<1>3. /\ h = batch[1] /\ 1 \in 1..Len(batch) /\ h \in Handles
      /\ hnd[h] = "closed" /\ h \notin Elements(closing)
      /\ Distinct(batch) /\ Distinct(closing)
      /\ Elements(batch) \cap Elements(closing) = {}
  BY <1>1, <1>2, FirstOfBatch
<1>4. /\ hnd \in [Handles -> Life] /\ writes \in [Conns -> Seq(Writes)]
      /\ batch \in Seq(Handles) /\ closing \in Seq(Handles)
      /\ held \in SUBSET Handles /\ cut \in SUBSET Handles
      /\ id \in [Handles -> Ids \cup {None}]
      /\ serverOf \in [Conns -> Servers \cup {None}]
  BY DEF TypeOK, Life
<1>5. gone \subseteq held
  BY DEF Conn, Server, Holder
<1>0. CallbackHeld'
  BY <1>1 DEF CallbackHeld
<1> HIDE DEF gone, h
<1>6. /\ batch' \in Seq(Handles) /\ Distinct(batch')
      /\ Elements(batch) = {h} \cup Elements(batch') /\ h \notin Elements(batch')
      /\ Len(batch) \in Nat /\ Len(batch') = Len(batch) - 1
      /\ \A k \in 1..Len(batch') : batch'[k] = batch[k + 1]
  BY <1>1, <1>2, <1>3, <1>4, TailDistinct DEF h
<1>7. /\ Aside'
      /\ held' = held \ gone /\ writes' = writes
      /\ closing' \in Seq(Handles)
      /\ Distinct(closing') /\ Elements(batch') \cap Elements(closing') = {}
           => HandleTypes'
      /\ \/ end' = "aborted" /\ UNCHANGED uv
         \/ \E X \in SUBSET Handles : ClosedBy(hnd, X, {})
  <2>1. /\ cut \subseteq cut' /\ cut' \in SUBSET Handles
        /\ \A x \in held \ (held \ gone) : x \in cut' \/ hnd[x] = "closed"
    BY <1>1, <1>3, <1>4, <1>5
  <2>2. /\ lp' \in {"poll", "jobs", "closing", "callback", "ended"}
        /\ id' \in [Handles -> Ids \cup {None}]
        /\ serverOf' \in [Conns -> Servers \cup {None}]
        /\ \A x \in held : id'[x] = id[x]
        /\ \A c \in Conns : serverOf'[c] = serverOf[c]
        /\ Elements(batch') \subseteq Elements(batch)
    BY <1>1, <1>4, <1>6
  <2>3. /\ held \ gone \in SUBSET held /\ {} \in SUBSET Handles
        /\ {} \subseteq held \cup cut'
        /\ \A c \in {} \cap Conns : hnd[c] = "none" => serverOf'[c] \in Servers
    OBVIOUS
  <2>4. Finishes(hnd, writes)
    BY DEF Finishes
  <2>5. QED
    BY <1>1, <1>2, <1>4, <1>6, <2>1, <2>2, <2>3, <2>4, RetainKeeps
<1>8. CASE end' = "aborted" /\ UNCHANGED uv
  <2>1. HandleTypes'
    BY <1>3, <1>6, <1>7, <1>8 DEF uv
  <2>2. StopIsLast'
    BY <1>1, <1>7, <1>8 DEF Aside, StopIsLast
  <2>3. QED
    BY <1>0, <1>7, <1>8, <2>1, <2>2 DEF HandleInv, Aside
<1>9. ASSUME NEW X \in SUBSET Handles, ClosedBy(hnd, X, {})
      PROVE  HandleTypes' /\ HandleInv'
  <2>1. /\ \A x \in X : hnd[x] = "open" /\ hnd'[x] = "closing"
        /\ \A x \in Handles \ X : hnd'[x] = hnd[x]
        /\ Elements(closing') = X \cup Elements(closing)
    BY <1>9 DEF ClosedBy
  <2>2. Elements(closing) \subseteq Handles /\ Elements(batch) \subseteq Handles
    BY <1>4 DEF Elements
  <2>3. \A k \in 1..Len(batch') : hnd[batch'[k]] = "closing"
    <3> TAKE k \in 1..Len(batch')
    <3>1. k + 1 \in 1..Len(batch) /\ k + 1 # 1
      BY <1>6
    <3>2. QED
      BY <1>2, <1>6, <3>1 DEF ClosingListed
  <2>4. X \cap Elements(closing) = {} /\ X \cap Elements(batch') = {}
    BY <1>2, <2>1, <2>3 DEF ClosingListed, Elements
  <2>5. HandleTypes'
    BY <1>3, <1>6, <1>7, <1>9, <2>1, <2>4 DEF ClosedBy
  <2>6. ClosingListed'
    <3>1. \A x \in Elements(closing') : hnd'[x] = "closing"
      BY <1>2, <2>1, <2>2 DEF ClosingListed
    <3>2. \A k \in 1..Len(batch') : hnd'[batch'[k]] = "closing"
      BY <1>6, <2>1, <2>2, <2>3, <2>4 DEF Elements
    <3>3. \A x \in Handles : hnd'[x] = "closing"
            => x \in Elements(closing') \cup Elements(batch')
      BY <1>2, <1>3, <1>6, <2>1 DEF ClosingListed
    <3>4. QED
      BY <1>1, <3>1, <3>2, <3>3 DEF ClosingListed
  <2>7. StopIsLast'
    <3>1. stopped => X \cap Conns = {}
      BY <2>1 DEF HandleInv, StopIsLast
    <3>2. stopped => Elements(closing) \cap Conns = {}
      BY <1>1 DEF HandleInv, StopIsLast
    <3>3. QED
      BY <1>1, <1>7, <2>1, <3>1, <3>2 DEF Aside, StopIsLast
  <2>8. QED
    BY <1>0, <1>7, <2>5, <2>6, <2>7 DEF HandleInv, Aside
<1>10. QED
  BY <1>7, <1>8, <1>9


(* A command is taken.                                                     *)
LEMMA CommandHandles ==
  ASSUME TypeOK, HandleInv, QueueInv, end = "running", TakeCommand
  PROVE  HandleTypes' /\ HandleInv'
<1> USE DEF objects, replies, reads, users
<1>1. /\ lp = "jobs" /\ queue # <<>> /\ UNCHANGED <<lp, batch>>
      /\ held \in SUBSET held /\ held \in SUBSET Handles /\ cut \in SUBSET Handles
      /\ writes \in [Conns -> Seq(Writes)] /\ serverOf \in [Conns -> Servers \cup {None}]
      /\ id \in [Handles -> Ids \cup {None}]
      /\ lp \in {"poll", "jobs", "closing", "callback", "ended"}
  BY DEF TakeCommand, TypeOK
<1>2. batch = <<>>
  BY <1>1 DEF HandleInv, ClosingListed
<1>3. CASE ListenSucceeds
  <2>1. Target \in Servers /\ hnd[Target] = "none"
    BY <1>1, <1>3, ListenIsNew DEF ListenSucceeds
  <2>2. Target \notin Conns
    BY <2>1, HandlesDisjoint
  <2>3. QED
    BY <1>1, <1>3, <2>1, <2>2, OpensHandle DEF ListenSucceeds
<1>4. CASE ListenFails
  <2>1. /\ Target \in Servers /\ hnd[Target] = "none" /\ Target \notin held
        /\ Target \notin Conns
    BY <1>1, <1>4, ListenIsNew, HandlesDisjoint DEF ListenFails
  <2>2. /\ {Target} \in SUBSET Handles /\ {Target} \cap Conns = {}
        /\ cut' = cut \cup {Target} /\ cut' \in SUBSET Handles
        /\ Retain(hnd, held, writes, {Target})
        /\ UNCHANGED <<serverOf, stopped, lp, batch>>
    BY <1>1, <1>4, <2>1 DEF ListenFails, Handles
  <2>3. id' \in [Handles -> Ids \cup {None}] /\ \A x \in held : id'[x] = id[x]
    BY <1>1, <1>4, <2>1 DEF ListenFails, NewId
  <2>4. QED
    BY <1>1, <2>2, <2>3, RetainHandles
<1>5. CASE ReadNobody \/ ReadStarts \/ WriteNobody \/ WriteFails
  BY <1>1, <1>2, <1>5, HandlesRest
     DEF ReadNobody, ReadStarts, WriteNobody, WriteFails, HandleInv, LiveIsReal,
         TypeOK
<1>6. CASE ReadFails
  <2>1. PICK c \in Named : Retain(hnd, held, writes, {c})
    BY <1>6 DEF ReadFails
  <2>2. c \in held \cap Conns /\ {c} \in SUBSET Handles /\ hnd[c] # "none"
    BY <2>1 DEF Named, Conn, Handles, HandleInv, LiveIsReal
  <2>3. UNCHANGED <<id, serverOf, cut, stopped, lp, batch>>
    BY <1>1, <1>6 DEF ReadFails
  <2>4. QED
    BY <1>1, <2>1, <2>2, <2>3, RetainHandles, SMTT(60)
<1>7. CASE WriteStarts
  <2>1. PICK c \in Named : /\ hnd[c] = "open"
                           /\ writes' = [writes EXCEPT ![c] = Append(@, Head(queue).w)]
    BY <1>7 DEF WriteStarts
  <2>2. \A d \in Conns : writes'[d] # <<>> => hnd[d] \in {"open", "closing"}
    BY <1>1, <2>1 DEF HandleInv, LiveIsReal
  <2>3. QED
    BY <1>1, <1>2, <1>7, <2>2, HandlesRest DEF WriteStarts, TypeOK
<1>8. CASE Release
  <2>1. /\ held \ Conn(id[Target]) \in SUBSET held /\ {} \in SUBSET Handles
        /\ held \ (held \ Conn(id[Target])) \subseteq cut'
        /\ cut \subseteq cut' /\ cut' \in SUBSET Handles
        /\ {} \subseteq held \cup cut'
        /\ \A c \in {} \cap Conns : hnd[c] = "none" => serverOf'[c] \in Servers
    BY <1>1, <1>8 DEF Release, Conn, Handles
  <2>2. /\ Retain(hnd, held \ Conn(id[Target]), writes, {})
        /\ UNCHANGED <<id, serverOf, stopped, lp, batch>>
    BY <1>1, <1>8 DEF Release
  <2>3. QED
    BY <1>1, <2>1, <2>2, RetainHandles
<1>9. CASE Stop
  BY <1>1, <1>9, StopHandles
<1>10. QED
  BY <1>3, <1>4, <1>5, <1>6, <1>7, <1>8, <1>9 DEF TakeCommand

(* An event of the poll.                                                   *)
LEMMA NetworkHandles ==
  ASSUME TypeOK, HandleInv, end = "running", Network
  PROVE  HandleTypes' /\ HandleInv'
<1> USE DEF objects, replies, reads
<1>1. /\ lp = "poll" /\ UNCHANGED <<lp, batch, stopped>>
      /\ held \in SUBSET held /\ held \in SUBSET Handles /\ cut \in SUBSET Handles
      /\ writes \in [Conns -> Seq(Writes)] /\ serverOf \in [Conns -> Servers \cup {None}]
      /\ id \in [Handles -> Ids \cup {None}]
      /\ lp \in {"poll", "jobs", "closing", "callback", "ended"}
  BY DEF Network, PollStep, TypeOK
<1>2. batch = <<>>
  BY <1>1 DEF HandleInv, ClosingListed
<1>3. ASSUME NEW s \in Servers, NEW c \in Conns, Connect(s, c)
      PROVE  HandleTypes' /\ HandleInv'
  <2>1. hnd[c] = "none" /\ hnd[s] = "open" /\ ~stopped
    BY <1>3 DEF Connect, Incoming
  <2>2. /\ serverOf' = [serverOf EXCEPT ![c] = s]
        /\ serverOf' \in [Conns -> Servers \cup {None}]
        /\ \A d \in Conns : serverOf'[d] = IF d = c THEN s ELSE serverOf[d]
    BY <1>1, <1>3 DEF Connect
  <2>3. /\ NewId(c, Conns) /\ held' = held \cup {c}
        /\ hnd' = [hnd EXCEPT ![c] = "open"]
        /\ UNCHANGED <<opened, onClose, closing, end, twice, cut, stopped, lp,
                       batch, writes>>
    BY <1>1, <1>3 DEF Connect
  <2>4. QED
    BY <2>1, <2>2, <2>3, OpensHandle
<1>4. ASSUME NEW s \in Servers, NEW c \in Conns, AcceptFails(s, c)
      PROVE  HandleTypes' /\ HandleInv'
  <2>1. PICK t \in Server(id[s]) : serverOf' = [serverOf EXCEPT ![c] = t]
    BY <1>4 DEF AcceptFails
  <2>2. t \in Servers /\ hnd[t] # "none"
    BY <2>1 DEF Server, HandleInv, LiveIsReal
  <2>3. hnd[c] = "none" /\ c \notin held
    BY <1>4 DEF AcceptFails, Incoming, HandleInv, LiveIsReal
  <2>4. /\ serverOf' \in [Conns -> Servers \cup {None}]
        /\ serverOf'[c] = t /\ \A d \in Conns \ {c} : serverOf'[d] = serverOf[d]
    BY <1>1, <2>1, <2>2
  <2>5. id' \in [Handles -> Ids \cup {None}] /\ \A x \in held : id'[x] = id[x]
    BY <1>1, <1>4, <2>3 DEF AcceptFails, NewId
  <2>6. /\ {c} \in SUBSET Handles
        /\ cut' = cut \cup {c} /\ cut' \in SUBSET Handles
        /\ Retain(hnd, held, writes, {c})
    BY <1>1, <1>4 DEF AcceptFails, Handles
  <2>7. QED
    BY <1>1, <2>2, <2>3, <2>4, <2>5, <2>6, RetainHandles, SMTT(60)
<1>5. ASSUME NEW s \in Servers, NEW c \in Conns, ConnectNobody(s, c)
      PROVE  HandleTypes' /\ HandleInv'
  BY <1>1, <1>2, <1>5, HandlesRest DEF ConnectNobody, HandleInv, LiveIsReal, TypeOK
<1>6. ASSUME NEW c \in Conns, ReadData(c)
      PROVE  HandleTypes' /\ HandleInv'
  BY <1>1, <1>2, <1>6, HandlesRest DEF ReadData, HandleInv, LiveIsReal, TypeOK
<1>7. ASSUME NEW c \in Conns, ReadEnd(c) \/ ReadError(c)
      PROVE  HandleTypes' /\ HandleInv'
  <2>1. /\ Retain(hnd, held, writes, Conn(id[c]))
        /\ UNCHANGED <<id, serverOf, cut>>
    BY <1>7 DEF ReadEnd, ReadError
  <2>2. /\ Conn(id[c]) \in SUBSET Handles /\ Conn(id[c]) \subseteq held
        /\ \A d \in Conn(id[c]) : hnd[d] # "none"
    BY DEF Conn, Handles, HandleInv, LiveIsReal
  <2>3. QED
    BY <1>1, <2>1, <2>2, RetainHandles
<1>8. ASSUME NEW c \in Conns, WriteDone(c)
      PROVE  HandleTypes' /\ HandleInv'
  <2> DEFINE w == [writes EXCEPT ![c] = Tail(@)]
  <2>1. /\ Retain(hnd, held, w, {}) /\ writes[c] # <<>>
        /\ UNCHANGED <<id, serverOf, cut>>
    BY <1>8 DEF WriteDone
  <2>2. w \in [Conns -> Seq(Writes)]
    BY <1>1, <2>1, TailDistinct
  <2>3. \A d \in Conns : w[d] # <<>> => writes[d] # <<>>
    BY <1>1, <2>1
  <2>4. /\ {} \in SUBSET Handles /\ {} \subseteq held \cup cut'
        /\ \A d \in {} \cap Conns : hnd[d] = "none" => serverOf'[d] \in Servers
    OBVIOUS
  <2> HIDE DEF w
  <2>5. QED
    BY <1>1, <2>1, <2>2, <2>3, <2>4, RetainHandles
<1>9. QED
  BY <1>3, <1>4, <1>5, <1>6, <1>7, <1>8 DEF Network, PollStep

LEMMA HandleStep ==
  ASSUME TypeOK, HandleInv, QueueInv, [Next]_vars
  PROVE  HandleTypes' /\ HandleInv'
<1> USE DEF objects, replies, reads, users
<1>1. CASE Running(Users)
  BY <1>1, HandlesRest DEF Running, Users, HandleInv, LiveIsReal, ClosingListed,
                           StopIsLast, TypeOK
<1>2. CASE Running(Network)
  BY <1>2, NetworkHandles DEF Running
<1>3. CASE Running(TakeCommand)
  BY <1>3, CommandHandles DEF Running
<1>4. CASE Quiet(TakeCommands \/ CommandsDone \/ ClosingDone)
  BY <1>4, HandlesRest DEF Quiet, Running, TakeCommands, CommandsDone, ClosingDone,
                           HandleInv, LiveIsReal, ClosingListed, TypeOK
<1>5. CASE Quiet(PollEnd)
  BY <1>5, PollEndHandles DEF Quiet, Running
<1>6. CASE Quiet(FinishClose)
  BY <1>6, FinishCloseHandles DEF Quiet, Running
<1>7. CASE Quiet(CloseCallback)
  BY <1>7, CloseCallbackHandles DEF Quiet, Running
<1>8. CASE Quiet(Crash)
  BY <1>8, HandlesRest DEF Quiet, Running, Crash, HandleInv, LiveIsReal,
                           ClosingListed, StopIsLast, TypeOK
<1>9. CASE UNCHANGED vars
  <2>1. /\ HandleTypes' <=> HandleTypes
        /\ UNCHANGED vars
    BY <1>9 DEF vars, uv, HandleTypes
  <2>2. HandleTypes
    BY DEF TypeOK, HandleTypes, Life
  <2>3. HandleInv'
    BY <2>1 DEF vars, uv, HandleInv, LiveIsReal, FieldFollows, IdsAreUnique,
                HeldOrCut, CallbackHeld, AbortIsSecond, SecondCloses,
                ClosingListed, StopIsLast
  <2>4. QED
    BY <2>1, <2>2, <2>3
<1>10. QED
  BY <1>1, <1>2, <1>3, <1>4, <1>5, <1>6, <1>7, <1>8, <1>9
     DEF Next, Running, Quiet, LoopStep


-----------------------------------------------------------------------------
(* What every step leaves as it is.                                        *)

(* How the handles get older when life is what they are before close() is  *)
(* called for cs.                                                          *)
Ages(life, cs) ==
  /\ \A x \in Handles : hnd[x] \in {"closing", "closed"}
                          => hnd'[x] \in {hnd[x], life[x]}
  /\ \A x \in Handles : hnd[x] \in {"none", "open"} => hnd'[x] # "closed"
  /\ \A x \in Handles \ cs : hnd[x] = "none" => hnd'[x] = "none"
  /\ \A x \in Handles : hnd[x] # "none" => hnd'[x] # "none"

LEMMA RetainAges ==
  ASSUME TypeOK, LiveIsReal, end = "running", NEW life \in [Handles -> Life],
         NEW h, NEW w, NEW cs \in SUBSET Handles,
         Retain(life, h, w, cs), Finishes(life, w)
  PROVE  /\ Ages(life, cs)
         /\ end' = "running" =>
              \A x \in cs : opened[x] => hnd'[x] = "closing"
<1> DEFINE X == Closers(h, w, cs)
<1>1. CloseHandles(life, X)
  BY DEF Retain, Closers
<1>2. /\ X \in SUBSET Handles
      /\ \A x \in X : x \in cs \/ hnd[x] # "none"
      /\ \A x \in cs : opened[x] => x \in X
  BY ClosersAreReal
<1> HIDE DEF X
<1>3. \/ end' = "aborted" /\ hnd' = hnd
      \/ /\ end' = "running"
         /\ \A x \in X : life[x] \notin {"closing", "closed"}
         /\ hnd' = [x \in Handles |-> IF x \in X THEN "closing" ELSE life[x]]
  BY <1>1, <1>2, CloseEffect DEF uv
<1>4. QED
  BY <1>2, <1>3 DEF Finishes, Ages

LEMMA ListensFirst ==
  ASSUME TypeOK, queue # <<>>
  PROVE  First("listen") => Target \in Servers /\ Target \notin Conns
BY CommandTypes, HandlesDisjoint

(* A handle closes, and is closed when it is the first of the batch; what  *)
(* was cut off stays cut off; a server appears when it is told to listen.  *)
Onward ==
  /\ \A x \in Handles : hnd[x] \in {"closing", "closed"} =>
       hnd'[x] = hnd[x] \/ (FinishClose /\ x = Head(batch) /\ hnd'[x] = "closed")
  /\ \A x \in Handles : hnd[x] \in {"none", "open"} => hnd'[x] # "closed"
  /\ \A x \in Handles : hnd[x] # "none" => hnd'[x] # "none"
  /\ cut \subseteq cut'
  /\ \A s \in Servers : hnd[s] = "none" =>
       \/ hnd'[s] = "none"
       \/ TakeCommand /\ First("listen") /\ Target = s

LEMMA StepsOnward ==
  ASSUME TypeOK, HandleInv, QueueInv, [Next]_vars
  PROVE  Onward
<1> USE DEF objects, replies, reads, users, uv
<1>1. CASE UNCHANGED <<hnd, cut>>
  BY <1>1 DEF Onward
<1>2. CASE end = "running" /\ TakeCommand
  <2>1. queue # <<>>
    BY <1>2 DEF TakeCommand
  <2>2. CASE ListenSucceeds
    <3>1. Target \in Servers /\ hnd[Target] = "none"
      BY <2>1, <2>2, ListenIsNew DEF ListenSucceeds
    <3>2. QED
      BY <1>2, <2>2, <3>1 DEF ListenSucceeds, Onward, TypeOK, Handles
  <2>3. CASE ListenFails
    <3>1. Target \in Servers /\ {Target} \in SUBSET Handles
      BY <2>1, <2>3, ListenIsNew DEF ListenFails, Handles
    <3>2. Retain(hnd, held, writes, {Target}) /\ cut \subseteq cut' /\ First("listen")
      BY <2>3 DEF ListenFails
    <3>3. hnd \in [Handles -> Life] /\ Finishes(hnd, writes)
      BY DEF TypeOK, Life, Finishes
    <3>4. Ages(hnd, {Target})
      BY <1>2, <3>1, <3>2, <3>3, RetainAges DEF HandleInv
    <3>5. QED
      BY <1>2, <3>2, <3>4 DEF Onward, Ages, Handles
  <2>4. CASE ReadFails \/ Release
    <3>1. PICK h, cs : /\ cs \in SUBSET Conns
                       /\ Retain(hnd, h, writes, cs) /\ cut \subseteq cut'
      <4>1. CASE ReadFails
        <5>1. PICK c \in Named : Retain(hnd, held, writes, {c}) /\ cut \subseteq cut'
          BY <4>1 DEF ReadFails
        <5>2. {c} \in SUBSET Conns
          BY DEF Named, Conn
        <5>3. QED
          BY <5>1, <5>2
      <4>2. CASE Release
        <5>1. /\ Retain(hnd, held \ Conn(id[Target]), writes, {})
              /\ cut \subseteq cut'
          BY <4>2 DEF Release
        <5>2. {} \in SUBSET Conns
          OBVIOUS
        <5>3. QED
          BY <5>1, <5>2
      <4>3. QED
        BY <2>4, <4>1, <4>2
    <3>2. hnd \in [Handles -> Life] /\ Finishes(hnd, writes) /\ cs \in SUBSET Handles
      BY <3>1 DEF TypeOK, Life, Finishes, Handles
    <3>3. Ages(hnd, cs)
      BY <1>2, <3>1, <3>2, RetainAges DEF HandleInv
    <3>4. QED
      BY <3>1, <3>3, HandlesDisjoint DEF Onward, Ages, Handles
  <2>5. CASE Stop
    BY <2>5 DEF Stop, Onward, TypeOK, Handles
  <2>6. QED
    BY <1>1, <1>2, <2>2, <2>3, <2>4, <2>5
       DEF TakeCommand, ReadNobody, ReadStarts, WriteNobody, WriteStarts, WriteFails
<1>3. CASE end = "running" /\ Network
  <2>1. ASSUME NEW s \in Servers, NEW c \in Conns, Connect(s, c)
        PROVE  Onward
    <3>1. hnd' = [hnd EXCEPT ![c] = "open"] /\ hnd[c] = "none" /\ cut' = cut
      BY <2>1 DEF Connect, Incoming
    <3>2. QED
      BY <3>1, HandlesDisjoint DEF Onward, TypeOK, Handles
  <2>2. CASE \/ \E s \in Servers, c \in Conns : AcceptFails(s, c)
             \/ \E c \in Conns : ReadEnd(c) \/ ReadError(c) \/ WriteDone(c)
    <3>1. PICK h, w, cs : /\ cs \in SUBSET Conns
                          /\ Retain(hnd, h, w, cs) /\ cut \subseteq cut'
      <4>1. ASSUME NEW s \in Servers, NEW c \in Conns, AcceptFails(s, c)
            PROVE  /\ Retain(hnd, held, writes, {c}) /\ cut \subseteq cut'
                   /\ {c} \in SUBSET Conns
        BY <4>1 DEF AcceptFails
      <4>2. ASSUME NEW c \in Conns, ReadEnd(c) \/ ReadError(c)
            PROVE  /\ Retain(hnd, held, writes, Conn(id[c])) /\ cut \subseteq cut'
                   /\ Conn(id[c]) \in SUBSET Conns
        BY <4>2 DEF ReadEnd, ReadError, Conn
      <4>3. ASSUME NEW c \in Conns, WriteDone(c)
            PROVE  /\ Retain(hnd, held, [writes EXCEPT ![c] = Tail(@)], {})
                   /\ cut \subseteq cut' /\ {} \in SUBSET Conns
        BY <4>3 DEF WriteDone
      <4>4. QED
        BY <2>2, <4>1, <4>2, <4>3
    <3>2. hnd \in [Handles -> Life] /\ Finishes(hnd, w) /\ cs \in SUBSET Handles
      BY <3>1 DEF TypeOK, Life, Finishes, Handles
    <3>3. Ages(hnd, cs)
      BY <1>3, <3>1, <3>2, RetainAges DEF HandleInv
    <3>4. QED
      BY <3>1, <3>3, HandlesDisjoint DEF Onward, Ages, Handles
  <2>3. QED
    BY <1>1, <1>3, <2>1, <2>2 DEF Network, PollStep, ConnectNobody, ReadData
<1>4. CASE end = "running" /\ FinishClose
  <2> DEFINE life == [hnd EXCEPT ![Head(batch)] = "closed"]
             left == [c \in Conns |-> IF c = Head(batch) THEN <<>> ELSE writes[c]]
  <2>1. /\ Retain(life, held, left, {}) /\ cut' = cut
        /\ lp = "closing" /\ batch # <<>>
    BY <1>4 DEF FinishClose
  <2>2. Head(batch) \in Handles /\ hnd[Head(batch)] = "closing"
    BY <1>4, <2>1, FirstOfBatch
  <2>3. life \in [Handles -> Life] /\ Finishes(life, left)
    BY <2>2 DEF TypeOK, Life, Finishes
  <2>4. {} \in SUBSET Handles /\ LiveIsReal
    BY DEF HandleInv
  <2>0. \A x \in Handles : life[x] = hnd[x] \/ (x = Head(batch) /\ life[x] = "closed")
    BY DEF TypeOK
  <2> HIDE DEF life, left
  <2>5. Ages(life, {})
    BY <1>4, <2>1, <2>3, <2>4, RetainAges
  <2>6. QED
    BY <1>4, <2>0, <2>1, <2>5 DEF Onward, Ages, Handles
<1>5. CASE end = "running" /\ CloseCallback
  <2>1. PICK h : Retain(hnd, h, writes, {}) /\ cut \subseteq cut'
    BY <1>5 DEF CloseCallback
  <2>2. /\ hnd \in [Handles -> Life] /\ Finishes(hnd, writes)
        /\ {} \in SUBSET Handles /\ LiveIsReal
    BY DEF TypeOK, Life, Finishes, HandleInv
  <2>3. Ages(hnd, {})
    BY <1>5, <2>1, <2>2, RetainAges
  <2>4. QED
    BY <2>1, <2>3 DEF Onward, Ages, Handles
<1>6. QED
  BY <1>1, <1>2, <1>3, <1>4, <1>5
     DEF Next, Running, Quiet, LoopStep, Users, TakeCommands, CommandsDone,
         PollEnd, ClosingDone, Crash, vars

(* What was opened keeps its id.                                           *)
IdsStay == \A x \in Handles : hnd[x] # "none" => id'[x] = id[x]

LEMMA StepsKeepIds ==
  ASSUME TypeOK, HandleInv, QueueInv, [Next]_vars
  PROVE  IdsStay
<1> USE DEF objects, replies, reads, users, uv
<1>1. CASE UNCHANGED id
  BY <1>1 DEF IdsStay
<1>2. ASSUME NEW h \in Handles, NEW kind, hnd[h] = "none", NewId(h, kind)
      PROVE  IdsStay
  BY <1>2 DEF IdsStay, NewId, TypeOK
<1>3. CASE TakeCommand
  <2>1. queue # <<>>
    BY <1>3 DEF TakeCommand
  <2>2. CASE ListenSucceeds \/ ListenFails
    <3>1. /\ Target \in Handles /\ hnd[Target] = "none" /\ NewId(Target, Servers)
      BY <2>1, <2>2, ListenIsNew DEF ListenSucceeds, ListenFails, Handles
    <3>2. QED
      BY <1>2, <3>1
  <2>3. CASE ~(ListenSucceeds \/ ListenFails)
    BY <1>1, <1>3, <2>3
       DEF TakeCommand, Release, Stop, ReadNobody, ReadStarts, ReadFails,
           WriteNobody, WriteStarts, WriteFails
  <2>4. QED
    BY <2>2, <2>3
<1>4. CASE Network
  <2>1. ASSUME NEW s \in Servers, NEW c \in Conns,
               Connect(s, c) \/ AcceptFails(s, c)
        PROVE  IdsStay
    <3>1. c \in Handles /\ hnd[c] = "none" /\ NewId(c, Conns)
      BY <2>1 DEF Connect, AcceptFails, Incoming, Handles
    <3>2. QED
      BY <1>2, <3>1
  <2>2. CASE \/ \E s \in Servers, c \in Conns : ConnectNobody(s, c)
             \/ \E c \in Conns : ReadData(c) \/ ReadEnd(c) \/ ReadError(c)
                                  \/ WriteDone(c)
    BY <1>1, <2>2 DEF ConnectNobody, ReadData, ReadEnd, ReadError, WriteDone
  <2>3. QED
    BY <1>4, <2>1, <2>2 DEF Network, PollStep
<1>5. QED
  BY <1>1, <1>3, <1>4
     DEF Next, Running, Quiet, LoopStep, Users, TakeCommands, CommandsDone,
         PollEnd, FinishClose, CloseCallback, ClosingDone, Crash, vars

-----------------------------------------------------------------------------
(* The queue.                                                              *)

UserTypes == /\ queue \in Seq(Commands)
             /\ ctrl \in [Conns -> {"none", "held", "dropped"}]
             /\ calls \in 0..MaxCalls

(* A command cmd is added that is not a second one of its kind.            *)
LEMMA AddKeeps ==
  ASSUME TypeOK, QueueInv, NEW cmd \in Commands, Add(cmd),
         UNCHANGED <<hnd, sentTo, dropped>>,
         cmd.op = "listen" => hnd[cmd.of] = "none" /\ cmd \notin Queued,
         cmd.op = "write" => /\ sentTo[cmd.w] = None /\ cmd.w \notin dropped
                             /\ \A q \in Queued : q.op = "write" => q.w # cmd.w
  PROVE  queue' \in Seq(Commands) /\ QueueInv'
<1>1. /\ queue \in Seq(Commands) /\ queue' = Append(queue, cmd)
      /\ queue' \in Seq(Commands) /\ Len(queue) \in Nat
      /\ Len(queue') = Len(queue) + 1
      /\ \A k \in 1..Len(queue) : queue'[k] = queue[k]
      /\ queue'[Len(queue) + 1] = cmd
  BY AppendProperties DEF Add, TypeOK
<1>2. \A k \in 1..Len(queue') : k \in 1..Len(queue) \/ k = Len(queue) + 1
  BY <1>1
<1>3. \A k \in 1..Len(queue) : k # Len(queue) + 1 /\ queue[k] \in Queued
                               /\ queue[k] \in Commands
  BY <1>1, ElementOfSeq DEF Queued
<1>4. ListensOnce'
  <2>1. \A q \in Commands : q.op = "listen" => q = [op |-> "listen", of |-> q.of]
    BY DEF Commands
  <2>2. cmd.op = "listen" =>
          \A k \in 1..Len(queue) : queue[k].op = "listen" => queue[k].of # cmd.of
    BY <1>3, <2>1
  <2>3. QED
    BY <1>1, <1>2, <1>3, <2>2 DEF QueueInv, ListensOnce
<1>5. WritesOnce'
  <2>1. cmd.op = "write" =>
          \A k \in 1..Len(queue) : queue[k].op = "write" => queue[k].w # cmd.w
    BY <1>3
  <2>2. QED
    BY <1>1, <1>2, <1>3, <2>1 DEF QueueInv, WritesOnce
<1>6. QED
  BY <1>1, <1>4, <1>5 DEF QueueInv

(* The first command is taken: it alone opens its server, and sends or     *)
(* drops its write.                                                        *)
LEMMA TakeKeeps ==
  ASSUME TypeOK, QueueInv, queue # <<>>, queue' = Tail(queue),
         \A s \in Servers : hnd[s] = "none" =>
           hnd'[s] = "none" \/ (First("listen") /\ Target = s),
         \A w \in Writes : sentTo[w] = None /\ w \notin dropped =>
           \/ sentTo'[w] = None /\ w \notin dropped'
           \/ First("write") /\ Head(queue).w = w
  PROVE  queue' \in Seq(Commands) /\ QueueInv'
<1>1. /\ queue \in Seq(Commands) /\ queue' \in Seq(Commands)
      /\ Len(queue) \in Nat /\ Len(queue) > 0 /\ Len(queue') = Len(queue) - 1
      /\ Head(queue) = queue[1]
      /\ \A k \in 1..Len(queue') : queue'[k] = queue[k + 1]
  <2>1. queue \in Seq(Commands)
    BY DEF TypeOK
  <2>2. QED
    BY <2>1, TailDistinct
<1>2. \A k \in 1..Len(queue') : /\ k + 1 \in 1..Len(queue) /\ k + 1 # 1
                                /\ queue[k + 1] \in Commands
  BY <1>1, ElementOfSeq
<1>3. 1 \in 1..Len(queue)
  BY <1>1
<1>4. ASSUME NEW k \in 1..Len(queue'), queue'[k].op = "listen"
      PROVE  /\ hnd'[queue'[k].of] = "none"
             /\ \A j \in 1..Len(queue') :
                  queue'[j].op = "listen" /\ queue'[j].of = queue'[k].of => j = k
  <2>1. /\ queue[k + 1].op = "listen" /\ queue'[k] = queue[k + 1]
        /\ queue[k + 1].of \in Servers
    BY <1>1, <1>2, <1>4 DEF Commands
  <2>2. hnd[queue[k + 1].of] = "none"
    BY <1>2, <2>1 DEF QueueInv, ListensOnce
  <2>3. ~(First("listen") /\ Target = queue[k + 1].of)
    BY <1>1, <1>2, <1>3, <2>1 DEF QueueInv, ListensOnce, First, Target
  <2>4. ASSUME NEW j \in 1..Len(queue'),
               queue'[j].op = "listen" /\ queue'[j].of = queue'[k].of
        PROVE  j = k
    <3>1. j + 1 = k + 1
      BY <1>1, <1>2, <2>1, <2>4 DEF QueueInv, ListensOnce
    <3>2. QED
      BY <1>1, <3>1
  <2>5. QED
    BY <2>1, <2>2, <2>3, <2>4
<1>5. ASSUME NEW k \in 1..Len(queue'), queue'[k].op = "write"
      PROVE  /\ sentTo'[queue'[k].w] = None /\ queue'[k].w \notin dropped'
             /\ \A j \in 1..Len(queue') :
                  queue'[j].op = "write" /\ queue'[j].w = queue'[k].w => j = k
  <2>1. /\ queue[k + 1].op = "write" /\ queue'[k] = queue[k + 1]
        /\ queue[k + 1].w \in Writes
    BY <1>1, <1>2, <1>5 DEF Commands
  <2>2. sentTo[queue[k + 1].w] = None /\ queue[k + 1].w \notin dropped
    BY <1>2, <2>1 DEF QueueInv, WritesOnce
  <2>3. ~(First("write") /\ Head(queue).w = queue[k + 1].w)
    BY <1>1, <1>2, <1>3, <2>1 DEF QueueInv, WritesOnce, First
  <2>4. ASSUME NEW j \in 1..Len(queue'),
               queue'[j].op = "write" /\ queue'[j].w = queue'[k].w
        PROVE  j = k
    <3>1. j + 1 = k + 1
      BY <1>1, <1>2, <2>1, <2>4 DEF QueueInv, WritesOnce
    <3>2. QED
      BY <1>1, <3>1
  <2>5. QED
    BY <2>1, <2>2, <2>3, <2>4
<1>6. QED
  BY <1>1, <1>4, <1>5 DEF QueueInv, ListensOnce, WritesOnce

LEMMA QueueStep ==
  ASSUME TypeOK, HandleInv, QueueInv, [Next]_vars
  PROVE  UserTypes' /\ QueueInv'
<1> USE DEF objects, replies, reads, users
<1>1. Onward
  BY StepsOnward
<1>2. CASE Users
  <2>1. UNCHANGED <<hnd, sentTo, dropped>>
    BY <1>2 DEF Users, uv
  <2>2. ASSUME NEW s \in Servers, Listen(s)
        PROVE  queue' \in Seq(Commands) /\ QueueInv'
    <3>1. [op |-> "listen", of |-> s] \in Commands
      BY DEF Commands
    <3>2. QED
      BY <2>1, <2>2, <3>1, AddKeeps DEF Listen
  <2>3. ASSUME NEW c \in Conns, NEW op \in {"read", "close"},
               Add([op |-> op, of |-> c])
        PROVE  queue' \in Seq(Commands) /\ QueueInv'
    <3>1. [op |-> op, of |-> c] \in Commands /\ op # "listen" /\ op # "write"
      BY DEF Commands
    <3>2. QED
      BY <2>1, <2>3, <3>1, AddKeeps
  <2>4. ASSUME NEW c \in Conns, NEW w \in Writes, Write(c, w)
        PROVE  queue' \in Seq(Commands) /\ QueueInv'
    <3>1. [op |-> "write", of |-> c, w |-> w] \in Commands
      BY DEF Commands
    <3>2. QED
      BY <2>1, <2>4, <3>1, AddKeeps DEF Write
  <2>5. ASSUME Cancel PROVE queue' \in Seq(Commands) /\ QueueInv'
    <3>1. [op |-> "stop", of |-> None] \in Commands
      BY DEF Commands
    <3>2. QED
      BY <2>1, <2>5, <3>1, AddKeeps DEF Cancel
  <2>6. queue' \in Seq(Commands) /\ QueueInv'
    BY <1>2, <2>2, <2>3, <2>4, <2>5 DEF Users, Call, Drop
  <2>7. /\ ctrl' \in [Conns -> {"none", "held", "dropped"}]
        /\ calls' \in 0..MaxCalls
    <3>1. \/ ctrl' = ctrl
          \/ \E c \in Conns : ctrl' = [ctrl EXCEPT ![c] = "dropped"]
      BY <1>2 DEF Users, Listen, Call, Drop, Write, Cancel
    <3>2. calls' = calls \/ (calls < MaxCalls /\ calls' = calls + 1)
      BY <1>2 DEF Users, Listen, Call, Drop, Write, Cancel
    <3>3. /\ ctrl \in [Conns -> {"none", "held", "dropped"}]
          /\ calls \in 0..MaxCalls
      BY DEF TypeOK
    <3>4. ctrl' \in [Conns -> {"none", "held", "dropped"}]
      BY <3>1, <3>3
    <3>5. calls' \in 0..MaxCalls
      BY <3>2, <3>3, BoundsAssumption
    <3>6. QED
      BY <3>4, <3>5
  <2>8. QED
    BY <2>6, <2>7 DEF UserTypes
<1>3. CASE TakeCommand
  <2>1. queue # <<>> /\ queue' = Tail(queue) /\ UNCHANGED <<ctrl, calls>>
    BY <1>3 DEF TakeCommand
  <2>2. \A w \in Writes : sentTo[w] = None /\ w \notin dropped =>
          \/ sentTo'[w] = None /\ w \notin dropped'
          \/ First("write") /\ Head(queue).w = w
    <3>1. CASE UNCHANGED <<sentTo, dropped>>
      BY <3>1
    <3>2. CASE First("write") /\ dropped' = dropped \cup {Head(queue).w}
                              /\ UNCHANGED sentTo
      BY <3>2
    <3>3. ASSUME NEW c, First("write"), Sent(c), UNCHANGED dropped
          PROVE  \A w \in Writes : sentTo[w] = None /\ w \notin dropped =>
                   \/ sentTo'[w] = None /\ w \notin dropped'
                   \/ First("write") /\ Head(queue).w = w
      BY <3>3 DEF Sent, TypeOK
    <3>4. QED
      BY <1>3, <3>1, <3>2, <3>3
         DEF TakeCommand, ListenSucceeds, ListenFails, Release, Stop, ReadNobody,
             ReadStarts, ReadFails, WriteNobody, WriteStarts, WriteFails
  <2>3. \A s \in Servers : hnd[s] = "none" =>
          hnd'[s] = "none" \/ (First("listen") /\ Target = s)
    BY <1>1 DEF Onward
  <2>4. QED
    BY <2>1, <2>2, <2>3, TakeKeeps DEF UserTypes, TypeOK
<1>4. CASE UNCHANGED <<queue, sentTo, dropped, calls>> /\ ~TakeCommand
           /\ ctrl' \in [Conns -> {"none", "held", "dropped"}]
  <2>1. \A k \in 1..Len(queue) : queue[k].op = "listen" => queue[k].of \in Servers
    <3> TAKE k \in 1..Len(queue)
    <3>1. queue[k] \in Commands
      BY ElementOfSeq DEF TypeOK
    <3>2. QED
      BY <3>1 DEF Commands
  <2>2. ListensOnce'
    BY <1>1, <1>4, <2>1 DEF Onward, QueueInv, ListensOnce
  <2>3. WritesOnce'
    BY <1>4 DEF QueueInv, WritesOnce
  <2>4. QED
    BY <1>4, <2>2, <2>3 DEF UserTypes, TypeOK, QueueInv
<1>5. CASE Network /\ ~TakeCommand
  <2>1. UNCHANGED <<queue, calls>>
    BY <1>5 DEF Network, PollStep
  <2>2. /\ UNCHANGED <<sentTo, dropped>>
        /\ ctrl' \in [Conns -> {"none", "held", "dropped"}]
    BY <1>5 DEF Network, PollStep, Connect, AcceptFails, ConnectNobody,
                ReadData, ReadEnd, ReadError, WriteDone, TypeOK
  <2>3. QED
    BY <1>4, <1>5, <2>1, <2>2
<1>6. CASE ~TakeCommand /\ (Quiet(TakeCommands \/ CommandsDone \/ LoopStep \/ Crash)
                            \/ UNCHANGED vars)
  <2>1. UNCHANGED <<queue, sentTo, dropped, ctrl, calls>>
    BY <1>6 DEF Quiet, Running, TakeCommands, CommandsDone, LoopStep, PollEnd,
                FinishClose, CloseCallback, ClosingDone, Crash, vars
  <2>2. QED
    BY <1>4, <1>6, <2>1 DEF TypeOK
<1>7. QED
  BY <1>2, <1>3, <1>5, <1>6 DEF Next, Running


-----------------------------------------------------------------------------
(* Writes and their answers.                                               *)

WriteTypes == /\ writes \in [Conns -> Seq(Writes)]
              /\ answers \in [Writes -> Nat]
              /\ sentTo \in [Writes -> [from : Conns, to : Conns] \cup {None}]
              /\ dropped \in SUBSET Writes

(* The first write of c is answered and goes.                              *)
LEMMA WriteDoneKeeps ==
  ASSUME TypeOK, WriteInv, NEW c \in Conns, writes[c] # <<>>,
         Answered(Head(writes[c])),
         writes' = [writes EXCEPT ![c] = Tail(@)],
         UNCHANGED <<sentTo, dropped>>
  PROVE  WriteTypes' /\ WriteInv'
<1> DEFINE s == writes[c]
<1>1. writes \in [Conns -> Seq(Writes)] /\ s \in Seq(Writes)
  BY DEF TypeOK
<1>2. /\ Head(s) \in Writes /\ Tail(s) \in Seq(Writes) /\ Head(s) = s[1]
      /\ Len(s) \in Nat /\ Len(s) > 0 /\ Len(Tail(s)) = Len(s) - 1
      /\ \A k \in 1..Len(Tail(s)) : Tail(s)[k] = s[k + 1]
  BY <1>1, TailDistinct
<1>3. /\ writes' \in [Conns -> Seq(Writes)] /\ writes'[c] = Tail(s)
      /\ \A d \in Conns \ {c} : writes'[d] = writes[d]
  BY <1>1, <1>2
<1>4. 1 \in 1..Len(s)
  BY <1>2
<1>5. /\ answers' \in [Writes -> Nat]
      /\ answers'[Head(s)] = answers[Head(s)] + 1
      /\ \A w \in Writes \ {Head(s)} : answers'[w] = answers[w]
  BY <1>2 DEF Answered, TypeOK
<1>6. answers[Head(s)] = 0 /\ sentTo[Head(s)] # None
  BY <1>2, <1>4 DEF WriteInv, PendingIsOwed
<1> HIDE DEF s
<1>7. ASSUME NEW d \in Conns, NEW k \in 1..Len(writes'[d])
      PROVE  \E l \in 1..Len(writes[d]) :
               /\ writes'[d][k] = writes[d][l] /\ l = IF d = c THEN k + 1 ELSE k
               /\ writes[d][l] # Head(s) /\ writes[d][l] \in Writes
  <2>1. CASE d = c
    <3>1. /\ k + 1 \in 1..Len(s) /\ k + 1 # 1
          /\ writes'[d][k] = writes[d][k + 1]
      BY <1>2, <1>3, <1>7, <2>1 DEF s
    <3>2. writes[d][k + 1] # Head(s)
      BY <1>2, <1>4, <2>1, <3>1 DEF s, WriteInv, PendingOnce
    <3>3. QED
      BY <1>1, <2>1, <3>1, <3>2, ElementOfSeq DEF s
  <2>2. CASE d # c
    <3>1. k \in 1..Len(writes[d]) /\ writes'[d][k] = writes[d][k]
      BY <1>3, <1>7, <2>2
    <3>2. writes[d][k] # Head(s)
      BY <1>2, <1>4, <2>2, <3>1 DEF s, WriteInv, PendingOnce
    <3>3. QED
      BY <1>1, <2>2, <3>1, <3>2, ElementOfSeq
  <2>3. QED
    BY <2>1, <2>2
<1>8. PendingOnce'
  <2> SUFFICES ASSUME NEW a \in Conns, NEW b \in Conns,
                      NEW k \in 1..Len(writes'[a]), NEW l \in 1..Len(writes'[b]),
                      writes'[a][k] = writes'[b][l]
               PROVE  a = b /\ k = l
    BY DEF PendingOnce
  <2>1. PICK i \in 1..Len(writes[a]) :
          writes'[a][k] = writes[a][i] /\ i = IF a = c THEN k + 1 ELSE k
    BY <1>7
  <2>2. PICK j \in 1..Len(writes[b]) :
          writes'[b][l] = writes[b][j] /\ j = IF b = c THEN l + 1 ELSE l
    BY <1>7
  <2>3. a = b /\ i = j
    BY <2>1, <2>2 DEF WriteInv, PendingOnce
  <2>4. k \in Nat /\ l \in Nat
    BY <1>3, LenProperties
  <2>5. QED
    BY <2>1, <2>2, <2>3, <2>4
<1>9. PendingIsOwed'
  <2> SUFFICES ASSUME NEW d \in Conns, NEW k \in 1..Len(writes'[d])
               PROVE  /\ sentTo'[writes'[d][k]] # None
                      /\ answers'[writes'[d][k]] = 0
    BY DEF PendingIsOwed
  <2>1. PICK l \in 1..Len(writes[d]) :
          /\ writes'[d][k] = writes[d][l]
          /\ writes[d][l] # Head(s) /\ writes[d][l] \in Writes
    BY <1>7
  <2>2. sentTo[writes[d][l]] # None /\ answers[writes[d][l]] = 0
    BY DEF WriteInv, PendingIsOwed
  <2>3. QED
    BY <1>5, <2>1, <2>2
<1>10. ASSUME NEW w \in Writes
       PROVE  Pending(w)' <=> Pending(w) /\ w # Head(s)
  <2>1. ASSUME NEW d \in Conns, NEW k \in 1..Len(writes'[d]), writes'[d][k] = w
        PROVE  Pending(w) /\ w # Head(s)
    <3>1. PICK l \in 1..Len(writes[d]) : /\ writes'[d][k] = writes[d][l]
                                         /\ writes[d][l] # Head(s)
      BY <1>7
    <3>2. QED
      BY <2>1, <3>1 DEF Pending
  <2>2. ASSUME NEW d \in Conns, NEW l \in 1..Len(writes[d]), writes[d][l] = w,
               w # Head(s)
        PROVE  Pending(w)'
    <3>1. CASE d # c
      BY <1>3, <2>2, <3>1 DEF Pending
    <3>2. CASE d = c
      <4>1. l # 1 /\ l \in 1..Len(s)
        BY <1>2, <2>2, <3>2 DEF s
      <4>2. l - 1 \in 1..Len(Tail(s)) /\ (l - 1) + 1 = l
        BY <1>2, <4>1
      <4>3. Tail(s)[l - 1] = s[l]
        BY <1>2, <4>2
      <4>4. l - 1 \in 1..Len(writes'[c]) /\ writes'[c][l - 1] = w
        BY <1>3, <2>2, <3>2, <4>2, <4>3 DEF s
      <4>5. QED
        BY <4>4 DEF Pending
    <3>3. QED
      BY <3>1, <3>2
  <2>3. QED
    BY <2>1, <2>2 DEF Pending
<1>11. AnsweredOnce'
  <2> SUFFICES ASSUME NEW w \in Writes
               PROVE  answers'[w] = IF sentTo'[w] # None /\ ~Pending(w)' THEN 1
                                    ELSE 0
    BY DEF AnsweredOnce
  <2>1. CASE w = Head(s)
    BY <1>5, <1>6, <1>10, <2>1
  <2>2. CASE w # Head(s)
    BY <1>5, <1>10, <2>2 DEF WriteInv, AnsweredOnce
  <2>3. QED
    BY <2>1, <2>2
<1>12. WriteTypes'
  BY <1>3, <1>5 DEF WriteTypes, TypeOK
<1>13. QED
  BY <1>8, <1>9, <1>11, <1>12 DEF WriteInv

(* The writes that are left when h has been closed are answered.           *)
LEMMA FinishCloseKeeps ==
  ASSUME TypeOK, WriteInv, FinishClose
  PROVE  WriteTypes' /\ WriteInv'
<1> DEFINE h == Head(batch)
           Left == {w \in Writes : h \in Conns /\ \E k \in DOMAIN writes[h] :
                                                    writes[h][k] = w}
<1>1. /\ writes' = [c \in Conns |-> IF c = h THEN <<>> ELSE writes[c]]
      /\ answers' = [w \in Writes |-> IF w \in Left THEN answers[w] + 1
                                      ELSE answers[w]]
      /\ UNCHANGED <<sentTo, dropped>>
  BY DEF FinishClose, Retain
<1>2. /\ writes \in [Conns -> Seq(Writes)] /\ answers \in [Writes -> Nat]
      /\ \A c \in Conns : DOMAIN writes[c] = 1..Len(writes[c])
  BY DEF TypeOK
<1>3. WriteTypes'
  BY <1>1, <1>2 DEF WriteTypes, TypeOK
<1>4. \A w \in Left : answers[w] = 0 /\ sentTo[w] # None
  BY <1>2 DEF WriteInv, PendingIsOwed
<1>5. ASSUME NEW c \in Conns, NEW k \in 1..Len(writes'[c])
      PROVE  /\ c # h /\ writes'[c] = writes[c] /\ k \in 1..Len(writes[c])
             /\ writes[c][k] \in Writes \ Left
  <2>1. c # h /\ writes'[c] = writes[c]
    <3>1. c = h => writes'[c] = <<>>
      BY <1>1
    <3>2. c # h
      BY <1>5, <3>1
    <3>3. QED
      BY <1>1, <3>2
  <2>2. writes[c][k] \in Writes
    BY <1>2, <2>1, ElementOfSeq
  <2>3. writes[c][k] \notin Left
    BY <1>2, <2>1 DEF WriteInv, PendingOnce
  <2>4. QED
    BY <2>1, <2>2, <2>3
<1> HIDE DEF Left, h
<1>6. PendingOnce'
  BY <1>5 DEF WriteInv, PendingOnce
<1>7. PendingIsOwed'
  BY <1>1, <1>5 DEF WriteInv, PendingIsOwed
<1>8. AnsweredOnce'
  <2> SUFFICES ASSUME NEW w \in Writes
               PROVE  answers'[w] = IF sentTo'[w] # None /\ ~Pending(w)' THEN 1
                                    ELSE 0
    BY DEF AnsweredOnce
  <2>1. CASE w \in Left
    <3>1. ~Pending(w)'
      BY <1>5, <2>1 DEF Pending
    <3>2. QED
      BY <1>1, <1>4, <2>1, <3>1
  <2>2. CASE w \notin Left
    <3>1. Pending(w)' => Pending(w)
      BY <1>5 DEF Pending
    <3>2. ASSUME NEW c \in Conns, NEW k \in 1..Len(writes[c]), writes[c][k] = w
          PROVE  Pending(w)'
      <4>1. c # h
        BY <1>2, <2>2, <3>2 DEF Left
      <4>2. writes'[c] = writes[c]
        BY <1>1, <4>1
      <4>3. QED
        BY <3>2, <4>2 DEF Pending
    <3>3. Pending(w)' <=> Pending(w)
      BY <3>1, <3>2 DEF Pending
    <3>4. answers'[w] = answers[w] /\ sentTo'[w] = sentTo[w]
      BY <1>1, <2>2
    <3>5. QED
      BY <3>3, <3>4 DEF WriteInv, AnsweredOnce
  <2>3. QED
    BY <2>1, <2>2
<1>9. QED
  BY <1>3, <1>6, <1>7, <1>8 DEF WriteInv

(* The command to write is the only one for its write.                     *)
LEMMA WriteIsNew ==
  ASSUME TypeOK, QueueInv, WriteInv, queue # <<>>, First("write")
  PROVE  LET w == Head(queue).w
         IN  /\ w \in Writes /\ Target \in Conns
             /\ sentTo[w] = None /\ answers[w] = 0
             /\ \A c \in Conns : \A k \in 1..Len(writes[c]) : writes[c][k] # w
<1>1. 1 \in 1..Len(queue) /\ Head(queue) = queue[1]
  BY HeadTailProperties, EmptySeq, LenProperties DEF TypeOK
<1>2. Head(queue).w \in Writes /\ Target \in Conns
  BY CommandTypes
<1>3. sentTo[Head(queue).w] = None
  BY <1>1 DEF QueueInv, WritesOnce, First
<1>4. answers[Head(queue).w] = 0
  BY <1>2, <1>3 DEF WriteInv, AnsweredOnce
<1>5. QED
  BY <1>2, <1>3, <1>4 DEF WriteInv, PendingIsOwed

LEMMA WriteStartsKeeps ==
  ASSUME TypeOK, QueueInv, WriteInv, queue # <<>>, WriteStarts
  PROVE  WriteTypes' /\ WriteInv'
<1> DEFINE w == Head(queue).w
<1>1. PICK c \in Named : writes' = [writes EXCEPT ![c] = Append(@, w)] /\ Sent(c)
  BY DEF WriteStarts
<1>2. c \in Conns /\ First("write") /\ UNCHANGED <<answers, dropped>>
  BY DEF Named, Conn, WriteStarts
<1>3. /\ w \in Writes /\ Target \in Conns
      /\ sentTo[w] = None /\ answers[w] = 0
      /\ \A d \in Conns : \A k \in 1..Len(writes[d]) : writes[d][k] # w
  BY <1>2, WriteIsNew
<1> HIDE DEF w
<1>4. /\ writes \in [Conns -> Seq(Writes)] /\ writes[c] \in Seq(Writes)
      /\ Len(writes[c]) \in Nat
  BY <1>2 DEF TypeOK
<1>5. /\ writes'[c] \in Seq(Writes) /\ Len(writes'[c]) = Len(writes[c]) + 1
      /\ writes'[c][Len(writes[c]) + 1] = w
      /\ \A k \in 1..Len(writes[c]) : writes'[c][k] = writes[c][k]
      /\ \A d \in Conns \ {c} : writes'[d] = writes[d]
      /\ writes' \in [Conns -> Seq(Writes)]
  <2>1. writes'[c] = Append(writes[c], w)
    BY <1>1, <1>2, <1>4
  <2>2. /\ writes'[c] \in Seq(Writes) /\ Len(writes'[c]) = Len(writes[c]) + 1
        /\ writes'[c][Len(writes[c]) + 1] = w
        /\ \A k \in 1..Len(writes[c]) : writes'[c][k] = writes[c][k]
    BY <1>3, <1>4, <2>1, AppendProperties
  <2>3. QED
    BY <1>1, <1>4, <2>1, <2>2
<1>6. sentTo' = [sentTo EXCEPT ![w] = [from |-> Target, to |-> c]]
  BY <1>1 DEF Sent, w
<1>7. /\ sentTo'[w] # None /\ \A v \in Writes \ {w} : sentTo'[v] = sentTo[v]
      /\ sentTo' \in [Writes -> [from : Conns, to : Conns] \cup {None}]
  BY <1>2, <1>3, <1>6, NoneIsNobody DEF TypeOK
<1>8. ASSUME NEW d \in Conns, NEW k \in 1..Len(writes'[d])
      PROVE  \/ /\ k \in 1..Len(writes[d]) /\ writes'[d][k] = writes[d][k]
                /\ writes[d][k] # w /\ writes[d][k] \in Writes
             \/ d = c /\ k = Len(writes[c]) + 1 /\ writes'[d][k] = w
  <2>1. k \in 1..Len(writes[d]) \/ (d = c /\ k = Len(writes[c]) + 1)
    BY <1>4, <1>5, <1>8
  <2>2. k \in 1..Len(writes[d]) => writes[d][k] # w /\ writes[d][k] \in Writes
    BY <1>3, <1>4, ElementOfSeq
  <2>3. k \in 1..Len(writes[d]) => writes'[d][k] = writes[d][k]
    BY <1>5
  <2>4. QED
    BY <1>5, <2>1, <2>2, <2>3
<1>9. PendingOnce'
  <2> SUFFICES ASSUME NEW a \in Conns, NEW b \in Conns,
                      NEW k \in 1..Len(writes'[a]), NEW l \in 1..Len(writes'[b]),
                      writes'[a][k] = writes'[b][l]
               PROVE  a = b /\ k = l
    BY DEF PendingOnce
  <2>1. CASE writes'[a][k] = w
    BY <1>8, <2>1
  <2>2. CASE writes'[a][k] # w
    BY <1>8, <2>2 DEF WriteInv, PendingOnce
  <2>3. QED
    BY <2>1, <2>2
<1>10. PendingIsOwed'
  <2> SUFFICES ASSUME NEW d \in Conns, NEW k \in 1..Len(writes'[d])
               PROVE  /\ sentTo'[writes'[d][k]] # None
                      /\ answers'[writes'[d][k]] = 0
    BY DEF PendingIsOwed
  <2>1. CASE writes'[d][k] = w
    BY <1>2, <1>3, <1>7, <2>1
  <2>2. CASE writes'[d][k] # w
    <3>1. /\ k \in 1..Len(writes[d]) /\ writes'[d][k] = writes[d][k]
          /\ writes[d][k] \in Writes \ {w}
      BY <1>8, <2>2
    <3>2. sentTo[writes[d][k]] # None /\ answers[writes[d][k]] = 0
      BY <3>1 DEF WriteInv, PendingIsOwed
    <3>3. QED
      BY <1>2, <1>7, <3>1, <3>2
  <2>3. QED
    BY <2>1, <2>2
<1>11. AnsweredOnce'
  <2> SUFFICES ASSUME NEW v \in Writes
               PROVE  answers'[v] = IF sentTo'[v] # None /\ ~Pending(v)' THEN 1
                                    ELSE 0
    BY DEF AnsweredOnce
  <2>1. CASE v = w
    <3>1. Len(writes[c]) + 1 \in 1..Len(writes'[c])
      BY <1>4, <1>5
    <3>2. Pending(v)'
      BY <1>2, <1>5, <2>1, <3>1 DEF Pending
    <3>3. QED
      BY <1>2, <1>3, <2>1, <3>2
  <2>2. CASE v # w
    <3>1. Pending(v)' => Pending(v)
      BY <1>8, <2>2 DEF Pending
    <3>2. ASSUME NEW d \in Conns, NEW k \in 1..Len(writes[d]), writes[d][k] = v
          PROVE  Pending(v)'
      <4>1. k \in 1..Len(writes'[d]) /\ writes'[d][k] = writes[d][k]
        BY <1>4, <1>5, <3>2
      <4>2. QED
        BY <3>2, <4>1 DEF Pending
    <3>3. Pending(v)' <=> Pending(v)
      BY <3>1, <3>2 DEF Pending
    <3>4. answers'[v] = answers[v] /\ sentTo'[v] = sentTo[v]
      BY <1>2, <1>7, <2>2
    <3>5. QED
      BY <3>3, <3>4 DEF WriteInv, AnsweredOnce
  <2>3. QED
    BY <2>1, <2>2
<1>12. WriteTypes'
  BY <1>2, <1>5, <1>7 DEF WriteTypes, TypeOK
<1>13. QED
  BY <1>9, <1>10, <1>11, <1>12 DEF WriteInv

LEMMA WriteFailsKeeps ==
  ASSUME TypeOK, QueueInv, WriteInv, queue # <<>>, WriteFails
  PROVE  WriteTypes' /\ WriteInv'
<1> DEFINE w == Head(queue).w
<1>1. PICK c \in Named : Sent(c)
  BY DEF WriteFails
<1>2. c \in Conns /\ First("write") /\ Answered(w) /\ UNCHANGED <<writes, dropped>>
  BY DEF Named, Conn, WriteFails
<1>3. /\ w \in Writes /\ Target \in Conns
      /\ sentTo[w] = None /\ answers[w] = 0
      /\ \A d \in Conns : \A k \in 1..Len(writes[d]) : writes[d][k] # w
  BY <1>2, WriteIsNew
<1>4. sentTo' = [sentTo EXCEPT ![w] = [from |-> Target, to |-> c]]
  BY <1>1 DEF Sent
<1> HIDE DEF w
<1>5. /\ sentTo'[w] # None /\ \A v \in Writes \ {w} : sentTo'[v] = sentTo[v]
      /\ sentTo' \in [Writes -> [from : Conns, to : Conns] \cup {None}]
  BY <1>2, <1>3, <1>4, NoneIsNobody DEF TypeOK
<1>6. /\ answers'[w] = 1 /\ \A v \in Writes \ {w} : answers'[v] = answers[v]
      /\ answers' \in [Writes -> Nat]
  BY <1>2, <1>3 DEF Answered, TypeOK
<1>7. \A d \in Conns : \A k \in 1..Len(writes[d]) : writes[d][k] \in Writes \ {w}
  BY <1>3, ElementOfSeq DEF TypeOK
<1>8. PendingOnce'
  BY <1>2 DEF WriteInv, PendingOnce
<1>9. PendingIsOwed'
  BY <1>2, <1>5, <1>6, <1>7 DEF WriteInv, PendingIsOwed
<1>10. AnsweredOnce'
  <2>1. \A v \in Writes : Pending(v)' <=> Pending(v)
    BY <1>2 DEF Pending
  <2>2. ~Pending(w)
    BY <1>7 DEF Pending
  <2>3. \A v \in Writes \ {w} :
          answers[v] = IF sentTo[v] # None /\ ~Pending(v) THEN 1 ELSE 0
    BY DEF WriteInv, AnsweredOnce
  <2>4. QED
    BY <1>5, <1>6, <2>1, <2>2, <2>3 DEF AnsweredOnce
<1>11. WriteTypes'
  BY <1>2, <1>5, <1>6 DEF WriteTypes, TypeOK
<1>12. QED
  BY <1>8, <1>9, <1>10, <1>11 DEF WriteInv

LEMMA WriteStep ==
  ASSUME TypeOK, QueueInv, WriteInv, [Next]_vars
  PROVE  WriteTypes' /\ WriteInv'
<1> USE DEF objects, replies, reads, users
<1>1. CASE UNCHANGED <<writes, answers, sentTo>> /\ dropped' \in SUBSET Writes
  <2>1. WriteTypes'
    BY <1>1 DEF WriteTypes, TypeOK
  <2>2. WriteInv'
    BY <1>1 DEF WriteInv, PendingOnce, PendingIsOwed, AnsweredOnce, Pending
  <2>3. QED
    BY <2>1, <2>2
<1>2. CASE TakeCommand
  <2>1. queue # <<>>
    BY <1>2 DEF TakeCommand
  <2>2. CASE WriteNobody
    <3>1. Head(queue).w \in Writes
      BY <2>1, <2>2, CommandTypes DEF WriteNobody
    <3>2. QED
      BY <1>1, <2>2, <3>1 DEF WriteNobody, TypeOK
  <2>3. CASE ListenSucceeds \/ ListenFails \/ Release \/ Stop
             \/ ReadNobody \/ ReadStarts \/ ReadFails
    BY <1>1, <2>3 DEF ListenSucceeds, ListenFails, Release, Stop, ReadNobody,
                      ReadStarts, ReadFails, Retain, TypeOK
  <2>4. QED
    BY <1>2, <2>1, <2>2, <2>3, WriteStartsKeeps, WriteFailsKeeps DEF TakeCommand
<1>3. CASE Network
  <2>1. ASSUME NEW c \in Conns, WriteDone(c)
        PROVE  WriteTypes' /\ WriteInv'
    BY <2>1, WriteDoneKeeps DEF WriteDone, Retain
  <2>2. CASE \/ \E s \in Servers, c \in Conns :
                  Connect(s, c) \/ AcceptFails(s, c) \/ ConnectNobody(s, c)
             \/ \E c \in Conns : ReadData(c) \/ ReadEnd(c) \/ ReadError(c)
    BY <1>1, <2>2 DEF Connect, AcceptFails, ConnectNobody, ReadData, ReadEnd,
                      ReadError, Retain, TypeOK
  <2>3. QED
    BY <1>3, <2>1, <2>2 DEF Network, PollStep
<1>4. CASE FinishClose
  BY <1>4, FinishCloseKeeps
<1>5. QED
  BY <1>1, <1>2, <1>3, <1>4
     DEF Next, Running, Quiet, LoopStep, Users, TakeCommands, CommandsDone,
         PollEnd, CloseCallback, ClosingDone, Crash, vars, Retain, TypeOK


-----------------------------------------------------------------------------
(* What a connection hears.                                                *)

ReadTypes ==
  /\ deaf \in SUBSET Servers
  /\ called \in SUBSET Conns /\ reading \in SUBSET Conns
  /\ heard \in [Conns -> Seq([from : Conns, what : {"data", "end"}])]

(* A handle that is open and kept its place is whom its id stands for.     *)
LEMMA OwnId ==
  ASSUME HandleInv, NEW h \in Handles, hnd[h] = "open"
  PROVE  /\ h \in Conns => \A d \in Conn(id[h]) : d = h \/ h \in cut
         /\ h \in Servers => \A t \in Server(id[h]) : t = h \/ h \in cut
         /\ h \in Conns /\ h \notin cut => h \in Conn(id[h])
         /\ h \in Servers /\ h \notin cut => h \in Server(id[h])
<1>1. h \in held \/ h \in cut
  BY DEF HandleInv, HeldOrCut
<1>2. QED
  BY <1>1 DEF HandleInv, IdsAreUnique, Conn, Server

LEMMA HeardKeeps ==
  ASSUME TypeOK, HeardInv, Onward, IdsStay, end = "running", UNCHANGED heard
  PROVE  HeardIsReal' /\ MixupNeedsCut' /\ EndIsLast' /\ EndCloses'
<1>1. cut \subseteq cut'
  BY DEF Onward
<1>2. ASSUME NEW c \in Conns, NEW k \in 1..Len(heard[c])
      PROVE  /\ hnd'[c] # "none" /\ hnd'[heard[c][k].from] # "none"
             /\ id'[c] = id[c] /\ id'[heard[c][k].from] = id[heard[c][k].from]
  <2>1. c \in Handles /\ heard[c][k].from \in Handles
    <3>1. heard[c] \in Seq([from : Conns, what : {"data", "end"}])
      BY DEF TypeOK
    <3>2. heard[c][k] \in [from : Conns, what : {"data", "end"}]
      BY <3>1, ElementOfSeq
    <3>3. QED
      BY <3>2 DEF Handles
  <2>2. hnd[c] # "none" /\ hnd[heard[c][k].from] # "none"
    BY DEF HeardInv, HeardIsReal
  <2>3. QED
    BY <2>1, <2>2 DEF Onward, IdsStay
<1>3. HeardIsReal'
  BY <1>2 DEF HeardIsReal
<1>4. MixupNeedsCut'
  BY <1>1, <1>2 DEF HeardInv, MixupNeedsCut, Heard
<1>5. EndIsLast'
  BY DEF HeardInv, EndIsLast, Heard
<1>6. EndCloses'
  BY DEF HeardInv, EndCloses, Onward, Handles, Note
<1>7. QED
  BY <1>3, <1>4, <1>5, <1>6

(* Connections D that the id of c stands for hear of the stream of c.      *)
LEMMA HeardGrows ==
  ASSUME TypeOK, HandleInv, HeardInv, Onward, IdsStay, end = "running",
         NEW c \in Conns, Polled(c), NEW D \in SUBSET Conn(id[c]),
         NEW what \in {"data", "end"},
         heard' = [d \in Conns |-> IF d \in D THEN Append(heard[d], Note(c, what))
                                   ELSE heard[d]],
         end' = "running" /\ what = "end" /\ c \in D
           => hnd'[c] \in {"closing", "closed"}
  PROVE  /\ heard' \in [Conns -> Seq([from : Conns, what : {"data", "end"}])]
         /\ HeardIsReal' /\ MixupNeedsCut' /\ EndIsLast'
         /\ end' = "running" => EndCloses'
<1> DEFINE Notes == [from : Conns, what : {"data", "end"}]
<1>1. cut \subseteq cut'
  BY DEF Onward
<1>2. hnd[c] = "open" /\ c \in Handles /\ \A d \in D : d = c \/ c \in cut
  BY OwnId DEF Polled, Handles
<1>3. heard \in [Conns -> Seq(Notes)] /\ Note(c, what) \in Notes /\ D \in SUBSET Conns
  BY DEF TypeOK, Note, Conn
<1> HIDE DEF Notes
<1>4. \A d \in Conns \ D : heard'[d] = heard[d]
  BY <1>3
<1>5. \A d \in D :
        /\ heard'[d] \in Seq(Notes) /\ Len(heard[d]) \in Nat
        /\ Len(heard'[d]) = Len(heard[d]) + 1
        /\ heard'[d][Len(heard[d]) + 1] = Note(c, what)
        /\ \A k \in 1..Len(heard[d]) : heard'[d][k] = heard[d][k]
  <2> TAKE d \in D
  <2>1. heard[d] \in Seq(Notes) /\ heard'[d] = Append(heard[d], Note(c, what))
    BY <1>3
  <2>2. QED
    BY <1>3, <2>1, AppendProperties
<1>6. heard' \in [Conns -> Seq(Notes)]
  BY <1>3, <1>4, <1>5
<1>7. ASSUME NEW d \in Conns, NEW k \in 1..Len(heard'[d])
      PROVE  \/ k \in 1..Len(heard[d]) /\ heard'[d][k] = heard[d][k]
             \/ /\ d \in D /\ k = Len(heard[d]) + 1
                /\ heard'[d][k] = Note(c, what)
  BY <1>4, <1>5, <1>7
<1>0. ASSUME NEW d \in Conns, NEW k \in 1..Len(heard'[d])
      PROVE  /\ hnd'[d] # "none" /\ hnd'[heard'[d][k].from] # "none"
             /\ heard'[d][k].from # d =>
                  /\ heard'[d][k].from \in cut'
                  /\ id'[heard'[d][k].from] = id'[d]
  <2>1. CASE k \in 1..Len(heard[d]) /\ heard'[d][k] = heard[d][k]
    <3>1. d \in Handles /\ heard[d][k].from \in Handles
      <4>1. heard[d] \in Seq(Notes)
        BY <1>3
      <4>2. heard[d][k] \in Notes
        BY <2>1, <4>1, ElementOfSeq
      <4>3. QED
        BY <4>2 DEF Handles, Notes
    <3>2. hnd[d] # "none" /\ hnd[heard[d][k].from] # "none"
      BY <2>1 DEF HeardInv, HeardIsReal
    <3>3. heard[d][k].from # d =>
            heard[d][k].from \in cut /\ id[heard[d][k].from] = id[d]
      BY <2>1 DEF HeardInv, MixupNeedsCut, Heard
    <3>4. QED
      BY <1>1, <2>1, <3>1, <3>2, <3>3 DEF Onward, IdsStay
  <2>2. CASE d \in D /\ heard'[d][k] = Note(c, what)
    <3>1. d \in Handles /\ d \in held /\ id[d] = id[c] /\ heard'[d][k].from = c
      BY <2>2 DEF Conn, Handles, Note
    <3>2. hnd[d] # "none" /\ hnd[c] # "none"
      BY <1>2, <3>1 DEF HandleInv, LiveIsReal
    <3>3. QED
      BY <1>1, <1>2, <2>2, <3>1, <3>2 DEF Onward, IdsStay
  <2>3. QED
    BY <1>7, <2>1, <2>2
<1>8. HeardIsReal' /\ MixupNeedsCut'
  BY <1>0 DEF HeardIsReal, MixupNeedsCut, Heard
<1>9. EndIsLast'
  <2> SUFFICES ASSUME NEW d \in Conns,
                      \A k \in 1..Len(heard'[d]) : heard'[d][k].from = d,
                      NEW k \in 1..Len(heard'[d]), heard'[d][k].what = "end"
               PROVE  k = Len(heard'[d])
    BY DEF EndIsLast, Heard
  <2>1. CASE d \notin D
    BY <1>4, <2>1 DEF HeardInv, EndIsLast, Heard
  <2>2. CASE d \in D
    <3>1. Len(heard[d]) + 1 \in 1..Len(heard'[d])
      BY <1>5, <2>2
    <3>2. d = c
      BY <1>5, <2>2, <3>1 DEF Note
    <3>3. ASSUME k \in 1..Len(heard[d]) PROVE FALSE
      <4>1. heard[d][k] = heard'[d][k] /\ heard[d][k].from = d
        BY <1>5, <2>2, <3>3
      <4>2. heard[d][k] \in [from : Conns, what : {"data", "end"}]
        BY <1>3, <3>3, ElementOfSeq DEF Notes
      <4>3. heard[d][k] = Note(d, "end")
        BY <4>1, <4>2 DEF Note
      <4>4. hnd[d] \in {"closing", "closed"}
        BY <3>3, <4>3 DEF HeardInv, EndCloses
      <4>5. QED
        BY <1>2, <3>2, <4>4
    <3>4. QED
      BY <1>5, <1>7, <2>2, <3>3
  <2>3. QED
    BY <2>1, <2>2
<1>10. ASSUME end' = "running" PROVE EndCloses'
  <2> SUFFICES ASSUME NEW d \in Conns, NEW k \in 1..Len(heard'[d]),
                      heard'[d][k] = Note(d, "end")
               PROVE  hnd'[d] \in {"closing", "closed"}
    BY DEF EndCloses, Note
  <2>1. CASE k \in 1..Len(heard[d]) /\ heard'[d][k] = heard[d][k]
    BY <2>1 DEF HeardInv, EndCloses, Onward, Handles
  <2>2. CASE d \in D /\ heard'[d][k] = Note(c, what)
    <3>1. d = c /\ what = "end"
      BY <2>2 DEF Note
    <3>2. QED
      BY <1>10, <2>2, <3>1
  <2>3. QED
    BY <1>7, <2>1, <2>2
<1>11. QED
  BY <1>6, <1>8, <1>9, <1>10 DEF Notes

LEMMA HeardStep ==
  ASSUME TypeOK, HandleInv, QueueInv, HeardInv, [Next]_vars
  PROVE  ReadTypes' /\ HeardInv'
<1> USE DEF objects, replies, reads, users
<1>1. Onward /\ IdsStay
  BY StepsOnward, StepsKeepIds
<1>2. CASE end = "running" /\ UNCHANGED <<heard, deaf>>
           /\ called' \in SUBSET Conns /\ reading' \in SUBSET Conns
  <2>1. HeardIsReal' /\ MixupNeedsCut' /\ EndIsLast' /\ EndCloses'
    BY <1>1, <1>2, HeardKeeps
  <2>2. DeafNeedsCut'
    BY <1>1, <1>2 DEF HeardInv, DeafNeedsCut, Onward
  <2>3. ReadTypes'
    BY <1>2 DEF ReadTypes, TypeOK
  <2>4. QED
    BY <2>1, <2>2, <2>3 DEF HeardInv
<1>3. CASE Running(TakeCommand)
  <2>1. end = "running" /\ UNCHANGED deaf
    BY <1>3 DEF Running, TakeCommand
  <2>2. Named \subseteq Conns
    BY DEF Named, Conn
  <2>3. UNCHANGED heard /\ called' \in SUBSET Conns /\ reading' \in SUBSET Conns
    BY <1>3, <2>2
       DEF Running, TakeCommand, ListenSucceeds, ListenFails, Release, Stop,
           ReadNobody, ReadStarts, ReadFails, WriteNobody, WriteStarts,
           WriteFails, TypeOK
  <2>4. QED
    BY <1>2, <2>1, <2>3
<1>4. ASSUME NEW s \in Servers, NEW c \in Conns, end = "running",
             AcceptFails(s, c) \/ ConnectNobody(s, c)
      PROVE  ReadTypes' /\ HeardInv'
  <2>1. HeardIsReal' /\ MixupNeedsCut' /\ EndIsLast' /\ EndCloses'
    BY <1>1, <1>4, HeardKeeps DEF AcceptFails, ConnectNobody
  <2>2. hnd[s] = "open" /\ s \in Handles
    BY <1>4 DEF AcceptFails, ConnectNobody, Incoming, Handles
  <2>3. deaf' \subseteq deaf \cup {s} /\ (s \in deaf' => s \in deaf \cup cut)
    <3>1. CASE AcceptFails(s, c)
      <4>1. PICK t \in Server(id[s]) : deaf' = deaf \cup ({s} \ {t})
        BY <3>1 DEF AcceptFails
      <4>2. t = s \/ s \in cut
        BY <2>2, OwnId
      <4>3. QED
        BY <4>1, <4>2
    <3>2. CASE ConnectNobody(s, c)
      <4>1. s \in cut
        BY <2>2, <3>2, OwnId DEF ConnectNobody
      <4>2. QED
        BY <3>2, <4>1 DEF ConnectNobody
    <3>3. QED
      BY <1>4, <3>1, <3>2
  <2>4. DeafNeedsCut'
    BY <1>1, <2>3 DEF HeardInv, DeafNeedsCut, Onward
  <2>5. ReadTypes'
    BY <1>4, <2>3 DEF ReadTypes, TypeOK, AcceptFails, ConnectNobody
  <2>6. QED
    BY <2>1, <2>4, <2>5 DEF HeardInv
<1>5. ASSUME NEW c \in Conns, NEW D \in SUBSET Conn(id[c]), end = "running",
             NEW what \in {"data", "end"}, Polled(c), UNCHANGED <<deaf, called>>,
             reading' \in SUBSET Conns,
             heard' = [d \in Conns |->
                         IF d \in D THEN Append(heard[d], Note(c, what))
                         ELSE heard[d]],
             end' = "running" /\ what = "end" /\ c \in D
               => hnd'[c] \in {"closing", "closed"}
      PROVE  ReadTypes' /\ HeardInv'
  <2>1. /\ heard' \in [Conns -> Seq([from : Conns, what : {"data", "end"}])]
        /\ HeardIsReal' /\ MixupNeedsCut' /\ EndIsLast'
        /\ end' = "running" => EndCloses'
    BY <1>1, <1>5, HeardGrows
  <2>2. DeafNeedsCut'
    BY <1>1, <1>5 DEF HeardInv, DeafNeedsCut, Onward
  <2>3. ReadTypes'
    BY <1>5, <2>1 DEF ReadTypes, TypeOK
  <2>4. QED
    BY <2>1, <2>2, <2>3 DEF HeardInv
<1>6. ASSUME NEW c \in Conns, end = "running", ReadData(c)
      PROVE  ReadTypes' /\ HeardInv'
  <2>1. PICK d \in Conn(id[c]) \cap called :
          heard' = [heard EXCEPT ![d] = Append(@, Note(c, "data"))]
    BY <1>6 DEF ReadData
  <2>2. heard' = [e \in Conns |->
                    IF e \in {d} THEN Append(heard[e], Note(c, "data"))
                    ELSE heard[e]]
    BY <2>1 DEF Conn, TypeOK
  <2>3. {d} \in SUBSET Conn(id[c]) /\ "data" \in {"data", "end"} /\ "data" # "end"
    BY <2>1
  <2>4. Polled(c) /\ UNCHANGED <<deaf, called>> /\ reading' \in SUBSET Conns
    BY <1>6 DEF ReadData, TypeOK
  <2>5. QED
    BY <1>5, <1>6, <2>2, <2>3, <2>4
<1>7. ASSUME NEW c \in Conns, end = "running", ReadEnd(c)
      PROVE  ReadTypes' /\ HeardInv'
  <2> DEFINE D == Conn(id[c]) \cap called
  <2>1. /\ Polled(c) /\ UNCHANGED <<deaf, called>> /\ reading' \in SUBSET Conns
        /\ heard' = [d \in Conns |->
                       IF d \in D THEN Append(heard[d], Note(c, "end"))
                       ELSE heard[d]]
        /\ D \in SUBSET Conn(id[c]) /\ "end" \in {"data", "end"}
    BY <1>7 DEF ReadEnd, Disconnect, TypeOK
  <2>2. ASSUME end' = "running", c \in D PROVE hnd'[c] \in {"closing", "closed"}
    <3>1. /\ Retain(hnd, held, writes, Conn(id[c])) /\ Conn(id[c]) \in SUBSET Handles
          /\ hnd \in [Handles -> Life] /\ Finishes(hnd, writes) /\ LiveIsReal
      BY <1>7 DEF ReadEnd, Conn, Handles, TypeOK, Life, Finishes, HandleInv
    <3>2. c \in Conn(id[c]) /\ opened[c]
      BY <2>1, <2>2 DEF Polled, HandleInv, FieldFollows, Handles
    <3>3. QED
      BY <1>7, <2>2, <3>1, <3>2, RetainAges
  <2> HIDE DEF D
  <2>3. QED
    BY <1>5, <1>7, <2>1, <2>2
<1>8. CASE Running(Network)
  <2>1. ASSUME NEW c \in Conns, ReadError(c) \/ WriteDone(c)
        PROVE  /\ UNCHANGED <<heard, deaf>>
               /\ called' \in SUBSET Conns /\ reading' \in SUBSET Conns
    BY <2>1 DEF ReadError, WriteDone, TypeOK
  <2>2. ASSUME NEW s \in Servers, NEW c \in Conns, Connect(s, c)
        PROVE  /\ UNCHANGED <<heard, deaf>>
               /\ called' \in SUBSET Conns /\ reading' \in SUBSET Conns
    BY <2>2 DEF Connect, TypeOK
  <2>3. QED
    BY <1>2, <1>4, <1>6, <1>7, <1>8, <2>1, <2>2 DEF Network, PollStep, Running
<1>9. CASE end = "running" /\ UNCHANGED <<deaf, reads>>
  BY <1>2, <1>9 DEF TypeOK
<1>10. CASE UNCHANGED vars
  <2>1. UNCHANGED <<heard, deaf, cut, end, hnd, id, called, reading>>
    BY <1>10 DEF vars, uv
  <2>2. HeardIsReal' /\ MixupNeedsCut' /\ EndIsLast' /\ DeafNeedsCut'
    BY <2>1 DEF HeardInv, HeardIsReal, MixupNeedsCut, EndIsLast, DeafNeedsCut,
                Heard
  <2>3. end' = "running" => EndCloses'
    BY <2>1 DEF HeardInv, EndCloses, Note
  <2>4. QED
    BY <2>1, <2>2, <2>3 DEF HeardInv, ReadTypes, TypeOK
<1>11. QED
  BY <1>3, <1>8, <1>9, <1>10 DEF Next, Running, Quiet, Users

-----------------------------------------------------------------------------
(* The invariant and its theorems.                                         *)

LEMMA TypesTogether ==
  TypeOK <=> HandleTypes /\ UserTypes /\ ReadTypes /\ WriteTypes
BY DEF TypeOK, HandleTypes, UserTypes, ReadTypes, WriteTypes, Life

LEMMA TcpInit == Init => TcpInv
<1> SUFFICES ASSUME Init PROVE TcpInv
  OBVIOUS
<1>1. HandleTypes
  <2>1. /\ batch \in Seq(Handles) /\ Distinct(batch) /\ Elements(batch) = {}
        /\ closing \in Seq(Handles) /\ Distinct(closing)
    BY EmptyDistinct DEF Init
  <2>2. IsInjective(batch \o closing)
    BY <2>1, ListsInjective
  <2>3. /\ id \in [Handles -> Ids \cup {None}]
        /\ serverOf \in [Conns -> Servers \cup {None}]
        /\ hnd \in [Handles -> Life] /\ opened \in [Handles -> BOOLEAN]
        /\ onClose \in [Handles -> {"none", "release", "nothing"}]
    BY DEF Init, Life
  <2>4. /\ lp \in {"poll", "jobs", "closing", "callback", "ended"}
        /\ held \in SUBSET Handles /\ cut \in SUBSET Handles
        /\ twice \in SUBSET Handles
        /\ stopped \in BOOLEAN /\ end \in {"running", "aborted", "crashed"}
    BY DEF Init
  <2>5. QED
    BY <2>1, <2>2, <2>3, <2>4 DEF HandleTypes
<1>2. UserTypes /\ ReadTypes /\ WriteTypes
  BY BoundsAssumption DEF Init, UserTypes, ReadTypes, WriteTypes
<1>3. HandleInv
  <2>1. LiveIsReal
    BY HandlesDisjoint DEF Init, LiveIsReal, Handles
  <2>2. FieldFollows /\ IdsAreUnique /\ HeldOrCut /\ CallbackHeld /\ AbortIsSecond
    BY DEF Init, FieldFollows, IdsAreUnique, HeldOrCut, CallbackHeld,
           AbortIsSecond, SecondCloses
  <2>3. ClosingListed /\ StopIsLast
    BY EmptyDistinct DEF Init, ClosingListed, StopIsLast, Handles
  <2>4. QED
    BY <2>1, <2>2, <2>3 DEF HandleInv
<1>4. QueueInv
  BY DEF Init, QueueInv, ListensOnce, WritesOnce
<1>5. WriteInv
  BY DEF Init, WriteInv, PendingOnce, PendingIsOwed, AnsweredOnce, Pending
<1>6. HeardInv
  BY DEF Init, HeardInv, HeardIsReal, MixupNeedsCut, DeafNeedsCut, EndIsLast,
         EndCloses, Heard
<1>7. QED
  BY <1>1, <1>2, <1>3, <1>4, <1>5, <1>6, TypesTogether DEF TcpInv

LEMMA TcpStep == TcpInv /\ [Next]_vars => TcpInv'
<1> SUFFICES ASSUME TcpInv, [Next]_vars PROVE TcpInv'
  OBVIOUS
<1>1. TypeOK /\ HandleInv /\ QueueInv /\ WriteInv /\ HeardInv
  BY DEF TcpInv
<1>2. HandleTypes' /\ HandleInv'
  BY <1>1, HandleStep
<1>3. UserTypes' /\ QueueInv'
  BY <1>1, QueueStep
<1>4. WriteTypes' /\ WriteInv'
  BY <1>1, WriteStep
<1>5. ReadTypes' /\ HeardInv'
  BY <1>1, HeardStep
<1>6. TypeOK'
  <2>1. HandleTypes' /\ UserTypes' /\ ReadTypes' /\ WriteTypes'
    BY <1>2, <1>3, <1>4, <1>5
  <2>2. QED
    BY <2>1 DEF TypeOK, HandleTypes, UserTypes, ReadTypes, WriteTypes, Life
<1>7. QED
  BY <1>2, <1>3, <1>4, <1>5, <1>6 DEF TcpInv

(* The inductive invariant holds in every behaviour.                       *)
THEOREM TcpInvariance == SafetySpec => []TcpInv
<1>1. QED
  BY TcpInit, TcpStep, PTL DEF SafetySpec


(* Before a stop the assertion of uv_close holds, whatever commands, ends  *)
(* of streams, close callbacks and deinit do, in any order; after a stop   *)
(* uv_close is called a second time for sockets that uv_walk closed, and   *)
(* for no other.                                                           *)
THEOREM SecondCloseIsWalked == SafetySpec => []OnlyWalkedClosedTwice
<1>1. TcpInv => OnlyWalkedClosedTwice
  BY DEF TcpInv, HandleInv, AbortIsSecond, OnlyWalkedClosedTwice
<1>2. QED
  BY <1>1, TcpInvariance, PTL

(* A release under the wrong id, or too early, does no harm that does not  *)
(* start with a handle that was cut off from its id: such a handle is      *)
(* freed while it closes, or stays deaf, or its callbacks reach the new    *)
(* owner of the id, which hears its stream.                                *)
THEOREM HarmNeedsCut == SafetySpec => []OnlyCutDoHarm
<1>1. ASSUME TcpInv PROVE OnlyCutDoHarm
  <2>1. held \subseteq Live
    BY <1>1 DEF TcpInv, TypeOK, Live, LiveObjects, LiveConns, Handles
  <2>2. OnlyCutDieEarly
    BY <1>1, <2>1 DEF TcpInv, HandleInv, HeldOrCut, OnlyCutDieEarly
  <2>3. ASSUME NEW h \in Handles \ cut, CallsBack(h)
        PROVE  Holder(h) = {h}
    <3>1. h \in held
      BY <1>1, <2>3 DEF TcpInv, HandleInv, HeldOrCut, CallbackHeld, CallsBack
    <3>2. CASE h \in Conns
      BY <1>1, <3>1, <3>2 DEF TcpInv, HandleInv, IdsAreUnique, Holder, Conn
    <3>3. CASE h \in Servers
      BY <1>1, <3>1, <3>3, HandlesDisjoint
         DEF TcpInv, HandleInv, IdsAreUnique, Holder, Server
    <3>4. QED
      BY <3>2, <3>3 DEF Handles
  <2>4. StraysNeedCut
    BY <2>3 DEF StraysNeedCut
  <2>5. QED
    BY <1>1, <2>2, <2>4 DEF TcpInv, HeardInv, OnlyCutDoHarm
<1>2. QED
  BY <1>1, TcpInvariance, PTL

(* The disconnect callback comes once and after every read callback.       *)
THEOREM DisconnectIsLast == SafetySpec => []EndIsLast
<1>1. TcpInv => EndIsLast
  BY DEF TcpInv, HeardInv
<1>2. QED
  BY <1>1, TcpInvariance, PTL

(* A write that a connection took is pending until it is answered, once,   *)
(* and none is pending when the loop has ended, although uv_walk closes    *)
(* behind the back of the objects.  A write that found no connection, or   *)
(* that the loop left in the queue, is never answered.                     *)
THEOREM WritesAreAnswered == SafetySpec => []AnsweredInTheEnd
<1>1. ASSUME TcpInv PROVE AnsweredInTheEnd
  <2>1. AnsweredOnce
    BY <1>1 DEF TcpInv, WriteInv
  <2>2. ASSUME lp = "ended", end = "running", NEW c \in Conns, writes[c] # <<>>
        PROVE  FALSE
    <3>1. hnd[c] = "closing" /\ c \in Handles
      BY <1>1, <2>2 DEF TcpInv, HandleInv, LiveIsReal, StopIsLast, Handles
    <3>2. batch = <<>> /\ c \in Elements(closing) \cup Elements(batch)
      BY <1>1, <2>2, <3>1 DEF TcpInv, HandleInv, ClosingListed
    <3>3. QED
      BY <1>1, <2>2, <3>2, EmptyDistinct DEF TcpInv, HandleInv, StopIsLast
  <2>3. QED
    BY <2>1, <2>2 DEF AnsweredInTheEnd, StopAnswersWrites
<1>2. QED
  BY <1>1, TcpInvariance, PTL


-----------------------------------------------------------------------------
(* What StreamWrites promises, step by step.                               *)

(* The state of c as the promise sees it.                                  *)
Stage(c) ==
  IF hnd[c] \in {"none", "open"} THEN "open"
  ELSE IF hnd[c] = "closing" \/ (lp = "callback" /\ Head(batch) = c)
       THEN "closing" ELSE "closed"

GoesOn(c) == \/ Stage(c)' = Stage(c)
             \/ Stage(c) = "open" /\ Stage(c)' = "closing"

(* What StreamWrites allows, with writes[c] and the stage of c.            *)
LEMMA StreamSteps ==
  ASSUME TypeOK, TypeOK', NEW c \in Conns
  PROVE  /\ GoesOn(c) /\ writes'[c] = writes[c]
              => Promise(c)!Next \/ UNCHANGED Promise(c)!vars
         /\ \A w \in Writes :
              /\ Stage(c) = "open" /\ Stage(c)' = "open"
              /\ writes'[c] = Append(writes[c], w)
              => Promise(c)!Next
         /\ GoesOn(c) /\ writes[c] # <<>> /\ writes'[c] \in {Tail(writes[c]), <<>>}
              => Promise(c)!Next
         /\ Stage(c) = "closing" /\ Stage(c)' = "closed"
              /\ writes[c] = <<>> /\ writes'[c] = <<>>
              => Promise(c)!Next
<1>1. GoesOn(c) /\ writes'[c] = writes[c]
        => Promise(c)!Next \/ UNCHANGED Promise(c)!vars
  BY DEF GoesOn, Stage, Promise!Next, Promise!BeginClose, Promise!vars
<1>2. \A w \in Writes : /\ Stage(c) = "open" /\ Stage(c)' = "open"
                        /\ writes'[c] = Append(writes[c], w)
                        => Promise(c)!Next
  BY DEF Stage, Promise!Next, Promise!Accept
<1>3. ASSUME GoesOn(c), writes[c] # <<>>, writes'[c] \in {Tail(writes[c]), <<>>}
      PROVE  Promise(c)!Next
  <2>1. writes[c] \in Seq(Writes) /\ Len(writes[c]) \in Nat /\ Len(writes[c]) > 0
    BY <1>3, TailDistinct DEF TypeOK
  <2>2. \E k \in 1..Len(writes[c]) :
          writes'[c] = SubSeq(writes[c], k + 1, Len(writes[c]))
    <3>1. CASE writes'[c] = Tail(writes[c])
      <4>1. writes'[c] = SubSeq(writes[c], 1 + 1, Len(writes[c]))
        BY <1>3, <2>1, <3>1, TailIsSubSeq
      <4>2. 1 \in 1..Len(writes[c])
        BY <2>1
      <4>3. QED
        BY <4>1, <4>2
    <3>2. CASE writes'[c] = <<>>
      <4>1. /\ Len(writes[c]) + 1 \in Int /\ Len(writes[c]) \in Int
            /\ Len(writes[c]) < Len(writes[c]) + 1
            /\ Len(writes[c]) \in 1..Len(writes[c])
        BY <2>1
      <4>2. writes'[c] = SubSeq(writes[c], Len(writes[c]) + 1, Len(writes[c]))
        BY <3>2, <4>1, SubSeqEmpty
      <4>3. QED
        BY <4>1, <4>2
    <3>3. QED
      BY <1>3, <3>1, <3>2
  <2>3. Promise(c)!Answer
    BY <1>3, <2>2 DEF GoesOn, Stage, Promise!Answer, Promise!BeginClose
  <2>4. QED
    BY <2>3 DEF Promise!Next
<1>4. /\ Stage(c) = "closing" /\ Stage(c)' = "closed"
      /\ writes[c] = <<>> /\ writes'[c] = <<>>
      => Promise(c)!Next
  BY DEF Stage, Promise!Next, Promise!EndClose
<1>5. QED
  BY <1>1, <1>2, <1>3, <1>4

LEMMA PromiseStep ==
  ASSUME TcpInv, TcpInv', [Next]_vars, NEW c \in Conns
  PROVE  Promise(c)!Next \/ UNCHANGED Promise(c)!vars
<1> USE DEF objects, replies, reads, users, uv
<1>1. /\ TypeOK /\ TypeOK' /\ HandleInv /\ QueueInv /\ Onward /\ c \in Handles
      /\ hnd[c] \in Life /\ hnd'[c] \in Life
  BY StepsOnward DEF TcpInv, TypeOK, Handles, Life
<1>2. ASSUME \/ lp # "callback" /\ lp' # "callback"
             \/ UNCHANGED <<lp, batch>>
      PROVE  GoesOn(c)
  <2>1. ~FinishClose
    BY <1>2 DEF FinishClose
  <2>2. QED
    BY <1>1, <1>2, <2>1 DEF GoesOn, Stage, Onward, Life
<1>3. CASE writes'[c] = writes[c] /\ (\/ lp # "callback" /\ lp' # "callback"
                                      \/ UNCHANGED <<lp, batch>>)
  BY <1>1, <1>2, <1>3, StreamSteps
<1>4. CASE Running(TakeCommand)
  <2>1. UNCHANGED <<lp, batch>> /\ queue # <<>>
    BY <1>4 DEF Running, TakeCommand
  <2>2. CASE WriteStarts
    <3>1. PICK d \in Named :
            /\ hnd[d] = "open"
            /\ writes' = [writes EXCEPT ![d] = Append(@, Head(queue).w)]
      BY <2>2 DEF WriteStarts
    <3>2. Head(queue).w \in Writes
      BY <1>1, <2>1, <2>2, CommandTypes DEF WriteStarts
    <3>3. CASE c # d
      BY <1>1, <1>3, <2>1, <3>1, <3>3 DEF TypeOK
    <3>4. CASE c = d
      <4>1. Stage(c) = "open" /\ Stage(c)' = "open"
        BY <2>2, <3>1, <3>4 DEF Stage, WriteStarts
      <4>2. writes'[c] = Append(writes[c], Head(queue).w)
        BY <1>1, <3>1, <3>4 DEF TypeOK
      <4>3. QED
        BY <1>1, <3>2, <4>1, <4>2, StreamSteps
    <3>5. QED
      BY <3>3, <3>4
  <2>3. CASE ListenSucceeds \/ ListenFails \/ Release \/ Stop \/ ReadNobody
             \/ ReadStarts \/ ReadFails \/ WriteNobody \/ WriteFails
    <3>1. writes' = writes
      BY <2>3 DEF ListenSucceeds, ListenFails, Release, Stop, ReadNobody,
                  ReadStarts, ReadFails, WriteNobody, WriteFails, Retain
    <3>2. QED
      BY <1>3, <2>1, <3>1
  <2>4. QED
    BY <1>4, <2>2, <2>3 DEF Running, TakeCommand
<1>5. CASE Running(Network)
  <2>1. lp # "callback" /\ lp' # "callback"
    BY <1>5 DEF Running, Network, PollStep
  <2>2. ASSUME NEW d \in Conns, WriteDone(d)
        PROVE  Promise(c)!Next \/ UNCHANGED Promise(c)!vars
    <3>1. writes[d] # <<>> /\ writes' = [writes EXCEPT ![d] = Tail(@)]
      BY <2>2 DEF WriteDone, Retain
    <3>2. CASE c # d
      BY <1>1, <1>3, <2>1, <3>1, <3>2 DEF TypeOK
    <3>3. CASE c = d
      <4>1. writes'[c] = Tail(writes[c])
        BY <1>1, <3>1, <3>3 DEF TypeOK
      <4>2. QED
        BY <1>1, <1>2, <2>1, <3>1, <3>3, <4>1, StreamSteps
    <3>4. QED
      BY <3>2, <3>3
  <2>3. CASE \/ \E s \in Servers, d \in Conns :
                  Connect(s, d) \/ AcceptFails(s, d) \/ ConnectNobody(s, d)
             \/ \E d \in Conns : ReadData(d) \/ ReadEnd(d) \/ ReadError(d)
    <3>1. writes' = writes
      BY <2>3 DEF Connect, AcceptFails, ConnectNobody, ReadData, ReadEnd,
                  ReadError, Retain
    <3>2. QED
      BY <1>3, <2>1, <3>1
  <2>4. QED
    BY <1>5, <2>2, <2>3 DEF Running, Network, PollStep
<1>6. CASE Quiet(FinishClose)
  <2> DEFINE h == Head(batch)
  <2>1. /\ end = "running" /\ lp = "closing" /\ lp' = "callback"
        /\ batch # <<>> /\ batch' = batch
        /\ writes' = [d \in Conns |-> IF d = h THEN <<>> ELSE writes[d]]
    BY <1>6 DEF Quiet, Running, FinishClose, Retain
  <2>2. hnd[h] = "closing"
    BY <1>1, <2>1, FirstOfBatch
  <2>3. CASE c = h
    <3>1. GoesOn(c) /\ writes'[c] = <<>>
      <4>1. hnd'[c] \in {"closing", "closed"} /\ Head(batch') = c
        BY <1>1, <2>1, <2>2, <2>3 DEF Onward
      <4>2. QED
        BY <2>1, <2>2, <2>3, <4>1 DEF GoesOn, Stage
    <3>2. QED
      BY <1>1, <3>1, StreamSteps
  <2>4. CASE c # h
    <3>1. GoesOn(c) /\ writes'[c] = writes[c]
      BY <1>1, <2>1, <2>4 DEF GoesOn, Stage, Onward, Life
    <3>2. QED
      BY <1>1, <3>1, StreamSteps
  <2>5. QED
    BY <2>3, <2>4
<1>7. CASE Quiet(CloseCallback)
  <2> DEFINE h == Head(batch)
  <2>1. /\ end = "running" /\ lp = "callback" /\ lp' = "closing"
        /\ writes' = writes /\ ~FinishClose
    BY <1>7 DEF Quiet, Running, CloseCallback, FinishClose, Retain
  <2>2. batch # <<>>
    BY <1>1, <2>1 DEF HandleInv, ClosingListed
  <2>3. hnd[h] = "closed"
    BY <1>1, <2>1, <2>2, FirstOfBatch
  <2>4. CASE c = h
    <3>1. hnd'[c] = "closed" /\ writes[c] = <<>>
      BY <1>1, <2>1, <2>3, <2>4 DEF Onward, HandleInv, LiveIsReal
    <3>2. Stage(c) = "closing" /\ Stage(c)' = "closed"
      BY <2>1, <2>3, <2>4, <3>1 DEF Stage
    <3>3. QED
      BY <1>1, <2>1, <3>1, <3>2, StreamSteps
  <2>5. CASE c # h
    <3>1. GoesOn(c)
      BY <1>1, <2>1, <2>5 DEF GoesOn, Stage, Onward, Life
    <3>2. QED
      BY <1>1, <2>1, <3>1, StreamSteps
  <2>6. QED
    BY <2>4, <2>5
<1>8. CASE \/ Running(Users) \/ UNCHANGED vars
           \/ Quiet(TakeCommands \/ CommandsDone \/ PollEnd \/ ClosingDone \/ Crash)
  <2>1. writes' = writes
    BY <1>8 DEF Running, Quiet, Users, TakeCommands, CommandsDone, PollEnd,
                ClosingDone, Crash, vars
  <2>2. \/ lp # "callback" /\ lp' # "callback"
        \/ UNCHANGED <<lp, batch>>
    BY <1>8 DEF Running, Quiet, Users, TakeCommands, CommandsDone, PollEnd,
                ClosingDone, Crash, vars
  <2>3. QED
    BY <1>3, <2>1, <2>2
<1>9. QED
  BY <1>4, <1>5, <1>6, <1>7, <1>8 DEF Next, Running, Quiet, LoopStep

(* Each connection keeps the promise of StreamWrites: writes are answered  *)
(* in order, once each, and before the close callback, whatever the other  *)
(* connections, commands and the stop do in between.                       *)
THEOREM TcpKeepsPromise == SafetySpec => WritesKeepPromise
<1>1. TcpInv /\ TcpInv' /\ [Next]_vars
        => [\A c \in Conns : Promise(c)!Next \/ UNCHANGED Promise(c)!vars]_vars
  BY PromiseStep
<1>2. QED
  BY <1>1, TcpInvariance, PTL DEF SafetySpec, WritesKeepPromise
=============================================================================
