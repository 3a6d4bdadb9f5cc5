--------------------------- MODULE UVListenProofs ---------------------------
(***************************************************************************)
(* Proofs about UVListen, for every finite set of connections and every    *)
(* limit of descriptors.                                                   *)
(***************************************************************************)
EXTENDS UVListen, FiniteSetTheorems, TLAPS

(* Inside uv__server_io: the server was polled when it was entered, and is *)
(* until the callback has returned, unless it was closed.                  *)
EnteredPolled == pc # "idle" /\ server = "open" => polled

(* No connection waits to be taken when uv__emfile_trick accepts.          *)
NothingHeldInTrick == pc = "trick" => accepted = None

(* The spare descriptor is given up during the trick, and there is room    *)
(* for a new one unless another thread took it.                            *)
TrickMakesRoom == pc = "trick" => ~spare /\ (Free \/ raced)

ListenInv == /\ ListenServes
             /\ EnteredPolled /\ NothingHeldInTrick /\ TrickMakesRoom

Open == {c \in Conns : conn[c] = "open"}

-----------------------------------------------------------------------------
(* What NoLeak counts, when a connection comes or goes.                    *)

LEMMA OpenIsFinite ==
  ASSUME ConstantsOK
  PROVE  IsFiniteSet(Open) /\ Cardinality(Open) \in Nat
         /\ \A c \in Open : Cardinality(Open) >= 1
<1>1. IsFiniteSet(Open)
  BY FS_Subset DEF Open, ConstantsOK
<1>2. \A c \in Open : Cardinality(Open) # 0
  BY <1>1, FS_EmptySet
<1>3. QED
  BY <1>1, <1>2, FS_CardinalityType

LEMMA OpenComes ==
  ASSUME ConstantsOK, TypeOK, NEW c \in Conns, conn[c] # "open",
         conn' = [conn EXCEPT ![c] = "open"]
  PROVE  Cardinality(Open') = Cardinality(Open) + 1
<1>1. Open' = Open \cup {c} /\ c \notin Open
  BY DEF Open, TypeOK
<1>2. QED
  BY <1>1, OpenIsFinite, FS_AddElement

LEMMA OpenGoes ==
  ASSUME ConstantsOK, NEW c \in Open, Open' = Open \ {c}
  PROVE  Cardinality(Open') = Cardinality(Open) - 1
BY OpenIsFinite, FS_RemoveElement

-----------------------------------------------------------------------------
(* The inductive invariant.                                                *)

LEMMA ListenInit == ASSUME ConstantsOK PROVE Init => ListenInv
<1> SUFFICES ASSUME Init PROVE ListenInv
  OBVIOUS
<1>1. Limit \in Nat /\ Limit >= 1
  BY DEF ConstantsOK
<1>2. TypeOK
  <2>1. conn \in [Conns -> {"new", "waiting", "open", "closed"}]
    BY DEF Init
  <2>2. Spare = 1
    BY DEF Init, Spare
  <2>3. {polled, spare, failedLate, raced} \subseteq BOOLEAN
    BY DEF Init
  <2>4. /\ accepted = None /\ used = 0 /\ others = 0
        /\ pc = "idle" /\ server = "open"
    BY DEF Init
  <2>5. used + others + Spare <= Limit /\ 0 \in 0..Limit
    BY <1>1, <2>2, <2>4
  <2>6. QED
    BY <2>1, <2>3, <2>4, <2>5 DEF TypeOK
<1>3. NoLeak
  <2>1. {c \in Conns : conn[c] = "open"} = {}
    BY DEF Init
  <2>2. QED
    BY <2>1, FS_EmptySet DEF Init, NoLeak
<1>4. QED
  BY <1>2, <1>3 DEF Init, ListenInv, ListenServes, OneAtATime, NotDeaf,
                    SpareLostInRace, EnteredPolled, NothingHeldInTrick,
                    TrickMakesRoom

LEMMA EnvironmentKeeps ==
  ASSUME ConstantsOK, ListenInv, Environment
  PROVE  ListenInv'
<1> USE DEF ListenServes
<1>1. /\ TypeOK /\ used = Cardinality(Open) /\ Limit \in Nat
      /\ used \in Nat /\ others \in Nat /\ Spare \in {0, 1} /\ Spare' = Spare
      /\ UNCHANGED <<polled, server, spare, pc, failedLate>>
  BY DEF ListenInv, NoLeak, Open, ConstantsOK, TypeOK, Spare, Environment
<1>2. ASSUME NEW c \in Conns, Arrive(c) \/ GiveUp(c)
      PROVE  TypeOK' /\ NoLeak' /\ UNCHANGED <<accepted, used, others, raced>>
  <2>1. /\ conn[c] \in {"new", "waiting"} /\ conn'[c] \in {"waiting", "closed"}
        /\ conn' \in [Conns -> {"new", "waiting", "open", "closed"}]
        /\ \A d \in Conns \ {c} : conn'[d] = conn[d]
        /\ UNCHANGED <<accepted, used, others, raced>>
    BY <1>1, <1>2 DEF Arrive, GiveUp, TypeOK
  <2>2. Open' = Open
    BY <2>1 DEF Open
  <2>3. TypeOK'
    BY <1>1, <2>1 DEF TypeOK, ConstantsOK
  <2>4. QED
    BY <1>1, <2>1, <2>2, <2>3 DEF NoLeak, Open
<1>3. ASSUME NEW c \in Conns, CloseConn(c)
      PROVE  /\ TypeOK' /\ NoLeak' /\ UNCHANGED <<accepted, others, raced>>
             /\ used' = used - 1
  <2>1. /\ conn[c] = "open" /\ conn'[c] = "closed" /\ c # accepted
        /\ conn' \in [Conns -> {"new", "waiting", "open", "closed"}]
        /\ \A d \in Conns \ {c} : conn'[d] = conn[d]
        /\ used' = used - 1 /\ UNCHANGED <<accepted, others, raced>>
    BY <1>1, <1>3 DEF CloseConn, TypeOK
  <2>2. c \in Open /\ Open' = Open \ {c}
    BY <2>1 DEF Open
  <2>3. used >= 1 /\ used' = Cardinality(Open')
    BY <1>1, <2>1, <2>2, OpenIsFinite, OpenGoes
  <2>4. TypeOK'
    BY <1>1, <2>1, <2>3 DEF TypeOK, ConstantsOK
  <2>5. QED
    BY <2>1, <2>3, <2>4 DEF NoLeak, Open
<1>4. CASE OthersOpen \/ OthersClose
  <2>1. /\ UNCHANGED <<conn, accepted, used>>
        /\ others' \in 0..Limit /\ used + others' + Spare <= Limit
        /\ raced' \in BOOLEAN /\ (raced => raced')
        /\ pc = "trick" => raced' \/ others' <= others
    <3>1. CASE OthersOpen
      <4>1. raced' \in BOOLEAN /\ (raced => raced') /\ (pc = "trick" => raced')
        BY <3>1 DEF OthersOpen
      <4>2. QED
        BY <1>1, <3>1, <4>1 DEF OthersOpen, TypeOK, Free
    <3>2. CASE OthersClose
      <4>1. raced' = raced /\ raced \in BOOLEAN
        BY <1>1, <3>2 DEF OthersClose, TypeOK
      <4>2. QED
        BY <1>1, <3>2, <4>1 DEF OthersClose, TypeOK
    <3>3. QED
      BY <1>4, <3>1, <3>2
  <2>2. TypeOK'
    BY <1>1, <2>1 DEF TypeOK
  <2>3. NoLeak'
    BY <1>1, <2>1 DEF NoLeak, Open
  <2>4. others' <= others /\ Free => Free'
    BY <1>1, <2>1 DEF Free
  <2>5. TrickMakesRoom'
    BY <1>1, <2>1, <2>4 DEF ListenInv, TrickMakesRoom
  <2>6. QED
    BY <1>1, <1>4, <2>1, <2>2, <2>3, <2>5
       DEF OthersOpen, OthersClose, ListenInv, OneAtATime, NotDeaf,
           SpareLostInRace, EnteredPolled, NothingHeldInTrick, TypeOK
<1>5. CASE \E c \in Conns : Arrive(c) \/ GiveUp(c) \/ CloseConn(c)
  <2>1. /\ TypeOK' /\ NoLeak' /\ UNCHANGED <<accepted, others, raced>>
        /\ used' \in Int /\ used' <= used
    BY <1>1, <1>2, <1>3, <1>5
  <2>2. Free => Free'
    <3>1. PICK n \in Int : used' = n
      BY <2>1
    <3>2. QED
      BY <1>1, <2>1, <3>1 DEF Free
  <2>3. TrickMakesRoom'
    BY <1>1, <2>1, <2>2 DEF ListenInv, TrickMakesRoom
  <2>4. QED
    BY <1>1, <2>1, <2>3 DEF ListenInv, OneAtATime, NotDeaf, SpareLostInRace,
                            EnteredPolled, NothingHeldInTrick
<1>6. QED
  BY <1>4, <1>5 DEF Environment

LEMMA ServerKeeps ==
  ASSUME ConstantsOK, ListenInv, ServerStep
  PROVE  ListenInv'
<1> USE DEF ListenServes
<1>1. /\ TypeOK /\ used = Cardinality(Open) /\ Limit \in Nat
      /\ used \in Nat /\ others \in Nat
      /\ Spare = (IF spare THEN 1 ELSE 0) /\ Spare' = (IF spare' THEN 1 ELSE 0)
      /\ used + others + Spare <= Limit
      /\ UNCHANGED <<others, failedLate, raced>>
  BY DEF ListenInv, NoLeak, Open, ConstantsOK, TypeOK, Spare, ServerStep
<1>2. CASE ServerIo
  <2>1. PICK c \in Waiting : accepted' = c /\ conn' = [conn EXCEPT ![c] = "open"]
    BY <1>2 DEF ServerIo
  <2>2. /\ c \in Conns /\ conn[c] = "waiting" /\ conn'[c] = "open"
        /\ conn' \in [Conns -> {"new", "waiting", "open", "closed"}]
    BY <1>1, <2>1 DEF Waiting, TypeOK
  <2>3. NoLeak'
    BY <1>1, <1>2, <2>1, <2>2, OpenComes DEF ServerIo, NoLeak, Open
  <2>4. TypeOK'
    BY <1>1, <1>2, <2>1, <2>2 DEF ServerIo, TypeOK, Free
  <2>5. /\ pc' = "callback" /\ polled /\ polled' = polled
        /\ spare' = spare /\ raced' = raced /\ pc = "idle"
    BY <1>1, <1>2 DEF ServerIo, Event
  <2>6. SpareLostInRace'
    BY <2>5 DEF ListenInv, SpareLostInRace
  <2>7. QED
    BY <2>3, <2>4, <2>5, <2>6
       DEF ListenInv, OneAtATime, NotDeaf, EnteredPolled, NothingHeldInTrick,
           TrickMakesRoom
<1>3. CASE TrickBegins
  <2>1. TypeOK'
    <3>1. /\ spare' \in BOOLEAN /\ Spare' = 0 /\ Spare = 1 /\ pc' = "trick"
          /\ UNCHANGED <<conn, accepted, polled, server, used>>
      BY <1>1, <1>3 DEF TrickBegins
    <3>2. QED
      BY <1>1, <3>1 DEF TypeOK
  <2>2. TrickMakesRoom'
    BY <1>1, <1>3 DEF TrickBegins, TrickMakesRoom, Free
  <2>3. QED
    BY <1>1, <1>3, <2>1, <2>2
       DEF TrickBegins, Event, ListenInv, OneAtATime, NotDeaf, NoLeak,
           SpareLostInRace, EnteredPolled, NothingHeldInTrick
<1>4. CASE TrickAccepts
  <2>1. PICK c \in Waiting : conn' = [conn EXCEPT ![c] = "closed"]
    BY <1>4 DEF TrickAccepts
  <2>2. /\ Open' = Open
        /\ conn' \in [Conns -> {"new", "waiting", "open", "closed"}]
    BY <1>1, <2>1 DEF Waiting, Open, TypeOK
  <2>3. TypeOK' /\ NoLeak'
    BY <1>1, <1>4, <2>2 DEF TrickAccepts, ListenInv, NothingHeldInTrick, TypeOK,
                            NoLeak, Open
  <2>4. QED
    BY <1>1, <1>4, <2>3
       DEF TrickAccepts, ListenInv, OneAtATime, NotDeaf, SpareLostInRace,
           EnteredPolled, NothingHeldInTrick, TrickMakesRoom, Free
<1>5. CASE TrickEnds
  <2>1. Free \in BOOLEAN
    BY DEF Free
  <2>2. TypeOK'
    BY <1>1, <1>5, <2>1 DEF TrickEnds, ListenInv, TrickMakesRoom, TypeOK, Free
  <2>3. QED
    BY <1>1, <1>5, <2>2
       DEF TrickEnds, ListenInv, OneAtATime, NotDeaf, NoLeak, SpareLostInRace,
           EnteredPolled, NothingHeldInTrick, TrickMakesRoom
<1>6. CASE Return
  <2>1. TypeOK'
    BY <1>1, <1>6 DEF Return, TypeOK
  <2>2. QED
    BY <1>1, <1>6, <2>1
       DEF Return, ListenInv, OneAtATime, NotDeaf, NoLeak, SpareLostInRace,
           EnteredPolled, NothingHeldInTrick, TrickMakesRoom
<1>7. QED
  BY <1>2, <1>3, <1>4, <1>5, <1>6 DEF ServerStep

LEMMA UserKeeps ==
  ASSUME ConstantsOK, ListenInv, UserStep
  PROVE  ListenInv'
<1> USE DEF ListenServes
<1>1. /\ TypeOK /\ used = Cardinality(Open) /\ Limit \in Nat
      /\ used \in Nat /\ others \in Nat /\ Spare \in {0, 1} /\ None \notin Conns
      /\ used + others + Spare <= Limit
      /\ UNCHANGED <<others, pc, raced>>
  BY DEF ListenInv, NoLeak, Open, ConstantsOK, TypeOK, Spare, UserStep
<1>2. accepted # None => accepted \in Open
  BY <1>1 DEF TypeOK, Open
<1>3. CASE Accept
  <2>1. TypeOK'
    BY <1>1, <1>3 DEF Accept, TypeOK, Spare
  <2>2. QED
    BY <1>1, <1>3, <2>1
       DEF Accept, UserCode, ListenInv, OneAtATime, NotDeaf, NoLeak,
           SpareLostInRace, EnteredPolled, NothingHeldInTrick, TrickMakesRoom
<1>4. CASE AcceptFails
  <2>1. /\ Open' = Open \ {accepted}
        /\ conn' \in [Conns -> {"new", "waiting", "open", "closed"}]
    BY <1>1, <1>2, <1>4 DEF AcceptFails, Open, TypeOK
  <2>2. used >= 1 /\ used' = Cardinality(Open') /\ used' = used - 1
    BY <1>1, <1>2, <1>4, <2>1, OpenIsFinite, OpenGoes DEF AcceptFails
  <2>3. NoLeak'
    BY <2>2 DEF NoLeak, Open
  <2>4. failedLate' = TRUE \/ polled
    BY <1>4 DEF AcceptFails
  <2>5. TypeOK'
    BY <1>1, <1>4, <2>1, <2>2 DEF AcceptFails, TypeOK, Spare
  <2>6. QED
    BY <1>1, <1>4, <2>3, <2>4, <2>5
       DEF AcceptFails, UserCode, ListenInv, OneAtATime, NotDeaf,
           SpareLostInRace, EnteredPolled, NothingHeldInTrick, TrickMakesRoom
<1>5. CASE Close
  <2>1. /\ Open' = Open \ {accepted}
        /\ conn' \in [Conns -> {"new", "waiting", "open", "closed"}]
    BY <1>1, <1>5 DEF Close, Open, TypeOK
  <2>2. used' = Cardinality(Open') /\ used' \in Nat /\ used' <= used
    <3>1. CASE accepted = None
      <4>1. Open' = Open
        BY <1>1, <2>1, <3>1 DEF Open
      <4>2. QED
        BY <1>1, <1>5, <3>1, <4>1 DEF Close
    <3>2. CASE accepted # None
      <4>1. used >= 1 /\ Cardinality(Open') = Cardinality(Open) - 1
        BY <1>1, <1>2, <2>1, <3>2, OpenIsFinite, OpenGoes
      <4>2. used' = used - 1
        BY <1>5, <3>2 DEF Close
      <4>3. QED
        BY <1>1, <4>1, <4>2
    <3>3. QED
      BY <3>1, <3>2
  <2>3. NoLeak'
    BY <2>2 DEF NoLeak, Open
  <2>4. TypeOK'
    <3>1. /\ accepted' = None /\ polled' = FALSE /\ server' = "closed"
          /\ UNCHANGED <<spare, failedLate>> /\ Spare' = Spare
      BY <1>5 DEF Close, Spare
    <3>2. used' \in 0..Limit /\ used' + others' + Spare' <= Limit
      BY <1>1, <2>2, <3>1
    <3>3. QED
      BY <1>1, <2>1, <3>1, <3>2 DEF TypeOK
  <2>5. QED
    BY <1>1, <1>5, <2>3, <2>4
       DEF Close, UserCode, ListenInv, OneAtATime, NotDeaf, SpareLostInRace,
           EnteredPolled, NothingHeldInTrick, TrickMakesRoom
<1>6. QED
  BY <1>3, <1>4, <1>5 DEF UserStep

LEMMA ListenStep ==
  ASSUME ConstantsOK PROVE ListenInv /\ [Next]_vars => ListenInv'
<1>1. CASE UNCHANGED vars
  <2>1. ListenInv => ListenInv'
    BY <1>1 DEF vars, ListenInv, ListenServes, TypeOK, OneAtATime, NoLeak,
                NotDeaf, SpareLostInRace, EnteredPolled, NothingHeldInTrick,
                TrickMakesRoom, Free, Spare
  <2>2. QED
    BY <2>1
<1>2. QED
  BY <1>1, EnvironmentKeeps, ServerKeeps, UserKeeps DEF Next

(* A server never overwrites the connection that waits to be taken, loses  *)
(* no descriptor whatever fails, goes deaf only when uv_accept fails late, *)
(* and loses its spare descriptor to other threads alone, for any number   *)
(* of connections and any limit.                                           *)
THEOREM ServerServes == ASSUME ConstantsOK PROVE Spec => []ListenServes
<1>1. ListenInv => ListenServes
  BY DEF ListenInv
<1>2. QED
  BY <1>1, ListenInit, ListenStep, PTL DEF Spec
=============================================================================
