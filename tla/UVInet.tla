------------------------------- MODULE UVInet -------------------------------
(***************************************************************************)
(* Addresses and their texts (inet.c), which uv_ip4_addr and uv_ip6_addr   *)
(* read for a server.  An IPv6 address is eight words, and its text is a   *)
(* sequence of tokens: the digits of one word, a colon, or the four dotted *)
(* numbers of two words.  An IPv4 text is a sequence of characters.        *)
(*                                                                         *)
(* The functions are pure; the state machine only makes their inputs: an   *)
(* address word by word, an IPv6 text token by token, an IPv4 text         *)
(* character by character, each as long as the function has not refused    *)
(* what it has read.                                                       *)
(***************************************************************************)
EXTENDS Integers, Sequences, FiniteSets
LOCAL INSTANCE SequencesExt

CONSTANTS Words,      \* the words of addresses
          Digits,     \* the digits of IPv4 texts
          MaxLength   \* bound: the characters of an IPv4 text

ConstantsOK == Words \subseteq 0..65535 /\ Digits \subseteq 0..9

VARIABLES
  words,  \* an address for inet_ntop6
  text,   \* a text for inet_pton6
  quad    \* a text for inet_pton4: digits, and Dot

vars == <<words, text, quad>>

Init == words = <<>> /\ text = <<>> /\ quad = <<>>

Invalid == <<>>

-----------------------------------------------------------------------------
(* inet_ntop6.                                                             *)

Hex(w) == <<w>>
Colon == <<>>
Dotted(hi, lo) == <<hi, lo>>

(* The run of zeros to leave out: the first of the longest ones, if it has *)
(* two words or more.  base is 0 when there is none, and places count from *)
(* one.                                                                    *)
NoRun == [base |-> 0, len |-> 0]

Longer(best, cur) == cur.base # 0 /\ (best.base = 0 \/ cur.len > best.len)

BestRun(ws) ==
  LET Look(s, i) ==
        IF ws[i] = 0
        THEN [s EXCEPT !.cur = [base |-> IF @.base = 0 THEN i ELSE @.base,
                                len |-> @.len + 1]]
        ELSE [best |-> IF Longer(s.best, s.cur) THEN s.cur ELSE s.best,
              cur |-> NoRun]
      end == FoldLeft(Look, [best |-> NoRun, cur |-> NoRun],
                      [i \in 1..8 |-> i])
      best == IF Longer(end.best, end.cur) THEN end.cur ELSE end.best
  IN  IF best.len < 2 THEN NoRun ELSE best

(* An address that holds one of IPv4: the code also names a run of seven,  *)
(* but then the seventh word is inside the run.                            *)
Embeds(ws, best) ==
  best.base = 1 /\ (best.len = 6 \/ (best.len = 5 /\ ws[6] = 65535))

inet_ntop6(ws) ==
  LET best == BestRun(ws)
      last == best.base + best.len - 1
      quadAt == IF Embeds(ws, best) THEN 7 ELSE 9
      Put(i) ==
        IF best.base # 0 /\ i \in best.base..last
        THEN IF i = best.base THEN <<Colon>> ELSE <<>>
        ELSE (IF i = 1 THEN <<>> ELSE <<Colon>>) \o
             (IF i = quadAt THEN <<Dotted(ws[7], ws[8])>> ELSE <<Hex(ws[i])>>)
  IN  FoldLeft(LAMBDA t, i : t \o Put(i), <<>>,
               [i \in 1..(IF quadAt = 7 THEN 7 ELSE 8) |-> i])
      \o (IF best.base # 0 /\ last = 8 THEN <<Colon>> ELSE <<>>)

-----------------------------------------------------------------------------
(* inet_pton6.  lead: the first two colons are read before the loop; open: *)
(* the last token was a colon behind digits.                               *)

Start == [got |-> <<>>, gap |-> -1, seen |-> FALSE, val |-> 0, open |-> FALSE,
          lead |-> "start", done |-> FALSE, bad |-> FALSE]

Bad(m) == [m EXCEPT !.bad = TRUE]

ReadColon(m) ==
  IF ~m.seen
  THEN IF m.gap # -1 THEN Bad(m)
       ELSE [m EXCEPT !.gap = Len(m.got), !.open = FALSE]
  ELSE IF Len(m.got) = 8 THEN Bad(m)
  ELSE [m EXCEPT !.got = Append(@, m.val), !.seen = FALSE, !.open = TRUE]

ReadDotted(m, t) ==
  IF Len(m.got) + 2 > 8 THEN Bad(m)
  ELSE [m EXCEPT !.got = @ \o t, !.done = TRUE, !.open = FALSE]

ReadToken(m, t) ==
  LET n == [m EXCEPT !.lead = "past"] IN
  CASE m.bad -> m
    [] ~m.bad /\ m.done -> Bad(m)
    [] ~m.bad /\ ~m.done /\ t = Colon ->
         IF m.lead = "start" THEN [m EXCEPT !.lead = "colon"] ELSE ReadColon(n)
    [] ~m.bad /\ ~m.done /\ t # Colon ->
         IF m.lead = "colon" THEN Bad(m)
         ELSE IF Len(t) = 2 THEN ReadDotted(n, t)
         ELSE [n EXCEPT !.seen = TRUE, !.val = t[1], !.open = FALSE]

Read(t) == FoldLeft(ReadToken, Start, t)

inet_pton6(t) ==
  LET m == Read(t)
      got == IF m.seen THEN Append(m.got, m.val) ELSE m.got
      Zeros == [i \in 1..8 - Len(got) |-> 0]
  IN  CASE m.bad \/ m.lead = "colon" \/ m.open \/ Len(got) > 8 -> Invalid
        [] ~m.bad /\ m.lead # "colon" /\ ~m.open /\ Len(got) <= 8 ->
             IF m.gap = -1 THEN IF Len(got) = 8 THEN got ELSE Invalid
             ELSE IF Len(got) = 8 THEN Invalid
             ELSE SubSeq(got, 1, m.gap) \o Zeros
                  \o SubSeq(got, m.gap + 1, Len(got))

-----------------------------------------------------------------------------
(* inet_pton4.                                                             *)

Dot == 10

ReadDigit(m, d) ==
  LET nw == m.now * 10 + d IN
  IF (m.seen /\ m.now = 0) \/ nw > 255 \/ (~m.seen /\ m.octets = 4)
  THEN Bad(m)
  ELSE [m EXCEPT !.now = nw, !.seen = TRUE,
                 !.octets = IF m.seen THEN @ ELSE @ + 1]

ReadDot(m) ==
  IF ~m.seen \/ m.octets = 4 THEN Bad(m)
  ELSE [m EXCEPT !.got = Append(@, m.now), !.now = 0, !.seen = FALSE]

ReadQuad(q) ==
  FoldLeft(LAMBDA m, ch : IF m.bad THEN m
                          ELSE IF ch = Dot THEN ReadDot(m) ELSE ReadDigit(m, ch),
           [got |-> <<>>, now |-> 0, seen |-> FALSE, octets |-> 0,
            bad |-> FALSE], q)

inet_pton4(q) == LET m == ReadQuad(q) IN
                 IF m.bad \/ m.octets < 4 THEN Invalid ELSE Append(m.got, m.now)

-----------------------------------------------------------------------------
(* The inputs.  The k-th word of a text is k.                              *)

MoreWords == /\ text = <<>> /\ quad = <<>> /\ Len(words) < 8
             /\ \E w \in Words : words' = Append(words, w)
             /\ UNCHANGED <<text, quad>>

WordsIn(t) == Len(FlattenSeq(t))

MoreText ==
  /\ words = <<>> /\ quad = <<>> /\ ~Read(text).bad
  /\ LET k == WordsIn(text) + 1
         tokens == IF text # <<>> /\ Last(text) # Colon THEN {Colon}
                   ELSE {Colon, Hex(k), Dotted(k, k + 1)}
     IN  \E t \in tokens : text' = Append(text, t)
  /\ UNCHANGED <<words, quad>>

MoreQuad == /\ words = <<>> /\ text = <<>> /\ ~ReadQuad(quad).bad
            /\ Len(quad) < MaxLength
            /\ \E ch \in Digits \cup {Dot} : quad' = Append(quad, ch)
            /\ UNCHANGED <<words, text>>

Next == MoreWords \/ MoreText \/ MoreQuad

Spec == Init /\ [][Next]_vars

-----------------------------------------------------------------------------
(* Properties.                                                             *)

TypeOK == /\ words \in Seq(Words) /\ Len(words) <= 8
          /\ quad \in Seq(Digits \cup {Dot}) /\ Len(quad) <= MaxLength

(* What is written is read as the address it was written from.             *)
ReadBack == Len(words) = 8 => inet_pton6(inet_ntop6(words)) = words

(* What is left out are zeros, two words or more, and no run is longer,    *)
(* nor as long and earlier.                                                *)
Run(b, n) == b >= 1 /\ b + n <= 9 /\ \A i \in b..b + n - 1 : words[i] = 0
LeavesOutMost ==
  Len(words) = 8 =>
    LET best == BestRun(words) IN
    /\ best.base # 0 => best.len >= 2 /\ Run(best.base, best.len)
    /\ \A b \in 1..8, n \in 2..8 :
         Run(b, n) => best.len > n \/ (best.len = n /\ best.base <= b)

(* The texts of RFC 4291 and their addresses, written down from the words: *)
(* n words, a double colon perhaps, m words, the last two perhaps dotted.  *)
Joined(s) == FoldLeft(LAMBDA t, x : IF t = <<>> THEN <<x>> ELSE t \o <<Colon, x>>,
                      <<>>, s)
Tokens(from, to, dotted) ==
  IF dotted
  THEN [i \in 1..to - from |-> IF i = to - from THEN Dotted(to - 1, to)
                               ELSE Hex(from + i - 1)]
  ELSE [i \in 1..to - from + 1 |-> Hex(from + i - 1)]
LegalTexts ==
  {[text |-> Joined(Tokens(1, 8, d)), address |-> [i \in 1..8 |-> i]] :
     d \in BOOLEAN}
  \cup
  {[text |-> Joined(Tokens(1, x[1], FALSE)) \o <<Colon, Colon>>
             \o Joined(Tokens(x[1] + 1, x[1] + x[2], x[3])),
    address |-> [i \in 1..8 |-> CASE i <= x[1] -> i
                                  [] i > 8 - x[2] -> i - 8 + x[1] + x[2]
                                  [] OTHER -> 0]] :
     x \in {y \in (0..7) \X (0..7) \X BOOLEAN :
              y[1] + y[2] <= 7 /\ (y[3] => y[2] >= 2)}}

(* A text is read as what it says, and no other text is read: neither a    *)
(* colon too many at an end, nor a double colon that stands for nothing.   *)
ReadsLegalTexts ==
  text # <<>> =>
    inet_pton6(text) =
      IF \E x \in LegalTexts : x.text = text
      THEN (CHOOSE x \in LegalTexts : x.text = text).address ELSE Invalid

(* So is a text of four numbers: each at most 255, and none with a zero in *)
(* front.                                                                  *)
Decimal(n) == IF n < 10 THEN <<n>>
              ELSE IF n < 100 THEN <<n \div 10, n % 10>>
              ELSE <<n \div 100, (n \div 10) % 10, n % 10>>
Written(o) == Decimal(o[1]) \o <<Dot>> \o Decimal(o[2]) \o <<Dot>>
              \o Decimal(o[3]) \o <<Dot>> \o Decimal(o[4])
Parts == FoldLeft(LAMBDA s, ch :
                    IF ch = Dot THEN Append(s, 0)
                    ELSE [s EXCEPT ![Len(s)] = @ * 10 + ch], <<0>>, quad)
ReadsQuads ==
  quad # <<>> =>
    inet_pton4(quad) =
      IF /\ Len(Parts) = 4 /\ \A i \in 1..4 : Parts[i] <= 255
         /\ Written(Parts) = quad
      THEN Parts ELSE Invalid
=============================================================================
