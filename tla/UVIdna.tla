------------------------------- MODULE UVIdna -------------------------------
(***************************************************************************)
(* Host names for the resolver (idna.c): UTF-8 is read, the name is split  *)
(* at its dots, and each label that is not ASCII is written in Punycode;   *)
(* and code points as UTF-16.  Characters are numbers.  The functions are  *)
(* pure; the state machine only makes their inputs.                        *)
(*                                                                         *)
(* The overflow of delta needs a label of thousands of characters, and the *)
(* end of the output buffer is left out.                                   *)
(***************************************************************************)
EXTENDS Integers, Sequences, FiniteSets
LOCAL INSTANCE SequencesExt
LOCAL INSTANCE FiniteSetsExt

CONSTANTS Bytes, MaxBytes,  \* the bytes of UTF-8 texts, and a bound
          Points, MaxName   \* the characters of names, and a bound

ConstantsOK == Bytes \subseteq 0..255 /\ Points \subseteq 0..1114111

VARIABLES bytes,  \* a text for uv__utf8_decode1
          name    \* a name for uv__idna_toascii

vars == <<bytes, name>>

Init == bytes = <<>> /\ name = <<>>

-----------------------------------------------------------------------------
(* uv__utf8_decode1: the character and the number of bytes read.  When too *)
(* few bytes are left, the case of fewer bytes takes over; and the marks   *)
(* of the bytes behind the first are looked at together.                   *)

Refused == [c |-> -1, used |-> 0]

Marks(s) == LET Odd(k) == Cardinality({i \in DOMAIN s :
                                         (s[i] \div k) % 2 = 1}) % 2 = 1
            IN  Odd(128) /\ ~Odd(64)

Decoded(a, s, min, used) ==
  LET c == a * 262144 + (s[1] % 64) * 4096 + (s[2] % 64) * 64 + (s[3] % 64) IN
  IF Marks(s) /\ c >= min /\ c <= 1114111 /\ c \notin 55296..57343
  THEN [c |-> c, used |-> used] ELSE Refused

uv__utf8_decode1(s) ==
  LET a == s[1]
      rest == Len(s) - 1
  IN  CASE a < 128 -> [c |-> a, used |-> 1]
        [] a > 247 -> Refused
        [] a \in 240..247 /\ rest >= 3 ->
             Decoded(a % 8, <<s[2], s[3], s[4]>>, 65536, 4)
        [] a \in 224..247 /\ rest >= 2 /\ (a < 240 \/ rest = 2) ->
             Decoded(0, <<128 + (a % 16), s[2], s[3]>>, 2048, 3)
        [] a \in 192..247 /\ rest >= 1 /\ (a < 224 \/ rest = 1) ->
             Decoded(0, <<128, 128 + (a % 32), s[2]>>, 128, 2)
        [] OTHER -> Refused

-----------------------------------------------------------------------------
(* uv__idna_toascii_label.  Digits are the places of `alphabet`, 26 and    *)
(* more being its numbers; here a digit d is the character -d - 1, which   *)
(* no name has.                                                            *)

Digit(d) == -d - 1
Hyphen == 45
Prefix == <<120, 110, Hyphen, Hyphen>>

Threshold(k, bias) == IF k <= bias THEN 1 ELSE IF k - bias > 26 THEN 26
                      ELSE k - bias

Number(delta, bias) ==
  LET From[q \in Nat, k \in Nat] ==
        LET t == Threshold(k, bias) IN
        IF q < t THEN <<Digit(q)>>
        ELSE <<Digit(t + ((q - t) % (36 - t)))>>
             \o From[(q - t) \div (36 - t), k + 36]
  IN  From[delta, 36]

(* Variant of Adapt: the first number is not told apart.                   *)
AdaptAlike(delta, h, first) ==
  LET half == delta \div 2
      From[d \in Nat] == IF d <= 455 THEN (36 * d) \div (d + 38)
                         ELSE 36 + From[d \div 35]
  IN  From[half + half \div h]

(* The bias for the next number, behind the h-th character.                *)
Adapt(delta, h, first) ==
  LET half == IF first THEN (delta \div 2) \div 350 ELSE delta \div 2
      From[d \in Nat] == IF d <= 455 THEN (36 * d) \div (d + 38)
                         ELSE 36 + From[d \div 35]
  IN  From[half + half \div h]

(* A round for the next larger character m: the numbers of all its places. *)
Round(label, s, m) ==
  LET from == [s EXCEPT !.delta = @ + (m - s.n) * (s.h + 1)]
      Look(r, c) ==
        CASE c < m -> [r EXCEPT !.delta = @ + 1]
          [] c > m -> r
          [] c = m -> [r EXCEPT !.out = @ \o Number(r.delta, r.bias),
                                !.bias = Adapt(r.delta, r.h + 1, r.first),
                                !.h = @ + 1, !.delta = 0, !.first = FALSE]
      end == FoldLeft(Look, from, label)
  IN  [end EXCEPT !.delta = @ + 1, !.n = m + 1]

ToAsciiLabel(label) ==
  LET ascii == SelectSeq(label, LAMBDA c : c < 128)
      others == {label[i] : i \in DOMAIN label} \ 0..127
      start == [out |-> <<>>, n |-> 128, bias |-> 72, delta |-> 0,
                h |-> Len(ascii), first |-> TRUE]
  IN  IF others = {} THEN label
      ELSE Prefix \o ascii \o (IF ascii = <<>> THEN <<>> ELSE <<Hyphen>>)
           \o FoldLeft(LAMBDA s, m : Round(label, s, m), start,
                       SetToSortSeq(others, <)).out

(* uv__idna_toascii: any of four characters ends a label.                  *)
Dot == 46
Dots == {Dot, 12290, 65294, 65377}

uv__idna_toascii(s) ==  \* what a name that is not empty becomes
  LET Look(r, c) == IF c \in Dots
                    THEN [out |-> r.out \o ToAsciiLabel(r.label) \o <<Dot>>,
                          label |-> <<>>]
                    ELSE [r EXCEPT !.label = Append(@, c)]
      end == FoldLeft(Look, [out |-> <<>>, label |-> <<>>], s)
  IN  end.out \o ToAsciiLabel(end.label)

-----------------------------------------------------------------------------
(* A character as UTF-16: uv_wtf8_length_as_utf16 says how many units it   *)
(* takes, uv_wtf8_to_utf16 writes them, or <<>> where it aborts, and       *)
(* uv__get_surrogate_value reads them.                                     *)

LengthAsUtf16(c) == IF c > 65535 THEN 2 ELSE 1

ToUtf16(c) == CASE c <= 65536 -> <<c % 65536>>
                [] c \in 65537..1114110 ->
                     <<(c - 65536) \div 1024 + 55296,
                       ((c - 65536) % 1024) + 56320>>
                [] c = 1114111 -> <<>>

SurrogateValue(u) ==
  IF u[1] \in 55296..56319 /\ Len(u) # 1 /\ u[2] \in 56320..57343
  THEN 65536 + (u[1] - 55296) * 1024 + u[2] - 56320 ELSE u[1]

-----------------------------------------------------------------------------
(* The inputs.                                                             *)

MoreBytes == /\ name = <<>> /\ Len(bytes) < MaxBytes
             /\ \E b \in Bytes : bytes' = Append(bytes, b)
             /\ UNCHANGED name

MoreName == /\ bytes = <<>> /\ Len(name) < MaxName
            /\ \E c \in Points : name' = Append(name, c)
            /\ UNCHANGED bytes

Next == MoreBytes \/ MoreName

Spec == Init /\ [][Next]_vars

-----------------------------------------------------------------------------
(* Properties.                                                             *)

TypeOK == /\ bytes \in Seq(Bytes) /\ Len(bytes) <= MaxBytes
          /\ name \in Seq(Points) /\ Len(name) <= MaxName

(* UTF-8 as RFC 3629 writes it.                                            *)
Utf8(c) ==
  CASE c < 128 -> <<c>>
    [] c \in 128..2047 -> <<192 + c \div 64, 128 + (c % 64)>>
    [] c \in 2048..65535 -> <<224 + c \div 4096, 128 + ((c \div 64) % 64),
                              128 + (c % 64)>>
    [] c > 65535 -> <<240 + c \div 262144, 128 + ((c \div 4096) % 64),
                      128 + ((c \div 64) % 64), 128 + (c % 64)>>

(* A character is read back from what RFC 3629 writes, whatever comes      *)
(* behind it.                                                              *)
CharsReadBack ==
  \A c \in Points :
    LET s == Utf8(c) \o bytes IN
    uv__utf8_decode1(s) = [c |-> c, used |-> Len(Utf8(c))]

(* Other bytes are refused, with two exceptions.  The first is a character *)
(* that the text ends in the middle of.  The second are bytes whose wrong  *)
(* marks undo each other, as they are only looked at together: two that    *)
(* are wrong in the same way, or three that are wrong in the three ways    *)
(* there are (F1 20 41 C3 is read as U+60043).                             *)
CutShort(s) == \/ s[1] >= 240 /\ Len(s) < 4
               \/ s[1] \in 224..239 /\ Len(s) < 3

WrongTogether(s, used) ==
  LET mark(i) == s[i] \div 64 IN
  \/ \E i, j \in 2..used : i # j /\ mark(i) = mark(j) /\ mark(i) # 2
  \/ {mark(i) : i \in 2..used} = {0, 1, 3}

RefusesOthers ==
  bytes # <<>> =>
    LET r == uv__utf8_decode1(bytes) IN
    r.c # -1 => \/ SubSeq(bytes, 1, r.used) = Utf8(r.c)
                \/ CutShort(bytes) \/ WrongTogether(bytes, r.used)

(* The decoder of RFC 3492.                                                *)
AdaptBack(delta, points, first) ==
  LET d0 == IF first THEN delta \div 700 ELSE delta \div 2
      Steps[d \in Nat] == IF d > 455 THEN 1 + Steps[d \div 35] ELSE 0
      Rest[d \in Nat] == IF d > 455 THEN Rest[d \div 35] ELSE d
      d1 == d0 + d0 \div points
  IN  36 * Steps[d1] + (36 * Rest[d1]) \div (Rest[d1] + 38)

FromPunycode(ascii, digits) ==
  LET Take(s, x) ==
        LET d == -x - 1
            t == Threshold(s.k, s.bias)
            i == s.i + d * s.w
            len == Len(s.out) + 1
        IN  IF d >= t THEN [s EXCEPT !.i = i, !.w = @ * (36 - t), !.k = @ + 36]
            ELSE [out |-> InsertAt(s.out, (i % len) + 1, s.n + i \div len),
                  n |-> s.n + i \div len, i |-> (i % len) + 1, old |-> (i % len) + 1,
                  w |-> 1, k |-> 36,
                  bias |-> AdaptBack(i - s.old, len, s.old = 0)]
  IN  FoldLeft(Take, [out |-> ascii, n |-> 128, i |-> 0, old |-> 0, w |-> 1,
                      k |-> 36, bias |-> 72], digits).out

FromAsciiLabel(s) ==
  IF Len(s) < 4 \/ SubSeq(s, 1, 4) # Prefix THEN s
  ELSE LET plain == SelectSeq(SubSeq(s, 5, Len(s)), LAMBDA c : c >= 0)
           digits == SelectSeq(s, LAMBDA c : c < 0)
       IN  FromPunycode(IF plain = <<>> THEN <<>> ELSE Front(plain), digits)

Labels(s, dots) ==
  FoldLeft(LAMBDA r, c : IF c \in dots THEN Append(r, <<>>)
                         ELSE [r EXCEPT ![Len(r)] = Append(@, c)],
           << <<>> >>, s)

(* The labels of a name can be read from what the resolver is asked for.   *)
NamesReadBack ==
  name # <<>> =>
    LET asked == Labels(uv__idna_toascii(name), {Dot}) IN
    [i \in DOMAIN asked |-> FromAsciiLabel(asked[i])] = Labels(name, Dots)

(* What is written as UTF-16 has the length foretold and is read back, but *)
(* for the first and the last character that take two units: with these    *)
(* the assertions at idna.c:408 and 397 fail.                              *)
Utf16ReadBack ==
  \A c \in Points :
    IF c \in {65536, 1114111} THEN Len(ToUtf16(c)) # LengthAsUtf16(c)
    ELSE Len(ToUtf16(c)) = LengthAsUtf16(c) /\ SurrogateValue(ToUtf16(c)) = c
=============================================================================
