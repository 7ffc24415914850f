------------------------------ MODULE JsonString ------------------------------
(***************************************************************************)
(* What a JSON string says (RFC 8259, section 7) and what the encoder of   *)
(* kafkashape wants it to say: the octets of a value, with U+FFFD for each *)
(* octet that belongs to no UTF-8 encoding.  Nothing here is about how the *)
(* encoder goes through a value.                                           *)
(***************************************************************************)
EXTENDS HttpBytes

QUOTE     == 34
BACKSLASH == 92
LOWER_U   == 117     \* 'u'

Continuation == 128..191

\* The octets of U+FFFD.
Replacement == <<239, 191, 189>>

----------------------------------------------------------------------------
(***************************************************************************)
(* UTF-8: unicode/utf8.                                                    *)
(***************************************************************************)

\* How long an encoding with this first octet is, 0 if there is none.
Announced(c) ==
  CASE c \in 194..223 -> 2
    [] c \in 224..239 -> 3
    [] c \in 240..244 -> 4
    [] OTHER          -> 0

\* The second octets that avoid overlong forms, surrogates and values over 10FFFF.
Seconds(c) ==
  CASE c = 224 -> 160..191
    [] c = 237 -> 128..159
    [] c = 240 -> 144..191
    [] c = 244 -> 128..143
    [] OTHER   -> Continuation

\* The octets of the encoding at p, an octet >= 0x80; 0 where utf8.DecodeRune
\* returns RuneError with size 1.
RuneSize(b, p) ==
  LET n == Announced(At(b, p))
  IN  IF /\ n > 0
         /\ At(b, p + 1) \in Seconds(At(b, p))
         /\ \A q \in (p + 2)..(p + n - 1) : At(b, q) \in Continuation
      THEN n
      ELSE 0

\* The text of b: b itself, but for the octets that are not UTF-8.
Text(b) ==
  LET T[p \in 0..Len(b)] ==
        IF p = Len(b) THEN <<>>
        ELSE IF At(b, p) < 128 THEN <<At(b, p)>> \o T[p + 1]
        ELSE IF RuneSize(b, p) = 0 THEN Replacement \o T[p + 1]
        ELSE SubSeq(b, p + 1, p + RuneSize(b, p)) \o T[p + RuneSize(b, p)]
  IN  T[0]

----------------------------------------------------------------------------
(***************************************************************************)
(* JSON strings.                                                           *)
(***************************************************************************)

\* What an escape of two characters stands for: quote, reverse solidus, solidus,
\* b, f, n, r, t.
Escapes ==
  [c \in {QUOTE, BACKSLASH, 47, 98, 102, 110, 114, 116} |->
     CASE c = 98 -> 8 [] c = 102 -> 12 [] c = 110 -> LF [] c = 114 -> CR
       [] c = 116 -> HT [] OTHER -> c]

HexValue(c) ==
  CASE c \in ZERO..NINE -> c - ZERO
    [] c \in 65..70     -> c - 55
    [] c \in 97..102    -> c - 87
    [] OTHER            -> -1

\* The code point of four hexadecimal digits at p, -1 if they are not.
CodePoint(d, p) ==
  IF \E q \in p..(p + 3) : HexValue(At(d, q)) = -1
  THEN -1
  ELSE 4096 * HexValue(At(d, p)) + 256 * HexValue(At(d, p + 1))
         + 16 * HexValue(At(d, p + 2)) + HexValue(At(d, p + 3))

\* UTF-8 of a code point of the basic plane; surrogates do not occur alone.
Encoding(u) ==
  CASE u < 128  -> <<u>>
    [] u \in 128..2047 -> <<192 + (u \div 64), 128 + (u % 64)>>
    [] OTHER    -> <<224 + (u \div 4096), 128 + ((u \div 64) % 64), 128 + (u % 64)>>

\* No octet sequence: what a text that is not JSON says.
NotJson == <<-1>>

\* What d[p:] says when it is the rest of a JSON string, to its closing quote,
\* which is the last octet of d.
Said(d, start) ==
  LET S[p \in start..(Len(d) + 1)] ==
        IF p >= Len(d) \/ At(d, p) < SP THEN NotJson
        ELSE IF At(d, p) = QUOTE THEN IF p + 1 = Len(d) THEN <<>> ELSE NotJson
        ELSE IF At(d, p) = BACKSLASH THEN
          IF At(d, p + 1) \in DOMAIN Escapes
          THEN <<Escapes[At(d, p + 1)]>> \o S[p + 2]
          ELSE IF At(d, p + 1) = LOWER_U /\ CodePoint(d, p + 2) # -1
          THEN Encoding(CodePoint(d, p + 2)) \o S[p + 6]
          ELSE NotJson
        ELSE IF At(d, p) < 128 THEN <<At(d, p)>> \o S[p + 1]
        ELSE IF RuneSize(d, p) = 0 THEN NotJson
        ELSE SubSeq(d, p + 1, p + RuneSize(d, p)) \o S[p + RuneSize(d, p)]
  IN  S[start]

\* What the JSON string d says.
Value(d) == IF At(d, 0) = QUOTE THEN Said(d, 1) ELSE NotJson
=============================================================================
