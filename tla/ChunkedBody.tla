----------------------------- MODULE ChunkedBody -----------------------------
(***************************************************************************)
(* What the octets of a chunked body mean, read from the first of them:    *)
(* how many have been taken in, what payload they carry, whether the body  *)
(* has ended or cannot be one.  Nothing is remembered between two readings *)
(* of a longer and longer prefix, so this says what a decoder that is fed  *)
(* the body in pieces must not depend on.                                  *)
(***************************************************************************)
EXTENDS HttpBytes, FiniteSetsExt

CONSTANT MaxHex     \* the hexadecimal digits of a size_t

ASSUME MaxHexAssumption == MaxHex \in Nat \ {0}

SEMI == 59

\* The value of a hexadecimal digit, -1 for any other octet.
DecodeHex(c) ==
  CASE c \in ZERO..NINE -> c - ZERO
    [] c \in 65..70     -> c - 55
    [] c \in 97..102    -> c - 87
    [] OTHER            -> -1

\* The octets that may follow the digits of a chunk size.
AfterSize == {SP, HT, SEMI, LF, CR}

----------------------------------------------------------------------------
NotHex == {c \in Octet : DecodeHex(c) = -1}

\* The digits b[lo:hi] read as a number.
Number(b, lo, hi) ==
  LET N[q \in lo..hi] ==
        IF q = lo THEN 0 ELSE N[q - 1] * 16 + DecodeHex(At(b, q - 1))
  IN  N[hi]

More(out, inData) == [verdict |-> "more", out |-> out, inData |-> inData, end |-> 0]
Bad               == [verdict |-> "bad", out |-> <<>>, inData |-> FALSE, end |-> 0]
Done(end)         == [verdict |-> "done", out |-> <<>>, inData |-> FALSE, end |-> end]

\* The octet at q, if it has arrived, is not c.
IsNot(b, q, c) == At(b, q) \notin {c, Fault}

\* CR LF at q, as far as it has arrived, is broken.
NotCRLF(b, q) == IsNot(b, q, CR) \/ (At(b, q) = CR /\ IsNot(b, q + 1, LF))

\* The line feeds of lines that hold nothing but carriage returns.
EmptyLines(b, lo) ==
  {f \in lo..(Len(b) - 1) :
     /\ At(b, f) = LF
     /\ \E l \in lo..f : /\ l = lo \/ At(b, l - 1) = LF
                         /\ \A r \in l..(f - 1) : At(b, r) = CR}

\* The trailer ends with the first empty line.
Trailer(b, lo) ==
  IF EmptyLines(b, lo) = {} THEN More(<<>>, FALSE) ELSE Done(Min(EmptyLines(b, lo)) + 1)

\* Chunks[p]: what b[p:] means if a chunk begins at p.
Meaning(b, consume_trailer) ==
  LET Chunks[p \in 0..Len(b)] ==
        LET digits == First(b, p, NotHex)
            crlf   == First(b, digits, {CR, LF})
            data   == crlf + 2
            size   == Number(b, p, digits)
            after  == data + size
            arrived == SubSeq(b, data + 1, Min({after, Len(b)}))
            badLine == \/ digits - p > MaxHex
                       \/ digits < Len(b) /\ digits = p
                       \/ digits < Len(b) /\ At(b, digits) \notin AfterSize
                       \/ NotCRLF(b, crlf)
        IN  CASE badLine -> Bad
              [] ~badLine /\ data > Len(b) -> More(<<>>, FALSE)
              [] ~badLine /\ data <= Len(b) /\ size = 0 ->
                   IF consume_trailer THEN Trailer(b, data) ELSE Done(data)
              [] OTHER ->
                   IF NotCRLF(b, after) THEN Bad
                   ELSE IF after + 2 > Len(b) THEN More(arrived, after > Len(b))
                   ELSE [Chunks[after + 2] EXCEPT !.out = arrived \o @]
  IN  Chunks[0]
=============================================================================
