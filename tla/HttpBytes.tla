------------------------------ MODULE HttpBytes ------------------------------
(***************************************************************************)
(* Bytes, buffers and slices, as every parser of the repository sees them. *)
(* A buffer is a sequence of octets read with the 0-based offsets of the   *)
(* code; a slice aliases the buffer it was cut from, so it is the pair of  *)
(* offsets [lo, hi) and never a copy of the bytes.                         *)
(***************************************************************************)
EXTENDS Integers, Sequences

Octet == 0..255

HT    == 9
LF    == 10
CR    == 13
SP    == 32
COLON == 58
ZERO  == 48     \* '0'
NINE  == 57     \* '9'

\* What a read outside the buffer yields; no octet equals it.
Fault == 256

At(b, p) == IF p \in 0..(Len(b) - 1) THEN b[p + 1] ELSE Fault

\* Optional white space around a header value.
OWS == {SP, HT}

----------------------------------------------------------------------------
Slice(lo, hi) == [lo |-> lo, hi |-> hi]

\* The nil slice. Go tells nil from an empty slice only by comparison with
\* nil, which no caller does for the fields a parser fills.
Nil == Slice(0, 0)

Slices == [lo : Nat, hi : Nat]

Width(s) == s.hi - s.lo

\* A slice expression b[lo:hi] panics unless 0 <= lo <= hi <= len(b); the index
\* expression b[p] panics exactly when b[p:p+1] does.
InBounds(s, n) == 0 <= s.lo /\ s.lo <= s.hi /\ s.hi <= n

Index(p) == Slice(p, p + 1)

----------------------------------------------------------------------------
\* bytes.IndexByte / memchr on b[lo:hi]: the offset in b of the first c, -1 if
\* there is none.
IndexByte(b, c, lo, hi) ==
  IF \E p \in lo..(hi - 1) : At(b, p) = c
  THEN CHOOSE p \in lo..(hi - 1) :
         At(b, p) = c /\ \A q \in lo..(p - 1) : At(b, q) # c
  ELSE -1

\* A loop over b that starts at lo and runs to the first octet of C, or to the
\* end, stops at q.
StopsAt(b, lo, q, C) ==
  /\ q = Len(b) \/ At(b, q) \in C
  /\ \A r \in lo..(q - 1) : At(b, r) \notin C

First(b, lo, C) == CHOOSE q \in lo..Len(b) : StopsAt(b, lo, q, C)

\* Where a loop that drops leading white space of b[lo:hi] stops.
TrimLeft(b, lo, hi) ==
  CHOOSE p \in lo..hi :
    /\ p = hi \/ At(b, p) \notin OWS
    /\ \A q \in lo..(p - 1) : At(b, q) \in OWS

\* Where a loop that drops trailing white space of b[lo:hi] stops.
TrimRight(b, lo, hi) ==
  CHOOSE p \in lo..hi :
    /\ p = lo \/ At(b, p - 1) \notin OWS
    /\ \A q \in p..(hi - 1) : At(b, q) \in OWS

Trim(b, lo, hi) ==
  LET l == TrimLeft(b, lo, hi)
  IN  Slice(l, TrimRight(b, l, hi))
=============================================================================
