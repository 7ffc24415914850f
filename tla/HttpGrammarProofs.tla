--------------------------- MODULE HttpGrammarProofs --------------------------
(***************************************************************************)
(* What the operators of HttpBytes return, for every buffer, and how the   *)
(* lines of HttpGrammar are found and put together.  The operators are     *)
(* defined by CHOOSE: the lemmas establish that what they choose exists.   *)
(***************************************************************************)
EXTENDS HttpGrammar, SequenceTheorems, FiniteSetTheorems, WellFoundedInduction, TLAPS

\* A set of naturals that is not empty has a least element.
LEMMA LeastElement ==
  ASSUME NEW T, T \subseteq Nat, T # {}
  PROVE  \E x \in T : \A y \in T : x <= y
<1>1. PICK x \in T : \A y \in T : <<y, x>> \notin OpToRel(<, Nat)
  BY NatLessThanWellFounded, WFMin
<1>2. \A y \in T : ~ (y < x)
  BY <1>1 DEF OpToRel
<1> QED
  BY <1>2

\* A bounded set of naturals that is not empty has a greatest element.
LEMMA GreatestElement ==
  ASSUME NEW T, NEW bound \in Nat, T \subseteq 0..bound, T # {}
  PROVE  \E x \in T : \A y \in T : y <= x
<1> DEFINE R == {bound - x : x \in T}
<1>1. R \subseteq Nat /\ R # {}
  <2>1. PICK x \in T : TRUE
    OBVIOUS
  <2>2. bound - x \in R
    BY <2>1
  <2> QED
    BY <2>2
<1>2. PICK r \in R : \A s \in R : r <= s
  BY <1>1, LeastElement
<1>3. PICK x \in T : r = bound - x
  OBVIOUS
<1>4. \A y \in T : bound - x <= bound - y
  BY <1>2, <1>3
<1> QED
  BY <1>4

\* What Min chooses of a set of naturals.
LEMMA MinIsLeast ==
  ASSUME NEW T, T \subseteq Nat, T # {}
  PROVE  Min(T) \in T /\ \A y \in T : Min(T) <= y
<1> DEFINE IsLeast(x) == \A y \in T : x <= y
<1>1. \E x \in T : IsLeast(x)
  BY LeastElement
<1>2. Min(T) = CHOOSE x \in T : IsLeast(x)
  BY DEF Min
<1> HIDE DEF IsLeast
<1>3. Min(T) \in T /\ IsLeast(Min(T))
  BY <1>1, <1>2
<1> QED
  BY <1>3 DEF IsLeast

\* An element of a set of naturals that none is below is its Min.
LEMMA MinEquals ==
  ASSUME NEW T, T \subseteq Nat, NEW x \in T, \A y \in T : x <= y
  PROVE  Min(T) = x
<1>1. Min(T) \in T /\ Min(T) <= x
  BY MinIsLeast
<1>2. x <= Min(T) /\ x \in Nat /\ Min(T) \in Nat
  BY <1>1
<1> QED
  BY <1>1, <1>2

----------------------------------------------------------------------------
\* A read inside the buffer yields one of its octets, and only such a read does.
LEMMA AtInside ==
  ASSUME NEW b \in Seq(Octet), NEW p
  PROVE  /\ p \in 0..(Len(b) - 1) => At(b, p) \in Octet
         /\ At(b, p) # Fault => p \in 0..(Len(b) - 1)
<1>1. ASSUME p \in 0..(Len(b) - 1)
      PROVE  At(b, p) \in Octet
  <2>1. Len(b) \in Nat
    BY LenProperties
  <2>2. p + 1 \in 1..Len(b)
    BY <1>1, <2>1
  <2>3. b[p + 1] \in Octet
    BY <2>2, ElementOfSeq
  <2> QED
    BY <1>1, <2>3 DEF At
<1>2. ASSUME p \notin 0..(Len(b) - 1)
      PROVE  At(b, p) = Fault
  BY <1>2 DEF At
<1> QED
  BY <1>1, <1>2

\* IndexByte finds the first occurrence, or there is none.
LEMMA IndexByteFirst ==
  ASSUME NEW b, NEW c, NEW lo \in Nat, NEW hi \in Int
  PROVE  \/ /\ IndexByte(b, c, lo, hi) = -1
            /\ \A q \in lo..(hi - 1) : At(b, q) # c
         \/ /\ IndexByte(b, c, lo, hi) \in lo..(hi - 1)
            /\ At(b, IndexByte(b, c, lo, hi)) = c
            /\ \A q \in lo..(IndexByte(b, c, lo, hi) - 1) : At(b, q) # c
<1> DEFINE T == {p \in lo..(hi - 1) : At(b, p) = c}
           IsFirst(p) == At(b, p) = c /\ \A q \in lo..(p - 1) : At(b, q) # c
<1>1. CASE T = {}
  BY <1>1 DEF IndexByte
<1>2. CASE T # {}
  <2>1. PICK x \in T : \A y \in T : x <= y
    <3>1. T \subseteq Nat
      OBVIOUS
    <3> QED
      BY <1>2, <3>1, LeastElement
  <2>2. x \in lo..(hi - 1) /\ IsFirst(x)
    BY <2>1
  <2>3. IndexByte(b, c, lo, hi) = CHOOSE p \in lo..(hi - 1) : IsFirst(p)
    BY <2>2 DEF IndexByte
  <2> HIDE DEF IsFirst
  <2>4. (CHOOSE p \in lo..(hi - 1) : IsFirst(p)) \in lo..(hi - 1)
    BY <2>2
  <2>5. IsFirst(CHOOSE p \in lo..(hi - 1) : IsFirst(p))
    BY <2>2
  <2> QED
    BY <2>3, <2>4, <2>5 DEF IsFirst
<1> QED
  BY <1>1, <1>2

\* TrimLeft stops at the first octet that is not white space, or at the end.
LEMMA TrimLeftStops ==
  ASSUME NEW b, NEW lo \in Nat, NEW hi \in Nat, lo <= hi
  PROVE  LET p == TrimLeft(b, lo, hi)
         IN  /\ p \in lo..hi
             /\ p = hi \/ At(b, p) \notin OWS
             /\ \A q \in lo..(p - 1) : At(b, q) \in OWS
<1> DEFINE T == {p \in lo..hi : p = hi \/ At(b, p) \notin OWS}
           Stops(p) == /\ p = hi \/ At(b, p) \notin OWS
                       /\ \A q \in lo..(p - 1) : At(b, q) \in OWS
<1>1. PICK x \in T : \A y \in T : x <= y
  <2>1. T \subseteq Nat /\ hi \in T
    OBVIOUS
  <2> QED
    BY <2>1, LeastElement
<1>2. x \in lo..hi /\ Stops(x)
  BY <1>1
<1>3. TrimLeft(b, lo, hi) = CHOOSE p \in lo..hi : Stops(p)
  BY DEF TrimLeft
<1> HIDE DEF Stops
<1>4. TrimLeft(b, lo, hi) \in lo..hi /\ Stops(TrimLeft(b, lo, hi))
  BY <1>2, <1>3
<1> QED
  BY <1>4 DEF Stops

\* TrimRight stops after the last octet that is not white space, or at the start.
LEMMA TrimRightStops ==
  ASSUME NEW b, NEW lo \in Nat, NEW hi \in Nat, lo <= hi
  PROVE  LET p == TrimRight(b, lo, hi)
         IN  /\ p \in lo..hi
             /\ p = lo \/ At(b, p - 1) \notin OWS
             /\ \A q \in p..(hi - 1) : At(b, q) \in OWS
<1> DEFINE T == {p \in lo..hi : p = lo \/ At(b, p - 1) \notin OWS}
           Stops(p) == /\ p = lo \/ At(b, p - 1) \notin OWS
                       /\ \A q \in p..(hi - 1) : At(b, q) \in OWS
<1>1. PICK x \in T : \A y \in T : y <= x
  <2>1. T \subseteq 0..hi /\ lo \in T
    OBVIOUS
  <2> QED
    BY <2>1, GreatestElement
<1>2. x \in lo..hi /\ Stops(x)
  <2>1. ASSUME NEW q \in x..(hi - 1), At(b, q) \notin OWS
        PROVE  FALSE
    <3>1. q + 1 \in T
      BY <2>1, <1>1
    <3> QED
      BY <3>1, <1>1
  <2> QED
    BY <1>1, <2>1
<1>3. TrimRight(b, lo, hi) = CHOOSE p \in lo..hi : Stops(p)
  BY DEF TrimRight
<1> HIDE DEF Stops
<1>4. TrimRight(b, lo, hi) \in lo..hi /\ Stops(TrimRight(b, lo, hi))
  BY <1>2, <1>3
<1> QED
  BY <1>4 DEF Stops

\* An octet with no other like it before it is the one a search finds.
LEMMA FirstIsFound ==
  ASSUME NEW b, NEW c, NEW lo \in Nat, NEW hi \in Int, NEW e \in lo..(hi - 1),
         At(b, e) = c, \A q \in lo..(e - 1) : At(b, q) # c
  PROVE  IndexByte(b, c, lo, hi) = e
<1> DEFINE i == IndexByte(b, c, lo, hi)
<1>1. \/ i = -1 /\ \A q \in lo..(hi - 1) : At(b, q) # c
      \/ i \in lo..(hi - 1) /\ At(b, i) = c /\ \A q \in lo..(i - 1) : At(b, q) # c
  BY IndexByteFirst
<1> HIDE DEF i
<1>2. i \in lo..(hi - 1) /\ At(b, i) = c /\ \A q \in lo..(i - 1) : At(b, q) # c
  BY <1>1
<1>3. ~ (i < e) /\ ~ (e < i)
  BY <1>2
<1> QED
  BY <1>2, <1>3 DEF i

\* Only a position of the buffer holds an octet that is searched for.
LEMMA AtPosition ==
  ASSUME NEW b, NEW q, At(b, q) # Fault
  PROVE  q \in 0..(Len(b) - 1)
BY DEF At

\* A space that IndexByte found lies in its range and is the first.
LEMMA SpaceFound ==
  ASSUME NEW b, NEW lo \in Nat, NEW hi \in Nat, IndexByte(b, SP, lo, hi) >= 0
  PROVE  /\ IndexByte(b, SP, lo, hi) \in lo..(hi - 1)
         /\ At(b, IndexByte(b, SP, lo, hi)) = SP
         /\ Free(b, lo, IndexByte(b, SP, lo, hi), {SP})
BY IndexByteFirst DEF Free

\* Where memchr finds no space there is none.
LEMMA NoSpaceFound ==
  ASSUME NEW b, NEW lo \in Nat, NEW hi \in Nat, IndexByte(b, SP, lo, hi) < 0
  PROVE  Free(b, lo, hi, {SP})
<1> DEFINE p == IndexByte(b, SP, lo, hi)
<1>1. \/ \A q \in lo..(hi - 1) : At(b, q) # SP
      \/ p \in lo..(hi - 1)
  <2>1. hi \in Int
    OBVIOUS
  <2> QED
    BY <2>1, IndexByteFirst, Zenon
<1>2. p \notin lo..(hi - 1)
  OBVIOUS
<1> HIDE DEF p
<1> QED
  BY <1>1, <1>2 DEF Free

----------------------------------------------------------------------------
(***************************************************************************)
(* Lines, headers and their concatenation.                                 *)
(***************************************************************************)

\* IndexByteFirst for the search for a line feed up to the end of a buffer.
LEMMA LineFeedFirst ==
  ASSUME NEW b, NEW lo \in Nat, NEW n \in Nat
  PROVE  \/ IndexByte(b, LF, lo, n) = -1
         \/ /\ IndexByte(b, LF, lo, n) \in lo..(n - 1)
            /\ At(b, IndexByte(b, LF, lo, n)) = LF
            /\ \A q \in lo..(IndexByte(b, LF, lo, n) - 1) : At(b, q) # LF
BY IndexByteFirst

\* A line feed found from the start of a line, with CR before it, ends a line.
LEMMA LineFound ==
  ASSUME NEW b, NEW n \in Nat, NEW lo \in Nat,
         lo = 0 \/ At(b, lo - 1) = LF,
         IndexByte(b, LF, lo, n) >= 1,
         At(b, IndexByte(b, LF, lo, n) - 1) = CR
  PROVE  LET lf == IndexByte(b, LF, lo, n)
         IN  /\ lf \in Nat
             /\ lf + 1 <= n
             /\ IsLine(b, lo, lf + 1)
<1> DEFINE lf == IndexByte(b, LF, lo, n)
<1>1. lf >= 1 /\ At(b, lf - 1) = CR
  OBVIOUS
<1>2. \/ lf = -1
      \/ /\ lf \in lo..(n - 1)
         /\ At(b, lf) = LF
         /\ \A q \in lo..(lf - 1) : At(b, q) # LF
  BY LineFeedFirst
<1> HIDE DEF lf
<1>3. /\ lf \in lo..(n - 1)
      /\ At(b, lf) = LF
      /\ \A q \in lo..(lf - 1) : At(b, q) # LF
  BY <1>1, <1>2
<1>4. lf # lo
  BY <1>1 DEF CR, LF
<1>5. IsLine(b, lo, lf + 1)
  <2>1. lo + 2 <= lf + 1
    BY <1>3, <1>4
  <2>2. (lf + 1) - 2 = lf - 1 /\ (lf + 1) - 1 = lf
    BY <1>3
  <2> QED
    BY <2>1, <2>2, <1>1, <1>3 DEF IsLine, Free
<1> QED
  BY <1>3, <1>5 DEF lf

\* A header cut out of a line at its first colon is a reading of the line.
LEMMA HeaderFound ==
  ASSUME NEW b, NEW lo \in Nat, NEW lf \in Nat,
         IsLine(b, lo, lf + 1),
         At(b, lo) # CR,
         IndexByte(b, COLON, lo, lf - 1) >= 0
  PROVE  LET colon == IndexByte(b, COLON, lo, lf - 1)
             h     == [name  |-> Slice(lo, colon),
                       value |-> Trim(b, colon + 1, lf - 1)]
         IN  h \in [name : Slices, value : Slices] /\ IsHeaderLine(b, h, lf + 1)
<1> DEFINE colon == IndexByte(b, COLON, lo, lf - 1)
           l == TrimLeft(b, colon + 1, lf - 1)
           r == TrimRight(b, l, lf - 1)
           h == [name |-> Slice(lo, colon), value |-> Slice(l, r)]
<1>1. /\ colon \in lo..(lf - 2)
      /\ At(b, colon) = COLON
      /\ \A q \in lo..(colon - 1) : At(b, q) # COLON
  <2>1. lf - 1 \in Int
    OBVIOUS
  <2>2. \/ colon = -1
        \/ /\ colon \in lo..((lf - 1) - 1)
           /\ At(b, colon) = COLON
           /\ \A q \in lo..(colon - 1) : At(b, q) # COLON
    BY <2>1, IndexByteFirst
  <2> QED
    BY <2>2
<1> HIDE DEF colon
<1>2. /\ l \in (colon + 1)..(lf - 1)
      /\ l = lf - 1 \/ At(b, l) \notin OWS
      /\ \A q \in (colon + 1)..(l - 1) : At(b, q) \in OWS
  <2>1. colon + 1 \in Nat /\ lf - 1 \in Nat /\ colon + 1 <= lf - 1
    BY <1>1
  <2> QED
    BY <2>1, TrimLeftStops
<1> HIDE DEF l
<1>3. /\ r \in l..(lf - 1)
      /\ r = l \/ At(b, r - 1) \notin OWS
      /\ \A q \in r..((lf - 1) - 1) : At(b, q) \in OWS
  <2>1. l \in Nat /\ lf - 1 \in Nat /\ l <= lf - 1
    BY <1>1, <1>2
  <2> QED
    BY <2>1, TrimRightStops
<1> HIDE DEF r
<1>4. h \in [name : Slices, value : Slices]
  BY <1>1, <1>2, <1>3 DEF Slices, Slice
<1>5. /\ h.name.lo = lo /\ h.name.hi = colon
      /\ h.value.lo = l /\ h.value.hi = r
  BY DEF Slice
<1>6. IF l = r
      THEN r = (lf + 1) - 2
      ELSE At(b, l) \notin OWS /\ At(b, r - 1) \notin OWS
  <2>1. CASE l = r
    <3>1. ~ (l < lf - 1)
      <4>1. SUFFICES ASSUME l < lf - 1 PROVE FALSE
        OBVIOUS
      <4>2. l \in r..((lf - 1) - 1)
        BY <2>1, <4>1, <1>1, <1>2
      <4> QED
        BY <4>1, <4>2, <1>2, <1>3
    <3> QED
      BY <2>1, <3>1, <1>2
  <2>2. CASE l # r
    BY <2>2, <1>1, <1>2, <1>3
  <2> QED
    BY <2>1, <2>2
<1>7. IsHeaderLine(b, h, lf + 1)
  <2>1. lf - 1 = (lf + 1) - 2
    OBVIOUS
  <2>2. Free(b, lo, colon, {COLON})
    BY <1>1 DEF Free
  <2>3. Filled(b, colon + 1, l, OWS)
    BY <1>2 DEF Filled
  <2>4. Filled(b, r, (lf + 1) - 2, OWS)
    BY <1>3, <2>1 DEF Filled
  <2>5. lo <= colon /\ colon < l /\ l <= r /\ r <= (lf + 1) - 2
    BY <1>1, <1>2, <1>3
  <2> HIDE DEF h
  <2> QED
    BY <1>1, <1>5, <1>6, <2>2, <2>3, <2>4, <2>5 DEF IsHeaderLine
<1> QED
  BY <1>4, <1>7 DEF colon, l, r, Trim

\* A header line appended where the header lines stop extends them.
LEMMA HeadersExtended ==
  ASSUME NEW b, NEW T, NEW hs \in Seq(T), NEW h \in T,
         NEW start, NEW stop,
         AreHeaders(b, hs, start, h.name.lo),
         IsHeaderLine(b, h, stop)
  PROVE  AreHeaders(b, Append(hs, h), start, stop)
<1> DEFINE hs2 == Append(hs, h)
           n == Len(hs)
<1>1. /\ n \in Nat
      /\ Len(hs2) = n + 1
      /\ hs2[n + 1] = h
      /\ \A j \in 1..n : hs2[j] = hs[j]
  BY AppendProperties, LenProperties
<1>2. hs2 # <<>>
  BY <1>1
<1>3. hs = <<>> <=> n = 0
  BY EmptySeq
<1> HIDE DEF hs2
<1>4. start = hs2[1].name.lo
  BY <1>1, <1>3 DEF AreHeaders
<1>5. ASSUME NEW j \in 1..(n + 1)
      PROVE  IsHeaderLine(b, hs2[j], LineStop(hs2, j, stop))
  <2>1. CASE j = n + 1
    BY <2>1, <1>1 DEF LineStop
  <2>2. CASE j = n
    <3>1. LineStop(hs2, j, stop) = h.name.lo
      BY <2>2, <1>1 DEF LineStop
    <3>2. LineStop(hs, j, h.name.lo) = h.name.lo
      BY <2>2 DEF LineStop
    <3> QED
      BY <2>2, <1>1, <3>1, <3>2 DEF AreHeaders
  <2>3. CASE j < n
    <3>1. LineStop(hs2, j, stop) = LineStop(hs, j, h.name.lo)
      BY <2>3, <1>1 DEF LineStop
    <3> QED
      BY <2>3, <1>1, <3>1 DEF AreHeaders
  <2> QED
    BY <1>1, <2>1, <2>2, <2>3
<1> QED
  BY <1>1, <1>2, <1>4, <1>5 DEF AreHeaders, hs2

----------------------------------------------------------------------------
(***************************************************************************)
(* Which buffers are messages, decided by a reader that sees them line by  *)
(* line: what it may conclude from the lines it has seen.                  *)
(***************************************************************************)

\* b[0:n] is lines that the first line and the header lines of a message may be.
Scanned(b, n) ==
  /\ n \in 2..Len(b)
  /\ At(b, n - 1) = LF
  /\ \A p \in 0..(n - 1) : At(b, p) = LF => At(b, p - 1) = CR
  /\ \A p \in 0..(n - 2) : At(b, p) = LF => At(b, p + 1) # CR
  /\ \A p, q \in 0..(n - 1) :
       (p < q /\ At(b, p) = LF /\ At(b, q) = LF) =>
         \E c \in (p + 1)..(q - 2) : At(b, c) = COLON

\* The first line of a buffer is a beginning of that kind.
LEMMA FirstScanned ==
  ASSUME NEW b, Len(b) \in Nat, NEW start \in Nat, start <= Len(b), IsLine(b, 0, start)
  PROVE  Scanned(b, start)
<1>1. /\ 2 <= start /\ At(b, start - 2) = CR /\ At(b, start - 1) = LF
      /\ \A q \in 0..(start - 2) : At(b, q) # LF
  <2>1. (start - 1) - 1 = start - 2
    OBVIOUS
  <2> QED
    BY <2>1 DEF IsLine, Free
<1>2. ASSUME NEW p \in 0..(start - 1), At(b, p) = LF
      PROVE  p = start - 1
  BY <1>1, <1>2
<1>3. (start - 1) - 1 = start - 2
  OBVIOUS
<1> QED
  BY <1>1, <1>2, <1>3 DEF Scanned

\* A header line after such a beginning extends it.
LEMMA LineScanned ==
  ASSUME NEW b, Len(b) \in Nat, NEW n, Scanned(b, n),
         NEW h \in [name : Slices, value : Slices], h.name.lo = n,
         NEW stop \in Nat, stop <= Len(b), IsHeaderLine(b, h, stop)
  PROVE  Scanned(b, stop)
<1> DEFINE colon == h.name.hi
<1>1. /\ n \in 2..Len(b) /\ At(b, n - 1) = LF /\ At(b, n) # CR
      /\ n + 2 <= stop /\ At(b, stop - 2) = CR /\ At(b, stop - 1) = LF
      /\ \A q \in n..(stop - 2) : At(b, q) # LF
  <2>1. (stop - 1) - 1 = stop - 2
    OBVIOUS
  <2> QED
    BY <2>1 DEF Scanned, IsHeaderLine, IsLine, Free
<1>2. colon \in n..(stop - 3) /\ At(b, colon) = COLON
  <2>1. /\ colon \in Nat /\ h.value.lo \in Nat /\ h.value.hi \in Nat
        /\ n <= colon /\ colon < h.value.lo /\ h.value.lo <= h.value.hi
        /\ h.value.hi <= stop - 2 /\ At(b, colon) = COLON
    BY DEF IsHeaderLine, Slices
  <2> HIDE DEF colon
  <2> QED
    BY <1>1, <2>1
<1> HIDE DEF colon
<1>3. ASSUME NEW p \in 0..(stop - 1), At(b, p) = LF
      PROVE  p \in 0..(n - 1) \/ p = stop - 1
  BY <1>1, <1>3
<1>4. ASSUME NEW p \in 0..(stop - 1), At(b, p) = LF
      PROVE  At(b, p - 1) = CR
  <2>1. CASE p \in 0..(n - 1)
    BY <1>4, <2>1 DEF Scanned
  <2>2. CASE p = stop - 1
    <3>1. p - 1 = stop - 2
      BY <2>2
    <3> QED
      BY <1>1, <3>1
  <2> QED
    BY <1>3, <1>4, <2>1, <2>2
<1>5. ASSUME NEW p \in 0..(stop - 2), At(b, p) = LF
      PROVE  At(b, p + 1) # CR
  <2>1. p \in 0..(n - 1)
    BY <1>3, <1>5
  <2>2. CASE p = n - 1
    <3>1. p + 1 = n
      BY <1>1, <2>2
    <3> QED
      BY <1>1, <3>1
  <2>3. CASE p # n - 1
    <3>1. p \in 0..(n - 2)
      BY <1>1, <2>1, <2>3
    <3> QED
      BY <1>5, <3>1 DEF Scanned
  <2> QED
    BY <2>2, <2>3
<1>6. ASSUME NEW p \in 0..(stop - 1), NEW q \in 0..(stop - 1),
             p < q, At(b, p) = LF, At(b, q) = LF
      PROVE  \E c \in (p + 1)..(q - 2) : At(b, c) = COLON
  <2>1. p \in 0..(n - 1)
    BY <1>3, <1>6
  <2>2. CASE q \in 0..(n - 1)
    BY <1>6, <2>1, <2>2 DEF Scanned
  <2>3. CASE q = stop - 1
    <3>1. colon \in (p + 1)..(q - 2)
      BY <1>1, <1>2, <2>1, <2>3
    <3> QED
      BY <1>2, <3>1
  <2> QED
    BY <1>3, <1>6, <2>2, <2>3
<1>7. stop \in 2..Len(b) /\ At(b, stop - 1) = LF
  BY <1>1
<1> QED
  BY <1>4, <1>5, <1>6, <1>7 DEF Scanned

\* Where a head ends: Min chooses an offset, and all others are behind it.
LEMMA FirstHeadEnd ==
  ASSUME NEW b, Len(b) \in Nat, HeadEnds(b) # {}
  PROVE  /\ Min(HeadEnds(b)) \in 0..(Len(b) - 4)
         /\ At(b, Min(HeadEnds(b)) + 1) = LF
         /\ At(b, Min(HeadEnds(b)) + 2) = CR
         /\ At(b, Min(HeadEnds(b)) + 3) = LF
<1>1. HeadEnds(b) \subseteq Nat
  BY DEF HeadEnds
<1>2. Min(HeadEnds(b)) \in HeadEnds(b)
  BY <1>1, MinIsLeast
<1> QED
  BY <1>2 DEF HeadEnds

\* A head does not end before the lines that are scanned do.
LEMMA HeadEndsLater ==
  ASSUME NEW b, Len(b) \in Nat, NEW n, Scanned(b, n), NEW p \in HeadEnds(b)
  PROVE  n <= p + 2
<1>1. p \in 0..(Len(b) - 4) /\ At(b, p + 1) = LF /\ At(b, p + 2) = CR
  BY DEF HeadEnds
<1>2. SUFFICES ASSUME ~ (n <= p + 2) PROVE FALSE
  BY <1>1
<1>3. n \in 2..Len(b)
  BY DEF Scanned
<1>4. p + 1 \in 0..(n - 2) /\ (p + 1) + 1 = p + 2
  BY <1>1, <1>2, <1>3
<1> QED
  BY <1>1, <1>4 DEF Scanned

\* If a head ends at all, every line feed up to the end of a line that is scanned
\* next is one of its line ends.
LEMMA NextLineEnd ==
  ASSUME NEW b, Len(b) \in Nat, NEW n, Scanned(b, n), At(b, n) # CR,
         HeadEnds(b) # {}
  PROVE  /\ n - 1 \in LineEnds(b)
         /\ IndexByte(b, LF, n, Len(b)) \in n..(Len(b) - 1)
         /\ IndexByte(b, LF, n, Len(b)) \in LineEnds(b)
<1> DEFINE m == Min(HeadEnds(b))
           lf == IndexByte(b, LF, n, Len(b))
<1>1. /\ m \in 0..(Len(b) - 4) /\ m \in HeadEnds(b)
      /\ At(b, m + 1) = LF /\ At(b, m + 2) = CR
  <2>1. HeadEnds(b) \subseteq Nat
    BY DEF HeadEnds
  <2> QED
    BY <2>1, FirstHeadEnd, MinIsLeast
<1>2. n <= m + 2
  BY <1>1, HeadEndsLater
<1> HIDE DEF m
<1>3. n \in 2..Len(b) /\ At(b, n - 1) = LF
  BY DEF Scanned
<1>4. n # m + 2
  BY <1>1
<1>5. m + 1 \in n..(Len(b) - 1)
  BY <1>1, <1>2, <1>3, <1>4
<1>6. \/ lf = -1 /\ \A q \in n..(Len(b) - 1) : At(b, q) # LF
      \/ /\ lf \in n..(Len(b) - 1) /\ At(b, lf) = LF
         /\ \A q \in n..(lf - 1) : At(b, q) # LF
  <2>1. n \in Nat /\ Len(b) \in Int
    BY <1>3
  <2> QED
    BY <2>1, IndexByteFirst
<1> HIDE DEF lf
<1>7. /\ lf \in n..(Len(b) - 1) /\ At(b, lf) = LF
      /\ \A q \in n..(lf - 1) : At(b, q) # LF
  BY <1>1, <1>5, <1>6
<1>8. lf <= m + 1
  BY <1>1, <1>3, <1>5, <1>7
<1>9. LineEnds(b) = {p \in 0..(m + 1) : At(b, p) = LF}
  BY DEF LineEnds, m
<1>10. n - 1 \in 0..(m + 1) /\ lf \in 0..(m + 1)
  BY <1>1, <1>2, <1>3, <1>7, <1>8
<1> QED
  BY <1>3, <1>7, <1>9, <1>10 DEF lf

\* The lines end before any empty line does: no message.
LEMMA NoHeadWithoutEnd ==
  ASSUME NEW b, Len(b) \in Nat, NEW n, Scanned(b, n), Len(b) <= n
  PROVE  ~ WellFormedHead(b)
<1>1. SUFFICES ASSUME HeadEnds(b) # {} PROVE FALSE
  BY DEF WellFormedHead
<1>2. PICK p \in HeadEnds(b) : TRUE
  BY <1>1
<1>3. p \in 0..(Len(b) - 4) /\ n <= p + 2 /\ n \in 2..Len(b)
  BY HeadEndsLater DEF HeadEnds, Scanned
<1> QED
  BY <1>3

\* A line that begins with CR is not empty: no message.
LEMMA NoHeadAfterCR ==
  ASSUME NEW b, Len(b) \in Nat, NEW n, Scanned(b, n), At(b, n) = CR,
         At(b, n + 1) # LF
  PROVE  ~ WellFormedHead(b)
<1> DEFINE m == Min(HeadEnds(b))
<1>1. SUFFICES ASSUME WellFormedHead(b) PROVE FALSE
  OBVIOUS
<1>2. /\ m \in 0..(Len(b) - 4) /\ m \in HeadEnds(b) /\ At(b, m + 3) = LF
  <2>1. HeadEnds(b) \subseteq Nat /\ HeadEnds(b) # {}
    BY <1>1 DEF HeadEnds, WellFormedHead
  <2> QED
    BY <2>1, FirstHeadEnd, MinIsLeast
<1>3. \A p \in LineEnds(b) \ {m + 1} : At(b, p + 1) # CR
  BY <1>1 DEF WellFormedHead
<1>4. n <= m + 2 /\ n \in 2..Len(b) /\ At(b, n - 1) = LF
  BY <1>2, HeadEndsLater DEF Scanned
<1>5. LineEnds(b) = {p \in 0..(m + 1) : At(b, p) = LF}
  BY DEF LineEnds
<1> HIDE DEF m
<1>6. n - 1 \in LineEnds(b) /\ (n - 1) + 1 = n
  BY <1>2, <1>4, <1>5
<1>7. n - 1 = m + 1
  BY <1>3, <1>6
<1>8. n + 1 = m + 3
  BY <1>2, <1>4, <1>7
<1> QED
  BY <1>2, <1>8

\* The next line has no end, or one without CR: no message.
LEMMA NoHeadBareLine ==
  ASSUME NEW b, Len(b) \in Nat, NEW n, Scanned(b, n), At(b, n) # CR,
         ~ (/\ IndexByte(b, LF, n, Len(b)) >= 1
            /\ At(b, IndexByte(b, LF, n, Len(b)) - 1) = CR)
  PROVE  ~ WellFormedHead(b)
<1>1. SUFFICES ASSUME WellFormedHead(b) PROVE FALSE
  OBVIOUS
<1>2. /\ IndexByte(b, LF, n, Len(b)) \in LineEnds(b)
      /\ IndexByte(b, LF, n, Len(b)) \in n..(Len(b) - 1)
  BY <1>1, NextLineEnd DEF WellFormedHead
<1>3. At(b, IndexByte(b, LF, n, Len(b)) - 1) = CR
  BY <1>1, <1>2 DEF WellFormedHead
<1>4. n \in 2..Len(b)
  BY DEF Scanned
<1> QED
  BY <1>2, <1>3, <1>4

\* The next line has no colon before its end: no message.
LEMMA NoHeadColonless ==
  ASSUME NEW b, Len(b) \in Nat, NEW n, Scanned(b, n), At(b, n) # CR,
         IndexByte(b, COLON, n, IndexByte(b, LF, n, Len(b)) - 1) < 0
  PROVE  ~ WellFormedHead(b)
<1> DEFINE lf == IndexByte(b, LF, n, Len(b))
<1>1. SUFFICES ASSUME WellFormedHead(b) PROVE FALSE
  OBVIOUS
<1>2. n - 1 \in LineEnds(b) /\ lf \in LineEnds(b) /\ lf \in n..(Len(b) - 1)
  BY <1>1, NextLineEnd DEF WellFormedHead
<1>3. n \in 2..Len(b)
  BY DEF Scanned
<1> HIDE DEF lf
<1>4. n - 1 < lf /\ (n - 1) + 1 = n /\ n \in Nat /\ lf - 1 \in Int
      /\ lf - 2 = (lf - 1) - 1
  BY <1>2, <1>3
<1>5. PICK c \in n..(lf - 2) : At(b, c) = COLON
  BY <1>1, <1>2, <1>4 DEF WellFormedHead
<1>6. \/ IndexByte(b, COLON, n, lf - 1) \in n..(lf - 2)
      \/ \A q \in n..(lf - 2) : At(b, q) # COLON
  <2> DEFINE hi == lf - 1
  <2>1. hi \in Int /\ n \in Nat /\ lf - 2 = hi - 1
    BY <1>4
  <2> HIDE DEF hi
  <2>2. \/ IndexByte(b, COLON, n, hi) \in n..(hi - 1)
        \/ \A q \in n..(hi - 1) : At(b, q) # COLON
    BY <2>1, IndexByteFirst
  <2> QED
    BY <2>1, <2>2 DEF hi
<1>7. IndexByte(b, COLON, n, lf - 1) \in n..(lf - 2)
  BY <1>5, <1>6
<1> QED
  BY <1>3, <1>7 DEF lf

\* Without a line at the start: no message.
LEMMA NoHeadWithoutLine ==
  ASSUME NEW b, Len(b) \in Nat,
         ~ (/\ IndexByte(b, LF, 0, Len(b)) >= 1
            /\ At(b, IndexByte(b, LF, 0, Len(b)) - 1) = CR)
  PROVE  ~ WellFormedHead(b)
<1> DEFINE m == Min(HeadEnds(b))
           lf == IndexByte(b, LF, 0, Len(b))
<1>1. SUFFICES ASSUME WellFormedHead(b) PROVE FALSE
  OBVIOUS
<1>2. m \in 0..(Len(b) - 4) /\ At(b, m + 1) = LF
  BY <1>1, FirstHeadEnd DEF WellFormedHead
<1>3. \A p \in LineEnds(b) : At(b, p - 1) = CR
  BY <1>1 DEF WellFormedHead
<1>4. LineEnds(b) = {p \in 0..(m + 1) : At(b, p) = LF}
  BY DEF LineEnds
<1>5. \/ lf = -1 /\ \A q \in 0..(Len(b) - 1) : At(b, q) # LF
      \/ /\ lf \in 0..(Len(b) - 1) /\ At(b, lf) = LF
         /\ \A q \in 0..(lf - 1) : At(b, q) # LF
  BY IndexByteFirst
<1>6. ~ (lf >= 1 /\ At(b, lf - 1) = CR)
  OBVIOUS
<1> HIDE DEF m, lf
<1>7. m + 1 \in 0..(Len(b) - 1)
  BY <1>2
<1>8. /\ lf \in 0..(Len(b) - 1) /\ At(b, lf) = LF
      /\ \A q \in 0..(lf - 1) : At(b, q) # LF
  BY <1>2, <1>5, <1>7
<1>9. lf \in 0..(m + 1)
  BY <1>2, <1>7, <1>8
<1>10. At(b, lf - 1) = CR
  BY <1>3, <1>4, <1>8, <1>9
<1>11. lf = 0
  BY <1>6, <1>8, <1>10
<1>12. At(b, -1) = Fault
  BY DEF At
<1> QED
  BY <1>10, <1>11, <1>12 DEF CR, Fault

\* An empty line after the lines scanned: the first head ends there.
LEMMA HeadEndsAtBlankLine ==
  ASSUME NEW b, Len(b) \in Nat, NEW n, Scanned(b, n),
         n + 1 < Len(b), At(b, n) = CR, At(b, n + 1) = LF
  PROVE  /\ HeadEnds(b) # {}
         /\ Min(HeadEnds(b)) + 1 = n - 1
<1>1. /\ n \in 2..Len(b) /\ At(b, n - 1) = LF
      /\ At(b, (n - 1) - 1) = CR
  <2>1. n \in 2..Len(b) /\ At(b, n - 1) = LF
    BY DEF Scanned
  <2>2. n - 1 \in 0..(n - 1)
    BY <2>1
  <2> QED
    BY <2>1, <2>2 DEF Scanned
<1>2. /\ (n - 1) - 1 = n - 2 /\ (n - 2) + 1 = n - 1 /\ (n - 2) + 2 = n
      /\ (n - 2) + 3 = n + 1 /\ n - 2 \in 0..(Len(b) - 4)
  BY <1>1
<1>3. n - 2 \in HeadEnds(b)
  BY <1>1, <1>2 DEF HeadEnds
<1>4. Min(HeadEnds(b)) = n - 2
  <2>1. ASSUME NEW p \in HeadEnds(b)
        PROVE  n - 2 <= p
    <3>1. p \in Nat /\ n <= p + 2
      BY HeadEndsLater DEF HeadEnds
    <3> QED
      BY <1>1, <3>1
  <2>2. HeadEnds(b) \subseteq Nat
    BY DEF HeadEnds
  <2> QED
    BY <1>3, <2>1, <2>2, MinEquals
<1> QED
  BY <1>2, <1>3, <1>4

\* So the lines scanned before an empty line are a head.
LEMMA HeadAtBlankLine ==
  ASSUME NEW b, Len(b) \in Nat, NEW n, Scanned(b, n),
         n + 1 < Len(b), At(b, n) = CR, At(b, n + 1) = LF
  PROVE  WellFormedHead(b)
<1>1. n \in 2..Len(b)
  BY DEF Scanned
<1>2. HeadEnds(b) # {} /\ Min(HeadEnds(b)) + 1 = n - 1
  BY HeadEndsAtBlankLine
<1>3. LineEnds(b) = {p \in 0..(n - 1) : At(b, p) = LF}
  BY <1>2 DEF LineEnds
<1>4. \A p \in LineEnds(b) : At(b, p - 1) = CR
  BY <1>3 DEF Scanned
<1>5. ASSUME NEW p \in LineEnds(b) \ {n - 1}
      PROVE  At(b, p + 1) # CR
  <2>1. p \in 0..(n - 2) /\ At(b, p) = LF
    BY <1>1, <1>3
  <2> QED
    BY <2>1 DEF Scanned
<1>6. ASSUME NEW p \in LineEnds(b), NEW q \in LineEnds(b), p < q
      PROVE  \E c \in (p + 1)..(q - 2) : At(b, c) = COLON
  BY <1>3, <1>6 DEF Scanned
<1> QED
  BY <1>2, <1>4, <1>5, <1>6 DEF WellFormedHead

----------------------------------------------------------------------------
(***************************************************************************)
(* The first line of a message.                                            *)
(***************************************************************************)

\* The spaces of a head are those of its first line.
LEMMA SpacesOfFirstLine ==
  ASSUME NEW b, Len(b) \in Nat, HeadEnds(b) # {}, NEW start \in Nat, IsLine(b, 0, start)
  PROVE  /\ Min(LineEnds(b)) = start - 1
         /\ Spaces(b) = {p \in 0..(start - 3) : At(b, p) = SP}
<1> DEFINE m == Min(HeadEnds(b))
<1>1. m \in 0..(Len(b) - 4) /\ At(b, m + 1) = LF
  BY FirstHeadEnd
<1>2. LineEnds(b) = {p \in 0..(m + 1) : At(b, p) = LF}
  BY DEF LineEnds
<1> HIDE DEF m
<1>3. /\ 2 <= start /\ At(b, start - 1) = LF
      /\ \A q \in 0..(start - 2) : At(b, q) # LF
  <2>1. (start - 1) - 1 = start - 2
    OBVIOUS
  <2> QED
    BY <2>1 DEF IsLine, Free
<1>4. start - 1 <= m + 1
  BY <1>1, <1>3
<1>5. start - 1 \in LineEnds(b) /\ LineEnds(b) \subseteq Nat
  BY <1>1, <1>2, <1>3, <1>4
<1>6. ASSUME NEW p \in LineEnds(b)
      PROVE  start - 1 <= p
  BY <1>2, <1>3
<1>7. Min(LineEnds(b)) = start - 1
  BY <1>5, <1>6, MinEquals
<1>8. ((start - 1) - 1) - 1 = start - 3
  OBVIOUS
<1> QED
  BY <1>7, <1>8 DEF Spaces

\* The spaces of a line are finitely many.
LEMMA SpacesAreFinite ==
  ASSUME NEW b, NEW n \in Int
  PROVE  IsFiniteSet({p \in 0..n : At(b, p) = SP})
<1>1. IsFiniteSet(0..n)
  BY FS_Interval
<1> QED
  BY <1>1, FS_Subset

\* A first line without a space: no message of either kind.
LEMMA NoMessageWithoutSpace ==
  ASSUME NEW b, Len(b) \in Nat, NEW start \in Nat, IsLine(b, 0, start),
         Free(b, 0, start - 2, {SP})
  PROVE  ~ WellFormedRequest(b) /\ ~ WellFormedResponse(b)
<1>1. SUFFICES ASSUME HeadEnds(b) # {} PROVE ~ WellFormedRequest(b) /\ ~ WellFormedResponse(b)
  BY DEF WellFormedRequest, WellFormedResponse, WellFormedHead
<1>2. (start - 2) - 1 = start - 3
  OBVIOUS
<1>3. Spaces(b) = {}
  BY <1>1, <1>2, SpacesOfFirstLine DEF Free
<1>4. Cardinality(Spaces(b)) = 0
  BY <1>3, FS_EmptySet
<1> QED
  BY <1>3, <1>4 DEF WellFormedRequest, WellFormedResponse

\* A first line with one space only: no request.
LEMMA NoRequestWithOneSpace ==
  ASSUME NEW b, Len(b) \in Nat, NEW start \in Nat, IsLine(b, 0, start),
         NEW sp \in 0..(start - 3), Free(b, 0, sp, {SP}),
         Free(b, sp + 1, start - 2, {SP})
  PROVE  ~ WellFormedRequest(b)
<1>1. SUFFICES ASSUME HeadEnds(b) # {} PROVE ~ WellFormedRequest(b)
  BY DEF WellFormedRequest, WellFormedHead
<1>2. (start - 2) - 1 = start - 3
  OBVIOUS
<1>3. ASSUME NEW p \in 0..(start - 3), At(b, p) = SP
      PROVE  p = sp
  BY <1>2, <1>3 DEF Free
<1>4. Spaces(b) \subseteq {sp}
  BY <1>1, <1>3, SpacesOfFirstLine
<1>5. IsFiniteSet({sp}) /\ Cardinality({sp}) = 1
  BY FS_Singleton
<1>6. Cardinality(Spaces(b)) \in Nat /\ Cardinality(Spaces(b)) <= 1
  BY <1>4, <1>5, FS_Subset, FS_CardinalityType
<1> QED
  BY <1>6 DEF WellFormedRequest

\* A head whose first line has two spaces is a request.
LEMMA RequestWithTwoSpaces ==
  ASSUME NEW b, Len(b) \in Nat, WellFormedHead(b), NEW start \in Nat, IsLine(b, 0, start),
         NEW p \in 0..(start - 3), NEW q \in 0..(start - 3),
         p # q, At(b, p) = SP, At(b, q) = SP
  PROVE  WellFormedRequest(b)
<1>1. p \in Spaces(b) /\ q \in Spaces(b) /\ IsFiniteSet(Spaces(b))
  <2>1. Spaces(b) = {r \in 0..(start - 3) : At(b, r) = SP}
    BY SpacesOfFirstLine DEF WellFormedHead
  <2>2. start - 3 \in Int
    OBVIOUS
  <2> QED
    BY <2>1, <2>2, SpacesAreFinite
<1>2. IsFiniteSet({p}) /\ Cardinality({p}) = 1
  BY FS_Singleton
<1>3. IsFiniteSet({p} \cup {q}) /\ Cardinality({p} \cup {q}) = 2
  BY <1>2, FS_AddElement, SMTT(30)
<1>4. Cardinality({p} \cup {q}) <= Cardinality(Spaces(b))
  BY <1>1, FS_Subset
<1>5. Cardinality(Spaces(b)) \in Nat
  BY <1>1, FS_CardinalityType
<1> QED
  BY <1>3, <1>4, <1>5 DEF WellFormedRequest

\* A status that starts after the first space and runs to the second one, or to the
\* end of the line, decides whether a head is a response.
LEMMA ResponseByStatus ==
  ASSUME NEW b, Len(b) \in Nat, NEW start \in Nat, IsLine(b, 0, start),
         NEW sp \in 0..(start - 3), At(b, sp) = SP, Free(b, 0, sp, {SP}),
         NEW stop \in (sp + 1)..(start - 2), Free(b, sp + 1, stop, {SP}),
         stop = start - 2 \/ At(b, stop) = SP
  PROVE  WellFormedResponse(b) <=>
           /\ WellFormedHead(b)
           /\ stop = sp + 4
           /\ At(b, sp + 1) \in ZERO..NINE
<1>1. SUFFICES ASSUME WellFormedHead(b)
               PROVE  WellFormedResponse(b) <=> stop = sp + 4 /\ At(b, sp + 1) \in ZERO..NINE
  BY DEF WellFormedResponse
<1> DEFINE S == {p \in 0..(start - 3) : At(b, p) = SP}
           R == (S \ {sp}) \cup {start - 2}
<1>2. Spaces(b) = S /\ Min(LineEnds(b)) = start - 1
  BY <1>1, SpacesOfFirstLine DEF WellFormedHead
<1>3. sp \in S /\ S \subseteq Nat /\ \A p \in S : sp <= p
  BY DEF Free
<1>4. Min(S) = sp
  BY <1>3, MinEquals
<1>5. start - 2 \in Nat /\ (start - 1) - 1 = start - 2 /\ (sp + 1) - 1 = sp
      /\ (sp + 1) + 3 = sp + 4
  OBVIOUS
<1>6. R \subseteq Nat
  BY <1>5
<1>7. stop \in R
  <2>1. CASE stop = start - 2
    BY <2>1
  <2>2. CASE stop # start - 2
    <3>1. stop \in 0..(start - 3) /\ stop # sp /\ At(b, stop) = SP
      BY <2>2
    <3> QED
      BY <3>1
  <2> QED
    BY <2>1, <2>2
<1>8. ASSUME NEW r \in R
      PROVE  stop <= r
  <2>1. CASE r = start - 2
    BY <2>1
  <2>2. CASE r # start - 2
    <3>1. r \in S /\ r # sp
      BY <2>2
    <3>2. sp < r /\ r \in Nat /\ At(b, r) = SP
      BY <1>3, <3>1
    <3> QED
      BY <3>2 DEF Free
  <2> QED
    BY <2>1, <2>2
<1>9. Min(R) = stop
  BY <1>6, <1>7, <1>8, MinEquals
<1> HIDE DEF R
<1>10. WellFormedResponse(b) <=> Min(R) = sp + 4 /\ At(b, sp + 1) \in ZERO..NINE
  <2> HIDE DEF S
  <2>1. S # {}
    BY <1>3
  <2>2. R = (S \ {sp}) \cup {start - 2}
    BY DEF R
  <2> QED
    BY <1>1, <1>2, <1>4, <1>5, <2>1, <2>2 DEF WellFormedResponse
<1> QED
  BY <1>9, <1>10
=============================================================================
