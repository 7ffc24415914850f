----------------------------- MODULE BridgeProofs -----------------------------
(***************************************************************************)
(* For every set of inputs parse may be given, every size of a message and *)
(* of run's arrays, and whatever the shim's stack held: what parse leaves  *)
(* in the message is the message in the buffer, and what run returns is    *)
(* its text.                                                               *)
(***************************************************************************)
EXTENDS Bridge, HttpGrammarProofs

(***************************************************************************)
(* The inductive invariant.  A message that parse is still filling is read *)
(* up to the line at p; the lines before p are counted twice, by their     *)
(* line feeds as parse passes them and by their starts as a reader of the  *)
(* result finds them.                                                      *)
(***************************************************************************)

LineFeeds(b, lo, hi) == {q \in lo..(hi - 1) : At(b, q) = LF}

LineStarts(b, lo, hi) == {q \in lo..(hi - 1) : At(b, q - 1) = LF}

\* The headers of m that are stored when k were seen.
Stored(m, k) == [j \in 1..(IF k <= MAXH THEN k ELSE MAXH) |-> m.headers[j]]

FirstLineIs(m, r, b, start) ==
  IF r
  THEN IsRequestLine(b, m, start)
  ELSE IsStatusLine(b, [version |-> m.version, code |-> m.status_code,
                        reason |-> m.reason], start)

\* h is header line j of b, whose header lines start at start.
IsHeader(b, start, h, j) ==
  /\ h.name.lo >= start
  /\ At(b, h.name.lo - 1) = LF
  /\ Cardinality(LineStarts(b, start, h.name.lo)) = j - 1
  /\ IsHeaderLine(b, h, IndexByte(b, LF, h.name.lo, Len(b)) + 1)

\* m holds the first line of b and the k header lines between it and q.
Holds(m, r, b, start, q, k) ==
  /\ IsLine(b, 0, start)
  /\ FirstLineIs(m, r, b, start)
  /\ start <= q
  /\ At(b, q - 1) = LF
  /\ Cardinality(LineFeeds(b, start, q)) = k
  /\ Cardinality(LineStarts(b, start, q)) = k
  /\ \E cut \in start..q : /\ AreHeaders(b, Stored(m, k), start, cut)
                           /\ k <= MAXH => cut = q
  /\ \A j \in 1..Len(Stored(m, k)) : /\ IsHeader(b, start, m.headers[j], j)
                                     /\ m.headers[j].name.lo < q

HeadUpTo(r, b, stop) == HeadStops(r, b, stop) /\ BlankOrEnd(b, stop)

\* parse has returned: m holds all of b.
Complete(m, r, b) ==
  \/ /\ NoLine(b)
     /\ m.nheaders = 0
     /\ m.body = Slice(Len(b), Len(b))
  \/ \E start, stop \in 2..Len(b) :
       /\ HeadUpTo(r, b, stop)
       /\ Holds(m, r, b, start, stop, m.nheaders)
       /\ m.body = Slice(IF stop = Len(b) THEN stop ELSE stop + 2, Len(b))

Scanning ==
  /\ buf \in Seq(Octet)
  /\ is_req \in BOOLEAN
  /\ out \in Message
  /\ pc \in {"idle", "line", "headers"}
  /\ p \in 0..Len(buf)
  /\ n \in Nat
  /\ calls \in 0..MaxCalls
  /\ pc # "headers" => p = 0 /\ n = 0
  /\ pc = "line" => Parsable(is_req, buf)
  /\ pc = "headers" => \E start, stop \in 2..Len(buf) :
                         /\ HeadUpTo(is_req, buf, stop)
                         /\ Holds(out, is_req, buf, start, p, n)
                         /\ p <= stop

BInv ==
  /\ Scanning
  /\ stage \in {"idle", "shim", "parse", "decode"}
  /\ arg \in [is_req : BOOLEAN, buf : Seq(Octet)]
  /\ offsets \in [headers : [1..maxH -> Header], body : Slices, n : Nat]
  /\ stage = "shim" => arg \in Inputs
  /\ stage # "parse" => pc = "idle"
  /\ stage \in {"parse", "decode"} => buf = arg.buf
  /\ stage \in {"parse", "decode"} /\ pc = "idle" => Complete(out, is_req, buf)
  /\ stage = "decode" => /\ offsets.n = out.nheaders
                         /\ offsets.body = out.body
                         /\ \A j \in 1..maxH : j <= out.nheaders =>
                              offsets.headers[j] = out.headers[j]
  /\ parsed.N \in Nat
  /\ parsed.Body \in Seq(Octet)
  /\ parsed.Headers \in Seq([Name : Seq(Octet), Value : Seq(Octet)])
  /\ Decodes
----------------------------------------------------------------------------
(***************************************************************************)
(* The first line.                                                         *)
(***************************************************************************)

\* A request line is stored as its three parts.
LEMMA RequestLineStored ==
  ASSUME NEW m \in Message, NEW b, NEW le \in Nat,
         ReadableLine(TRUE, b, le), IsLine(b, 0, le + 2)
  PROVE  /\ RequestLine(m, b, le) \in Message
         /\ IsRequestLine(b, RequestLine(m, b, le), le + 2)
<1> DEFINE sp1 == IndexByte(b, SP, 0, le)
           sp2 == IndexByte(b, SP, sp1 + 1, le)
<1>1. PICK x \in 0..(le - 1), y \in 0..(le - 1) : x < y /\ At(b, x) = SP /\ At(b, y) = SP
  BY DEF ReadableLine
<1>2. /\ sp1 \in 0..(le - 1) /\ At(b, sp1) = SP /\ Free(b, 0, sp1, {SP})
      /\ sp1 <= x
  <2>1. \/ sp1 = -1 /\ \A q \in 0..(le - 1) : At(b, q) # SP
        \/ /\ sp1 \in 0..(le - 1) /\ At(b, sp1) = SP
           /\ \A q \in 0..(sp1 - 1) : At(b, q) # SP
    BY IndexByteFirst
  <2> HIDE DEF sp1
  <2> QED
    BY <1>1, <2>1 DEF Free
<1>3. /\ sp2 \in (sp1 + 1)..(le - 1) /\ At(b, sp2) = SP
      /\ Free(b, sp1 + 1, sp2, {SP})
  <2> HIDE DEF sp1
  <2>1. sp1 + 1 \in Nat
    BY <1>2
  <2>2. \/ sp2 = -1 /\ \A q \in (sp1 + 1)..(le - 1) : At(b, q) # SP
        \/ /\ sp2 \in (sp1 + 1)..(le - 1) /\ At(b, sp2) = SP
           /\ \A q \in (sp1 + 1)..(sp2 - 1) : At(b, q) # SP
    BY <2>1, IndexByteFirst
  <2> HIDE DEF sp2
  <2>3. y \in (sp1 + 1)..(le - 1)
    BY <1>1, <1>2
  <2> QED
    BY <1>1, <2>2, <2>3 DEF Free
<1> HIDE DEF sp1, sp2
<1>4. RequestLine(m, b, le) = [m EXCEPT !.method  = Slice(0, sp1),
                                       !.path    = Slice(sp1 + 1, sp2),
                                       !.version = Slice(sp2 + 1, le)]
  BY DEF RequestLine, sp1, sp2
<1>5. /\ Slice(0, sp1) \in Slices /\ Slice(sp1 + 1, sp2) \in Slices
      /\ Slice(sp2 + 1, le) \in Slices
  BY <1>2, <1>3 DEF Slice, Slices
<1>6. /\ RequestLine(m, b, le) \in Message
      /\ RequestLine(m, b, le).method = Slice(0, sp1)
      /\ RequestLine(m, b, le).path = Slice(sp1 + 1, sp2)
      /\ RequestLine(m, b, le).version = Slice(sp2 + 1, le)
  BY <1>4, <1>5 DEF Message
<1>7. (le + 2) - 2 = le /\ sp2 + 1 <= le /\ sp2 >= sp1 + 1 /\ sp1 >= 0
  BY <1>2, <1>3
<1> DEFINE r == RequestLine(m, b, le)
<1> HIDE DEF r
<1>8. /\ r.method.lo = 0 /\ r.method.hi = sp1 /\ r.path.lo = sp1 + 1 /\ r.path.hi = sp2
      /\ r.version = Slice(sp2 + 1, le) /\ r.version.lo = sp2 + 1 /\ r.version.hi = le
  BY <1>6 DEF Slice, r
<1>9. IsRequestLine(b, r, le + 2)
  BY <1>2, <1>3, <1>7, <1>8 DEF IsRequestLine
<1> QED
  BY <1>6, <1>9 DEF r

\* So is a status line; its digits give its code.
LEMMA StatusLineStored ==
  ASSUME NEW m \in Message, NEW b, NEW le \in Nat,
         ReadableLine(FALSE, b, le), IsLine(b, 0, le + 2)
  PROVE  /\ StatusLine(m, b, le) \in Message
         /\ FirstLineIs(StatusLine(m, b, le), FALSE, b, le + 2)
<1> DEFINE sp1 == IndexByte(b, SP, 0, le)
           sp2 == IndexByte(b, SP, sp1 + 1, le)
<1>1. PICK x \in 0..(le - 4) :
        /\ Free(b, 0, x, {SP}) /\ At(b, x) = SP
        /\ \A i \in 1..3 : At(b, x + i) \in ZERO..NINE
        /\ x + 4 = le \/ At(b, x + 4) = SP
  BY DEF ReadableLine
<1>2. sp1 = x
  <2>1. x \in 0..(le - 1) /\ \A q \in 0..(x - 1) : At(b, q) # SP
    BY <1>1 DEF Free
  <2> QED
    BY <1>1, <2>1, FirstIsFound
<1>3. At(b, x + 1) \in 48..57 /\ At(b, x + 2) \in 48..57 /\ At(b, x + 3) \in 48..57
  BY <1>1 DEF ZERO, NINE
<1>4. Free(b, x + 1, x + 4, {SP})
  <2>1. ASSUME NEW q \in (x + 1)..((x + 4) - 1)
        PROVE  At(b, q) # SP
    <3>1. q = x + 1 \/ q = x + 2 \/ q = x + 3
      OBVIOUS
    <3> QED
      BY <1>3, <3>1 DEF SP
  <2> QED
    BY <2>1 DEF Free
<1>5. /\ StatusCode(b, x + 1) \in Nat
      /\ StatusCode(b, x + 1) = StatusValue(b, x + 1)
  <2>1. (x + 1) + 1 = x + 2 /\ (x + 1) + 2 = x + 3
    OBVIOUS
  <2>2. ASSUME NEW d \in 48..57
        PROVE  Digit(d) = d - 48
    <3>1. d - 48 \in 0..9
      OBVIOUS
    <3> QED
      BY <3>1 DEF Digit, ZERO
  <2>3. ASSUME NEW u \in 48..57, NEW v \in 48..57, NEW w \in 48..57
        PROVE  100 * (u - 48) + 10 * (v - 48) + (w - 48) \in Nat
    OBVIOUS
  <2>4. StatusCode(b, x + 1)
          = 100 * (At(b, x + 1) - 48) + 10 * (At(b, x + 2) - 48) + (At(b, x + 3) - 48)
    BY <2>1 DEF StatusCode, ZERO
  <2>5. StatusValue(b, x + 1)
          = 100 * Digit(At(b, x + 1)) + 10 * Digit(At(b, x + 2)) + Digit(At(b, x + 3))
    BY <2>1 DEF StatusValue
  <2> QED
    BY <1>3, <2>2, <2>3, <2>4, <2>5
<1> DEFINE reason == IF sp2 >= 0 THEN Slice(sp2 + 1, le) ELSE Slice(le, le)
<1>6. \/ x + 4 = le /\ reason = Slice(le, le)
      \/ x + 4 < le /\ At(b, x + 4) = SP /\ reason = Slice(x + 5, le)
  <2>1. CASE x + 4 = le
    <3>1. \/ sp2 = -1
          \/ sp2 \in (x + 1)..(le - 1) /\ At(b, sp2) = SP
      BY <1>2, IndexByteFirst
    <3> HIDE DEF sp2
    <3>2. ~ (sp2 \in (x + 1)..(le - 1) /\ At(b, sp2) = SP)
      BY <1>4, <2>1 DEF Free
    <3> QED
      BY <2>1, <3>1, <3>2
  <2>2. CASE x + 4 # le
    <3>1. At(b, x + 4) = SP /\ x + 4 < le
      BY <1>1, <2>2
    <3>2. x + 4 \in (x + 1)..(le - 1) /\ \A q \in (x + 1)..((x + 4) - 1) : At(b, q) # SP
      BY <1>4, <3>1 DEF Free
    <3>3. sp2 = x + 4
      BY <1>2, <3>1, <3>2, FirstIsFound
    <3> HIDE DEF sp2
    <3>4. (x + 4) + 1 = x + 5
      OBVIOUS
    <3> QED
      BY <3>1, <3>3, <3>4
  <2> QED
    BY <2>1, <2>2
<1>7. StatusLine(m, b, le) = [m EXCEPT !.version     = Slice(0, x),
                                      !.status_code = StatusCode(b, x + 1),
                                      !.reason      = reason]
  BY <1>2 DEF StatusLine
<1> HIDE DEF sp1, sp2, reason
<1>8. Slice(0, x) \in Slices /\ reason \in Slices
  BY <1>6 DEF Slice, Slices
<1> DEFINE s == StatusLine(m, b, le)
           t == [version |-> s.version, code |-> s.status_code, reason |-> s.reason]
<1>9. /\ s \in Message /\ s.version = Slice(0, x)
      /\ s.status_code = StatusCode(b, x + 1) /\ s.reason = reason
  BY <1>5, <1>7, <1>8 DEF Message
<1> HIDE DEF s
<1>10. /\ t.version.lo = 0 /\ t.version.hi = x /\ t.code = StatusValue(b, x + 1)
       /\ t.reason = reason
  BY <1>5, <1>9 DEF Slice
<1> HIDE DEF t
<1>11. IsStatusLine(b, t, le + 2)
  <2>1. (x + 1) + 3 = x + 4 /\ (x + 1) + 4 = x + 5 /\ (le + 2) - 2 = le
    OBVIOUS
  <2>2. At(b, x + 1) \in ZERO..NINE
    BY <1>3 DEF ZERO, NINE
  <2>3. x >= 0
    OBVIOUS
  <2>4. x + 4 = le => t.reason.lo = t.reason.hi
    BY <1>6, <1>10 DEF Slice
  <2> QED
    BY <1>1, <1>4, <1>6, <1>10, <2>1, <2>2, <2>3, <2>4 DEF IsStatusLine
<1> QED
  BY <1>9, <1>11 DEF FirstLineIs, s, t

----------------------------------------------------------------------------
(***************************************************************************)
(* Lines of a head, and how many they are.                                 *)
(***************************************************************************)

\* A head begins with a line that can be read.
LEMMA HeadHasFirstLine ==
  ASSUME NEW r, NEW b, Len(b) \in Nat, NEW stop \in 1..Len(b), HeadUpTo(r, b, stop)
  PROVE  LET e == IndexByte(b, LF, 0, Len(b))
         IN  /\ e \in 1..(stop - 1)
             /\ At(b, e) = LF
             /\ IsLine(b, 0, e + 1)
             /\ ReadableLine(r, b, e - 1)
<1> DEFINE e == IndexByte(b, LF, 0, Len(b))
<1>1. At(b, stop - 1) = LF /\ \A q \in 0..(stop - 1) : At(b, q) = LF => At(b, q - 1) = CR
  BY DEF HeadUpTo, HeadStops
<1>2. ReadableLine(r, b, e - 1)
  BY DEF HeadUpTo, HeadStops
<1>3. \/ e = -1 /\ \A q \in 0..(Len(b) - 1) : At(b, q) # LF
      \/ /\ e \in 0..(Len(b) - 1) /\ At(b, e) = LF
         /\ \A q \in 0..(e - 1) : At(b, q) # LF
  BY IndexByteFirst
<1>4. stop - 1 \in 0..(Len(b) - 1)
  OBVIOUS
<1> HIDE DEF e
<1>5. e \in 0..(stop - 1) /\ At(b, e) = LF
  BY <1>1, <1>3, <1>4
<1>6. At(b, e - 1) = CR
  BY <1>1, <1>5
<1>7. e - 1 \in 0..(Len(b) - 1)
  BY <1>6, AtPosition DEF CR, Fault
<1>8. e >= 1
  BY <1>5, <1>7
<1>9. IsLine(b, 0, e + 1)
  BY <1>6, <1>8, LineFound DEF e
<1> QED
  BY <1>2, <1>5, <1>8, <1>9 DEF e

\* Every later line of the head is a header's.
LEMMA HeadHasHeader ==
  ASSUME NEW r, NEW b, Len(b) \in Nat, NEW stop \in 1..Len(b), HeadUpTo(r, b, stop),
         NEW q \in 1..(stop - 1), At(b, q - 1) = LF
  PROVE  LET e == IndexByte(b, LF, q, Len(b))
             c == IndexByte(b, COLON, q, e - 1)
             h == [name |-> Slice(q, c), value |-> Trim(b, c + 1, e - 1)]
         IN  /\ At(b, q) # CR
             /\ e \in q..(stop - 1)
             /\ At(b, e) = LF
             /\ \A x \in q..(e - 1) : At(b, x) # LF
             /\ h \in Header
             /\ IsHeaderLine(b, h, e + 1)
<1> DEFINE e == IndexByte(b, LF, q, Len(b))
           c == IndexByte(b, COLON, q, e - 1)
<1>1. /\ At(b, stop - 1) = LF
      /\ \A x \in 0..(stop - 1) : At(b, x) = LF => At(b, x - 1) = CR
      /\ \A x, y \in 0..(stop - 1) :
           (x < y /\ At(b, x) = LF /\ At(b, y) = LF) =>
             /\ At(b, x + 1) # CR
             /\ \E k \in (x + 1)..(y - 2) : At(b, k) = COLON
  BY DEF HeadUpTo, HeadStops
<1>2. \/ e = -1 /\ \A x \in q..(Len(b) - 1) : At(b, x) # LF
      \/ /\ e \in q..(Len(b) - 1) /\ At(b, e) = LF
         /\ \A x \in q..(e - 1) : At(b, x) # LF
  <2>1. q \in Nat /\ Len(b) \in Int
    OBVIOUS
  <2> QED
    BY <2>1, IndexByteFirst
<1> HIDE DEF e
<1>3. stop - 1 \in q..(Len(b) - 1)
  OBVIOUS
<1>4. /\ e \in q..(stop - 1) /\ At(b, e) = LF
      /\ \A x \in q..(e - 1) : At(b, x) # LF
  BY <1>1, <1>2, <1>3
<1>5. /\ q - 1 \in 0..(stop - 1) /\ e \in 0..(stop - 1) /\ q - 1 < e
      /\ (q - 1) + 1 = q /\ q \in Nat /\ e \in Nat /\ e >= 1
  BY <1>4
<1>6. At(b, q) # CR /\ \E k \in q..(e - 2) : At(b, k) = COLON
  BY <1>1, <1>4, <1>5
<1>7. At(b, e - 1) = CR
  BY <1>1, <1>4, <1>5
<1>8. IsLine(b, q, e + 1)
  BY <1>5, <1>7, LineFound DEF e
<1>9. c >= 0
  <2>1. \/ c = -1 /\ \A x \in q..((e - 1) - 1) : At(b, x) # COLON
        \/ c \in q..((e - 1) - 1)
    <3> DEFINE hi == e - 1
    <3>1. hi \in Int /\ q \in Nat
      BY <1>5
    <3> HIDE DEF hi
    <3>2. \/ /\ IndexByte(b, COLON, q, hi) = -1
             /\ \A x \in q..(hi - 1) : At(b, x) # COLON
          \/ IndexByte(b, COLON, q, hi) \in q..(hi - 1)
      BY <3>1, IndexByteFirst
    <3> QED
      BY <3>2 DEF hi
  <2>2. (e - 1) - 1 = e - 2
    BY <1>5
  <2> HIDE DEF c
  <2> QED
    BY <1>5, <1>6, <2>1, <2>2
<1>10. LET h == [name |-> Slice(q, c), value |-> Trim(b, c + 1, e - 1)]
       IN  h \in [name : Slices, value : Slices] /\ IsHeaderLine(b, h, e + 1)
  BY <1>5, <1>6, <1>8, <1>9, HeaderFound
<1> QED
  BY <1>4, <1>6, <1>10 DEF Header, e

\* A header line does not start with CR.
LEMMA NoBlankInside ==
  ASSUME NEW r, NEW b, Len(b) \in Nat, NEW stop \in 1..Len(b), HeadUpTo(r, b, stop),
         NEW q \in 1..(stop - 1), At(b, q - 1) = LF
  PROVE  At(b, q) # CR
<1>1. /\ At(b, stop - 1) = LF
      /\ \A x, y \in 0..(stop - 1) :
           x < y /\ At(b, x) = LF /\ At(b, y) = LF => At(b, x + 1) # CR
  BY DEF HeadUpTo, HeadStops
<1>2. q - 1 \in 0..(stop - 1) /\ stop - 1 \in 0..(stop - 1) /\ q - 1 < stop - 1 /\ (q - 1) + 1 = q
  OBVIOUS
<1> QED
  BY <1>1, <1>2

\* A line of a head begins with CR only where the head stops.
LEMMA BlankStops ==
  ASSUME NEW r, NEW b, Len(b) \in Nat, NEW stop \in 1..Len(b), HeadUpTo(r, b, stop),
         NEW q \in 1..stop, At(b, q - 1) = LF, q < Len(b)
  PROVE  At(b, q) = CR <=> q = stop
<1>1. q = stop => At(b, q) = CR
  BY DEF HeadUpTo, BlankOrEnd
<1>2. q # stop => At(b, q) # CR
  <2>1. SUFFICES ASSUME q # stop PROVE At(b, q) # CR
    OBVIOUS
  <2>2. q \in 1..(stop - 1)
    BY <2>1
  <2> QED
    BY <2>2, NoBlankInside
<1> QED
  BY <1>1, <1>2

\* There are finitely many lines.
LEMMA LinesAreFinite ==
  ASSUME NEW b, NEW lo \in Int, NEW hi \in Int
  PROVE  IsFiniteSet(LineFeeds(b, lo, hi)) /\ IsFiniteSet(LineStarts(b, lo, hi))
<1>1. IsFiniteSet(lo..(hi - 1))
  BY FS_Interval
<1>2. LineFeeds(b, lo, hi) \subseteq lo..(hi - 1) /\ LineStarts(b, lo, hi) \subseteq lo..(hi - 1)
  BY DEF LineFeeds, LineStarts
<1> QED
  BY <1>1, <1>2, FS_Subset

\* The line from q to its line feed e is one more, counted by either end.
LEMMA OneMoreLine ==
  ASSUME NEW b, NEW lo \in Nat, NEW q \in Nat, NEW e \in Nat, lo <= q, q <= e,
         At(b, q - 1) = LF, At(b, e) = LF, \A x \in q..(e - 1) : At(b, x) # LF
  PROVE  /\ Cardinality(LineFeeds(b, lo, e + 1)) = Cardinality(LineFeeds(b, lo, q)) + 1
         /\ Cardinality(LineStarts(b, lo, e + 1)) = Cardinality(LineStarts(b, lo, q)) + 1
<1> DEFINE F == LineFeeds(b, lo, q)
           G == LineStarts(b, lo, q)
<1>1. IsFiniteSet(F) /\ IsFiniteSet(G)
  BY LinesAreFinite
<1>2. e \notin F /\ q \notin G
  BY DEF LineFeeds, LineStarts
<1>3. LineFeeds(b, lo, e + 1) = F \cup {e}
  <2>1. ASSUME NEW x \in lo..((e + 1) - 1), At(b, x) = LF, x # e
        PROVE  x \in lo..(q - 1)
    <3>1. x \notin q..(e - 1)
      BY <2>1
    <3> QED
      BY <2>1, <3>1
  <2>2. \A x \in lo..(q - 1) : x \in lo..((e + 1) - 1)
    OBVIOUS
  <2>3. e \in lo..((e + 1) - 1)
    OBVIOUS
  <2> QED
    BY <2>1, <2>2, <2>3 DEF LineFeeds
<1>4. LineStarts(b, lo, e + 1) = G \cup {q}
  <2>1. ASSUME NEW x \in lo..((e + 1) - 1), At(b, x - 1) = LF, x # q
        PROVE  x \in lo..(q - 1)
    <3>1. x - 1 \notin q..(e - 1)
      BY <2>1
    <3> QED
      BY <2>1, <3>1
  <2>2. \A x \in lo..(q - 1) : x \in lo..((e + 1) - 1)
    OBVIOUS
  <2>3. q \in lo..((e + 1) - 1)
    OBVIOUS
  <2> QED
    BY <2>1, <2>2, <2>3 DEF LineStarts
<1> HIDE DEF F, G
<1>5. /\ Cardinality(F \cup {e}) = Cardinality(F) + 1
      /\ Cardinality(G \cup {q}) = Cardinality(G) + 1
  BY <1>1, <1>2, FS_AddElement
<1> QED
  BY <1>3, <1>4, <1>5 DEF F, G

----------------------------------------------------------------------------
(***************************************************************************)
(* What a message holds after a line.                                      *)
(***************************************************************************)

\* The first line of a message is read in its fields for the first line.
LEMMA FirstLineKept ==
  ASSUME NEW m, NEW m2, NEW r, NEW b, NEW start, FirstLineIs(m, r, b, start),
         m2.method = m.method, m2.path = m.path, m2.version = m.version,
         m2.status_code = m.status_code, m2.reason = m.reason
  PROVE  FirstLineIs(m2, r, b, start)
BY DEF FirstLineIs, IsRequestLine, IsStatusLine

\* After the first line no header was seen.
LEMMA FirstLineHeld ==
  ASSUME NEW m \in Message, NEW r \in BOOLEAN, NEW b, Len(b) \in Nat,
         NEW stop \in 1..Len(b), HeadUpTo(r, b, stop)
  PROVE  LET e  == IndexByte(b, LF, 0, Len(b))
             m2 == PutFirstLine(m, r, b, e - 1)
         IN  /\ m2 \in Message
             /\ Holds(m2, r, b, e + 1, e + 1, 0)
             /\ e + 1 \in 2..stop
<1> DEFINE e  == IndexByte(b, LF, 0, Len(b))
           m2 == PutFirstLine(m, r, b, e - 1)
<1>1. /\ e \in 1..(stop - 1) /\ At(b, e) = LF /\ IsLine(b, 0, e + 1)
      /\ ReadableLine(r, b, e - 1)
  BY HeadHasFirstLine
<1> HIDE DEF e
<1>2. e - 1 \in Nat /\ (e - 1) + 2 = e + 1 /\ (e + 1) - 1 = e
  BY <1>1
<1>3. m2 \in Message /\ FirstLineIs(m2, r, b, e + 1)
  <2>1. CASE r = TRUE
    <3>1. /\ RequestLine(m, b, e - 1) \in Message
          /\ IsRequestLine(b, RequestLine(m, b, e - 1), e + 1)
      BY <1>1, <1>2, <2>1, RequestLineStored
    <3> QED
      BY <2>1, <3>1 DEF PutFirstLine, FirstLineIs
  <2>2. CASE r = FALSE
    <3>1. /\ StatusLine(m, b, e - 1) \in Message
          /\ FirstLineIs(StatusLine(m, b, e - 1), FALSE, b, e + 1)
      BY <1>1, <1>2, <2>2, StatusLineStored
    <3> QED
      BY <2>2, <3>1 DEF PutFirstLine
  <2> QED
    BY <2>1, <2>2
<1> HIDE DEF m2
<1>4. LineFeeds(b, e + 1, e + 1) = {} /\ LineStarts(b, e + 1, e + 1) = {}
  <2>1. (e + 1)..((e + 1) - 1) = {}
    BY <1>1
  <2> QED
    BY <2>1 DEF LineFeeds, LineStarts
<1>5. Stored(m2, 0) = <<>> /\ Len(Stored(m2, 0)) = 0
  BY MAXHAssumption DEF Stored
<1>6. AreHeaders(b, Stored(m2, 0), e + 1, e + 1)
  BY <1>5 DEF AreHeaders
<1>7. e + 1 \in (e + 1)..(e + 1) /\ 1..0 = {} /\ e + 1 \in 2..stop
  BY <1>1
<1>8. Cardinality({}) = 0
  BY FS_EmptySet
<1>9. Holds(m2, r, b, e + 1, e + 1, 0)
  <2> DEFINE s == e + 1
  <2>1. /\ IsLine(b, 0, s) /\ FirstLineIs(m2, r, b, s) /\ s <= s /\ At(b, s - 1) = LF
        /\ Cardinality(LineFeeds(b, s, s)) = 0 /\ Cardinality(LineStarts(b, s, s)) = 0
        /\ AreHeaders(b, Stored(m2, 0), s, s)
    <3>1. s <= s
      BY <1>1
    <3>2. Cardinality(LineFeeds(b, s, s)) = 0 /\ Cardinality(LineStarts(b, s, s)) = 0
      BY <1>4, <1>8
    <3> QED
      BY <1>1, <1>2, <1>3, <1>6, <3>1, <3>2
  <2> HIDE DEF s
  <2>2. \E cut \in s..s : /\ AreHeaders(b, Stored(m2, 0), s, cut)
                          /\ 0 <= MAXH => cut = s
    <3>1. s \in s..s
      BY <1>7 DEF s
    <3> QED
      BY <2>1, <3>1
  <2>3. \A j \in 1..Len(Stored(m2, 0)) : FALSE
    BY <1>5, <1>7
  <2>4. Holds(m2, r, b, s, s, 0)
    BY <2>1, <2>2, <2>3 DEF Holds
  <2> QED
    BY <2>4 DEF s
<1> QED
  BY <1>3, <1>7, <1>9 DEF e, m2

\* The headers stored of a message, and one more.
LEMMA StoredHeaders ==
  ASSUME NEW m \in Message, NEW k \in Nat, NEW h \in Header
  PROVE  LET m2 == PutHeader(m, k, h)
         IN  /\ Stored(m, k) \in Seq(Header)
             /\ Len(Stored(m, k)) = IF k <= MAXH THEN k ELSE MAXH
             /\ \A j \in 1..Len(Stored(m, k)) : Stored(m, k)[j] = m.headers[j]
             /\ m2 \in Message
             /\ m2.method = m.method /\ m2.path = m.path /\ m2.version = m.version
             /\ m2.status_code = m.status_code /\ m2.reason = m.reason
             /\ k < MAXH => /\ m2.headers[k + 1] = h
                            /\ \A j \in 1..k : m2.headers[j] = m.headers[j]
                            /\ Stored(m2, k + 1) = Append(Stored(m, k), h)
             /\ k >= MAXH => m2 = m /\ Stored(m2, k + 1) = Stored(m, k)
<1> DEFINE m2 == PutHeader(m, k, h)
           l  == IF k <= MAXH THEN k ELSE MAXH
           l2 == IF k + 1 <= MAXH THEN k + 1 ELSE MAXH
<1>1. l \in 0..MAXH /\ MAXH \in Nat /\ l2 \in 0..MAXH
  BY MAXHAssumption
<1>2. m.headers \in [1..MAXH -> Header]
  BY DEF Message
<1>3. Stored(m, k) = [j \in 1..l |-> m.headers[j]]
  BY DEF Stored
<1>4. Stored(m2, k + 1) = [j \in 1..l2 |-> m2.headers[j]]
  BY DEF Stored
<1>5. l \in Nat /\ \A j \in 1..l : m.headers[j] \in Header
  BY <1>1, <1>2
<1> HIDE DEF l
<1>6. /\ Stored(m, k) \in Seq(Header) /\ Len(Stored(m, k)) = l
      /\ \A j \in 1..l : Stored(m, k)[j] = m.headers[j]
  BY <1>3, <1>5
<1>7. CASE k < MAXH
  <2>1. k + 1 \in 1..MAXH /\ l = k /\ l2 = k + 1
    BY <1>1, <1>7 DEF l
  <2>2. m2 = [m EXCEPT !.headers = [m.headers EXCEPT ![k + 1] = h]]
    BY <1>7 DEF PutHeader, Message
  <2>3. [m.headers EXCEPT ![k + 1] = h] \in [1..MAXH -> Header]
    BY <1>2, <2>1
  <2>4. /\ m2 \in Message /\ m2.headers = [m.headers EXCEPT ![k + 1] = h]
        /\ m2.method = m.method /\ m2.path = m.path /\ m2.version = m.version
        /\ m2.status_code = m.status_code /\ m2.reason = m.reason
    BY <2>2, <2>3 DEF Message
  <2> HIDE DEF m2, l2
  <2>5. /\ m2.headers[k + 1] = h
        /\ \A j \in 1..k : m2.headers[j] = m.headers[j]
    <3>1. \A j \in 1..k : j \in 1..MAXH /\ j # k + 1
      BY <1>1, <1>7
    <3> QED
      BY <1>2, <2>1, <2>4, <3>1
  <2> DEFINE hs == Stored(m, k)
  <2>6. /\ Append(hs, h) \in Seq(Header) /\ Len(Append(hs, h)) = k + 1
        /\ Append(hs, h)[k + 1] = h
        /\ \A j \in 1..k : Append(hs, h)[j] = hs[j]
    <3> HIDE DEF hs
    <3>1. hs \in Seq(Header) /\ Len(hs) = k
      BY <1>6, <2>1 DEF hs
    <3> QED
      BY <3>1, AppendProperties
  <2>7. Append(hs, h) = [j \in 1..(k + 1) |-> Append(hs, h)[j]]
    <3> HIDE DEF hs
    <3> DEFINE as == Append(hs, h)
    <3>1. as \in [1..Len(as) -> Header]
      BY <2>6, LenProperties
    <3> HIDE DEF as
    <3> QED
      BY <2>6, <3>1 DEF as
  <2>8. \A j \in 1..(k + 1) : Append(hs, h)[j] = m2.headers[j]
    <3>1. ASSUME NEW j \in 1..(k + 1)
          PROVE  j = k + 1 \/ j \in 1..k
      OBVIOUS
    <3> QED
      BY <1>6, <2>1, <2>5, <2>6, <3>1
  <2>9. Stored(m2, k + 1) = Append(Stored(m, k), h)
    BY <1>4, <2>1, <2>7, <2>8
  <2> QED
    BY <1>1, <1>6, <1>7, <2>4, <2>5, <2>9 DEF l, m2
<1>8. CASE k >= MAXH
  <2>1. m2 = m
    BY <1>1, <1>8 DEF PutHeader
  <2>2. l = MAXH /\ l2 = MAXH
    BY <1>1, <1>8 DEF l
  <2>3. Stored(m2, k + 1) = Stored(m, k)
    BY <1>3, <1>4, <2>1, <2>2
  <2>4. ~ (k < MAXH)
    BY <1>1, <1>8
  <2> QED
    BY <1>6, <2>1, <2>3, <2>4 DEF l
<1> QED
  BY <1>1, <1>7, <1>8

\* A header line is held after the others, or counted when there is no room.
LEMMA HeaderHeld ==
  ASSUME NEW m \in Message, NEW r, NEW b, Len(b) \in Nat,
         NEW stop \in 1..Len(b), HeadUpTo(r, b, stop),
         NEW start \in 2..Len(b), NEW q \in 1..(stop - 1), NEW k \in Nat,
         Holds(m, r, b, start, q, k)
  PROVE  LET e  == IndexByte(b, LF, q, Len(b))
             c  == IndexByte(b, COLON, q, e - 1)
             h  == [name |-> Slice(q, c), value |-> Trim(b, c + 1, e - 1)]
             m2 == PutHeader(m, k, h)
         IN  /\ m2 \in Message
             /\ Holds(m2, r, b, start, e + 1, k + 1)
             /\ e + 1 \in 2..stop
<1> DEFINE e  == IndexByte(b, LF, q, Len(b))
           c  == IndexByte(b, COLON, q, e - 1)
           h  == [name |-> Slice(q, c), value |-> Trim(b, c + 1, e - 1)]
           m2 == PutHeader(m, k, h)
           hs == Stored(m, k)
           hs2 == Stored(m2, k + 1)
           l  == IF k <= MAXH THEN k ELSE MAXH
           z  == e + 1
<1>1. /\ IsLine(b, 0, start) /\ FirstLineIs(m, r, b, start)
      /\ start <= q /\ At(b, q - 1) = LF
      /\ Cardinality(LineFeeds(b, start, q)) = k
      /\ Cardinality(LineStarts(b, start, q)) = k
      /\ \E cut \in start..q : AreHeaders(b, hs, start, cut) /\ (k <= MAXH => cut = q)
      /\ \A j \in 1..Len(hs) : IsHeader(b, start, m.headers[j], j) /\ m.headers[j].name.lo < q
  BY DEF Holds
<1>2. /\ e \in q..(stop - 1) /\ At(b, e) = LF /\ \A x \in q..(e - 1) : At(b, x) # LF
      /\ h \in Header /\ IsHeaderLine(b, h, e + 1)
  <2>1. At(b, q - 1) = LF
    BY <1>1
  <2>2. LET e1 == IndexByte(b, LF, q, Len(b))
            c1 == IndexByte(b, COLON, q, e1 - 1)
            h1 == [name |-> Slice(q, c1), value |-> Trim(b, c1 + 1, e1 - 1)]
        IN  /\ At(b, q) # CR
            /\ e1 \in q..(stop - 1)
            /\ At(b, e1) = LF
            /\ \A x \in q..(e1 - 1) : At(b, x) # LF
            /\ h1 \in Header
            /\ IsHeaderLine(b, h1, e1 + 1)
    BY <2>1, HeadHasHeader
  <2> QED
    BY <2>2
<1>3. h.name.lo = q
  BY DEF Slice
<1> HIDE DEF h
<1>4. /\ hs \in Seq(Header) /\ Len(hs) = l
      /\ m2 \in Message
      /\ m2.method = m.method /\ m2.path = m.path /\ m2.version = m.version
      /\ m2.status_code = m.status_code /\ m2.reason = m.reason
      /\ k < MAXH => /\ m2.headers[k + 1] = h
                     /\ \A j \in 1..k : m2.headers[j] = m.headers[j]
                     /\ hs2 = Append(hs, h)
      /\ k >= MAXH => m2 = m /\ hs2 = hs
  BY <1>2, StoredHeaders, ZenonT(60)
<1>5. MAXH \in Nat /\ start \in Nat /\ q \in Nat /\ e \in Nat
  BY <1>2, MAXHAssumption
<1> HIDE DEF m2, hs, hs2, e
<1>6. /\ z \in 2..stop /\ z - 1 = e /\ start <= z /\ q < z /\ z \in Nat
  BY <1>1, <1>2, <1>5
<1>7. /\ Cardinality(LineFeeds(b, start, z)) = k + 1
      /\ Cardinality(LineStarts(b, start, z)) = k + 1
  <2>1. /\ start <= q /\ q <= e /\ At(b, q - 1) = LF /\ At(b, e) = LF
        /\ \A x \in q..(e - 1) : At(b, x) # LF
    BY <1>1, <1>2, <1>5
  <2>2. /\ Cardinality(LineFeeds(b, start, e + 1)) = Cardinality(LineFeeds(b, start, q)) + 1
        /\ Cardinality(LineStarts(b, start, e + 1)) = Cardinality(LineStarts(b, start, q)) + 1
    BY <1>5, <2>1, OneMoreLine, SMTT(30)
  <2> QED
    BY <1>1, <2>2
<1> HIDE DEF z
<1>8. FirstLineIs(m2, r, b, start)
  BY <1>1, <1>4, FirstLineKept
<1>9. IsHeader(b, start, h, k + 1)
  <2>1. (k + 1) - 1 = k
    OBVIOUS
  <2> QED
    BY <1>1, <1>2, <1>3, <2>1 DEF IsHeader, e
<1>10. /\ \E cut \in start..z : AreHeaders(b, hs2, start, cut) /\ (k + 1 <= MAXH => cut = z)
       /\ \A j \in 1..Len(hs2) : IsHeader(b, start, m2.headers[j], j) /\ m2.headers[j].name.lo < z
  <2>1. PICK cut \in start..q : AreHeaders(b, hs, start, cut) /\ (k <= MAXH => cut = q)
    BY <1>1
  <2>2. CASE k < MAXH
    <3>1. k <= MAXH /\ cut = q /\ l = k
      BY <1>5, <2>1, <2>2
    <3>2. hs2 = Append(hs, h) /\ Len(hs2) = k + 1
      BY <1>2, <1>4, <2>2, <3>1, AppendProperties
    <3>3. AreHeaders(b, hs2, start, z)
      BY <1>2, <1>3, <1>4, <2>1, <3>1, <3>2, HeadersExtended DEF z
    <3>4. z \in start..z
      BY <1>5, <1>6
    <3>5. ASSUME NEW j \in 1..(k + 1)
          PROVE  IsHeader(b, start, m2.headers[j], j) /\ m2.headers[j].name.lo < z
      <4>1. CASE j = k + 1
        <5>1. m2.headers[j] = h
          BY <1>4, <2>2, <4>1
        <5> QED
          BY <1>3, <1>6, <1>9, <4>1, <5>1
      <4>2. CASE j # k + 1
        <5>1. j \in 1..k /\ j \in 1..Len(hs)
          BY <1>4, <3>1, <4>2
        <5>2. m2.headers[j] = m.headers[j]
          BY <1>4, <2>2, <5>1
        <5>3. m.headers[j].name.lo < q /\ IsHeader(b, start, m.headers[j], j)
          BY <1>1, <5>1
        <5>4. m.headers[j].name.lo \in Nat
          <6>1. j \in 1..MAXH
            BY <1>5, <2>2, <5>1
          <6>2. m.headers[j] \in Header
            BY <6>1 DEF Message
          <6> QED
            BY <6>2 DEF Header, Slices
        <5> QED
          BY <1>5, <1>6, <5>2, <5>3, <5>4
      <4> QED
        BY <4>1, <4>2
    <3> QED
      BY <3>2, <3>3, <3>4, <3>5
  <2>3. CASE k >= MAXH
    <3>1. m2 = m /\ hs2 = hs /\ ~ (k + 1 <= MAXH)
      BY <1>4, <1>5, <2>3
    <3>2. cut \in start..z
      BY <1>5, <1>6
    <3>3. ASSUME NEW j \in 1..Len(hs)
          PROVE  m.headers[j].name.lo < z
      <4>1. m.headers[j].name.lo < q
        BY <1>1
      <4>2. m.headers[j].name.lo \in Nat
        <5>1. j \in 1..MAXH
          BY <1>4, <1>5, <2>3
        <5>2. m.headers[j] \in Header
          BY <5>1 DEF Message
        <5> QED
          BY <5>2 DEF Header, Slices
      <4> QED
        BY <1>5, <1>6, <4>1, <4>2
    <3> QED
      BY <1>1, <2>1, <3>1, <3>2, <3>3
  <2> QED
    BY <1>5, <2>2, <2>3
<1>11. Holds(m2, r, b, start, z, k + 1)
  <2>1. At(b, z - 1) = LF
    BY <1>2, <1>6
  <2> QED
    BY <1>1, <1>6, <1>7, <1>8, <1>10, <2>1 DEF Holds, hs2
<1> QED
  BY <1>4, <1>6, <1>11 DEF z, m2, h, e

\* When parse returns at the end of the head, the message holds all of the buffer.
LEMMA MessageComplete ==
  ASSUME NEW m \in Message, NEW r, NEW b, NEW start \in 2..Len(b), NEW stop \in 2..Len(b),
         NEW k \in Nat, HeadUpTo(r, b, stop), Holds(m, r, b, start, stop, k)
  PROVE  Complete(Finish(m, k, Slice(IF stop = Len(b) THEN stop ELSE stop + 2, Len(b))), r, b)
<1> DEFINE body == Slice(IF stop = Len(b) THEN stop ELSE stop + 2, Len(b))
           m2   == Finish(m, k, body)
<1> HIDE DEF body
<1>1. /\ m2.method = m.method /\ m2.path = m.path /\ m2.version = m.version
      /\ m2.status_code = m.status_code /\ m2.reason = m.reason
      /\ m2.headers = m.headers /\ m2.nheaders = k /\ m2.body = body
  BY DEF Finish, Message
<1> HIDE DEF m2
<1>2. Stored(m2, k) = Stored(m, k)
  BY <1>1 DEF Stored
<1>3. FirstLineIs(m2, r, b, start)
  BY <1>1, FirstLineKept DEF Holds
<1>4. Holds(m2, r, b, start, stop, k)
  BY <1>1, <1>2, <1>3 DEF Holds
<1> QED
  BY <1>1, <1>4 DEF Complete, body, m2

----------------------------------------------------------------------------
(***************************************************************************)
(* The parser: each of its steps.                                          *)
(***************************************************************************)

\* Both modules use the operators of HttpBytes and HttpMsg.
LEMMA SameOperators ==
  /\ \A b, c, lo, hi : S!IndexByte(b, c, lo, hi) = IndexByte(b, c, lo, hi)
  /\ \A b, lo, hi : S!Trim(b, lo, hi) = Trim(b, lo, hi)
  /\ \A b, q : S!At(b, q) = At(b, q)
  /\ \A lo, hi : S!Slice(lo, hi) = Slice(lo, hi)
  /\ \A m, r, b, le : S!PutFirstLine(m, r, b, le) = PutFirstLine(m, r, b, le)
  /\ \A m, k, h : S!PutHeader(m, k, h) = PutHeader(m, k, h)
  /\ \A m, k, body : S!Finish(m, k, body) = Finish(m, k, body)
  /\ S!NilMessage = NilMessage
  /\ S!LF = LF /\ S!CR = CR /\ S!COLON = COLON
<1>1. /\ S!LF = LF /\ S!CR = CR /\ S!COLON = COLON
      /\ S!SP = SP /\ S!ZERO = ZERO /\ S!OWS = OWS
  BY DEF S!LF, LF, S!CR, CR, S!COLON, COLON, S!SP, SP,
         S!ZERO, ZERO, S!OWS, OWS, S!HT, HT
<1>2. \A b, q : S!At(b, q) = At(b, q)
  BY DEF S!At, At, S!Fault, Fault
<1>3. \A lo, hi : S!Slice(lo, hi) = Slice(lo, hi)
  BY DEF S!Slice, Slice
<1>4. \A b, c, lo, hi : S!IndexByte(b, c, lo, hi) = IndexByte(b, c, lo, hi)
  BY DEF S!IndexByte, IndexByte, S!At, At, S!Fault, Fault
<1>5. \A b, lo, hi : S!Trim(b, lo, hi) = Trim(b, lo, hi)
  <2>1. \A b, lo, hi : S!TrimLeft(b, lo, hi) = TrimLeft(b, lo, hi)
    BY <1>1, <1>2 DEF S!TrimLeft, TrimLeft
  <2>2. \A b, lo, hi : S!TrimRight(b, lo, hi) = TrimRight(b, lo, hi)
    BY <1>1, <1>2 DEF S!TrimRight, TrimRight
  <2> QED
    BY <1>3, <2>1, <2>2 DEF S!Trim, Trim
<1>6. \A m, r, b, le : S!PutFirstLine(m, r, b, le) = PutFirstLine(m, r, b, le)
  <2>1. \A m, b, le : S!RequestLine(m, b, le) = RequestLine(m, b, le)
    BY <1>1, <1>3, <1>4 DEF S!RequestLine, RequestLine
  <2>2. \A b, q : S!StatusCode(b, q) = StatusCode(b, q)
    BY <1>1, <1>2 DEF S!StatusCode, StatusCode
  <2>3. \A m, b, le : S!StatusLine(m, b, le) = StatusLine(m, b, le)
    BY <1>1, <1>3, <1>4, <2>2 DEF S!StatusLine, StatusLine
  <2> QED
    BY <2>1, <2>3 DEF S!PutFirstLine, PutFirstLine
<1>7. \A m, k, h : S!PutHeader(m, k, h) = PutHeader(m, k, h)
  BY DEF S!PutHeader, PutHeader
<1>8. \A m, k, body : S!Finish(m, k, body) = Finish(m, k, body)
  BY DEF S!Finish, Finish
<1>9. S!NilMessage = NilMessage
  BY DEF S!NilMessage, NilMessage, S!NilHeader, NilHeader, S!Nil, Nil,
         S!Slice, Slice
<1> QED
  BY <1>1, <1>2, <1>3, <1>4, <1>5, <1>6, <1>7, <1>8, <1>9

\* parse goes from line to line: what it was given stays, what it has read is held,
\* and when it returns all of the buffer is.
LEMMA ScanStep ==
  ASSUME Scanning, S!Parse
  PROVE  /\ Scanning'
         /\ UNCHANGED <<buf, is_req, calls>>
         /\ pc' = "idle" => Complete(out, is_req, buf)'
<1>1. /\ buf \in Seq(Octet) /\ Len(buf) \in Nat /\ is_req \in BOOLEAN /\ out \in Message
      /\ p \in 0..Len(buf) /\ n \in Nat /\ calls \in 0..MaxCalls
  BY LenProperties DEF Scanning
<1>9. \/ /\ IndexByte(buf, LF, 0, Len(buf)) = -1
         /\ \A q \in 0..(Len(buf) - 1) : At(buf, q) # LF
      \/ /\ IndexByte(buf, LF, 0, Len(buf)) \in 0..(Len(buf) - 1)
         /\ At(buf, IndexByte(buf, LF, 0, Len(buf))) = LF
         /\ \A q \in 0..(IndexByte(buf, LF, 0, Len(buf)) - 1) : At(buf, q) # LF
  <2>1. 0 \in Nat /\ Len(buf) \in Int
    BY <1>1
  <2> QED
    BY <2>1, IndexByteFirst
\* parse returns with a body.
<1>2. ASSUME NEW body \in Slices, S!Return(body), UNCHANGED <<buf, is_req, calls>>
      PROVE  /\ Scanning'
             /\ out' = Finish(out, n, body)
  <2>1. out' = Finish(out, n, body) /\ pc' = "idle" /\ p' = 0 /\ n' = 0
    BY <1>2, SameOperators DEF S!Return
  <2>2. Finish(out, n, body) \in Message
    BY <1>1, <1>2 DEF Finish, Message
  <2>3. 0 \in 0..Len(buf)
    BY <1>1
  <2> QED
    BY <1>1, <1>2, <2>1, <2>2, <2>3 DEF Scanning
<1>3. CASE S!NoFirstLine
  <2>1. /\ pc = "line" /\ IndexByte(buf, LF, 0, Len(buf)) < 0
        /\ S!Return(Slice(Len(buf), Len(buf)))
        /\ UNCHANGED <<buf, is_req, calls>>
    BY <1>3, SameOperators DEF S!NoFirstLine
  <2>2. Slice(Len(buf), Len(buf)) \in Slices
    BY <1>1 DEF Slice, Slices
  <2>3. Scanning' /\ out' = Finish(out, n, Slice(Len(buf), Len(buf)))
    BY <1>2, <2>1, <2>2
  <2>4. NoLine(buf)
    <3>1. \/ \A q \in 0..(Len(buf) - 1) : At(buf, q) # LF
          \/ IndexByte(buf, LF, 0, Len(buf)) \in 0..(Len(buf) - 1)
      BY <1>9
    <3>2. \A q \in 0..(Len(buf) - 1) : At(buf, q) # LF
      BY <1>1, <2>1, <3>1
    <3> QED
      BY <3>2 DEF NoLine, Free
  <2>5. n = 0
    BY <2>1 DEF Scanning
  <2>6. out'.nheaders = 0 /\ out'.body = Slice(Len(buf), Len(buf))
    BY <1>1, <2>3, <2>5 DEF Finish, Message
  <2> QED
    BY <2>1, <2>3, <2>4, <2>6 DEF Complete
<1>4. CASE S!FirstLine
  <2> DEFINE e == IndexByte(buf, LF, 0, Len(buf))
  <2>1. /\ pc = "line" /\ e >= 0
        /\ out' = PutFirstLine(out, is_req, buf, e - 1)
        /\ pc' = "headers" /\ p' = e + 1
        /\ UNCHANGED <<buf, is_req, n, calls>>
    BY <1>4, SameOperators DEF S!FirstLine
  <2>2. ~ NoLine(buf)
    <3>1. \/ e = -1
          \/ e \in 0..(Len(buf) - 1) /\ At(buf, e) = LF
      BY <1>9
    <3> HIDE DEF e
    <3>2. e \in 0..(Len(buf) - 1) /\ At(buf, e) = LF
      BY <2>1, <3>1
    <3> QED
      BY <3>2 DEF NoLine, Free
  <2>3. PICK stop \in 1..Len(buf) : HeadUpTo(is_req, buf, stop)
    BY <2>1, <2>2 DEF Scanning, Parsable, HeadUpTo
  <2>4. /\ out' \in Message
        /\ Holds(out', is_req, buf, e + 1, e + 1, 0)
        /\ e + 1 \in 2..stop
    <3>1. LET e1 == IndexByte(buf, LF, 0, Len(buf))
              m2 == PutFirstLine(out, is_req, buf, e1 - 1)
          IN  /\ m2 \in Message
              /\ Holds(m2, is_req, buf, e1 + 1, e1 + 1, 0)
              /\ e1 + 1 \in 2..stop
      BY <1>1, <2>3, FirstLineHeld
    <3> QED
      BY <2>1, <3>1
  <2> HIDE DEF e
  <2>5. /\ e + 1 \in 2..Len(buf) /\ stop \in 2..Len(buf) /\ p' \in 0..Len(buf)
        /\ p' <= stop
    BY <1>1, <2>1, <2>4
  <2>6. n = 0
    BY <2>1 DEF Scanning
  <2>7. \E st, sp \in 2..Len(buf) : /\ HeadUpTo(is_req, buf, sp)
                                   /\ Holds(out', is_req, buf, st, p', n')
                                   /\ p' <= sp
    BY <2>1, <2>3, <2>4, <2>5, <2>6
  <2> QED
    BY <1>1, <2>1, <2>4, <2>5, <2>7 DEF Scanning
\* A line of the head is next, or the head has stopped.
<1>5. ASSUME pc = "headers"
      PROVE  \E start, stop \in 2..Len(buf) : /\ HeadUpTo(is_req, buf, stop)
                                              /\ Holds(out, is_req, buf, start, p, n)
                                              /\ p <= stop /\ At(buf, p - 1) = LF
                                              /\ p >= 2
  <2>1. PICK start \in 2..Len(buf), stop \in 2..Len(buf) :
          /\ HeadUpTo(is_req, buf, stop)
          /\ Holds(out, is_req, buf, start, p, n)
          /\ p <= stop
    BY <1>5 DEF Scanning
  <2>2. start <= p /\ At(buf, p - 1) = LF
    BY <2>1 DEF Holds
  <2>3. p >= 2
    BY <1>1, <2>2
  <2> QED
    BY <2>1, <2>2, <2>3
<1>6. CASE S!EndOfBuffer
  <2>1. /\ pc = "headers" /\ p >= Len(buf) /\ S!Return(Slice(p, Len(buf)))
        /\ UNCHANGED <<buf, is_req, calls>>
    BY <1>6, SameOperators DEF S!EndOfBuffer
  <2>2. PICK start \in 2..Len(buf), stop \in 2..Len(buf) :
          /\ HeadUpTo(is_req, buf, stop) /\ Holds(out, is_req, buf, start, p, n)
          /\ p <= stop
    BY <1>5, <2>1
  <2>3. p = stop /\ stop = Len(buf) /\ p \in Nat
    BY <1>1, <2>1, <2>2
  <2>4. Slice(p, Len(buf)) \in Slices
    BY <1>1, <2>3 DEF Slice, Slices
  <2>5. Scanning' /\ out' = Finish(out, n, Slice(p, Len(buf)))
    BY <1>2, <2>1, <2>4
  <2>6. Complete(Finish(out, n, Slice(IF stop = Len(buf) THEN stop ELSE stop + 2, Len(buf))),
                 is_req, buf)
    BY <1>1, <2>2, <2>3, MessageComplete
  <2> QED
    BY <2>1, <2>3, <2>5, <2>6
<1>7. CASE S!BlankLine
  <2>1. /\ pc = "headers" /\ p < Len(buf) /\ At(buf, p) = CR
        /\ S!Return(Slice(p + 2, Len(buf)))
        /\ UNCHANGED <<buf, is_req, calls>>
    BY <1>7, SameOperators DEF S!BlankLine
  <2>2. PICK start \in 2..Len(buf), stop \in 2..Len(buf) :
          /\ HeadUpTo(is_req, buf, stop) /\ Holds(out, is_req, buf, start, p, n)
          /\ p <= stop /\ At(buf, p - 1) = LF /\ p >= 2
    BY <1>5, <2>1
  <2>3. p = stop /\ stop # Len(buf) /\ p \in Nat
    <3>1. p \in 1..stop /\ stop \in 1..Len(buf)
      BY <1>1, <2>2
    <3>2. p = stop
      BY <1>1, <2>1, <2>2, <3>1, BlankStops
    <3> QED
      BY <1>1, <2>1, <3>2
  <2>4. Slice(p + 2, Len(buf)) \in Slices
    BY <1>1, <2>3 DEF Slice, Slices
  <2>5. Scanning' /\ out' = Finish(out, n, Slice(p + 2, Len(buf)))
    BY <1>2, <2>1, <2>4
  <2>6. Complete(Finish(out, n, Slice(IF stop = Len(buf) THEN stop ELSE stop + 2, Len(buf))),
                 is_req, buf)
    BY <1>1, <2>2, <2>3, MessageComplete
  <2> QED
    BY <2>1, <2>3, <2>5, <2>6
<1>8. CASE S!HeaderLine
  <2> DEFINE e  == IndexByte(buf, LF, p, Len(buf))
             c  == IndexByte(buf, COLON, p, e - 1)
             h  == [name |-> Slice(p, c), value |-> Trim(buf, c + 1, e - 1)]
  <2>1. /\ pc = "headers" /\ p < Len(buf) /\ At(buf, p) # CR
        /\ out' = PutHeader(out, n, h)
        /\ n' = n + 1 /\ p' = e + 1
        /\ UNCHANGED <<buf, is_req, pc, calls>>
    BY <1>8, SameOperators DEF S!HeaderLine, S!NextLine
  <2>2. PICK start \in 2..Len(buf), stop \in 2..Len(buf) :
          /\ HeadUpTo(is_req, buf, stop) /\ Holds(out, is_req, buf, start, p, n)
          /\ p <= stop /\ At(buf, p - 1) = LF /\ p >= 2
    BY <1>5, <2>1
  <2>3. p \in 1..(stop - 1) /\ stop \in 1..Len(buf)
    <3>1. p \in 1..stop /\ stop \in 1..Len(buf)
      BY <1>1, <2>2
    <3>2. p # stop
      BY <1>1, <2>1, <2>2, <3>1, BlankStops
    <3> QED
      BY <1>1, <3>1, <3>2
  <2>4. /\ out' \in Message
        /\ Holds(out', is_req, buf, start, e + 1, n + 1)
        /\ e + 1 \in 2..stop
    <3>1. LET e1 == IndexByte(buf, LF, p, Len(buf))
              c1 == IndexByte(buf, COLON, p, e1 - 1)
              h1 == [name |-> Slice(p, c1), value |-> Trim(buf, c1 + 1, e1 - 1)]
              m2 == PutHeader(out, n, h1)
          IN  /\ m2 \in Message
              /\ Holds(m2, is_req, buf, start, e1 + 1, n + 1)
              /\ e1 + 1 \in 2..stop
      BY <1>1, <2>2, <2>3, HeaderHeld
    <3> QED
      BY <2>1, <3>1
  <2> HIDE DEF e
  <2>5. p' \in 0..Len(buf) /\ p' <= stop /\ n' \in Nat
    BY <1>1, <2>1, <2>4
  <2>6. \E st, sp \in 2..Len(buf) : /\ HeadUpTo(is_req, buf, sp)
                                   /\ Holds(out', is_req, buf, st, p', n')
                                   /\ p' <= sp
    BY <2>1, <2>2, <2>4, <2>5
  <2> QED
    BY <1>1, <2>1, <2>4, <2>5, <2>6 DEF Scanning
<1> QED
  BY <1>3, <1>4, <1>6, <1>7, <1>8 DEF S!Parse

----------------------------------------------------------------------------
(***************************************************************************)
(* What a complete message is.                                             *)
(***************************************************************************)

\* Both modules read buffers by the same grammar.
LEMMA SameGrammar ==
  /\ \A b : S!NoLine(b) <=> NoLine(b)
  /\ \A b, lo, stop : S!IsLine(b, lo, stop) <=> IsLine(b, lo, stop)
  /\ \A b, stop : S!BlankOrEnd(b, stop) <=> BlankOrEnd(b, stop)
  /\ \A b, hs, start, stop : S!AreHeaders(b, hs, start, stop) <=> AreHeaders(b, hs, start, stop)
  /\ \A b, m, start : S!IsRequestLine(b, m, start) <=> IsRequestLine(b, m, start)
  /\ \A b, m, start : S!IsStatusLine(b, m, start) <=> IsStatusLine(b, m, start)
  /\ \A T : S!Cardinality(T) = Cardinality(T)
  /\ S!Octet = Octet /\ S!Slices = Slices /\ S!Header = Header /\ S!Message = Message
<1>1. /\ S!LF = LF /\ S!CR = CR /\ S!COLON = COLON /\ S!SP = SP /\ S!OWS = OWS
      /\ S!ZERO = ZERO /\ S!NINE = NINE
  BY DEF S!LF, LF, S!CR, CR, S!COLON, COLON, S!SP, SP, S!OWS, OWS, S!HT, HT,
         S!ZERO, ZERO, S!NINE, NINE
<1>2. \A b, q : S!At(b, q) = At(b, q)
  BY SameOperators
<1>3. \A lo, hi : S!Slice(lo, hi) = Slice(lo, hi)
  BY SameOperators
<1>4. \A b, lo, hi, C : S!Free(b, lo, hi, C) <=> Free(b, lo, hi, C)
  BY <1>2 DEF S!Free, Free
<1>5. \A b, lo, hi, C : S!Filled(b, lo, hi, C) <=> Filled(b, lo, hi, C)
  BY <1>2 DEF S!Filled, Filled
<1>6. \A b, lo, stop : S!IsLine(b, lo, stop) <=> IsLine(b, lo, stop)
  BY <1>1, <1>2, <1>4 DEF S!IsLine, IsLine
<1>7. \A b, h, stop : S!IsHeaderLine(b, h, stop) <=> IsHeaderLine(b, h, stop)
  BY <1>1, <1>2, <1>4, <1>5, <1>6 DEF S!IsHeaderLine, IsHeaderLine
<1>8. \A b, hs, start, stop : S!AreHeaders(b, hs, start, stop) <=> AreHeaders(b, hs, start, stop)
  BY <1>7 DEF S!AreHeaders, AreHeaders, S!LineStop, LineStop
<1>9. \A b, m, start : S!IsRequestLine(b, m, start) <=> IsRequestLine(b, m, start)
  BY <1>1, <1>2, <1>3, <1>4, <1>6 DEF S!IsRequestLine, IsRequestLine
<1>10. \A b, q : S!StatusValue(b, q) = StatusValue(b, q)
  BY <1>1, <1>2 DEF S!StatusValue, StatusValue, S!Digit, Digit
<1>11. \A b, m, start : S!IsStatusLine(b, m, start) <=> IsStatusLine(b, m, start)
  BY <1>1, <1>2, <1>3, <1>4, <1>6, <1>10 DEF S!IsStatusLine, IsStatusLine
<1>12. /\ \A b : S!NoLine(b) <=> NoLine(b)
       /\ \A b, stop : S!BlankOrEnd(b, stop) <=> BlankOrEnd(b, stop)
  BY <1>1, <1>2, <1>4 DEF S!NoLine, NoLine, S!BlankOrEnd, BlankOrEnd
<1>13. \A T : S!Cardinality(T) = Cardinality(T)
  BY DEF S!Cardinality, Cardinality
<1>14. S!Octet = Octet /\ S!Slices = Slices /\ S!Header = Header /\ S!Message = Message
  BY DEF S!Octet, Octet, S!Slices, Slices, S!Header, Header, S!Message, Message
<1> QED
  BY <1>6, <1>8, <1>9, <1>11, <1>12, <1>13, <1>14

\* A complete message is the message in the buffer.
LEMMA CompleteReads ==
  ASSUME Scanning, Complete(out, is_req, buf)
  PROVE  S!ReadsMessage
<1>1. /\ Len(buf) \in Nat /\ out \in Message /\ is_req \in BOOLEAN
      /\ out.nheaders \in Nat
  BY LenProperties DEF Scanning, Message
<1>2. CASE NoLine(buf) /\ out.nheaders = 0 /\ out.body = Slice(Len(buf), Len(buf))
  BY <1>2, SameGrammar, SameOperators DEF S!ReadsMessage
<1>3. ASSUME NEW start \in 2..Len(buf), NEW stop \in 2..Len(buf),
             HeadUpTo(is_req, buf, stop),
             Holds(out, is_req, buf, start, stop, out.nheaders),
             out.body = Slice(IF stop = Len(buf) THEN stop ELSE stop + 2, Len(buf))
      PROVE  S!ReadsMessage
  <2>1. S!KeptHeaders = Stored(out, out.nheaders)
    BY DEF S!KeptHeaders, S!Kept, Stored
  <2>2. /\ IsLine(buf, 0, start) /\ start <= stop
        /\ FirstLineIs(out, is_req, buf, start)
        /\ Cardinality(LineFeeds(buf, start, stop)) = out.nheaders
        /\ \E cut \in start..stop : /\ AreHeaders(buf, Stored(out, out.nheaders), start, cut)
                                    /\ out.nheaders <= MAXH => cut = stop
    BY <1>3 DEF Holds
  <2>3. S!FirstLineRead(start)
    BY <2>2, SameGrammar DEF S!FirstLineRead, FirstLineIs
  <2>4. \A q \in start..stop : At(buf, q - 1) = LF /\ q # stop => At(buf, q) # CR
    <3>1. ASSUME NEW q \in start..stop, At(buf, q - 1) = LF, q # stop
          PROVE  At(buf, q) # CR
      <4>1. q \in 1..(stop - 1) /\ stop \in 1..Len(buf)
        BY <3>1
      <4>2. Len(buf) \in Nat /\ HeadUpTo(is_req, buf, stop) /\ At(buf, q - 1) = LF
        BY <1>1, <1>3, <3>1
      <4> QED
        BY <4>1, <4>2, NoBlankInside
    <3> QED
      BY <3>1
  <2>5. BlankOrEnd(buf, stop)
    BY <1>3 DEF HeadUpTo
  <2>6. {q \in start..(stop - 1) : S!At(buf, q) = S!LF} = LineFeeds(buf, start, stop)
    BY SameOperators DEF LineFeeds
  <2> QED
    BY <1>3, <2>1, <2>2, <2>3, <2>4, <2>5, <2>6, SameGrammar, SameOperators DEF S!ReadsMessage
<1> QED
  BY <1>2, <1>3 DEF Complete

----------------------------------------------------------------------------
(***************************************************************************)
(* What run makes of it.                                                   *)
(***************************************************************************)

\* The head stops in one place, and its header lines start where parse found them.
LEMMA HeadOfBuffer ==
  ASSUME NEW r, NEW b, Len(b) \in Nat, NEW start \in 2..Len(b), NEW stop \in 2..Len(b),
         HeadUpTo(r, b, stop), IsLine(b, 0, start), start <= stop
  PROVE  /\ ~ NoLine(b)
         /\ HeadStop(b) = stop
         /\ HeaderStarts(b) = LineStarts(b, start, stop)
<1> DEFINE e == IndexByte(b, LF, 0, Len(b))
           Stops(q) == /\ q = Len(b) \/ (At(b, q) = CR /\ At(b, q - 1) = LF)
                       /\ \A x \in 1..(q - 1) : ~ (At(b, x) = CR /\ At(b, x - 1) = LF)
<1>1. e \in 1..(stop - 1) /\ At(b, e) = LF
  <2>1. stop \in 1..Len(b)
    OBVIOUS
  <2> QED
    BY <2>1, HeadHasFirstLine
<1> HIDE DEF e
<1>2. ~ NoLine(b)
  BY <1>1 DEF NoLine, Free
<1>3. At(b, stop - 1) = LF /\ (stop = Len(b) \/ At(b, stop) = CR)
  BY DEF HeadUpTo, HeadStops, BlankOrEnd
<1>4. ASSUME NEW x \in 1..(stop - 1), At(b, x) = CR, At(b, x - 1) = LF
      PROVE  FALSE
  <2>1. stop \in 1..Len(b)
    OBVIOUS
  <2> QED
    BY <1>4, <2>1, HeadHasHeader
<1>5. Stops(stop) /\ stop \in (e + 1)..Len(b)
  BY <1>1, <1>3, <1>4
<1>6. ASSUME NEW q \in (e + 1)..Len(b), Stops(q)
      PROVE  q = stop
  <2>1. ~ (q < stop)
    <3>1. SUFFICES ASSUME q < stop PROVE FALSE
      OBVIOUS
    <3>2. q \in 1..(stop - 1) /\ q # Len(b)
      BY <1>1, <3>1
    <3> QED
      BY <1>4, <1>6, <3>2
  <2>2. ~ (stop < q)
    <3>1. SUFFICES ASSUME stop < q PROVE FALSE
      OBVIOUS
    <3>2. stop \in 1..(q - 1) /\ stop # Len(b)
      BY <1>1, <3>1
    <3> QED
      BY <1>3, <1>6, <3>2
  <2> QED
    BY <1>1, <2>1, <2>2
<1>7. HeadStop(b) = CHOOSE q \in (e + 1)..Len(b) : Stops(q)
  BY DEF HeadStop, e
<1> HIDE DEF Stops
<1>8. HeadStop(b) = stop
  BY <1>5, <1>6, <1>7
<1>9. \A q \in 1..(start - 1) : At(b, q - 1) # LF
  <2>1. \A q \in 0..(start - 2) : At(b, q) # LF
    <3>1. (start - 1) - 1 = start - 2
      OBVIOUS
    <3> QED
      BY <3>1 DEF IsLine, Free
  <2> QED
    BY <2>1
<1>10. HeaderStarts(b) = LineStarts(b, start, stop)
  <2>1. ASSUME NEW q, At(b, q - 1) = LF
        PROVE  q \in 1..(stop - 1) <=> q \in start..(stop - 1)
    BY <1>9, <2>1
  <2>2. HeaderStarts(b) = {q \in 1..(stop - 1) : At(b, q - 1) = LF}
    BY <1>8 DEF HeaderStarts
  <2> QED
    BY <2>1, <2>2 DEF LineStarts
<1> QED
  BY <1>2, <1>8, <1>10

\* A slice of the buffer has a text as long as it is wide.
LEMMA TextOfSlice ==
  ASSUME NEW b \in Seq(Octet), b = arg.buf, NEW s \in Slices, s.lo <= s.hi, s.hi <= Len(b)
  PROVE  Text(s) \in Seq(Octet) /\ s.lo + Len(Text(s)) = s.hi
<1>1. Len(b) \in Nat /\ b \in [1..Len(b) -> Octet]
  BY LenProperties
<1>2. s.lo \in Nat /\ s.hi \in Nat
  BY DEF Slices
<1> DEFINE lo == s.lo + 1
           hi == s.hi
<1>3. lo \in Int /\ hi \in Int /\ \A k \in lo..hi : b[k] \in Octet
  <2>1. \A k \in lo..hi : k \in 1..Len(b)
    BY <1>1, <1>2
  <2> QED
    BY <1>1, <1>2, <2>1
<1>4. Text(s) = SubSeq(b, lo, hi)
  BY DEF Text
<1>5. lo <= hi \/ lo = hi + 1
  BY <1>2
<1>6. hi - lo + 1 = s.hi - s.lo /\ (lo = hi + 1 => s.hi = s.lo)
  BY <1>2
<1> HIDE DEF lo, hi
<1>7. /\ SubSeq(b, lo, hi) \in Seq(Octet)
      /\ Len(SubSeq(b, lo, hi)) = IF lo <= hi THEN hi - lo + 1 ELSE 0
  BY <1>3, SubSeqProperties
<1>8. Len(Text(s)) = s.hi - s.lo
  BY <1>2, <1>3, <1>4, <1>5, <1>6, <1>7
<1> QED
  BY <1>2, <1>4, <1>7, <1>8

\* A header's text is the text of its line.
LEMMA HeaderText ==
  ASSUME NEW b \in Seq(Octet), b = arg.buf, NEW h \in Header, NEW start, NEW j,
         IsHeader(b, start, h, j)
  PROVE  LET t == [Name |-> Text(h.name), Value |-> Text(h.value)]
         IN  /\ t \in [Name : Seq(Octet), Value : Seq(Octet)]
             /\ IsText(b, h.name.lo, t)
<1> DEFINE stop == IndexByte(b, LF, h.name.lo, Len(b)) + 1
           t == [Name |-> Text(h.name), Value |-> Text(h.value)]
<1>1. /\ h.name \in Slices /\ h.value \in Slices /\ Len(b) \in Nat
      /\ h.name.lo \in Nat /\ h.name.hi \in Nat /\ h.value.lo \in Nat /\ h.value.hi \in Nat
  BY LenProperties DEF Header, Slices
<1>2. IsHeaderLine(b, h, stop)
  BY DEF IsHeader
<1>3. stop \in 0..Len(b)
  <2>1. \/ IndexByte(b, LF, h.name.lo, Len(b)) = -1
        \/ IndexByte(b, LF, h.name.lo, Len(b)) \in h.name.lo..(Len(b) - 1)
    <3>1. Len(b) \in Int
      BY <1>1
    <3> QED
      BY <1>1, <3>1, IndexByteFirst
  <2> QED
    BY <1>1, <2>1
<1> HIDE DEF stop
<1>4. /\ h.name.lo <= h.name.hi /\ h.name.hi < h.value.lo /\ h.value.lo <= h.value.hi
      /\ h.value.hi <= stop - 2
  BY <1>2 DEF IsHeaderLine
<1>5. h.name.hi <= Len(b) /\ h.value.hi <= Len(b)
  BY <1>1, <1>3, <1>4
<1>6. /\ Text(h.name) \in Seq(Octet) /\ h.name.lo + Len(Text(h.name)) = h.name.hi
      /\ Text(h.value) \in Seq(Octet) /\ h.value.lo + Len(Text(h.value)) = h.value.hi
  BY <1>1, <1>4, <1>5, TextOfSlice
<1>7. /\ t \in [Name : Seq(Octet), Value : Seq(Octet)]
      /\ t.Name = Text(h.name) /\ t.Value = Text(h.value)
      /\ t = [Name |-> Text(h.name), Value |-> Text(h.value)]
  BY <1>6
<1> HIDE DEF t
<1>8. h.value.lo \in h.name.lo..Len(b)
  BY <1>1, <1>4, <1>5
<1>9. /\ Slice(h.name.lo, h.name.lo + Len(t.Name)) = h.name
      /\ Slice(h.value.lo, h.value.lo + Len(t.Value)) = h.value
  <2>1. h.name = [lo |-> h.name.lo, hi |-> h.name.hi]
    BY <1>1 DEF Slices
  <2>2. h.value = [lo |-> h.value.lo, hi |-> h.value.hi]
    BY <1>1 DEF Slices
  <2> QED
    BY <1>6, <1>7, <2>1, <2>2 DEF Slice
<1>10. [name |-> h.name, value |-> h.value] = h
  BY DEF Header
<1>11. IsText(b, h.name.lo, t)
  BY <1>2, <1>7, <1>8, <1>9, <1>10 DEF IsText, stop
<1> QED
  BY <1>7, <1>11 DEF t

\* The result of run is typed and says what the buffer does.
LEMMA DecodeStep ==
  ASSUME BInv, Decode
  PROVE  /\ parsed'.N \in Nat
         /\ parsed'.Body \in Seq(Octet)
         /\ parsed'.Headers \in Seq([Name : Seq(Octet), Value : Seq(Octet)])
         /\ Decodes'
<1> DEFINE b == arg.buf
           k == out.nheaders
           m == IF k > maxH THEN maxH ELSE k
           TextRecord == [Name : Seq(Octet), Value : Seq(Octet)]
           HeaderTexts == [j \in 1..m |-> [Name  |-> Text(offsets.headers[j].name),
                                           Value |-> Text(offsets.headers[j].value)]]
<1>1. /\ stage = "decode" /\ parsed' = Decoded(offsets) /\ arg' = arg /\ stage' = "idle"
  BY DEF Decode
<1>2. /\ Scanning /\ b \in Seq(Octet) /\ buf = b /\ pc = "idle"
      /\ Complete(out, is_req, b)
      /\ offsets.n = k /\ offsets.body = out.body
      /\ \A j \in 1..maxH : j <= k => offsets.headers[j] = out.headers[j]
  BY <1>1 DEF BInv
<1>3. /\ Len(b) \in Nat /\ k \in Nat /\ maxH \in Nat /\ MAXH \in Nat /\ maxH <= MAXH
      /\ out \in Message
  BY <1>2, LenProperties, MAXHAssumption, maxHAssumption DEF Scanning, Message
<1>4. /\ parsed'.N = k /\ parsed'.Body = Text(out.body) /\ parsed'.Headers = HeaderTexts
      /\ parsed' = [Headers |-> HeaderTexts, Body |-> Text(out.body), N |-> k]
  BY <1>1, <1>2 DEF Decoded
<1>5. m \in Nat /\ m <= k /\ m <= maxH
  BY <1>3
<1>6. CASE NoLine(b) /\ k = 0 /\ out.body = Slice(Len(b), Len(b))
  <2>1. m = 0
    BY <1>3, <1>6
  <2>2. HeaderTexts = <<>>
    BY <2>1
  <2>3. Text(out.body) = <<>>
    <3>1. Text(out.body) = SubSeq(b, Len(b) + 1, Len(b))
      BY <1>6 DEF Text, Slice
    <3> QED
      BY <1>3, <3>1, SubSeqEmpty
  <2>4. parsed' = NilParsed
    BY <1>4, <1>6, <2>2, <2>3 DEF NilParsed
  <2>5. <<>> \in Seq(Octet) /\ <<>> \in Seq(TextRecord)
    BY EmptySeq
  <2> QED
    BY <1>1, <1>3, <1>4, <1>6, <2>2, <2>3, <2>4, <2>5 DEF Decodes
<1>7. ASSUME NEW start \in 2..Len(b), NEW stop \in 2..Len(b),
             HeadUpTo(is_req, b, stop), Holds(out, is_req, b, start, stop, k),
             out.body = Slice(IF stop = Len(b) THEN stop ELSE stop + 2, Len(b))
      PROVE  /\ parsed'.N \in Nat
             /\ parsed'.Body \in Seq(Octet)
             /\ parsed'.Headers \in Seq(TextRecord)
             /\ Decodes'
  <2>1. /\ IsLine(b, 0, start) /\ start <= stop
        /\ Cardinality(LineStarts(b, start, stop)) = k
        /\ \A j \in 1..Len(Stored(out, k)) :
             IsHeader(b, start, out.headers[j], j) /\ out.headers[j].name.lo < stop
    BY <1>7 DEF Holds
  <2>2. ~ NoLine(b) /\ HeadStop(b) = stop /\ HeaderStarts(b) = LineStarts(b, start, stop)
    BY <1>3, <1>7, <2>1, HeadOfBuffer
  <2>3. ASSUME NEW j \in 1..m
        PROVE  /\ offsets.headers[j] = out.headers[j]
               /\ out.headers[j] \in Header
               /\ IsHeader(b, start, out.headers[j], j)
               /\ out.headers[j].name.lo < stop
    <3>1. j \in 1..maxH /\ j <= k /\ j \in 1..MAXH
      BY <1>3, <1>5
    <3>2. Len(Stored(out, k)) = IF k <= MAXH THEN k ELSE MAXH
      <4> DEFINE l == IF k <= MAXH THEN k ELSE MAXH
      <4>1. l \in Nat
        BY <1>3
      <4>2. Stored(out, k) = [i \in 1..l |-> out.headers[i]]
        BY DEF Stored
      <4> HIDE DEF l
      <4>3. Len(Stored(out, k)) = l
        BY <4>1, <4>2
      <4> QED
        BY <4>3 DEF l
    <3>3. j \in 1..Len(Stored(out, k))
      BY <1>3, <3>1, <3>2
    <3>4. out.headers[j] \in Header
      BY <1>3, <3>1 DEF Message
    <3> QED
      BY <1>2, <2>1, <3>1, <3>3, <3>4
  <2>4. ASSUME NEW j \in 1..m
        PROVE  /\ HeaderTexts[j] \in TextRecord
               /\ IsText(b, out.headers[j].name.lo, HeaderTexts[j])
    <3> DEFINE h == out.headers[j]
    <3>1. HeaderTexts[j] = [Name |-> Text(h.name), Value |-> Text(h.value)]
      BY <2>3
    <3>2. h \in Header /\ IsHeader(b, start, h, j)
      BY <2>3
    <3> HIDE DEF h
    <3>3. /\ [Name |-> Text(h.name), Value |-> Text(h.value)] \in TextRecord
          /\ IsText(b, h.name.lo, [Name |-> Text(h.name), Value |-> Text(h.value)])
      BY <1>2, <3>2, HeaderText
    <3> HIDE DEF HeaderTexts, TextRecord
    <3> QED
      BY <3>1, <3>3 DEF h
  <2>5. HeaderTexts \in Seq(TextRecord) /\ Len(HeaderTexts) = m
    <3> HIDE DEF m, TextRecord
    <3>1. \A j \in 1..m : HeaderTexts[j] \in TextRecord
      BY <2>4
    <3> QED
      BY <1>5, <3>1
  <2>6. /\ Text(out.body) \in Seq(Octet)
        /\ Text(out.body) = SubSeq(b, stop + 3, Len(b))
    <3>1. Text(out.body) = SubSeq(b, (IF stop = Len(b) THEN stop ELSE stop + 2) + 1, Len(b))
      BY <1>7 DEF Text, Slice
    <3>2. CASE stop = Len(b)
      <4>1. Text(out.body) = SubSeq(b, Len(b) + 1, Len(b))
        BY <3>1, <3>2
      <4>2. SubSeq(b, Len(b) + 1, Len(b)) = <<>> /\ SubSeq(b, stop + 3, Len(b)) = <<>>
        BY <1>3, <3>2, SubSeqEmpty
      <4>3. <<>> \in Seq(Octet)
        BY EmptySeq
      <4> QED
        BY <4>1, <4>2, <4>3
    <3>3. CASE stop # Len(b)
      <4>1. (stop + 2) + 1 = stop + 3 /\ stop + 3 \in Int
        OBVIOUS
      <4>2. Text(out.body) = SubSeq(b, stop + 3, Len(b))
        BY <3>1, <3>3, <4>1
      <4> DEFINE lo == stop + 3
                 hi == Len(b)
      <4>3. lo \in Int /\ hi \in Int /\ \A i \in lo..hi : b[i] \in Octet
        <5>1. b \in [1..hi -> Octet]
          BY <1>2, LenProperties
        <5>2. \A i \in lo..hi : i \in 1..hi
          BY <1>3
        <5> QED
          BY <1>3, <4>1, <5>1, <5>2
      <4> HIDE DEF lo, hi
      <4>4. SubSeq(b, lo, hi) \in Seq(Octet)
        BY <4>3, SubSeqProperties
      <4> QED
        BY <4>2, <4>4 DEF lo, hi
    <3> QED
      BY <3>2, <3>3
  <2>7. m = Min({k, maxH})
    <3> DEFINE T == {k, maxH}
    <3>1. T \subseteq Nat /\ m \in T /\ \A y \in T : m <= y
      BY <1>3
    <3> HIDE DEF m, T
    <3>2. Min(T) = m
      BY <3>1, MinEquals
    <3> QED
      BY <3>2 DEF T
  <2>8. ASSUME NEW j \in 1..m
        PROVE  \E lo \in HeaderStarts(b) :
                 /\ Cardinality({q \in HeaderStarts(b) : q < lo}) = j - 1
                 /\ IsText(b, lo, HeaderTexts[j])
    <3> DEFINE lo == out.headers[j].name.lo
    <3>1. /\ lo \in Nat /\ lo >= start /\ lo < stop /\ At(b, lo - 1) = LF
          /\ Cardinality(LineStarts(b, start, lo)) = j - 1
      BY <2>3 DEF IsHeader, Header, Slices
    <3>2. IsText(b, lo, HeaderTexts[j])
      BY <2>4
    <3> HIDE DEF lo, HeaderTexts
    <3>3. lo \in HeaderStarts(b)
      BY <2>2, <3>1 DEF LineStarts
    <3>4. {q \in HeaderStarts(b) : q < lo} = LineStarts(b, start, lo)
      <4>1. ASSUME NEW q
            PROVE  (q \in start..(stop - 1) /\ q < lo) <=> q \in start..(lo - 1)
        BY <3>1
      <4> QED
        BY <2>2, <4>1 DEF LineStarts
    <3> QED
      BY <3>1, <3>2, <3>3, <3>4
  <2> HIDE DEF m, HeaderTexts, TextRecord
  <2>9. /\ parsed'.N = Cardinality(HeaderStarts(b))
        /\ Len(parsed'.Headers) = Min({parsed'.N, maxH})
        /\ \A j \in 1..Len(parsed'.Headers) :
             \E lo \in HeaderStarts(b) :
               /\ Cardinality({q \in HeaderStarts(b) : q < lo}) = j - 1
               /\ IsText(b, lo, parsed'.Headers[j])
        /\ parsed'.Body = SubSeq(b, HeadStop(b) + 3, Len(b))
    BY <1>4, <2>1, <2>2, <2>5, <2>6, <2>7, <2>8
  <2>10. \A lo, h : IsText(b, lo, h)' <=> IsText(b, lo, h)
    BY <1>1 DEF IsText, Text
  <2>11. Decodes'
    BY <1>1, <2>2, <2>9, <2>10 DEF Decodes
  <2> QED
    BY <1>3, <1>4, <2>5, <2>6, <2>11
<1> QED
  BY <1>2, <1>6, <1>7 DEF Complete

----------------------------------------------------------------------------
(***************************************************************************)
(* Every step preserves the invariant.                                     *)
(***************************************************************************)

\* Whatever the stack holds is a message to the compiler.
LEMMA JunkIsMessage == NilMessage \in Message /\ Junk \in Message
<1>1. NilMessage \in Message
  BY MAXHAssumption
  DEF NilMessage, Message, NilHeader, Header, Nil, Slice, Slices
<1>2. MAXH + 1 \in Nat /\ Slice(1, 1) \in Slices
  BY MAXHAssumption DEF Slice, Slices
<1> QED
  BY <1>1, <1>2 DEF Junk, Message

\* No call of the bridge is in progress and no input has been taken.
LEMMA InitHolds == Init => BInv
<1> SUFFICES ASSUME Init PROVE BInv
  OBVIOUS
<1>1. /\ buf = <<>> /\ is_req = TRUE /\ out = NilMessage /\ pc = "idle" /\ p = 0 /\ n = 0
      /\ calls = 0
      /\ arg = [is_req |-> TRUE, buf |-> <<>>] /\ stage = "idle"
      /\ offsets = NoOffsets /\ parsed = NilParsed
  BY SameOperators DEF Init, S!Init
<1>2. <<>> \in Seq(Octet) /\ Len(<<>>) = 0
  BY EmptySeq
<1>3. Scanning
  <2>1. 0 \in 0..Len(buf) /\ 0 \in 0..MaxCalls /\ 0 \in Nat
    BY <1>1, <1>2, MaxCallsAssumption
  <2> QED
    BY <1>1, <1>2, <2>1, JunkIsMessage DEF Scanning
<1>4. offsets \in [headers : [1..maxH -> Header], body : Slices, n : Nat]
  BY <1>1 DEF NoOffsets, NilHeader, Header, Nil, Slice, Slices
<1>5. Decodes
  <2>1. NoLine(<<>>)
    BY <1>2 DEF NoLine, Free
  <2> QED
    BY <1>1, <2>1 DEF Decodes
<1>6. <<>> \in Seq([Name : Seq(Octet), Value : Seq(Octet)])
  BY EmptySeq
<1>7. arg \in [is_req : BOOLEAN, buf : Seq(Octet)]
  BY <1>1, <1>2
<1> QED
  BY <1>1, <1>2, <1>3, <1>4, <1>5, <1>6, <1>7 DEF BInv, NilParsed

\* What is decoded depends on the arguments and the result only.
LEMMA DecodesKept ==
  ASSUME BInv, stage' # "idle"
  PROVE  Decodes'
BY DEF Decodes

\* The step of each action.
LEMMA InvariantStep ==
  ASSUME BInv, [Next]_vars
  PROVE  BInv'
<1>1. ASSUME NEW i \in Inputs, RunOnEmpty(i)
      PROVE  BInv'
  <2>1. /\ i.buf = <<>> /\ arg' = i /\ parsed' = NilParsed /\ stage = "idle"
        /\ UNCHANGED <<buf, is_req, out, pc, p, n, calls, stage, offsets>>
    BY <1>1 DEF RunOnEmpty, parser
  <2>2. /\ <<>> \in Seq(Octet) /\ Len(<<>>) = 0
        /\ <<>> \in Seq([Name : Seq(Octet), Value : Seq(Octet)])
    BY EmptySeq
  <2>3. Decodes'
    <3>1. NoLine(<<>>)
      BY <2>2 DEF NoLine, Free
    <3> QED
      BY <2>1, <3>1 DEF Decodes
  <2>4. Scanning'
    BY <2>1 DEF BInv, Scanning
  <2>5. arg' \in [is_req : BOOLEAN, buf : Seq(Octet)]
    BY <2>1, InputsAssumption
  <2>6. /\ parsed'.N \in Nat /\ parsed'.Body \in Seq(Octet)
        /\ parsed'.Headers \in Seq([Name : Seq(Octet), Value : Seq(Octet)])
    BY <2>1, <2>2 DEF NilParsed
  <2>7. offsets' = offsets /\ stage' = "idle" /\ pc' = pc
    BY <2>1
  <2> QED
    BY <2>1, <2>3, <2>4, <2>5, <2>6, <2>7 DEF BInv
<1>2. ASSUME NEW i \in Inputs, Run(i)
      PROVE  BInv'
  <2>1. /\ arg' = i /\ offsets' = NoOffsets /\ out' \in {out, Junk}
        /\ stage = "idle" /\ stage' = "shim"
        /\ UNCHANGED <<buf, is_req, pc, p, n, calls, parsed>>
    BY <1>2 DEF Run
  <2>2. Scanning'
    <3>1. out' \in Message
      BY <2>1, JunkIsMessage DEF BInv, Scanning
    <3>2. pc = "idle"
      BY <2>1 DEF BInv
    <3> QED
      BY <2>1, <3>1, <3>2 DEF BInv, Scanning
  <2>3. arg' \in [is_req : BOOLEAN, buf : Seq(Octet)]
    BY <2>1, InputsAssumption
  <2>4. offsets' \in [headers : [1..maxH -> Header], body : Slices, n : Nat]
    BY <2>1 DEF NoOffsets, NilHeader, Header, Nil, Slice, Slices
  <2>5. Decodes'
    BY <2>1, DecodesKept
  <2> QED
    BY <2>1, <2>2, <2>3, <2>4, <2>5 DEF BInv
<1>3. CASE Enter
  <2>1. /\ stage = "shim" /\ pc = "idle" /\ calls < MaxCalls
        /\ buf' = arg.buf /\ is_req' = arg.is_req
        /\ pc' = "line" /\ calls' = calls + 1 /\ stage' = "parse"
        /\ UNCHANGED <<out, p, n, arg, offsets, parsed>>
    BY <1>3 DEF Enter, S!Call
  <2>2. arg \in Inputs /\ arg.buf \in Seq(Octet) /\ arg.is_req \in BOOLEAN
    BY <2>1 DEF BInv
  <2>3. Scanning'
    <3>1. Parsable(arg.is_req, arg.buf)
      BY <2>2, InputsAssumption
    <3>2. Len(arg.buf) \in Nat /\ 0 \in 0..Len(arg.buf)
      BY <2>2, LenProperties
    <3>3. calls' \in 0..MaxCalls
      BY <2>1, MaxCallsAssumption DEF BInv, Scanning
    <3>4. p = 0 /\ n = 0 /\ out \in Message
      BY <2>1 DEF BInv, Scanning
    <3> QED
      BY <2>1, <2>2, <3>1, <3>2, <3>3, <3>4 DEF Scanning
  <2>4. Decodes'
    BY <2>1, DecodesKept
  <2> QED
    BY <2>1, <2>3, <2>4 DEF BInv
<1>4. CASE Parse
  <2>1. S!Parse /\ UNCHANGED <<arg, stage, offsets, parsed>>
    BY <1>4 DEF Parse
  <2>2. /\ Scanning' /\ UNCHANGED <<buf, is_req, calls>>
        /\ pc' = "idle" => Complete(out, is_req, buf)'
    BY <2>1, ScanStep DEF BInv
  <2>3. pc # "idle"
    BY <2>1 DEF S!Parse, S!NoFirstLine, S!FirstLine, S!EndOfBuffer, S!BlankLine, S!HeaderLine
  <2>4. stage = "parse" /\ stage' = "parse"
    BY <2>1, <2>3 DEF BInv
  <2>5. Decodes'
    BY <2>4, DecodesKept
  <2> QED
    BY <2>1, <2>2, <2>4, <2>5 DEF BInv
<1>5. CASE Fill
  <2>1. /\ stage = "parse" /\ pc = "idle" /\ offsets' = Flattened(out) /\ stage' = "decode"
        /\ UNCHANGED <<buf, is_req, out, pc, p, n, calls, arg, parsed>>
    BY <1>5 DEF Fill, parser
  <2>2. out \in Message /\ maxH \in Nat /\ MAXH \in Nat /\ maxH <= MAXH
    BY MAXHAssumption, maxHAssumption DEF BInv, Scanning
  <2> DEFINE hs == [j \in 1..maxH |->
                      IF j <= out.nheaders THEN out.headers[j] ELSE offsets.headers[j]]
  <2>3. hs \in [1..maxH -> Header]
    <3>1. \A j \in 1..maxH : j \in 1..MAXH
      BY <2>2
    <3>2. \A j \in 1..maxH : out.headers[j] \in Header
      BY <2>2, <3>1 DEF Message
    <3>3. \A j \in 1..maxH : offsets.headers[j] \in Header
      BY DEF BInv
    <3> QED
      BY <3>2, <3>3
  <2>4. /\ offsets' \in [headers : [1..maxH -> Header], body : Slices, n : Nat]
        /\ offsets'.n = out.nheaders /\ offsets'.body = out.body
        /\ \A j \in 1..maxH : j <= out.nheaders => offsets'.headers[j] = out.headers[j]
    <3>1. offsets' = [headers |-> hs, body |-> out.body, n |-> out.nheaders]
      BY <2>1 DEF Flattened
    <3>2. out.body \in Slices /\ out.nheaders \in Nat
      BY <2>2 DEF Message
    <3>3. \A j \in 1..maxH : j <= out.nheaders => hs[j] = out.headers[j]
      OBVIOUS
    <3> HIDE DEF hs
    <3> QED
      BY <2>3, <3>1, <3>2, <3>3
  <2>5. Decodes'
    BY <2>1, DecodesKept
  <2>6. Scanning'
    BY <2>1 DEF BInv, Scanning
  <2>7. Complete(out, is_req, buf)' /\ buf' = arg'.buf
    BY <2>1 DEF BInv
  <2> QED
    BY <2>1, <2>4, <2>5, <2>6, <2>7 DEF BInv
<1>6. CASE Decode
  <2>1. /\ stage = "decode" /\ stage' = "idle"
        /\ UNCHANGED <<buf, is_req, out, pc, p, n, calls, arg, offsets>>
    BY <1>6 DEF Decode, parser
  <2>2. /\ parsed'.N \in Nat
        /\ parsed'.Body \in Seq(Octet)
        /\ parsed'.Headers \in Seq([Name : Seq(Octet), Value : Seq(Octet)])
        /\ Decodes'
    BY <1>6, DecodeStep
  <2>3. Scanning'
    BY <2>1 DEF BInv, Scanning
  <2>4. pc' = "idle"
    BY <2>1 DEF BInv
  <2> QED
    BY <2>1, <2>2, <2>3, <2>4 DEF BInv
<1>7. CASE UNCHANGED vars
  <2>1. UNCHANGED <<buf, is_req, out, pc, p, n, calls, arg, stage, offsets, parsed>>
    BY <1>7 DEF vars, parser
  <2>2. Scanning'
    BY <2>1 DEF BInv, Scanning
  <2>3. Decodes'
    BY <2>1 DEF BInv, Decodes, IsText, Text
  <2> QED
    BY <2>1, <2>2, <2>3 DEF BInv
<1> QED
  BY <1>1, <1>2, <1>3, <1>4, <1>5, <1>6, <1>7 DEF Next, Return

\* The invariant holds in every behaviour.
LEMMA InvariantHolds == Spec => []BInv
<1>1. BInv /\ [Next]_vars => BInv'
  BY InvariantStep
<1> QED
  BY <1>1, InitHolds, PTL DEF Spec

----------------------------------------------------------------------------
(***************************************************************************)
(* The theorems.                                                           *)
(***************************************************************************)

\* The state of the call, of the offsets the shim returns and of the result keeps
\* its types, whatever the shim's stack held.
THEOREM TypeCorrect == Spec => []TypeOK
<1>1. BInv => TypeOK
  <2> SUFFICES ASSUME BInv PROVE TypeOK
    OBVIOUS
  <2>1. S!TypeOK
    BY SameGrammar DEF BInv, Scanning, S!TypeOK
  <2> QED
    BY <2>1 DEF BInv, TypeOK
<1> QED
  BY <1>1, InvariantHolds, PTL

\* What parse leaves in the message is the message in the buffer: its header lines
\* are counted, also those there is no room for, and nothing of an earlier call or
\* of the stack is read.
THEOREM MessageIsRead == Spec => []ReadsMessage
<1>1. BInv => ReadsMessage
  <2> SUFFICES ASSUME BInv, stage = "parse" PROVE S!ReadsMessage
    BY DEF ReadsMessage
  <2>1. CASE pc = "idle"
    BY <2>1, CompleteReads DEF BInv
  <2>2. CASE pc # "idle"
    BY <2>2 DEF S!ReadsMessage, S!Returned
  <2> QED
    BY <2>1, <2>2
<1> QED
  BY <1>1, InvariantHolds, PTL

\* What run returns is the text of the buffer it was called on: of its first maxH
\* header lines and of its body, with the count of all its header lines.
THEOREM ResultIsText == Spec => []Decodes
<1>1. BInv => Decodes
  BY DEF BInv
<1> QED
  BY <1>1, InvariantHolds, PTL
=============================================================================
