----------------------------- MODULE PicoGrammar -----------------------------
(***************************************************************************)
(* Which octets picohttpparser takes for a request, a response or a block  *)
(* of headers, said of the whole buffer by the positions of its line       *)
(* feeds, and what a message of its results says of them.  Where no        *)
(* comment of the library says it, the accepted octets are those of its    *)
(* tables: a line may end with a bare LF, a name has no white space, a     *)
(* header may be continued, and one empty line may precede a request.      *)
(***************************************************************************)
EXTENDS HttpGrammar

PicoKinds == {"req", "resp", "headers"}

DEL == 127

\* token_char_map: the octets of a method or a header name.
Token ==
  {33} \cup 35..39 \cup {42, 43, 45, 46} \cup ZERO..NINE \cup 65..90
    \cup {94, 95} \cup 96..122 \cup {124, 126}

\* The octets no value and no reason may have.
Ctl == ((0..31) \ {HT}) \cup {DEL}

\* "HTTP/1."
HTTP1 == <<72, 84, 84, 80, 47, 49, 46>>

IsVersion(b, lo) ==
  /\ SubSeq(b, lo + 1, lo + 7) = HTTP1
  /\ At(b, lo + 7) \in ZERO..NINE

----------------------------------------------------------------------------
\* Where the line of b that starts at lo has its end, without CR or LF.
TextEnd(b, lo) ==
  LET lf == IndexByte(b, LF, lo, Len(b))
  IN  IF lf > lo /\ At(b, lf - 1) = CR THEN lf - 1 ELSE lf

\* Where the next line starts, 0 if the line is not complete.
NextStart(b, lo) == IndexByte(b, LF, lo, Len(b)) + 1

\* The line starts of b[start:stop].
LineStarts(b, start, stop) ==
  {q \in start..(stop - 1) : q = start \/ At(b, q - 1) = LF}

FieldLine(b, lo) ==
  LET hi == TextEnd(b, lo) IN
  \E c \in (lo + 1)..(hi - 1) :
    At(b, c) = COLON /\ Filled(b, lo, c, Token) /\ Free(b, c, hi, Ctl)

ContinuationLine(b, lo) ==
  At(b, lo) \in OWS /\ Free(b, lo, TextEnd(b, lo), Ctl)

\* b[start:stop] is at most max header lines and an empty line.
HeaderBlock(b, start, stop, max) ==
  LET lines == LineStarts(b, start, stop)
      blank == Max(lines)
  IN  /\ start < stop
      /\ TextEnd(b, blank) = blank
      /\ NextStart(b, blank) = stop
      /\ Cardinality(lines) - 1 <= max
      /\ \A q \in lines \ {blank} :
           FieldLine(b, q) \/ (q # start /\ ContinuationLine(b, q))

\* The first line, from lo on, is method, spaces, path, spaces, version.
PicoRequestLine(b, lo, method, path) ==
  LET hi == TextEnd(b, lo) IN
  /\ method.lo = lo /\ method.lo < method.hi
  /\ Filled(b, lo, method.hi, Token)
  /\ method.hi < path.lo /\ Filled(b, method.hi, path.lo, {SP})
  /\ path.lo < path.hi /\ Free(b, path.lo, path.hi, Ctl \cup OWS)
  /\ path.hi < hi - 8 /\ Filled(b, path.hi, hi - 8, {SP})
  /\ IsVersion(b, hi - 8)

\* The first line is version, spaces, three digits at code, and either nothing
\* or spaces and a reason.
PicoStatusLine(b, code, reason) ==
  LET hi == TextEnd(b, 0) IN
  /\ IsVersion(b, 0)
  /\ 8 < code /\ Filled(b, 8, code, {SP})
  /\ Filled(b, code, code + 3, ZERO..NINE)
  /\ code + 3 <= hi
  /\ reason.hi = hi
  /\ reason.lo > code + 3 \/ reason.lo = hi
  /\ Filled(b, code + 3, reason.lo, {SP})
  /\ reason.lo < hi => At(b, reason.lo) # SP
  /\ Free(b, reason.lo, hi, Ctl)

\* Where the first line starts: a request may follow an empty line.
Beginning(k, b) ==
  IF k = "req" /\ TextEnd(b, 0) = 0 THEN NextStart(b, 0) ELSE 0

FirstLineOf(k, b) ==
  LET lo == Beginning(k, b) IN
  CASE k = "req" ->
         \E s, q, r \in lo..TextEnd(b, lo) :
           PicoRequestLine(b, lo, Slice(lo, s), Slice(q, r))
    [] k = "resp" ->
         \E c, r \in 8..TextEnd(b, 0) :
           PicoStatusLine(b, c, Slice(r, TextEnd(b, 0)))
    [] k = "headers" -> TRUE

HeadersStart(k, b) == IF k = "headers" THEN 0 ELSE NextStart(b, Beginning(k, b))

\* b begins with a message, b[0:stop], of at most max header lines.
Complete(k, b, stop, max) ==
  /\ k = "headers" \/ NextStart(b, Beginning(k, b)) > 0
  /\ HeaderBlock(b, HeadersStart(k, b), stop, max)
  /\ FirstLineOf(k, b)

----------------------------------------------------------------------------
\* h is what the header line that starts at lo says; a continued line has no name.
IsHeaderAt(b, lo, h) ==
  LET hi == TextEnd(b, lo)
      v  == h.value
  IN  /\ IF At(b, lo) \in OWS
         THEN h.name = Nil /\ v.lo = lo
         ELSE /\ h.name.lo = lo /\ At(b, h.name.hi) = COLON
              /\ Free(b, lo, h.name.hi, {COLON})
              /\ h.name.hi < v.lo
              /\ Filled(b, h.name.hi + 1, v.lo, OWS)
              /\ v.lo < hi => At(b, v.lo) \notin OWS
      /\ v.lo <= v.hi /\ v.hi <= hi
      /\ Filled(b, v.hi, hi, OWS)
      /\ v.lo < v.hi => At(b, v.hi - 1) \notin OWS

\* The headers hs are the header lines of b[start:stop], in order.
AreHeadersOf(b, hs, start, stop) ==
  LET lines == LineStarts(b, start, stop) IN
  /\ Len(hs) = Cardinality(lines) - 1
  /\ \A j \in 1..Len(hs) : \E q \in lines :
       Cardinality({r \in lines : r < q}) = j - 1 /\ IsHeaderAt(b, q, hs[j])
=============================================================================
