----------------------------- MODULE HttpGrammar -----------------------------
(***************************************************************************)
(* What a buffer holds when it is read as an HTTP/1.x message, said of the *)
(* whole buffer at once: no cursor, no loop, no order of evaluation.       *)
(*                                                                         *)
(* WellFormedRequest and WellFormedResponse say which buffers are messages *)
(* by the positions of their line ends; IsRequest and IsResponse say when  *)
(* a record of slices is a message read out of a buffer: its slices, the   *)
(* delimiters between them and nothing else cover the buffer from its      *)
(* first octet to its last.                                                *)
(***************************************************************************)
EXTENDS HttpBytes, FiniteSetsExt

----------------------------------------------------------------------------
(***************************************************************************)
(* Which buffers are messages.                                             *)
(***************************************************************************)

\* Offsets at which CR LF CR LF begins: the first one ends the head.
HeadEnds(b) ==
  {p \in 0..(Len(b) - 4) : /\ At(b, p) = CR /\ At(b, p + 1) = LF
                           /\ At(b, p + 2) = CR /\ At(b, p + 3) = LF}

\* The line feeds that end the first line and the header lines.
LineEnds(b) == {p \in 0..(Min(HeadEnds(b)) + 1) : At(b, p) = LF}

\* Every line of the head ends with CR LF, none begins with CR, and every one
\* but the first has a colon.
WellFormedHead(b) ==
  /\ HeadEnds(b) # {}
  /\ LET ends == LineEnds(b)
         last == Min(HeadEnds(b)) + 1
     IN  /\ \A p \in ends : At(b, p - 1) = CR
         /\ \A p \in ends \ {last} : At(b, p + 1) # CR
         /\ \A p, q \in ends :
              p < q => \E c \in (p + 1)..(q - 2) : At(b, c) = COLON

\* The spaces of the first line, which ends before its CR.
Spaces(b) ==
  LET crlf == Min(LineEnds(b)) - 1
  IN  {p \in 0..(crlf - 1) : At(b, p) = SP}

WellFormedRequest(b) ==
  /\ WellFormedHead(b)
  /\ Cardinality(Spaces(b)) >= 2

\* The status is the three octets after the first space, up to the next space
\* or the end of the line, and its first octet is a digit.
WellFormedResponse(b) ==
  /\ WellFormedHead(b)
  /\ Spaces(b) # {}
  /\ LET status == Min(Spaces(b)) + 1
         rest   == Spaces(b) \ {status - 1}
         stop   == Min(rest \cup {Min(LineEnds(b)) - 1})
     IN  stop = status + 3 /\ At(b, status) \in ZERO..NINE

----------------------------------------------------------------------------
(***************************************************************************)
(* When a record of slices is the message.                                 *)
(***************************************************************************)

Free(b, lo, hi, C) == \A q \in lo..(hi - 1) : At(b, q) \notin C

Filled(b, lo, hi, C) == \A q \in lo..(hi - 1) : At(b, q) \in C

\* b[lo:stop] is one line: it has no LF but its last octet, after a CR.
IsLine(b, lo, stop) ==
  /\ lo + 2 <= stop
  /\ At(b, stop - 2) = CR
  /\ At(b, stop - 1) = LF
  /\ Free(b, lo, stop - 1, {LF})

\* The header line that ends at stop is: name, colon, white space, value, white
\* space, CR LF, with no colon in the name and the value trimmed.
IsHeaderLine(b, h, stop) ==
  /\ IsLine(b, h.name.lo, stop)
  /\ At(b, h.name.lo) # CR
  /\ h.name.lo <= h.name.hi
  /\ h.name.hi < h.value.lo
  /\ h.value.lo <= h.value.hi
  /\ h.value.hi <= stop - 2
  /\ Free(b, h.name.lo, h.name.hi, {COLON})
  /\ At(b, h.name.hi) = COLON
  /\ Filled(b, h.name.hi + 1, h.value.lo, OWS)
  /\ Filled(b, h.value.hi, stop - 2, OWS)
  /\ IF h.value.lo = h.value.hi
     THEN h.value.hi = stop - 2
     ELSE At(b, h.value.lo) \notin OWS /\ At(b, h.value.hi - 1) \notin OWS

\* Where the line of header j stops: at the next header, or at stop.
LineStop(hs, j, stop) == IF j = Len(hs) THEN stop ELSE hs[j + 1].name.lo

\* b[start:stop] is the header lines hs, in order, with nothing between them.
AreHeaders(b, hs, start, stop) ==
  /\ start = IF hs = <<>> THEN stop ELSE hs[1].name.lo
  /\ \A j \in 1..Len(hs) : IsHeaderLine(b, hs[j], LineStop(hs, j, stop))

\* b[0:start] is method, space, path, space, version, CR LF.
IsRequestLine(b, m, start) ==
  /\ IsLine(b, 0, start)
  /\ m.method.lo = 0
  /\ m.method.hi >= 0
  /\ m.path.lo = m.method.hi + 1
  /\ m.path.hi >= m.path.lo
  /\ m.version = Slice(m.path.hi + 1, start - 2)
  /\ m.version.lo <= m.version.hi
  /\ Free(b, 0, m.method.hi, {SP}) /\ At(b, m.method.hi) = SP
  /\ Free(b, m.path.lo, m.path.hi, {SP}) /\ At(b, m.path.hi) = SP

\* The value Go computes for the digit x: uint8 subtraction, then int.
Digit(x) == (x - ZERO) % 256

StatusValue(b, p) ==
  100 * Digit(At(b, p)) + 10 * Digit(At(b, p + 1)) + Digit(At(b, p + 2))

\* b[0:start] is version, space, status, CR LF, with a space and a reason
\* between the status and CR LF if the line has a second space.
IsStatusLine(b, m, start) ==
  LET status == m.version.hi + 1 IN
  /\ IsLine(b, 0, start)
  /\ m.version.lo = 0
  /\ m.version.hi >= 0
  /\ Free(b, 0, m.version.hi, {SP}) /\ At(b, m.version.hi) = SP
  /\ Free(b, status, status + 3, {SP})
  /\ At(b, status) \in ZERO..NINE
  /\ m.code = StatusValue(b, status)
  /\ \/ /\ status + 3 = start - 2
        /\ m.reason.lo = m.reason.hi
     \/ /\ status + 3 < start - 2
        /\ At(b, status + 3) = SP
        /\ m.reason = Slice(status + 4, start - 2)

\* The head stops with an empty line and the body is all the rest.
IsBody(b, body) ==
  /\ body.lo >= 2
  /\ At(b, body.lo - 2) = CR
  /\ At(b, body.lo - 1) = LF
  /\ body.hi = Len(b)

IsRequest(b, m) ==
  \E start \in 2..Len(b) :
    /\ IsRequestLine(b, m, start)
    /\ AreHeaders(b, m.headers, start, m.body.lo - 2)
    /\ IsBody(b, m.body)

IsResponse(b, m) ==
  \E start \in 2..Len(b) :
    /\ IsStatusLine(b, m, start)
    /\ AreHeaders(b, m.headers, start, m.body.lo - 2)
    /\ IsBody(b, m.body)
=============================================================================
