------------------------------- MODULE HttpMsg -------------------------------
(***************************************************************************)
(* cfast/common.h: the message every C parser fills, the inputs it may be  *)
(* given, and the code that cfast.c and cfast-simd.c both have: how the    *)
(* fields of the first line and one header are stored.                     *)
(***************************************************************************)
EXTENDS HttpGrammar

CONSTANTS
  Inputs,     \* what parse is called on: records [is_req, buf]
  MAXH,       \* the headers a message has room for
  MaxCalls    \* bound on the calls of a behaviour

----------------------------------------------------------------------------
Header == [name : Slices, value : Slices]

NilHeader == [name |-> Nil, value |-> Nil]

Message ==
  [method : Slices, path : Slices, version : Slices, status_code : Nat,
   reason : Slices, headers : [1..MAXH -> Header], nheaders : Nat, body : Slices]

NilMessage ==
  [method |-> Nil, path |-> Nil, version |-> Nil, status_code |-> 0,
   reason |-> Nil, headers |-> [j \in 1..MAXH |-> NilHeader], nheaders |-> 0,
   body |-> Nil]

----------------------------------------------------------------------------
(***************************************************************************)
(* "NO validation (assumes well-formed input)": a parser may be given a    *)
(* buffer that has no line at all, or one that begins with a first line    *)
(* and header lines and then has a blank line or nothing.                  *)
(***************************************************************************)

NoLine(b) == Free(b, 0, Len(b), {LF})

\* What a first line that ends before le must have for the reads after it.
ReadableLine(is_req, b, le) ==
  IF is_req
  THEN \E p, q \in 0..(le - 1) : p < q /\ At(b, p) = SP /\ At(b, q) = SP
  ELSE \E p \in 0..(le - 4) :
         /\ Free(b, 0, p, {SP}) /\ At(b, p) = SP
         /\ \A i \in 1..3 : At(b, p + i) \in ZERO..NINE
         /\ p + 4 = le \/ At(b, p + 4) = SP

\* b[0:stop] is a first line and header lines.
HeadStops(is_req, b, stop) ==
  /\ stop >= 1 /\ At(b, stop - 1) = LF
  /\ \A q \in 0..(stop - 1) : At(b, q) = LF => At(b, q - 1) = CR
  /\ ReadableLine(is_req, b, IndexByte(b, LF, 0, Len(b)) - 1)
  /\ \A p, q \in 0..(stop - 1) :
       (p < q /\ At(b, p) = LF /\ At(b, q) = LF) =>
         /\ At(b, p + 1) # CR
         /\ \E c \in (p + 1)..(q - 2) : At(b, c) = COLON

BlankOrEnd(b, stop) ==
  \/ stop = Len(b)
  \/ At(b, stop) = CR /\ At(b, stop + 1) = LF

Parsable(is_req, b) ==
  \/ NoLine(b)
  \/ \E stop \in 1..Len(b) : HeadStops(is_req, b, stop) /\ BlankOrEnd(b, stop)

ASSUME InputsAssumption ==
  \A i \in Inputs : /\ i \in [is_req : BOOLEAN, buf : Seq(Octet)]
                    /\ Parsable(i.is_req, i.buf)
ASSUME MAXHAssumption == MAXH \in Nat
ASSUME MaxCallsAssumption == MaxCalls \in Nat

----------------------------------------------------------------------------
(***************************************************************************)
(* Storing the first line, which ends before le, and a header.             *)
(***************************************************************************)

RequestLine(m, b, le) ==
  LET sp1 == IndexByte(b, SP, 0, le)
      sp2 == IndexByte(b, SP, sp1 + 1, le)
  IN  [m EXCEPT !.method  = Slice(0, sp1),
                !.path    = Slice(sp1 + 1, sp2),
                !.version = Slice(sp2 + 1, le)]

StatusCode(b, p) ==
  100 * (At(b, p) - ZERO) + 10 * (At(b, p + 1) - ZERO) + (At(b, p + 2) - ZERO)

\* A status line without a reason gets an empty one.
StatusLine(m, b, le) ==
  LET sp1 == IndexByte(b, SP, 0, le)
      sp2 == IndexByte(b, SP, sp1 + 1, le)
  IN  [m EXCEPT !.version     = Slice(0, sp1),
                !.status_code = StatusCode(b, sp1 + 1),
                !.reason      = IF sp2 >= 0 THEN Slice(sp2 + 1, le) ELSE Slice(le, le)]

PutFirstLine(m, is_req, b, le) ==
  IF is_req THEN RequestLine(m, b, le) ELSE StatusLine(m, b, le)

\* Mutant of PutHeader: no check of the room; past hname lies hval.
PutHeader_NoRoom(m, n, h) ==
  IF n < MAXH THEN [m EXCEPT !.headers[n + 1] = h]
  ELSE [m EXCEPT !.headers[n - MAXH + 1].value = h.name]

\* Header n, counted from 0, if there is room for it.
PutHeader(m, n, h) ==
  IF n < MAXH THEN [m EXCEPT !.headers[n + 1] = h] ELSE m

\* Mutant of Finish: a call that saw no header leaves the count.
Finish_KeepCount(m, n, body) ==
  [m EXCEPT !.nheaders = IF n = 0 THEN @ ELSE n, !.body = body]

\* What parse leaves when it returns n: the count is not clamped.
Finish(m, n, body) == [m EXCEPT !.nheaders = n, !.body = body]
=============================================================================
