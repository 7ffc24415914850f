-------------------------------- MODULE Bridge --------------------------------
(***************************************************************************)
(* go-approach/cparse: a C parser called from Go.  run (cparse.go) gives   *)
(* the buffer to a shim (scalar_shim.c, simd_shim.c), which has parse fill *)
(* a message on its stack, flattens the message into offsets (shim.h) and  *)
(* returns; run cuts the strings of its result out of the buffer.          *)
(*                                                                         *)
(* The parser is ScalarScan, which the mask parser implements.  The        *)
(* message of the shim is not initialised: it is whatever the stack held,  *)
(* the message of the call before or anything else.                        *)
(***************************************************************************)
EXTENDS HttpMsg

CONSTANT maxH       \* the headers run has room for: its own copy of MAXH

ASSUME maxHAssumption == maxH \in 0..MAXH

VARIABLES
  buf, is_req, out, pc, p, n, calls,  \* of the parser
  arg,        \* what run was called on
  stage,      \* who runs: no one, the shim, the parser, run on the C results
  offsets,    \* what the shim returned: header slices, body, count
  parsed      \* what run returned last

parser == <<buf, is_req, out, pc, p, n, calls>>
vars == <<parser, arg, stage, offsets, parsed>>

S == INSTANCE ScalarScan

NoOffsets == [headers |-> [j \in 1..maxH |-> NilHeader], body |-> Nil, n |-> 0]

NilParsed == [Headers |-> <<>>, Body |-> <<>>, N |-> 0]

\* A stack that never held a message.
Junk == [NilMessage EXCEPT !.nheaders = MAXH + 1, !.body = Slice(1, 1)]

Init ==
  /\ S!Init
  /\ arg = [is_req |-> TRUE, buf |-> <<>>]
  /\ stage = "idle"
  /\ offsets = NoOffsets
  /\ parsed = NilParsed

----------------------------------------------------------------------------
\* &buf[0] of an empty buffer would panic: C is not called.
RunOnEmpty(i) ==
  /\ stage = "idle"
  /\ i.buf = <<>>
  /\ arg' = i
  /\ parsed' = NilParsed
  /\ UNCHANGED <<parser, stage, offsets>>

\* The offset arrays are made for this call; the shim has a new stack frame.
Run(i) ==
  /\ stage = "idle"
  /\ i.buf # <<>>
  /\ calls < MaxCalls
  /\ arg' = i
  /\ offsets' = NoOffsets
  /\ out' \in {out, Junk}
  /\ stage' = "shim"
  /\ UNCHANGED <<buf, is_req, pc, p, n, calls, parsed>>

Enter ==
  /\ stage = "shim"
  /\ S!Call(arg)
  /\ stage' = "parse"
  /\ UNCHANGED <<arg, offsets, parsed>>

Parse ==
  /\ S!Parse
  /\ UNCHANGED <<arg, stage, offsets, parsed>>

\* cparse_fill: as many headers as both the message and the arrays hold.
Flattened(m) ==
  [headers |-> [j \in 1..maxH |->
                  IF j <= m.nheaders THEN m.headers[j] ELSE offsets.headers[j]],
   body    |-> m.body,
   n       |-> m.nheaders]

Fill ==
  /\ stage = "parse"
  /\ pc = "idle"
  /\ offsets' = Flattened(out)
  /\ stage' = "decode"
  /\ UNCHANGED <<parser, arg, parsed>>

Text(s) == SubSeq(arg.buf, s.lo + 1, s.hi)

\* Mutant of Decoded: the count is clamped with the headers.
Decoded_Clamped(o) ==
  LET m == IF o.n > maxH THEN maxH ELSE o.n IN
  [Headers |-> [j \in 1..m |-> [Name  |-> Text(o.headers[j].name),
                                Value |-> Text(o.headers[j].value)]],
   Body    |-> Text(o.body),
   N       |-> m]

Decoded(o) ==
  LET m == IF o.n > maxH THEN maxH ELSE o.n IN
  [Headers |-> [j \in 1..m |-> [Name  |-> Text(o.headers[j].name),
                                Value |-> Text(o.headers[j].value)]],
   Body    |-> Text(o.body),
   N       |-> o.n]

Decode ==
  /\ stage = "decode"
  /\ parsed' = Decoded(offsets)
  /\ stage' = "idle"
  /\ UNCHANGED <<parser, arg, offsets>>

----------------------------------------------------------------------------
Return == Enter \/ Parse \/ Fill \/ Decode

Next == (\E i \in Inputs : RunOnEmpty(i) \/ Run(i)) \/ Return

\* A call is synchronous: it goes on until it returns.
Spec == Init /\ [][Next]_vars /\ WF_vars(Return)

----------------------------------------------------------------------------
TypeOK ==
  /\ S!TypeOK
  /\ arg \in [is_req : BOOLEAN, buf : Seq(Octet)]
  /\ stage \in {"idle", "shim", "parse", "decode"}
  /\ offsets \in [headers : [1..maxH -> Header], body : Slices, n : Nat]
  /\ parsed.N \in Nat
  /\ parsed.Body \in Seq(Octet)
  /\ parsed.Headers \in Seq([Name : Seq(Octet), Value : Seq(Octet)])

\* "All fields are zero-copy slices into the input buf" (common.h:2): what
\* parse leaves in the message is the message in the buffer, whatever the
\* message held before.
ReadsMessage == (stage = "parse") => S!ReadsMessage

\* The octets at which a header line of b starts, and where the last one stops.
HeadStop(b) ==
  CHOOSE q \in (IndexByte(b, LF, 0, Len(b)) + 1)..Len(b) :
    /\ q = Len(b) \/ (At(b, q) = CR /\ At(b, q - 1) = LF)
    /\ \A r \in 1..(q - 1) : ~(At(b, r) = CR /\ At(b, r - 1) = LF)

HeaderStarts(b) == {q \in 1..(HeadStop(b) - 1) : At(b, q - 1) = LF}

\* h is the text of the header line of b that starts at lo.
IsText(b, lo, h) ==
  \E v \in lo..Len(b) :
    LET name  == Slice(lo, lo + Len(h.Name))
        value == Slice(v, v + Len(h.Value))
    IN  /\ IsHeaderLine(b, [name |-> name, value |-> value],
                        IndexByte(b, LF, lo, Len(b)) + 1)
        /\ h = [Name |-> Text(name), Value |-> Text(value)]

\* A Parsed is "the field-level result, decoded from the C parser's offsets"
\* (cparse.go:29): the texts of the first maxH header lines of the buffer, all of
\* its body, and the count of its header lines, which "may exceed len(Headers)".
\* Nothing of another call or of the stack shows.
Decodes ==
  stage = "idle" =>
    LET b == arg.buf IN
    IF NoLine(b)
    THEN parsed = NilParsed
    ELSE /\ parsed.N = Cardinality(HeaderStarts(b))
         /\ Len(parsed.Headers) = Min({parsed.N, maxH})
         /\ \A j \in 1..Len(parsed.Headers) :
              \E lo \in HeaderStarts(b) :
                /\ Cardinality({q \in HeaderStarts(b) : q < lo}) = j - 1
                /\ IsText(b, lo, parsed.Headers[j])
         /\ parsed.Body = SubSeq(b, HeadStop(b) + 3, Len(b))

\* Every call of run returns: each turn of the loop of parse starts after the
\* line feed of the turn before.
CallReturns == (stage # "idle") ~> (stage = "idle")
=============================================================================
