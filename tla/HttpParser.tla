------------------------------ MODULE HttpParser ------------------------------
(***************************************************************************)
(* go-approach/httpparser/parser.go: one Parser, reused by one goroutine   *)
(* for any sequence of ParseRequest and ParseResponse calls.               *)
(*                                                                         *)
(* A call is cut into the steps of its control flow: entry (the fields are *)
(* reset), the first line, then one step per turn of the loop of           *)
(* parseHeaders.  Two calls never overlap: a Parser is owned by one        *)
(* goroutine (parser.go:80).                                               *)
(***************************************************************************)
EXTENDS HttpGrammar

CONSTANTS
  Buffers,      \* the byte sequences callers parse
  MaxHeaders,   \* maxHeaders, the length of the scratch arrays
  MaxCalls      \* bound on the calls of a behaviour

ASSUME BuffersAssumption == Buffers \subseteq Seq(Octet)
ASSUME MaxHeadersAssumption == MaxHeaders \in Nat \ {0}
ASSUME MaxCallsAssumption == MaxCalls \in Nat

Kinds == {"req", "resp"}

VARIABLES
  input,      \* input[k]: the buffer the fields of kind k alias
  req,        \* p.req without its headers
  resp,       \* p.resp without its headers
  headers,    \* headers[k]: the slice header of p.req.Headers or p.resp.Headers
  scratch,    \* scratch[k]: p.reqHeaders or p.respHeaders
  heap,       \* heap[k]: the array append moved the headers to, if it did
  status,     \* status[k]: how far the last call of kind k got, what it returned
  phase,      \* where the call in progress is
  cursor,     \* i, the offset parseHeaders has reached
  calls       \* how many calls were made

message == <<req, resp>>
out     == <<headers, scratch, heap>>
vars    == <<input, req, resp, headers, scratch, heap, status, phase, cursor, calls>>

----------------------------------------------------------------------------
Header == [name : Slices, value : Slices]

NilHeader == [name |-> Nil, value |-> Nil]

Request == [method : Slices, path : Slices, version : Slices, body : Slices]

Response == [version : Slices, code : Nat, reason : Slices, body : Slices]

NilRequest == [method |-> Nil, path |-> Nil, version |-> Nil, body |-> Nil]

NilResponse == [version |-> Nil, code |-> 0, reason |-> Nil, body |-> Nil]

\* A slice of headers is backed by the scratch array until it outgrows it.
Empty == [array |-> "scratch", len |-> 0]

\* The headers a caller sees in p.req.Headers or p.resp.Headers.
Headers(k) ==
  IF headers[k].array = "scratch"
  THEN [j \in 1..headers[k].len |-> scratch[k][j]]
  ELSE heap[k]

TypeOK ==
  /\ input \in [Kinds -> Seq(Octet)]
  /\ req \in Request
  /\ resp \in Response
  /\ headers \in [Kinds -> [array : {"scratch", "heap"}, len : Nat]]
  /\ scratch \in [Kinds -> [1..MaxHeaders -> Header]]
  /\ heap \in [Kinds -> Seq(Header)]
  /\ \A k \in Kinds :
       /\ headers[k].array = "scratch" => headers[k].len <= MaxHeaders
       /\ headers[k].array = "heap" => headers[k].len = Len(heap[k])
  /\ status \in [Kinds -> {"none", "parsing", "ok", "malformed", "panic"}]
  /\ phase \in {"idle", "line", "headers"}
  /\ cursor \in Nat
  /\ calls \in 0..MaxCalls

Init ==
  /\ input = [k \in Kinds |-> <<>>]
  /\ req = NilRequest
  /\ resp = NilResponse
  /\ headers = [k \in Kinds |-> Empty]
  /\ scratch = [k \in Kinds |-> [j \in 1..MaxHeaders |-> NilHeader]]
  /\ heap = [k \in Kinds |-> <<>>]
  /\ status = [k \in Kinds |-> "none"]
  /\ phase = "idle"
  /\ cursor = 0
  /\ calls = 0

----------------------------------------------------------------------------
(***************************************************************************)
(* Entry and exit of a call.                                               *)
(***************************************************************************)

\* The fields are reset; the arrays keep what earlier calls left in them.
Enter(k, b) ==
  /\ phase = "idle"
  /\ calls < MaxCalls
  /\ input' = [input EXCEPT ![k] = b]
  /\ headers' = [headers EXCEPT ![k] = Empty]
  /\ heap' = [heap EXCEPT ![k] = <<>>]
  /\ status' = [status EXCEPT ![k] = "parsing"]
  /\ phase' = "line"
  /\ cursor' = 0
  /\ calls' = calls + 1
  /\ UNCHANGED scratch

ParseRequest(b) ==
  /\ Enter("req", b)
  /\ req' = NilRequest
  /\ UNCHANGED resp

ParseResponse(b) ==
  /\ Enter("resp", b)
  /\ resp' = NilResponse
  /\ UNCHANGED req

\* The call returns what it decided, unless one of the slice or index
\* expressions it evaluated on the way is out of bounds: then it panics.
Return(k, decided, evaluated) ==
  /\ status' = [status EXCEPT ![k] =
       IF \A s \in evaluated : InBounds(s, Len(input[k])) THEN decided ELSE "panic"]
  /\ phase' = "idle"
  /\ cursor' = 0

\* Mutant of Proceed: the loop starts on the line feed.
Proceed_OnLF(nl) ==
  /\ phase' = "headers"
  /\ cursor' = nl
  /\ UNCHANGED status

\* The first line is accepted and the header loop starts.
Proceed(nl) ==
  /\ phase' = "headers"
  /\ cursor' = nl + 1
  /\ UNCHANGED status

----------------------------------------------------------------------------
(***************************************************************************)
(* The first line.                                                         *)
(***************************************************************************)

AtLine(k) == phase = "line" /\ status[k] = "parsing"

\* Mutant of EndsLine: a bare line feed ends a line too.
EndsLine_BareLF(b, nl) == nl >= 1

\* nl ends a line with CR LF.
EndsLine(b, nl) == nl >= 1 /\ At(b, nl - 1) = CR

FirstLF(b) == IndexByte(b, LF, 0, Len(b))

NoFirstLine(k) ==
  LET b  == input[k]
      nl == FirstLF(b)
  IN  /\ AtLine(k)
      /\ ~EndsLine(b, nl)
      /\ Return(k, "malformed", IF nl < 1 THEN {} ELSE {Index(nl - 1)})
      /\ UNCHANGED <<input, message, out, calls>>

NoSpace(k) ==
  LET b  == input[k]
      nl == FirstLF(b)
  IN  /\ AtLine(k)
      /\ EndsLine(b, nl)
      /\ IndexByte(b, SP, 0, nl - 1) < 0
      /\ Return(k, "malformed", {Slice(0, nl - 1)})
      /\ UNCHANGED <<input, message, out, calls>>

\* ParseRequest has set Method when it finds that there is no second space.
RequestLine ==
  LET b   == input["req"]
      nl  == FirstLF(b)
      sp1 == IndexByte(b, SP, 0, nl - 1)
      sp2 == IndexByte(b, SP, sp1 + 1, nl - 1)
  IN  /\ AtLine("req")
      /\ EndsLine(b, nl)
      /\ sp1 >= 0
      /\ \/ /\ sp2 < 0
            /\ req' = [req EXCEPT !.method = Slice(0, sp1)]
            /\ Return("req", "malformed", {Slice(sp1 + 1, nl - 1)})
         \/ /\ sp2 >= 0
            /\ req' = [req EXCEPT !.method  = Slice(0, sp1),
                                  !.path    = Slice(sp1 + 1, sp2),
                                  !.version = Slice(sp2 + 1, nl - 1)]
            /\ Proceed(nl)
      /\ UNCHANGED <<input, resp, out, calls>>

\* Only the width of the status and its first octet are checked; the reason is
\* set before they are.
StatusLine ==
  LET b    == input["resp"]
      nl   == FirstLF(b)
      sp1  == IndexByte(b, SP, 0, nl - 1)
      sp2  == IndexByte(b, SP, sp1 + 1, nl - 1)
      code == Slice(sp1 + 1, IF sp2 < 0 THEN nl - 1 ELSE sp2)
      line == [resp EXCEPT !.version = Slice(0, sp1),
                           !.reason  = IF sp2 < 0 THEN Nil
                                                  ELSE Slice(sp2 + 1, nl - 1)]
      isCode == Width(code) = 3 /\ At(b, code.lo) \in ZERO..NINE
  IN  /\ AtLine("resp")
      /\ EndsLine(b, nl)
      /\ sp1 >= 0
      /\ \/ /\ ~isCode
            /\ resp' = line
            /\ Return("resp", "malformed", {code})
         \/ /\ isCode
            /\ resp' = [line EXCEPT !.code = StatusValue(b, code.lo)]
            /\ Proceed(nl)
      /\ UNCHANGED <<input, req, out, calls>>

----------------------------------------------------------------------------
(***************************************************************************)
(* parseHeaders: one action per way a turn of its loop ends.               *)
(***************************************************************************)

AtHeaders(k) == phase = "headers" /\ status[k] = "parsing"

NoTerminator(k) ==
  /\ AtHeaders(k)
  /\ cursor >= Len(input[k])
  /\ Return(k, "malformed", {})
  /\ UNCHANGED <<input, message, out, calls>>

\* The empty line: the body is the rest of the buffer.
BlankLine(k) ==
  LET b    == input[k]
      body == Slice(cursor + 2, Len(b))
  IN  /\ AtHeaders(k)
      /\ cursor < Len(b)
      /\ At(b, cursor) = CR
      /\ \/ /\ cursor + 1 >= Len(b) \/ At(b, cursor + 1) # LF
            /\ Return(k, "malformed", {})
            /\ UNCHANGED message
         \/ /\ cursor + 1 < Len(b) /\ At(b, cursor + 1) = LF
            /\ Return(k, "ok", {body})
            /\ req'  = IF k = "req"  THEN [req  EXCEPT !.body = body] ELSE req
            /\ resp' = IF k = "resp" THEN [resp EXCEPT !.body = body] ELSE resp
      /\ UNCHANGED <<input, out, calls>>

\* Mutant of AppendHeader: no check that the scratch array has room.
AppendHeader_NoRoom(k, h) ==
  /\ scratch' = [scratch EXCEPT ![k][headers[k].len + 1] = h]
  /\ headers' = [headers EXCEPT ![k].len = @ + 1]
  /\ UNCHANGED heap

\* Mutant of AppendHeader: the array of the heap starts empty.
AppendHeader_NoCopy(k, h) ==
  LET n == headers[k].len IN
  IF headers[k].array = "scratch" /\ n < MaxHeaders
  THEN /\ scratch' = [scratch EXCEPT ![k][n + 1] = h]
       /\ headers' = [headers EXCEPT ![k].len = n + 1]
       /\ UNCHANGED heap
  ELSE /\ heap' = [heap EXCEPT ![k] = Append(@, h)]
       /\ headers' = [headers EXCEPT ![k] = [array |-> "heap", len |-> Len(heap[k]) + 1]]
       /\ UNCHANGED scratch

\* Mutant of AppendHeader: requests and responses share one scratch array.
AppendHeader_Shared(k, h) ==
  LET n == headers[k].len IN
  IF headers[k].array = "scratch" /\ n < MaxHeaders
  THEN /\ scratch' = [l \in Kinds |-> [scratch[l] EXCEPT ![n + 1] = h]]
       /\ headers' = [headers EXCEPT ![k].len = n + 1]
       /\ UNCHANGED heap
  ELSE /\ heap' = [heap EXCEPT ![k] = Append(Headers(k), h)]
       /\ headers' = [headers EXCEPT ![k] = [array |-> "heap", len |-> n + 1]]
       /\ UNCHANGED scratch

\* append(*out, h): in place while the scratch array has room, else into an
\* array of the heap that starts as a copy.
AppendHeader(k, h) ==
  LET n == headers[k].len IN
  IF headers[k].array = "scratch" /\ n < MaxHeaders
  THEN /\ scratch' = [scratch EXCEPT ![k][n + 1] = h]
       /\ headers' = [headers EXCEPT ![k].len = n + 1]
       /\ UNCHANGED heap
  ELSE /\ heap' = [heap EXCEPT ![k] = Append(Headers(k), h)]
       /\ headers' = [headers EXCEPT ![k] = [array |-> "heap", len |-> n + 1]]
       /\ UNCHANGED scratch

\* Mutant of ConsumeLine: the next turn starts on the line feed.
ConsumeLine_OnLF(k, h, abs) ==
  /\ AppendHeader(k, h)
  /\ cursor' = abs

\* Mutant of ConsumeLine: a line too many is dropped before i is advanced.
ConsumeLine_NoAdvance(k, h, abs) ==
  IF headers[k].len = MaxHeaders
  THEN UNCHANGED <<out, cursor>>
  ELSE AppendHeader(k, h) /\ cursor' = abs + 1

ConsumeLine(k, h, abs) ==
  /\ AppendHeader(k, h)
  /\ cursor' = abs + 1

\* The line at the cursor, up to its line feed at abs.
HeaderLine(k) ==
  LET b     == input[k]
      abs   == IndexByte(b, LF, cursor, Len(b))
      colon == IndexByte(b, COLON, cursor, abs - 1)
  IN  /\ AtHeaders(k)
      /\ cursor < Len(b)
      /\ At(b, cursor) # CR
      /\ \/ /\ ~EndsLine(b, abs)
            /\ Return(k, "malformed", IF abs < 1 THEN {} ELSE {Index(abs - 1)})
            /\ UNCHANGED out
         \/ /\ EndsLine(b, abs)
            /\ colon < 0
            /\ Return(k, "malformed", {Slice(cursor, abs - 1)})
            /\ UNCHANGED out
         \/ /\ EndsLine(b, abs)
            /\ colon >= 0
            /\ ConsumeLine(k, [name  |-> Slice(cursor, colon),
                               value |-> Trim(b, colon + 1, abs - 1)], abs)
            /\ UNCHANGED <<status, phase>>
      /\ UNCHANGED <<input, message, calls>>

----------------------------------------------------------------------------
Step(k) ==
  \/ NoFirstLine(k)
  \/ NoSpace(k)
  \/ NoTerminator(k)
  \/ BlankLine(k)
  \/ HeaderLine(k)

Parse == RequestLine \/ StatusLine \/ \E k \in Kinds : Step(k)

Call == \E b \in Buffers : ParseRequest(b) \/ ParseResponse(b)

Next == Call \/ Parse

Safety == Init /\ [][Next]_vars

\* A call runs on its goroutine until it returns; nothing makes a caller call.
Spec == Safety /\ WF_vars(Parse)

----------------------------------------------------------------------------
(***************************************************************************)
(* What a caller is given, and the properties.                             *)
(***************************************************************************)

RequestMessage ==
  [method |-> req.method, path |-> req.path, version |-> req.version,
   headers |-> Headers("req"), body |-> req.body]

ResponseMessage ==
  [version |-> resp.version, code |-> resp.code, reason |-> resp.reason,
   headers |-> Headers("resp"), body |-> resp.body]

\* No input makes the parser index or slice out of bounds: the package comment
\* (parser.go:5-6) and the fuzz targets ask for an error instead of a panic.  The
\* loop of parseHeaders relies on the octet before its cursor being a line feed.
NeverPanics == \A k \in Kinds : status[k] # "panic"

\* A message a caller is given loses no octet of its buffer and invents none:
\* its slices and the delimiters between them cover the buffer, in order, also
\* when the headers have outgrown the scratch array and while later calls of
\* the other kind reuse the parser.
Lossless ==
  /\ status["req"] = "ok" => IsRequest(input["req"], RequestMessage)
  /\ status["resp"] = "ok" => IsResponse(input["resp"], ResponseMessage)

\* "The parser returns an error on malformed input" (parser.go:5-6): a status
\* line that is accepted has a status of three digits.
StatusIsThreeDigits ==
  status["resp"] = "ok" =>
    \A p \in 1..3 : At(input["resp"], resp.version.hi + p) \in ZERO..NINE

\* Every call returns: each turn of the header loop consumes a line.
CallReturns ==
  \A k \in Kinds : (status[k] = "parsing") ~> (status[k] # "parsing")

\* What the last call of kind k returned, as its caller sees it now.
Result(k) ==
  IF status[k] = "ok"
  THEN [status  |-> "ok",
        message |-> IF k = "req" THEN RequestMessage ELSE ResponseMessage]
  ELSE [status |-> status[k]]

Contract == INSTANCE ParserContract WITH result <- [k \in Kinds |-> Result(k)]

\* The parser keeps its contract: it accepts exactly the messages of the grammar,
\* gives their one reading, and a result outlives the calls of the other kind.
KeepsContract == Contract!Spec
=============================================================================
