----------------------------- MODULE PicoClients -----------------------------
(***************************************************************************)
(* The callers of PicoParser.                                              *)
(*                                                                         *)
(* A reader calls it on what has arrived of one stream, again when more    *)
(* has, the way picohttpparser.h documents; after an incomplete message it *)
(* may pass the length it had then.  The adapter (cfast/pico-adapter.c)    *)
(* calls it once for every buffer and translates the results into one      *)
(* http_msg, which is reused (common.c:43-46, 77-82).                      *)
(***************************************************************************)
EXTENDS PicoParser

CONSTANTS
  Streams,    \* what a reader receives: records [kind, octets]
  Batches,    \* what the adapter is called on, one after another: sequences of
              \* the same, requests and responses
  MaxCalls    \* bound on the calls of a reader

ASSUME StreamsAssumption ==
  \A s \in Streams : s.kind \in PicoKinds /\ s.octets \in Seq(Octet)
ASSUME BatchesAssumption ==
  Batches \subseteq Seq([kind : {"req", "resp"}, octets : Seq(Octet)])
ASSUME CallsAssumption == MaxCalls \in Nat

VARIABLES
  stream,     \* the stream of a reader; none for the adapter
  partial,    \* how much of it the last call had that found it incomplete
  verdict,    \* what the calls before the last one found, -2 until they did
  calls,      \* how many calls were made
  batch,      \* what the adapter will be called on
  stage,      \* whether the adapter is called
  out         \* the message it fills

reader == <<stream, partial, verdict>>
adapter == <<batch, stage, out>>
vars == <<pico, reader, adapter, calls>>

NoStream == [kind |-> "none", octets |-> <<>>]

----------------------------------------------------------------------------
(***************************************************************************)
(* http_msg outlives the buffers its slices point into: a slice is tagged  *)
(* with the call whose buffer it is in, or is no slice of a buffer.        *)
(***************************************************************************)
Unset   == [of |-> -1, lo |-> 0, hi |-> 0]
Literal == [of |-> 0, lo |-> 0, hi |-> 8]      \* "HTTP/1.x"

In(s) == [of |-> calls, lo |-> s.lo, hi |-> s.hi]

NilOut ==
  [method |-> Unset, path |-> Unset, version |-> Unset, status_code |-> 0,
   reason |-> Unset, body |-> Unset, nheaders |-> 0,
   headers |-> [j \in 1..MaxHeaders |-> [name |-> Unset, value |-> Unset]]]

Init ==
  /\ PicoInit
  /\ \/ stream \in Streams /\ batch = <<>>
     \/ stream = NoStream /\ batch \in Batches
  /\ partial = 0
  /\ verdict = -2
  /\ calls = 0
  /\ stage = "idle"
  /\ out = NilOut

----------------------------------------------------------------------------
\* What the call that returned says goes into the history.
Incomplete == calls > 0 /\ ret = -2

\* A reader has more octets, or the same.  Once it has an answer it may read its
\* stream from the start again, but it passes no length of an incomplete message.
ReadMore ==
  /\ stream # NoStream
  /\ calls < MaxCalls
  /\ partial' = IF Incomplete THEN Len(b) ELSE partial
  /\ verdict' = IF verdict = -2 /\ calls > 0 THEN ret ELSE verdict
  /\ \E l \in Len(b)..Len(stream.octets) :
     \E last \in {0} \cup (IF verdict' = -2 THEN {partial'} ELSE {}) :
       Enter(stream.kind, SubSeq(stream.octets, 1, l), last)
  /\ calls' = calls + 1
  /\ UNCHANGED <<stream, adapter>>

\* The out-params and the array of headers are new, and nothing set them.
AdapterParse ==
  /\ batch # <<>>
  /\ stage = "idle"
  /\ Enter(Head(batch).kind, Head(batch).octets, 0)
  /\ batch' = Tail(batch)
  /\ stage' = "called"
  /\ calls' = calls + 1
  /\ UNCHANGED <<reader, out>>

\* The headers of the message: those that were read, the others stay.
OutHeaders ==
  [j \in 1..MaxHeaders |->
     IF j <= num_headers
     THEN [name  |-> IF headers[j].name = Nil THEN Unset ELSE In(headers[j].name),
           value |-> In(headers[j].value)]
     ELSE out.headers[j]]

AdapterFails ==
  /\ stage = "called" /\ pc = "idle" /\ ret < 0
  /\ stage' = "idle"
  /\ out' = [out EXCEPT !.nheaders = 0]
  /\ UNCHANGED <<pico, reader, batch, calls>>

FirstLineFields(m) ==
  IF kind = "req"
  THEN [m EXCEPT !.method = In(parts.method), !.path = In(parts.path),
                 !.version = Literal]
  ELSE [m EXCEPT !.status_code = parts.status, !.reason = In(parts.msg)]

\* Mutant of Body: its length is not shortened by the head.
Body_Whole == In(Slice(ret, ret + Len(b)))

Body == In(Slice(ret, Len(b)))

AdapterReturns ==
  /\ stage = "called" /\ pc = "idle" /\ ret >= 0
  /\ stage' = "idle"
  /\ out' = [FirstLineFields(out) EXCEPT !.headers  = OutHeaders,
                                         !.nheaders = num_headers,
                                         !.body     = Body]
  /\ UNCHANGED <<pico, reader, batch, calls>>

Step ==
  \/ Parse /\ UNCHANGED <<reader, adapter, calls>>
  \/ AdapterFails
  \/ AdapterReturns

Next == ReadMore \/ AdapterParse \/ Step

Spec == Init /\ [][Next]_vars

----------------------------------------------------------------------------
TypeOK ==
  /\ PicoTypeOK
  /\ stream \in Streams \cup {NoStream}
  /\ partial \in 0..Len(b)
  /\ verdict \in -2..Len(b)
  /\ calls \in Nat
  /\ stage \in {"idle", "called"}
  /\ \A s \in {out.method, out.path, out.version, out.reason, out.body} :
       s.of \in -1..calls /\ s.lo <= s.hi
  /\ out.nheaders \in 0..MaxHeaders

Returned == pc = "idle" /\ calls > 0

Completed(stop) == Complete(kind, b, stop, MaxHeaders)

\* A block of headers that is only an empty line.
EmptyBlock == kind = "headers" /\ b # <<>> /\ TextEnd(b, 0) = 0

\* "returns number of bytes consumed if successful, -2 if request is partial, -1
\* if failed" (picohttpparser.h:56): a call succeeds exactly if the octets begin
\* with a message, returns its length and says what the grammar says of it,
\* however many octets are searched at a time and whatever length of an
\* incomplete message was passed; but see Answers for an empty block.
Recognises ==
  Returned /\ ~(EmptyBlock /\ last_len > 0) =>
    IF ret >= 0
    THEN Completed(ret) /\ ReadsIt
    ELSE \A stop \in 1..Len(b) : ~Completed(stop)

\* "-2 if request is partial", "ditto" for headers (picohttpparser.h:56-57, 65):
\* a call does not answer "partial" when the octets begin with a whole message.
Answers == Returned /\ ret = -2 => \A stop \in 1..Len(b) : ~Completed(stop)

\* An answer is final: a message that was found is found again with the same
\* length when more has arrived, and octets that were refused are never accepted.
Settles ==
  Returned /\ verdict # -2 => ret = verdict

Untagged(s) == Slice(s.lo, s.hi)

OutHeadersRead ==
  [j \in 1..out.nheaders |-> [name  |-> Untagged(out.headers[j].name),
                              value |-> Untagged(out.headers[j].value)]]

\* The adapter has returned to its caller.
Translated == stage = "idle" /\ calls > 0 /\ stream = NoStream

\* "translates the library's output into our http_msg" (pico-adapter.c:3): after a
\* success what the library found, the first line but for its version, the headers
\* and the body, is what the grammar reads in this buffer, and aliases it, whatever
\* the message held before.  A failure leaves no header to walk.
Translates ==
  Translated =>
    IF ret < 0
    THEN out.nheaders = 0
    ELSE /\ out.body = [of |-> calls, lo |-> ret, hi |-> Len(b)]
         /\ AreHeadersOf(b, OutHeadersRead, HeadersStart(kind, b), ret)
         /\ \A j \in 1..out.nheaders :
              /\ out.headers[j].value.of = calls
              /\ out.headers[j].name = Unset \/ out.headers[j].name.of = calls
         /\ IF kind = "req"
            THEN /\ out.method.of = calls /\ out.path.of = calls
                 /\ PicoRequestLine(b, Beginning(kind, b),
                                    Untagged(out.method), Untagged(out.path))
            ELSE /\ out.reason.of = calls
                 /\ \E c \in 9..ret : /\ PicoStatusLine(b, c, Untagged(out.reason))
                                      /\ out.status_code = StatusValue(b, c)

\* "the shared contract every C parser variant conforms to": "all fields are
\* zero-copy slices into the input buf" (common.h:1-2).  So the version that dump
\* prints for a response, after a request was parsed into the same message
\* (common.c:77-84), is a slice of the response.
ResponseVersionInBuffer ==
  Translated /\ kind = "resp" /\ ret >= 0 => out.version.of = calls
=============================================================================
