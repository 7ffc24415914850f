----------------------------- MODULE Orchestrate -----------------------------
(***************************************************************************)
(* cmd/orchestrate: one goroutine parses a request and its response with   *)
(* the parser of its Builder, encodes the pair into the Builder's reused   *)
(* buffer, and keeps to a rate.  The parser is HttpParser, step by step.   *)
(*                                                                         *)
(* The program reads one pair of files and sends it again and again; here  *)
(* every turn may bring another pair, as the package comment of kafkashape *)
(* has it (shape.go:6-13).  Time is counted in ticks; at each tick Rate    *)
(* more pairs are due.                                                     *)
(***************************************************************************)
EXTENDS JsonShape, FiniteSets, TLC

CONSTANTS
  Pairs,        \* what may be sent: records of two buffers
  MaxHeaders,   \* the length of the parser's scratch arrays
  Rate,         \* pairs due per tick
  Duration      \* ticks until the program stops

ASSUME MaxHeadersAssumption == MaxHeaders \in Nat \ {0}
ASSUME PairsAssumption == Pairs \subseteq [req : Seq(Octet), resp : Seq(Octet)]
ASSUME RateAssumption == Rate \in Nat
ASSUME DurationAssumption == Duration \in Nat

VARIABLES
  input, req, resp, headers, scratch, heap, status, phase, cursor, calls, \* the parser
  pc,         \* where main is
  clock,      \* the time, as far as it matters
  should,     \* the pairs due when the time was last read
  done,       \* the pairs that have had their turn
  failed,     \* the pairs that could not be parsed
  pair,       \* the pair of this turn, and whether it has a tag
  json,       \* b.scratch, which the bytes Encode returned alias
  encoded     \* history: the pair json was made of, and how it was parsed

parser == <<input, req, resp, headers, scratch, heap, status, phase, cursor, calls>>
driver == <<pc, clock, should, done, failed, pair, json, encoded>>
vars   == <<parser, driver>>

P == INSTANCE HttpParser
       WITH Buffers  <- {p.req : p \in Pairs} \cup {p.resp : p \in Pairs},
            MaxCalls <- 2 * Rate * Duration

\* No pair was encoded yet.
Nothing == [pair |-> [req |-> <<>>, resp |-> <<>>, tagged |-> FALSE]]

TypeOK ==
  /\ P!TypeOK
  /\ pc \in {"time", "loop", "request", "response", "stopped"}
  /\ clock \in 0..Duration
  /\ should \in 0..(Rate * Duration)
  /\ done \in Nat
  /\ failed \in 0..done
  /\ pair \in [req : Seq(Octet), resp : Seq(Octet), tagged : BOOLEAN]

Init ==
  /\ P!Init
  /\ pc = "time"
  /\ clock = 0
  /\ should = 0
  /\ done = 0
  /\ failed = 0
  /\ pair = Nothing.pair
  /\ json = <<>>
  /\ encoded = Nothing

----------------------------------------------------------------------------
\* Time passes, also while a pair is handled.
Tick ==
  /\ pc # "stopped"
  /\ clock < Duration
  /\ clock' = clock + 1
  /\ UNCHANGED <<parser, pc, should, done, failed, pair, json, encoded>>

\* The time is read once a turn of the outer loop.
ReadTime ==
  /\ pc = "time"
  /\ IF clock >= Duration
     THEN pc' = "stopped" /\ UNCHANGED should
     ELSE pc' = "loop" /\ should' = clock * Rate
  /\ UNCHANGED <<parser, clock, done, failed, pair, json, encoded>>

\* Mutant of Due: one pair too many.
Due_OneMore == done <= should

Due == done < should

\* Mutant of CaughtUp: the inner loop is never left.
CaughtUp_Stays ==
  /\ pc = "loop"
  /\ ~Due
  /\ UNCHANGED vars

\* Nothing is due: main sleeps for a while.
CaughtUp ==
  /\ pc = "loop"
  /\ ~Due
  /\ pc' = "time"
  /\ UNCHANGED <<parser, clock, should, done, failed, pair, json, encoded>>

StartPair(p, tagged) ==
  /\ pc = "loop"
  /\ Due
  /\ P!ParseRequest(p.req)
  /\ pc' = "request"
  /\ pair' = [req |-> p.req, resp |-> p.resp, tagged |-> tagged]
  /\ UNCHANGED <<clock, should, done, failed, json, encoded>>

Parsing ==
  /\ pc \in {"request", "response"}
  /\ P!Parse
  /\ UNCHANGED driver

\* The turn of the pair is over.
EndPair ==
  /\ done' = done + 1
  /\ pc' = "loop"
  /\ UNCHANGED <<parser, clock, should, pair>>

Returned(k) == status[k] \in {"ok", "malformed", "panic"}

\* Mutant of Succeeded: an error is not looked at.
Succeeded_Anyway(k) == status[k] # "panic"

Succeeded(k) == status[k] = "ok"

RequestParsed ==
  /\ pc = "request"
  /\ Returned("req")
  /\ Succeeded("req")
  /\ P!ParseResponse(pair.resp)
  /\ pc' = "response"
  /\ UNCHANGED <<clock, should, done, failed, pair, json, encoded>>

\* Mutant of Fail: a pair that fails has no turn.
Fail_NotDone ==
  /\ failed' = failed + 1
  /\ pc' = "loop"
  /\ UNCHANGED <<parser, clock, should, pair, done, json, encoded>>

Fail ==
  /\ failed' = failed + 1
  /\ EndPair
  /\ UNCHANGED <<json, encoded>>

RequestFailed ==
  /\ pc = "request"
  /\ Returned("req")
  /\ ~Succeeded("req")
  /\ Fail

ResponseFailed ==
  /\ pc = "response"
  /\ Returned("resp")
  /\ ~Succeeded("resp")
  /\ Fail

\* Mutant of Reset: the buffer is appended to.
Reset_Kept(buf) == buf

\* b.scratch[:0]
Reset(buf) == <<>>

ResponseParsed ==
  /\ pc = "response"
  /\ Returned("resp")
  /\ Succeeded("resp")
  /\ json' = Encode(Reset(json), input["req"], P!RequestMessage,
                    input["resp"], P!ResponseMessage, pair.tagged)
  /\ encoded' = [pair |-> pair, req |-> P!RequestMessage, resp |-> P!ResponseMessage]
  /\ EndPair
  /\ UNCHANGED failed

----------------------------------------------------------------------------
Main ==
  \/ ReadTime
  \/ CaughtUp
  \/ \E p \in Pairs, tagged \in BOOLEAN : StartPair(p, tagged)
  \/ Parsing
  \/ RequestParsed
  \/ RequestFailed
  \/ ResponseFailed
  \/ ResponseParsed

Next == Tick \/ Main

\* Time passes, and the goroutine of main runs: it waits for nothing but time.
Spec == Init /\ [][Next]_vars /\ WF_vars(Tick) /\ WF_vars(Main)

----------------------------------------------------------------------------
(***************************************************************************)
(* The properties.                                                         *)
(***************************************************************************)

\* The text of a slice of b, and of the name and value of headers.
Says(b, slice) == Str(Text(SubSeq(b, slice.lo + 1, slice.hi)))

SaysHeaders(b, hs) == [j \in 1..Len(hs) |-> <<Says(b, hs[j].name), Says(b, hs[j].value)>>]

\* What a consumer should find in the payload of a pair.
Members(e) ==
  LET rq == e.pair.req
      rs == e.pair.resp
  IN  {<<Key("method"), Says(rq, e.req.method)>>,
       <<Key("path"), Says(rq, e.req.path)>>,
       <<Key("type"), Says(rq, e.req.version)>>,
       <<Key("statusCode"), Num(e.resp.code)>>,
       <<Key("status"),
         IF e.resp.reason.lo = e.resp.reason.hi THEN Num(e.resp.code)
         ELSE Status(e.resp.code, Says(rs, e.resp.reason).string.text)>>,
       <<Key("requestHeaders"), SaysHeaders(rq, e.req.headers)>>,
       <<Key("responseHeaders"), SaysHeaders(rs, e.resp.headers)>>,
       <<Key("requestPayload"), Says(rq, e.req.body)>>,
       <<Key("responsePayload"), Says(rs, e.resp.body)>>}
      \cup {<<Key(k), MetaField(k)>> : k \in Range(MetaKeys)}
      \cup (IF e.pair.tagged THEN {<<Key("tag"), MetaField("tag")>>} ELSE {})

\* From the return of Encode to the next one the bytes it returned are the payload
\* of their pair and of no other (shape.go:15-16, 59-60): one JSON object that has
\* every field once, read out of the pair's own buffers, whatever the Builder and
\* its parser did before and do meanwhile.
EncodesThePair ==
  encoded # Nothing =>
    /\ P!IsRequest(encoded.pair.req, encoded.req)
    /\ P!IsResponse(encoded.pair.resp, encoded.resp)
    /\ HasMembers(json, Members(encoded))

\* A pair counts as failed exactly when one of its buffers is no message, and a
\* pair that does not fail is encoded.
FailsWhenMalformed ==
  [][done' # done =>
       LET good == P!WellFormedRequest(pair.req) /\ P!WellFormedResponse(pair.resp)
       IN  /\ failed' = failed + (IF good THEN 0 ELSE 1)
           /\ good => encoded'.pair = pair]_vars

\* The driver never runs ahead of its rate, and whenever it sleeps or stops it has
\* handled all that was due when it last read the time.
KeepsTheRate ==
  /\ done <= should
  /\ should <= clock * Rate
  /\ pc \in {"time", "stopped"} => done = should

\* The program stops, however long the pairs take.
MainReturns == <>(pc = "stopped")
=============================================================================
