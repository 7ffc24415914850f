--------------------------- MODULE OrchestrateProofs ---------------------------
(***************************************************************************)
(* For every rate, duration and set of pairs: the driver keeps to its      *)
(* rate whatever the parser does, a pair fails exactly when one of its     *)
(* buffers is no message, and a payload says its pair and no other.        *)
(***************************************************************************)
EXTENDS Orchestrate, SequenceTheorems, FiniteSetTheorems, WellFoundedInduction, TLAPS

\* The variables of the driver, and that a pair in progress was due.
InRange ==
  /\ pc \in {"time", "loop", "request", "response", "stopped"}
  /\ clock \in 0..Duration
  /\ should \in Nat
  /\ done \in Nat
  /\ pc \in {"request", "response"} => done < should

IInv == InRange /\ KeepsTheRate

\* What is due never shrinks.
LEMMA DueGrows ==
  ASSUME NEW t \in Nat, NEW r \in Nat
  PROVE  t * r \in Nat /\ t * r <= (t + 1) * r
<1>1. (t + 1) * r = t * r + r
  OBVIOUS
<1>2. t * r \in Nat
  OBVIOUS
<1> QED
  BY <1>1, <1>2

\* The driver starts with nothing due and nothing done.
LEMMA InitEstablishes == Init => IInv
BY RateAssumption, DurationAssumption DEF Init, IInv, InRange, KeepsTheRate

\* Every step keeps what is done within what is due.
LEMMA StepKeeps == IInv /\ [Next]_vars => IInv'
<1> SUFFICES ASSUME IInv, [Next]_vars PROVE IInv'
  OBVIOUS
<1> USE DEF IInv, InRange, KeepsTheRate
<1>1. CASE Tick
  <2>1. clock' = clock + 1 /\ clock < Duration
        /\ UNCHANGED <<pc, should, done>>
    BY <1>1 DEF Tick
  <2>2. clock * Rate \in Nat /\ clock * Rate <= (clock + 1) * Rate
    BY RateAssumption, DurationAssumption, DueGrows
  <2>3. (clock + 1) * Rate \in Nat
    BY RateAssumption, DurationAssumption
  <2> DEFINE k == clock * Rate
             l == (clock + 1) * Rate
  <2>4. should <= l
    <3>1. k \in Nat /\ l \in Nat /\ k <= l /\ should <= k
      BY <2>2, <2>3
    <3> HIDE DEF k, l
    <3> QED
      BY <3>1
  <2> QED
    BY <2>1, <2>4, DurationAssumption
<1>2. CASE ReadTime
  <2>1. CASE pc' = "stopped"
    BY <1>2, <2>1 DEF ReadTime
  <2>2. CASE pc' # "stopped"
    <3>1. /\ pc = "time" /\ pc' = "loop" /\ should' = clock * Rate
          /\ clock' = clock /\ done' = done
      BY <1>2, <2>2 DEF ReadTime
    <3>2. clock * Rate \in Nat
      BY RateAssumption
    <3> QED
      BY <3>1, <3>2
  <2> QED
    BY <2>1, <2>2
<1>3. CASE CaughtUp
  BY <1>3 DEF CaughtUp, Due
<1>4. ASSUME NEW p \in Pairs, NEW tagged \in BOOLEAN, StartPair(p, tagged)
      PROVE  IInv'
  BY <1>4 DEF StartPair, Due
<1>5. CASE Parsing \/ UNCHANGED vars
  BY <1>5 DEF Parsing, driver, vars
<1>6. CASE RequestParsed
  BY <1>6 DEF RequestParsed
<1>7. CASE RequestFailed
  BY <1>7 DEF RequestFailed, Fail, EndPair
<1>8. CASE ResponseFailed
  BY <1>8 DEF ResponseFailed, Fail, EndPair
<1>9. CASE ResponseParsed
  BY <1>9 DEF ResponseParsed, EndPair
<1> QED
  BY <1>1, <1>2, <1>3, <1>4, <1>5, <1>6, <1>7, <1>8, <1>9 DEF Next, Main

\* The driver never runs ahead of its rate and always catches up with what was due
\* (orchestrate/main.go:93-116).
THEOREM RateKept == Spec => []KeepsTheRate
<1>1. IInv => KeepsTheRate
  BY DEF IInv
<1> QED
  BY <1>1, InitEstablishes, StepKeeps, PTL DEF Spec

----------------------------------------------------------------------------
(***************************************************************************)
(* The driver and its parser.  What HttpParserProofs establishes of every  *)
(* Parser holds of the one in the Builder: the buffers of the pairs are    *)
(* its buffers, and the driver calls it at most twice a pair.              *)
(***************************************************************************)
PP == INSTANCE HttpParserProofs
        WITH Buffers  <- {p.req : p \in Pairs} \cup {p.resp : p \in Pairs},
             MaxCalls <- 2 * Rate * Duration,
             Names    <- {}

\* The assumptions of the parser hold of the one the driver has.
LEMMA ParserAssumptions ==
  /\ {p.req : p \in Pairs} \cup {p.resp : p \in Pairs} \subseteq Seq(PP!Octet)
  /\ MaxHeaders \in Nat \ {0}
  /\ 2 * Rate * Duration \in Nat
<1>1. 2 * Rate * Duration \in Nat
  BY RateAssumption, DurationAssumption
<1> QED
  BY <1>1, PairsAssumption, MaxHeadersAssumption DEF PP!Octet, Octet

\* The parser of the model is the parser of the proofs.
LEMMA SameConstants ==
  /\ P!LF = PP!LF /\ P!CR = PP!CR /\ P!COLON = PP!COLON /\ P!SP = PP!SP
  /\ P!ZERO = PP!ZERO /\ P!NINE = PP!NINE /\ P!OWS = PP!OWS /\ P!Octet = PP!Octet
  /\ P!Nil = PP!Nil /\ P!Slices = PP!Slices /\ P!Kinds = PP!Kinds
  /\ P!Header = PP!Header /\ P!Request = PP!Request /\ P!Response = PP!Response
  /\ P!NilHeader = PP!NilHeader /\ P!NilRequest = PP!NilRequest
  /\ P!NilResponse = PP!NilResponse /\ P!Empty = PP!Empty
BY DEF P!LF, PP!LF, P!CR, PP!CR, P!COLON, PP!COLON, P!SP, PP!SP, P!ZERO, PP!ZERO,
       P!NINE, PP!NINE, P!OWS, PP!OWS, P!HT, PP!HT, P!Octet, PP!Octet,
       P!Nil, PP!Nil, P!Slice, PP!Slice, P!Slices, PP!Slices, P!Kinds, PP!Kinds,
       P!Header, PP!Header, P!Request, PP!Request, P!Response, PP!Response,
       P!NilHeader, PP!NilHeader, P!NilRequest, PP!NilRequest,
       P!NilResponse, PP!NilResponse, P!Empty, PP!Empty

\* The octet operators of the two instances of the parser are the same.
LEMMA SameOctets ==
  /\ \A b, q : P!At(b, q) = PP!At(b, q)
  /\ \A lo, hi : P!Slice(lo, hi) = PP!Slice(lo, hi)
  /\ \A s, n : P!InBounds(s, n) = PP!InBounds(s, n)
  /\ \A s : P!Width(s) = PP!Width(s)
  /\ \A q : P!Index(q) = PP!Index(q)
  /\ \A b, c, lo, hi : P!IndexByte(b, c, lo, hi) = PP!IndexByte(b, c, lo, hi)
  /\ \A b, lo, hi : P!Trim(b, lo, hi) = PP!Trim(b, lo, hi)
  /\ \A b, q : P!StatusValue(b, q) = PP!StatusValue(b, q)
<1>1. \A b, q : P!At(b, q) = PP!At(b, q)
  BY DEF P!At, PP!At, P!Fault, PP!Fault
<1>2. \A lo, hi : P!Slice(lo, hi) = PP!Slice(lo, hi)
  BY DEF P!Slice, PP!Slice
<1>3. \A s, n : P!InBounds(s, n) = PP!InBounds(s, n)
  BY DEF P!InBounds, PP!InBounds
<1>4. \A s : P!Width(s) = PP!Width(s)
  BY DEF P!Width, PP!Width
<1>5. \A q : P!Index(q) = PP!Index(q)
  BY <1>2 DEF P!Index, PP!Index
<1>6. \A b, c, lo, hi : P!IndexByte(b, c, lo, hi) = PP!IndexByte(b, c, lo, hi)
  BY DEF P!IndexByte, PP!IndexByte, P!At, PP!At, P!Fault, PP!Fault
<1>7. \A b, lo, hi : P!Trim(b, lo, hi) = PP!Trim(b, lo, hi)
  <2>1. \A b, lo, hi : P!TrimLeft(b, lo, hi) = PP!TrimLeft(b, lo, hi)
    BY SameConstants DEF P!TrimLeft, PP!TrimLeft, P!At, PP!At, P!Fault, PP!Fault
  <2>2. \A b, lo, hi : P!TrimRight(b, lo, hi) = PP!TrimRight(b, lo, hi)
    BY SameConstants DEF P!TrimRight, PP!TrimRight, P!At, PP!At, P!Fault, PP!Fault
  <2> QED
    BY <1>2, <2>1, <2>2 DEF P!Trim, PP!Trim
<1>8. \A b, q : P!StatusValue(b, q) = PP!StatusValue(b, q)
  BY <1>1, SameConstants DEF P!StatusValue, PP!StatusValue, P!Digit, PP!Digit
<1> QED
  BY <1>1, <1>2, <1>3, <1>4, <1>5, <1>6, <1>7, <1>8

\* So are its messages.
LEMMA SameMessages ==
  \A b : /\ P!WellFormedRequest(b) = PP!WellFormedRequest(b)
         /\ P!WellFormedResponse(b) = PP!WellFormedResponse(b)
<1>1. \A T : P!Min(T) = PP!Min(T)
  BY DEF P!Min, PP!Min
<1>2. \A b : P!HeadEnds(b) = PP!HeadEnds(b)
  BY SameConstants, SameOctets DEF P!HeadEnds, PP!HeadEnds
<1>3. \A b : P!LineEnds(b) = PP!LineEnds(b)
  BY <1>1, <1>2, SameConstants, SameOctets DEF P!LineEnds, PP!LineEnds
<1>4. \A b : P!Spaces(b) = PP!Spaces(b)
  BY <1>1, <1>3, SameConstants, SameOctets DEF P!Spaces, PP!Spaces
<1>5. \A b : P!WellFormedHead(b) = PP!WellFormedHead(b)
  BY <1>1, <1>2, <1>3, SameConstants, SameOctets DEF P!WellFormedHead, PP!WellFormedHead
<1>6. \A T : P!Cardinality(T) = PP!Cardinality(T)
  BY DEF P!Cardinality, PP!Cardinality
<1>7. \A b : P!WellFormedRequest(b) = PP!WellFormedRequest(b)
  BY <1>4, <1>5, <1>6 DEF P!WellFormedRequest, PP!WellFormedRequest
<1>8. \A b : P!WellFormedResponse(b) = PP!WellFormedResponse(b)
  BY <1>1, <1>3, <1>4, <1>5, SameConstants, SameOctets
  DEF P!WellFormedResponse, PP!WellFormedResponse
<1> QED
  BY <1>7, <1>8

\* And so are its states and steps.
LEMMA SameStates == (P!Init <=> PP!Init) /\ (P!TypeOK <=> PP!TypeOK)
BY SameConstants DEF P!Init, PP!Init, P!TypeOK, PP!TypeOK

\* The entries to the two instances of the parser are the same.
LEMMA SameEntries ==
  \A b : /\ P!ParseRequest(b) <=> PP!ParseRequest(b)
         /\ P!ParseResponse(b) <=> PP!ParseResponse(b)
BY SameConstants DEF P!ParseRequest, PP!ParseRequest, P!ParseResponse, PP!ParseResponse,
                     P!Enter, PP!Enter

\* So are the guards and the returns of their steps.
LEMMA SameReturns ==
  /\ \A k, decided, S : P!Return(k, decided, S) <=> PP!Return(k, decided, S)
  /\ \A nl : P!Proceed(nl) <=> PP!Proceed(nl)
  /\ \A b, nl : P!EndsLine(b, nl) <=> PP!EndsLine(b, nl)
  /\ \A b : P!FirstLF(b) = PP!FirstLF(b)
  /\ \A k : P!AtLine(k) <=> PP!AtLine(k)
  /\ \A k : P!AtHeaders(k) <=> PP!AtHeaders(k)
<1>1. \A k, decided, S : P!Return(k, decided, S) <=> PP!Return(k, decided, S)
  BY SameOctets DEF P!Return, PP!Return
<1>2. \A nl : P!Proceed(nl) <=> PP!Proceed(nl)
  BY DEF P!Proceed, PP!Proceed
<1>3. \A b, nl : P!EndsLine(b, nl) <=> PP!EndsLine(b, nl)
  BY SameConstants, SameOctets DEF P!EndsLine, PP!EndsLine
<1>4. \A b : P!FirstLF(b) = PP!FirstLF(b)
  BY SameConstants, SameOctets DEF P!FirstLF, PP!FirstLF
<1>5. \A k : (P!AtLine(k) <=> PP!AtLine(k)) /\ (P!AtHeaders(k) <=> PP!AtHeaders(k))
  BY DEF P!AtLine, PP!AtLine, P!AtHeaders, PP!AtHeaders
<1> QED
  BY <1>1, <1>2, <1>3, <1>4, <1>5

\* The two instances of the parser take the same steps.
LEMMA SameSteps == P!Parse <=> PP!Parse
<1>1. P!message = PP!message /\ P!out = PP!out
  BY DEF P!message, PP!message, P!out, PP!out
<1>2. \A k, h, abs : P!ConsumeLine(k, h, abs) <=> PP!ConsumeLine(k, h, abs)
  <2>1. \A k : P!Headers(k) = PP!Headers(k)
    BY DEF P!Headers, PP!Headers
  <2>2. \A k, h : P!AppendHeader(k, h) <=> PP!AppendHeader(k, h)
    BY <2>1 DEF P!AppendHeader, PP!AppendHeader
  <2> QED
    BY <2>2 DEF P!ConsumeLine, PP!ConsumeLine
<1>3. P!RequestLine <=> PP!RequestLine
  BY SameConstants, SameOctets, SameReturns DEF P!RequestLine, PP!RequestLine, P!out, PP!out
<1>4. P!StatusLine <=> PP!StatusLine
  BY SameConstants, SameOctets, SameReturns DEF P!StatusLine, PP!StatusLine, P!out, PP!out
<1>5. \A k : P!NoFirstLine(k) <=> PP!NoFirstLine(k)
  BY SameConstants, SameOctets, SameReturns
  DEF P!NoFirstLine, PP!NoFirstLine, P!message, PP!message, P!out, PP!out
<1>6. \A k : P!NoSpace(k) <=> PP!NoSpace(k)
  BY SameConstants, SameOctets, SameReturns
  DEF P!NoSpace, PP!NoSpace, P!message, PP!message, P!out, PP!out
<1>7. \A k : P!NoTerminator(k) <=> PP!NoTerminator(k)
  BY SameReturns DEF P!NoTerminator, PP!NoTerminator, P!message, PP!message, P!out, PP!out
<1>8. \A k : P!BlankLine(k) <=> PP!BlankLine(k)
  BY SameConstants, SameOctets, SameReturns
  DEF P!BlankLine, PP!BlankLine, P!message, PP!message, P!out, PP!out
<1>9. \A k : P!HeaderLine(k) <=> PP!HeaderLine(k)
  BY <1>2, SameConstants, SameOctets, SameReturns
  DEF P!HeaderLine, PP!HeaderLine, P!message, PP!message, P!out, PP!out
<1> QED
  BY <1>3, <1>4, <1>5, <1>6, <1>7, <1>8, <1>9, SameConstants
  DEF P!Parse, PP!Parse, P!Step, PP!Step
----------------------------------------------------------------------------
(***************************************************************************)
(* The turn of a pair: what the driver knows of its parser from one call   *)
(* to the next, on top of the parser's own invariant.                      *)
(***************************************************************************)
Buffers == {p.req : p \in Pairs} \cup {p.resp : p \in Pairs}

Turn ==
  /\ pc \in {"request", "response"} => input["req"] = pair.req /\ pair.resp \in Buffers
  /\ pc = "response" => status["req"] = "ok" /\ input["resp"] = pair.resp

Counters ==
  /\ should \in 0..(Rate * Duration)
  /\ failed \in 0..done
  /\ pair \in [req : Seq(Octet), resp : Seq(Octet), tagged : BOOLEAN]

TInv == PP!CInv /\ IInv /\ Counters /\ Turn

\* What a step inside a call of the parser leaves as it was.
LEMMA ParserStep ==
  ASSUME PP!CInv, P!Parse
  PROVE  /\ PP!CInv'
         /\ input' = input
         /\ status["req"] = "ok" => status'["req"] = "ok"
<1>1. PP!Parse
  BY SameSteps
<1>2. PP!CInv'
  BY <1>1, ParserAssumptions, PP!ContractStep DEF PP!Next
<1>3. PICK k \in PP!Kinds : PP!OnlyOwn(k)
  BY <1>1, <1>2, ParserAssumptions, PP!ParseDecides DEF PP!CInv
<1>4. /\ status[k] = "parsing" /\ input' = input
      /\ \A l \in PP!Kinds \ {k} : status'[l] = status[l]
  BY <1>3 DEF PP!OnlyOwn
<1>5. status["req"] = "ok" => status'["req"] = "ok"
  BY <1>4 DEF PP!Kinds
<1> QED
  BY <1>2, <1>4, <1>5

\* A call of the parser sets the buffer of its kind.
LEMMA RequestEntered ==
  ASSUME PP!CInv, NEW b \in Buffers, P!ParseRequest(b)
  PROVE  PP!CInv' /\ input'["req"] = b
<1>1. PP!ParseRequest(b)
  BY SameEntries
<1>2. PP!CInv'
  BY <1>1, ParserAssumptions, PP!ContractStep DEF PP!Next, PP!Call, Buffers
<1>3. input' = [input EXCEPT !["req"] = b] /\ "req" \in DOMAIN input
  BY <1>1 DEF PP!ParseRequest, PP!Enter, PP!CInv, PP!IInv, PP!TypeOK, PP!Kinds
<1> QED
  BY <1>2, <1>3

\* The entry to the response leaves the request and its verdict alone.
LEMMA ResponseEntered ==
  ASSUME PP!CInv, NEW b \in Buffers, P!ParseResponse(b)
  PROVE  /\ PP!CInv' /\ input'["resp"] = b
         /\ input'["req"] = input["req"] /\ status'["req"] = status["req"]
<1>1. PP!ParseResponse(b)
  BY SameEntries
<1>2. PP!CInv'
  BY <1>1, ParserAssumptions, PP!ContractStep DEF PP!Next, PP!Call, Buffers
<1>3. /\ input' = [input EXCEPT !["resp"] = b] /\ status' = [status EXCEPT !["resp"] = "parsing"]
      /\ input \in [{"req", "resp"} -> Seq(PP!Octet)]
      /\ DOMAIN status = {"req", "resp"}
  BY <1>1 DEF PP!ParseResponse, PP!Enter, PP!CInv, PP!IInv, PP!TypeOK, PP!Kinds
<1> QED
  BY <1>2, <1>3

\* A step that leaves the parser alone leaves its invariant.
LEMMA ParserAlone ==
  ASSUME PP!CInv, UNCHANGED parser
  PROVE  PP!CInv' /\ input' = input /\ status' = status
<1>1. UNCHANGED PP!vars
  BY DEF parser, PP!vars
<1>2. PP!CInv'
  BY <1>1, ParserAssumptions, PP!ContractStep
<1> QED
  BY <1>2 DEF parser

\* Products of naturals grow with each factor.
LEMMA ProductBound ==
  ASSUME NEW t \in Nat, NEW d \in Nat, NEW r \in Nat, t <= d
  PROVE  t * r \in 0..(r * d)
<1> DEFINE u == d - t
<1>1. u \in Nat /\ d = t + u
  OBVIOUS
<1> HIDE DEF u
<1>2. r * d = t * r + u * r
  BY <1>1
<1>3. t * r \in Nat /\ u * r \in Nat
  BY <1>1
<1> QED
  BY <1>2, <1>3

\* The driver starts before its first pair.
LEMMA TurnInit == Init => TInv
<1> SUFFICES ASSUME Init PROVE TInv
  OBVIOUS
<1>1. PP!CInv
  BY SameStates, ParserAssumptions, PP!ContractInit DEF Init
<1>2. Rate * Duration \in Nat
  BY RateAssumption, DurationAssumption
<1>3. Counters
  <2>1. <<>> \in Seq(Octet)
    OBVIOUS
  <2> QED
    BY <1>2, <2>1 DEF Init, Counters, Nothing
<1> QED
  BY <1>1, <1>3, InitEstablishes DEF Init, TInv, Turn

\* Every step of the driver and of its parser.
LEMMA TurnStep == TInv /\ [Next]_vars => TInv'
<1> SUFFICES ASSUME TInv, [Next]_vars PROVE TInv'
  OBVIOUS
<1>1. /\ PP!CInv /\ IInv /\ Counters /\ Turn /\ IInv'
      /\ done \in Nat
  BY StepKeeps DEF TInv, IInv, InRange
<1>2. ASSUME UNCHANGED parser, pair' = pair, should' = should,
             failed' \in 0..done',
             pc' \in {"request", "response"} => pc' = pc
      PROVE  TInv'
  <2>1. PP!CInv' /\ input' = input /\ status' = status
    BY <1>1, <1>2, ParserAlone
  <2> QED
    BY <1>1, <1>2, <2>1 DEF TInv, Counters, Turn
<1>3. CASE Tick
  BY <1>1, <1>2, <1>3 DEF Tick, Counters
<1>4. CASE ReadTime
  <2>1. CASE pc' = "stopped"
    BY <1>1, <1>2, <1>4, <2>1 DEF ReadTime, Counters
  <2>2. CASE pc' # "stopped"
    <3>1. /\ should' = clock * Rate /\ pc' = "loop"
          /\ UNCHANGED <<parser, done, failed, pair>>
      BY <1>4, <2>2 DEF ReadTime
    <3>2. clock * Rate \in 0..(Rate * Duration)
      BY <1>1, RateAssumption, DurationAssumption, ProductBound DEF IInv, InRange
    <3>3. PP!CInv'
      BY <1>1, <3>1, ParserAlone
    <3>4. Counters' /\ Turn'
      BY <1>1, <3>1, <3>2 DEF Counters, Turn
    <3> QED
      BY <1>1, <3>3, <3>4 DEF TInv
  <2> QED
    BY <2>1, <2>2
<1>5. CASE CaughtUp
  BY <1>1, <1>2, <1>5 DEF CaughtUp, Counters
<1>6. ASSUME NEW q \in Pairs, NEW tagged \in BOOLEAN, StartPair(q, tagged)
      PROVE  TInv'
  <2>1. /\ P!ParseRequest(q.req) /\ pc' = "request"
        /\ pair' = [req |-> q.req, resp |-> q.resp, tagged |-> tagged]
        /\ UNCHANGED <<should, done, failed>>
    BY <1>6 DEF StartPair
  <2>2. /\ q.req \in Buffers /\ q.resp \in Buffers
        /\ q.req \in Seq(Octet) /\ q.resp \in Seq(Octet)
    BY PairsAssumption DEF Buffers
  <2>3. PP!CInv' /\ input'["req"] = q.req
    BY <1>1, <2>1, <2>2, RequestEntered
  <2>4. Counters' /\ Turn'
    BY <1>1, <2>1, <2>2, <2>3 DEF Counters, Turn
  <2> QED
    BY <1>1, <2>3, <2>4 DEF TInv
<1>7. CASE Parsing
  <2>1. P!Parse /\ pc' = pc /\ UNCHANGED <<should, done, failed, pair>>
    BY <1>7 DEF Parsing, driver
  <2>2. /\ PP!CInv' /\ input' = input
        /\ status["req"] = "ok" => status'["req"] = "ok"
    BY <1>1, <2>1, ParserStep
  <2>3. Counters' /\ Turn'
    BY <1>1, <2>1, <2>2 DEF Counters, Turn
  <2> QED
    BY <1>1, <2>2, <2>3 DEF TInv
<1>8. CASE RequestParsed
  <2>1. /\ P!ParseResponse(pair.resp) /\ pc = "request" /\ pc' = "response"
        /\ status["req"] = "ok"
        /\ UNCHANGED <<should, done, failed, pair>>
    BY <1>8 DEF RequestParsed, Succeeded
  <2>2. pair.resp \in Buffers /\ input["req"] = pair.req
    BY <1>1, <2>1 DEF Turn
  <2>3. /\ PP!CInv' /\ input'["resp"] = pair.resp
        /\ input'["req"] = input["req"] /\ status'["req"] = status["req"]
    BY <1>1, <2>1, <2>2, ResponseEntered
  <2>4. Counters' /\ Turn'
    BY <1>1, <2>1, <2>2, <2>3 DEF Counters, Turn
  <2> QED
    BY <1>1, <2>3, <2>4 DEF TInv
<1>9. CASE RequestFailed
  <2>1. failed' \in 0..done'
    BY <1>1, <1>9 DEF RequestFailed, Fail, EndPair, Counters
  <2> QED
    BY <1>2, <1>9, <2>1 DEF RequestFailed, Fail, EndPair
<1>10. CASE ResponseFailed
  <2>1. failed' \in 0..done'
    BY <1>1, <1>10 DEF ResponseFailed, Fail, EndPair, Counters
  <2> QED
    BY <1>2, <1>10, <2>1 DEF ResponseFailed, Fail, EndPair
<1>11. CASE ResponseParsed
  <2>1. failed' \in 0..done'
    BY <1>1, <1>11 DEF ResponseParsed, EndPair, Counters
  <2> QED
    BY <1>2, <1>11, <2>1 DEF ResponseParsed, EndPair
<1>12. CASE UNCHANGED vars
  BY <1>1, <1>2, <1>12 DEF vars, driver, Counters
<1> QED
  BY <1>3, <1>4, <1>5, <1>6, <1>7, <1>8, <1>9, <1>10, <1>11, <1>12 DEF Next, Main

\* What the parser returned is the verdict on the buffers of the pair.
LEMMA TurnVerdict ==
  ASSUME TInv
  PROVE  /\ pc \in {"request", "response"} /\ Returned("req") =>
              (status["req"] = "ok" <=> P!WellFormedRequest(pair.req))
         /\ pc = "response" /\ Returned("resp") =>
              (status["resp"] = "ok" <=> P!WellFormedResponse(pair.resp))
<1>1. PP!Verdict /\ PP!NeverPanics /\ Turn
  BY DEF TInv, PP!CInv, PP!IInv
<1>2. \A k \in {"req", "resp"} :
        /\ status[k] # "panic"
        /\ status[k] = "ok" => PP!WellFormed(k, input[k])
        /\ status[k] = "malformed" => ~ PP!WellFormed(k, input[k])
  BY <1>1 DEF PP!Verdict, PP!NeverPanics, PP!Kinds
<1>3. ASSUME Returned("req"), pc \in {"request", "response"}
      PROVE  status["req"] = "ok" <=> P!WellFormedRequest(pair.req)
  BY <1>1, <1>2, <1>3, SameMessages DEF Returned, Turn, PP!WellFormed
<1>4. ASSUME Returned("resp"), pc = "response"
      PROVE  status["resp"] = "ok" <=> P!WellFormedResponse(pair.resp)
  BY <1>1, <1>2, <1>4, SameMessages DEF Returned, Turn, PP!WellFormed
<1> QED
  BY <1>3, <1>4

\* Type correctness of the driver and of the parser it uses, for every set of
\* pairs, rate and duration.
THEOREM TypeCorrect == Spec => []TypeOK
<1>1. TInv => TypeOK
  BY SameStates DEF TInv, PP!CInv, PP!IInv, IInv, InRange, Counters, TypeOK
<1> QED
  BY <1>1, TurnInit, TurnStep, PTL DEF Spec

\* A pair counts as failed exactly when one of its buffers is no message of the
\* grammar, and is encoded otherwise (orchestrate/main.go:96-107): the verdict of
\* the parser is that of the grammar, and it is about this pair.
THEOREM FailuresAreMalformed == Spec => FailsWhenMalformed
<1> DEFINE good == P!WellFormedRequest(pair.req) /\ P!WellFormedResponse(pair.resp)
           Right == done' # done =>
                      /\ failed' = failed + (IF good THEN 0 ELSE 1)
                      /\ good => encoded'.pair = pair
<1>1. TInv /\ [Next]_vars => [Right]_vars
  <2> SUFFICES ASSUME TInv, Next, done' # done
               PROVE  /\ failed' = failed + (IF good THEN 0 ELSE 1)
                      /\ good => encoded'.pair = pair
    BY DEF vars
  <2>1. failed \in Nat
    BY DEF TInv, Counters
  <2>2. RequestFailed \/ ResponseFailed \/ ResponseParsed
    BY DEF Next, Main, Tick, ReadTime, CaughtUp, StartPair, Parsing, driver, RequestParsed
  <2>3. CASE RequestFailed
    <3>1. ~ good /\ failed' = failed + 1
      BY <2>3, TurnVerdict DEF RequestFailed, Succeeded, Fail
    <3> QED
      BY <3>1
  <2>4. CASE ResponseFailed
    <3>1. ~ good /\ failed' = failed + 1
      BY <2>4, TurnVerdict DEF ResponseFailed, Succeeded, Fail
    <3> QED
      BY <3>1
  <2>5. CASE ResponseParsed
    <3>1. /\ failed' = failed /\ encoded'.pair = pair
          /\ pc = "response" /\ Returned("resp") /\ status["resp"] = "ok"
      BY <2>5 DEF ResponseParsed, Succeeded
    <3>2. status["req"] = "ok" /\ Returned("req")
      BY <3>1 DEF TInv, Turn, Returned
    <3>3. good
      BY <3>1, <3>2, TurnVerdict
    <3> HIDE DEF good
    <3> QED
      BY <2>1, <3>1, <3>3
  <2> QED
    BY <2>2, <2>3, <2>4, <2>5
<1> QED
  BY <1>1, TurnInit, TurnStep, PTL DEF Spec, FailsWhenMalformed

----------------------------------------------------------------------------
(***************************************************************************)
(* The reader of payloads.  Strings and Payload choose a function that     *)
(* calls itself further on in the tokens: there is one, and it reads as    *)
(* they say.                                                               *)
(***************************************************************************)
\* A set of naturals that is not empty has a least element.
LEMMA LeastElement ==
  ASSUME NEW T, T \subseteq Nat, T # {}
  PROVE  \E x \in T : \A y \in T : x <= y
<1>1. PICK x \in T : \A y \in T : <<y, x>> \notin OpToRel(<, Nat)
  BY NatLessThanWellFounded, WFMin
<1>2. \A y \in T : ~ (y < x)
  BY <1>1 DEF OpToRel
<1> QED
  BY <1>2

\* What a reader returns, with one more member in front.
Put(m, rest) == [rest EXCEPT !.members = <<m>> \o @]

\* F stops at p with out[p], or puts item[p] before what it finds at next[p].
Chained(n, stop, out, item, next, F) ==
  F = [p \in 1..n |-> IF p \in stop THEN out[p] ELSE Put(item[p], F[next[p]])]

\* There is a function that does so.
LEMMA ChainExists ==
  ASSUME NEW n \in Nat, NEW stop, NEW out, NEW item, NEW next,
         \A p \in 1..n : p \notin stop => next[p] \in (p + 1)..n
  PROVE  \E F : Chained(n, stop, out, item, next, F)
<1> DEFINE D(k) == {p \in 1..n : n - p < k}
           R(F, k) == F = [p \in D(k) |-> IF p \in stop THEN out[p]
                                          ELSE Put(item[p], F[next[p]])]
           T == {k \in Nat : ~ \E F : R(F, k)}
<1>1. 0 \notin T
  <2> DEFINE F == [p \in {} |-> 0]
  <2>1. D(0) = {}
    OBVIOUS
  <2>2. R(F, 0)
    BY <2>1
  <2> HIDE DEF R
  <2> QED
    BY <2>2
<1>2. ASSUME NEW k \in Nat, k \notin T
      PROVE  k + 1 \notin T
  <2>1. PICK F : R(F, k)
    BY <1>2
  <2> DEFINE G == [p \in D(k + 1) |->
                     IF p \in D(k) THEN F[p]
                     ELSE IF p \in stop THEN out[p] ELSE Put(item[p], F[next[p]])]
  <2>2. ASSUME NEW p \in D(k + 1), p \notin stop
        PROVE  next[p] \in D(k)
    <3>1. next[p] \in (p + 1)..n
      BY <2>2
    <3> QED
      BY <3>1
  <2>3. D(k) \subseteq D(k + 1)
    OBVIOUS
  <2> HIDE DEF D
  <2>4. \A p \in D(k + 1) :
          G[p] = IF p \in stop THEN out[p] ELSE Put(item[p], G[next[p]])
    <3> SUFFICES ASSUME NEW p \in D(k + 1)
                 PROVE  G[p] = IF p \in stop THEN out[p] ELSE Put(item[p], G[next[p]])
      OBVIOUS
    <3>1. CASE p \in stop
      BY <2>1, <3>1
    <3>2. CASE p \notin stop
      <4>1. next[p] \in D(k) /\ G[next[p]] = F[next[p]]
        BY <2>2, <2>3, <3>2
      <4>2. G[p] = Put(item[p], F[next[p]])
        BY <2>1, <3>2
      <4> QED
        BY <3>2, <4>1, <4>2
    <3> QED
      BY <3>1, <3>2
  <2>5. R(G, k + 1)
    BY <2>4
  <2> HIDE DEF R
  <2> QED
    BY <2>5
<1> HIDE DEF R
<1>3. T = {}
  <2> SUFFICES ASSUME T # {} PROVE FALSE
    OBVIOUS
  <2>1. PICK k \in T : \A m \in T : k <= m
    BY LeastElement
  <2>2. k \in Nat /\ k # 0
    BY <1>1, <2>1
  <2>3. k - 1 \in Nat /\ k - 1 \notin T
    BY <2>1, <2>2
  <2> HIDE DEF T
  <2>4. (k - 1) + 1 \notin T
    BY <1>2, <2>3
  <2> QED
    BY <2>1, <2>2, <2>4
<1>4. D(n) = 1..n
  OBVIOUS
<1> HIDE DEF D
<1>5. PICK F : R(F, n)
  BY <1>3
<1> QED
  BY <1>4, <1>5 DEF R, Chained

\* A record of what a reader returns, and that it has gone on from p.
Answer(r) == r = [ok |-> r.ok, members |-> r.members, next |-> r.next]

GoesOn(r, p, n) == Answer(r) /\ (r.ok => r.next \in (p + 1)..n)

\* A member in front changes neither the verdict nor the end.
LEMMA PutAnswers ==
  ASSUME NEW m, NEW r, Answer(r)
  PROVE  Put(m, r) = [ok |-> r.ok, members |-> <<m>> \o r.members, next |-> r.next]
<1> DEFINE o == r.ok
           s == r.members
           x == r.next
<1>1. r = [ok |-> o, members |-> s, next |-> x]
  BY DEF Answer
<1> HIDE DEF o, s, x
<1> DEFINE u == [ok |-> o, members |-> s, next |-> x]
           w == <<m>> \o s
<1>2. u.members = s /\ [u EXCEPT !.members = w] = [ok |-> o, members |-> w, next |-> x]
  <2> HIDE DEF w
  <2> QED
    OBVIOUS
<1>3. Put(m, u) = [u EXCEPT !.members = <<m>> \o u.members]
  BY DEF Put
<1> HIDE DEF u
<1>4. Put(m, r) = [ok |-> o, members |-> <<m>> \o s, next |-> x]
  BY <1>1, <1>2, <1>3 DEF u
<1> QED
  BY <1>4 DEF o, s, x

\* A reader that goes on wherever it stops goes on.
LEMMA ChainGoesOn ==
  ASSUME NEW n \in Nat, NEW stop, NEW out, NEW item, NEW next, NEW F, NEW last \in Nat,
         Chained(n, stop, out, item, next, F),
         \A p \in 1..n : p \notin stop => next[p] \in (p + 1)..n,
         \A p \in 1..n : p \in stop => GoesOn(out[p], p, last)
  PROVE  \A p \in 1..n : GoesOn(F[p], p, last)
<1> DEFINE T == {k \in 0..n : n - k \in 1..n /\ ~ GoesOn(F[n - k], n - k, last)}
<1> SUFFICES ASSUME T # {} PROVE FALSE
  <2> SUFFICES ASSUME NEW p \in 1..n PROVE GoesOn(F[p], p, last)
    OBVIOUS
  <2> DEFINE k == n - p
  <2>1. k \in 0..n /\ n - k = p
    OBVIOUS
  <2> HIDE DEF k
  <2> QED
    BY <2>1
<1>1. PICK k \in T : \A m \in T : k <= m
  <2>1. T \subseteq Nat
    OBVIOUS
  <2> HIDE DEF T
  <2> QED
    BY <2>1, LeastElement
<1> DEFINE p == n - k
<1>2. p \in 1..n /\ k \in 0..n /\ k = n - p /\ ~ GoesOn(F[p], p, last)
  BY <1>1
<1>3. p \notin stop
  BY <1>2 DEF Chained
<1> DEFINE q == next[p]
<1>4. q \in (p + 1)..n /\ F[p] = Put(item[p], F[q])
  BY <1>2, <1>3 DEF Chained
<1>5. GoesOn(F[q], q, last)
  <2> DEFINE m == n - q
  <2>1. m \in 0..n /\ m < k /\ n - m = q /\ q \in 1..n
    <3> HIDE DEF p, q
    <3> QED
      BY <1>2, <1>4
  <2>2. m \notin T
    <3> HIDE DEF m, T, p, q
    <3> QED
      BY <1>1, <1>2, <2>1
  <2> HIDE DEF m, p, q
  <2> QED
    BY <2>1, <2>2
<1> HIDE DEF T, p, q
<1> DEFINE r == F[q]
<1>6. Put(item[p], r) = [ok |-> r.ok, members |-> <<item[p]>> \o r.members, next |-> r.next]
  BY <1>5, PutAnswers DEF GoesOn
<1>7. r.ok => r.next \in (p + 1)..last
  <2>1. r.ok => r.next \in (q + 1)..last
    BY <1>5 DEF GoesOn
  <2> HIDE DEF r
  <2> QED
    BY <2>1, <1>2, <1>4
<1> HIDE DEF r
<1>8. GoesOn(F[p], p, last)
  BY <1>4, <1>6, <1>7 DEF GoesOn, Answer, r
<1> QED
  BY <1>2, <1>8

\* A comma goes on with the rest, a brace does not.
Stopping(t, p, m) ==
  IF TokenAt(t, p) = Punct("rbrace") THEN [ok |-> TRUE, members |-> <<m>>, next |-> p + 1]
  ELSE NoObject

\* After a member the reader stops or, at a comma, goes on with the next one.
LEMMA Followed ==
  ASSUME NEW t, NEW p, NEW m, NEW rest
  PROVE  Following(t, p, m, rest)
         = IF TokenAt(t, p) = Punct("comma") THEN Put(m, rest) ELSE Stopping(t, p, m)
<1>1. Punct("comma") # Punct("rbrace")
  BY DEF Punct
<1> QED
  BY <1>1 DEF Following, Put, Stopping

\* Where a reader stops at a closing brace or at no member, it goes on.
LEMMA StoppingGoesOn ==
  ASSUME NEW t, Len(t) \in Nat, NEW p \in Nat, NEW q \in Nat, NEW m, q > p
  PROVE  /\ GoesOn(NoObject, p, Len(t) + 1)
         /\ GoesOn(Stopping(t, q, m), p, Len(t) + 1)
<1>1. GoesOn(NoObject, p, Len(t) + 1)
  BY DEF GoesOn, Answer, NoObject
<1>2. Punct("end") # Punct("rbrace")
  BY DEF Punct
<1>3. CASE TokenAt(t, q) = Punct("rbrace")
  <2>1. q \in 1..Len(t)
    BY <1>2, <1>3 DEF TokenAt
  <2>2. Stopping(t, q, m) = [ok |-> TRUE, members |-> <<m>>, next |-> q + 1]
    BY <1>3 DEF Stopping
  <2>3. q + 1 \in (p + 1)..(Len(t) + 1)
    BY <2>1
  <2> DEFINE r == [ok |-> TRUE, members |-> <<m>>, next |-> q + 1]
  <2>4. Answer(r) /\ r.next = q + 1
    BY DEF Answer
  <2> HIDE DEF r
  <2> QED
    BY <1>1, <2>2, <2>3, <2>4 DEF GoesOn, r
<1>4. CASE TokenAt(t, q) # Punct("rbrace")
  BY <1>1, <1>4 DEF Stopping
<1> QED
  BY <1>1, <1>3, <1>4

\* A comma is a token of t.
LEMMA CommaInside ==
  ASSUME NEW t, NEW p, TokenAt(t, p) = Punct("comma")
  PROVE  p \in 1..Len(t)
BY DEF TokenAt, Punct

----------------------------------------------------------------------------
\* The reader of an object of strings.
NoPair(t, p) ==
  p > Len(t) \/ ~IsName(TokenAt(t, p)) \/ TokenAt(t, p + 1) # Punct("colon")
    \/ ~IsString(TokenAt(t, p + 2))

StringsRec(t, S) ==
  S = [p \in 1..(Len(t) + 5) |->
        IF p > Len(t) \/ ~IsName(TokenAt(t, p)) \/ TokenAt(t, p + 1) # Punct("colon")
             \/ ~IsString(TokenAt(t, p + 2))
        THEN NoObject
        ELSE Following(t, p + 3, <<t[p], t[p + 2]>>, S[p + 4])]

StringsFrom(t) == CHOOSE S : StringsRec(t, S)

\* The reader of objects of strings, with its function by name.
LEMMA StringsIsChosen ==
  ASSUME NEW t, NEW start
  PROVE  Strings(t, start) =
           CASE TokenAt(t, start) # Punct("lbrace") -> NoObject
             [] TokenAt(t, start + 1) = Punct("rbrace") /\ TokenAt(t, start) = Punct("lbrace") ->
                  [ok |-> TRUE, members |-> <<>>, next |-> start + 2]
             [] OTHER -> StringsFrom(t)[start + 1]
BY DEF Strings, StringsFrom, StringsRec

\* It reads pair after pair and goes on.
LEMMA StringsUnfold ==
  ASSUME NEW t, Len(t) \in Nat
  PROVE  \A p \in 1..(Len(t) + 5) :
           /\ StringsFrom(t)[p] =
                IF NoPair(t, p) THEN NoObject
                ELSE Following(t, p + 3, <<t[p], t[p + 2]>>, StringsFrom(t)[p + 4])
           /\ GoesOn(StringsFrom(t)[p], p, Len(t) + 1)
<1> DEFINE n == Len(t) + 5
           last == Len(t) + 1
           stop == {p \in 1..n : NoPair(t, p) \/ TokenAt(t, p + 3) # Punct("comma")}
           item == [p \in 1..n |-> <<t[p], t[p + 2]>>]
           out == [p \in 1..n |-> IF NoPair(t, p) THEN NoObject
                                  ELSE Stopping(t, p + 3, item[p])]
           next == [p \in 1..n |-> p + 4]
           Rec(F) == Chained(n, stop, out, item, next, F)
<1>1. n \in Nat /\ last \in Nat
  OBVIOUS
<1>2. \A p \in 1..n : p \notin stop => next[p] \in (p + 1)..n
  <2> DEFINE l == Len(t)
  <2>1. ASSUME NEW p \in 1..n, p \notin stop
        PROVE  next[p] \in (p + 1)..n
    <3>1. TokenAt(t, p + 3) = Punct("comma") /\ next[p] = p + 4
      BY <2>1
    <3> HIDE DEF stop, out, item, next
    <3>2. p + 3 \in 1..l
      BY <3>1, CommaInside
    <3>3. l \in Nat /\ p \in Nat /\ n = l + 5
      OBVIOUS
    <3> HIDE DEF l
    <3>4. p + 4 \in (p + 1)..(l + 5)
      BY <3>2, <3>3
    <3> QED
      BY <3>1, <3>3, <3>4
  <2> QED
    BY <2>1
<1>3. \A p \in 1..n : p \in stop => GoesOn(out[p], p, last)
  <2> SUFFICES ASSUME NEW p \in 1..n PROVE GoesOn(out[p], p, last)
    OBVIOUS
  <2>1. p \in Nat /\ p + 3 \in Nat /\ p + 3 > p
    OBVIOUS
  <2>2. GoesOn(NoObject, p, last) /\ GoesOn(Stopping(t, p + 3, item[p]), p, last)
    BY <2>1, StoppingGoesOn
  <2>3. out[p] = IF NoPair(t, p) THEN NoObject ELSE Stopping(t, p + 3, item[p])
    OBVIOUS
  <2> HIDE DEF out
  <2> QED
    BY <2>2, <2>3
<1>4. \A F : Rec(F) <=> StringsRec(t, F)
  <2> SUFFICES ASSUME NEW F PROVE Rec(F) <=> StringsRec(t, F)
    OBVIOUS
  <2>1. \A p \in 1..n :
          (IF p \in stop THEN out[p] ELSE Put(item[p], F[next[p]]))
          = (IF NoPair(t, p) THEN NoObject
             ELSE Following(t, p + 3, <<t[p], t[p + 2]>>, F[p + 4]))
    <3> SUFFICES ASSUME NEW p \in 1..n
                 PROVE  (IF p \in stop THEN out[p] ELSE Put(item[p], F[next[p]]))
                        = (IF NoPair(t, p) THEN NoObject
                           ELSE Following(t, p + 3, <<t[p], t[p + 2]>>, F[p + 4]))
      OBVIOUS
    <3>1. Following(t, p + 3, item[p], F[p + 4])
          = IF TokenAt(t, p + 3) = Punct("comma") THEN Put(item[p], F[p + 4])
            ELSE Stopping(t, p + 3, item[p])
      BY Followed
    <3>2. item[p] = <<t[p], t[p + 2]>> /\ next[p] = p + 4
      OBVIOUS
    <3>3. out[p] = IF NoPair(t, p) THEN NoObject ELSE Stopping(t, p + 3, item[p])
      OBVIOUS
    <3>4. p \in stop <=> NoPair(t, p) \/ TokenAt(t, p + 3) # Punct("comma")
      OBVIOUS
    <3> HIDE DEF out, item, next, stop
    <3> QED
      BY <3>1, <3>2, <3>3, <3>4
  <2>2. StringsRec(t, F) <=>
          F = [p \in 1..n |-> IF NoPair(t, p) THEN NoObject
                              ELSE Following(t, p + 3, <<t[p], t[p + 2]>>, F[p + 4])]
    BY DEF StringsRec, NoPair
  <2> HIDE DEF stop, out, item, next
  <2> QED
    BY <2>1, <2>2 DEF Chained
<1>5. \E F : Rec(F)
  <2> HIDE DEF n, stop, out, item, next
  <2> QED
    BY <1>1, <1>2, ChainExists
<1> DEFINE S == StringsFrom(t)
<1>6. StringsRec(t, S) /\ Rec(S)
  <2> HIDE DEF Rec
  <2> QED
    BY <1>4, <1>5 DEF StringsFrom
<1>7. \A p \in 1..n : GoesOn(S[p], p, last)
  <2> HIDE DEF n, stop, out, item, next, S, last
  <2> QED
    BY <1>1, <1>2, <1>3, <1>6, ChainGoesOn
<1> HIDE DEF S
<1>8. \A p \in 1..n :
        S[p] = IF NoPair(t, p) THEN NoObject
               ELSE Following(t, p + 3, <<t[p], t[p + 2]>>, S[p + 4])
  BY <1>6 DEF StringsRec, NoPair
<1> QED
  BY <1>7, <1>8 DEF S

\* An object of strings ends inside t.
LEMMA StringsGoOn ==
  ASSUME NEW t, Len(t) \in Nat, NEW start \in Nat
  PROVE  GoesOn(Strings(t, start), start, Len(t) + 1)
<1>0. Punct("lbrace") # Punct("end") /\ Punct("rbrace") # Punct("end")
  BY DEF Punct
<1>1. CASE TokenAt(t, start) # Punct("lbrace")
  <2>1. Strings(t, start) = NoObject
    BY <1>1, StringsIsChosen
  <2> QED
    BY <2>1 DEF GoesOn, Answer, NoObject
<1>2. CASE TokenAt(t, start) = Punct("lbrace") /\ TokenAt(t, start + 1) = Punct("rbrace")
  <2>1. Strings(t, start) = [ok |-> TRUE, members |-> <<>>, next |-> start + 2]
    BY <1>2, StringsIsChosen
  <2>2. start + 1 \in 1..Len(t)
    BY <1>0, <1>2 DEF TokenAt
  <2>3. start + 2 \in (start + 1)..(Len(t) + 1)
    BY <2>2
  <2> QED
    BY <2>1, <2>3 DEF GoesOn, Answer
<1>3. CASE TokenAt(t, start) = Punct("lbrace") /\ TokenAt(t, start + 1) # Punct("rbrace")
  <2>1. Strings(t, start) = StringsFrom(t)[start + 1]
    BY <1>3, StringsIsChosen
  <2>2. start \in 1..Len(t)
    BY <1>0, <1>3 DEF TokenAt
  <2>3. start + 1 \in 1..(Len(t) + 5)
    BY <2>2
  <2> DEFINE r == StringsFrom(t)[start + 1]
  <2>4. GoesOn(r, start + 1, Len(t) + 1)
    BY <2>3, StringsUnfold
  <2> HIDE DEF r
  <2>5. r.ok => r.next \in (start + 1)..(Len(t) + 1)
    <3>1. r.ok => r.next \in (start + 1 + 1)..(Len(t) + 1)
      BY <2>4 DEF GoesOn
    <3> QED
      BY <3>1
  <2> QED
    BY <2>1, <2>4, <2>5 DEF r, GoesOn
<1> QED
  BY <1>1, <1>2, <1>3

\* The reader of a payload.
NoMember(t, p) ==
  p > Len(t) \/ ~IsName(TokenAt(t, p)) \/ TokenAt(t, p + 1) # Punct("colon")

PayloadRec(t, S) ==
  S = [p \in 1..(Len(t) + 5) |->
        IF p > Len(t) \/ ~IsName(TokenAt(t, p)) \/ TokenAt(t, p + 1) # Punct("colon")
        THEN NoObject
        ELSE IF IsString(TokenAt(t, p + 2))
        THEN Following(t, p + 3, <<t[p], t[p + 2]>>, S[p + 4])
        ELSE LET inner == Strings(t, p + 2)
             IN  IF inner.ok
                 THEN Following(t, inner.next, <<t[p], inner.members>>, S[inner.next + 1])
                 ELSE NoObject]

PayloadFrom(t) == CHOOSE S : PayloadRec(t, S)

\* The reader of payloads, with its function by name.
LEMMA PayloadIsChosen ==
  ASSUME NEW t
  PROVE  LET all == PayloadFrom(t)[2]
         IN  Payload(t) = IF TokenAt(t, 1) = Punct("lbrace") /\ all.ok /\ all.next = Len(t) + 1
                          THEN all.members
                          ELSE <<>>
BY DEF Payload, PayloadFrom, PayloadRec

\* It reads member after member.
LEMMA PayloadUnfold ==
  ASSUME NEW t, Len(t) \in Nat
  PROVE  \A p \in 1..(Len(t) + 5) :
           PayloadFrom(t)[p] =
             IF NoMember(t, p) THEN NoObject
             ELSE IF IsString(TokenAt(t, p + 2))
             THEN Following(t, p + 3, <<t[p], t[p + 2]>>, PayloadFrom(t)[p + 4])
             ELSE IF Strings(t, p + 2).ok
             THEN Following(t, Strings(t, p + 2).next, <<t[p], Strings(t, p + 2).members>>,
                            PayloadFrom(t)[Strings(t, p + 2).next + 1])
             ELSE NoObject
<1> DEFINE n == Len(t) + 5
           l == Len(t)
           inner(p) == Strings(t, p + 2)
           No(p) == NoMember(t, p) \/ (~IsString(TokenAt(t, p + 2)) /\ ~inner(p).ok)
           end == [p \in 1..n |-> IF IsString(TokenAt(t, p + 2)) THEN p + 3 ELSE inner(p).next]
           stop == {p \in 1..n : No(p) \/ TokenAt(t, end[p]) # Punct("comma")}
           item == [p \in 1..n |-> <<t[p], IF IsString(TokenAt(t, p + 2)) THEN t[p + 2]
                                           ELSE inner(p).members>>]
           out == [p \in 1..n |-> IF No(p) THEN NoObject ELSE Stopping(t, end[p], item[p])]
           next == [p \in 1..n |-> end[p] + 1]
           Rec(F) == Chained(n, stop, out, item, next, F)
           Body(F, p) == IF NoMember(t, p) THEN NoObject
                         ELSE IF IsString(TokenAt(t, p + 2))
                         THEN Following(t, p + 3, <<t[p], t[p + 2]>>, F[p + 4])
                         ELSE IF inner(p).ok
                         THEN Following(t, inner(p).next, <<t[p], inner(p).members>>,
                                        F[inner(p).next + 1])
                         ELSE NoObject
<1>1. n \in Nat /\ l \in Nat /\ n = l + 5
  OBVIOUS
<1>2. \A p \in 1..n : p \notin stop => next[p] \in (p + 1)..n
  <2>1. ASSUME NEW p \in 1..n, p \notin stop
        PROVE  next[p] \in (p + 1)..n
    <3>1. TokenAt(t, end[p]) = Punct("comma") /\ next[p] = end[p] + 1 /\ ~ No(p)
      BY <2>1
    <3>2. end[p] = IF IsString(TokenAt(t, p + 2)) THEN p + 3 ELSE inner(p).next
      OBVIOUS
    <3> HIDE DEF stop, out, item, next, end
    <3>3. end[p] \in 1..l
      BY <3>1, CommaInside
    <3>4. p \in Nat /\ p + 2 \in Nat
      BY <1>1
    <3>5. end[p] > p
      <4>1. CASE IsString(TokenAt(t, p + 2))
        BY <3>2, <3>4, <4>1
      <4>2. CASE ~ IsString(TokenAt(t, p + 2))
        <5>1. inner(p).ok
          BY <3>1, <4>2
        <5> DEFINE q == p + 2
                   r == Strings(t, q)
        <5>2. GoesOn(r, q, Len(t) + 1) /\ r.ok /\ q = p + 2 /\ r.next = end[p]
          BY <3>2, <3>4, <4>2, <5>1, StringsGoOn
        <5> HIDE DEF q, r
        <5>3. end[p] \in (q + 1)..(Len(t) + 1)
          BY <5>2 DEF GoesOn
        <5> QED
          BY <3>4, <5>2, <5>3
      <4> QED
        BY <4>1, <4>2
    <3> DEFINE e == end[p]
    <3>6. e \in 1..l /\ e > p /\ next[p] = e + 1
      BY <3>1, <3>3, <3>5
    <3> HIDE DEF l, n, e
    <3>7. e + 1 \in (p + 1)..n
      BY <1>1, <3>4, <3>6
    <3> QED
      BY <3>6, <3>7
  <2> QED
    BY <2>1
<1>3. \A F : \A p \in 1..n :
        (IF p \in stop THEN out[p] ELSE Put(item[p], F[next[p]])) = Body(F, p)
  <2> SUFFICES ASSUME NEW F, NEW p \in 1..n
               PROVE  (IF p \in stop THEN out[p] ELSE Put(item[p], F[next[p]])) = Body(F, p)
    OBVIOUS
  <2>1. Following(t, end[p], item[p], F[next[p]])
        = IF TokenAt(t, end[p]) = Punct("comma") THEN Put(item[p], F[next[p]])
          ELSE Stopping(t, end[p], item[p])
    BY Followed
  <2>2. p \in stop <=> No(p) \/ TokenAt(t, end[p]) # Punct("comma")
    OBVIOUS
  <2>3. out[p] = IF No(p) THEN NoObject ELSE Stopping(t, end[p], item[p])
    OBVIOUS
  <2>4. (IF p \in stop THEN out[p] ELSE Put(item[p], F[next[p]]))
        = IF No(p) THEN NoObject ELSE Following(t, end[p], item[p], F[next[p]])
    <3> HIDE DEF out, item, next, stop, end, No
    <3> QED
      BY <2>1, <2>2, <2>3
  <2>5. Body(F, p) = IF No(p) THEN NoObject ELSE Following(t, end[p], item[p], F[next[p]])
    <3>1. CASE IsString(TokenAt(t, p + 2))
      <4>1. end[p] = p + 3 /\ item[p] = <<t[p], t[p + 2]>> /\ next[p] = p + 4
        <5>1. end[p] = p + 3 /\ item[p] = <<t[p], t[p + 2]>> /\ next[p] = end[p] + 1
          BY <3>1
        <5>2. p \in Nat
          BY <1>1
        <5> HIDE DEF end, next, item
        <5> QED
          BY <5>1, <5>2
      <4> HIDE DEF end, next, item
      <4> QED
        BY <3>1, <4>1
    <3>2. CASE ~ IsString(TokenAt(t, p + 2))
      <4>1. /\ end[p] = inner(p).next /\ item[p] = <<t[p], inner(p).members>>
            /\ next[p] = inner(p).next + 1
        BY <3>2
      <4> HIDE DEF end, next, item, inner
      <4> QED
        BY <3>2, <4>1
    <3> QED
      BY <3>1, <3>2
  <2> QED
    BY <2>4, <2>5
<1>4. \A F : Rec(F) <=> PayloadRec(t, F)
  <2> SUFFICES ASSUME NEW F PROVE Rec(F) <=> PayloadRec(t, F)
    OBVIOUS
  <2>1. PayloadRec(t, F) <=> F = [p \in 1..n |-> Body(F, p)]
    BY DEF PayloadRec, NoMember
  <2> HIDE DEF stop, out, item, next, Body
  <2> QED
    BY <1>3, <2>1 DEF Chained
<1>5. \E F : Rec(F)
  <2> HIDE DEF n, stop, out, item, next
  <2> QED
    BY <1>1, <1>2, ChainExists
<1> DEFINE S == PayloadFrom(t)
<1>6. PayloadRec(t, S)
  <2> HIDE DEF Rec
  <2> QED
    BY <1>4, <1>5 DEF PayloadFrom
<1> HIDE DEF S
<1>7. \A p \in 1..n : S[p] = Body(S, p)
  BY <1>6 DEF PayloadRec, NoMember
<1> QED
  BY <1>7 DEF S

----------------------------------------------------------------------------
(***************************************************************************)
(* What the reader finds.  A payload is built by putting tokens after it,  *)
(* and what the reader has found in it so far it finds in what extends it. *)
(***************************************************************************)
\* A name or a string is no punctuation.
LEMMA NamesAreTokens ==
  ASSUME NEW t, NEW p, IsName(TokenAt(t, p))
  PROVE  p \in 1..Len(t) /\ TokenAt(t, p) = t[p] /\ TokenAt(t, p) # Punct("rbrace")
<1>1. \A c : ~ IsName(Punct(c))
  BY DEF IsName, Punct
<1> QED
  BY <1>1 DEF TokenAt

\* What holds of the last number, and of each because it does of the next, holds of
\* the first.
LEMMA CountDown ==
  ASSUME NEW n \in Nat \ {0}, NEW G, n \in G, \A j \in 1..(n - 1) : j + 1 \in G => j \in G
  PROVE  1 \in G
<1> DEFINE T == {k \in 0..(n - 1) : n - k \notin G}
<1>1. T = {}
  <2> SUFFICES ASSUME T # {} PROVE FALSE
    OBVIOUS
  <2>1. PICK k \in T : \A x \in T : k <= x
    <3>1. T \subseteq Nat
      OBVIOUS
    <3> HIDE DEF T
    <3> QED
      BY <3>1, LeastElement
  <2>2. k \in 0..(n - 1) /\ n - k \notin G
    OBVIOUS
  <2>3. k \in 1..(n - 1) /\ n - k \in 1..(n - 1) /\ (n - k) + 1 = n - (k - 1)
        /\ k - 1 \in 0..(n - 1) /\ ~ (k <= k - 1)
    <3>1. k # 0
      BY <2>2
    <3> HIDE DEF T
    <3> QED
      BY <2>2, <3>1
  <2>4. n - (k - 1) \in G
    <3>1. k - 1 \notin T
      <4> HIDE DEF T
      <4> QED
        BY <2>1, <2>3
    <3> QED
      BY <2>3, <3>1
  <2> HIDE DEF T
  <2> QED
    BY <2>2, <2>3, <2>4
<1>2. n - 1 \in 0..(n - 1) /\ n - (n - 1) = 1
  OBVIOUS
<1>3. n - 1 \notin T
  BY <1>1
<1> QED
  BY <1>2, <1>3

\* The last members of ms, from the j-th.
From(ms, n, j) == [i \in 1..(n - j + 1) |-> ms[i + j - 1]]

\* The last one, all of them, and those from the j-th.
LEMMA FromUnfolds ==
  ASSUME NEW n \in Nat \ {0}, NEW ms
  PROVE  /\ From(ms, n, n) = <<ms[n]>>
         /\ From(ms, n, 1) = [i \in 1..n |-> ms[i]]
<1>1. From(ms, n, n) = <<ms[n]>>
  <2>1. 1..(n - n + 1) = {1} /\ 1 + n - 1 = n
    OBVIOUS
  <2>2. From(ms, n, n) = [i \in {1} |-> ms[n]]
    BY <2>1 DEF From
  <2> QED
    BY <2>2
<1>2. From(ms, n, 1) = [i \in 1..n |-> ms[i]]
  <2>1. n - 1 + 1 = n /\ \A i \in 1..n : i + 1 - 1 = i
    OBVIOUS
  <2> QED
    BY <2>1 DEF From
<1> QED
  BY <1>1, <1>2

\* One element in front of a sequence.
LEMMA InFront ==
  ASSUME NEW X, NEW w \in Seq(X), NEW u \in Seq(X), Len(w) = 1
  PROVE  /\ w \o u \in Seq(X) /\ Len(w \o u) = Len(u) + 1
         /\ (w \o u)[1] = w[1]
         /\ \A i \in 1..Len(u) : (w \o u)[i + 1] = u[i]
<1> DEFINE v == w \o u
           l == Len(u)
<1>1. v \in Seq(X) /\ Len(v) = Len(w) + Len(u)
  BY ConcatProperties
<1>2. l \in Nat
  BY LenProperties
<1>3. \A i \in 1..(Len(w) + Len(u)) : v[i] = IF i <= Len(w) THEN w[i] ELSE u[i - Len(w)]
  BY ConcatProperties
<1> HIDE DEF v
<1>4. \A i \in 1..(1 + l) : v[i] = IF i <= 1 THEN w[i] ELSE u[i - 1]
  BY <1>3
<1>5. Len(v) = l + 1
  BY <1>1, <1>2
<1> HIDE DEF l
<1>6. v[1] = w[1]
  BY <1>2, <1>4
<1>7. ASSUME NEW i \in 1..l PROVE v[i + 1] = u[i]
  <2>1. i + 1 \in 1..(1 + l) /\ ~ (i + 1 <= 1) /\ (i + 1) - 1 = i
    BY <1>2
  <2> QED
    BY <1>4, <2>1
<1> QED
  BY <1>1, <1>5, <1>6, <1>7 DEF v, l

\* The members from the j-th are the j-th and those after it.
LEMMA FromNext ==
  ASSUME NEW n \in Nat, NEW ms, NEW j \in 1..(n - 1), NEW rest, rest = From(ms, n, j + 1)
  PROVE  <<ms[j]>> \o rest = From(ms, n, j)
<1> DEFINE X == {ms[i] : i \in 1..n}
           k == n - j
           u == [i \in 1..k |-> ms[i + j]]
           w == <<ms[j]>>
           v == w \o u
<1>1. k \in Nat /\ n - (j + 1) + 1 = k /\ n - j + 1 = k + 1
  OBVIOUS
<1>2. From(ms, n, j + 1) = u
  <2>1. \A i \in 1..k : i + (j + 1) - 1 = i + j
    BY <1>1
  <2> HIDE DEF k
  <2> QED
    BY <1>1, <2>1 DEF From
<1>3. u \in Seq(X) /\ w \in Seq(X) /\ Len(u) = k /\ Len(w) = 1 /\ w[1] = ms[j]
  <2>1. \A i \in 1..k : i + j \in 1..n
    OBVIOUS
  <2>2. j \in 1..n
    OBVIOUS
  <2> HIDE DEF k
  <2>3. u \in [1..k -> X]
    BY <2>1
  <2>4. ms[j] \in X
    BY <2>2
  <2> HIDE DEF u, X
  <2> QED
    BY <1>1, <2>3, <2>4
<1>4. v \in Seq(X) /\ Len(v) = k + 1 /\ v[1] = ms[j]
      /\ \A i \in 1..k : v[i + 1] = u[i]
  <2> HIDE DEF u, w, X, k
  <2> QED
    BY <1>3, InFront
<1>5. \A i \in 1..(k + 1) : v[i] = ms[i + j - 1]
  <2> SUFFICES ASSUME NEW i \in 1..(k + 1) PROVE v[i] = ms[i + j - 1]
    OBVIOUS
  <2>1. CASE i = 1
    <3>1. i + j - 1 = j
      BY <2>1
    <3> QED
      BY <1>4, <2>1, <3>1
  <2>2. CASE i # 1
    <3> DEFINE h == i - 1
    <3>1. h \in 1..k /\ h + j = i + j - 1 /\ h + 1 = i
      BY <1>1, <2>2
    <3>2. u[h] = ms[h + j]
      BY <3>1
    <3> HIDE DEF h, u, v, k
    <3> QED
      BY <1>4, <3>1, <3>2
  <2> QED
    BY <2>1, <2>2
<1>6. v = [i \in 1..(k + 1) |-> ms[i + j - 1]]
  <2> HIDE DEF v, X, k
  <2> QED
    BY <1>1, <1>4, <1>5
<1> HIDE DEF v, u, k, X
<1>7. From(ms, n, j) = v
  BY <1>1, <1>6 DEF From
<1> QED
  BY <1>2, <1>7 DEF v

\* At q opens an object of n strings, ms; up to its last member if it is still open.
OpenAt(t, q, n, ms) ==
  /\ q \in Nat \ {0} /\ n \in Nat
  /\ TokenAt(t, q) = Punct("lbrace")
  /\ ms = [j \in 1..n |-> <<t[q + 4 * j - 3], t[q + 4 * j - 1]>>]
  /\ \A j \in 1..n : /\ IsName(TokenAt(t, q + 4 * j - 3))
                     /\ TokenAt(t, q + 4 * j - 2) = Punct("colon")
                     /\ IsString(TokenAt(t, q + 4 * j - 1))
  /\ \A j \in 1..(n - 1) : TokenAt(t, q + 4 * j) = Punct("comma")

\* Where the closing brace of the object is.
Closing(q, n) == IF n = 0 THEN q + 1 ELSE q + 4 * n

ObjectAt(t, q, n, ms) ==
  OpenAt(t, q, n, ms) /\ TokenAt(t, Closing(q, n)) = Punct("rbrace")

\* The reader finds the members of such an object.
LEMMA StringsRead ==
  ASSUME NEW t, Len(t) \in Nat, NEW q, NEW n, NEW ms, ObjectAt(t, q, n, ms)
  PROVE  Strings(t, q) = [ok |-> TRUE, members |-> ms, next |-> Closing(q, n) + 1]
<1>1. q \in Nat /\ q >= 1 /\ n \in Nat
  <2>1. q \in Nat \ {0} /\ n \in Nat
    BY DEF ObjectAt, OpenAt
  <2> QED
    BY <2>1
<1>0. TokenAt(t, q) = Punct("lbrace")
  BY DEF ObjectAt, OpenAt
<1>2. CASE n = 0
  <2>1. TokenAt(t, q + 1) = Punct("rbrace")
    BY <1>2 DEF ObjectAt, Closing
  <2>2. Strings(t, q) = [ok |-> TRUE, members |-> <<>>, next |-> q + 2]
    BY <1>0, <2>1, StringsIsChosen
  <2>3. ms = <<>>
    <3>1. ms = [j \in 1..n |-> <<t[q + 4 * j - 3], t[q + 4 * j - 1]>>]
      BY DEF ObjectAt, OpenAt
    <3>2. 1..n = {}
      BY <1>2
    <3> QED
      BY <3>1, <3>2
  <2>4. Closing(q, n) + 1 = q + 2
    BY <1>1, <1>2 DEF Closing
  <2> QED
    BY <2>2, <2>3, <2>4
<1>3. CASE n # 0
  <2> DEFINE at(j) == q + 4 * j - 3
             last == q + 4 * n + 1
             S == StringsFrom(t)
             Read(j) == S[at(j)] = [ok |-> TRUE, members |-> From(ms, n, j), next |-> last]
             G == {j \in 1..n : Read(j)}
  <2>0. n \in Nat \ {0} /\ n \in 1..n /\ 1 \in 1..n
    BY <1>1, <1>3
  <2>1. \A j \in 1..n :
          S[at(j)] = Following(t, q + 4 * j, ms[j], S[at(j + 1)])
    <3> SUFFICES ASSUME NEW j \in 1..n
                 PROVE  S[at(j)] = Following(t, q + 4 * j, ms[j], S[at(j + 1)])
      OBVIOUS
    <3> DEFINE p == q + 4 * j - 3
    <3>1. /\ p \in Nat /\ p + 1 = q + 4 * j - 2 /\ p + 2 = q + 4 * j - 1
          /\ p + 3 = q + 4 * j /\ p + 4 = q + 4 * (j + 1) - 3
      BY <1>1
    <3>2. /\ IsName(TokenAt(t, q + 4 * j - 3)) /\ TokenAt(t, q + 4 * j - 2) = Punct("colon")
          /\ IsString(TokenAt(t, q + 4 * j - 1))
          /\ ms[j] = <<t[q + 4 * j - 3], t[q + 4 * j - 1]>>
      BY DEF ObjectAt, OpenAt
    <3>3. IsName(TokenAt(t, p)) /\ TokenAt(t, p + 1) = Punct("colon") /\ IsString(TokenAt(t, p + 2))
      BY <3>1, <3>2
    <3>4. p \in 1..Len(t)
      BY <3>3, NamesAreTokens
    <3>5. at(j) = p /\ at(j + 1) = p + 4 /\ ms[j] = <<t[p], t[p + 2]>> /\ q + 4 * j = p + 3
      BY <3>1, <3>2
    <3> HIDE DEF p, S, at
    <3>6. ~ NoPair(t, p) /\ p \in 1..(Len(t) + 5)
      BY <3>3, <3>4 DEF NoPair
    <3>7. S[p] = Following(t, p + 3, <<t[p], t[p + 2]>>, S[p + 4])
      BY <3>6, StringsUnfold DEF S
    <3> QED
      BY <3>5, <3>7
  <2>2. TokenAt(t, q + 4 * n) = Punct("rbrace")
    BY <1>3 DEF ObjectAt, Closing
  <2>3. \A j \in 1..(n - 1) : TokenAt(t, q + 4 * j) = Punct("comma")
    BY DEF ObjectAt, OpenAt
  <2>4. Punct("rbrace") # Punct("comma")
    BY DEF Punct
  <2>5. n \in G
    <3>1. S[at(n)] = Stopping(t, q + 4 * n, ms[n])
      <4>1. TokenAt(t, q + 4 * n) # Punct("comma")
        BY <2>2, <2>4
      <4> HIDE DEF S, at
      <4> QED
        BY <2>0, <2>1, <4>1, Followed
    <3>2. Stopping(t, q + 4 * n, ms[n]) = [ok |-> TRUE, members |-> <<ms[n]>>, next |-> q + 4 * n + 1]
      BY <2>2 DEF Stopping
    <3> HIDE DEF S, at
    <3> QED
      BY <2>0, <3>1, <3>2, FromUnfolds
  <2>6. \A j \in 1..(n - 1) : j + 1 \in G => j \in G
    <3> SUFFICES ASSUME NEW j \in 1..(n - 1), Read(j + 1)
                 PROVE  j \in G
      OBVIOUS
    <3>0. j \in 1..n
      BY <1>1
    <3>1. S[at(j)] = Put(ms[j], S[at(j + 1)])
      <4> HIDE DEF S, at
      <4> QED
        BY <2>1, <2>3, <3>0, Followed
    <3>2. S[at(j + 1)] = [ok |-> TRUE, members |-> From(ms, n, j + 1), next |-> last]
      OBVIOUS
    <3> HIDE DEF at, S, last
    <3>3. Put(ms[j], S[at(j + 1)])
          = [ok |-> TRUE, members |-> <<ms[j]>> \o From(ms, n, j + 1), next |-> last]
      <4>1. Answer(S[at(j + 1)])
        BY <3>2 DEF Answer
      <4> QED
        BY <3>2, <4>1, PutAnswers
    <3>4. <<ms[j]>> \o From(ms, n, j + 1) = From(ms, n, j)
      BY <1>1, FromNext
    <3> QED
      BY <3>0, <3>1, <3>3, <3>4
  <2>7. Read(1)
    <3>1. 1 \in G
      <4> HIDE DEF G
      <4> QED
        BY <2>0, <2>5, <2>6, CountDown
    <3> HIDE DEF Read
    <3> QED
      BY <3>1
  <2>8. at(1) = q + 1
    BY <1>1
  <2>9. ms = From(ms, n, 1)
    <3>1. ms = [j \in 1..n |-> <<t[q + 4 * j - 3], t[q + 4 * j - 1]>>]
      BY DEF ObjectAt, OpenAt
    <3>2. ms = [j \in 1..n |-> ms[j]]
      BY <3>1
    <3> QED
      BY <2>0, <3>2, FromUnfolds
  <2>10. TokenAt(t, q + 1) # Punct("rbrace")
    <3>1. q + 4 * 1 - 3 = q + 1
      BY <1>1
    <3>2. IsName(TokenAt(t, q + 1))
      BY <2>0, <3>1 DEF ObjectAt, OpenAt
    <3> QED
      BY <3>2, NamesAreTokens
  <2>11. Strings(t, q) = S[q + 1]
    BY <1>0, <2>10, StringsIsChosen
  <2>12. Closing(q, n) + 1 = last
    BY <1>3 DEF Closing
  <2> HIDE DEF S, at, last
  <2> QED
    BY <2>7, <2>8, <2>9, <2>11, <2>12
<1> QED
  BY <1>2, <1>3

\* At p is the name of a member m, which ends before d.
MemberAt(t, p, d, m) ==
  /\ IsName(TokenAt(t, p)) /\ TokenAt(t, p + 1) = Punct("colon")
  /\ \/ IsString(TokenAt(t, p + 2)) /\ d = p + 3 /\ m = <<t[p], t[p + 2]>>
     \/ \E n, inner : /\ ObjectAt(t, p + 2, n, inner)
                      /\ d = Closing(p + 2, n) + 1
                      /\ m = <<t[p], inner>>

\* The reader finds the member.
LEMMA MemberRead ==
  ASSUME NEW t, Len(t) \in Nat, NEW p \in Nat, NEW d, NEW m, MemberAt(t, p, d, m)
  PROVE  PayloadFrom(t)[p] = Following(t, d, m, PayloadFrom(t)[d + 1])
<1>1. IsName(TokenAt(t, p)) /\ TokenAt(t, p + 1) = Punct("colon")
  BY DEF MemberAt
<1>2. p \in 1..Len(t)
  BY <1>1, NamesAreTokens
<1>3. p \in 1..(Len(t) + 5)
  <2>1. p \in 1..Len(t) => p \in 1..(Len(t) + 5)
    OBVIOUS
  <2> QED
    BY <1>2, <2>1
<1>4. ~ NoMember(t, p)
  <2>1. ~ (p > Len(t))
    BY <1>2
  <2> QED
    BY <1>1, <2>1 DEF NoMember
<1>5. CASE IsString(TokenAt(t, p + 2)) /\ d = p + 3 /\ m = <<t[p], t[p + 2]>>
  <2>1. d + 1 = p + 4
    <3>1. d = p + 3
      BY <1>5
    <3> QED
      BY <3>1
  <2>2. PayloadFrom(t)[p] = Following(t, p + 3, <<t[p], t[p + 2]>>, PayloadFrom(t)[p + 4])
    BY <1>3, <1>4, <1>5, PayloadUnfold
  <2> QED
    BY <1>5, <2>1, <2>2
<1>6. ASSUME NEW n, NEW inner,
             ObjectAt(t, p + 2, n, inner), d = Closing(p + 2, n) + 1, m = <<t[p], inner>>
      PROVE  PayloadFrom(t)[p] = Following(t, d, m, PayloadFrom(t)[d + 1])
  <2>1. Strings(t, p + 2) = [ok |-> TRUE, members |-> inner, next |-> Closing(p + 2, n) + 1]
    BY <1>6, StringsRead
  <2>2. Strings(t, p + 2).ok /\ Strings(t, p + 2).members = inner /\ Strings(t, p + 2).next = d
    BY <1>6, <2>1
  <2>3. ~ IsString(TokenAt(t, p + 2))
    <3>1. TokenAt(t, p + 2) = Punct("lbrace")
      BY <1>6 DEF ObjectAt, OpenAt
    <3> QED
      BY <3>1 DEF IsString, Punct
  <2>4. PayloadFrom(t)[p] = Following(t, Strings(t, p + 2).next,
                                      <<t[p], Strings(t, p + 2).members>>,
                                      PayloadFrom(t)[Strings(t, p + 2).next + 1])
    BY <1>3, <1>4, <2>2, <2>3, PayloadUnfold
  <2> QED
    BY <1>6, <2>2, <2>4
<1> QED
  BY <1>5, <1>6 DEF MemberAt

\* t opens an object of n members, ms; the j-th ends before e[j].
MembersAt(t, n, e, ms) ==
  /\ n \in Nat \ {0}
  /\ e \in [0..n -> Nat \ {0}] /\ e[0] = 1
  /\ TokenAt(t, 1) = Punct("lbrace")
  /\ \A j \in 1..n : MemberAt(t, e[j - 1] + 1, e[j], ms[j])
  /\ \A j \in 1..(n - 1) : TokenAt(t, e[j]) = Punct("comma")

\* The last token of t, at p, is a closing brace.
EndsAt(t, p) == TokenAt(t, p) = Punct("rbrace") /\ p = Len(t)

\* Closed, it is the payload of these members.
LEMMA PayloadRead ==
  ASSUME NEW t, Len(t) \in Nat, NEW n, NEW e, NEW ms, NEW X, ms \in Seq(X), Len(ms) = n,
         MembersAt(t, n, e, ms), EndsAt(t, e[n])
  PROVE  Payload(t) = ms
<1>1. n \in Nat \ {0} /\ e \in [0..n -> Nat \ {0}] /\ e[0] = 1
  BY DEF MembersAt
<1>2. n \in 1..n /\ 1 \in 1..n /\ n \in 0..n /\ e[n] \in Nat
  BY <1>1
<1> DEFINE S == PayloadFrom(t)
           at(j) == e[j - 1] + 1
           last == Len(t) + 1
           Read(j) == S[at(j)] = [ok |-> TRUE, members |-> From(ms, n, j), next |-> last]
           G == {j \in 1..n : Read(j)}
<1>3. \A j \in 1..n : S[at(j)] = Following(t, e[j], ms[j], S[e[j] + 1])
  <2> SUFFICES ASSUME NEW j \in 1..n
               PROVE  S[at(j)] = Following(t, e[j], ms[j], S[e[j] + 1])
    OBVIOUS
  <2> DEFINE p == e[j - 1] + 1
  <2>1. p \in Nat
    <3>1. j - 1 \in 0..n
      BY <1>1
    <3>2. e[j - 1] \in Nat
      BY <1>1, <3>1
    <3> QED
      BY <3>2
  <2>2. MemberAt(t, p, e[j], ms[j])
    BY DEF MembersAt
  <2>3. at(j) = p
    OBVIOUS
  <2> HIDE DEF p, at
  <2> QED
    BY <2>1, <2>2, <2>3, MemberRead
<1>4. n \in G
  <2>1. Punct("rbrace") # Punct("comma")
    BY DEF Punct
  <2>2. S[at(n)] = Stopping(t, e[n], ms[n])
    <3>1. TokenAt(t, e[n]) = Punct("rbrace")
      BY DEF EndsAt
    <3> HIDE DEF S, at
    <3> QED
      BY <1>2, <1>3, <2>1, <3>1, Followed
  <2>3. Stopping(t, e[n], ms[n]) = [ok |-> TRUE, members |-> <<ms[n]>>, next |-> last]
    <3>1. TokenAt(t, e[n]) = Punct("rbrace") /\ e[n] + 1 = last
      BY DEF EndsAt
    <3> QED
      BY <3>1 DEF Stopping
  <2> HIDE DEF S, at, last
  <2> QED
    BY <1>1, <1>2, <2>2, <2>3, FromUnfolds
<1>5. \A j \in 1..(n - 1) : j + 1 \in G => j \in G
  <2> SUFFICES ASSUME NEW j \in 1..(n - 1), Read(j + 1)
               PROVE  j \in G
    OBVIOUS
  <2>0. j \in 1..n /\ (j + 1) - 1 = j
    BY <1>1
  <2>1. TokenAt(t, e[j]) = Punct("comma")
    BY DEF MembersAt
  <2>2. S[at(j)] = Put(ms[j], S[e[j] + 1])
    <3> HIDE DEF S, at
    <3> QED
      BY <1>3, <2>0, <2>1, Followed
  <2>3. at(j + 1) = e[j] + 1
    BY <2>0
  <2>4. S[at(j + 1)] = [ok |-> TRUE, members |-> From(ms, n, j + 1), next |-> last]
    OBVIOUS
  <2> HIDE DEF at, S, last
  <2>5. Put(ms[j], S[at(j + 1)])
        = [ok |-> TRUE, members |-> <<ms[j]>> \o From(ms, n, j + 1), next |-> last]
    <3>1. Answer(S[at(j + 1)])
      BY <2>4 DEF Answer
    <3> QED
      BY <2>4, <3>1, PutAnswers
  <2>6. <<ms[j]>> \o From(ms, n, j + 1) = From(ms, n, j)
    BY <1>1, FromNext
  <2> QED
    BY <2>0, <2>2, <2>3, <2>5, <2>6
<1>6. Read(1)
  <2>1. 1 \in G
    <3> HIDE DEF G
    <3> QED
      BY <1>1, <1>4, <1>5, CountDown
  <2> HIDE DEF Read
  <2> QED
    BY <2>1
<1>7. at(1) = 2
  <2>1. 1 - 1 = 0
    OBVIOUS
  <2>2. at(1) = e[0] + 1
    BY <2>1
  <2> HIDE DEF at
  <2> QED
    BY <1>1, <2>2
<1>8. ms = From(ms, n, 1)
  <2>1. ms = [j \in 1..n |-> ms[j]]
    OBVIOUS
  <2> QED
    BY <1>1, <2>1, FromUnfolds
<1>9. TokenAt(t, 1) = Punct("lbrace")
  BY DEF MembersAt
<1> HIDE DEF at
<1>10. S[2] = [ok |-> TRUE, members |-> ms, next |-> last]
  BY <1>6, <1>7, <1>8
<1> HIDE DEF last
<1>11. S[2].ok /\ S[2].members = ms /\ S[2].next = last
  BY <1>10
<1> QED
  BY <1>9, <1>11, PayloadIsChosen DEF last

\* t is b with tokens after it.
Extends(b, t) ==
  /\ Len(b) \in Nat /\ Len(t) \in Nat /\ Len(b) <= Len(t)
  /\ \A i \in 1..Len(b) : t[i] = b[i]

\* What is read in b is read in t.
LEMMA TokenKept ==
  ASSUME NEW b, NEW t, Extends(b, t), NEW p, TokenAt(b, p) # Punct("end")
  PROVE  TokenAt(t, p) = TokenAt(b, p) /\ t[p] = b[p] /\ p \in 1..Len(b)
<1>1. p \in 1..Len(b)
  BY DEF TokenAt
<1>2. p \in 1..Len(t) /\ t[p] = b[p]
  <2>1. Len(b) \in Nat /\ Len(t) \in Nat /\ Len(b) <= Len(t)
    BY DEF Extends
  <2>2. t[p] = b[p]
    BY <1>1 DEF Extends
  <2> QED
    BY <1>1, <2>1, <2>2
<1> QED
  BY <1>1, <1>2 DEF TokenAt

\* Punctuation that is not the end, names and strings are read in b.
LEMMA TokensEnd ==
  /\ Punct("lbrace") # Punct("end") /\ Punct("rbrace") # Punct("end")
  /\ Punct("comma") # Punct("end") /\ Punct("colon") # Punct("end")
  /\ ~ IsName(Punct("end")) /\ ~ IsString(Punct("end"))
BY DEF Punct, IsName, IsString

\* An object that is open or closed in b is so in what extends b.
LEMMA ObjectKept ==
  ASSUME NEW b, NEW t, Extends(b, t), NEW q, NEW n, NEW ms
  PROVE  /\ OpenAt(b, q, n, ms) => OpenAt(t, q, n, ms)
         /\ ObjectAt(b, q, n, ms) => ObjectAt(t, q, n, ms)
<1>1. ASSUME OpenAt(b, q, n, ms) PROVE OpenAt(t, q, n, ms)
  <2>1. q \in Nat \ {0} /\ n \in Nat
    BY <1>1 DEF OpenAt
  <2>2. TokenAt(t, q) = Punct("lbrace")
    <3>1. TokenAt(b, q) = Punct("lbrace")
      BY <1>1 DEF OpenAt
    <3> QED
      BY <3>1, TokensEnd, TokenKept
  <2>3. \A j \in 1..(n - 1) : TokenAt(t, q + 4 * j) = Punct("comma")
    <3> SUFFICES ASSUME NEW j \in 1..(n - 1) PROVE TokenAt(t, q + 4 * j) = Punct("comma")
      OBVIOUS
    <3> DEFINE p == q + 4 * j
    <3>1. TokenAt(b, p) = Punct("comma")
      BY <1>1 DEF OpenAt
    <3> HIDE DEF p
    <3>2. TokenAt(t, p) = Punct("comma")
      BY <3>1, TokensEnd, TokenKept
    <3> QED
      BY <3>2 DEF p
  <2>4. \A j \in 1..n : /\ IsName(TokenAt(t, q + 4 * j - 3))
                        /\ TokenAt(t, q + 4 * j - 2) = Punct("colon")
                        /\ IsString(TokenAt(t, q + 4 * j - 1))
                        /\ t[q + 4 * j - 3] = b[q + 4 * j - 3]
                        /\ t[q + 4 * j - 1] = b[q + 4 * j - 1]
    <3> SUFFICES ASSUME NEW j \in 1..n
                 PROVE  /\ IsName(TokenAt(t, q + 4 * j - 3))
                        /\ TokenAt(t, q + 4 * j - 2) = Punct("colon")
                        /\ IsString(TokenAt(t, q + 4 * j - 1))
                        /\ t[q + 4 * j - 3] = b[q + 4 * j - 3]
                        /\ t[q + 4 * j - 1] = b[q + 4 * j - 1]
      OBVIOUS
    <3> DEFINE p == q + 4 * j - 3
               r == q + 4 * j - 2
               s == q + 4 * j - 1
    <3>1. IsName(TokenAt(b, p)) /\ TokenAt(b, r) = Punct("colon") /\ IsString(TokenAt(b, s))
      BY <1>1 DEF OpenAt
    <3> HIDE DEF p, r, s
    <3>2. /\ IsName(TokenAt(t, p)) /\ TokenAt(t, r) = Punct("colon") /\ IsString(TokenAt(t, s))
          /\ t[p] = b[p] /\ t[s] = b[s]
      BY <3>1, TokensEnd, TokenKept
    <3> QED
      BY <3>2 DEF p, r, s
  <2>5. ms = [j \in 1..n |-> <<t[q + 4 * j - 3], t[q + 4 * j - 1]>>]
    <3>1. ms = [j \in 1..n |-> <<b[q + 4 * j - 3], b[q + 4 * j - 1]>>]
      BY <1>1 DEF OpenAt
    <3> QED
      BY <2>4, <3>1
  <2> QED
    BY <2>1, <2>2, <2>3, <2>4, <2>5 DEF OpenAt
<1>2. ASSUME ObjectAt(b, q, n, ms) PROVE ObjectAt(t, q, n, ms)
  <2>1. OpenAt(t, q, n, ms)
    BY <1>1, <1>2 DEF ObjectAt
  <2>2. TokenAt(b, Closing(q, n)) = Punct("rbrace")
    BY <1>2 DEF ObjectAt
  <2>3. TokenAt(t, Closing(q, n)) = Punct("rbrace")
    BY <2>2, TokensEnd, TokenKept
  <2> QED
    BY <2>1, <2>3 DEF ObjectAt
<1> QED
  BY <1>1, <1>2

\* And a member.
LEMMA MemberKept ==
  ASSUME NEW b, NEW t, Extends(b, t), NEW p, NEW d, NEW m, MemberAt(b, p, d, m)
  PROVE  MemberAt(t, p, d, m)
<1>1. IsName(TokenAt(b, p)) /\ TokenAt(b, p + 1) = Punct("colon")
  BY DEF MemberAt
<1>2. /\ IsName(TokenAt(t, p)) /\ TokenAt(t, p + 1) = Punct("colon")
      /\ t[p] = b[p]
  BY <1>1, TokensEnd, TokenKept
<1>3. ASSUME IsString(TokenAt(b, p + 2)), d = p + 3, m = <<b[p], b[p + 2]>>
      PROVE  MemberAt(t, p, d, m)
  <2>1. IsString(TokenAt(t, p + 2)) /\ t[p + 2] = b[p + 2]
    BY <1>3, TokensEnd, TokenKept
  <2> QED
    BY <1>2, <1>3, <2>1 DEF MemberAt
<1>4. ASSUME NEW n, NEW inner, ObjectAt(b, p + 2, n, inner),
             d = Closing(p + 2, n) + 1, m = <<b[p], inner>>
      PROVE  MemberAt(t, p, d, m)
  <2>1. ObjectAt(t, p + 2, n, inner)
    BY <1>4, ObjectKept
  <2> QED
    BY <1>2, <1>4, <2>1 DEF MemberAt
<1> QED
  BY <1>3, <1>4 DEF MemberAt

\* What a member may hold.
Values(T) == T \X (T \cup Seq(T \X T))

\* b opens an object and writes the members ms, and nothing after them.
Written(T, b, ms) ==
  /\ b \in Seq(T) /\ ms \in Seq(Values(T))
  /\ \E e : MembersAt(b, Len(ms), e, ms) /\ e[Len(ms)] = Len(b) + 1

\* A member after a comma.
LEMMA MemberWritten ==
  ASSUME NEW T, NEW b, NEW ms, Written(T, b, ms), NEW t \in Seq(T), Extends(b, t),
         NEW m \in Values(T),
         TokenAt(t, Len(b) + 1) = Punct("comma"), MemberAt(t, Len(b) + 2, Len(t) + 1, m)
  PROVE  Written(T, t, Append(ms, m))
<1> DEFINE n == Len(ms)
           l == Len(b)
           u == Append(ms, m)
<1>1. PICK e : MembersAt(b, n, e, ms) /\ e[n] = l + 1
  BY DEF Written
<1>2. n \in Nat \ {0} /\ e \in [0..n -> Nat \ {0}] /\ e[0] = 1
  BY <1>1 DEF MembersAt
<1>3. /\ ms \in Seq(Values(T)) /\ u \in Seq(Values(T)) /\ Len(u) = n + 1
      /\ u[n + 1] = m /\ \A j \in 1..n : u[j] = ms[j]
  <2>1. ms \in Seq(Values(T))
    BY DEF Written
  <2> QED
    BY <2>1, AppendProperties
<1> DEFINE last == Len(t) + 1
           d == [j \in 0..(n + 1) |-> IF j = n + 1 THEN last ELSE e[j]]
<1>4. last \in Nat \ {0}
  BY LenProperties
<1> HIDE DEF last, u, l
<1>5. /\ n + 1 \in Nat \ {0} /\ n + 1 \in 0..(n + 1)
      /\ d \in [0..(n + 1) -> Nat \ {0}] /\ d[0] = 1
      /\ d[n + 1] = last
      /\ \A j \in 0..n : d[j] = e[j]
  <2>1. \A j \in 0..(n + 1) : j # n + 1 => j \in 0..n
    BY <1>2
  <2>2. 0 \in 0..n /\ 0 \in 0..(n + 1) /\ n + 1 \in Nat \ {0} /\ n + 1 \in 0..(n + 1)
        /\ \A j \in 0..n : j # n + 1 /\ j \in 0..(n + 1)
    BY <1>2
  <2> HIDE DEF n
  <2> QED
    BY <1>2, <1>4, <2>1, <2>2
<1>6. TokenAt(t, 1) = Punct("lbrace")
  <2>1. TokenAt(b, 1) = Punct("lbrace")
    BY <1>1 DEF MembersAt
  <2> QED
    BY <2>1, TokensEnd, TokenKept
<1>7. ASSUME NEW j \in 1..(n + 1) PROVE MemberAt(t, d[j - 1] + 1, d[j], u[j])
  <2>1. CASE j = n + 1
    <3>1. d[j - 1] = e[n] /\ d[j] = last /\ u[j] = m
      <4>1. j - 1 = n /\ n \in 0..n
        BY <1>2, <2>1
      <4> HIDE DEF d, n
      <4> QED
        BY <1>3, <1>5, <2>1, <4>1
    <3>2. l \in Nat /\ (l + 1) + 1 = l + 2
      <4>1. l \in Nat
        BY DEF Extends, l
      <4> QED
        BY <4>1
    <3>3. e[n] + 1 = l + 2
      BY <1>1, <3>2
    <3> HIDE DEF d, n
    <3> QED
      BY <3>1, <3>3 DEF last, l
  <2>2. CASE j # n + 1
    <3>1. j \in 1..n /\ j - 1 \in 0..n /\ j \in 0..n
      BY <1>2, <2>2
    <3>2. MemberAt(b, e[j - 1] + 1, e[j], ms[j])
      BY <1>1, <3>1 DEF MembersAt
    <3>3. d[j - 1] = e[j - 1] /\ d[j] = e[j] /\ u[j] = ms[j]
      <4> HIDE DEF d, n
      <4> QED
        BY <1>3, <1>5, <3>1
    <3> HIDE DEF d
    <3> QED
      BY <3>2, <3>3, MemberKept
  <2> QED
    BY <2>1, <2>2
<1>8. ASSUME NEW j \in 1..n PROVE TokenAt(t, d[j]) = Punct("comma")
  <2>1. j \in 0..n
    OBVIOUS
  <2>2. d[j] = e[j]
    <3> HIDE DEF d, n
    <3> QED
      BY <1>5, <2>1
  <2>3. CASE j = n
    BY <1>1, <2>2, <2>3 DEF l
  <2>4. CASE j # n
    <3>1. j \in 1..(n - 1)
      BY <1>2, <2>4
    <3>2. TokenAt(b, e[j]) = Punct("comma")
      BY <1>1, <3>1 DEF MembersAt
    <3> HIDE DEF d
    <3> QED
      BY <2>2, <3>2, TokensEnd, TokenKept
  <2> QED
    BY <2>3, <2>4
<1>9. MembersAt(t, n + 1, d, u)
  <2>1. (n + 1) - 1 = n
    BY <1>2
  <2> HIDE DEF d, n
  <2> QED
    BY <1>5, <1>6, <1>7, <1>8, <2>1 DEF MembersAt
<1> HIDE DEF d, n
<1> QED
  BY <1>3, <1>5, <1>9 DEF Written, last, u

\* The payload of what is written, with its closing brace.
LEMMA WrittenReads ==
  ASSUME NEW T, NEW b, NEW ms, Written(T, b, ms), Punct("rbrace") \in T
  PROVE  Payload(Append(b, Punct("rbrace"))) = ms
<1> DEFINE t == Append(b, Punct("rbrace"))
           n == Len(ms)
<1>1. PICK e : MembersAt(b, n, e, ms) /\ e[n] = Len(b) + 1
  BY DEF Written
<1>2. b \in Seq(T) /\ ms \in Seq(Values(T))
  BY DEF Written
<1>3. t \in Seq(T) /\ Len(t) = Len(b) + 1 /\ t[Len(b) + 1] = Punct("rbrace")
      /\ \A i \in 1..Len(b) : t[i] = b[i]
  BY <1>2, AppendProperties
<1>4. Len(b) \in Nat /\ Len(t) \in Nat /\ Len(b) <= Len(t)
  <2>1. Len(b) \in Nat
    BY <1>2, LenProperties
  <2> HIDE DEF t
  <2> QED
    BY <1>3, <2>1
<1>5. Extends(b, t)
  <2> HIDE DEF t
  <2> QED
    BY <1>3, <1>4 DEF Extends
<1>6. n \in Nat \ {0} /\ e \in [0..n -> Nat \ {0}] /\ e[0] = 1
  BY <1>1 DEF MembersAt
<1> HIDE DEF t
<1>7. MembersAt(t, n, e, ms)
  <2>1. TokenAt(t, 1) = Punct("lbrace")
    <3>1. TokenAt(b, 1) = Punct("lbrace")
      BY <1>1 DEF MembersAt
    <3> QED
      BY <1>5, <3>1, TokensEnd, TokenKept
  <2>2. ASSUME NEW j \in 1..n PROVE MemberAt(t, e[j - 1] + 1, e[j], ms[j])
    <3>1. MemberAt(b, e[j - 1] + 1, e[j], ms[j])
      BY <1>1 DEF MembersAt
    <3> QED
      BY <1>5, <3>1, MemberKept
  <2>3. ASSUME NEW j \in 1..(n - 1) PROVE TokenAt(t, e[j]) = Punct("comma")
    <3>1. TokenAt(b, e[j]) = Punct("comma")
      BY <1>1 DEF MembersAt
    <3> QED
      BY <1>5, <3>1, TokensEnd, TokenKept
  <2> QED
    BY <1>6, <2>1, <2>2, <2>3 DEF MembersAt
<1>8. EndsAt(t, e[n])
  <2>1. e[n] = Len(t)
    BY <1>1, <1>3
  <2>2. Len(t) \in 1..Len(t)
    BY <1>3, <1>4
  <2> QED
    BY <1>1, <1>3, <2>1, <2>2 DEF EndsAt, TokenAt
<1> HIDE DEF n
<1> QED
  BY <1>2, <1>4, <1>7, <1>8, PayloadRead DEF n, t

----------------------------------------------------------------------------
(***************************************************************************)
(* The encoder.  FlattenSeq joins from left to right; each call of         *)
(* Encode's helpers puts one member more into the payload, under a name of *)
(* its own.                                                                *)
(***************************************************************************)
\* What holds of zero, and of the next number because it does of each, holds of n.
LEMMA CountUp ==
  ASSUME NEW n \in Nat, NEW G, 0 \in G, \A j \in 0..(n - 1) : j \in G => j + 1 \in G
  PROVE  n \in G
<1> DEFINE T == {k \in 0..n : k \notin G}
<1>1. T = {}
  <2> SUFFICES ASSUME T # {} PROVE FALSE
    OBVIOUS
  <2>1. PICK k \in T : \A x \in T : k <= x
    <3>1. T \subseteq Nat
      OBVIOUS
    <3> HIDE DEF T
    <3> QED
      BY <3>1, LeastElement
  <2>2. k \in 0..n /\ k \notin G
    OBVIOUS
  <2>3. k - 1 \in 0..(n - 1) /\ (k - 1) + 1 = k /\ k - 1 \in 0..n /\ ~ (k <= k - 1)
    <3>1. k # 0
      BY <2>2
    <3> HIDE DEF T
    <3> QED
      BY <2>2, <3>1
  <2>4. k - 1 \in G
    <3>1. k - 1 \notin T
      <4> HIDE DEF T
      <4> QED
        BY <2>1, <2>3
    <3> QED
      BY <2>3, <3>1
  <2> HIDE DEF T
  <2> QED
    BY <2>2, <2>3, <2>4
<1> QED
  BY <1>1

\* F joins the first sequences of s, from left to right.
Joins(s, n, F) ==
  F = [i \in 0..n |-> IF i = 0 THEN <<>> ELSE F[i - 1] \o s[i]]

\* There is such a function.
LEMMA JoinsExist ==
  ASSUME NEW T, NEW n \in Nat, NEW s \in [1..n -> Seq(T)]
  PROVE  \E F : Joins(s, n, F)
<1> DEFINE G == {k \in 0..n : \E F : Joins(s, k, F)}
<1>1. 0 \in G
  <2> DEFINE F == [i \in 0..0 |-> <<>>]
  <2>1. Joins(s, 0, F)
    <3>1. \A i \in 0..0 : i = 0
      OBVIOUS
    <3> QED
      BY <3>1 DEF Joins
  <2> HIDE DEF F
  <2> QED
    BY <2>1
<1>2. ASSUME NEW k \in 0..(n - 1), k \in G PROVE k + 1 \in G
  <2>1. PICK F : Joins(s, k, F)
    BY <1>2
  <2> DEFINE H == [i \in 0..(k + 1) |-> IF i = k + 1 THEN F[k] \o s[i] ELSE F[i]]
  <2>2. \A i \in 0..(k + 1) : H[i] = IF i = 0 THEN <<>> ELSE H[i - 1] \o s[i]
    <3> SUFFICES ASSUME NEW i \in 0..(k + 1)
                 PROVE  H[i] = IF i = 0 THEN <<>> ELSE H[i - 1] \o s[i]
      OBVIOUS
    <3>1. CASE i = k + 1
      <4>1. i # 0 /\ i - 1 = k /\ k \in 0..(k + 1) /\ k # k + 1
        BY <3>1
      <4>2. H[k] = F[k] /\ H[i] = F[k] \o s[i]
        BY <3>1, <4>1
      <4> HIDE DEF H
      <4> QED
        BY <4>1, <4>2
    <3>2. CASE i # k + 1
      <4>1. i \in 0..k /\ (i # 0 => i - 1 \in 0..(k + 1) /\ i - 1 # k + 1)
        BY <3>2
      <4>2. H[i] = F[i] /\ (i # 0 => H[i - 1] = F[i - 1])
        BY <3>2, <4>1
      <4>3. F[i] = IF i = 0 THEN <<>> ELSE F[i - 1] \o s[i]
        BY <2>1, <4>1 DEF Joins
      <4> HIDE DEF H
      <4> QED
        BY <4>2, <4>3
    <3> QED
      BY <3>1, <3>2
  <2>3. H = [i \in 0..(k + 1) |-> H[i]]
    OBVIOUS
  <2> HIDE DEF H
  <2>4. Joins(s, k + 1, H)
    BY <2>2, <2>3 DEF Joins
  <2>5. k + 1 \in 0..n
    OBVIOUS
  <2> QED
    BY <2>4, <2>5
<1>3. n \in G
  <2> HIDE DEF G
  <2> QED
    BY <1>1, <1>2, CountUp
<1> QED
  BY <1>3

\* FlattenSeq joins all of them.
FlattenRec(s, F) ==
  F = [i \in 1..Len(s) |-> IF i = 1 THEN s[i] ELSE F[i - 1] \o s[i]]

\* FlattenSeq of the community modules, with its function by name.
LEMMA FlattenIsChosen ==
  ASSUME NEW s
  PROVE  FlattenSeq(s) = IF Len(s) = 0 THEN s
                         ELSE (CHOOSE F : FlattenRec(s, F))[Len(s)]
BY DEF FlattenSeq, FlattenRec

\* F is the sequences of s joined from left to right up to all of them.
Flattens(T, s, n, F) ==
  /\ F \in [0..n -> Seq(T)]
  /\ F[0] = <<>> /\ F[n] = FlattenSeq(s)
  /\ \A i \in 0..(n - 1) : F[i + 1] = F[i] \o s[i + 1]

\* FlattenSeq is joining from left to right.
LEMMA FlattenJoins ==
  ASSUME NEW T, NEW n \in Nat, NEW s \in [1..n -> Seq(T)]
  PROVE  \E F : Flattens(T, s, n, F)
<1>0. Len(s) = n /\ s \in Seq(Seq(T))
  OBVIOUS
<1>1. CASE n = 0
  <2> DEFINE F == [i \in 0..0 |-> <<>>]
  <2>1. FlattenSeq(s) = <<>>
    <3>1. FlattenSeq(s) = s
      BY <1>0, <1>1, FlattenIsChosen
    <3>2. s = <<>>
      BY <1>0, <1>1
    <3> QED
      BY <3>1, <3>2
  <2>2. F \in [0..n -> Seq(T)] /\ F[0] = <<>> /\ F[n] = <<>>
    BY <1>1
  <2>3. \A i \in 0..(n - 1) : F[i + 1] = F[i] \o s[i + 1]
    BY <1>1
  <2> HIDE DEF F
  <2> QED
    BY <2>1, <2>2, <2>3 DEF Flattens
<1>2. CASE n # 0
  <2>1. PICK J : Joins(s, n, J)
    BY JoinsExist
  <2>2. \A i \in 0..n : J[i] \in Seq(T)
    <3> DEFINE G == {k \in 0..n : J[k] \in Seq(T)}
    <3>0. \A m \in 0..n : m \in G
      <4> SUFFICES ASSUME NEW m \in 0..n PROVE m \in G
        OBVIOUS
      <4>1. 0 \in G
        BY <2>1 DEF Joins
      <4>2. ASSUME NEW k \in 0..(m - 1), k \in G PROVE k + 1 \in G
        <5>1. k + 1 \in 0..n /\ k + 1 # 0 /\ (k + 1) - 1 = k /\ k + 1 \in 1..n
          OBVIOUS
        <5>2. J[k + 1] = J[k] \o s[k + 1]
          BY <2>1, <5>1 DEF Joins
        <5>3. J[k] \in Seq(T) /\ s[k + 1] \in Seq(T)
          BY <4>2, <5>1
        <5> DEFINE x == J[k]
                   y == s[k + 1]
        <5>4. x \o y \in Seq(T)
          <6> HIDE DEF x, y
          <6>1. x \in Seq(T) /\ y \in Seq(T)
            BY <5>3 DEF x, y
          <6> QED
            BY <6>1
        <5>5. J[k + 1] \in Seq(T)
          BY <5>2, <5>4
        <5> QED
          BY <5>1, <5>5
      <4> HIDE DEF G
      <4> QED
        BY <4>1, <4>2, CountUp
    <3> QED
      BY <3>0
  <2>3. \A i \in 0..(n - 1) : J[i + 1] = J[i] \o s[i + 1]
    <3> SUFFICES ASSUME NEW i \in 0..(n - 1) PROVE J[i + 1] = J[i] \o s[i + 1]
      OBVIOUS
    <3>1. i + 1 \in 0..n /\ i + 1 # 0 /\ (i + 1) - 1 = i
      OBVIOUS
    <3> QED
      BY <2>1, <3>1 DEF Joins
  <2>4. J[0] = <<>> /\ J \in [0..n -> Seq(T)]
    BY <2>1, <2>2 DEF Joins
  <2> DEFINE K == [i \in 1..n |-> J[i]]
  <2>5. FlattenRec(s, K)
    <3>1. ASSUME NEW i \in 1..n
          PROVE  J[i] = IF i = 1 THEN s[i] ELSE K[i - 1] \o s[i]
      <4>1. CASE i = 1
        <5>1. J[1] = J[0] \o s[1]
          <6>1. 0 \in 0..(n - 1) /\ 0 + 1 = 1
            BY <1>2
          <6> QED
            BY <2>3, <6>1
        <5>2. s[1] \in Seq(T)
          BY <1>2
        <5> QED
          BY <2>4, <4>1, <5>1, <5>2
      <4>2. CASE i # 1
        <5>1. i - 1 \in 1..n /\ i - 1 \in 0..(n - 1) /\ (i - 1) + 1 = i
          BY <4>2
        <5>2. K[i - 1] = J[i - 1]
          BY <5>1
        <5> QED
          BY <2>3, <4>2, <5>1, <5>2
      <4> QED
        BY <4>1, <4>2
    <3> QED
      BY <1>0, <3>1 DEF FlattenRec
  <2> DEFINE F == CHOOSE f : FlattenRec(s, f)
  <2>6. FlattenRec(s, F)
    <3> HIDE DEF K
    <3> QED
      BY <2>5
  <2>7. FlattenSeq(s) = F[n]
    BY <1>0, <1>2, FlattenIsChosen
  <2> HIDE DEF F
  <2>8. F[n] = J[n]
    <3> DEFINE G == {k \in 0..n : k # 0 => F[k] = J[k]}
    <3>1. 0 \in G
      OBVIOUS
    <3>2. ASSUME NEW k \in 0..(n - 1), k \in G PROVE k + 1 \in G
      <4>1. k + 1 \in 1..n /\ k + 1 \in 0..n /\ (k + 1) - 1 = k /\ (k + 1 = 1 <=> k = 0)
        OBVIOUS
      <4>2. F[k + 1] = IF k + 1 = 1 THEN s[k + 1] ELSE F[(k + 1) - 1] \o s[k + 1]
        BY <1>0, <2>6, <4>1 DEF FlattenRec
      <4>3. K[k + 1] = IF k + 1 = 1 THEN s[k + 1] ELSE K[(k + 1) - 1] \o s[k + 1]
        <5> HIDE DEF K
        <5> QED
          BY <1>0, <2>5, <4>1 DEF FlattenRec
      <4>4. K[k + 1] = J[k + 1]
        BY <4>1
      <4>5. k # 0 => F[k] = J[k] /\ K[k] = J[k]
        BY <3>2
      <4> HIDE DEF K
      <4>6. F[k + 1] = J[k + 1]
        BY <4>1, <4>2, <4>3, <4>4, <4>5
      <4> QED
        BY <4>1, <4>6
    <3>3. n \in G
      <4> HIDE DEF G
      <4> QED
        BY <3>1, <3>2, CountUp
    <3> QED
      BY <1>2, <3>3
  <2> QED
    BY <2>3, <2>4, <2>7, <2>8 DEF Flattens
<1> QED
  BY <1>1, <1>2

\* T has the tokens every payload is written with.
HasTokens(T) ==
  /\ Punct("lbrace") \in T /\ Punct("rbrace") \in T
  /\ Punct("comma") \in T /\ Punct("colon") \in T

\* The first member of a payload.
LEMMA FirstWritten ==
  ASSUME NEW T, HasTokens(T), NEW k, Key(k) \in T, NEW x \in T, IsString(x)
  PROVE  Written(T, <<Punct("lbrace"), Key(k), Punct("colon"), x>>, <<<<Key(k), x>>>>)
<1> DEFINE b == <<Punct("lbrace"), Key(k), Punct("colon"), x>>
           m == <<Key(k), x>>
           ms == <<m>>
           e == [j \in 0..1 |-> IF j = 0 THEN 1 ELSE 5]
<1>1. b \in Seq(T) /\ Len(b) = 4
  BY DEF HasTokens
<1>2. m \in Values(T)
  BY DEF Values
<1>3. ms \in Seq(Values(T)) /\ Len(ms) = 1 /\ ms[1] = m
  <2> HIDE DEF m
  <2> QED
    BY <1>2
<1>4. /\ TokenAt(b, 1) = Punct("lbrace") /\ TokenAt(b, 2) = Key(k)
      /\ TokenAt(b, 3) = Punct("colon") /\ TokenAt(b, 4) = x
      /\ b[2] = Key(k) /\ b[4] = x
  BY <1>1 DEF TokenAt
<1>5. IsName(Key(k))
  BY DEF IsName, Key
<1> HIDE DEF b
<1>6. MemberAt(b, 2, 5, m)
  <2>1. 2 + 1 = 3 /\ 2 + 2 = 4 /\ 2 + 3 = 5
    OBVIOUS
  <2> QED
    BY <1>4, <1>5, <2>1 DEF MemberAt
<1>7. e \in [0..1 -> Nat \ {0}] /\ e[0] = 1 /\ e[1] = 5
  OBVIOUS
<1> HIDE DEF e
<1>8. MembersAt(b, 1, e, ms)
  <2>1. \A j \in 1..1 : j = 1 /\ j - 1 = 0
    OBVIOUS
  <2>2. \A j \in 1..1 : MemberAt(b, e[j - 1] + 1, e[j], ms[j])
    <3>1. e[0] + 1 = 2
      BY <1>7
    <3> HIDE DEF ms
    <3> QED
      BY <1>3, <1>6, <1>7, <2>1, <3>1
  <2>3. \A j \in 1..(1 - 1) : TokenAt(b, e[j]) = Punct("comma")
    <3>1. 1..(1 - 1) = {}
      OBVIOUS
    <3> QED
      BY <3>1
  <2> HIDE DEF ms
  <2> QED
    BY <1>4, <1>7, <2>2, <2>3 DEF MembersAt
<1> HIDE DEF ms
<1>9. e[Len(ms)] = Len(b) + 1
  BY <1>1, <1>3, <1>7
<1>10. Written(T, b, ms)
  BY <1>1, <1>3, <1>8, <1>9 DEF Written
<1> QED
  BY <1>10 DEF b, ms

\* A key after a comma.
LEMMA KeyAppended ==
  ASSUME NEW T, HasTokens(T), NEW b \in Seq(T), NEW k, Key(k) \in T
  PROVE  LET a == appendKey(b, k)
             l == Len(b)
         IN  /\ a \in Seq(T) /\ Len(a) = l + 3
             /\ Extends(b, a)
             /\ TokenAt(a, l + 1) = Punct("comma")
             /\ TokenAt(a, l + 2) = Key(k) /\ a[l + 2] = Key(k)
             /\ TokenAt(a, l + 3) = Punct("colon")
<1> DEFINE w == <<Punct("comma"), Key(k), Punct("colon")>>
           a == b \o w
           l == Len(b)
<1>1. w \in Seq(T) /\ Len(w) = 3 /\ w[1] = Punct("comma") /\ w[2] = Key(k) /\ w[3] = Punct("colon")
  BY DEF HasTokens
<1>2. l \in Nat
  BY LenProperties
<1> HIDE DEF w
<1>3. a \in Seq(T) /\ Len(a) = Len(b) + Len(w)
      /\ \A i \in 1..(Len(b) + Len(w)) : a[i] = IF i <= Len(b) THEN b[i] ELSE w[i - Len(b)]
  BY <1>1, ConcatProperties
<1>4. Len(a) = l + 3 /\ \A i \in 1..(l + 3) : a[i] = IF i <= l THEN b[i] ELSE w[i - l]
  BY <1>1, <1>3
<1> HIDE DEF l, a
<1>5. a[l + 1] = w[1] /\ a[l + 2] = w[2] /\ a[l + 3] = w[3]
  <2>1. /\ l + 1 \in 1..(l + 3) /\ ~ (l + 1 <= l) /\ (l + 1) - l = 1
        /\ l + 2 \in 1..(l + 3) /\ ~ (l + 2 <= l) /\ (l + 2) - l = 2
        /\ l + 3 \in 1..(l + 3) /\ ~ (l + 3 <= l) /\ (l + 3) - l = 3
    BY <1>2
  <2> QED
    BY <1>4, <2>1
<1>6. \A i \in 1..l : a[i] = b[i]
  <2>1. \A i \in 1..l : i \in 1..(l + 3) /\ i <= l
    BY <1>2
  <2> QED
    BY <1>4, <2>1
<1>7. l \in Nat /\ l + 3 \in Nat /\ l <= l + 3
  BY <1>2
<1>8. Extends(b, a)
  BY <1>4, <1>6, <1>7 DEF Extends, l
<1>9. l + 1 \in 1..Len(a) /\ l + 2 \in 1..Len(a) /\ l + 3 \in 1..Len(a)
  BY <1>2, <1>4
<1>10. /\ TokenAt(a, l + 1) = Punct("comma") /\ TokenAt(a, l + 2) = Key(k)
       /\ TokenAt(a, l + 3) = Punct("colon")
  BY <1>1, <1>5, <1>9 DEF TokenAt
<1>11. appendKey(b, k) = a
  BY DEF appendKey, a, w
<1> QED
  BY <1>1, <1>3, <1>4, <1>5, <1>8, <1>10, <1>11 DEF l

\* The same, and further.
LEMMA ExtendsFurther ==
  ASSUME NEW b, NEW a, NEW t, Extends(b, a), Extends(a, t)
  PROVE  Extends(b, t)
<1>1. /\ Len(b) \in Nat /\ Len(a) \in Nat /\ Len(t) \in Nat
      /\ Len(b) <= Len(a) /\ Len(a) <= Len(t)
      /\ \A i \in 1..Len(b) : a[i] = b[i]
      /\ \A i \in 1..Len(a) : t[i] = a[i]
  BY DEF Extends
<1> QED
  BY <1>1 DEF Extends

\* One more token.
LEMMA TokenAppended ==
  ASSUME NEW T, NEW b \in Seq(T), NEW x \in T
  PROVE  /\ Append(b, x) \in Seq(T) /\ Len(Append(b, x)) = Len(b) + 1
         /\ Extends(b, Append(b, x))
         /\ TokenAt(Append(b, x), Len(b) + 1) = x
         /\ Append(b, x)[Len(b) + 1] = x
<1> DEFINE a == Append(b, x)
           l == Len(b)
<1>1. l \in Nat
  BY LenProperties
<1>2. a \in Seq(T) /\ Len(a) = l + 1 /\ a[l + 1] = x /\ \A i \in 1..l : a[i] = b[i]
  BY AppendProperties
<1> HIDE DEF a, l
<1>3. l + 1 \in Nat /\ l <= l + 1 /\ l + 1 \in 1..(l + 1)
  BY <1>1
<1>4. Extends(b, a)
  BY <1>1, <1>2, <1>3 DEF Extends, l
<1>5. TokenAt(a, l + 1) = x
  BY <1>2, <1>3 DEF TokenAt
<1> QED
  BY <1>2, <1>4, <1>5 DEF a, l

\* A member that is a string.
LEMMA KvWritten ==
  ASSUME NEW T, HasTokens(T), NEW b, NEW ms, Written(T, b, ms),
         NEW k, Key(k) \in T, NEW x \in T, IsString(x)
  PROVE  Written(T, kv(b, k, x), Append(ms, <<Key(k), x>>))
<1> DEFINE a == appendKey(b, k)
           t == Append(a, x)
           l == Len(b)
           m == <<Key(k), x>>
<1>1. b \in Seq(T) /\ l \in Nat
  <2>1. b \in Seq(T)
    BY DEF Written
  <2> QED
    BY <2>1, LenProperties
<1>2. /\ a \in Seq(T) /\ Len(a) = l + 3
      /\ Extends(b, a)
      /\ TokenAt(a, l + 1) = Punct("comma")
      /\ TokenAt(a, l + 2) = Key(k) /\ a[l + 2] = Key(k)
      /\ TokenAt(a, l + 3) = Punct("colon")
  BY <1>1, KeyAppended
<1> HIDE DEF a, l
<1>3. /\ t \in Seq(T) /\ Len(t) = Len(a) + 1 /\ Extends(a, t)
      /\ TokenAt(t, Len(a) + 1) = x /\ t[Len(a) + 1] = x
  BY <1>2, TokenAppended
<1>4. (l + 3) + 1 = l + 4 /\ (l + 4) + 1 = l + 5 /\ (l + 2) + 1 = l + 3 /\ (l + 2) + 2 = l + 4
      /\ (l + 2) + 3 = l + 5
  BY <1>1
<1>5. Len(t) + 1 = l + 5 /\ TokenAt(t, l + 4) = x /\ t[l + 4] = x
  BY <1>2, <1>3, <1>4
<1> HIDE DEF t
<1>6. Extends(b, t)
  BY <1>2, <1>3, ExtendsFurther
<1>7. Key(k) # Punct("end") /\ IsName(Key(k))
  BY DEF Key, Punct, IsName
<1>8. /\ TokenAt(t, l + 1) = Punct("comma")
      /\ TokenAt(t, l + 2) = Key(k) /\ t[l + 2] = Key(k)
      /\ TokenAt(t, l + 3) = Punct("colon")
  BY <1>2, <1>3, <1>7, TokensEnd, TokenKept
<1>9. MemberAt(t, l + 2, l + 5, m)
  BY <1>4, <1>5, <1>7, <1>8 DEF MemberAt
<1>10. m \in Values(T)
  BY DEF Values
<1> HIDE DEF m
<1>11. Written(T, t, Append(ms, m))
  BY <1>3, <1>5, <1>6, <1>8, <1>9, <1>10, MemberWritten DEF l
<1> QED
  BY <1>11 DEF kv, a, t, m

\* Tokens after tokens.
LEMMA ManyAppended ==
  ASSUME NEW T, NEW b \in Seq(T), NEW w \in Seq(T)
  PROVE  LET t == b \o w
             l == Len(b)
         IN  /\ t \in Seq(T) /\ Len(t) = l + Len(w) /\ Extends(b, t)
             /\ \A i \in 1..Len(w) : t[l + i] = w[i] /\ TokenAt(t, l + i) = w[i]
<1> DEFINE t == b \o w
           l == Len(b)
           k == Len(w)
<1>1. l \in Nat /\ k \in Nat
  BY LenProperties
<1>2. t \in Seq(T) /\ Len(t) = l + k
      /\ \A i \in 1..(l + k) : t[i] = IF i <= l THEN b[i] ELSE w[i - l]
  BY ConcatProperties
<1> HIDE DEF t, l, k
<1>3. \A i \in 1..l : i \in 1..(l + k) /\ i <= l
  BY <1>1
<1>4. \A i \in 1..l : t[i] = b[i]
  BY <1>2, <1>3
<1>5. l + k \in Nat /\ l <= l + k
  BY <1>1
<1>6. Extends(b, t)
  BY <1>1, <1>2, <1>4, <1>5 DEF Extends, l
<1>7. ASSUME NEW i \in 1..k PROVE t[l + i] = w[i] /\ TokenAt(t, l + i) = w[i]
  <2>1. l + i \in 1..(l + k) /\ ~ (l + i <= l) /\ (l + i) - l = i
    BY <1>1
  <2>2. t[l + i] = w[i]
    BY <1>2, <2>1
  <2> QED
    BY <1>2, <2>1, <2>2 DEF TokenAt
<1> QED
  BY <1>2, <1>6, <1>7 DEF t, l, k

\* What is appended for a header: a comma unless it is the first, and its strings.
Pair(n, x, y) ==
  (IF n > 0 THEN <<Punct("comma")>> ELSE <<>>) \o <<x, Punct("colon"), y>>

\* Its tokens, one by one.
LEMMA PairTokens ==
  ASSUME NEW T, HasTokens(T), NEW n \in Nat, NEW x \in T, NEW y \in T
  PROVE  LET w == Pair(n, x, y)
             d == IF n > 0 THEN 1 ELSE 0
         IN  /\ w \in Seq(T) /\ Len(w) = d + 3
             /\ w[d + 1] = x /\ w[d + 2] = Punct("colon") /\ w[d + 3] = y
             /\ n > 0 => w[1] = Punct("comma")
<1> DEFINE v == <<x, Punct("colon"), y>>
           c == <<Punct("comma")>>
<1>1. v \in Seq(T) /\ Len(v) = 3 /\ v[1] = x /\ v[2] = Punct("colon") /\ v[3] = y
  BY DEF HasTokens
<1>2. c \in Seq(T) /\ Len(c) = 1 /\ c[1] = Punct("comma")
  BY DEF HasTokens
<1> HIDE DEF v, c
<1>3. <<>> \o v = v
  BY <1>1, ConcatEmptySeq
<1>4. c \o v \in Seq(T) /\ Len(c \o v) = Len(v) + 1 /\ (c \o v)[1] = c[1]
      /\ \A i \in 1..Len(v) : (c \o v)[i + 1] = v[i]
  <2>1. v \in Seq(T) /\ c \in Seq(T) /\ Len(c) = 1
    BY <1>1, <1>2
  <2> QED
    BY <2>1, InFront
<1>5. Pair(n, x, y) = IF n > 0 THEN c \o v ELSE v
  BY <1>3 DEF Pair, c, v
<1>6. CASE n > 0
  <2>1. 1 \in 1..3 /\ 2 \in 1..3 /\ 3 \in 1..3 /\ 1 + 1 = 2 /\ 2 + 1 = 3 /\ 3 + 1 = 4
        /\ 1 + 2 = 3 /\ 1 + 3 = 4
    OBVIOUS
  <2> DEFINE w == c \o v
  <2>2. w \in Seq(T) /\ Len(w) = 4 /\ w[1] = Punct("comma")
        /\ w[2] = x /\ w[3] = Punct("colon") /\ w[4] = y
    <3> HIDE DEF w
    <3> QED
      BY <1>1, <1>2, <1>4, <2>1 DEF w
  <2> HIDE DEF w
  <2>3. Pair(n, x, y) = w
    BY <1>5, <1>6 DEF w
  <2> QED
    BY <1>6, <2>1, <2>2, <2>3
<1>7. CASE ~ (n > 0)
  <2>1. 0 + 1 = 1 /\ 0 + 2 = 2 /\ 0 + 3 = 3
    OBVIOUS
  <2>2. Pair(n, x, y) = v
    BY <1>5, <1>7
  <2> QED
    BY <1>1, <1>7, <2>1, <2>2
<1> QED
  BY <1>6, <1>7

\* The n members ms and one more.
OneMore(n, ms, m, u) ==
  /\ u = [j \in 1..(n + 1) |-> u[j]]
  /\ u[n + 1] = m
  /\ \A j \in 1..n : u[j] = ms[j]

\* The object grows by a member of two strings.
LEMMA OpenGrows ==
  ASSUME NEW T, HasTokens(T), NEW b \in Seq(T), NEW q, NEW n, NEW ms,
         OpenAt(b, q, n, ms), Len(b) + 1 = Closing(q, n),
         NEW x \in T, IsName(x), NEW y \in T, IsString(y),
         NEW u, OneMore(n, ms, <<x, y>>, u)
  PROVE  LET t == b \o Pair(n, x, y)
         IN  /\ t \in Seq(T) /\ OpenAt(t, q, n + 1, u)
             /\ Len(t) + 1 = Closing(q, n + 1) /\ Extends(b, t)
<1> DEFINE w == Pair(n, x, y)
           t == b \o w
           d == IF n > 0 THEN 1 ELSE 0
           l == Len(b)
<1>1. q \in Nat \ {0} /\ n \in Nat /\ l \in Nat
  <2>1. l \in Nat
    BY LenProperties
  <2> QED
    BY <2>1 DEF OpenAt
<1>2. /\ w \in Seq(T) /\ Len(w) = d + 3
      /\ w[d + 1] = x /\ w[d + 2] = Punct("colon") /\ w[d + 3] = y
      /\ n > 0 => w[1] = Punct("comma")
  BY <1>1, PairTokens
<1> HIDE DEF w
<1>3. /\ t \in Seq(T) /\ Len(t) = l + Len(w) /\ Extends(b, t)
      /\ \A i \in 1..Len(w) : t[l + i] = w[i] /\ TokenAt(t, l + i) = w[i]
  <2>1. w \in Seq(T)
    BY <1>2
  <2> QED
    BY <2>1, ManyAppended
<1>4. d \in {0, 1} /\ l + d = q + 4 * n
  BY <1>1 DEF Closing
<1> DEFINE e == q + 4 * n
<1>5. e \in Nat /\ q + 4 * (n + 1) - 3 = e + 1 /\ q + 4 * (n + 1) - 2 = e + 2 /\ q + 4 * (n + 1) - 1 = e + 3
      /\ q + 4 * (n + 1) = e + 4
  BY <1>1
<1> HIDE DEF t, d, e, l
<1>6. /\ l + (d + 1) = e + 1 /\ l + (d + 2) = e + 2 /\ l + (d + 3) = e + 3
      /\ d + 1 \in 1..(d + 3) /\ d + 2 \in 1..(d + 3) /\ d + 3 \in 1..(d + 3)
  <2>1. l + d = e /\ d \in Nat /\ l \in Nat /\ e \in Nat
    BY <1>1, <1>4, <1>5 DEF e
  <2> QED
    BY <2>1
<1>7. /\ t[e + 1] = x /\ TokenAt(t, e + 1) = x
      /\ TokenAt(t, e + 2) = Punct("colon")
      /\ t[e + 3] = y /\ TokenAt(t, e + 3) = y
  <2>1. /\ t[l + (d + 1)] = x /\ TokenAt(t, l + (d + 1)) = x
        /\ TokenAt(t, l + (d + 2)) = Punct("colon")
        /\ t[l + (d + 3)] = y /\ TokenAt(t, l + (d + 3)) = y
    BY <1>2, <1>3, <1>6
  <2> QED
    BY <1>6, <2>1
<1>8. ASSUME n > 0 PROVE TokenAt(t, q + 4 * n) = Punct("comma")
  <2>1. d = 1
    BY <1>8 DEF d
  <2>2. 1 \in 1..(d + 3) /\ l + 1 = q + 4 * n
    BY <1>4, <2>1
  <2>3. TokenAt(t, l + 1) = w[1]
    BY <1>2, <1>3, <2>2
  <2> QED
    BY <1>2, <1>8, <2>2, <2>3
<1>9. Len(t) + 1 = Closing(q, n + 1)
  <2>1. Len(t) = e + 3
    BY <1>2, <1>3, <1>6
  <2>2. Closing(q, n + 1) = q + 4 * (n + 1)
    <3>1. n + 1 # 0
      BY <1>1
    <3> QED
      BY <3>1 DEF Closing
  <2> QED
    BY <1>5, <2>1, <2>2
<1>10. OpenAt(t, q, n, ms)
  BY <1>3, ObjectKept
<1>11. ASSUME NEW j \in 1..(n + 1)
       PROVE  /\ IsName(TokenAt(t, q + 4 * j - 3))
              /\ TokenAt(t, q + 4 * j - 2) = Punct("colon")
              /\ IsString(TokenAt(t, q + 4 * j - 1))
              /\ u[j] = <<t[q + 4 * j - 3], t[q + 4 * j - 1]>>
  <2>1. CASE j = n + 1
    BY <1>5, <1>7, <2>1 DEF OneMore
  <2>2. CASE j # n + 1
    <3>1. j \in 1..n
      BY <1>1, <2>2
    <3>4. ms = [i \in 1..n |-> <<t[q + 4 * i - 3], t[q + 4 * i - 1]>>]
      BY <1>10 DEF OpenAt
    <3>2. /\ IsName(TokenAt(t, q + 4 * j - 3))
          /\ TokenAt(t, q + 4 * j - 2) = Punct("colon")
          /\ IsString(TokenAt(t, q + 4 * j - 1))
      BY <1>10, <3>1 DEF OpenAt
    <3>3. u[j] = ms[j]
      BY <3>1 DEF OneMore
    <3> QED
      BY <3>1, <3>2, <3>3, <3>4
  <2> QED
    BY <2>1, <2>2
<1>12. ASSUME NEW j \in 1..n PROVE TokenAt(t, q + 4 * j) = Punct("comma")
  <2>1. CASE j = n
    <3>1. n > 0
      BY <1>1, <2>1
    <3> QED
      BY <1>8, <2>1, <3>1
  <2>2. CASE j # n
    <3>1. j \in 1..(n - 1)
      BY <1>1, <2>2
    <3> QED
      BY <1>10, <3>1 DEF OpenAt
  <2> QED
    BY <2>1, <2>2
<1>13. u = [j \in 1..(n + 1) |-> <<t[q + 4 * j - 3], t[q + 4 * j - 1]>>]
  BY <1>11 DEF OneMore
<1>14. TokenAt(t, q) = Punct("lbrace")
  BY <1>10 DEF OpenAt
<1>15. OpenAt(t, q, n + 1, u)
  <2>1. (n + 1) - 1 = n /\ n + 1 \in Nat
    BY <1>1
  <2> QED
    BY <1>1, <1>11, <1>12, <1>13, <1>14, <2>1 DEF OpenAt
<1> QED
  BY <1>3, <1>9, <1>15 DEF t, w

\* Tokens after tokens after tokens.
LEMMA JoinedOnto ==
  ASSUME NEW T, NEW c \in Seq(T), NEW f \in Seq(T), NEW w \in Seq(T),
         NEW b, b = c \o f, NEW g, g = f \o w
  PROVE  c \o g = b \o w
<1>1. (c \o f) \o w = c \o (f \o w)
  BY ConcatAssociative
<1> QED
  BY <1>1

\* t is a, with an object that opens at q, of the n members ms, still open.
Opened(T, a, q, n, ms, t) ==
  /\ t \in Seq(T) /\ OpenAt(t, q, n, ms)
  /\ Len(t) + 1 = Closing(q, n) /\ Extends(a, t)

\* The first n of the pairs of x and y.
Firsts(x, y, n) == [j \in 1..n |-> <<x[j], y[j]>>]

\* What appendHeaders appends between the braces.
Lines(x, y, n) == [j \in 1..n |-> Pair(j - 1, x[j], y[j])]

\* What is joined of s, in braces.
Braced(a, s) == Append(Append(a, Punct("lbrace")) \o FlattenSeq(s), Punct("rbrace"))

\* t is a, with an object of the n members ms.
HasObject(T, a, n, ms, t) ==
  /\ t \in Seq(T) /\ Extends(a, t)
  /\ ObjectAt(t, Len(a) + 1, n, ms)
  /\ Len(t) = Closing(Len(a) + 1, n)

\* An object of strings after the tokens a.
LEMMA ObjectWritten ==
  ASSUME NEW T, HasTokens(T), NEW a \in Seq(T), NEW n \in Nat,
         NEW x \in [1..n -> T], NEW y \in [1..n -> T],
         \A j \in 1..n : IsName(x[j]) /\ IsString(y[j])
  PROVE  HasObject(T, a, n, Firsts(x, y, n), Braced(a, Lines(x, y, n)))
<1> DEFINE c == Append(a, Punct("lbrace"))
           q == Len(a) + 1
           s == Lines(x, y, n)
<1>0. Punct("lbrace") \in T /\ Punct("rbrace") \in T
  BY DEF HasTokens
<1>1. /\ c \in Seq(T) /\ Len(c) = q /\ Extends(a, c)
      /\ TokenAt(c, q) = Punct("lbrace")
  BY <1>0, TokenAppended
<1>2. q \in Nat \ {0}
  <2>1. Len(a) \in Nat
    BY LenProperties
  <2> QED
    BY <2>1
<1> HIDE DEF c, q
<1>3. \A j \in 1..n : s[j] = Pair(j - 1, x[j], y[j]) /\ s[j] \in Seq(T)
  <2> SUFFICES ASSUME NEW j \in 1..n PROVE s[j] = Pair(j - 1, x[j], y[j]) /\ s[j] \in Seq(T)
    OBVIOUS
  <2>1. j - 1 \in Nat /\ x[j] \in T /\ y[j] \in T
    OBVIOUS
  <2>2. Pair(j - 1, x[j], y[j]) \in Seq(T)
    BY <2>1, PairTokens
  <2> QED
    BY <2>2 DEF Lines
<1>4. s \in [1..n -> Seq(T)]
  BY <1>3 DEF Lines
<1> HIDE DEF s
<1>14. PICK F : Flattens(T, s, n, F)
  BY <1>4, FlattenJoins
<1>5. /\ F \in [0..n -> Seq(T)]
      /\ F[0] = <<>> /\ F[n] = FlattenSeq(s)
      /\ \A i \in 0..(n - 1) : F[i + 1] = F[i] \o s[i + 1]
  BY <1>14 DEF Flattens
<1> DEFINE Open(i) == Opened(T, a, q, i, Firsts(x, y, i), c \o F[i])
           G == {i \in 0..n : Open(i)}
<1>6. 0 \in G
  <2>1. c \o F[0] = c
    BY <1>1, <1>5, ConcatEmptySeq
  <2>2. OpenAt(c, q, 0, Firsts(x, y, 0))
    <3>1. 1..0 = {} /\ 1..(0 - 1) = {} /\ 0 \in Nat
      OBVIOUS
    <3>2. Firsts(x, y, 0) = [j \in 1..0 |-> <<c[q + 4 * j - 3], c[q + 4 * j - 1]>>]
      BY <3>1 DEF Firsts
    <3> QED
      BY <1>1, <1>2, <3>1, <3>2 DEF OpenAt
  <2>3. Len(c) + 1 = Closing(q, 0)
    BY <1>1 DEF Closing
  <2>4. Opened(T, a, q, 0, Firsts(x, y, 0), c)
    BY <1>1, <2>2, <2>3 DEF Opened
  <2>5. Open(0) /\ 0 \in 0..n
    BY <2>1, <2>4
  <2> HIDE DEF Open
  <2> QED
    BY <2>5
<1>7. ASSUME NEW i \in 0..(n - 1), i \in G PROVE i + 1 \in G
  <2> DEFINE b == c \o F[i]
             w == Pair(i, x[i + 1], y[i + 1])
             u == Firsts(x, y, i + 1)
             ms == Firsts(x, y, i)
  <2>1. i + 1 \in 1..n /\ (i + 1) - 1 = i /\ i \in 0..n /\ i + 1 \in 0..n
    OBVIOUS
  <2>2. w \in Seq(T) /\ s[i + 1] = w
    BY <1>3, <2>1
  <2>3. c \o F[i + 1] = b \o w
    <3>1. F[i] \in Seq(T) /\ F[i + 1] = F[i] \o w
      BY <1>5, <2>1, <2>2
    <3> DEFINE f == F[i]
               g == F[i + 1]
    <3>2. f \in Seq(T) /\ g = f \o w /\ b = c \o f
      BY <3>1
    <3>3. c \o g = b \o w
      <4>1. c \in Seq(T) /\ f \in Seq(T) /\ w \in Seq(T)
        BY <1>1, <2>2, <3>2
      <4> HIDE DEF f, g, b, w
      <4> QED
        BY <4>1, <3>2, JoinedOnto
    <3> QED
      BY <3>3
  <2>4. /\ b \in Seq(T) /\ OpenAt(b, q, i, ms)
        /\ Len(b) + 1 = Closing(q, i) /\ Extends(a, b)
    BY <1>7 DEF Opened
  <2>5. OneMore(i, ms, <<x[i + 1], y[i + 1]>>, u)
    <3>1. \A j \in 1..i : j \in 1..(i + 1)
      BY <2>1
    <3>2. i + 1 \in 1..(i + 1)
      BY <2>1
    <3> QED
      BY <3>1, <3>2 DEF OneMore, Firsts
  <2>6. /\ x[i + 1] \in T /\ IsName(x[i + 1])
        /\ y[i + 1] \in T /\ IsString(y[i + 1])
    BY <2>1
  <2> HIDE DEF u, ms, b
  <2>7. /\ b \o w \in Seq(T) /\ OpenAt(b \o w, q, i + 1, u)
        /\ Len(b \o w) + 1 = Closing(q, i + 1) /\ Extends(b, b \o w)
    BY <2>4, <2>5, <2>6, OpenGrows
  <2>8. Extends(a, b \o w)
    BY <2>4, <2>7, ExtendsFurther
  <2>9. Opened(T, a, q, i + 1, u, b \o w)
    BY <2>7, <2>8 DEF Opened
  <2> HIDE DEF w
  <2> QED
    BY <2>1, <2>3, <2>9 DEF u
<1>8. n \in G
  <2> HIDE DEF G
  <2> QED
    BY <1>6, <1>7, CountUp
<1> DEFINE r == c \o FlattenSeq(s)
           ms == Firsts(x, y, n)
           t == Append(r, Punct("rbrace"))
<1>9. Opened(T, a, q, n, ms, r)
  BY <1>5, <1>8
<1> HIDE DEF r, ms
<1>10. /\ r \in Seq(T) /\ OpenAt(r, q, n, ms)
       /\ Len(r) + 1 = Closing(q, n) /\ Extends(a, r)
  BY <1>9 DEF Opened
<1>11. /\ t \in Seq(T) /\ Len(t) = Len(r) + 1 /\ Extends(r, t)
       /\ TokenAt(t, Len(r) + 1) = Punct("rbrace")
  BY <1>0, <1>10, TokenAppended
<1> HIDE DEF t
<1>12. Extends(a, t) /\ OpenAt(t, q, n, ms)
  BY <1>10, <1>11, ExtendsFurther, ObjectKept
<1>13. ObjectAt(t, q, n, ms) /\ Len(t) = Closing(q, n)
  BY <1>10, <1>11, <1>12 DEF ObjectAt
<1>15. t = Braced(a, Lines(x, y, n))
  BY DEF t, r, c, s, Braced
<1> QED
  BY <1>11, <1>12, <1>13, <1>15 DEF HasObject, q, ms

\* The members ms are the elements of M, once each, and are named by K.
Counts(ms, M, K) ==
  /\ IsFiniteSet(M) /\ Cardinality(M) = Len(ms)
  /\ {ms[j] : j \in 1..Len(ms)} = M
  /\ \A m \in M : \E k \in K : m[1] = Key(k)

\* A payload that is not closed yet has the members M, named by K.
Holds(T, b, M, K) == \E ms : Written(T, b, ms) /\ Counts(ms, M, K)

\* A member with a name of its own is one more.
LEMMA OneCounted ==
  ASSUME NEW X, NEW ms \in Seq(X), NEW M, NEW K, Counts(ms, M, K),
         NEW k, k \notin K, NEW v, <<Key(k), v>> \in X
  PROVE  Counts(Append(ms, <<Key(k), v>>), M \cup {<<Key(k), v>>}, K \cup {k})
<1> DEFINE m == <<Key(k), v>>
           u == Append(ms, m)
           n == Len(ms)
           N == M \cup {m}
<1>1. /\ IsFiniteSet(M) /\ Cardinality(M) = n
      /\ {ms[j] : j \in 1..n} = M
      /\ \A x \in M : \E i \in K : x[1] = Key(i)
  BY DEF Counts
<1>2. m \notin M
  <2> SUFFICES ASSUME m \in M PROVE FALSE
    OBVIOUS
  <2>1. PICK i \in K : m[1] = Key(i)
    BY <1>1
  <2>2. Key(k) = Key(i)
    BY <2>1
  <2>3. Key(k).key = Key(i).key
    BY <2>2
  <2>4. k = i
    BY <2>3 DEF Key
  <2> QED
    BY <2>1, <2>4
<1>3. m[1] = Key(k) /\ m \in X
  OBVIOUS
<1> HIDE DEF m
<1>4. n \in Nat
  BY LenProperties
<1>5. Len(u) = n + 1 /\ u[n + 1] = m /\ \A j \in 1..n : u[j] = ms[j]
  BY <1>3, AppendProperties
<1> HIDE DEF u, n
<1>6. IsFiniteSet(N) /\ Cardinality(N) = n + 1
  BY <1>1, <1>2, FS_AddElement
<1>7. {u[j] : j \in 1..(n + 1)} = N
  <2>1. ASSUME NEW j \in 1..(n + 1) PROVE u[j] \in N
    <3>1. CASE j = n + 1
      BY <1>5, <3>1
    <3>2. CASE j # n + 1
      <4>1. j \in 1..n
        BY <1>4, <3>2
      <4>2. ms[j] \in {ms[i] : i \in 1..n}
        BY <4>1
      <4> QED
        BY <1>1, <1>5, <4>1, <4>2
    <3> QED
      BY <3>1, <3>2
  <2>2. ASSUME NEW x \in N PROVE \E j \in 1..(n + 1) : u[j] = x
    <3>1. CASE x = m
      <4>1. n + 1 \in 1..(n + 1)
        BY <1>4
      <4> QED
        BY <1>5, <3>1, <4>1
    <3>2. CASE x \in M
      <4>1. PICK j \in 1..n : ms[j] = x
        BY <1>1, <3>2
      <4>2. j \in 1..(n + 1)
        BY <1>4
      <4> QED
        BY <1>5, <4>1, <4>2
    <3> QED
      BY <3>1, <3>2
  <2> HIDE DEF N
  <2> QED
    BY <2>1, <2>2
<1>8. \A x \in N : \E i \in K \cup {k} : x[1] = Key(i)
  BY <1>1, <1>3
<1> HIDE DEF N
<1>9. Counts(u, N, K \cup {k})
  BY <1>5, <1>6, <1>7, <1>8 DEF Counts
<1> QED
  BY <1>9 DEF u, N, m

\* Closed, the payload has these members and no other.
LEMMA HeldIsRead ==
  ASSUME NEW T, HasTokens(T), NEW b, NEW M, NEW K, Holds(T, b, M, K)
  PROVE  HasMembers(Append(b, Punct("rbrace")), M)
<1>1. PICK ms : Written(T, b, ms) /\ Counts(ms, M, K)
  BY DEF Holds
<1>2. Payload(Append(b, Punct("rbrace"))) = ms
  BY <1>1, WrittenReads DEF HasTokens
<1> QED
  BY <1>1, <1>2 DEF HasMembers, Counts

\* The first member.
LEMMA FirstHeld ==
  ASSUME NEW T, HasTokens(T), NEW k, Key(k) \in T, NEW x \in T, IsString(x)
  PROVE  Holds(T, <<Punct("lbrace"), Key(k), Punct("colon"), x>>, {<<Key(k), x>>}, {k})
<1> DEFINE b == <<Punct("lbrace"), Key(k), Punct("colon"), x>>
           m == <<Key(k), x>>
           ms == <<m>>
<1>1. Written(T, b, ms)
  BY FirstWritten
<1>2. m[1] = Key(k)
  OBVIOUS
<1> HIDE DEF b, m
<1>3. Counts(ms, {m}, {k})
  <2>1. Len(ms) = 1 /\ ms[1] = m /\ \A j \in 1..1 : j = 1
    OBVIOUS
  <2> HIDE DEF ms
  <2>2. {ms[j] : j \in 1..Len(ms)} = {m}
    BY <2>1
  <2>3. IsFiniteSet({m}) /\ Cardinality({m}) = 1
    BY FS_Singleton
  <2> QED
    BY <1>2, <2>1, <2>2, <2>3 DEF Counts
<1>4. Holds(T, b, {m}, {k})
  BY <1>1, <1>3 DEF Holds
<1> QED
  BY <1>4 DEF b, m

\* A member that is a string.
LEMMA KvHeld ==
  ASSUME NEW T, HasTokens(T), NEW b, NEW M, NEW K, Holds(T, b, M, K),
         NEW k, k \notin K, Key(k) \in T, NEW x \in T, IsString(x)
  PROVE  Holds(T, kv(b, k, x), M \cup {<<Key(k), x>>}, K \cup {k})
<1>1. PICK ms : Written(T, b, ms) /\ Counts(ms, M, K)
  BY DEF Holds
<1>2. Written(T, kv(b, k, x), Append(ms, <<Key(k), x>>))
  BY <1>1, KvWritten
<1>3. ms \in Seq(Values(T)) /\ <<Key(k), x>> \in Values(T)
  <2>1. ms \in Seq(Values(T))
    BY <1>1 DEF Written
  <2>2. <<Key(k), x>> \in Values(T)
    BY DEF Values
  <2> QED
    BY <2>1, <2>2
<1>4. Counts(Append(ms, <<Key(k), x>>), M \cup {<<Key(k), x>>}, K \cup {k})
  BY <1>1, <1>3, OneCounted
<1> QED
  BY <1>2, <1>4 DEF Holds

\* The members of a slice's text in two forms.
LEMMA SaysString == \A b, s : String(b, s) = Says(b, s)
BY DEF String, Says

\* T has the strings of the headers.
HasTexts(T, buf, hs) ==
  /\ Len(hs) \in Nat
  /\ \A j \in 1..Len(hs) : Says(buf, hs[j].name) \in T /\ Says(buf, hs[j].value) \in T

\* A member that is the object of the headers.
LEMMA HeadersHeld ==
  ASSUME NEW T, HasTokens(T), NEW b, NEW M, NEW K, Holds(T, b, M, K),
         NEW k, k \notin K, Key(k) \in T,
         NEW buf, NEW hs, HasTexts(T, buf, hs)
  PROVE  Holds(T, appendHeaders(appendKey(b, k), buf, hs),
               M \cup {<<Key(k), SaysHeaders(buf, hs)>>}, K \cup {k})
<1> DEFINE n == Len(hs)
           x == [j \in 1..n |-> Says(buf, hs[j].name)]
           y == [j \in 1..n |-> Says(buf, hs[j].value)]
           a == appendKey(b, k)
           t == appendHeaders(a, buf, hs)
           q == Len(a) + 1
           inner == SaysHeaders(buf, hs)
           m == <<Key(k), inner>>
           l == Len(b)
<1>1. x \in [1..n -> T] /\ y \in [1..n -> T]
  BY DEF HasTexts
<1>2. \A j \in 1..n : IsName(x[j]) /\ IsString(y[j])
  BY DEF IsName, IsString, Says, Str
<1>3. inner = Firsts(x, y, n)
  BY DEF Firsts, SaysHeaders
<1>4. t = Braced(a, Lines(x, y, n))
  <2>0. n \in Nat
    BY DEF HasTexts
  <2>1. \A j \in 1..n :
          (IF j > 1 THEN <<Punct("comma")>> ELSE <<>>) \o
            <<String(buf, hs[j].name), Punct("colon"), String(buf, hs[j].value)>>
          = Pair(j - 1, x[j], y[j])
    <3> SUFFICES ASSUME NEW j \in 1..n
                 PROVE  (IF j > 1 THEN <<Punct("comma")>> ELSE <<>>) \o
                          <<String(buf, hs[j].name), Punct("colon"), String(buf, hs[j].value)>>
                        = Pair(j - 1, x[j], y[j])
      OBVIOUS
    <3>1. (j > 1) <=> (j - 1 > 0)
      BY <2>0
    <3>2. x[j] = String(buf, hs[j].name) /\ y[j] = String(buf, hs[j].value)
      BY SaysString
    <3> HIDE DEF x, y
    <3> QED
      BY <3>1, <3>2 DEF Pair
  <2>2. [j \in 1..n |-> (IF j > 1 THEN <<Punct("comma")>> ELSE <<>>) \o
            <<String(buf, hs[j].name), Punct("colon"), String(buf, hs[j].value)>>]
        = Lines(x, y, n)
    <3> HIDE DEF x, y, n
    <3> QED
      BY <2>1 DEF Lines
  <2> HIDE DEF x, y, a
  <2> QED
    BY <2>2 DEF appendHeaders, Braced
<1>5. PICK ms : Written(T, b, ms) /\ Counts(ms, M, K)
  BY DEF Holds
<1>6. b \in Seq(T) /\ ms \in Seq(Values(T))
  BY <1>5 DEF Written
<1>7. /\ a \in Seq(T) /\ Len(a) = l + 3
      /\ Extends(b, a)
      /\ TokenAt(a, l + 1) = Punct("comma")
      /\ TokenAt(a, l + 2) = Key(k) /\ a[l + 2] = Key(k)
      /\ TokenAt(a, l + 3) = Punct("colon")
  BY <1>6, KeyAppended
<1> HIDE DEF x, y, a, t, n, inner
<1>8. /\ t \in Seq(T) /\ Extends(a, t) /\ ObjectAt(t, q, n, inner)
      /\ Len(t) = Closing(q, n)
  <2>1. n \in Nat
    BY DEF n, HasTexts
  <2>2. HasObject(T, a, n, inner, t)
    BY <1>1, <1>2, <1>3, <1>4, <1>7, <2>1, ObjectWritten
  <2> QED
    BY <2>2 DEF HasObject
<1>9. l \in Nat
  BY <1>6, LenProperties
<1>10. q = l + 4 /\ (l + 2) + 1 = l + 3 /\ (l + 2) + 2 = l + 4
  BY <1>7, <1>9
<1> HIDE DEF l, q
<1>11. Extends(b, t)
  BY <1>7, <1>8, ExtendsFurther
<1>12. Key(k) # Punct("end") /\ IsName(Key(k))
  BY DEF Key, Punct, IsName
<1>13. /\ TokenAt(t, l + 1) = Punct("comma")
       /\ TokenAt(t, l + 2) = Key(k) /\ t[l + 2] = Key(k)
       /\ TokenAt(t, l + 3) = Punct("colon")
  BY <1>7, <1>8, <1>12, TokensEnd, TokenKept
<1>14. MemberAt(t, l + 2, Len(t) + 1, m)
  <2>1. Len(t) + 1 = Closing((l + 2) + 2, n) + 1
    BY <1>8, <1>10
  <2>2. m = <<t[l + 2], inner>>
    BY <1>13
  <2>3. ObjectAt(t, (l + 2) + 2, n, inner)
    BY <1>8, <1>10
  <2> HIDE DEF m
  <2> QED
    BY <1>10, <1>12, <1>13, <2>1, <2>2, <2>3 DEF MemberAt
<1>15. m \in Values(T)
  <2>1. inner \in Seq(T \X T)
    <3>1. \A j \in 1..n : <<x[j], y[j]>> \in T \X T
      BY <1>1
    <3>2. inner \in [1..n -> T \X T] /\ n \in Nat
      BY <1>3, <3>1 DEF Firsts, n, HasTexts
    <3> QED
      BY <3>2
  <2> QED
    BY <2>1 DEF Values
<1>16. Written(T, t, Append(ms, m))
  <2> HIDE DEF m
  <2> QED
    BY <1>5, <1>8, <1>11, <1>13, <1>14, <1>15, MemberWritten DEF l
<1>17. Counts(Append(ms, m), M \cup {m}, K \cup {k})
  BY <1>5, <1>6, <1>15, OneCounted
<1>18. Holds(T, t, M \cup {m}, K \cup {k})
  <2> HIDE DEF m
  <2> QED
    BY <1>16, <1>17 DEF Holds
<1> QED
  BY <1>18 DEF t, a, inner

\* A member's tokens do not depend on what is before them.
LEMMA KvJoined ==
  ASSUME NEW T, HasTokens(T), NEW b \in Seq(T), NEW k, Key(k) \in T, NEW x \in T
  PROVE  kv(<<>>, k, x) \in Seq(T) /\ b \o kv(<<>>, k, x) = kv(b, k, x)
<1> DEFINE w == <<Punct("comma"), Key(k), Punct("colon")>>
           v == Append(w, x)
           c == b \o w
<1>1. w \in Seq(T)
  BY DEF HasTokens
<1> HIDE DEF w
<1>2. <<>> \o w = w
  BY <1>1, ConcatEmptySeq
<1>3. kv(<<>>, k, x) = v /\ kv(b, k, x) = Append(c, x)
  BY <1>2 DEF kv, appendKey, w
<1>4. v \in Seq(T) /\ c \in Seq(T) /\ <<x>> \in Seq(T)
  BY <1>1, AppendProperties, ConcatProperties
<1>5. v = w \o <<x>>
  BY <1>1, AppendIsConcat
<1> HIDE DEF v
<1>6. Append(c, x) = c \o <<x>>
  <2>1. c \in Seq(T)
    BY <1>4
  <2> HIDE DEF c
  <2> QED
    BY <2>1, AppendIsConcat
<1>7. b \o v = c \o <<x>>
  <2> DEFINE z == <<x>>
  <2>1. z \in Seq(T) /\ v = w \o z /\ c = b \o w
    BY <1>4, <1>5
  <2>2. b \o v = c \o z
    <3> HIDE DEF z, c
    <3> QED
      BY <1>1, <2>1, JoinedOnto
  <2> QED
    BY <2>2
<1> HIDE DEF c
<1> QED
  BY <1>3, <1>4, <1>6, <1>7

\* The first n keys are different, not in K, and in T with their fields.
Fresh(T, keys, n, K) ==
  /\ n \in Nat
  /\ \A i, j \in 1..n : keys[i] = keys[j] => i = j
  /\ \A j \in 1..n : /\ keys[j] \notin K
                     /\ Key(keys[j]) \in T /\ MetaField(keys[j]) \in T

\* The tokens of the fields, and the members they say.
Fields(keys, n) == [j \in 1..n |-> kv(<<>>, keys[j], MetaField(keys[j]))]

FieldsSaid(keys, n) == {<<Key(keys[j]), MetaField(keys[j])>> : j \in 1..n}

KeysOf(keys, n) == {keys[j] : j \in 1..n}

\* The first of them and one more.
LEMMA OneMoreField ==
  ASSUME NEW keys, NEW i \in Nat
  PROVE  /\ FieldsSaid(keys, i + 1)
              = FieldsSaid(keys, i) \cup {<<Key(keys[i + 1]), MetaField(keys[i + 1])>>}
         /\ KeysOf(keys, i + 1) = KeysOf(keys, i) \cup {keys[i + 1]}
<1> DEFINE e == i + 1
<1>1. 1..e = (1..i) \cup {e}
  OBVIOUS
<1> HIDE DEF e
<1>2. /\ FieldsSaid(keys, e)
           = FieldsSaid(keys, i) \cup {<<Key(keys[e]), MetaField(keys[e])>>}
      /\ KeysOf(keys, e) = KeysOf(keys, i) \cup {keys[e]}
  BY <1>1, Zenon DEF FieldsSaid, KeysOf
<1> QED
  BY <1>2 DEF e

\* The metadata after the members M.
LEMMA MetaHeld ==
  ASSUME NEW T, HasTokens(T), NEW b, NEW M, NEW K, Holds(T, b, M, K),
         NEW keys, NEW n, Fresh(T, keys, n, K)
  PROVE  Holds(T, b \o FlattenSeq(Fields(keys, n)),
               M \cup FieldsSaid(keys, n), K \cup KeysOf(keys, n))
<1> DEFINE s == Fields(keys, n)
<1>0. n \in Nat
  BY DEF Fresh
<1>1. b \in Seq(T)
  BY DEF Holds, Written
<1>2. ASSUME NEW j \in 1..n
      PROVE  /\ s[j] = kv(<<>>, keys[j], MetaField(keys[j]))
             /\ Key(keys[j]) \in T /\ MetaField(keys[j]) \in T
             /\ keys[j] \notin K
             /\ s[j] \in Seq(T)
  <2>1. /\ Key(keys[j]) \in T /\ MetaField(keys[j]) \in T
        /\ keys[j] \notin K
    BY DEF Fresh
  <2>2. kv(<<>>, keys[j], MetaField(keys[j])) \in Seq(T)
    BY <1>1, <2>1, KvJoined
  <2> QED
    BY <2>1, <2>2 DEF Fields
<1>3. s \in [1..n -> Seq(T)]
  BY <1>2 DEF Fields
<1> HIDE DEF s
<1>4. PICK F : Flattens(T, s, n, F)
  BY <1>0, <1>3, FlattenJoins
<1>5. /\ F \in [0..n -> Seq(T)]
      /\ F[0] = <<>> /\ F[n] = FlattenSeq(s)
      /\ \A i \in 0..(n - 1) : F[i + 1] = F[i] \o s[i + 1]
  BY <1>4 DEF Flattens
<1> DEFINE Read(i) == Holds(T, b \o F[i], M \cup FieldsSaid(keys, i), K \cup KeysOf(keys, i))
           G == {i \in 0..n : Read(i)}
<1>6. 0 \in G
  <2>1. b \o F[0] = b
    BY <1>1, <1>5, ConcatEmptySeq
  <2>2. FieldsSaid(keys, 0) = {} /\ KeysOf(keys, 0) = {}
    <3>1. 1..0 = {}
      OBVIOUS
    <3> QED
      BY <3>1 DEF FieldsSaid, KeysOf
  <2>3. M \cup {} = M /\ K \cup {} = K
    OBVIOUS
  <2>4. Read(0)
    BY <2>1, <2>2, <2>3
  <2>5. 0 \in 0..n
    BY <1>0
  <2> HIDE DEF Read
  <2> QED
    BY <2>4, <2>5
<1>7. ASSUME NEW i \in 0..(n - 1), i \in G PROVE i + 1 \in G
  <2> DEFINE e == i + 1
             f == F[i]
             g == F[e]
             k == keys[e]
             x == MetaField(k)
             w == kv(<<>>, k, x)
             c == b \o f
             N == M \cup FieldsSaid(keys, i)
             L == K \cup KeysOf(keys, i)
  <2>1. e \in 1..n /\ i \in 0..n /\ e \in 0..n /\ i \in Nat
    BY <1>0
  <2>2. Read(i)
    BY <1>7
  <2>3. s[e] = w /\ Key(k) \in T /\ x \in T /\ k \notin K /\ w \in Seq(T)
    BY <1>2, <2>1
  <2>4. f \in Seq(T) /\ g = f \o w
    BY <1>5, <2>1, <2>3
  <2>5. Holds(T, c, N, L)
    BY <2>2
  <2>6. k \notin L
    <3>1. ASSUME NEW j \in 1..i PROVE keys[j] # k
      <4>1. j \in 1..n /\ j # e
        BY <1>0, <2>1
      <4> QED
        BY <2>1, <4>1 DEF Fresh
    <3>2. k \notin KeysOf(keys, i)
      <4> HIDE DEF k
      <4> QED
        BY <3>1 DEF KeysOf
    <3> QED
      BY <2>3, <3>2
  <2>7. IsString(x)
    BY DEF IsString, MetaField
  <2>8. b \o g = c \o w
    <3>1. c = b \o f
      OBVIOUS
    <3> HIDE DEF f, g, c, w
    <3> QED
      BY <1>1, <2>3, <2>4, <3>1, JoinedOnto
  <2>9. c \in Seq(T)
    BY <2>5 DEF Holds, Written
  <2>10. c \o w = kv(c, k, x)
    <3> HIDE DEF c, k, x
    <3> QED
      BY <2>3, <2>9, KvJoined DEF w
  <2>11. Holds(T, kv(c, k, x), N \cup {<<Key(k), x>>}, L \cup {k})
    <3> HIDE DEF c, N, L, k, x
    <3> QED
      BY <2>3, <2>5, <2>6, <2>7, KvHeld
  <2>12. /\ M \cup FieldsSaid(keys, e) = N \cup {<<Key(k), x>>}
         /\ K \cup KeysOf(keys, e) = L \cup {k}
    <3>1. /\ FieldsSaid(keys, e) = FieldsSaid(keys, i) \cup {<<Key(k), x>>}
          /\ KeysOf(keys, e) = KeysOf(keys, i) \cup {k}
      BY <2>1, OneMoreField
    <3> HIDE DEF e, k, x
    <3> QED
      BY <3>1
  <2>13. Read(e)
    <3> HIDE DEF c, w, N, L, k, x
    <3> QED
      BY <2>8, <2>10, <2>11, <2>12
  <2> HIDE DEF Read
  <2> QED
    BY <2>1, <2>13
<1>8. n \in G
  <2> HIDE DEF G
  <2> QED
    BY <1>0, <1>6, <1>7, CountUp
<1>9. Read(n)
  BY <1>8
<1> QED
  BY <1>5, <1>9 DEF s

\* The names of the members that Encode writes itself, before the metadata.
FieldNames ==
  {"method", "path", "type", "statusCode", "status", "requestHeaders",
   "responseHeaders", "requestPayload", "responsePayload"}

\* The metadata has thirteen names, none of them twice or another member's.
LEMMA MetaKeysDiffer ==
  /\ Len(MetaKeys) = 13
  /\ \A i, j \in 1..13 : MetaKeys[i] = MetaKeys[j] => i = j
  /\ \A j \in 1..13 : MetaKeys[j] \notin FieldNames /\ MetaKeys[j] # "tag"
<1>0. /\ Len(MetaKeys) = 13
      /\ MetaKeys[1] = "ip" /\ MetaKeys[2] = "destIp" /\ MetaKeys[3] = "time"
      /\ MetaKeys[4] = "akto_account_id" /\ MetaKeys[5] = "akto_vxlan_id"
      /\ MetaKeys[6] = "is_pending" /\ MetaKeys[7] = "source" /\ MetaKeys[8] = "direction"
      /\ MetaKeys[9] = "process_id" /\ MetaKeys[10] = "socket_id"
      /\ MetaKeys[11] = "daemonset_id" /\ MetaKeys[12] = "process_name"
      /\ MetaKeys[13] = "enable_graph"
  BY DEF MetaKeys
<1>1. \A j \in 1..13 : j \in {1, 2, 3, 4, 5, 6, 7, 8, 9, 10, 11, 12, 13}
  OBVIOUS
<1>2. \A i, j \in 1..13 : MetaKeys[i] = MetaKeys[j] => i = j
  BY <1>0, <1>1
<1>3. \A j \in 1..13 : MetaKeys[j] \notin FieldNames /\ MetaKeys[j] # "tag"
  BY <1>0, <1>1 DEF FieldNames
<1> QED
  BY <1>0, <1>2, <1>3

\* The token of the status.
StatusToken(e) ==
  IF e.resp.reason.lo = e.resp.reason.hi THEN Num(e.resp.code)
  ELSE Status(e.resp.code, Says(e.pair.resp, e.resp.reason).string.text)

\* T has the tokens of the payload of e.
TokensOf(T, e) ==
  /\ HasTokens(T)
  /\ \A k \in FieldNames : Key(k) \in T
  /\ \A j \in 1..13 : Key(MetaKeys[j]) \in T /\ MetaField(MetaKeys[j]) \in T
  /\ Key("tag") \in T /\ MetaField("tag") \in T
  /\ \A s \in {e.req.method, e.req.path, e.req.version, e.req.body} : Says(e.pair.req, s) \in T
  /\ Says(e.pair.resp, e.resp.body) \in T
  /\ Num(e.resp.code) \in T /\ StatusToken(e) \in T
  /\ HasTexts(T, e.pair.req, e.req.headers)
  /\ HasTexts(T, e.pair.resp, e.resp.headers)

\* What Encode does with a reason agrees with there being one.
ReasonIsThere(e) == Width(e.resp.reason) > 0 <=> e.resp.reason.lo # e.resp.reason.hi

\* The members that Encode writes itself.
OwnMembers(e) ==
  LET rq == e.pair.req
      rs == e.pair.resp
  IN  {<<Key("method"), Says(rq, e.req.method)>>,
       <<Key("path"), Says(rq, e.req.path)>>,
       <<Key("type"), Says(rq, e.req.version)>>,
       <<Key("statusCode"), Num(e.resp.code)>>,
       <<Key("status"), StatusToken(e)>>,
       <<Key("requestHeaders"), SaysHeaders(rq, e.req.headers)>>,
       <<Key("responseHeaders"), SaysHeaders(rs, e.resp.headers)>>,
       <<Key("requestPayload"), Says(rq, e.req.body)>>,
       <<Key("responsePayload"), Says(rs, e.resp.body)>>}

\* Encode up to the metadata.
Own(e) ==
  LET rq == e.pair.req
      rs == e.pair.resp
      b1 == <<Punct("lbrace"), Key("method"), Punct("colon"), Says(rq, e.req.method)>>
      b2 == kv(kv(b1, "path", Says(rq, e.req.path)), "type", Says(rq, e.req.version))
      b3 == kv(kv(b2, "statusCode", Num(e.resp.code)), "status", StatusToken(e))
      b4 == appendHeaders(appendKey(b3, "requestHeaders"), rq, e.req.headers)
      b5 == appendHeaders(appendKey(b4, "responseHeaders"), rs, e.resp.headers)
      b6 == kv(b5, "requestPayload", Says(rq, e.req.body))
  IN  kv(b6, "responsePayload", Says(rs, e.resp.body))

\* Each member is written under a name of its own.
LEMMA OwnHeld ==
  ASSUME NEW T, NEW e, TokensOf(T, e)
  PROVE  Holds(T, Own(e), OwnMembers(e), FieldNames)
<1> DEFINE rq == e.pair.req
           rs == e.pair.resp
           x1 == Says(rq, e.req.method)
           x2 == Says(rq, e.req.path)
           x3 == Says(rq, e.req.version)
           x4 == Num(e.resp.code)
           x5 == StatusToken(e)
           x8 == Says(rq, e.req.body)
           x9 == Says(rs, e.resp.body)
           b1 == <<Punct("lbrace"), Key("method"), Punct("colon"), x1>>
           b2 == kv(b1, "path", x2)
           b3 == kv(b2, "type", x3)
           b4 == kv(b3, "statusCode", x4)
           b5 == kv(b4, "status", x5)
           b6 == appendHeaders(appendKey(b5, "requestHeaders"), rq, e.req.headers)
           b7 == appendHeaders(appendKey(b6, "responseHeaders"), rs, e.resp.headers)
           b8 == kv(b7, "requestPayload", x8)
           b9 == kv(b8, "responsePayload", x9)
           M1 == {<<Key("method"), x1>>}
           M2 == M1 \cup {<<Key("path"), x2>>}
           M3 == M2 \cup {<<Key("type"), x3>>}
           M4 == M3 \cup {<<Key("statusCode"), x4>>}
           M5 == M4 \cup {<<Key("status"), x5>>}
           M6 == M5 \cup {<<Key("requestHeaders"), SaysHeaders(rq, e.req.headers)>>}
           M7 == M6 \cup {<<Key("responseHeaders"), SaysHeaders(rs, e.resp.headers)>>}
           M8 == M7 \cup {<<Key("requestPayload"), x8>>}
           M9 == M8 \cup {<<Key("responsePayload"), x9>>}
           K1 == {"method"}
           K2 == K1 \cup {"path"}
           K3 == K2 \cup {"type"}
           K4 == K3 \cup {"statusCode"}
           K5 == K4 \cup {"status"}
           K6 == K5 \cup {"requestHeaders"}
           K7 == K6 \cup {"responseHeaders"}
           K8 == K7 \cup {"requestPayload"}
           K9 == K8 \cup {"responsePayload"}
<1>1. HasTokens(T) /\ HasTexts(T, rq, e.req.headers) /\ HasTexts(T, rs, e.resp.headers)
  BY DEF TokensOf
<1>2. /\ Key("method") \in T /\ Key("path") \in T /\ Key("type") \in T
      /\ Key("statusCode") \in T /\ Key("status") \in T /\ Key("requestHeaders") \in T
      /\ Key("responseHeaders") \in T /\ Key("requestPayload") \in T
      /\ Key("responsePayload") \in T
  BY DEF TokensOf, FieldNames
<1>3. /\ x1 \in T /\ x2 \in T /\ x3 \in T /\ x4 \in T /\ x5 \in T /\ x8 \in T /\ x9 \in T
  BY DEF TokensOf
<1>4. /\ IsString(x1) /\ IsString(x2) /\ IsString(x3) /\ IsString(x4)
      /\ IsString(x8) /\ IsString(x9)
  BY DEF IsString, Says, Str, Num
<1>5. IsString(x5)
  BY DEF IsString, StatusToken, Num, Status
<1>6. /\ "path" \notin K1 /\ "type" \notin K2 /\ "statusCode" \notin K3 /\ "status" \notin K4
      /\ "requestHeaders" \notin K5 /\ "responseHeaders" \notin K6
      /\ "requestPayload" \notin K7 /\ "responsePayload" \notin K8
  OBVIOUS
<1>7. K9 = FieldNames
  BY DEF FieldNames
<1>8. M9 = OwnMembers(e)
  BY Zenon DEF OwnMembers
<1>9. b9 = Own(e)
  BY DEF Own
<1> HIDE DEF rq, rs, x1, x2, x3, x4, x5, x8, x9
<1>10. Holds(T, b1, M1, K1)
  BY <1>1, <1>2, <1>3, <1>4, FirstHeld
<1> HIDE DEF b1, M1, K1
<1>11. Holds(T, b2, M2, K2)
  BY <1>1, <1>2, <1>3, <1>4, <1>6, <1>10, KvHeld
<1> HIDE DEF b2, M2, K2
<1>12. Holds(T, b3, M3, K3)
  BY <1>1, <1>2, <1>3, <1>4, <1>6, <1>11, KvHeld
<1> HIDE DEF b3, M3, K3
<1>13. Holds(T, b4, M4, K4)
  BY <1>1, <1>2, <1>3, <1>4, <1>6, <1>12, KvHeld
<1> HIDE DEF b4, M4, K4
<1>14. Holds(T, b5, M5, K5)
  BY <1>1, <1>2, <1>3, <1>5, <1>6, <1>13, KvHeld
<1> HIDE DEF b5, M5, K5
<1>15. Holds(T, b6, M6, K6)
  BY <1>1, <1>2, <1>6, <1>14, HeadersHeld
<1> HIDE DEF b6, M6, K6
<1>16. Holds(T, b7, M7, K7)
  BY <1>1, <1>2, <1>6, <1>15, HeadersHeld
<1> HIDE DEF b7, M7, K7
<1>17. Holds(T, b8, M8, K8)
  BY <1>1, <1>2, <1>3, <1>4, <1>6, <1>16, KvHeld
<1> HIDE DEF b8, M8, K8
<1>18. Holds(T, b9, M9, K9)
  BY <1>1, <1>2, <1>3, <1>4, <1>6, <1>17, KvHeld
<1> QED
  BY <1>7, <1>8, <1>9, <1>18

\* Encode in these terms.
LEMMA EncodeUnfolds ==
  ASSUME NEW T, NEW e, TokensOf(T, e), ReasonIsThere(e)
  PROVE  LET b8 == Own(e) \o FlattenSeq(Fields(MetaKeys, 13))
             b9 == IF e.pair.tagged THEN kv(b8, "tag", MetaField("tag")) ELSE b8
         IN  Encode(<<>>, e.pair.req, e.req, e.pair.resp, e.resp, e.pair.tagged)
               = Append(b9, Punct("rbrace"))
<1> DEFINE w == <<Punct("lbrace"), Key("method"), Punct("colon"), Says(e.pair.req, e.req.method)>>
<1>1. <<>> \o w = w
  <2>1. w \in Seq(T)
    BY DEF TokensOf, HasTokens, FieldNames
  <2> HIDE DEF w
  <2> QED
    BY <2>1, ConcatEmptySeq
<1>2. \A dst : appendStatus(dst, e.pair.resp, e.resp) = Append(dst, StatusToken(e))
  BY SaysString DEF appendStatus, StatusToken, ReasonIsThere
<1>3. \A dst : appendStatus(appendKey(dst, "status"), e.pair.resp, e.resp)
                = kv(dst, "status", StatusToken(e))
  BY <1>2 DEF kv
<1>4. [j \in 1..Len(MetaKeys) |-> kv(<<>>, MetaKeys[j], MetaField(MetaKeys[j]))]
        = Fields(MetaKeys, 13)
  BY MetaKeysDiffer DEF Fields
<1>5. <<>> \o <<Punct("lbrace"), Key("method"), Punct("colon"), String(e.pair.req, e.req.method)>> = w
  BY <1>1, SaysString
<1> HIDE DEF w
<1> QED
  BY <1>3, <1>4, <1>5, SaysString DEF Encode, Own, w

\* The payload of a pair, written on an empty buffer, has the members of the pair.
LEMMA EncodeIsRead ==
  ASSUME NEW T, NEW e, TokensOf(T, e), ReasonIsThere(e), e.pair.tagged \in BOOLEAN
  PROVE  HasMembers(Encode(<<>>, e.pair.req, e.req, e.pair.resp, e.resp, e.pair.tagged),
                    Members(e))
<1> DEFINE f == FlattenSeq(Fields(MetaKeys, 13))
           b7 == Own(e)
           b8 == b7 \o f
           b9 == IF e.pair.tagged THEN kv(b8, "tag", MetaField("tag")) ELSE b8
           M7 == OwnMembers(e)
           M8 == M7 \cup FieldsSaid(MetaKeys, 13)
           K8 == FieldNames \cup KeysOf(MetaKeys, 13)
           M9 == M8 \cup (IF e.pair.tagged THEN {<<Key("tag"), MetaField("tag")>>} ELSE {})
<1>1. HasTokens(T)
  BY DEF TokensOf
<1>2. Holds(T, b7, M7, FieldNames)
  BY OwnHeld
<1>3. Fresh(T, MetaKeys, 13, FieldNames)
  BY MetaKeysDiffer DEF Fresh, TokensOf
<1>4. Holds(T, b8, M8, K8)
  <2> HIDE DEF b7, M7
  <2> QED
    BY <1>1, <1>2, <1>3, MetaHeld
<1>5. "tag" \notin K8
  <2>1. "tag" \notin FieldNames
    BY DEF FieldNames
  <2>2. "tag" \notin KeysOf(MetaKeys, 13)
    BY MetaKeysDiffer DEF KeysOf
  <2> QED
    BY <2>1, <2>2
<1>6. Members(e) = M9
  <2>1. {<<Key(k), MetaField(k)>> : k \in Range(MetaKeys)} = FieldsSaid(MetaKeys, 13)
    <3>1. DOMAIN MetaKeys = 1..13
      BY DEF MetaKeys
    <3>2. Range(MetaKeys) = {MetaKeys[j] : j \in 1..13}
      BY <3>1 DEF Range
    <3> QED
      BY <3>2, Zenon DEF FieldsSaid
  <2> QED
    BY <2>1 DEF Members, OwnMembers, StatusToken
<1>7. Append(b9, Punct("rbrace"))
        = Encode(<<>>, e.pair.req, e.req, e.pair.resp, e.resp, e.pair.tagged)
  BY EncodeUnfolds
<1>8. \E K : Holds(T, b9, M9, K)
  <2> HIDE DEF b8, M8, K8
  <2>1. CASE e.pair.tagged
    <3>1. Key("tag") \in T /\ MetaField("tag") \in T
      BY DEF TokensOf
    <3>2. IsString(MetaField("tag"))
      BY DEF IsString, MetaField
    <3>3. Holds(T, kv(b8, "tag", MetaField("tag")), M8 \cup {<<Key("tag"), MetaField("tag")>>},
                K8 \cup {"tag"})
      BY <1>1, <1>4, <1>5, <3>1, <3>2, KvHeld
    <3> QED
      BY <2>1, <3>3
  <2>2. CASE ~ e.pair.tagged
    <3>1. b9 = b8 /\ M9 = M8
      BY <2>2
    <3> QED
      BY <1>4, <3>1
  <2> QED
    BY <2>1, <2>2
<1> HIDE DEF b9, M9
<1>9. HasMembers(Append(b9, Punct("rbrace")), M9)
  BY <1>1, <1>8, HeldIsRead
<1> QED
  BY <1>6, <1>7, <1>9

----------------------------------------------------------------------------
(***************************************************************************)
(* The pair in the payload.  The parser's readings of the buffers are      *)
(* those the property speaks of, and Encode is given them when both calls  *)
(* have succeeded.                                                         *)
(***************************************************************************)
\* The two instances of the parser agree on which records are readings of a buffer.
LEMMA SameReadings ==
  \A b, m : /\ P!IsRequest(b, m) <=> PP!IsRequest(b, m)
            /\ P!IsResponse(b, m) <=> PP!IsResponse(b, m)
<1>1. \A b, lo, hi, C : /\ P!Free(b, lo, hi, C) <=> PP!Free(b, lo, hi, C)
                        /\ P!Filled(b, lo, hi, C) <=> PP!Filled(b, lo, hi, C)
  BY SameOctets DEF P!Free, PP!Free, P!Filled, PP!Filled
<1>2. \A b, lo, stop : P!IsLine(b, lo, stop) <=> PP!IsLine(b, lo, stop)
  BY <1>1, SameConstants, SameOctets DEF P!IsLine, PP!IsLine
<1>3. \A b, h, stop : P!IsHeaderLine(b, h, stop) <=> PP!IsHeaderLine(b, h, stop)
  BY <1>1, <1>2, SameConstants, SameOctets DEF P!IsHeaderLine, PP!IsHeaderLine
<1>4. \A hs, j, stop : P!LineStop(hs, j, stop) = PP!LineStop(hs, j, stop)
  BY DEF P!LineStop, PP!LineStop
<1>5. \A b, hs, start, stop : P!AreHeaders(b, hs, start, stop) <=> PP!AreHeaders(b, hs, start, stop)
  BY <1>3, <1>4 DEF P!AreHeaders, PP!AreHeaders
<1>6. \A b, m, start : P!IsRequestLine(b, m, start) <=> PP!IsRequestLine(b, m, start)
  BY <1>1, <1>2, SameConstants, SameOctets DEF P!IsRequestLine, PP!IsRequestLine
<1>7. \A b, m, start : P!IsStatusLine(b, m, start) <=> PP!IsStatusLine(b, m, start)
  BY <1>1, <1>2, SameConstants, SameOctets DEF P!IsStatusLine, PP!IsStatusLine
<1>8. \A b, body : P!IsBody(b, body) <=> PP!IsBody(b, body)
  BY SameConstants, SameOctets DEF P!IsBody, PP!IsBody
<1>9. \A b, m : P!IsRequest(b, m) <=> PP!IsRequest(b, m)
  BY <1>5, <1>6, <1>8 DEF P!IsRequest, PP!IsRequest
<1>10. \A b, m : P!IsResponse(b, m) <=> PP!IsResponse(b, m)
  BY <1>5, <1>7, <1>8 DEF P!IsResponse, PP!IsResponse
<1> QED
  BY <1>9, <1>10

\* And on the messages a caller sees.
LEMMA SameResults ==
  /\ \A k : P!Headers(k) = PP!Headers(k)
  /\ P!RequestMessage = PP!RequestMessage
  /\ P!ResponseMessage = PP!ResponseMessage
<1>1. \A k : P!Headers(k) = PP!Headers(k)
  BY DEF P!Headers, PP!Headers
<1> QED
  BY <1>1 DEF P!RequestMessage, PP!RequestMessage, P!ResponseMessage, PP!ResponseMessage

\* Slices of the two buffers.
Cut == [lo : Nat, hi : Nat]

\* The tokens of the payload of e.
TokenSet(e) ==
  {Punct("lbrace"), Punct("rbrace"), Punct("comma"), Punct("colon")}
  \cup {Key(k) : k \in FieldNames}
  \cup {Key(MetaKeys[j]) : j \in 1..13} \cup {MetaField(MetaKeys[j]) : j \in 1..13}
  \cup {Key("tag"), MetaField("tag"), Num(e.resp.code), StatusToken(e)}
  \cup {Says(e.pair.req, s) : s \in Cut} \cup {Says(e.pair.resp, s) : s \in Cut}

\* e is made of slices.
IsCut(e) ==
  /\ e.req.method \in Cut /\ e.req.path \in Cut /\ e.req.version \in Cut /\ e.req.body \in Cut
  /\ e.resp.body \in Cut
  /\ e.req.headers \in Seq([name : Cut, value : Cut])
  /\ e.resp.headers \in Seq([name : Cut, value : Cut])

\* The strings of headers that are slices.
LEMMA TextsOfHeaders ==
  ASSUME NEW T, NEW b, \A s \in Cut : Says(b, s) \in T,
         NEW hs \in Seq([name : Cut, value : Cut])
  PROVE  HasTexts(T, b, hs)
<1>1. Len(hs) \in Nat
  BY LenProperties
<1>2. \A j \in 1..Len(hs) : hs[j].name \in Cut /\ hs[j].value \in Cut
  <2> SUFFICES ASSUME NEW j \in 1..Len(hs) PROVE hs[j].name \in Cut /\ hs[j].value \in Cut
    OBVIOUS
  <2>1. hs[j] \in [name : Cut, value : Cut]
    BY ElementOfSeq
  <2> QED
    BY <2>1
<1> QED
  BY <1>1, <1>2 DEF HasTexts

\* These are all the tokens of the payload of e.
LEMMA TokensAreThere ==
  ASSUME NEW e, IsCut(e)
  PROVE  TokensOf(TokenSet(e), e)
<1> DEFINE T == TokenSet(e)
<1>1. HasTokens(T)
  BY DEF TokenSet, HasTokens
<1>2. \A s \in Cut : Says(e.pair.req, s) \in T /\ Says(e.pair.resp, s) \in T
  BY DEF TokenSet
<1>3. \A k \in FieldNames : Key(k) \in T
  BY DEF TokenSet
<1>4. \A j \in 1..13 : Key(MetaKeys[j]) \in T /\ MetaField(MetaKeys[j]) \in T
  BY DEF TokenSet
<1>5. /\ Key("tag") \in T /\ MetaField("tag") \in T
      /\ Num(e.resp.code) \in T /\ StatusToken(e) \in T
  BY DEF TokenSet
<1> HIDE DEF T
<1>6. HasTexts(T, e.pair.req, e.req.headers) /\ HasTexts(T, e.pair.resp, e.resp.headers)
  BY <1>2, TextsOfHeaders DEF IsCut
<1>7. /\ \A s \in {e.req.method, e.req.path, e.req.version, e.req.body} : Says(e.pair.req, s) \in T
      /\ Says(e.pair.resp, e.resp.body) \in T
  BY <1>2 DEF IsCut
<1>8. TokensOf(T, e)
  BY <1>1, <1>3, <1>4, <1>5, <1>6, <1>7 DEF TokensOf
<1> QED
  BY <1>8 DEF T

\* A reason that is a slice is there exactly if it has octets.
LEMMA ReasonIsSlice ==
  ASSUME NEW e, e.resp.reason \in Cut, e.resp.reason.lo <= e.resp.reason.hi
  PROVE  ReasonIsThere(e)
<1> DEFINE r == e.resp.reason
<1>1. r.lo \in Nat /\ r.hi \in Nat /\ r.lo <= r.hi
  BY DEF Cut
<1>2. Width(r) > 0 <=> r.lo # r.hi
  <2> HIDE DEF r
  <2> QED
    BY <1>1 DEF Width
<1> QED
  BY <1>2 DEF ReasonIsThere

\* Whatever slices of whatever buffers it is given, and with or without a tag, Encode
\* writes one JSON object that reads back as every field of its pair, the headers in
\* order, each of them once, and nothing else (shape.go:61-95).
THEOREM EncodedPairsReadBack ==
  ASSUME NEW e, IsCut(e), e.resp.reason \in Cut, e.resp.reason.lo <= e.resp.reason.hi,
         e.pair.tagged \in BOOLEAN
  PROVE  HasMembers(Encode(<<>>, e.pair.req, e.req, e.pair.resp, e.resp, e.pair.tagged),
                    Members(e))
<1>1. TokensOf(TokenSet(e), e)
  BY TokensAreThere
<1>2. ReasonIsThere(e)
  BY ReasonIsSlice
<1> QED
  BY <1>1, <1>2, EncodeIsRead

\* The reason of a message of the grammar does not end before it begins.
LEMMA ReasonOfResponse ==
  ASSUME NEW e, e.resp.reason \in Cut, e.resp.version \in Cut,
         PP!IsResponse(e.pair.resp, e.resp)
  PROVE  e.resp.reason.lo <= e.resp.reason.hi
<1>1. PICK start \in 2..Len(e.pair.resp) : PP!IsStatusLine(e.pair.resp, e.resp, start)
  BY DEF PP!IsResponse
<1> DEFINE r == e.resp.reason
           code == e.resp.version.hi + 1
<1>2. r.lo \in Nat /\ r.hi \in Nat /\ code \in Nat /\ start \in Int
  <2>1. e.resp.version.hi \in Nat /\ r.lo \in Nat /\ r.hi \in Nat
    BY DEF Cut
  <2> QED
    BY <2>1
<1>3. r.lo <= r.hi
  <2>1. CASE r.lo = r.hi
    BY <1>2, <2>1
  <2>2. CASE r.lo # r.hi
    <3>1. code + 3 < start - 2 /\ r = PP!Slice(code + 4, start - 2)
      BY <1>1, <2>2 DEF PP!IsStatusLine
    <3>2. r.lo = code + 4 /\ r.hi = start - 2
      BY <3>1 DEF PP!Slice
    <3> HIDE DEF code, r
    <3> QED
      BY <1>2, <3>1, <3>2
  <2> QED
    BY <2>1, <2>2
<1> QED
  BY <1>3

\* A pair that was parsed, as it is encoded.
LEMMA PairEncoded ==
  ASSUME TInv, ResponseParsed
  PROVE  EncodesThePair'
<1> DEFINE e == [pair |-> pair, req |-> P!RequestMessage, resp |-> P!ResponseMessage]
<1>1. /\ status["req"] = "ok" /\ status["resp"] = "ok"
      /\ input["req"] = pair.req /\ input["resp"] = pair.resp
      /\ pair \in [req : Seq(Octet), resp : Seq(Octet), tagged : BOOLEAN]
  BY DEF TInv, Turn, Counters, ResponseParsed, Succeeded
<1>2. PP!TypeOK /\ PP!Lossless
  BY DEF TInv, PP!CInv, PP!IInv
<1>3. /\ PP!IsRequest(pair.req, PP!RequestMessage)
      /\ PP!IsResponse(pair.resp, PP!ResponseMessage)
  BY <1>1, <1>2 DEF PP!Lossless
<1>4. e = [pair |-> pair, req |-> PP!RequestMessage, resp |-> PP!ResponseMessage]
  BY SameResults
<1>5. /\ encoded' = e
      /\ json' = Encode(<<>>, pair.req, PP!RequestMessage, pair.resp, PP!ResponseMessage,
                        pair.tagged)
  BY <1>1, SameResults DEF ResponseParsed, Reset
<1> HIDE DEF e
<1>6. e.pair = pair /\ e.req = PP!RequestMessage /\ e.resp = PP!ResponseMessage
  BY <1>4
<1>7. IsCut(e) /\ e.resp.reason \in Cut /\ e.resp.version \in Cut
  <2>1. /\ PP!Headers("req") \in Seq(PP!Header) /\ PP!Headers("resp") \in Seq(PP!Header)
    BY <1>2, ParserAssumptions, PP!HeadersType DEF PP!Kinds
  <2>2. PP!Slices = Cut /\ PP!Header = [name : Cut, value : Cut]
    BY DEF PP!Slices, PP!Header, Cut
  <2>3. req \in PP!Request /\ resp \in PP!Response
    BY <1>2 DEF PP!TypeOK
  <2>4. /\ req.method \in Cut /\ req.path \in Cut /\ req.version \in Cut /\ req.body \in Cut
        /\ resp.body \in Cut /\ resp.reason \in Cut /\ resp.version \in Cut
    BY <2>2, <2>3 DEF PP!Request, PP!Response
  <2>5. /\ PP!RequestMessage.method = req.method /\ PP!RequestMessage.path = req.path
        /\ PP!RequestMessage.version = req.version /\ PP!RequestMessage.body = req.body
        /\ PP!RequestMessage.headers = PP!Headers("req")
    BY DEF PP!RequestMessage
  <2>6. /\ PP!ResponseMessage.body = resp.body /\ PP!ResponseMessage.reason = resp.reason
        /\ PP!ResponseMessage.version = resp.version
        /\ PP!ResponseMessage.headers = PP!Headers("resp")
    BY DEF PP!ResponseMessage
  <2> QED
    BY <1>6, <2>1, <2>2, <2>4, <2>5, <2>6 DEF IsCut
<1>9. e.resp.reason.lo <= e.resp.reason.hi
  BY <1>3, <1>6, <1>7, ReasonOfResponse
<1>10. e.pair.tagged \in BOOLEAN
  BY <1>1, <1>6
<1>11. HasMembers(Encode(<<>>, e.pair.req, e.req, e.pair.resp, e.resp, e.pair.tagged), Members(e))
  BY <1>7, <1>9, <1>10, EncodedPairsReadBack
<1>12. HasMembers(json', Members(encoded'))
  BY <1>5, <1>6, <1>11
<1>13. /\ P!IsRequest(encoded'.pair.req, encoded'.req)
       /\ P!IsResponse(encoded'.pair.resp, encoded'.resp)
  BY <1>3, <1>5, <1>6, SameReadings
<1> QED
  BY <1>12, <1>13 DEF EncodesThePair

\* No other step touches what Encode returned.
LEMMA PayloadKept ==
  ASSUME [Next]_vars, ~ ResponseParsed
  PROVE  UNCHANGED <<json, encoded>>
BY DEF Next, Main, vars, driver, Tick, ReadTime, CaughtUp, StartPair, Parsing, RequestParsed,
       RequestFailed, ResponseFailed, Fail

\* From the return of Encode to the next one the payload says its pair, every field
\* once and no other (shape.go:15-16, 59-60), for all pairs and whatever the parser
\* and the driver do in between.
THEOREM PayloadsSayTheirPairs == Spec => []EncodesThePair
<1>1. Init => EncodesThePair
  BY DEF Init, EncodesThePair
<1>2. TInv /\ EncodesThePair /\ [Next]_vars => EncodesThePair'
  <2> SUFFICES ASSUME TInv, EncodesThePair, [Next]_vars PROVE EncodesThePair'
    OBVIOUS
  <2>1. CASE ResponseParsed
    BY <2>1, PairEncoded
  <2>2. CASE ~ ResponseParsed
    <3>1. UNCHANGED <<json, encoded>>
      BY <2>2, PayloadKept
    <3> QED
      BY <3>1 DEF EncodesThePair
  <2> QED
    BY <2>1, <2>2
<1> QED
  BY <1>1, <1>2, TurnInit, TurnStep, PTL DEF Spec
=============================================================================
