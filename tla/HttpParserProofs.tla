--------------------------- MODULE HttpParserProofs ---------------------------
(***************************************************************************)
(* For every set of buffers, every size of the scratch arrays and every    *)
(* number of calls: a Parser never panics, and the messages it returns are *)
(* readings of their buffers that lose nothing.                            *)
(***************************************************************************)
EXTENDS HeaderLookup, HttpGrammarProofs

(***************************************************************************)
(* The inductive invariant.  While parseHeaders runs, the first line and   *)
(* the headers found so far cover the buffer up to the cursor; so the      *)
(* octet before the cursor is a line feed, which is why no line can be     *)
(* sliced backwards and why no panic is possible.                          *)
(***************************************************************************)
OneCall ==
  \A k \in Kinds :
    status[k] = "parsing" =>
      /\ phase # "idle"
      /\ \A l \in Kinds : status[l] = "parsing" => l = k

IsFirstLine(k, start) ==
  IF k = "req" THEN IsRequestLine(input[k], req, start)
               ELSE IsStatusLine(input[k], resp, start)

Covered(k) ==
  /\ cursor <= Len(input[k])
  /\ \E start \in 2..Len(input[k]) :
       /\ IsFirstLine(k, start)
       /\ AreHeaders(input[k], Headers(k), start, cursor)

Progress == \A k \in Kinds : AtHeaders(k) => Covered(k)

Fresh == \A k \in Kinds : AtLine(k) => headers[k] = Empty

IInv == TypeOK /\ OneCall /\ Fresh /\ Progress /\ NeverPanics /\ Lossless

----------------------------------------------------------------------------
(***************************************************************************)
(* The slice of headers and append.                                        *)
(***************************************************************************)

\* The headers a caller sees are as many as the slice header says.
LEMMA HeadersType ==
  ASSUME TypeOK, NEW k \in Kinds
  PROVE  Headers(k) \in Seq(Header) /\ Len(Headers(k)) = headers[k].len
<1>1. /\ headers[k].array \in {"scratch", "heap"}
      /\ headers[k].len \in Nat
      /\ headers[k].array = "scratch" => headers[k].len <= MaxHeaders
      /\ headers[k].array = "heap" => headers[k].len = Len(heap[k])
      /\ scratch[k] \in [1..MaxHeaders -> Header]
      /\ heap[k] \in Seq(Header)
  BY DEF TypeOK
<1>2. CASE headers[k].array = "scratch"
  <2> DEFINE n == headers[k].len
             s == [j \in 1..n |-> scratch[k][j]]
  <2>1. n \in Nat /\ n <= MaxHeaders /\ MaxHeaders \in Nat
    BY <1>1, <1>2, MaxHeadersAssumption
  <2>2. \A j \in 1..n : scratch[k][j] \in Header
    BY <1>1, <2>1
  <2>3. s \in Seq(Header)
    BY <2>1, <2>2, IsASeq
  <2>4. Len(s) = n
    BY <2>1, <2>3, LenProperties
  <2> QED
    BY <1>2, <2>3, <2>4 DEF Headers
<1>3. CASE headers[k].array = "heap"
  BY <1>1, <1>3 DEF Headers
<1> QED
  BY <1>1, <1>2, <1>3

\* append adds its header after the ones a caller could see before, whichever
\* array holds them, and does not touch those of the other kind.
LEMMA HeaderAppended ==
  ASSUME TypeOK, NEW k \in Kinds, NEW h \in Header, AppendHeader(k, h)
  PROVE  /\ headers' \in [Kinds -> [array : {"scratch", "heap"}, len : Nat]]
         /\ scratch' \in [Kinds -> [1..MaxHeaders -> Header]]
         /\ heap' \in [Kinds -> Seq(Header)]
         /\ \A l \in Kinds :
              /\ headers'[l].array = "scratch" => headers'[l].len <= MaxHeaders
              /\ headers'[l].array = "heap" => headers'[l].len = Len(heap'[l])
         /\ Headers(k)' = Append(Headers(k), h)
         /\ \A l \in Kinds \ {k} : Headers(l)' = Headers(l)
<1> DEFINE n == headers[k].len
           inPlace == headers[k].array = "scratch" /\ n < MaxHeaders
<1>1. /\ headers \in [Kinds -> [array : {"scratch", "heap"}, len : Nat]]
      /\ scratch \in [Kinds -> [1..MaxHeaders -> Header]]
      /\ heap \in [Kinds -> Seq(Header)]
      /\ \A l \in Kinds :
           /\ headers[l].array = "scratch" => headers[l].len <= MaxHeaders
           /\ headers[l].array = "heap" => headers[l].len = Len(heap[l])
      /\ n \in Nat
      /\ MaxHeaders \in Nat
  BY MaxHeadersAssumption DEF TypeOK
<1>2. Headers(k) \in Seq(Header) /\ Len(Headers(k)) = n
  BY HeadersType
<1>3. /\ Append(Headers(k), h) \in Seq(Header)
      /\ Len(Append(Headers(k), h)) = n + 1
      /\ Append(Headers(k), h)[n + 1] = h
      /\ \A j \in 1..n : Append(Headers(k), h)[j] = Headers(k)[j]
  BY <1>2, AppendProperties
<1>4. CASE inPlace
  <2>1. /\ scratch' = [scratch EXCEPT ![k][n + 1] = h]
        /\ headers' = [headers EXCEPT ![k].len = n + 1]
        /\ heap' = heap
    BY <1>4 DEF AppendHeader
  <2>2. /\ headers'[k].array = "scratch" /\ headers'[k].len = n + 1
        /\ headers' \in [Kinds -> [array : {"scratch", "heap"}, len : Nat]]
        /\ \A l \in Kinds \ {k} : headers'[l] = headers[l] /\ scratch'[l] = scratch[l]
    BY <1>1, <1>4, <2>1
  <2>3. /\ scratch' \in [Kinds -> [1..MaxHeaders -> Header]]
        /\ scratch'[k][n + 1] = h
        /\ \A j \in 1..n : scratch'[k][j] = scratch[k][j]
    BY <1>1, <1>4, <2>1
  <2>4. Headers(k)' = Append(Headers(k), h)
    <3> DEFINE s == [j \in 1..(n + 1) |-> scratch'[k][j]]
    <3>1. Headers(k)' = s
      BY <2>2 DEF Headers
    <3>2. s \in Seq(Header) /\ Len(s) = n + 1
      <4> DEFINE m == n + 1
      <4>1. m \in Nat /\ \A j \in 1..m : scratch'[k][j] \in Header
        BY <1>1, <1>4, <2>3
      <4> HIDE DEF m
      <4>2. [j \in 1..m |-> scratch'[k][j]] \in Seq(Header)
        BY <4>1, IsASeq
      <4>3. s \in Seq(Header)
        BY <4>2 DEF m
      <4> QED
        BY <1>1, <4>3, LenProperties
    <3>3. ASSUME NEW j \in 1..(n + 1)
          PROVE  s[j] = Append(Headers(k), h)[j]
      <4>1. CASE j = n + 1
        BY <1>1, <4>1, <1>3, <2>3
      <4>2. CASE j # n + 1
        <5>1. j \in 1..n
          BY <1>1, <4>2
        <5>2. Headers(k)[j] = scratch[k][j]
          BY <5>1, <1>4 DEF Headers
        <5>3. s[j] = scratch'[k][j]
          OBVIOUS
        <5> QED
          BY <5>1, <5>2, <5>3, <1>3, <2>3
      <4> QED
        BY <4>1, <4>2
    <3> HIDE DEF s
    <3>4. s = Append(Headers(k), h)
      BY <1>3, <3>2, <3>3, SeqEqual
    <3> QED
      BY <3>1, <3>4
  <2>5. \A l \in Kinds \ {k} : Headers(l)' = Headers(l)
    BY <2>1, <2>2 DEF Headers
  <2>6. \A l \in Kinds :
          /\ headers'[l].array = "scratch" => headers'[l].len <= MaxHeaders
          /\ headers'[l].array = "heap" => headers'[l].len = Len(heap'[l])
    BY <1>1, <1>4, <2>1, <2>2
  <2> QED
    BY <1>1, <2>1, <2>2, <2>3, <2>4, <2>5, <2>6
<1>5. CASE ~ inPlace
  <2>1. /\ heap' = [heap EXCEPT ![k] = Append(Headers(k), h)]
        /\ headers' = [headers EXCEPT ![k] = [array |-> "heap", len |-> n + 1]]
        /\ scratch' = scratch
    BY <1>5 DEF AppendHeader
  <2>2. /\ headers'[k] = [array |-> "heap", len |-> n + 1]
        /\ heap'[k] = Append(Headers(k), h)
        /\ \A l \in Kinds \ {k} : headers'[l] = headers[l] /\ heap'[l] = heap[l]
    BY <1>1, <2>1
  <2>3. /\ headers' \in [Kinds -> [array : {"scratch", "heap"}, len : Nat]]
        /\ heap' \in [Kinds -> Seq(Header)]
    BY <1>1, <1>3, <2>1
  <2>4. Headers(k)' = Append(Headers(k), h)
    <3>1. headers'[k].array # "scratch"
      BY <2>2
    <3>2. Headers(k)' = heap'[k]
      BY <3>1 DEF Headers
    <3> QED
      BY <2>2, <3>2
  <2>5. \A l \in Kinds \ {k} : Headers(l)' = Headers(l)
    BY <2>1, <2>2 DEF Headers
  <2>6. \A l \in Kinds :
          /\ headers'[l].array = "scratch" => headers'[l].len <= MaxHeaders
          /\ headers'[l].array = "heap" => headers'[l].len = Len(heap'[l])
    <3>1. /\ headers'[k].array # "scratch"
          /\ headers'[k].len = Len(heap'[k])
      BY <1>3, <2>2
    <3>2. \A l \in Kinds \ {k} :
            /\ headers'[l].array = "scratch" => headers'[l].len <= MaxHeaders
            /\ headers'[l].array = "heap" => headers'[l].len = Len(heap'[l])
      BY <1>1, <2>2
    <3> QED
      BY <3>1, <3>2
  <2> QED
    BY <1>1, <2>1, <2>3, <2>4, <2>5, <2>6
<1> QED
  BY <1>4, <1>5

----------------------------------------------------------------------------
(***************************************************************************)
(* The steps of a call.                                                    *)
(***************************************************************************)

\* What the invariant says of the buffer and of the call in progress.
LEMMA InProgress ==
  ASSUME IInv, NEW k \in Kinds, status[k] = "parsing"
  PROVE  /\ input[k] \in Seq(Octet)
         /\ Len(input[k]) \in Nat
         /\ cursor \in Nat
         /\ phase # "idle"
         /\ \A l \in Kinds \ {k} : status[l] # "parsing"
<1>1. input[k] \in Seq(Octet) /\ cursor \in Nat
  BY DEF IInv, TypeOK
<1>2. Len(input[k]) \in Nat
  BY <1>1, LenProperties
<1> QED
  BY <1>1, <1>2 DEF IInv, OneCall

\* What a caller sees of a kind that a step leaves alone.
LEMMA Unread ==
  ASSUME NEW l \in Kinds,
         Lossless,
         status'[l] = "ok" => status[l] = "ok",
         input'[l] = input[l],
         Headers(l)' = Headers(l),
         l = "req" => req' = req,
         l = "resp" => resp' = resp
  PROVE  /\ l = "req" /\ status'[l] = "ok" => IsRequest(input'[l], RequestMessage')
         /\ l = "resp" /\ status'[l] = "ok" => IsResponse(input'[l], ResponseMessage')
<1>1. CASE l = "req"
  <2>1. RequestMessage' = RequestMessage
    BY <1>1 DEF RequestMessage
  <2> QED
    BY <1>1, <2>1 DEF Lossless
<1>2. CASE l = "resp"
  <2>1. ResponseMessage' = ResponseMessage
    BY <1>2 DEF ResponseMessage
  <2> QED
    BY <1>2, <2>1 DEF Lossless
<1> QED
  BY <1>1, <1>2 DEF Kinds

\* A call that is entered: its kind has no result until it returns.
LEMMA Entering ==
  ASSUME IInv, NEW k \in Kinds, NEW b \in Buffers,
         Enter(k, b),
         req' \in Request, resp' \in Response,
         k # "req" => req' = req,
         k # "resp" => resp' = resp
  PROVE  IInv'
<1>1. /\ TypeOK /\ OneCall /\ NeverPanics /\ Lossless
      /\ phase = "idle" /\ calls < MaxCalls
      /\ input' = [input EXCEPT ![k] = b]
      /\ headers' = [headers EXCEPT ![k] = Empty]
      /\ heap' = [heap EXCEPT ![k] = <<>>]
      /\ status' = [status EXCEPT ![k] = "parsing"]
      /\ phase' = "line"
      /\ cursor' = 0
      /\ calls' = calls + 1
      /\ scratch' = scratch
  BY DEF IInv, Enter
<1>2. /\ status'[k] = "parsing" /\ headers'[k] = Empty
      /\ \A l \in Kinds \ {k} : /\ status'[l] = status[l]
                                /\ status[l] # "parsing"
                                /\ input'[l] = input[l]
                                /\ headers'[l] = headers[l]
                                /\ heap'[l] = heap[l]
  BY <1>1 DEF TypeOK, OneCall
<1>3. TypeOK'
  <2>1. input' \in [Kinds -> Seq(Octet)]
    BY <1>1, BuffersAssumption DEF TypeOK
  <2>2. /\ headers' \in [Kinds -> [array : {"scratch", "heap"}, len : Nat]]
        /\ heap' \in [Kinds -> Seq(Header)]
        /\ scratch' \in [Kinds -> [1..MaxHeaders -> Header]]
    BY <1>1 DEF TypeOK, Empty
  <2>3. ASSUME NEW l \in Kinds
        PROVE  /\ headers'[l].array = "scratch" => headers'[l].len <= MaxHeaders
               /\ headers'[l].array = "heap" => headers'[l].len = Len(heap'[l])
    <3>1. CASE l = k
      BY <3>1, <1>2, MaxHeadersAssumption DEF Empty
    <3>2. CASE l # k
      BY <3>2, <1>1, <1>2 DEF TypeOK
    <3> QED
      BY <3>1, <3>2
  <2>4. /\ status' \in [Kinds -> {"none", "parsing", "ok", "malformed", "panic"}]
        /\ phase' \in {"idle", "line", "headers"}
        /\ cursor' \in Nat
        /\ calls' \in 0..MaxCalls
    BY <1>1, MaxCallsAssumption DEF TypeOK
  <2> QED
    BY <2>1, <2>2, <2>3, <2>4 DEF TypeOK
<1>4. OneCall'
  BY <1>1, <1>2 DEF OneCall
<1>5. Fresh'
  BY <1>2 DEF Fresh, AtLine
<1>6. Progress'
  BY <1>1 DEF Progress, AtHeaders
<1>7. NeverPanics'
  BY <1>1, <1>2 DEF NeverPanics
<1>8. Lossless'
  <2>1. ASSUME NEW l \in Kinds \ {k}
        PROVE  Headers(l)' = Headers(l)
    BY <1>1, <1>2 DEF Headers
  <2>2. ASSUME NEW l \in Kinds \ {k}
        PROVE  /\ l = "req" /\ status'[l] = "ok" => IsRequest(input'[l], RequestMessage')
               /\ l = "resp" /\ status'[l] = "ok" => IsResponse(input'[l], ResponseMessage')
    BY <1>1, <1>2, <2>1, Unread DEF Kinds
  <2> QED
    BY <1>2, <2>2 DEF Lossless, Kinds
<1> QED
  BY <1>3, <1>4, <1>5, <1>6, <1>7, <1>8 DEF IInv

\* A call that gives up: no slice it evaluated is out of bounds, so it does not
\* panic, and what the other kind returned stays as it was.
LEMMA GivingUp ==
  ASSUME IInv, NEW k \in Kinds, NEW S,
         status[k] = "parsing",
         Return(k, "malformed", S),
         \A s \in S : InBounds(s, Len(input[k])),
         UNCHANGED <<input, out, calls>>,
         req' \in Request, resp' \in Response,
         k # "req" => req' = req,
         k # "resp" => resp' = resp
  PROVE  IInv'
<1>1. /\ TypeOK /\ NeverPanics /\ Lossless
      /\ status' = [status EXCEPT ![k] = "malformed"]
      /\ phase' = "idle" /\ cursor' = 0
      /\ input' = input /\ headers' = headers /\ scratch' = scratch
      /\ heap' = heap /\ calls' = calls
  BY DEF IInv, Return, out
<1>2. /\ status'[k] = "malformed"
      /\ \A l \in Kinds \ {k} : status'[l] = status[l] /\ status'[l] # "parsing"
  BY <1>1, InProgress DEF TypeOK
<1>3. TypeOK'
  BY <1>1 DEF TypeOK
<1>4. OneCall' /\ NeverPanics'
  BY <1>1, <1>2 DEF OneCall, NeverPanics
<1>5. Fresh' /\ Progress'
  BY <1>1 DEF Fresh, AtLine, Progress, AtHeaders
<1>6. Lossless'
  <2>1. ASSUME NEW l \in Kinds \ {k}
        PROVE  /\ l = "req" /\ status'[l] = "ok" => IsRequest(input'[l], RequestMessage')
               /\ l = "resp" /\ status'[l] = "ok" => IsResponse(input'[l], ResponseMessage')
    <3>1. Headers(l)' = Headers(l)
      BY <1>1 DEF Headers
    <3> QED
      BY <1>1, <1>2, <3>1, Unread DEF Kinds
  <2> QED
    BY <1>2, <2>1 DEF Lossless, Kinds
<1> QED
  BY <1>3, <1>4, <1>5, <1>6 DEF IInv

\* A first line that is accepted: nothing but it has been read.
LEMMA Proceeding ==
  ASSUME IInv, NEW k \in Kinds, NEW nl \in Nat,
         AtLine(k),
         nl + 1 <= Len(input[k]), 1 <= nl,
         Proceed(nl),
         UNCHANGED <<input, out, calls>>,
         req' \in Request, resp' \in Response,
         k # "req" => req' = req,
         k # "resp" => resp' = resp,
         k = "req" => IsRequestLine(input[k], req', nl + 1),
         k = "resp" => IsStatusLine(input[k], resp', nl + 1)
  PROVE  IInv'
<1>1. /\ TypeOK /\ OneCall /\ NeverPanics /\ Lossless
      /\ status[k] = "parsing" /\ headers[k] = Empty
      /\ status' = status
      /\ phase' = "headers" /\ cursor' = nl + 1
      /\ input' = input /\ headers' = headers /\ scratch' = scratch
      /\ heap' = heap /\ calls' = calls
  BY DEF IInv, Fresh, AtLine, Proceed, out
<1>2. \A l \in Kinds \ {k} : status[l] # "parsing"
  BY <1>1, InProgress
<1>3. TypeOK'
  BY <1>1 DEF TypeOK
<1>4. OneCall' /\ NeverPanics' /\ Fresh'
  BY <1>1 DEF OneCall, NeverPanics, Fresh, AtLine
<1>5. \A l \in Kinds : Headers(l)' = Headers(l)
  BY <1>1 DEF Headers
<1>6. Covered(k)'
  <2>1. Headers(k) = <<>>
    BY <1>1, HeadersType, EmptySeq DEF Empty
  <2>2. nl + 1 \in 2..Len(input[k])
    BY InProgress, <1>1
  <2>3. IsFirstLine(k, nl + 1)'
    BY <1>1 DEF IsFirstLine, Kinds
  <2>4. AreHeaders(input[k], <<>>, nl + 1, nl + 1)
    BY EmptySeq DEF AreHeaders
  <2> QED
    BY <1>1, <1>5, <2>1, <2>2, <2>3, <2>4 DEF Covered
<1>7. Progress'
  BY <1>1, <1>2, <1>6 DEF Progress, AtHeaders
<1>8. Lossless'
  <2>1. ASSUME NEW l \in Kinds \ {k}
        PROVE  /\ l = "req" /\ status'[l] = "ok" => IsRequest(input'[l], RequestMessage')
               /\ l = "resp" /\ status'[l] = "ok" => IsResponse(input'[l], ResponseMessage')
    BY <1>1, <1>5, Unread DEF Kinds
  <2> QED
    BY <1>1, <2>1 DEF Lossless, Kinds
<1> QED
  BY <1>3, <1>4, <1>7, <1>8 DEF IInv

\* The octet before the cursor of parseHeaders is a line feed.
LEMMA CursorAfterLF ==
  ASSUME IInv, NEW k \in Kinds, AtHeaders(k)
  PROVE  /\ cursor <= Len(input[k])
         /\ At(input[k], cursor - 1) = LF
<1> DEFINE b == input[k]
           hs == Headers(k)
<1>1. Covered(k) /\ TypeOK
  BY DEF IInv, Progress
<1>2. PICK start \in 2..Len(b) :
        IsFirstLine(k, start) /\ AreHeaders(b, hs, start, cursor)
  BY <1>1 DEF Covered
<1>3. At(b, start - 1) = LF
  BY <1>2 DEF IsFirstLine, IsRequestLine, IsStatusLine, IsLine
<1>4. CASE hs = <<>>
  BY <1>1, <1>2, <1>3, <1>4 DEF AreHeaders, Covered
<1>5. CASE hs # <<>>
  <2>1. Len(hs) \in Nat /\ Len(hs) \in 1..Len(hs)
    BY <1>1, <1>5, HeadersType, LenProperties, EmptySeq
  <2>2. IsHeaderLine(b, hs[Len(hs)], cursor)
    BY <1>2, <2>1 DEF AreHeaders, LineStop
  <2> QED
    BY <1>1, <2>2 DEF IsHeaderLine, IsLine, Covered
<1> QED
  BY <1>4, <1>5

\* The empty line: the message covers its buffer.
LEMMA Finishing ==
  ASSUME IInv, NEW k \in Kinds,
         AtHeaders(k),
         cursor + 1 < Len(input[k]),
         At(input[k], cursor) = CR,
         At(input[k], cursor + 1) = LF,
         NEW body, body = Slice(cursor + 2, Len(input[k])),
         Return(k, "ok", {body}),
         req'  = (IF k = "req"  THEN [req  EXCEPT !.body = body] ELSE req),
         resp' = (IF k = "resp" THEN [resp EXCEPT !.body = body] ELSE resp),
         UNCHANGED <<input, out, calls>>
  PROVE  IInv'
<1> DEFINE b == input[k]
<1>1. /\ b \in Seq(Octet) /\ Len(b) \in Nat /\ cursor \in Nat
      /\ status[k] = "parsing"
      /\ \A l \in Kinds \ {k} : status[l] # "parsing"
  BY InProgress DEF AtHeaders
<1>2. body \in Slices /\ InBounds(body, Len(b))
  BY <1>1 DEF Slices, Slice, InBounds
<1>3. /\ TypeOK /\ NeverPanics /\ Lossless /\ Covered(k)
      /\ status' = [status EXCEPT ![k] = "ok"]
      /\ phase' = "idle" /\ cursor' = 0
      /\ input' = input /\ headers' = headers /\ scratch' = scratch
      /\ heap' = heap /\ calls' = calls
  BY <1>2 DEF IInv, Progress, Return, out
<1>4. /\ status'[k] = "ok"
      /\ \A l \in Kinds \ {k} : status'[l] = status[l]
  BY <1>3 DEF TypeOK
<1>5. \A l \in Kinds : Headers(l)' = Headers(l)
  BY <1>3 DEF Headers
<1>6. TypeOK'
  <2>1. req' \in Request
    BY <1>2, <1>3 DEF TypeOK, Request
  <2>2. resp' \in Response
    BY <1>2, <1>3 DEF TypeOK, Response
  <2> QED
    BY <1>3, <2>1, <2>2 DEF TypeOK
<1>7. OneCall' /\ Fresh' /\ Progress' /\ NeverPanics'
  BY <1>1, <1>3, <1>4 DEF OneCall, Fresh, AtLine, Progress, AtHeaders, NeverPanics
<1>8. PICK start \in 2..Len(b) :
        IsFirstLine(k, start) /\ AreHeaders(b, Headers(k), start, cursor)
  BY <1>3 DEF Covered
<1>9. IsBody(b, body) /\ body.lo - 2 = cursor
  BY <1>1 DEF IsBody, Slice
<1>10. CASE k = "req"
  <2>1. /\ req'.method = req.method /\ req'.path = req.path
        /\ req'.version = req.version /\ req'.body = body
    BY <1>10, <1>3 DEF TypeOK, Request
  <2>2. /\ RequestMessage'.method = req.method /\ RequestMessage'.path = req.path
        /\ RequestMessage'.version = req.version /\ RequestMessage'.body = body
        /\ RequestMessage'.headers = Headers(k)
    BY <1>5, <1>10, <2>1 DEF RequestMessage, Kinds
  <2>3. IsRequestLine(b, RequestMessage', start)
    BY <1>8, <1>10, <2>2 DEF IsFirstLine, IsRequestLine
  <2>4. IsRequest(b, RequestMessage')
    BY <1>8, <1>9, <2>2, <2>3 DEF IsRequest
  <2>5. resp' = resp
    BY <1>10
  <2>6. status'["resp"] = "ok" => IsResponse(input'["resp"], ResponseMessage')
    BY <1>3, <1>4, <1>5, <1>10, <2>5, Unread DEF Kinds
  <2>7. Lossless'
    BY <1>3, <1>10, <2>4, <2>6 DEF Lossless
  <2> QED
    BY <1>6, <1>7, <2>7 DEF IInv
<1>11. CASE k = "resp"
  <2>1. /\ resp'.version = resp.version /\ resp'.code = resp.code
        /\ resp'.reason = resp.reason /\ resp'.body = body
    BY <1>11, <1>3 DEF TypeOK, Response
  <2>2. /\ ResponseMessage'.version = resp.version /\ ResponseMessage'.code = resp.code
        /\ ResponseMessage'.reason = resp.reason /\ ResponseMessage'.body = body
        /\ ResponseMessage'.headers = Headers(k)
    BY <1>5, <1>11, <2>1 DEF ResponseMessage, Kinds
  <2>3. IsStatusLine(b, ResponseMessage', start)
    BY <1>8, <1>11, <2>2 DEF IsFirstLine, IsStatusLine
  <2>4. IsResponse(b, ResponseMessage')
    BY <1>8, <1>9, <2>2, <2>3 DEF IsResponse
  <2>5. req' = req
    BY <1>11
  <2>6. status'["req"] = "ok" => IsRequest(input'["req"], RequestMessage')
    BY <1>3, <1>4, <1>5, <1>11, <2>5, Unread DEF Kinds
  <2>7. Lossless'
    BY <1>3, <1>11, <2>4, <2>6 DEF Lossless
  <2> QED
    BY <1>6, <1>7, <2>7 DEF IInv
<1> QED
  BY <1>10, <1>11 DEF Kinds

\* A header line: the headers cover the buffer up to the next line.
LEMMA Consuming ==
  ASSUME IInv, NEW k \in Kinds, NEW h \in Header, NEW abs \in Nat,
         AtHeaders(k),
         abs + 1 <= Len(input[k]),
         h.name.lo = cursor,
         IsHeaderLine(input[k], h, abs + 1),
         ConsumeLine(k, h, abs),
         UNCHANGED <<status, phase, input, message, calls>>
  PROVE  IInv'
<1> DEFINE b == input[k]
<1>1. /\ TypeOK /\ OneCall /\ NeverPanics /\ Lossless /\ Covered(k)
      /\ input' = input /\ req' = req /\ resp' = resp
      /\ status' = status /\ phase' = phase /\ calls' = calls
      /\ cursor' = abs + 1
      /\ status[k] = "parsing" /\ phase = "headers"
  BY DEF IInv, Progress, message, ConsumeLine, AtHeaders
<1>2. \A l \in Kinds \ {k} : status[l] # "parsing"
  BY <1>1, InProgress
<1>3. /\ headers' \in [Kinds -> [array : {"scratch", "heap"}, len : Nat]]
      /\ scratch' \in [Kinds -> [1..MaxHeaders -> Header]]
      /\ heap' \in [Kinds -> Seq(Header)]
      /\ \A l \in Kinds :
           /\ headers'[l].array = "scratch" => headers'[l].len <= MaxHeaders
           /\ headers'[l].array = "heap" => headers'[l].len = Len(heap'[l])
      /\ Headers(k)' = Append(Headers(k), h)
      /\ \A l \in Kinds \ {k} : Headers(l)' = Headers(l)
  BY <1>1, HeaderAppended DEF ConsumeLine
<1>4. TypeOK'
  BY <1>1, <1>3 DEF TypeOK
<1>5. OneCall' /\ Fresh' /\ NeverPanics'
  BY <1>1 DEF OneCall, Fresh, AtLine, NeverPanics
<1>6. Covered(k)'
  <2>1. PICK start \in 2..Len(b) :
          IsFirstLine(k, start) /\ AreHeaders(b, Headers(k), start, cursor)
    BY <1>1 DEF Covered
  <2>2. AreHeaders(b, Append(Headers(k), h), start, abs + 1)
    BY <1>1, <2>1, HeadersType, HeadersExtended
  <2>3. IsFirstLine(k, start)'
    BY <1>1, <2>1 DEF IsFirstLine
  <2> QED
    BY <1>1, <1>3, <2>2, <2>3 DEF Covered
<1>7. Progress'
  BY <1>1, <1>2, <1>6 DEF Progress, AtHeaders
<1>8. Lossless'
  <2>1. ASSUME NEW l \in Kinds \ {k}
        PROVE  /\ l = "req" /\ status'[l] = "ok" => IsRequest(input'[l], RequestMessage')
               /\ l = "resp" /\ status'[l] = "ok" => IsResponse(input'[l], ResponseMessage')
    BY <1>1, <1>3, Unread DEF Kinds
  <2> QED
    BY <1>1, <2>1 DEF Lossless, Kinds
<1> QED
  BY <1>4, <1>5, <1>7, <1>8 DEF IInv

----------------------------------------------------------------------------
(***************************************************************************)
(* Each action preserves the invariant.                                    *)
(***************************************************************************)

\* A first line that EndsLine accepts is a line.
LEMMA FirstLineFound ==
  ASSUME IInv, NEW k \in Kinds, AtLine(k), EndsLine(input[k], FirstLF(input[k]))
  PROVE  /\ FirstLF(input[k]) \in Nat
         /\ 1 <= FirstLF(input[k])
         /\ FirstLF(input[k]) + 1 <= Len(input[k])
         /\ IsLine(input[k], 0, FirstLF(input[k]) + 1)
<1>1. Len(input[k]) \in Nat
  BY InProgress DEF AtLine
<1> QED
  BY <1>1, LineFound DEF FirstLF, EndsLine

\* A parse given up for want of a first line reads inside the buffer.
LEMMA NoFirstLineStep ==
  ASSUME IInv, NEW k \in Kinds, NoFirstLine(k)
  PROVE  IInv'
<1> DEFINE b  == input[k]
           nl == FirstLF(b)
           S  == IF nl < 1 THEN {} ELSE {Index(nl - 1)}
<1>1. /\ AtLine(k)
      /\ Return(k, "malformed", S)
      /\ UNCHANGED <<input, req, resp, out, calls>>
  BY DEF NoFirstLine, message
<1>2. status[k] = "parsing" /\ Len(b) \in Nat
  BY <1>1, InProgress DEF AtLine
<1>3. nl = -1 \/ nl \in 0..(Len(b) - 1)
  BY <1>2, LineFeedFirst DEF FirstLF
<1>4. \A s \in S : InBounds(s, Len(b))
  BY <1>2, <1>3 DEF InBounds, Index, Slice
<1>5. req' \in Request /\ resp' \in Response
  BY <1>1 DEF IInv, TypeOK
<1> HIDE DEF S
<1> QED
  BY <1>1, <1>2, <1>4, <1>5, GivingUp

\* A parse given up for want of a space reads inside the first line.
LEMMA NoSpaceStep ==
  ASSUME IInv, NEW k \in Kinds, NoSpace(k)
  PROVE  IInv'
<1> DEFINE b  == input[k]
           nl == FirstLF(b)
           S  == {Slice(0, nl - 1)}
<1>1. /\ AtLine(k)
      /\ EndsLine(b, nl)
      /\ Return(k, "malformed", S)
      /\ UNCHANGED <<input, req, resp, out, calls>>
  BY DEF NoSpace, message
<1>2. status[k] = "parsing" /\ Len(b) \in Nat
  BY <1>1, InProgress DEF AtLine
<1>3. \A s \in S : InBounds(s, Len(b))
  BY <1>1, <1>2, FirstLineFound DEF InBounds, Slice
<1>4. req' \in Request /\ resp' \in Response
  BY <1>1 DEF IInv, TypeOK
<1> HIDE DEF S
<1> QED
  BY <1>1, <1>2, <1>3, <1>4, GivingUp

\* The three parts of a request line are inside the buffer.
LEMMA RequestLineStep ==
  ASSUME IInv, RequestLine
  PROVE  IInv'
<1> DEFINE b   == input["req"]
           nl  == FirstLF(b)
           sp1 == IndexByte(b, SP, 0, nl - 1)
           sp2 == IndexByte(b, SP, sp1 + 1, nl - 1)
           GivesUp == /\ req' = [req EXCEPT !.method = Slice(0, sp1)]
                      /\ Return("req", "malformed", {Slice(sp1 + 1, nl - 1)})
           Accepts == /\ sp2 >= 0
                      /\ req' = [req EXCEPT !.method  = Slice(0, sp1),
                                            !.path    = Slice(sp1 + 1, sp2),
                                            !.version = Slice(sp2 + 1, nl - 1)]
                      /\ Proceed(nl)
<1>1. /\ AtLine("req") /\ EndsLine(b, nl) /\ sp1 >= 0
      /\ resp' = resp
      /\ UNCHANGED <<input, out, calls>>
      /\ GivesUp \/ Accepts
  BY Zenon DEF RequestLine
<1>2. "req" \in Kinds /\ "req" # "resp"
  BY DEF Kinds
<1>3. status["req"] = "parsing" /\ Len(b) \in Nat
  BY <1>1, <1>2, InProgress DEF AtLine
<1>4. nl \in Nat /\ 1 <= nl /\ nl + 1 <= Len(b) /\ IsLine(b, 0, nl + 1)
  BY <1>1, <1>2, FirstLineFound
<1> HIDE DEF nl
<1>5. sp1 \in 0..(nl - 2) /\ At(b, sp1) = SP /\ Free(b, 0, sp1, {SP})
  <2>1. nl - 1 \in Nat
    BY <1>4
  <2>2. sp1 \in 0..((nl - 1) - 1) /\ At(b, sp1) = SP /\ Free(b, 0, sp1, {SP})
    BY <1>1, <2>1, SpaceFound
  <2> QED
    BY <2>2, <1>4
<1>6. req \in Request /\ resp \in Response
  BY DEF IInv, TypeOK
<1> HIDE DEF sp1
<1>7. CASE GivesUp
  <2>1. req' \in Request
    <3>1. Slice(0, sp1) \in Slices
      BY <1>5 DEF Slices, Slice
    <3> QED
      BY <1>7, <1>6, <3>1 DEF Request
  <2>2. InBounds(Slice(sp1 + 1, nl - 1), Len(b))
    BY <1>3, <1>4, <1>5 DEF InBounds, Slice
  <2> QED
    BY <1>1, <1>2, <1>3, <1>6, <1>7, <2>1, <2>2, GivingUp
<1>8. CASE Accepts
  <2>1. /\ sp2 \in (sp1 + 1)..(nl - 2) /\ At(b, sp2) = SP
        /\ Free(b, sp1 + 1, sp2, {SP})
    <3>1. sp1 + 1 \in Nat /\ nl - 1 \in Nat
      BY <1>4, <1>5
    <3>2. /\ sp2 \in (sp1 + 1)..((nl - 1) - 1) /\ At(b, sp2) = SP
          /\ Free(b, sp1 + 1, sp2, {SP})
      BY <3>1, <1>8, SpaceFound
    <3> QED
      BY <3>2, <1>4
  <2> HIDE DEF sp2
  <2>2. /\ req' \in Request
        /\ req'.method = Slice(0, sp1)
        /\ req'.path = Slice(sp1 + 1, sp2)
        /\ req'.version = Slice(sp2 + 1, nl - 1)
    <3>1. /\ Slice(0, sp1) \in Slices /\ Slice(sp1 + 1, sp2) \in Slices
          /\ Slice(sp2 + 1, nl - 1) \in Slices
      BY <1>4, <1>5, <2>1 DEF Slices, Slice
    <3> QED
      BY <1>6, <1>8, <3>1 DEF Request
  <2>3. IsRequestLine(b, req', nl + 1)
    <3>1. (nl + 1) - 2 = nl - 1
      BY <1>4
    <3>2. /\ req'.method.lo = 0 /\ req'.method.hi = sp1
          /\ req'.path.lo = sp1 + 1 /\ req'.path.hi = sp2
          /\ req'.version.lo = sp2 + 1 /\ req'.version.hi = nl - 1
      BY <2>2 DEF Slice
    <3> QED
      BY <1>4, <1>5, <2>1, <2>2, <3>1, <3>2 DEF IsRequestLine
  <2> QED
    BY <1>1, <1>2, <1>4, <1>6, <1>8, <2>2, <2>3, Proceeding
<1> QED
  BY <1>1, <1>7, <1>8

\* Three octets of a buffer have a status value, digits or not.
LEMMA StatusValueType ==
  ASSUME NEW b \in Seq(Octet), NEW p \in Nat, p + 3 <= Len(b)
  PROVE  StatusValue(b, p) \in Nat
<1>1. ASSUME NEW x \in Octet
      PROVE  Digit(x) \in Nat
  BY DEF Digit, Octet, ZERO
<1>2. Len(b) \in Nat
  BY LenProperties
<1>3. /\ p \in 0..(Len(b) - 1) /\ p + 1 \in 0..(Len(b) - 1)
      /\ p + 2 \in 0..(Len(b) - 1)
  BY <1>2
<1>4. At(b, p) \in Octet /\ At(b, p + 1) \in Octet /\ At(b, p + 2) \in Octet
  BY <1>3, AtInside
<1>5. /\ Digit(At(b, p)) \in Nat /\ Digit(At(b, p + 1)) \in Nat
      /\ Digit(At(b, p + 2)) \in Nat
  BY <1>1, <1>4
<1> QED
  BY <1>5 DEF StatusValue

\* The parts of a status line are inside the buffer, and the status is a number.
LEMMA StatusLineStep ==
  ASSUME IInv, StatusLine
  PROVE  IInv'
<1> DEFINE b    == input["resp"]
           nl   == FirstLF(b)
           sp1  == IndexByte(b, SP, 0, nl - 1)
           sp2  == IndexByte(b, SP, sp1 + 1, nl - 1)
           stop == IF sp2 < 0 THEN nl - 1 ELSE sp2
           why  == IF sp2 < 0 THEN Nil ELSE Slice(sp2 + 1, nl - 1)
           code == Slice(sp1 + 1, stop)
           line == [resp EXCEPT !.version = Slice(0, sp1), !.reason = why]
           isCode  == Width(code) = 3 /\ At(b, code.lo) \in ZERO..NINE
           GivesUp == /\ resp' = line
                      /\ Return("resp", "malformed", {code})
           Accepts == /\ isCode
                      /\ resp' = [line EXCEPT !.code = StatusValue(b, code.lo)]
                      /\ Proceed(nl)
<1>1. /\ AtLine("resp") /\ EndsLine(b, nl) /\ sp1 >= 0
      /\ req' = req
      /\ UNCHANGED <<input, out, calls>>
      /\ GivesUp \/ Accepts
  BY Zenon DEF StatusLine
<1>2. "resp" \in Kinds /\ "req" # "resp"
  BY DEF Kinds
<1>3. status["resp"] = "parsing" /\ Len(b) \in Nat /\ b \in Seq(Octet)
  BY <1>1, <1>2, InProgress DEF AtLine
<1>4. nl \in Nat /\ 1 <= nl /\ nl + 1 <= Len(b) /\ IsLine(b, 0, nl + 1)
  BY <1>1, <1>2, FirstLineFound
<1> HIDE DEF nl
<1>5. sp1 \in 0..(nl - 2) /\ At(b, sp1) = SP /\ Free(b, 0, sp1, {SP})
  <2>1. nl - 1 \in Nat
    BY <1>4
  <2>2. sp1 \in 0..((nl - 1) - 1) /\ At(b, sp1) = SP /\ Free(b, 0, sp1, {SP})
    BY <1>1, <2>1, SpaceFound
  <2> QED
    BY <2>2, <1>4
<1>6. req \in Request /\ resp \in Response
  BY DEF IInv, TypeOK
<1> HIDE DEF sp1
\* The status stops at the second space or at CR, and the reason follows.
<1>7. /\ stop \in (sp1 + 1)..(nl - 1)
      /\ Free(b, sp1 + 1, stop, {SP})
      /\ \/ stop = nl - 1 /\ why = Nil
         \/ stop < nl - 1 /\ At(b, stop) = SP /\ why = Slice(stop + 1, nl - 1)
  <2>1. sp1 + 1 \in Nat /\ nl - 1 \in Nat /\ sp1 + 1 <= nl - 1
    BY <1>4, <1>5
  <2>2. CASE sp2 < 0
    <3>1. Free(b, sp1 + 1, nl - 1, {SP})
      BY <2>1, <2>2, NoSpaceFound
    <3>2. stop = nl - 1 /\ why = Nil
      BY <2>2
    <3> HIDE DEF stop, why
    <3> QED
      BY <2>1, <3>1, <3>2
  <2>3. CASE ~ (sp2 < 0)
    <3>1. sp2 = -1 \/ sp2 \in (sp1 + 1)..((nl - 1) - 1)
      BY <2>1, IndexByteFirst, SMTT(30)
    <3>2. sp2 >= 0
      BY <2>1, <2>3, <3>1
    <3>3. /\ sp2 \in (sp1 + 1)..((nl - 1) - 1) /\ At(b, sp2) = SP
          /\ Free(b, sp1 + 1, sp2, {SP})
      BY <2>1, <3>2, SpaceFound
    <3>4. stop = sp2 /\ why = Slice(sp2 + 1, nl - 1)
      BY <2>3
    <3> HIDE DEF stop, why, sp2
    <3> QED
      BY <2>1, <3>3, <3>4
  <2> QED
    BY <2>2, <2>3
<1> HIDE DEF stop, why, sp2
<1>8. /\ why \in Slices /\ Slice(0, sp1) \in Slices
      /\ code.lo = sp1 + 1 /\ code.hi = stop
  BY <1>4, <1>5, <1>7 DEF Slices, Slice, Nil
<1>9. /\ line \in Response
      /\ line.version = Slice(0, sp1) /\ line.reason = why
  BY <1>6, <1>8 DEF Response
<1> HIDE DEF line, code
<1>10. CASE GivesUp
  <2>1. InBounds(code, Len(b))
    BY <1>3, <1>4, <1>5, <1>7, <1>8 DEF InBounds
  <2> QED
    BY <1>1, <1>2, <1>3, <1>6, <1>9, <1>10, <2>1, GivingUp
<1>11. CASE Accepts
  <2>1. stop = sp1 + 4 /\ At(b, sp1 + 1) \in ZERO..NINE
    BY <1>4, <1>5, <1>7, <1>8, <1>11 DEF Width
  <2>2. StatusValue(b, sp1 + 1) \in Nat
    BY <1>3, <1>4, <1>5, <1>7, <2>1, StatusValueType
  <2>3. /\ resp' \in Response
        /\ resp'.version = Slice(0, sp1) /\ resp'.reason = why
        /\ resp'.code = StatusValue(b, sp1 + 1)
    BY <1>8, <1>9, <1>11, <2>2 DEF Response
  <2>4. resp'.version.lo = 0 /\ resp'.version.hi = sp1
    BY <2>3 DEF Slice
  <2>5. (nl + 1) - 2 = nl - 1 /\ (sp1 + 1) + 3 = stop
    BY <1>4, <1>5, <2>1
  <2>6. (sp1 + 1) + 4 = stop + 1
    BY <1>4, <1>5, <2>1
  <2>7. \/ stop = nl - 1 /\ resp'.reason.lo = resp'.reason.hi
        \/ /\ stop < nl - 1 /\ At(b, stop) = SP
           /\ resp'.reason = Slice(stop + 1, nl - 1)
    BY <1>7, <2>3 DEF Nil, Slice
  <2>8. IsStatusLine(b, resp', nl + 1)
    BY <1>4, <1>5, <1>7, <2>1, <2>3, <2>4, <2>5, <2>6, <2>7 DEF IsStatusLine
  <2> QED
    BY <1>1, <1>2, <1>4, <1>6, <1>11, <2>3, <2>8, Proceeding
<1> QED
  BY <1>1, <1>10, <1>11

\* A parse given up for want of a line end keeps what it has read.
LEMMA NoTerminatorStep ==
  ASSUME IInv, NEW k \in Kinds, NoTerminator(k)
  PROVE  IInv'
<1> DEFINE S == {}
<1>1. /\ AtHeaders(k)
      /\ Return(k, "malformed", S)
      /\ UNCHANGED <<input, req, resp, out, calls>>
  BY DEF NoTerminator, message
<1>2. /\ status[k] = "parsing" /\ req' \in Request /\ resp' \in Response
      /\ \A s \in S : InBounds(s, Len(input[k]))
  BY <1>1 DEF IInv, TypeOK, AtHeaders
<1> HIDE DEF S
<1> QED
  BY <1>1, <1>2, GivingUp

\* The body is the rest of the buffer, or nothing of it.
LEMMA BlankLineStep ==
  ASSUME IInv, NEW k \in Kinds, BlankLine(k)
  PROVE  IInv'
<1> DEFINE b    == input[k]
           body == Slice(cursor + 2, Len(b))
           S    == {}
           GivesUp == /\ Return(k, "malformed", S)
                      /\ UNCHANGED message
           Ends == /\ cursor + 1 < Len(b) /\ At(b, cursor + 1) = LF
                   /\ Return(k, "ok", {body})
                   /\ req'  = IF k = "req"  THEN [req  EXCEPT !.body = body] ELSE req
                   /\ resp' = IF k = "resp" THEN [resp EXCEPT !.body = body] ELSE resp
<1>1. /\ AtHeaders(k) /\ At(b, cursor) = CR
      /\ UNCHANGED <<input, out, calls>>
      /\ GivesUp \/ Ends
  BY Zenon DEF BlankLine
<1>2. CASE GivesUp
  <2>1. /\ status[k] = "parsing" /\ req' = req /\ resp' = resp
        /\ req' \in Request /\ resp' \in Response
        /\ \A s \in S : InBounds(s, Len(b))
    BY <1>1, <1>2 DEF IInv, TypeOK, AtHeaders, message
  <2> HIDE DEF S
  <2> QED
    BY <1>1, <1>2, <2>1, GivingUp
<1>3. CASE Ends
  <2> HIDE DEF body
  <2> QED
    BY <1>1, <1>3, Finishing DEF body
<1> QED
  BY <1>1, <1>2, <1>3

\* A header line is inside the buffer, and the cursor moves on past it.
LEMMA HeaderLineStep ==
  ASSUME IInv, NEW k \in Kinds, HeaderLine(k)
  PROVE  IInv'
<1> DEFINE b     == input[k]
           abs   == IndexByte(b, LF, cursor, Len(b))
           colon == IndexByte(b, COLON, cursor, abs - 1)
           h     == [name  |-> Slice(cursor, colon),
                     value |-> Trim(b, colon + 1, abs - 1)]
           noCR  == IF abs < 1 THEN {} ELSE {Index(abs - 1)}
           whole == {Slice(cursor, abs - 1)}
           Unterminated == Return(k, "malformed", noCR) /\ UNCHANGED out
           Colonless == /\ EndsLine(b, abs)
                        /\ Return(k, "malformed", whole)
                        /\ UNCHANGED out
           Consumes  == /\ EndsLine(b, abs)
                        /\ colon >= 0
                        /\ ConsumeLine(k, h, abs)
                        /\ UNCHANGED <<status, phase>>
<1>1. /\ AtHeaders(k) /\ At(b, cursor) # CR
      /\ UNCHANGED <<input, message, calls>>
      /\ Unterminated \/ Colonless \/ Consumes
  BY Zenon DEF HeaderLine
<1>2. /\ status[k] = "parsing" /\ Len(b) \in Nat /\ cursor \in Nat
      /\ req' = req /\ resp' = resp
      /\ req' \in Request /\ resp' \in Response
  BY <1>1, InProgress DEF IInv, TypeOK, AtHeaders, message
<1>3. At(b, cursor - 1) = LF
  BY <1>1, CursorAfterLF
<1>4. CASE Unterminated
  <2>1. abs = -1 \/ abs \in cursor..(Len(b) - 1)
    BY <1>2, LineFeedFirst
  <2>2. \A s \in noCR : InBounds(s, Len(b))
    BY <1>2, <2>1 DEF InBounds, Index, Slice
  <2> HIDE DEF noCR
  <2> QED
    BY <1>1, <1>2, <1>4, <2>2, GivingUp
<1>5. CASE EndsLine(b, abs)
  <2>1. abs \in Nat /\ abs + 1 <= Len(b) /\ IsLine(b, cursor, abs + 1)
    BY <1>2, <1>3, <1>5, LineFound DEF EndsLine
  <2>2. CASE Colonless
    <3>1. \A s \in whole : InBounds(s, Len(b))
      BY <1>2, <2>1 DEF InBounds, Slice, IsLine
    <3> HIDE DEF whole
    <3> QED
      BY <1>1, <1>2, <2>2, <3>1, GivingUp
  <2>3. CASE Consumes
    <3> HIDE DEF abs
    <3>1. h \in Header /\ IsHeaderLine(b, h, abs + 1)
      BY <1>1, <1>2, <2>1, <2>3, HeaderFound DEF Header
    <3>2. h.name.lo = cursor
      BY DEF Slice
    <3> HIDE DEF h
    <3> QED
      BY <1>1, <2>1, <2>3, <3>1, <3>2, Consuming
  <2> QED
    BY <1>1, <1>4, <2>2, <2>3
<1> QED
  BY <1>1, <1>4, <1>5

----------------------------------------------------------------------------
(***************************************************************************)
(* The theorems.                                                           *)
(***************************************************************************)

\* The invariant holds of a Parser that was never called.
LEMMA InvariantInit == Init => IInv
<1> SUFFICES ASSUME Init PROVE IInv
  OBVIOUS
<1>1. TypeOK
  <2>1. Nil \in Slices /\ NilHeader \in Header
    BY DEF Nil, Slice, Slices, NilHeader, Header
  <2>2. NilRequest \in Request /\ NilResponse \in Response
    BY <2>1 DEF NilRequest, NilResponse, Request, Response
  <2>3. <<>> \in Seq(Octet) /\ <<>> \in Seq(Header)
    BY EmptySeq
  <2>4. 0 \in 0..MaxCalls /\ MaxHeaders \in Nat
    BY MaxCallsAssumption, MaxHeadersAssumption
  <2> QED
    BY <2>1, <2>2, <2>3, <2>4 DEF Init, TypeOK, Empty
<1>2. OneCall /\ Fresh /\ Progress /\ NeverPanics /\ Lossless
  BY DEF Init, OneCall, Fresh, AtLine, Progress, AtHeaders, NeverPanics,
         Lossless, Kinds
<1> QED
  BY <1>1, <1>2 DEF IInv

\* Every step keeps the invariant.
LEMMA InvariantStep == IInv /\ [Next]_vars => IInv'
<1> SUFFICES ASSUME IInv, [Next]_vars PROVE IInv'
  OBVIOUS
<1>1. ASSUME NEW b \in Buffers, ParseRequest(b)
      PROVE  IInv'
  <2>1. Enter("req", b) /\ req' = NilRequest /\ resp' = resp
    BY <1>1 DEF ParseRequest
  <2>2. req' \in Request /\ resp' \in Response
    BY <2>1 DEF IInv, TypeOK, NilRequest, Request, Nil, Slice, Slices
  <2> QED
    BY <2>1, <2>2, Entering DEF Kinds
<1>2. ASSUME NEW b \in Buffers, ParseResponse(b)
      PROVE  IInv'
  <2>1. Enter("resp", b) /\ resp' = NilResponse /\ req' = req
    BY <1>2 DEF ParseResponse
  <2>2. req' \in Request /\ resp' \in Response
    BY <2>1 DEF IInv, TypeOK, NilResponse, Response, Nil, Slice, Slices
  <2> QED
    BY <2>1, <2>2, Entering DEF Kinds
<1>3. CASE RequestLine
  BY <1>3, RequestLineStep
<1>4. CASE StatusLine
  BY <1>4, StatusLineStep
<1>5. ASSUME NEW k \in Kinds, Step(k)
      PROVE  IInv'
  BY <1>5, NoFirstLineStep, NoSpaceStep, NoTerminatorStep, BlankLineStep,
     HeaderLineStep DEF Step
<1>6. CASE UNCHANGED vars
  <2>1. \A k \in Kinds : Headers(k)' = Headers(k)
    BY <1>6 DEF vars, Headers
  <2>2. RequestMessage' = RequestMessage /\ ResponseMessage' = ResponseMessage
    BY <1>6, <2>1 DEF vars, RequestMessage, ResponseMessage, Kinds
  <2>3. TypeOK' /\ OneCall' /\ Fresh' /\ NeverPanics'
    BY <1>6 DEF vars, IInv, TypeOK, OneCall, Fresh, AtLine, NeverPanics
  <2>4. Progress'
    <3>1. \A k \in Kinds : AtHeaders(k)' => AtHeaders(k)
      BY <1>6 DEF vars, AtHeaders
    <3>2. \A k \in Kinds : Covered(k) => Covered(k)'
      BY <1>6, <2>1 DEF vars, Covered, IsFirstLine
    <3> QED
      BY <3>1, <3>2 DEF IInv, Progress
  <2>5. Lossless'
    BY <1>6, <2>2 DEF vars, IInv, Lossless
  <2> QED
    BY <2>3, <2>4, <2>5 DEF IInv
<1> QED
  BY <1>1, <1>2, <1>3, <1>4, <1>5, <1>6 DEF Next, Call, Parse

\* The invariant holds in every state.
LEMMA InvariantHolds == Safety => []IInv
BY InvariantInit, InvariantStep, PTL DEF Safety

\* Type correctness of every reachable state, for every size of the scratch.
THEOREM TypeCorrect == Spec => []TypeOK
<1>1. IInv => TypeOK
  BY DEF IInv
<1> QED
  BY <1>1, InvariantHolds, PTL DEF Spec

\* No sequence of calls on any buffers makes the parser panic.
THEOREM PanicFree == Spec => []NeverPanics
<1>1. IInv => NeverPanics
  BY DEF IInv
<1> QED
  BY <1>1, InvariantHolds, PTL DEF Spec

\* Every message that a caller holds covers its buffer, octet by octet.
THEOREM MessagesLossless == Spec => []Lossless
<1>1. IInv => Lossless
  BY DEF IInv
<1> QED
  BY <1>1, InvariantHolds, PTL DEF Spec

----------------------------------------------------------------------------
(***************************************************************************)
(* The contract.  Lossless says that what is accepted is a message; that   *)
(* nothing else is, and that every message is accepted, needs what the     *)
(* lines read so far say of the whole buffer.                              *)
(***************************************************************************)

WellFormed(k, b) ==
  IF k = "req" THEN WellFormedRequest(b) ELSE WellFormedResponse(b)

LinesScanned == \A k \in Kinds : AtHeaders(k) => Scanned(input[k], cursor)

Verdict ==
  \A k \in Kinds : /\ status[k] = "ok" => WellFormed(k, input[k])
                   /\ status[k] = "malformed" => ~ WellFormed(k, input[k])

CInv == IInv /\ LinesScanned /\ Verdict

\* A step of a call of kind k: nothing of the other kind changes.
OnlyOwn(k) ==
  /\ status[k] = "parsing" /\ status'[k] # "none"
  /\ input' = input /\ calls' = calls
  /\ \A l \in Kinds \ {k} : /\ status[l] # "parsing" /\ status'[l] = status[l]
                            /\ Headers(l)' = Headers(l)
  /\ k # "req" => req' = req
  /\ k # "resp" => resp' = resp

\* A return with the right verdict.
LEMMA Returning ==
  ASSUME CInv, IInv', NEW k \in Kinds, status[k] = "parsing",
         NEW decided \in {"ok", "malformed"}, NEW S,
         Return(k, decided, S),
         UNCHANGED <<input, out, calls>>,
         k # "req" => req' = req,
         k # "resp" => resp' = resp,
         decided = "ok" => WellFormed(k, input[k]),
         decided = "malformed" => ~ WellFormed(k, input[k])
  PROVE  OnlyOwn(k) /\ CInv'
<1>1. /\ IInv /\ Verdict
      /\ status' = [status EXCEPT ![k] =
           IF \A s \in S : InBounds(s, Len(input[k])) THEN decided ELSE "panic"]
      /\ phase' = "idle"
      /\ input' = input /\ headers' = headers /\ scratch' = scratch
      /\ heap' = heap /\ calls' = calls
  BY DEF CInv, Return, out
<1>2. /\ status'[k] \in {decided, "panic"} /\ status'[k] # "panic"
      /\ \A l \in Kinds \ {k} : status'[l] = status[l] /\ status[l] # "parsing"
  BY <1>1, InProgress DEF IInv, TypeOK, NeverPanics
<1>3. \A l \in Kinds : Headers(l)' = Headers(l)
  BY <1>1 DEF Headers
<1>4. OnlyOwn(k)
  BY <1>1, <1>2, <1>3 DEF OnlyOwn
<1>5. LinesScanned'
  BY <1>1 DEF LinesScanned, AtHeaders
<1>6. Verdict'
  BY <1>1, <1>2 DEF Verdict
<1> QED
  BY <1>4, <1>5, <1>6 DEF CInv

\* A step that goes on after lines that were scanned.
LEMMA GoingOn ==
  ASSUME CInv, IInv', NEW k \in Kinds, status[k] = "parsing",
         UNCHANGED <<status, input, calls>>,
         \A l \in Kinds \ {k} : Headers(l)' = Headers(l),
         k # "req" => req' = req,
         k # "resp" => resp' = resp,
         Scanned(input[k], cursor')
  PROVE  OnlyOwn(k) /\ CInv'
<1>1. \A l \in Kinds \ {k} : status[l] # "parsing"
  BY InProgress DEF CInv
<1>2. OnlyOwn(k)
  BY <1>1 DEF OnlyOwn
<1>3. LinesScanned'
  BY <1>1 DEF LinesScanned, AtHeaders
<1>4. Verdict'
  BY DEF CInv, Verdict
<1> QED
  BY <1>2, <1>3, <1>4 DEF CInv

\* A message without a first line is not well formed.
LEMMA NoFirstLineDecides ==
  ASSUME CInv, IInv', NEW k \in Kinds, NoFirstLine(k)
  PROVE  OnlyOwn(k) /\ CInv'
<1> DEFINE b  == input[k]
           nl == FirstLF(b)
           S  == IF nl < 1 THEN {} ELSE {Index(nl - 1)}
<1>1. /\ AtLine(k) /\ ~ EndsLine(b, nl)
      /\ Return(k, "malformed", S)
      /\ UNCHANGED <<input, req, resp, out, calls>>
  BY DEF NoFirstLine, message
<1>2. status[k] = "parsing" /\ Len(b) \in Nat
  BY <1>1, InProgress DEF AtLine, CInv
<1>3. ~ WellFormedHead(b)
  BY <1>1, <1>2, NoHeadWithoutLine DEF EndsLine, FirstLF
<1>4. ~ WellFormed(k, b)
  BY <1>3 DEF WellFormed, WellFormedRequest, WellFormedResponse
<1> HIDE DEF S
<1> QED
  BY <1>1, <1>2, <1>4, Returning

\* A message whose first line has no space where one is due is not well formed.
LEMMA NoSpaceDecides ==
  ASSUME CInv, IInv', NEW k \in Kinds, NoSpace(k)
  PROVE  OnlyOwn(k) /\ CInv'
<1> DEFINE b  == input[k]
           nl == FirstLF(b)
           S  == {Slice(0, nl - 1)}
<1>1. /\ AtLine(k) /\ EndsLine(b, nl)
      /\ IndexByte(b, SP, 0, nl - 1) < 0
      /\ Return(k, "malformed", S)
      /\ UNCHANGED <<input, req, resp, out, calls>>
  BY DEF NoSpace, message
<1>2. status[k] = "parsing" /\ Len(b) \in Nat
  BY <1>1, InProgress DEF AtLine, CInv
<1>3. nl \in Nat /\ 1 <= nl /\ IsLine(b, 0, nl + 1)
  BY <1>1, FirstLineFound DEF CInv
<1> HIDE DEF S, nl
<1>4. ~ WellFormed(k, b)
  <2>1. nl - 1 \in Nat /\ nl + 1 \in Nat /\ (nl + 1) - 2 = nl - 1
    BY <1>3
  <2>2. Free(b, 0, nl - 1, {SP})
    BY <1>1, <2>1, NoSpaceFound
  <2>3. Free(b, 0, (nl + 1) - 2, {SP})
    BY <2>1, <2>2
  <2>4. ~ WellFormedRequest(b) /\ ~ WellFormedResponse(b)
    BY <1>2, <1>3, <2>1, <2>3, NoMessageWithoutSpace
  <2> QED
    BY <2>4 DEF WellFormed
<1> QED
  BY <1>1, <1>2, <1>4, Returning

\* Of the first line ParseRequest looks at two spaces.
LEMMA RequestLineDecides ==
  ASSUME CInv, IInv', RequestLine
  PROVE  OnlyOwn("req") /\ CInv'
<1> DEFINE b   == input["req"]
           nl  == FirstLF(b)
           sp1 == IndexByte(b, SP, 0, nl - 1)
           sp2 == IndexByte(b, SP, sp1 + 1, nl - 1)
           S   == {Slice(sp1 + 1, nl - 1)}
           GivesUp == sp2 < 0 /\ Return("req", "malformed", S)
<1>1. /\ AtLine("req") /\ EndsLine(b, nl) /\ sp1 >= 0
      /\ resp' = resp
      /\ UNCHANGED <<input, out, calls>>
      /\ GivesUp \/ Proceed(nl)
  BY Zenon DEF RequestLine
<1>2. "req" \in Kinds /\ "req" # "resp"
  BY DEF Kinds
<1>3. status["req"] = "parsing" /\ Len(b) \in Nat
  BY <1>1, <1>2, InProgress DEF AtLine, CInv
<1>4. nl \in Nat /\ 1 <= nl /\ nl + 1 <= Len(b) /\ IsLine(b, 0, nl + 1)
  BY <1>1, <1>2, FirstLineFound DEF CInv
<1> HIDE DEF nl
<1>5. CASE GivesUp
  <2>1. /\ nl - 1 \in Nat /\ nl + 1 \in Nat /\ (nl + 1) - 2 = nl - 1
        /\ (nl + 1) - 3 = (nl - 1) - 1
    BY <1>4
  <2>2. sp1 \in 0..((nl + 1) - 3) /\ Free(b, 0, sp1, {SP})
    BY <1>1, <2>1, SpaceFound
  <2>3. Free(b, sp1 + 1, (nl + 1) - 2, {SP})
    <3> HIDE DEF sp1
    <3>1. sp1 + 1 \in Nat
      BY <2>2
    <3> QED
      BY <1>5, <2>1, <3>1, NoSpaceFound
  <2> HIDE DEF sp1, sp2, S
  <2>4. ~ WellFormedRequest(b)
    BY <1>3, <1>4, <2>1, <2>2, <2>3, NoRequestWithOneSpace
  <2> QED
    BY <1>1, <1>2, <1>3, <1>5, <2>4, Returning DEF WellFormed
<1>6. CASE Proceed(nl)
  <2>1. /\ status' = status /\ cursor' = nl + 1
        /\ headers' = headers /\ scratch' = scratch /\ heap' = heap
    BY <1>1, <1>6 DEF Proceed, out
  <2>2. \A l \in Kinds : Headers(l)' = Headers(l)
    BY <2>1 DEF Headers
  <2>3. nl + 1 \in Nat
    BY <1>4
  <2>4. Scanned(b, cursor')
    BY <1>3, <1>4, <2>1, <2>3, FirstScanned
  <2> QED
    BY <1>1, <1>2, <1>3, <2>1, <2>2, <2>4, GoingOn
<1> QED
  BY <1>1, <1>5, <1>6

\* Of the first line ParseResponse looks at the width and the first octet of the
\* status.
LEMMA StatusLineDecides ==
  ASSUME CInv, IInv', StatusLine
  PROVE  OnlyOwn("resp") /\ CInv'
<1> DEFINE b    == input["resp"]
           nl   == FirstLF(b)
           sp1  == IndexByte(b, SP, 0, nl - 1)
           sp2  == IndexByte(b, SP, sp1 + 1, nl - 1)
           stop == IF sp2 < 0 THEN nl - 1 ELSE sp2
           code == Slice(sp1 + 1, stop)
           isCode  == Width(code) = 3 /\ At(b, code.lo) \in ZERO..NINE
           GivesUp == ~ isCode /\ Return("resp", "malformed", {code})
<1>1. /\ AtLine("resp") /\ EndsLine(b, nl) /\ sp1 >= 0
      /\ req' = req
      /\ UNCHANGED <<input, out, calls>>
      /\ GivesUp \/ Proceed(nl)
  BY Zenon DEF StatusLine
<1>2. "resp" \in Kinds /\ "req" # "resp"
  BY DEF Kinds
<1>3. status["resp"] = "parsing" /\ Len(b) \in Nat
  BY <1>1, <1>2, InProgress DEF AtLine, CInv
<1>4. nl \in Nat /\ 1 <= nl /\ nl + 1 <= Len(b) /\ IsLine(b, 0, nl + 1)
  BY <1>1, <1>2, FirstLineFound DEF CInv
<1> HIDE DEF nl
<1>5. CASE GivesUp
  <2>1. /\ nl - 1 \in Nat /\ nl + 1 \in Nat /\ (nl + 1) - 2 = nl - 1
        /\ (nl + 1) - 3 = (nl - 1) - 1
    BY <1>4
  <2>2. sp1 \in 0..((nl + 1) - 3) /\ At(b, sp1) = SP /\ Free(b, 0, sp1, {SP})
    BY <1>1, <2>1, SpaceFound
  <2>3. /\ stop \in (sp1 + 1)..((nl + 1) - 2)
        /\ Free(b, sp1 + 1, stop, {SP})
        /\ stop = (nl + 1) - 2 \/ At(b, stop) = SP
    <3> HIDE DEF sp1
    <3>1. sp1 + 1 \in Nat /\ sp1 + 1 <= nl - 1
      BY <1>4, <2>1, <2>2
    <3>2. CASE sp2 < 0
      <4>1. Free(b, sp1 + 1, nl - 1, {SP})
        BY <2>1, <3>1, <3>2, NoSpaceFound
      <4>2. stop = nl - 1
        BY <3>2
      <4> HIDE DEF stop
      <4> QED
        BY <2>1, <2>2, <3>1, <4>1, <4>2
    <3>3. CASE ~ (sp2 < 0)
      <4>1. sp2 = -1 \/ sp2 \in (sp1 + 1)..((nl - 1) - 1)
        BY <2>1, <3>1, IndexByteFirst
      <4>2. sp2 >= 0
        BY <2>2, <3>3, <4>1
      <4>3. /\ sp2 \in (sp1 + 1)..((nl - 1) - 1) /\ At(b, sp2) = SP
            /\ Free(b, sp1 + 1, sp2, {SP})
        BY <2>1, <3>1, <4>2, SpaceFound
      <4>4. stop = sp2
        BY <3>3
      <4> HIDE DEF stop, sp2
      <4> QED
        BY <2>1, <2>2, <4>3, <4>4
    <3> QED
      BY <3>2, <3>3
  <2> HIDE DEF sp1, stop
  <2>4. code.lo = sp1 + 1 /\ code.hi = stop
    BY DEF Slice
  <2>5. ~ (stop = sp1 + 4 /\ At(b, sp1 + 1) \in ZERO..NINE)
    <3>1. isCode <=> stop - (sp1 + 1) = 3 /\ At(b, sp1 + 1) \in ZERO..NINE
      BY <2>4 DEF Width
    <3> HIDE DEF isCode, code
    <3> QED
      BY <1>5, <2>2, <2>3, <3>1
  <2>6. ~ WellFormedResponse(b)
    BY <1>3, <1>4, <2>1, <2>2, <2>3, <2>5, ResponseByStatus
  <2> HIDE DEF code
  <2> QED
    BY <1>1, <1>2, <1>3, <1>5, <2>6, Returning DEF WellFormed
<1>6. CASE Proceed(nl)
  <2>1. /\ status' = status /\ cursor' = nl + 1
        /\ headers' = headers /\ scratch' = scratch /\ heap' = heap
    BY <1>1, <1>6 DEF Proceed, out
  <2>2. \A l \in Kinds : Headers(l)' = Headers(l)
    BY <2>1 DEF Headers
  <2>3. nl + 1 \in Nat
    BY <1>4
  <2>4. Scanned(b, cursor')
    BY <1>3, <1>4, <2>1, <2>3, FirstScanned
  <2> QED
    BY <1>1, <1>2, <1>3, <2>1, <2>2, <2>4, GoingOn
<1> QED
  BY <1>1, <1>5, <1>6

\* The first line that ParseRequest accepted has the two spaces of a request.
LEMMA RequestLineEnough ==
  ASSUME TypeOK, NEW b, Len(b) \in Nat, WellFormedHead(b),
         NEW start \in 2..Len(b), IsRequestLine(b, req, start)
  PROVE  WellFormedRequest(b)
<1> DEFINE p == req.method.hi
           q == req.path.hi
<1>1. /\ IsLine(b, 0, start) /\ p >= 0 /\ q >= p + 1
      /\ At(b, p) = SP /\ At(b, q) = SP
      /\ req.version = Slice(q + 1, start - 2)
      /\ req.version.lo <= req.version.hi
  BY DEF IsRequestLine
<1>2. p \in Nat /\ q \in Nat /\ start \in Nat
  BY DEF TypeOK, Request, Slices
<1> HIDE DEF p, q
<1>3. q + 1 <= start - 2
  BY <1>1 DEF Slice
<1>4. p \in 0..(start - 3) /\ q \in 0..(start - 3) /\ p # q
  BY <1>1, <1>2, <1>3
<1> QED
  BY <1>1, <1>2, <1>4, RequestWithTwoSpaces

\* The first line that ParseResponse accepted has the status of a response.
LEMMA StatusLineEnough ==
  ASSUME TypeOK, NEW b, Len(b) \in Nat, WellFormedHead(b),
         NEW start \in 2..Len(b), IsStatusLine(b, resp, start)
  PROVE  WellFormedResponse(b)
<1> DEFINE sp   == resp.version.hi
           stop == sp + 4
<1>1. /\ IsLine(b, 0, start) /\ sp >= 0 /\ At(b, sp) = SP /\ Free(b, 0, sp, {SP})
      /\ Free(b, sp + 1, (sp + 1) + 3, {SP})
      /\ At(b, sp + 1) \in ZERO..NINE
      /\ \/ (sp + 1) + 3 = start - 2
         \/ (sp + 1) + 3 < start - 2 /\ At(b, (sp + 1) + 3) = SP
  BY DEF IsStatusLine
<1>2. sp \in Nat /\ start \in Nat
  BY DEF TypeOK, Response, Slices
<1> HIDE DEF sp
<1>3. (sp + 1) + 3 = stop
  BY <1>2
<1>4. /\ sp \in 0..(start - 3)
      /\ stop \in (sp + 1)..(start - 2)
      /\ stop = start - 2 \/ At(b, stop) = SP
  BY <1>1, <1>2, <1>3
<1>5. Free(b, sp + 1, stop, {SP}) /\ stop = sp + 4
  BY <1>1, <1>3
<1> HIDE DEF stop
<1> QED
  BY <1>1, <1>2, <1>4, <1>5, ResponseByStatus

\* A reader whose lines end with the buffer has seen no head end.
LEMMA NoTerminatorDecides ==
  ASSUME CInv, IInv', NEW k \in Kinds, NoTerminator(k)
  PROVE  OnlyOwn(k) /\ CInv'
<1> DEFINE b == input[k]
           S == {}
<1>1. /\ AtHeaders(k) /\ cursor >= Len(b)
      /\ Return(k, "malformed", S)
      /\ UNCHANGED <<input, req, resp, out, calls>>
  BY DEF NoTerminator, message
<1>2. status[k] = "parsing" /\ Len(b) \in Nat /\ cursor \in Nat
  BY <1>1, InProgress DEF AtHeaders, CInv
<1>3. Scanned(b, cursor)
  BY <1>1 DEF CInv, LinesScanned
<1>4. ~ WellFormedHead(b)
  BY <1>1, <1>2, <1>3, NoHeadWithoutEnd
<1>5. ~ WellFormed(k, b)
  BY <1>4 DEF WellFormed, WellFormedRequest, WellFormedResponse
<1> HIDE DEF S
<1> QED
  BY <1>1, <1>2, <1>5, Returning

\* A line that begins with CR ends the head exactly if it is empty.
LEMMA BlankLineDecides ==
  ASSUME CInv, IInv', NEW k \in Kinds, BlankLine(k)
  PROVE  OnlyOwn(k) /\ CInv'
<1> DEFINE b    == input[k]
           body == Slice(cursor + 2, Len(b))
           S    == {}
           B    == {body}
           GivesUp == /\ cursor + 1 >= Len(b) \/ At(b, cursor + 1) # LF
                      /\ Return(k, "malformed", S)
                      /\ UNCHANGED message
           Ends == /\ cursor + 1 < Len(b) /\ At(b, cursor + 1) = LF
                   /\ Return(k, "ok", B)
                   /\ req'  = IF k = "req"  THEN [req  EXCEPT !.body = body] ELSE req
                   /\ resp' = IF k = "resp" THEN [resp EXCEPT !.body = body] ELSE resp
<1>1. /\ AtHeaders(k) /\ At(b, cursor) = CR
      /\ UNCHANGED <<input, out, calls>>
      /\ GivesUp \/ Ends
  BY Zenon DEF BlankLine
<1>2. status[k] = "parsing" /\ Len(b) \in Nat /\ cursor \in Nat
  BY <1>1, InProgress DEF AtHeaders, CInv
<1>3. Scanned(b, cursor)
  BY <1>1 DEF CInv, LinesScanned
<1>4. CASE GivesUp
  <2>1. At(b, cursor + 1) # LF
    <3>1. cursor + 1 >= Len(b) => At(b, cursor + 1) = Fault
      BY <1>2 DEF At
    <3> QED
      BY <1>4, <3>1 DEF LF, Fault
  <2>2. ~ WellFormedHead(b)
    BY <1>1, <1>2, <1>3, <2>1, NoHeadAfterCR
  <2>3. ~ WellFormed(k, b)
    BY <2>2 DEF WellFormed, WellFormedRequest, WellFormedResponse
  <2>4. req' = req /\ resp' = resp
    BY <1>4 DEF message
  <2> HIDE DEF S
  <2> QED
    BY <1>1, <1>2, <1>4, <2>3, <2>4, Returning
<1>5. CASE Ends
  <2>1. WellFormedHead(b)
    BY <1>1, <1>2, <1>3, <1>5, HeadAtBlankLine
  <2>2. PICK start \in 2..Len(b) : IsFirstLine(k, start)
    BY <1>1 DEF CInv, IInv, Progress, Covered
  <2>3. WellFormed(k, b)
    <3>1. CASE k = "req"
      BY <1>2, <2>1, <2>2, <3>1, RequestLineEnough DEF IsFirstLine, WellFormed, CInv, IInv
    <3>2. CASE k = "resp"
      BY <1>2, <2>1, <2>2, <3>2, StatusLineEnough DEF IsFirstLine, WellFormed, CInv, IInv
    <3> QED
      BY <3>1, <3>2 DEF Kinds
  <2> HIDE DEF B, body
  <2>4. k # "req" => req' = req
    BY <1>5
  <2>5. k # "resp" => resp' = resp
    BY <1>5
  <2> QED
    BY <1>1, <1>2, <1>5, <2>3, <2>4, <2>5, Returning
<1> QED
  BY <1>1, <1>4, <1>5

\* A header line that is consumed is a line of a message; one that has no end or no
\* colon is not.
LEMMA HeaderLineDecides ==
  ASSUME CInv, IInv', NEW k \in Kinds, HeaderLine(k)
  PROVE  OnlyOwn(k) /\ CInv'
<1> DEFINE b     == input[k]
           abs   == IndexByte(b, LF, cursor, Len(b))
           colon == IndexByte(b, COLON, cursor, abs - 1)
           h     == [name  |-> Slice(cursor, colon),
                     value |-> Trim(b, colon + 1, abs - 1)]
           noCR  == IF abs < 1 THEN {} ELSE {Index(abs - 1)}
           whole == {Slice(cursor, abs - 1)}
           Unterminated == /\ ~EndsLine(b, abs)
                           /\ Return(k, "malformed", noCR)
                           /\ UNCHANGED out
           Colonless    == /\ colon < 0
                           /\ Return(k, "malformed", whole)
                           /\ UNCHANGED out
           Consumes     == /\ EndsLine(b, abs)
                           /\ colon >= 0
                           /\ ConsumeLine(k, h, abs)
                           /\ UNCHANGED <<status, phase>>
<1>1. /\ AtHeaders(k) /\ At(b, cursor) # CR
      /\ UNCHANGED <<input, message, calls>>
      /\ Unterminated \/ Colonless \/ Consumes
  BY Zenon DEF HeaderLine
<1>2. /\ status[k] = "parsing" /\ Len(b) \in Nat /\ cursor \in Nat
      /\ req' = req /\ resp' = resp /\ input' = input /\ calls' = calls
  BY <1>1, InProgress DEF CInv, AtHeaders, message
<1>3. Scanned(b, cursor)
  BY <1>1 DEF CInv, LinesScanned
<1>4. CASE Unterminated
  <2>1. ~ WellFormedHead(b)
    BY <1>1, <1>2, <1>3, <1>4, NoHeadBareLine DEF EndsLine
  <2>2. ~ WellFormed(k, b)
    BY <2>1 DEF WellFormed, WellFormedRequest, WellFormedResponse
  <2> HIDE DEF noCR
  <2> QED
    BY <1>2, <1>4, <2>2, Returning
<1>5. CASE Colonless
  <2>1. ~ WellFormedHead(b)
    BY <1>1, <1>2, <1>3, <1>5, NoHeadColonless
  <2>2. ~ WellFormed(k, b)
    BY <2>1 DEF WellFormed, WellFormedRequest, WellFormedResponse
  <2> HIDE DEF whole
  <2> QED
    BY <1>2, <1>5, <2>2, Returning
<1>6. CASE Consumes
  <2>1. At(b, cursor - 1) = LF
    BY <1>3 DEF Scanned
  <2>2. abs \in Nat /\ abs + 1 <= Len(b) /\ IsLine(b, cursor, abs + 1)
    BY <1>2, <1>6, <2>1, LineFound DEF EndsLine
  <2>3. AppendHeader(k, h) /\ cursor' = abs + 1 /\ status' = status
    BY <1>6 DEF ConsumeLine
  <2>4. colon >= 0
    BY <1>6
  <2> HIDE DEF abs
  <2>5. h \in [name : Slices, value : Slices] /\ IsHeaderLine(b, h, abs + 1)
    BY <1>1, <1>2, <2>2, <2>4, HeaderFound
  <2>6. h.name.lo = cursor
    BY DEF Slice
  <2> HIDE DEF h
  <2>7. Scanned(b, abs + 1)
    <3> DEFINE stop == abs + 1
    <3>1. stop \in Nat /\ stop <= Len(b) /\ IsHeaderLine(b, h, stop)
      BY <2>2, <2>5
    <3> HIDE DEF stop
    <3>2. Scanned(b, stop)
      BY <1>2, <1>3, <2>5, <2>6, <3>1, LineScanned
    <3> QED
      BY <3>2 DEF stop
  <2>8. \A l \in Kinds \ {k} : Headers(l)' = Headers(l)
    BY <2>3, <2>5, HeaderAppended DEF CInv, IInv, Header
  <2> QED
    BY <1>2, <2>3, <2>7, <2>8, GoingOn
<1> QED
  BY <1>1, <1>4, <1>5, <1>6

\* Every step inside a call belongs to one call and keeps its verdict right.
LEMMA ParseDecides ==
  ASSUME CInv, IInv', Parse
  PROVE  \E k \in Kinds : OnlyOwn(k) /\ CInv'
<1>1. CASE RequestLine
  BY <1>1, RequestLineDecides DEF Kinds
<1>2. CASE StatusLine
  BY <1>2, StatusLineDecides DEF Kinds
<1>3. ASSUME NEW k \in Kinds, Step(k)
      PROVE  OnlyOwn(k) /\ CInv'
  BY <1>3, NoFirstLineDecides, NoSpaceDecides, NoTerminatorDecides,
     BlankLineDecides, HeaderLineDecides DEF Step
<1> QED
  BY <1>1, <1>2, <1>3 DEF Parse

\* A call that is entered has no verdict, and the other kind keeps its own.
LEMMA EnteringUndecided ==
  ASSUME CInv, IInv', NEW k \in Kinds, NEW b \in Buffers, Enter(k, b)
  PROVE  CInv'
<1>1. /\ input' = [input EXCEPT ![k] = b] /\ phase' = "line"
      /\ status' = [status EXCEPT ![k] = "parsing"]
      /\ TypeOK /\ Verdict
  BY DEF Enter, CInv, IInv
<1>2. /\ status'[k] = "parsing"
      /\ \A l \in Kinds \ {k} : status'[l] = status[l] /\ input'[l] = input[l]
  BY <1>1 DEF TypeOK
<1>3. LinesScanned'
  BY <1>1 DEF LinesScanned, AtHeaders
<1>4. Verdict'
  BY <1>1, <1>2 DEF Verdict
<1> QED
  BY <1>3, <1>4 DEF CInv

\* The strengthened invariant holds of a Parser that was never called.
LEMMA ContractInit == Init => CInv
BY InvariantInit DEF Init, CInv, LinesScanned, AtHeaders, Verdict, Kinds

\* Every step keeps the strengthened invariant.
LEMMA ContractStep == CInv /\ [Next]_vars => CInv'
<1> SUFFICES ASSUME CInv, [Next]_vars PROVE CInv'
  OBVIOUS
<1>1. IInv'
  BY InvariantStep DEF CInv
<1>2. CASE Call
  <2>1. PICK k \in Kinds, b \in Buffers : Enter(k, b)
    BY <1>2 DEF Call, ParseRequest, ParseResponse, Kinds
  <2> QED
    BY <1>1, <2>1, EnteringUndecided
<1>3. CASE Parse
  BY <1>1, <1>3, ParseDecides
<1>4. CASE UNCHANGED vars
  BY <1>1, <1>4 DEF vars, CInv, LinesScanned, AtHeaders, Verdict
<1> QED
  BY <1>2, <1>3, <1>4 DEF Next

\* The grammar of the contract is the grammar of the parser.
LEMMA SameGrammar ==
  /\ \A k, b : Contract!WellFormed(k, b) = WellFormed(k, b)
  /\ \A b, m : Contract!IsMessage("req", b, m) = IsRequest(b, m)
  /\ \A b, m : Contract!IsMessage("resp", b, m) = IsResponse(b, m)
<1>1. /\ Contract!LF = LF /\ Contract!CR = CR /\ Contract!COLON = COLON
      /\ Contract!SP = SP /\ Contract!ZERO = ZERO /\ Contract!NINE = NINE
      /\ Contract!OWS = OWS /\ Contract!Nil = Nil
  BY DEF Contract!LF, LF, Contract!CR, CR, Contract!COLON, COLON, Contract!SP, SP,
         Contract!ZERO, ZERO, Contract!NINE, NINE, Contract!OWS, OWS,
         Contract!HT, HT, Contract!Nil, Nil, Contract!Slice, Slice
<1>2. \A b, q : Contract!At(b, q) = At(b, q)
  BY DEF Contract!At, At, Contract!Fault, Fault
<1>3. \A lo, hi : Contract!Slice(lo, hi) = Slice(lo, hi)
  BY DEF Contract!Slice, Slice
<1>4. /\ \A b, lo, hi, C : Contract!Free(b, lo, hi, C) = Free(b, lo, hi, C)
      /\ \A b, lo, hi, C : Contract!Filled(b, lo, hi, C) = Filled(b, lo, hi, C)
  BY <1>2 DEF Contract!Free, Free, Contract!Filled, Filled
<1>5. \A b, lo, stop : Contract!IsLine(b, lo, stop) = IsLine(b, lo, stop)
  BY <1>1, <1>2, <1>4 DEF Contract!IsLine, IsLine
<1>6. \A b, hs, start, stop :
        Contract!AreHeaders(b, hs, start, stop) = AreHeaders(b, hs, start, stop)
  <2>1. \A b, h, stop : Contract!IsHeaderLine(b, h, stop) = IsHeaderLine(b, h, stop)
    BY <1>1, <1>2, <1>4, <1>5 DEF Contract!IsHeaderLine, IsHeaderLine
  <2>2. \A hs, j, stop : Contract!LineStop(hs, j, stop) = LineStop(hs, j, stop)
    BY DEF Contract!LineStop, LineStop
  <2> QED
    BY <2>1, <2>2 DEF Contract!AreHeaders, AreHeaders
<1>7. \A b, body : Contract!IsBody(b, body) = IsBody(b, body)
  BY <1>1, <1>2 DEF Contract!IsBody, IsBody
<1>8. \A b, m, start :
        Contract!IsRequestLine(b, m, start) = IsRequestLine(b, m, start)
  BY <1>1, <1>2, <1>3, <1>4, <1>5 DEF Contract!IsRequestLine, IsRequestLine
<1>9. \A b, m, start :
        Contract!IsStatusLine(b, m, start) = IsStatusLine(b, m, start)
  <2>1. \A b, p : Contract!StatusValue(b, p) = StatusValue(b, p)
    BY <1>1, <1>2 DEF Contract!StatusValue, StatusValue, Contract!Digit, Digit
  <2> QED
    BY <1>1, <1>2, <1>3, <1>4, <1>5, <2>1 DEF Contract!IsStatusLine, IsStatusLine
<1>10. \A b, m : Contract!IsMessage("req", b, m) = IsRequest(b, m)
  BY <1>6, <1>7, <1>8 DEF Contract!IsMessage, Contract!IsRequest, IsRequest
<1>11. \A b, m : Contract!IsMessage("resp", b, m) = IsResponse(b, m)
  BY <1>6, <1>7, <1>9 DEF Contract!IsMessage, Contract!IsResponse, IsResponse
<1>12. \A T : Contract!Min(T) = Min(T)
  BY DEF Contract!Min, Min
<1>13. \A b : Contract!HeadEnds(b) = HeadEnds(b)
  BY <1>1, <1>2 DEF Contract!HeadEnds, HeadEnds
<1>14. \A b : Contract!LineEnds(b) = LineEnds(b)
  BY <1>1, <1>2, <1>12, <1>13 DEF Contract!LineEnds, LineEnds
<1>15. \A b : Contract!Spaces(b) = Spaces(b)
  BY <1>1, <1>2, <1>12, <1>14 DEF Contract!Spaces, Spaces
<1>16. \A b : Contract!WellFormedHead(b) = WellFormedHead(b)
  BY <1>1, <1>2, <1>12, <1>13, <1>14 DEF Contract!WellFormedHead, WellFormedHead
<1>17. \A b : Contract!WellFormedRequest(b) = WellFormedRequest(b)
  <2>1. \A T : Contract!Cardinality(T) = Cardinality(T)
    BY DEF Contract!Cardinality, Cardinality
  <2> QED
    BY <1>15, <1>16, <2>1 DEF Contract!WellFormedRequest, WellFormedRequest
<1>18. \A b : Contract!WellFormedResponse(b) = WellFormedResponse(b)
  BY <1>1, <1>2, <1>12, <1>14, <1>15, <1>16
  DEF Contract!WellFormedResponse, WellFormedResponse
<1>19. \A k, b : Contract!WellFormed(k, b) = WellFormed(k, b)
  BY <1>17, <1>18 DEF Contract!WellFormed, WellFormed
<1> QED
  BY <1>10, <1>11, <1>19

\* What a step of one kind leaves of the result of the other.
LEMMA OtherResult ==
  ASSUME NEW l \in Kinds,
         status'[l] = status[l],
         Headers(l)' = Headers(l),
         l = "req" => req' = req,
         l = "resp" => resp' = resp
  PROVE  Result(l)' = Result(l)
<1>1. CASE l = "req"
  <2>1. RequestMessage' = RequestMessage
    BY <1>1 DEF RequestMessage
  <2> QED
    BY <1>1, <2>1 DEF Result
<1>2. CASE l = "resp"
  <2>1. ResponseMessage' = ResponseMessage
    BY <1>2 DEF ResponseMessage
  <2> QED
    BY <1>2, <2>1 DEF Result
<1> QED
  BY <1>1, <1>2 DEF Kinds

\* Entry into a call is the contract's Call.
LEMMA EnteringIsCall ==
  ASSUME CInv, NEW k \in Kinds, NEW b \in Buffers, Enter(k, b),
         k # "req" => req' = req,
         k # "resp" => resp' = resp
  PROVE  Contract!Call(k)
<1> DEFINE result == [l \in Kinds |-> Result(l)]
<1>1. /\ TypeOK /\ OneCall /\ phase = "idle" /\ calls < MaxCalls /\ calls' = calls + 1
      /\ input' = [input EXCEPT ![k] = b] /\ scratch' = scratch
      /\ headers' = [headers EXCEPT ![k] = Empty]
      /\ heap' = [heap EXCEPT ![k] = <<>>]
      /\ status' = [status EXCEPT ![k] = "parsing"]
  BY DEF Enter, CInv, IInv
<1>2. /\ status'[k] = "parsing" /\ input'[k] = b
      /\ \A l \in Kinds \ {k} : /\ status'[l] = status[l]
                                /\ headers'[l] = headers[l] /\ heap'[l] = heap[l]
  BY <1>1 DEF TypeOK
<1>3. \A l \in Kinds : Result(l) # Contract!Pending
  <2>1. \A l \in Kinds : status[l] # "parsing"
    BY <1>1 DEF OneCall
  <2>2. \A l \in Kinds : Result(l).status = status[l]
    BY DEF Result
  <2>3. Contract!Pending.status = "parsing"
    BY DEF Contract!Pending
  <2> QED
    BY <2>1, <2>2, <2>3
<1>4. Result(k)' = Contract!Pending
  BY <1>2 DEF Result, Contract!Pending
<1>5. ASSUME NEW l \in Kinds \ {k}
      PROVE  Result(l)' = Result(l)
  <2>1. Headers(l)' = Headers(l)
    BY <1>1, <1>2 DEF Headers
  <2>2. l = "req" => req' = req
    BY DEF Kinds
  <2>3. l = "resp" => resp' = resp
    BY DEF Kinds
  <2> QED
    BY <1>2, <2>1, <2>2, <2>3, OtherResult
<1>6. [l \in Kinds |-> Result(l)'] = [result EXCEPT ![k] = Contract!Pending]
  BY <1>4, <1>5
<1>7. Contract!Kinds = Kinds
  BY DEF Contract!Kinds, Kinds
<1>8. input' = [input EXCEPT ![k] = input'[k]] /\ input'[k] \in Buffers
  BY <1>1, <1>2
<1> QED
  BY <1>1, <1>3, <1>6, <1>7, <1>8 DEF Contract!Call

\* A step of a call of kind k is a return of the contract or no step of it.
LEMMA ParsingReturns ==
  ASSUME CInv, CInv', NEW k \in Kinds, OnlyOwn(k)
  PROVE  Contract!Return(k) \/ UNCHANGED Contract!vars
<1> DEFINE result == [l \in Kinds |-> Result(l)]
<1>1. /\ status[k] = "parsing" /\ status'[k] # "none"
      /\ input' = input /\ calls' = calls
      /\ \A l \in Kinds \ {k} : status'[l] = status[l] /\ Headers(l)' = Headers(l)
  BY DEF OnlyOwn
<1>2. ASSUME NEW l \in Kinds \ {k}
      PROVE  Result(l)' = Result(l)
  <2>1. l = "req" => req' = req
    BY DEF Kinds, OnlyOwn
  <2>2. l = "resp" => resp' = resp
    BY DEF Kinds, OnlyOwn
  <2> QED
    BY <1>1, <2>1, <2>2, OtherResult
<1>3. Result(k) = Contract!Pending
  BY <1>1 DEF Result, Contract!Pending
<1>4. [l \in Kinds |-> Result(l)'] = [result EXCEPT ![k] = Result(k)']
  BY <1>2
<1>5. Contract!WellFormed(k, input[k]) = WellFormed(k, input[k])
  BY SameGrammar
<1>6. status'[k] \in {"parsing", "ok", "malformed"}
  BY <1>1 DEF CInv, IInv, TypeOK, NeverPanics
<1>7. CASE status'[k] = "parsing"
  <2>1. Result(k)' = Result(k)
    BY <1>1, <1>7 DEF Result
  <2>2. [l \in Kinds |-> Result(l)'] = result
    BY <1>2, <2>1
  <2> QED
    BY <1>1, <2>2 DEF Contract!vars
<1>8. CASE status'[k] = "malformed"
  <2>1. Result(k)' = Contract!Malformed
    BY <1>8 DEF Result, Contract!Malformed
  <2>2. ~ Contract!WellFormed(k, input[k])
    BY <1>1, <1>5, <1>8 DEF CInv, Verdict
  <2> QED
    BY <1>1, <1>3, <1>4, <2>1, <2>2 DEF Contract!Return, Contract!Fail
<1>9. CASE status'[k] = "ok"
  <2>1. Contract!WellFormed(k, input[k])
    BY <1>1, <1>5, <1>9 DEF CInv, Verdict
  <2>2. Result(k)'.status = "ok"
    BY <1>9 DEF Result
  <2>3. Contract!IsMessage(k, input[k], Result(k)'.message)
    <3>1. CASE k = "req"
      <4>1. Result(k)'.message = RequestMessage'
        BY <1>9, <3>1 DEF Result
      <4>2. IsRequest(input[k], RequestMessage')
        BY <1>1, <1>9, <3>1 DEF CInv, IInv, Lossless
      <4> QED
        BY <3>1, <4>1, <4>2, SameGrammar
    <3>2. CASE k = "resp"
      <4>1. Result(k)'.message = ResponseMessage'
        BY <1>9, <3>2 DEF Result
      <4>2. IsResponse(input[k], ResponseMessage')
        BY <1>1, <1>9, <3>2 DEF CInv, IInv, Lossless
      <4> QED
        BY <3>2, <4>1, <4>2, SameGrammar
    <3> QED
      BY <3>1, <3>2 DEF Kinds
  <2>4. [l \in Kinds |-> Result(l)'][k] = Result(k)'
    OBVIOUS
  <2> QED
    BY <1>1, <1>3, <1>4, <2>1, <2>2, <2>3, <2>4 DEF Contract!Return, Contract!Succeed
<1> QED
  BY <1>6, <1>7, <1>8, <1>9

\* The parser implements its contract: for every set of buffers, every size of the
\* scratch arrays and every sequence of calls it succeeds exactly on the messages
\* of its grammar, with their octets, and a result outlives calls of the other kind.
THEOREM ImplementsContract == Spec => KeepsContract
<1>1. Init => Contract!Init
  <2> SUFFICES ASSUME Init PROVE Contract!Init
    OBVIOUS
  <2>1. \A l \in Kinds : Result(l) = Contract!Absent
    BY DEF Init, Result, Contract!Absent
  <2>2. Contract!Kinds = Kinds
    BY DEF Contract!Kinds, Kinds
  <2> QED
    BY <2>1, <2>2 DEF Init, Contract!Init
<1>2. CInv /\ CInv' /\ [Next]_vars => [Contract!Next]_(Contract!vars)
  <2> SUFFICES ASSUME CInv, CInv', [Next]_vars
               PROVE  Contract!Next \/ UNCHANGED Contract!vars
    OBVIOUS
  <2>1. Contract!Kinds = Kinds
    BY DEF Contract!Kinds, Kinds
  <2>2. CASE Call
    <3>1. PICK k \in Kinds, b \in Buffers :
            /\ Enter(k, b)
            /\ k # "req" => req' = req
            /\ k # "resp" => resp' = resp
      BY <2>2 DEF Call, ParseRequest, ParseResponse, Kinds
    <3>2. Contract!Call(k)
      BY <3>1, EnteringIsCall
    <3> QED
      BY <2>1, <3>2 DEF Contract!Next
  <2>3. CASE Parse
    <3>1. PICK k \in Kinds : OnlyOwn(k)
      BY <2>3, ParseDecides DEF CInv
    <3> QED
      BY <2>1, <3>1, ParsingReturns DEF Contract!Next
  <2>4. CASE UNCHANGED vars
    <3>1. \A l \in Kinds : Headers(l)' = Headers(l)
      BY <2>4 DEF vars, Headers
    <3>2. \A l \in Kinds : Result(l)' = Result(l)
      BY <2>4, <3>1, OtherResult DEF vars
    <3> QED
      BY <2>4, <3>2 DEF vars, Contract!vars
  <2> QED
    BY <2>2, <2>3, <2>4 DEF Next
<1> QED
  BY <1>1, <1>2, ContractInit, ContractStep, PTL DEF Spec, Safety, KeepsContract, Contract!Spec

----------------------------------------------------------------------------
(***************************************************************************)
(* The lookup.  A header is found by the line it was cut from: the headers *)
(* are the lines of the head after the first, in their order.              *)
(***************************************************************************)

\* The lines of b[0:n] after the first start where the headers hs do.
InOrder(b, hs, n) ==
  /\ \A q \in 1..(n - 1) :
       At(b, q - 1) = LF <=> \E j \in 1..Len(hs) : hs[j].name.lo = q
  /\ \A j \in 1..Len(hs) : hs[j].name.lo \in 1..(n - 1)
  /\ \A i, j \in 1..Len(hs) : i < j => hs[i].name.lo < hs[j].name.lo

\* The empty line at n ends the head whose header lines are hs.
Settled(b, hs, n) ==
  /\ InOrder(b, hs, n)
  /\ Scanned(b, n)
  /\ n + 1 < Len(b) /\ At(b, n) = CR /\ At(b, n + 1) = LF

Body(k) == IF k = "req" THEN req.body ELSE resp.body

Ordered ==
  \A k \in Kinds :
    /\ AtHeaders(k) => InOrder(input[k], Headers(k), cursor)
    /\ status[k] = "ok" => Settled(input[k], Headers(k), Body(k).lo - 2)

FInv == CInv /\ Ordered

\* The first line has no header.
LEMMA OrderStarts ==
  ASSUME NEW b, NEW n \in Nat, IsLine(b, 0, n)
  PROVE  InOrder(b, <<>>, n)
<1>1. \A q \in 0..((n - 1) - 1) : At(b, q) # LF
  BY DEF IsLine, Free
<1>2. ASSUME NEW q \in 1..(n - 1)
      PROVE  At(b, q - 1) # LF
  <2>1. q - 1 \in 0..((n - 1) - 1)
    OBVIOUS
  <2> QED
    BY <1>1, <2>1
<1>3. Len(<<>>) = 0
  BY EmptySeq
<1> QED
  BY <1>2, <1>3 DEF InOrder

\* A header line after lines whose headers are known starts a header of its own.
LEMMA OrderExtends ==
  ASSUME NEW b, NEW n \in Nat, 1 <= n, At(b, n - 1) = LF,
         NEW hs \in Seq(Header), InOrder(b, hs, n),
         NEW h \in Header, h.name.lo = n,
         NEW stop \in Nat, IsHeaderLine(b, h, stop)
  PROVE  InOrder(b, Append(hs, h), stop)
<1> DEFINE hs2 == Append(hs, h)
           m == Len(hs)
<1>1. /\ m \in Nat /\ Len(hs2) = m + 1 /\ hs2[m + 1] = h
      /\ \A j \in 1..m : hs2[j] = hs[j]
  BY AppendProperties, LenProperties
<1>2. n + 2 <= stop /\ \A q \in n..((stop - 1) - 1) : At(b, q) # LF
  BY DEF IsHeaderLine, IsLine, Free
<1>3. \A j \in 1..m : hs[j].name.lo \in 1..(n - 1)
  BY DEF InOrder
<1> HIDE DEF hs2, m
<1>4. \A j \in 1..m : hs2[j].name.lo \in 1..(n - 1)
  BY <1>1, <1>3
<1>5. hs2[m + 1].name.lo = n
  BY <1>1
<1>6. ASSUME NEW j \in 1..(m + 1)
      PROVE  hs2[j].name.lo \in 1..(stop - 1)
  <2>1. j \in 1..m \/ j = m + 1
    BY <1>1
  <2> QED
    BY <1>2, <1>4, <1>5, <2>1
<1>7. ASSUME NEW i \in 1..(m + 1), NEW j \in 1..(m + 1), i < j
      PROVE  hs2[i].name.lo < hs2[j].name.lo
  <2>1. i \in 1..m
    BY <1>1, <1>7
  <2>2. CASE j \in 1..m
    BY <1>1, <1>7, <2>1, <2>2 DEF InOrder, m
  <2>3. CASE j = m + 1
    BY <1>4, <1>5, <2>1, <2>3
  <2> QED
    BY <1>1, <2>2, <2>3
<1>8. ASSUME NEW q \in 1..(stop - 1)
      PROVE  At(b, q - 1) = LF <=> \E j \in 1..(m + 1) : hs2[j].name.lo = q
  <2>1. CASE q \in 1..(n - 1)
    <3>1. At(b, q - 1) = LF <=> \E j \in 1..m : hs[j].name.lo = q
      BY <2>1 DEF InOrder, m
    <3>2. (\E j \in 1..(m + 1) : hs2[j].name.lo = q) <=> \E j \in 1..m : hs2[j].name.lo = q
      <4>1. \A j \in 1..(m + 1) : j \in 1..m \/ j = m + 1
        BY <1>1
      <4>2. \A j \in 1..m : j \in 1..(m + 1)
        BY <1>1
      <4>3. q # n
        BY <2>1
      <4> QED
        BY <1>5, <4>1, <4>2, <4>3
    <3> QED
      BY <1>1, <3>1, <3>2
  <2>2. CASE q = n
    <3>1. m + 1 \in 1..(m + 1)
      BY <1>1
    <3> QED
      BY <1>5, <2>2, <3>1
  <2>3. CASE n < q
    <3>1. q - 1 \in n..((stop - 1) - 1)
      BY <2>3
    <3>2. ASSUME NEW j \in 1..(m + 1)
          PROVE  hs2[j].name.lo # q
      <4>1. j \in 1..m \/ j = m + 1
        BY <1>1
      <4> QED
        BY <1>4, <1>5, <2>3, <4>1
    <3> QED
      BY <1>2, <3>1, <3>2
  <2> QED
    BY <2>1, <2>2, <2>3
<1> QED
  BY <1>1, <1>6, <1>7, <1>8 DEF InOrder, hs2

\* What a step of one call has to show.
LEMMA OrderKept ==
  ASSUME FInv, NEW k \in Kinds, OnlyOwn(k),
         AtHeaders(k)' => InOrder(input[k], Headers(k)', cursor'),
         status'[k] = "ok" => Settled(input[k], Headers(k)', Body(k)'.lo - 2)
  PROVE  Ordered'
<1> SUFFICES ASSUME NEW l \in Kinds
             PROVE  /\ AtHeaders(l)' => InOrder(input'[l], Headers(l)', cursor')
                    /\ status'[l] = "ok" => Settled(input'[l], Headers(l)', Body(l)'.lo - 2)
  BY DEF Ordered
<1>1. input' = input
  BY DEF OnlyOwn
<1>2. CASE l = k
  BY <1>1, <1>2
<1>3. CASE l # k
  <2>1. status[l] # "parsing" /\ status'[l] = status[l] /\ Headers(l)' = Headers(l)
    BY <1>3 DEF OnlyOwn
  <2>2. Body(l)' = Body(l)
    BY <1>3 DEF OnlyOwn, Body, Kinds
  <2> QED
    BY <1>1, <2>1, <2>2 DEF AtHeaders, FInv, Ordered
<1> QED
  BY <1>2, <1>3

\* A call that gives up has nothing to show.
LEMMA OrderGivenUp ==
  ASSUME FInv, NEW k \in Kinds, OnlyOwn(k), NEW S, Return(k, "malformed", S)
  PROVE  Ordered'
<1>1. phase' = "idle" /\ status'[k] # "ok"
  BY DEF Return, FInv, CInv, IInv, TypeOK
<1> QED
  BY <1>1, OrderKept DEF AtHeaders

\* A first line that is accepted has no header yet.
LEMMA OrderProceeds ==
  ASSUME FInv, NEW k \in Kinds, OnlyOwn(k), AtLine(k), NEW nl \in Nat, Proceed(nl),
         UNCHANGED out, IsLine(input[k], 0, nl + 1)
  PROVE  Ordered'
<1>1. /\ status'[k] = "parsing" /\ cursor' = nl + 1
      /\ headers'[k] = headers[k] /\ headers[k] = Empty
      /\ TypeOK
  BY DEF Proceed, AtLine, out, FInv, CInv, IInv, Fresh
<1>2. Headers(k) \in Seq(Header) /\ Len(Headers(k)) = 0
  BY <1>1, HeadersType DEF Empty
<1>3. Headers(k) = <<>>
  BY <1>2, EmptySeq
<1>4. Headers(k)' = Headers(k)
  BY DEF Headers, out
<1>5. nl + 1 \in Nat
  OBVIOUS
<1>6. InOrder(input[k], Headers(k)', cursor')
  BY <1>1, <1>3, <1>4, <1>5, OrderStarts
<1> QED
  BY <1>1, <1>6, OrderKept

\* Every step inside a call.
LEMMA OrderParse ==
  ASSUME FInv, CInv', Parse
  PROVE  Ordered'
<1>1. CInv /\ IInv /\ IInv' /\ "req" \in Kinds /\ "resp" \in Kinds
  BY DEF FInv, CInv, Kinds
<1>2. CASE RequestLine
  <2> DEFINE b   == input["req"]
             nl  == FirstLF(b)
             sp1 == IndexByte(b, SP, 0, nl - 1)
             S   == {Slice(sp1 + 1, nl - 1)}
  <2>1. OnlyOwn("req")
    BY <1>1, <1>2, RequestLineDecides
  <2>2. /\ AtLine("req") /\ EndsLine(b, nl)
        /\ UNCHANGED out
        /\ Return("req", "malformed", S) \/ Proceed(nl)
    BY <1>2, Zenon DEF RequestLine
  <2>3. nl \in Nat /\ IsLine(b, 0, nl + 1)
    BY <1>1, <2>2, FirstLineFound
  <2> HIDE DEF S, nl
  <2> QED
    BY <1>1, <2>1, <2>2, <2>3, OrderGivenUp, OrderProceeds
<1>3. CASE StatusLine
  <2> DEFINE b    == input["resp"]
             nl   == FirstLF(b)
             sp1  == IndexByte(b, SP, 0, nl - 1)
             sp2  == IndexByte(b, SP, sp1 + 1, nl - 1)
             S    == {Slice(sp1 + 1, IF sp2 < 0 THEN nl - 1 ELSE sp2)}
  <2>1. OnlyOwn("resp")
    BY <1>1, <1>3, StatusLineDecides
  <2>2. /\ AtLine("resp") /\ EndsLine(b, nl)
        /\ UNCHANGED out
        /\ Return("resp", "malformed", S) \/ Proceed(nl)
    BY <1>3, Zenon DEF StatusLine
  <2>3. nl \in Nat /\ IsLine(b, 0, nl + 1)
    BY <1>1, <2>2, FirstLineFound
  <2> HIDE DEF S, nl
  <2> QED
    BY <1>1, <2>1, <2>2, <2>3, OrderGivenUp, OrderProceeds
<1>4. ASSUME NEW k \in Kinds, NoFirstLine(k) \/ NoSpace(k) \/ NoTerminator(k)
      PROVE  Ordered'
  <2>1. OnlyOwn(k)
    BY <1>1, <1>4, NoFirstLineDecides, NoSpaceDecides, NoTerminatorDecides
  <2>2. \E S : Return(k, "malformed", S)
    BY <1>4, Zenon DEF NoFirstLine, NoSpace, NoTerminator
  <2> QED
    BY <2>1, <2>2, OrderGivenUp
<1>5. ASSUME NEW k \in Kinds, BlankLine(k)
      PROVE  Ordered'
  <2> DEFINE b    == input[k]
             body == Slice(cursor + 2, Len(b))
             GivesUp == Return(k, "malformed", {})
             Ends == /\ cursor + 1 < Len(b) /\ At(b, cursor + 1) = LF
                     /\ Return(k, "ok", {body})
                     /\ req'  = IF k = "req"  THEN [req  EXCEPT !.body = body] ELSE req
                     /\ resp' = IF k = "resp" THEN [resp EXCEPT !.body = body] ELSE resp
  <2>1. OnlyOwn(k)
    BY <1>1, <1>5, BlankLineDecides
  <2>2. AtHeaders(k) /\ At(b, cursor) = CR /\ UNCHANGED out /\ (GivesUp \/ Ends)
    BY <1>5, Zenon DEF BlankLine
  <2>3. CASE GivesUp
    BY <2>1, <2>3, OrderGivenUp
  <2>4. CASE Ends
    <3>1. cursor \in Nat /\ req \in Request /\ resp \in Response
      BY <1>1 DEF IInv, TypeOK
    <3>2. Body(k)' = body
      BY <2>4, <3>1 DEF Body, Kinds, Request, Response
    <3>3. body.lo - 2 = cursor
      BY <3>1 DEF Slice
    <3>4. Headers(k)' = Headers(k)
      BY <2>2 DEF Headers, out
    <3>5. InOrder(b, Headers(k), cursor) /\ Scanned(b, cursor)
      BY <2>2 DEF FInv, Ordered, CInv, LinesScanned
    <3>6. phase' = "idle"
      BY <2>4 DEF Return
    <3> HIDE DEF body
    <3>7. Settled(b, Headers(k)', Body(k)'.lo - 2)
      BY <2>2, <2>4, <3>2, <3>3, <3>4, <3>5 DEF Settled
    <3> QED
      BY <2>1, <3>6, <3>7, OrderKept DEF AtHeaders
  <2> QED
    BY <2>2, <2>3, <2>4
<1>6. ASSUME NEW k \in Kinds, HeaderLine(k)
      PROVE  Ordered'
  <2> DEFINE b     == input[k]
             abs   == IndexByte(b, LF, cursor, Len(b))
             colon == IndexByte(b, COLON, cursor, abs - 1)
             h     == [name  |-> Slice(cursor, colon),
                       value |-> Trim(b, colon + 1, abs - 1)]
             GivesUp  == \E S : Return(k, "malformed", S)
             Consumes == /\ EndsLine(b, abs)
                         /\ colon >= 0
                         /\ ConsumeLine(k, h, abs)
                         /\ UNCHANGED <<status, phase>>
  <2>1. OnlyOwn(k)
    BY <1>1, <1>6, HeaderLineDecides
  <2>2. AtHeaders(k) /\ At(b, cursor) # CR /\ (GivesUp \/ Consumes)
    BY <1>6, Zenon DEF HeaderLine
  <2>3. CASE GivesUp
    BY <2>1, <2>3, OrderGivenUp
  <2>4. CASE Consumes
    <3>1. /\ status[k] = "parsing" /\ Len(b) \in Nat /\ cursor \in Nat
          /\ TypeOK /\ status' = status
      BY <1>1, <2>2, <2>4, InProgress DEF IInv, AtHeaders
    <3>2. InOrder(b, Headers(k), cursor) /\ At(b, cursor - 1) = LF /\ 2 <= cursor
      BY <2>2 DEF FInv, Ordered, CInv, LinesScanned, Scanned
    <3>3. abs \in Nat /\ IsLine(b, cursor, abs + 1)
      BY <2>4, <3>1, <3>2, LineFound DEF EndsLine
    <3>4. AppendHeader(k, h) /\ cursor' = abs + 1
      BY <2>4 DEF ConsumeLine
    <3>5. colon >= 0
      BY <2>4
    <3> HIDE DEF abs
    <3>6. h \in Header /\ IsHeaderLine(b, h, abs + 1)
      BY <2>2, <3>1, <3>3, <3>5, HeaderFound DEF Header
    <3>7. h.name.lo = cursor
      BY DEF Slice
    <3> HIDE DEF h
    <3>8. Headers(k) \in Seq(Header) /\ Headers(k)' = Append(Headers(k), h)
      BY <3>1, <3>4, <3>6, HeadersType, HeaderAppended
    <3>9. abs + 1 \in Nat /\ 1 <= cursor
      BY <3>2, <3>3, <3>1
    <3>10. InOrder(b, Append(Headers(k), h), abs + 1)
      BY <3>1, <3>2, <3>6, <3>7, <3>8, <3>9, OrderExtends
    <3> QED
      BY <2>1, <3>1, <3>4, <3>8, <3>10, OrderKept
  <2> QED
    BY <2>2, <2>3, <2>4
<1> QED
  BY <1>2, <1>3, <1>4, <1>5, <1>6 DEF Parse, Step

\* The invariant of the lookups holds in every state.
LEMMA OrderHolds == Safety => []FInv
<1>1. Init => FInv
  BY ContractInit DEF Init, FInv, Ordered, AtHeaders, Kinds
<1>2. FInv /\ [Next]_vars => FInv'
  <2> SUFFICES ASSUME FInv, [Next]_vars PROVE FInv'
    OBVIOUS
  <2>1. CInv'
    BY ContractStep DEF FInv
  <2>2. CASE Call
    <3>1. PICK k \in Kinds, b \in Buffers :
            /\ Enter(k, b)
            /\ k # "req" => req' = req
            /\ k # "resp" => resp' = resp
      BY <2>2 DEF Call, ParseRequest, ParseResponse, Kinds
    <3>2. /\ phase' = "line" /\ status'[k] = "parsing" /\ scratch' = scratch
          /\ \A l \in Kinds \ {k} : /\ status'[l] = status[l] /\ input'[l] = input[l]
                                    /\ headers'[l] = headers[l] /\ heap'[l] = heap[l]
      BY <3>1 DEF Enter, FInv, CInv, IInv, TypeOK
    <3>3. ASSUME NEW l \in Kinds, status'[l] = "ok"
          PROVE  Settled(input'[l], Headers(l)', Body(l)'.lo - 2)
      <4>1. l # k
        BY <3>2, <3>3
      <4>2. Headers(l)' = Headers(l)
        BY <3>2, <4>1 DEF Headers
      <4>3. Body(l)' = Body(l)
        BY <3>1, <4>1 DEF Body, Kinds
      <4> QED
        BY <3>2, <3>3, <4>1, <4>2, <4>3 DEF FInv, Ordered
    <3> QED
      BY <2>1, <3>2, <3>3 DEF FInv, Ordered, AtHeaders
  <2>3. CASE Parse
    BY <2>1, <2>3, OrderParse DEF FInv
  <2>4. CASE UNCHANGED vars
    <3>1. \A l \in Kinds : Headers(l)' = Headers(l) /\ Body(l)' = Body(l)
      BY <2>4 DEF vars, Headers, Body
    <3> QED
      BY <2>1, <2>4, <3>1 DEF vars, FInv, Ordered, AtHeaders
  <2> QED
    BY <2>2, <2>3, <2>4 DEF Next
<1> QED
  BY <1>1, <1>2, PTL DEF Safety

\* Two octets are the same letter exactly if they are its two cases.
LEMMA SameLetter ==
  ASSUME NEW c \in Int, NEW d \in Int
  PROVE  Lower(c) = Lower(d) <=> c \in Cases(d)
<1>1. /\ Lower(c) = IF c \in 65..90 THEN c + 32 ELSE c
      /\ Lower(d) = IF d \in 65..90 THEN d + 32 ELSE d
  BY DEF Lower, UpperA, UpperZ
<1>2. c \in Cases(d) <=>
        \/ c = d
        \/ /\ c \in 65..90 \/ c \in 97..122
           /\ d \in 65..90 \/ d \in 97..122
           /\ c - d = 32 \/ c - d = -32
  BY DEF Cases, UpperA, UpperZ
<1> QED
  BY <1>1, <1>2

\* A header has a name exactly if its line has.
LEMMA NamedByLine ==
  ASSUME NEW b \in Seq(Octet), NEW h \in Header, NEW stop \in Nat,
         IsHeaderLine(b, h, stop), NEW name \in Seq(Octet)
  PROVE  /\ AsciiEqualFold(b, h.name, name) <=> Named(b, h.name.lo, name)
         /\ Named(b, h.name.lo, name) => h.name = Slice(h.name.lo, h.name.lo + Len(name))
<1> DEFINE lo == h.name.lo
           hi == h.name.hi
           n  == Len(name)
<1>0. Octet \subseteq Int /\ Fault \in Int
  BY DEF Octet, Fault
<1>1. /\ lo \in Nat /\ hi \in Nat /\ n \in Nat /\ h.name = Slice(lo, hi)
      /\ \A j \in 1..n : name[j] \in Int
  <2>1. n \in Nat
    BY LenProperties
  <2>2. \A j \in 1..n : name[j] \in Octet
    BY ElementOfSeq
  <2>3. h.name \in [lo : Nat, hi : Nat]
    BY DEF Header, Slices
  <2>4. lo \in Nat /\ hi \in Nat
    BY <2>3
  <2>5. h.name = Slice(lo, hi)
    BY <2>3 DEF Slice
  <2>6. \A j \in 1..n : name[j] \in Int
    BY <1>0, <2>2
  <2> QED
    BY <2>1, <2>4, <2>5, <2>6
<1>2. /\ lo <= hi /\ At(b, hi) = COLON
      /\ \A q \in lo..(hi - 1) : At(b, q) # COLON
  BY DEF IsHeaderLine, Free
<1>3. ASSUME NEW q \in Int
      PROVE  At(b, q) \in Int
  <2>1. At(b, q) = Fault \/ At(b, q) \in Octet
    BY AtInside
  <2> QED
    BY <1>0, <2>1
<1>4. Width(h.name) = hi - lo
  BY DEF Width
<1> HIDE DEF lo, hi, n
<1>5. \A j \in 1..n : lo + j - 1 \in Int
  BY <1>1
<1>6. \A j \in 1..n :
        Lower(At(b, lo + j - 1)) = Lower(name[j]) <=> At(b, lo + j - 1) \in Cases(name[j])
  BY <1>1, <1>3, <1>5, SameLetter
<1>7. ASSUME Named(b, lo, name)
      PROVE  hi = lo + n
  <2>1. At(b, lo + n) = COLON /\ \A q \in lo..((lo + n) - 1) : At(b, q) # COLON
    BY <1>7 DEF Named, Free, n
  <2>2. ~ (hi < lo + n)
    BY <1>1, <1>2, <2>1
  <2>3. ~ (lo + n < hi)
    BY <1>1, <1>2, <2>1
  <2> QED
    BY <1>1, <2>2, <2>3
<1>8. AsciiEqualFold(b, h.name, name) <=>
        hi - lo = n /\ \A j \in 1..n : Lower(At(b, lo + j - 1)) = Lower(name[j])
  BY <1>4 DEF AsciiEqualFold, lo, n
<1>9. ASSUME hi = lo + n
      PROVE  Named(b, lo, name) <=> \A j \in 1..n : At(b, lo + j - 1) \in Cases(name[j])
  BY <1>2, <1>9 DEF Named, Free, n
<1>10. hi - lo = n <=> hi = lo + n
  BY <1>1
<1>11. AsciiEqualFold(b, h.name, name) <=> Named(b, lo, name)
  BY <1>6, <1>7, <1>8, <1>9, <1>10
<1>12. Named(b, lo, name) => h.name = Slice(lo, lo + n)
  BY <1>1, <1>7
<1> QED
  BY <1>11, <1>12 DEF lo, n

\* The header lines of a settled head start where its headers do.
LEMMA HeaderLineStartsAt ==
  ASSUME NEW b \in Seq(Octet), NEW hs \in Seq(Header), NEW n, Settled(b, hs, n)
  PROVE  HeaderLineStarts(b) = {hs[j].name.lo : j \in 1..Len(hs)}
<1>1. Len(b) \in Nat
  BY LenProperties
<1>2. /\ n \in 2..Len(b) /\ At(b, n - 1) = LF
      /\ n + 1 < Len(b) /\ At(b, n) = CR /\ At(b, n + 1) = LF
      /\ InOrder(b, hs, n) /\ Scanned(b, n)
  BY DEF Settled, Scanned
<1>3. Min(HeadEnds(b)) + 1 = n - 1
  BY <1>1, <1>2, HeadEndsAtBlankLine
<1>4. LineEnds(b) = {p \in 0..(n - 1) : At(b, p) = LF}
  BY <1>3 DEF LineEnds
<1>5. Max(LineEnds(b)) = n - 1
  <2> DEFINE T == LineEnds(b)
             IsGreatest(x) == \A y \in T : x >= y
  <2>1. n - 1 \in T /\ IsGreatest(n - 1) /\ T \subseteq Int
    BY <1>2, <1>4
  <2>2. Max(T) = CHOOSE x \in T : IsGreatest(x)
    BY DEF Max
  <2>3. Max(T) \in T /\ IsGreatest(Max(T))
    <3> HIDE DEF IsGreatest, T
    <3> QED
      BY <2>1, <2>2
  <2> HIDE DEF T
  <2>4. Max(T) >= n - 1 /\ n - 1 >= Max(T) /\ Max(T) \in Int
    BY <2>1, <2>3
  <2>5. Max(T) = n - 1
    BY <1>2, <2>4
  <2> QED
    BY <2>5 DEF T
<1>6. HeaderLineStarts(b) = {q \in 1..(n - 1) : At(b, q - 1) = LF}
  <2>1. HeaderLineStarts(b) = {p + 1 : p \in LineEnds(b) \ {n - 1}}
    BY <1>5 DEF HeaderLineStarts
  <2>2. ASSUME NEW p \in LineEnds(b) \ {n - 1}
        PROVE  p + 1 \in 1..(n - 1) /\ At(b, (p + 1) - 1) = LF
    <3>1. (p + 1) - 1 = p /\ p \in 0..(n - 1) /\ p # n - 1 /\ At(b, p) = LF
      BY <1>2, <1>4
    <3> QED
      BY <1>2, <3>1
  <2>3. ASSUME NEW q \in 1..(n - 1), At(b, q - 1) = LF
        PROVE  q - 1 \in LineEnds(b) \ {n - 1} /\ q = (q - 1) + 1
    BY <1>2, <1>4, <2>3
  <2> QED
    BY <2>1, <2>2, <2>3
<1> QED
  BY <1>2, <1>6 DEF InOrder

\* The line of a header that is looked up: the first one of its name.
LEMMA LookupByLine ==
  ASSUME NEW b \in Seq(Octet), NEW hs \in Seq(Header), NEW n,
         Settled(b, hs, n), NEW start, AreHeaders(b, hs, start, n),
         NEW name \in Seq(Octet)
  PROVE  LET v     == HeaderValue(b, hs, name)
             lines == {q \in HeaderLineStarts(b) : Named(b, q, name)}
         IN  IF lines = {}
             THEN v = Nil
             ELSE LET q == Min(lines) IN
                  IsHeaderLine(b, [name |-> Slice(q, q + Len(name)), value |-> v],
                               IndexByte(b, LF, q, Len(b)) + 1)
<1> DEFINE v     == HeaderValue(b, hs, name)
           lines == {q \in HeaderLineStarts(b) : Named(b, q, name)}
           found == {j \in DOMAIN hs : AsciiEqualFold(b, hs[j].name, name)}
           lo(j) == hs[j].name.lo
           stop(j) == LineStop(hs, j, n)
<1>1. /\ Len(b) \in Nat /\ Len(hs) \in Nat /\ DOMAIN hs = 1..Len(hs)
      /\ n \in Nat
      /\ \A j \in 1..Len(hs) : hs[j] \in Header
  BY LenProperties, ElementOfSeq DEF Settled, Scanned
<1>2. ASSUME NEW j \in 1..Len(hs)
      PROVE  /\ lo(j) \in Nat /\ stop(j) \in Nat
             /\ IsHeaderLine(b, hs[j], stop(j))
             /\ AsciiEqualFold(b, hs[j].name, name) <=> Named(b, lo(j), name)
             /\ Named(b, lo(j), name) => hs[j].name = Slice(lo(j), lo(j) + Len(name))
  <2>1. hs[j].name.lo \in Nat
    BY <1>1 DEF Header, Slices
  <2>2. stop(j) \in Nat
    <3>1. CASE j = Len(hs)
      BY <1>1, <3>1 DEF LineStop
    <3>2. CASE j # Len(hs)
      <4>1. j + 1 \in 1..Len(hs)
        <5> DEFINE m == Len(hs)
        <5>1. m \in Nat /\ j \in 1..m /\ j # m
          BY <1>1, <3>2
        <5> HIDE DEF m
        <5>2. j + 1 \in 1..m
          BY <5>1
        <5> QED
          BY <5>2 DEF m
      <4>2. hs[j + 1] \in Header
        BY <1>1, <4>1
      <4> QED
        BY <3>2, <4>2 DEF LineStop, Header, Slices
    <3> QED
      BY <3>1, <3>2
  <2>3. IsHeaderLine(b, hs[j], stop(j))
    BY DEF AreHeaders
  <2> HIDE DEF stop
  <2> QED
    BY <1>1, <2>1, <2>2, <2>3, NamedByLine
<1>3. HeaderLineStarts(b) = {lo(j) : j \in 1..Len(hs)}
  BY HeaderLineStartsAt
<1>4. \A i, j \in 1..Len(hs) : i < j => lo(i) < lo(j)
  BY DEF Settled, InOrder
<1> HIDE DEF stop, lo
<1>5. lines = {lo(j) : j \in found}
  BY <1>1, <1>2, <1>3
<1>6. CASE found = {}
  <2>1. lines = {}
    BY <1>5, <1>6
  <2>2. v = Nil
    BY <1>6 DEF HeaderValue
  <2> QED
    BY <2>1, <2>2
<1>7. CASE found # {}
  <2> DEFINE j == Min(found)
             q == Min(lines)
  <2>1. found \subseteq Nat /\ found \subseteq 1..Len(hs)
    BY <1>1
  <2>2. j \in found /\ \A i \in found : j <= i
    BY <1>7, <2>1, MinIsLeast
  <2>3. v = hs[j].value
    BY <1>7 DEF HeaderValue
  <2> HIDE DEF found, lines, j
  <2>4. lo(j) \in lines /\ lines \subseteq Nat
    BY <1>2, <1>5, <2>1, <2>2
  <2>5. \A r \in lines : lo(j) <= r
    <3>1. ASSUME NEW i \in found
          PROVE  lo(j) <= lo(i)
      <4>1. i \in 1..Len(hs) /\ j \in 1..Len(hs) /\ j <= i /\ i \in Nat /\ j \in Nat
        BY <2>1, <2>2
      <4>2. CASE i = j
        BY <1>2, <4>1, <4>2
      <4>3. CASE j < i
        BY <1>2, <1>4, <4>1, <4>3
      <4> QED
        BY <4>1, <4>2, <4>3
    <3> QED
      BY <1>5, <3>1
  <2>6. q = lo(j)
    BY <2>4, <2>5, MinEquals
  <2>7. j \in 1..Len(hs) /\ Named(b, lo(j), name)
    BY <2>1, <2>2, <2>4 DEF lines
  <2>8. [name |-> Slice(q, q + Len(name)), value |-> v] = hs[j]
    <3>1. hs[j].name = Slice(q, q + Len(name))
      BY <1>2, <2>6, <2>7
    <3>2. hs[j] \in [name : Slices, value : Slices]
      BY <1>1, <2>7 DEF Header
    <3> HIDE DEF q, v
    <3> QED
      BY <2>3, <3>1, <3>2
  <2>9. IndexByte(b, LF, q, Len(b)) + 1 = stop(j)
    <3> DEFINE e == stop(j) - 1
    <3>1. IsLine(b, q, stop(j)) /\ stop(j) \in Nat /\ q \in Nat
      BY <1>2, <2>6, <2>7 DEF IsHeaderLine, lo
    <3>2. /\ q + 2 <= stop(j) /\ At(b, e) = LF
          /\ \A r \in q..(e - 1) : At(b, r) # LF
      BY <3>1 DEF IsLine, Free
    <3>3. e \in 0..(Len(b) - 1)
      BY <3>2, AtPosition DEF LF, Fault
    <3> HIDE DEF q, e
    <3>4. e \in q..(Len(b) - 1) /\ Len(b) \in Int
      <4>1. e = stop(j) - 1
        BY DEF e
      <4> QED
        BY <1>1, <3>1, <3>2, <3>3, <4>1
    <3>5. IndexByte(b, LF, q, Len(b)) = e
      BY <3>1, <3>2, <3>4, FirstIsFound
    <3>6. e + 1 = stop(j)
      BY <3>1 DEF e
    <3> QED
      BY <3>5, <3>6
  <2>10. IsHeaderLine(b, hs[j], stop(j))
    BY <1>2, <2>7
  <2>11. lines # {}
    BY <2>4
  <2> HIDE DEF q, v
  <2>12. IsHeaderLine(b, [name |-> Slice(q, q + Len(name)), value |-> v],
                      IndexByte(b, LF, q, Len(b)) + 1)
    BY <2>8, <2>9, <2>10
  <2> QED
    BY <2>11, <2>12 DEF q, v, lines
<1> QED
  BY <1>6, <1>7

\* Header returns the first matching header value, case-insensitively, or nil: of
\* the lines of the buffer, for every name and every message, however many headers
\* it has and whatever calls the parser served since.
THEOREM LookupsFindFirst == Spec => []FindsFirst
<1>1. FInv => FindsFirst
  <2> SUFFICES ASSUME FInv, NEW k \in Kinds, status[k] = "ok", NEW name \in Names
               PROVE  LET b     == input[k]
                          hs    == Headers(k)
                          v     == HeaderValue(b, hs, name)
                          lines == {q \in HeaderLineStarts(b) : Named(b, q, name)}
                      IN  IF lines = {}
                          THEN v = Nil
                          ELSE LET q == Min(lines) IN
                               IsHeaderLine(b, [name |-> Slice(q, q + Len(name)), value |-> v],
                                            IndexByte(b, LF, q, Len(b)) + 1)
    BY DEF FindsFirst
  <2> DEFINE n == Body(k).lo - 2
  <2>1. TypeOK /\ Lossless /\ Settled(input[k], Headers(k), n)
    BY DEF FInv, CInv, IInv, Ordered
  <2>2. input[k] \in Seq(Octet) /\ Headers(k) \in Seq(Header) /\ name \in Seq(Octet)
    BY <2>1, HeadersType, NamesAssumption DEF TypeOK
  <2>3. \E start : AreHeaders(input[k], Headers(k), start, n)
    <3>1. CASE k = "req"
      BY <2>1, <3>1 DEF Lossless, IsRequest, RequestMessage, Body
    <3>2. CASE k = "resp"
      BY <2>1, <3>2 DEF Lossless, IsResponse, ResponseMessage, Body
    <3> QED
      BY <3>1, <3>2 DEF Kinds
  <2> HIDE DEF n
  <2> QED
    BY <2>1, <2>2, <2>3, LookupByLine
<1> QED
  BY <1>1, OrderHolds, PTL DEF Spec
=============================================================================
