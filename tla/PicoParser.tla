------------------------------ MODULE PicoParser ------------------------------
(***************************************************************************)
(* pico-neon/picohttpparser.c: phr_parse_request, phr_parse_response and   *)
(* phr_parse_headers, and the search they jump over octets with.           *)
(*                                                                         *)
(* A call is given the octets that have arrived so far, and how many had   *)
(* arrived when an earlier call found the message incomplete.  One action  *)
(* is one piece of the message; a call runs on its caller's thread.        *)
(***************************************************************************)
EXTENDS PicoGrammar

CONSTANTS
  MaxHeaders,   \* the headers the caller has room for
  Blocks        \* octets searched at a time: 16 with NEON or SSE 4.2, 0 without

ASSUME MaxHeadersAssumption == MaxHeaders \in Nat
ASSUME BlocksAssumption == Blocks \subseteq Nat

VARIABLES
  block,        \* how this build searches
  kind,         \* which of the three functions was called last
  b,            \* the octets it was given
  last_len,     \* what an earlier call had been given
  pc,           \* where the call is
  p,            \* the offset it has reached
  parts,        \* the results other than the headers
  headers,      \* the caller's array, as earlier calls left it
  num_headers,
  ret           \* what the call returned

results == <<parts, headers, num_headers>>
call == <<block, kind, b, last_len>>
pico == <<call, pc, p, results, ret>>

PicoHeader == [name : Slices, value : Slices]

NilParts == [method |-> Nil, path |-> Nil, minor |-> -1, status |-> 0, msg |-> Nil]

PicoInit ==
  /\ block \in Blocks
  /\ kind = "req"
  /\ b = <<>>
  /\ last_len = 0
  /\ pc = "idle"
  /\ p = 0
  /\ parts = NilParts
  /\ headers = [j \in 1..MaxHeaders |-> [name |-> Nil, value |-> Nil]]
  /\ num_headers = 0
  /\ ret = 0

----------------------------------------------------------------------------
(***************************************************************************)
(* The outcome of reading a piece: how the call fails, or where it goes    *)
(* on and which octets it read.                                            *)
(***************************************************************************)

Eof      == [ret |-> -2]
Invalid  == [ret |-> -1]
GoOn(q)  == [ret |-> 0, p |-> q]
Read(lo, hi, q) == [ret |-> 0, p |-> q, lo |-> lo, hi |-> hi]

Then(o, F(_)) == IF o.ret < 0 THEN o ELSE F(o.p)

Expect(q, c) ==
  IF q = Len(b) THEN Eof ELSE IF At(b, q) = c THEN GoOn(q + 1) ELSE Invalid

\* A line break at q, a CR needs its LF; something else is other.
LineBreak(q, other) ==
  CASE At(b, q) = CR -> Expect(q + 1, LF)
    [] At(b, q) = LF -> GoOn(q + 1)
    [] OTHER         -> other

\* findchar_fast from lo: whole blocks without an octet of R are jumped over; what
\* is left is shorter than a block and is not looked at.
FindCharFast(lo, R) ==
  LET whole == IF block = 0 THEN lo ELSE Len(b) - ((Len(b) - lo) % block)
      hits  == {q \in lo..(whole - 1) : At(b, q) \in R}
  IN  Min(hits \cup {whole})

\* The ranges it is given: they hold every octet a token or a path stops at, and
\* two octets of tokens besides.
TokenRanges ==
  0..32 \cup {34, 40, 41, 44, 47} \cup 58..64 \cup 91..93 \cup 123..255

PathRanges == 0..32 \cup {DEL}

ParseToken(lo, next_char) ==
  LET q == First(b, FindCharFast(lo, TokenRanges), (Octet \ Token) \cup {next_char})
  IN  CASE q = Len(b)         -> Eof
        [] At(b, q) = next_char -> Read(lo, q, q)
        [] OTHER              -> Invalid

AdvanceToken(lo) ==
  LET q == First(b, FindCharFast(lo, PathRanges), 0..32 \cup {DEL})
  IN  CASE q = Len(b)     -> Eof
        [] At(b, q) = SP  -> Read(lo, q, q)
        [] OTHER          -> Invalid

GetTokenToEol(lo) ==
  LET q    == First(b, lo, Ctl)
      next == LineBreak(q, Invalid)
  IN  IF q = Len(b) THEN Eof
      ELSE IF next.ret < 0 THEN next ELSE Read(lo, q, next.p)

\* Mutant of SkipSpaces: the end of what has arrived ends the spaces.
SkipSpaces_NoEof(q) == GoOn(First(b, q + 1, Octet \ {SP}))

\* The space at q and those after it.
SkipSpaces(q) ==
  LET r == First(b, q + 1, Octet \ {SP})
  IN  IF r = Len(b) THEN Eof ELSE GoOn(r)

\* Mutant of ParseHttpVersion: one octet less is taken to be enough.
ParseHttpVersion_Eight(q) ==
  IF Len(b) - q < 8 THEN Eof ELSE IF IsVersion(b, q) THEN GoOn(q + 8) ELSE Invalid

\* The version and the octet after it must have arrived to be looked at.
ParseHttpVersion(q) ==
  IF Len(b) - q < 9 THEN Eof ELSE IF IsVersion(b, q) THEN GoOn(q + 8) ELSE Invalid

\* Two line ends in a row from start on.
TwoLineEnds(start) ==
  LET C[q \in start..Len(b), ret_cnt \in 0..2] ==
        IF ret_cnt = 2 THEN GoOn(q)
        ELSE IF q = Len(b) THEN Eof
        ELSE IF At(b, q) \notin {CR, LF} THEN C[q + 1, 0]
        ELSE LET next == LineBreak(q, Invalid)
             IN  IF next.ret < 0 THEN next ELSE C[next.p, ret_cnt + 1]
  IN  C[start, 0]

\* Mutant of IsComplete: only the new octets are looked at.
IsComplete_NewOnly == TwoLineEnds(last_len)

\* is_complete: a line end before the octets that are new counts.
IsComplete == TwoLineEnds(IF last_len < 3 THEN 0 ELSE last_len - 3)

----------------------------------------------------------------------------
(***************************************************************************)
(* A call, piece by piece.                                                 *)
(***************************************************************************)

FirstPiece(k) ==
  CASE k = "req" -> "empty line" [] k = "resp" -> "version" [] k = "headers" -> "headers"

Enter(k, octets, last) ==
  /\ pc = "idle"
  /\ kind' = k
  /\ b' = octets
  /\ last_len' = last
  /\ parts' = NilParts
  /\ num_headers' = 0
  /\ p' = 0
  /\ pc' = IF last # 0 THEN "complete" ELSE FirstPiece(k)
  /\ UNCHANGED <<block, headers, ret>>

Return(r) ==
  /\ ret' = r
  /\ pc' = "idle"
  /\ UNCHANGED p

\* The call goes on with the next piece, or fails.
Take(o, next) ==
  \/ o.ret < 0 /\ Return(o.ret)
  \/ o.ret = 0 /\ p' = o.p /\ pc' = next /\ UNCHANGED ret

CheckComplete ==
  /\ pc = "complete"
  /\ \/ IsComplete.ret < 0 /\ Return(IsComplete.ret)
     \/ IsComplete.ret = 0 /\ pc' = FirstPiece(kind) /\ UNCHANGED <<p, ret>>
  /\ UNCHANGED <<call, results>>

SkipEmptyLine ==
  /\ pc = "empty line"
  /\ Take(IF b = <<>> THEN Eof ELSE LineBreak(p, GoOn(p)), "method")
  /\ UNCHANGED <<call, results>>

Method ==
  LET o == ParseToken(p, SP) IN
  /\ pc = "method"
  /\ Take(o, "path")
  /\ parts' = IF o.ret < 0 THEN parts ELSE [parts EXCEPT !.method = Slice(o.lo, o.hi)]
  /\ UNCHANGED <<call, headers, num_headers>>

Path ==
  LET o == Then(SkipSpaces(p), AdvanceToken) IN
  /\ pc = "path"
  /\ Take(o, "request version")
  /\ parts' = IF o.ret < 0 THEN parts ELSE [parts EXCEPT !.path = Slice(o.lo, o.hi)]
  /\ UNCHANGED <<call, headers, num_headers>>

Minor(o) == IF o.ret < 0 THEN -1 ELSE At(b, o.p - 1) - ZERO

\* An empty method is refused once the path has been read.
RequestVersion ==
  LET Checked(q) == IF Width(parts.method) = 0 \/ Width(parts.path) = 0
                    THEN Invalid ELSE ParseHttpVersion(q)
      AtEol(q)   == LineBreak(q, Invalid)
      version    == Then(SkipSpaces(p), Checked)
  IN  /\ pc = "request version"
      /\ Take(Then(version, AtEol), "headers")
      /\ parts' = [parts EXCEPT !.minor = Minor(version)]
      /\ UNCHANGED <<call, headers, num_headers>>

ResponseVersion ==
  LET Space(q) == IF At(b, q) = SP THEN SkipSpaces(q) ELSE Invalid
      version  == ParseHttpVersion(p)
  IN  /\ pc = "version"
      /\ Take(Then(version, Space), "status")
      /\ parts' = [parts EXCEPT !.minor = Minor(version)]
      /\ UNCHANGED <<call, headers, num_headers>>

\* The digits from p on, up to the first octet that is none.
IsDigit(q) == At(b, q) \in ZERO..NINE

PlaceValue(i, weight) ==
  IF \A j \in 0..i : IsDigit(p + j) THEN weight * (At(b, p + i) - ZERO) ELSE 0

Status ==
  /\ pc = "status"
  /\ IF Len(b) - p < 4
     THEN Return(-2) /\ UNCHANGED parts
     ELSE /\ parts' = [parts EXCEPT !.status =
                          PlaceValue(0, 100) + PlaceValue(1, 10) + PlaceValue(2, 1)]
          /\ Take(IF \A j \in 0..2 : IsDigit(p + j) THEN GoOn(p + 3) ELSE Invalid,
                  "reason")
  /\ UNCHANGED <<call, headers, num_headers>>

\* What follows the digits must be spaces and a reason, or nothing.
Reason ==
  LET o       == GetTokenToEol(p)
      garbage == o.ret = 0 /\ o.lo < o.hi /\ At(b, o.lo) # SP
  IN  /\ pc = "reason"
      /\ Take(IF garbage THEN Invalid ELSE o, "headers")
      /\ parts' = IF o.ret < 0 THEN parts
                  ELSE [parts EXCEPT !.msg =
                          Slice(IF garbage THEN o.lo ELSE First(b, o.lo, Octet \ {SP}),
                                o.hi)]
      /\ UNCHANGED <<call, headers, num_headers>>

----------------------------------------------------------------------------
(***************************************************************************)
(* parse_headers, one action per turn.                                     *)
(***************************************************************************)

AtHeader == pc = "headers" /\ p < Len(b) /\ At(b, p) \notin {CR, LF}

HeadersEof ==
  /\ pc = "headers"
  /\ p = Len(b)
  /\ Return(-2)
  /\ UNCHANGED <<call, results>>

BlankLine ==
  LET o == LineBreak(p, Invalid) IN
  /\ pc = "headers"
  /\ At(b, p) \in {CR, LF}
  /\ Return(IF o.ret < 0 THEN o.ret ELSE o.p)
  /\ UNCHANGED <<call, results>>

TooManyHeaders ==
  /\ AtHeader
  /\ num_headers = MaxHeaders
  /\ Return(-1)
  /\ UNCHANGED <<call, results>>

\* The value from q on: it stops at the line break and has no white space there.
PutValue(name, q) ==
  LET o == GetTokenToEol(q) IN
  /\ Take(o, "headers")
  /\ headers' = [headers EXCEPT ![num_headers + 1] =
                   IF o.ret < 0 THEN [@ EXCEPT !.name = name]
                   ELSE [name |-> name, value |-> Slice(o.lo, TrimRight(b, o.lo, o.hi))]]
  /\ num_headers' = IF o.ret < 0 THEN num_headers ELSE num_headers + 1

Continues == num_headers # 0 /\ At(b, p) \in OWS

ContinuedLine ==
  /\ AtHeader
  /\ num_headers # MaxHeaders
  /\ Continues
  /\ PutValue(Nil, p)
  /\ UNCHANGED <<call, parts>>

HeaderLine ==
  LET name  == ParseToken(p, COLON)
      value == First(b, name.p + 1, Octet \ OWS)
  IN  /\ AtHeader
      /\ num_headers # MaxHeaders
      /\ ~Continues
      /\ \/ name.ret < 0 /\ Return(name.ret) /\ UNCHANGED <<headers, num_headers>>
         \/ /\ name.ret = 0
            /\ name.lo = name.hi
            /\ Return(-1)
            /\ headers' = [headers EXCEPT ![num_headers + 1].name = Slice(name.lo, name.hi)]
            /\ UNCHANGED num_headers
         \/ /\ name.ret = 0
            /\ name.lo < name.hi
            /\ PutValue(Slice(name.lo, name.hi), value)
      /\ UNCHANGED <<call, parts>>

Parse ==
  \/ CheckComplete \/ SkipEmptyLine \/ Method \/ Path \/ RequestVersion
  \/ ResponseVersion \/ Status \/ Reason
  \/ HeadersEof \/ BlankLine \/ TooManyHeaders \/ ContinuedLine \/ HeaderLine

----------------------------------------------------------------------------
(***************************************************************************)
(* What a call promises.                                                   *)
(***************************************************************************)

InBuffer(s) == s.lo \in 0..s.hi /\ s.hi \in 0..Len(b)

PicoTypeOK ==
  /\ block \in Blocks
  /\ kind \in PicoKinds
  /\ b \in Seq(Octet)
  /\ last_len \in 0..Len(b)
  /\ pc \in {"idle", "complete", "empty line", "method", "path", "request version",
             "version", "status", "reason", "headers"}
  /\ p \in 0..Len(b)
  /\ pc \in {"path", "request version", "status", "reason"} => p < Len(b)
  /\ parts.minor \in -1..9
  /\ parts.status \in 0..999
  /\ \A s \in {parts.method, parts.path, parts.msg} : InBuffer(s)
  /\ headers \in [1..MaxHeaders -> PicoHeader]
  /\ num_headers \in 0..MaxHeaders
  /\ \A j \in 1..num_headers : InBuffer(headers[j].name) /\ InBuffer(headers[j].value)
  /\ ret \in Int /\ ret >= -2
  /\ pc = "idle" => ret <= Len(b)

ReadHeaders == [j \in 1..num_headers |-> headers[j]]

\* What the results of a successful call say is what the grammar says of b[0:ret].
ReadsIt ==
  /\ AreHeadersOf(b, ReadHeaders, HeadersStart(kind, b), ret)
  /\ CASE kind = "req" ->
            /\ PicoRequestLine(b, Beginning(kind, b), parts.method, parts.path)
            /\ parts.minor = At(b, TextEnd(b, Beginning(kind, b)) - 1) - ZERO
       [] kind = "resp" ->
            \E c \in 9..ret :
              /\ PicoStatusLine(b, c, parts.msg)
              /\ parts.minor = At(b, 7) - ZERO
              /\ parts.status = StatusValue(b, c)
       [] kind = "headers" -> TRUE
=============================================================================
