------------------------------- MODULE SimdScan -------------------------------
(***************************************************************************)
(* cfast/cfast-simd.c: the parser that reads the buffer in chunks of Width *)
(* octets (64 in the code), turns each chunk into the set of offsets of    *)
(* its line feeds and the set of offsets of its colons, and parses by      *)
(* walking those sets.  A line may cross any number of chunks: its start,  *)
(* and its first colon once it was seen, are carried over.                 *)
(***************************************************************************)
EXTENDS HttpMsg

CONSTANT Chunk    \* octets in a chunk

ASSUME ChunkAssumption == Chunk \in Nat \ {0}

VARIABLES
  buf,          \* the buffer of the last call
  is_req,       \* whether it was parsed as a request
  out,          \* the message parse fills
  pc,           \* where the call is: between chunks or walking one
  base,         \* the start of the chunk
  nl,           \* the line feeds of the chunk not yet consumed
  co,           \* the colons of the chunk not yet consumed
  line_start,   \* the start of the current line
  colon,        \* the first colon of the current line, if
  have_colon,   \* it was seen
  first_line,   \* whether the current line is the first
  n,            \* the header lines seen
  calls         \* how many calls were made

masks == <<base, nl, co>>
line  == <<line_start, colon, have_colon, first_line, n>>
vars  == <<buf, is_req, out, pc, masks, line, calls>>

Bits == 0..(Chunk - 1)

TypeOK ==
  /\ buf \in Seq(Octet)
  /\ is_req \in BOOLEAN
  /\ out \in Message
  /\ pc \in {"idle", "chunk", "walk"}
  /\ base \in Nat
  /\ nl \in SUBSET Bits
  /\ co \in SUBSET Bits
  /\ line_start \in 0..Len(buf)
  /\ colon \in 0..Len(buf)
  /\ have_colon \in BOOLEAN
  /\ first_line \in BOOLEAN
  /\ n \in Nat
  /\ calls \in 0..MaxCalls

Init ==
  /\ buf = <<>>
  /\ is_req = TRUE
  /\ out = NilMessage
  /\ pc = "idle"
  /\ base = 0
  /\ nl = {}
  /\ co = {}
  /\ line_start = 0
  /\ colon = 0
  /\ have_colon = FALSE
  /\ first_line = TRUE
  /\ n = 0
  /\ calls = 0

----------------------------------------------------------------------------
\* Locals start as declared: nothing was seen, the current line is the first.
Call(i) ==
  /\ pc = "idle"
  /\ calls < MaxCalls
  /\ buf' = i.buf
  /\ is_req' = i.is_req
  /\ pc' = "chunk"
  /\ calls' = calls + 1
  /\ UNCHANGED <<out, masks, line>>

\* parse returns; its locals are left as the next call finds them.
Return(body) ==
  /\ out' = Finish(out, n, body)
  /\ pc' = "idle"
  /\ base' = 0
  /\ nl' = {}
  /\ co' = {}
  /\ line_start' = 0
  /\ colon' = 0
  /\ have_colon' = FALSE
  /\ first_line' = TRUE
  /\ n' = 0

----------------------------------------------------------------------------
(***************************************************************************)
(* Chunks.                                                                 *)
(***************************************************************************)

\* Mutant of Loaded: the memory the last chunk is copied to is not cleared.
Loaded_Stale(r) == IF base + r < Len(buf) THEN At(buf, base + r) ELSE LF

\* The last chunk is copied into zeroed memory when the buffer ends inside it.
Loaded(r) == IF base + r < Len(buf) THEN At(buf, base + r) ELSE 0

Mask(c) == {r \in Bits : Loaded(r) = c}

LoadChunk ==
  /\ pc = "chunk"
  /\ base < Len(buf)
  /\ nl' = Mask(LF)
  /\ co' = Mask(COLON)
  /\ pc' = "walk"
  /\ UNCHANGED <<buf, is_req, out, base, line, calls>>

\* The bits below r.
Low(r) == 0..(r - 1)

\* Mutant of SeeColon: only a line's own chunk is searched for its colon.
SeeColon_Forget(bits) ==
  /\ colon' = IF bits # {} THEN base + Min(bits) ELSE colon
  /\ have_colon' = (bits # {})

\* The first of the colons in bits is the line's, unless it has one.
SeeColon(bits) ==
  IF ~have_colon /\ bits # {}
  THEN colon' = base + Min(bits) /\ have_colon' = TRUE
  ELSE UNCHANGED <<colon, have_colon>>

\* Mutant of NextBase: an unfinished line is read again from its start.
NextBase_OfLine == line_start

NextBase == base + Chunk

\* The chunk has no line feed left: the colons left in it are the next line's.
NextChunk ==
  /\ pc = "walk"
  /\ nl = {}
  /\ SeeColon(co)
  /\ base' = NextBase
  /\ pc' = "chunk"
  /\ nl' = {}
  /\ co' = {}
  /\ UNCHANGED <<buf, is_req, out, line_start, first_line, n, calls>>

\* No blank line was found.
EndOfBuffer ==
  /\ pc = "chunk"
  /\ base >= Len(buf)
  /\ Return(Slice(Len(buf), Len(buf)))
  /\ UNCHANGED <<buf, is_req, calls>>

----------------------------------------------------------------------------
(***************************************************************************)
(* Lines: the lowest bit of nl ends the current one.                       *)
(***************************************************************************)

\* The offset of the line feed.
LineEnd == base + Min(nl)

\* The line's colon: carried over, or the first one below the line feed.
LineColon ==
  LET below == co \cap Low(Min(nl))
  IN  IF ~have_colon /\ below # {} THEN base + Min(below) ELSE colon

\* Mutant of NextLine: the colons of the line are left in the mask.
NextLine_KeepColons ==
  /\ nl' = nl \ {Min(nl)}
  /\ line_start' = LineEnd + 1
  /\ colon' = LineColon
  /\ have_colon' = FALSE
  /\ UNCHANGED <<base, co>>

\* The line feed and the colons below it are consumed.
NextLine ==
  /\ nl' = nl \ {Min(nl)}
  /\ co' = co \ Low(Min(nl))
  /\ line_start' = LineEnd + 1
  /\ colon' = LineColon
  /\ have_colon' = FALSE
  /\ UNCHANGED base

FirstLine ==
  /\ pc = "walk"
  /\ nl # {}
  /\ first_line
  /\ out' = PutFirstLine(out, is_req, buf, LineEnd - 1)
  /\ first_line' = FALSE
  /\ NextLine
  /\ UNCHANGED <<buf, is_req, pc, n, calls>>

\* A line of one octet before its line feed.
BlankLine ==
  /\ pc = "walk"
  /\ nl # {}
  /\ ~first_line
  /\ LineEnd = line_start + 1
  /\ Return(Slice(LineEnd + 1, Len(buf)))
  /\ UNCHANGED <<buf, is_req, calls>>

\* The usual single space is skipped before the loop that skips the rest.
SkipSpace(lo, hi) == IF lo < hi /\ At(buf, lo) = SP THEN lo + 1 ELSE lo

HeaderLine ==
  LET hle == LineEnd - 1 IN
  /\ pc = "walk"
  /\ nl # {}
  /\ ~first_line
  /\ LineEnd # line_start + 1
  /\ out' = PutHeader(out, n,
              [name  |-> Slice(line_start, LineColon),
               value |-> Trim(buf, SkipSpace(LineColon + 1, hle), hle)])
  /\ n' = n + 1
  /\ NextLine
  /\ UNCHANGED <<buf, is_req, pc, first_line, calls>>

----------------------------------------------------------------------------
Parse ==
  LoadChunk \/ NextChunk \/ EndOfBuffer \/ FirstLine \/ BlankLine \/ HeaderLine

Next == (\E i \in Inputs : Call(i)) \/ Parse

Safety == Init /\ [][Next]_vars

\* A call runs to its end; nothing makes a thread call again.
Spec == Safety /\ WF_vars(Parse)

----------------------------------------------------------------------------
(***************************************************************************)
(* Properties.                                                             *)
(***************************************************************************)

\* The first colon of the line so far is known exactly when there is one, also
\* when it was in an earlier chunk than the line feed; the masks hold what is left
\* of the chunk, and no line feed was passed over.
NothingLost ==
  LET new == {r \in Bits : base + r >= line_start} IN
  pc # "idle" =>
    /\ Free(buf, line_start, base, {LF})
    /\ have_colon <=> ~Free(buf, line_start, base, {COLON})
    /\ have_colon => /\ colon \in line_start..(base - 1)
                     /\ At(buf, colon) = COLON
                     /\ Free(buf, line_start, colon, {COLON})
    /\ pc = "walk" => nl = Mask(LF) \cap new /\ co = Mask(COLON) \cap new

\* cfast.c and cfast-simd.c agree field for field (cparse_test.go:94): every call
\* of this parser is a call of the scalar one on the same buffer, line by line
\* and with the same message left at the end.
Scalar == INSTANCE ScalarScan WITH
  pc <- IF pc = "idle" THEN "idle" ELSE IF first_line THEN "line" ELSE "headers",
  p  <- line_start

AgreesWithScalar == Scalar!Safety

\* Every call returns: chunks without line feeds do not hold it up, nor do lines
\* that cross chunks.
CallReturns == (pc # "idle") ~> (pc = "idle")
=============================================================================
