---------------------------- MODULE SimdScanProofs ----------------------------
(***************************************************************************)
(* For every set of inputs the C parsers may be given, every chunk width   *)
(* and every size of a message: cfast-simd.c loses no colon and no line    *)
(* feed at the edge of a chunk, and does what cfast.c does.                *)
(***************************************************************************)
EXTENDS SimdScan, HttpGrammarProofs

(***************************************************************************)
(* The inductive invariant.  NothingLost is not enough: that the next line *)
(* feed is a header's, and that the line has a colon, comes from where the *)
(* line starts in a buffer that is a list of lines.                        *)
(***************************************************************************)

\* A line starts after a line feed, no later than the lines of the head stop.
AtLineStart ==
  ~first_line =>
    /\ line_start >= 1
    /\ At(buf, line_start - 1) = LF
    /\ \E stop \in 1..Len(buf) :
         /\ HeadStops(is_req, buf, stop)
         /\ BlankOrEnd(buf, stop)
         /\ line_start <= stop

Idle ==
  /\ base = 0 /\ nl = {} /\ co = {}
  /\ line_start = 0 /\ have_colon = FALSE /\ first_line = TRUE

InCall ==
  /\ Parsable(is_req, buf)
  /\ first_line = TRUE => line_start = 0
  /\ AtLineStart
  /\ pc = "chunk" => line_start <= base
  /\ pc = "walk" => base < Len(buf) /\ line_start <= base + Chunk

IInv ==
  /\ Len(buf) \in Nat
  /\ pc \in {"idle", "chunk", "walk"}
  /\ base \in Nat /\ line_start \in Nat
  /\ have_colon \in BOOLEAN /\ first_line \in BOOLEAN
  /\ pc = "idle" => Idle
  /\ pc # "idle" => InCall
  /\ NothingLost

----------------------------------------------------------------------------
(***************************************************************************)
(* Masks and searches.                                                     *)
(***************************************************************************)

\* The zeroes after the end of the buffer set no bit: a mask is the positions of
\* the octet in the chunk.
LEMMA MaskExact ==
  ASSUME Len(buf) \in Nat, base \in Nat, NEW c \in {LF, COLON}
  PROVE  Mask(c) = {r \in Bits : At(buf, base + r) = c}
<1>1. c # 0 /\ c # Fault
  BY DEF LF, COLON, Fault
<1>2. ASSUME NEW r \in Bits
      PROVE  Loaded(r) = c <=> At(buf, base + r) = c
  <2>1. base + r \in Nat
    BY ChunkAssumption DEF Bits
  <2>2. CASE base + r < Len(buf)
    BY <2>2 DEF Loaded
  <2>3. CASE ~ (base + r < Len(buf))
    <3>1. At(buf, base + r) = Fault
      BY <2>1, <2>3 DEF At
    <3> QED
      BY <1>1, <2>3, <3>1 DEF Loaded
  <2> QED
    BY <2>2, <2>3
<1> QED
  BY <1>2 DEF Mask

\* Skipping one space before skipping white space changes nothing.
LEMMA SpaceSkipped ==
  ASSUME NEW b, NEW lo \in Nat, NEW hi \in Nat, lo < hi, At(b, lo) = SP
  PROVE  TrimLeft(b, lo + 1, hi) = TrimLeft(b, lo, hi)
<1> DEFINE x == TrimLeft(b, lo, hi)
           y == TrimLeft(b, lo + 1, hi)
<1>1. /\ x \in lo..hi
      /\ x = hi \/ At(b, x) \notin OWS
      /\ \A q \in lo..(x - 1) : At(b, q) \in OWS
  BY TrimLeftStops
<1>2. /\ y \in (lo + 1)..hi
      /\ y = hi \/ At(b, y) \notin OWS
      /\ \A q \in (lo + 1)..(y - 1) : At(b, q) \in OWS
  BY TrimLeftStops
<1>3. At(b, lo) \in OWS
  BY DEF OWS
<1> HIDE DEF x, y
<1>4. x # lo
  BY <1>1, <1>3
<1>5. ~ (x < y)
  <2>1. SUFFICES ASSUME x < y PROVE FALSE
    OBVIOUS
  <2>2. x \in (lo + 1)..(y - 1) /\ x # hi
    BY <1>1, <1>2, <1>4, <2>1
  <2> QED
    BY <1>1, <1>2, <2>2
<1>6. ~ (y < x)
  <2>1. SUFFICES ASSUME y < x PROVE FALSE
    OBVIOUS
  <2>2. y \in lo..(x - 1) /\ y # hi
    BY <1>1, <1>2, <2>1
  <2> QED
    BY <1>1, <1>2, <2>2
<1> QED
  BY <1>1, <1>2, <1>5, <1>6 DEF x, y

----------------------------------------------------------------------------
(***************************************************************************)
(* The line that the lowest bit of the mask ends.                          *)
(***************************************************************************)

\* The masks of IInv, position by position.
LEMMA MaskPositions ==
  ASSUME IInv, pc = "walk"
  PROVE  /\ \A r \in Bits : r \in nl <=> At(buf, base + r) = LF /\ base + r >= line_start
         /\ \A r \in Bits : r \in co <=> At(buf, base + r) = COLON /\ base + r >= line_start
         /\ nl \subseteq Bits /\ co \subseteq Bits
<1>1. /\ nl = Mask(LF) \cap {r \in Bits : base + r >= line_start}
      /\ co = Mask(COLON) \cap {r \in Bits : base + r >= line_start}
  BY DEF IInv, NothingLost
<1>2. /\ Mask(LF) = {r \in Bits : At(buf, base + r) = LF}
      /\ Mask(COLON) = {r \in Bits : At(buf, base + r) = COLON}
  BY MaskExact DEF IInv
<1> QED
  BY <1>1, <1>2

\* It is the first line feed from the start of the line on.
LEMMA LineEndFound ==
  ASSUME IInv, pc = "walk", nl # {}
  PROVE  /\ Min(nl) \in nl /\ Min(nl) \in Bits /\ \A r \in nl : Min(nl) <= r
         /\ LineEnd \in line_start..(Len(buf) - 1)
         /\ base <= LineEnd
         /\ At(buf, LineEnd) = LF
         /\ \A q \in line_start..(LineEnd - 1) : At(buf, q) # LF
         /\ IndexByte(buf, LF, line_start, Len(buf)) = LineEnd
<1> DEFINE m == Min(nl)
           e == LineEnd
<1>1. nl \subseteq Nat /\ base \in Nat /\ line_start \in Nat /\ Len(buf) \in Nat
  BY MaskPositions, ChunkAssumption DEF IInv, Bits
<1>2. m \in nl /\ \A r \in nl : m <= r
  BY <1>1, MinIsLeast
<1>3. m \in Bits /\ At(buf, base + m) = LF /\ base + m >= line_start
  BY <1>2, MaskPositions
<1> HIDE DEF m
<1>4. e = base + m
  BY DEF LineEnd, m
<1>5. m \in Nat
  BY <1>1, <1>2
<1> HIDE DEF e
<1>6. e \in 0..(Len(buf) - 1)
  BY <1>3, <1>4, AtPosition DEF LF, Fault
<1>7. ASSUME NEW q \in line_start..(e - 1), At(buf, q) = LF
      PROVE  FALSE
  <2>1. CASE q < base
    <3>1. q \in line_start..(base - 1)
      BY <2>1, <1>1, <1>4, <1>5
    <3> QED
      BY <3>1, <1>7 DEF IInv, NothingLost, Free
  <2>2. CASE ~ (q < base)
    <3>1. q - base \in Bits /\ base + (q - base) = q /\ q - base < m
      BY <2>2, <1>1, <1>3, <1>4, <1>5, ChunkAssumption DEF Bits
    <3>2. q - base \in nl
      BY <3>1, <1>1, <1>7, MaskPositions
    <3> QED
      BY <3>1, <3>2, <1>1, <1>2, <1>5
  <2> QED
    BY <2>1, <2>2
<1>8. e \in line_start..(Len(buf) - 1) /\ base <= e /\ At(buf, e) = LF
  BY <1>1, <1>3, <1>4, <1>5, <1>6
<1>9. IndexByte(buf, LF, line_start, Len(buf)) = e
  BY <1>1, <1>7, <1>8, FirstIsFound
<1> QED
  BY <1>2, <1>3, <1>7, <1>8, <1>9 DEF m, e

\* If the line has a colon, its first one is the one carried over or, without one,
\* the lowest bit below the line feed.
LEMMA LineColonFound ==
  ASSUME IInv, pc = "walk", nl # {},
         NEW c \in line_start..(LineEnd - 2), At(buf, c) = COLON
  PROVE  /\ LineColon \in line_start..(LineEnd - 2)
         /\ At(buf, LineColon) = COLON
         /\ IndexByte(buf, COLON, line_start, LineEnd - 1) = LineColon
<1> DEFINE m == Min(nl)
           e == LineEnd
           below == co \cap Low(m)
           k == LineColon
<1>1. /\ m \in Nat /\ m \in Bits /\ e = base + m /\ base \in Nat /\ line_start \in Nat
      /\ e \in Nat /\ line_start <= e /\ co \subseteq Bits
  BY LineEndFound, MaskPositions, ChunkAssumption DEF IInv, Bits, LineEnd
<1>2. SUFFICES ASSUME TRUE
               PROVE  /\ k \in line_start..c /\ At(buf, k) = COLON
                      /\ \A q \in line_start..(k - 1) : At(buf, q) # COLON
  <2>1. ASSUME /\ k \in line_start..c /\ At(buf, k) = COLON
               /\ \A q \in line_start..(k - 1) : At(buf, q) # COLON
        PROVE  /\ k \in line_start..(e - 2)
               /\ IndexByte(buf, COLON, line_start, e - 1) = k
    <3> HIDE DEF k, e
    <3>1. k \in line_start..((e - 1) - 1) /\ e - 1 \in Int
      BY <1>1, <2>1 DEF e
    <3>2. IndexByte(buf, COLON, line_start, e - 1) = k
      BY <1>1, <2>1, <3>1, FirstIsFound
    <3> QED
      BY <1>1, <3>1, <3>2
  <2> QED
    BY <2>1
<1>3. CASE have_colon
  <2>1. k = colon
    BY <1>3 DEF LineColon
  <2>2. /\ colon \in line_start..(base - 1) /\ At(buf, colon) = COLON
        /\ \A q \in line_start..(colon - 1) : At(buf, q) # COLON
    BY <1>3 DEF IInv, NothingLost, Free
  <2>3. ~ (c < colon)
    BY <1>1, <2>2
  <2> QED
    BY <1>1, <2>1, <2>2, <2>3
<1>4. CASE ~ have_colon
  <2>1. \A q \in line_start..(base - 1) : At(buf, q) # COLON
    BY <1>4 DEF IInv, NothingLost, Free
  <2>2. ASSUME NEW q \in line_start..c, At(buf, q) = COLON
        PROVE  q - base \in below /\ base + (q - base) = q
    <3>1. base <= q
      BY <1>1, <2>1, <2>2
    <3>2. q - base \in Bits /\ q - base \in Low(m) /\ base + (q - base) = q
      BY <1>1, <3>1, ChunkAssumption DEF Bits, Low
    <3> QED
      BY <1>1, <2>2, <3>2, MaskPositions
  <2>3. c - base \in below
    BY <1>1, <2>2
  <2>4. below \subseteq Nat /\ below \subseteq co
    <3>1. Bits \subseteq Nat
      BY ChunkAssumption DEF Bits
    <3> QED
      BY <1>1, <3>1, Zenon
  <2>5. Min(below) \in below /\ \A y \in below : Min(below) <= y
    BY <2>3, <2>4, MinIsLeast
  <2>6. k = base + Min(below)
    BY <1>4, <2>3 DEF LineColon
  <2> HIDE DEF k
  <2>7. At(buf, k) = COLON /\ k >= line_start
    BY <1>1, <2>4, <2>5, <2>6, MaskPositions
  <2>8. Min(below) \in Nat /\ Min(below) <= c - base
    BY <2>3, <2>4, <2>5
  <2>9. k \in line_start..c
    BY <1>1, <2>6, <2>7, <2>8
  <2>10. ASSUME NEW q \in line_start..(k - 1), At(buf, q) = COLON
         PROVE  FALSE
    <3>1. q \in line_start..c
      BY <1>1, <2>9
    <3>2. q - base \in below /\ base + (q - base) = q
      BY <2>2, <2>10, <3>1
    <3>3. Min(below) <= q - base
      BY <2>5, <3>2
    <3> QED
      BY <1>1, <2>6, <2>8, <3>1, <3>3
  <2> QED
    BY <2>7, <2>9, <2>10
<1> QED
  BY <1>3, <1>4 DEF IInv

\* A line after the first is blank or a header's, and the head says which.
LEMMA LineShape ==
  ASSUME IInv, pc = "walk", nl # {}, ~ first_line
  PROVE  \/ At(buf, line_start) = CR /\ LineEnd = line_start + 1
         \/ /\ At(buf, line_start) # CR /\ LineEnd # line_start + 1
            /\ \E c \in line_start..(LineEnd - 2) : At(buf, c) = COLON
            /\ \E stop \in 1..Len(buf) :
                 /\ HeadStops(is_req, buf, stop)
                 /\ BlankOrEnd(buf, stop)
                 /\ LineEnd + 1 <= stop
<1> DEFINE e == LineEnd
           s == line_start
<1>1. /\ e \in s..(Len(buf) - 1) /\ At(buf, e) = LF
      /\ \A q \in s..(e - 1) : At(buf, q) # LF
      /\ s \in Nat /\ Len(buf) \in Nat
  BY LineEndFound DEF IInv
<1>2. s >= 1 /\ At(buf, s - 1) = LF
  BY DEF IInv, InCall, AtLineStart
<1>3. PICK stop \in 1..Len(buf) :
        HeadStops(is_req, buf, stop) /\ BlankOrEnd(buf, stop) /\ s <= stop
  BY DEF IInv, InCall, AtLineStart
<1> HIDE DEF e, s
<1>4. CASE s = stop
  <2>1. At(buf, s) = CR /\ At(buf, s + 1) = LF
    BY <1>1, <1>3, <1>4 DEF BlankOrEnd
  <2>2. e # s
    BY <1>1, <2>1 DEF CR, LF
  <2>3. ~ (s + 1 < e)
    <3>1. SUFFICES ASSUME s + 1 < e PROVE FALSE
      OBVIOUS
    <3>2. s + 1 \in s..(e - 1)
      BY <1>1, <3>1
    <3> QED
      BY <1>1, <2>1, <3>2
  <2> QED
    BY <1>1, <2>1, <2>2, <2>3 DEF e, s
<1>5. CASE s # stop
  <2>1. s <= stop - 1 /\ At(buf, stop - 1) = LF
    BY <1>1, <1>3, <1>5 DEF HeadStops
  <2>2. e <= stop - 1
    <3>1. SUFFICES ASSUME ~ (e <= stop - 1) PROVE FALSE
      OBVIOUS
    <3>2. stop - 1 \in s..(e - 1)
      BY <1>1, <1>3, <2>1, <3>1
    <3> QED
      BY <1>1, <2>1, <3>2
  <2>3. s - 1 \in 0..(stop - 1) /\ e \in 0..(stop - 1) /\ s - 1 < e
    BY <1>1, <1>2, <2>2
  <2>4. /\ At(buf, (s - 1) + 1) # CR
        /\ \E c \in ((s - 1) + 1)..(e - 2) : At(buf, c) = COLON
    BY <1>1, <1>2, <1>3, <2>3 DEF HeadStops
  <2>5. (s - 1) + 1 = s
    BY <1>1
  <2>6. PICK c \in s..(e - 2) : At(buf, c) = COLON
    BY <2>4, <2>5
  <2>7. e # s + 1 /\ e + 1 <= stop
    BY <1>1, <1>3, <2>2, <2>6
  <2> QED
    BY <1>3, <2>4, <2>5, <2>6, <2>7 DEF e, s
<1> QED
  BY <1>4, <1>5

\* The first line feed ends the first line of a head.
LEMMA HeadBegins ==
  ASSUME IInv, pc = "walk", nl # {}, first_line
  PROVE  \E stop \in 1..Len(buf) :
           /\ HeadStops(is_req, buf, stop)
           /\ BlankOrEnd(buf, stop)
           /\ LineEnd + 1 <= stop
<1> DEFINE e == LineEnd
<1>1. /\ e \in 0..(Len(buf) - 1) /\ At(buf, e) = LF
      /\ \A q \in 0..(e - 1) : At(buf, q) # LF
      /\ Len(buf) \in Nat
  BY LineEndFound DEF IInv, InCall
<1> HIDE DEF e
<1>2. ~ NoLine(buf)
  BY <1>1 DEF NoLine, Free
<1>3. PICK stop \in 1..Len(buf) : HeadStops(is_req, buf, stop) /\ BlankOrEnd(buf, stop)
  BY <1>2 DEF IInv, InCall, Parsable
<1>4. At(buf, stop - 1) = LF
  BY <1>3 DEF HeadStops
<1>5. ~ (stop - 1 < e)
  <2>1. SUFFICES ASSUME stop - 1 < e PROVE FALSE
    OBVIOUS
  <2>2. stop - 1 \in 0..(e - 1)
    BY <1>1, <2>1
  <2> QED
    BY <1>1, <1>4, <2>2
<1> QED
  BY <1>1, <1>3, <1>5 DEF e

----------------------------------------------------------------------------
(***************************************************************************)
(* Steps preserve the invariant.                                           *)
(***************************************************************************)

\* Consuming the line leaves the masks exact and the next line without a colon.
LEMMA LineConsumed ==
  ASSUME IInv, pc = "walk", nl # {}, NextLine,
         UNCHANGED <<buf, is_req, pc>>, first_line' = FALSE,
         \E stop \in 1..Len(buf) :
           /\ HeadStops(is_req, buf, stop)
           /\ BlankOrEnd(buf, stop)
           /\ LineEnd + 1 <= stop
  PROVE  IInv'
<1> DEFINE m == Min(nl)
           e == LineEnd
<1>1. /\ m \in nl /\ m \in Bits /\ \A r \in nl : m <= r
      /\ e \in line_start..(Len(buf) - 1) /\ base <= e /\ At(buf, e) = LF
  BY LineEndFound
<1>2. /\ e = base + m /\ m \in Nat /\ base \in Nat /\ Len(buf) \in Nat
      /\ line_start \in Nat
  BY <1>1, ChunkAssumption DEF LineEnd, Bits, IInv
<1>3. /\ nl' = nl \ {m} /\ co' = co \ Low(m) /\ line_start' = e + 1
      /\ have_colon' = FALSE /\ base' = base /\ buf' = buf /\ pc' = pc
      /\ is_req' = is_req
  BY DEF NextLine
<1> HIDE DEF m, e
<1>4. /\ \A r \in Bits : r \in nl <=> At(buf, base + r) = LF /\ base + r >= line_start
      /\ \A r \in Bits : r \in co <=> At(buf, base + r) = COLON /\ base + r >= line_start
      /\ nl \subseteq Bits /\ co \subseteq Bits /\ Bits \subseteq Nat
  BY MaskPositions, ChunkAssumption DEF IInv, Bits
<1>5. /\ Mask(LF) = {r \in Bits : At(buf, base + r) = LF}
      /\ Mask(COLON) = {r \in Bits : At(buf, base + r) = COLON}
  BY <1>2, MaskExact
<1>6. Mask(LF)' = Mask(LF) /\ Mask(COLON)' = Mask(COLON)
  BY <1>3 DEF Mask, Loaded
<1>7. nl' = Mask(LF) \cap {r \in Bits : base + r >= e + 1}
  <2>1. ASSUME NEW r \in Bits
        PROVE  r \in nl \ {m} <=> At(buf, base + r) = LF /\ base + r >= e + 1
    <3>1. CASE r \in nl
      BY <3>1, <1>1, <1>2, <1>4
    <3>2. CASE r \notin nl
      BY <3>2, <1>1, <1>2, <1>4
    <3> QED
      BY <3>1, <3>2
  <2> QED
    BY <2>1, <1>3, <1>4, <1>5
<1>8. co' = Mask(COLON) \cap {r \in Bits : base + r >= e + 1}
  <2>1. ASSUME NEW r \in Bits
        PROVE  r \in co \ Low(m) <=> At(buf, base + r) = COLON /\ base + r >= e + 1
    <3>1. r \in Nat /\ (r \in Low(m) <=> r < m)
      BY <1>2, <1>4 DEF Low
    <3>2. At(buf, base + r) = COLON => r # m
      BY <1>1, <1>2 DEF COLON, LF
    <3> QED
      BY <3>1, <3>2, <1>1, <1>2, <1>4
  <2> QED
    BY <2>1, <1>3, <1>4, <1>5
<1>9. NothingLost'
  <2>1. Free(buf, e + 1, base, {LF}) /\ Free(buf, e + 1, base, {COLON})
    BY <1>1, <1>2 DEF Free
  <2> QED
    BY <1>3, <1>6, <1>7, <1>8, <2>1 DEF NothingLost
<1>10. AtLineStart'
  <2>1. e + 1 >= 1 /\ (e + 1) - 1 = e
    BY <1>1, <1>2
  <2> QED
    BY <1>1, <1>3, <2>1 DEF AtLineStart, e
<1>11. e + 1 \in Nat /\ e + 1 <= base + Chunk
  BY <1>1, <1>2, ChunkAssumption DEF Bits
<1>12. InCall'
  BY <1>3, <1>10, <1>11 DEF IInv, InCall
<1>13. /\ Len(buf)' \in Nat /\ base' \in Nat /\ line_start' \in Nat
       /\ pc' = "walk" /\ have_colon' \in BOOLEAN /\ first_line' \in BOOLEAN
  BY <1>2, <1>3, <1>11
<1> QED
  BY <1>9, <1>12, <1>13 DEF IInv

\* A call starts at the start of its buffer with an empty walk.
LEMMA CallStep ==
  ASSUME IInv, NEW i \in Inputs, Call(i)
  PROVE  IInv'
<1>1. /\ Parsable(i.is_req, i.buf) /\ Len(i.buf) \in Nat
  BY InputsAssumption, LenProperties
<1>2. /\ base' = 0 /\ line_start' = 0 /\ have_colon' = FALSE /\ first_line' = TRUE
      /\ pc' = "chunk" /\ buf' = i.buf /\ is_req' = i.is_req
  BY DEF Call, IInv, Idle, masks, line
<1>3. NothingLost'
  BY <1>2 DEF NothingLost, Free
<1>4. AtLineStart'
  BY <1>2 DEF AtLineStart
<1>5. InCall'
  BY <1>1, <1>2, <1>4 DEF InCall
<1>6. /\ Len(buf)' \in Nat /\ pc' = "chunk" /\ base' \in Nat /\ line_start' \in Nat
      /\ have_colon' \in BOOLEAN /\ first_line' \in BOOLEAN
  BY <1>1, <1>2
<1> QED
  BY <1>3, <1>5, <1>6 DEF IInv

\* A return leaves no scan in progress.
LEMMA ReturnStep ==
  ASSUME IInv, NEW body, Return(body), UNCHANGED buf
  PROVE  IInv'
<1>1. Idle' /\ pc' = "idle" /\ NothingLost'
  BY DEF Return, Idle, NothingLost
<1> QED
  BY <1>1 DEF IInv, Idle

\* The masks of a chunk have the bits of its line feeds and colons.
LEMMA LoadChunkStep ==
  ASSUME IInv, LoadChunk
  PROVE  IInv'
<1>1. /\ pc = "chunk" /\ base < Len(buf) /\ pc' = "walk"
      /\ nl' = Mask(LF) /\ co' = Mask(COLON)
      /\ buf' = buf /\ is_req' = is_req /\ base' = base /\ line_start' = line_start
      /\ have_colon' = have_colon /\ first_line' = first_line /\ colon' = colon
  BY DEF LoadChunk, line
<1>2. line_start <= base /\ line_start \in Nat /\ base \in Nat /\ Bits \subseteq Nat
  BY <1>1, ChunkAssumption DEF IInv, InCall, Bits
<1>3. {r \in Bits : base + r >= line_start} = Bits
  <2>1. \A r \in Bits : base + r >= line_start
    BY <1>2
  <2> QED
    BY <2>1
<1>4. /\ Mask(LF)' = Mask(LF) /\ Mask(COLON)' = Mask(COLON)
      /\ Mask(LF) \subseteq Bits /\ Mask(COLON) \subseteq Bits
  BY <1>1 DEF Mask, Loaded
<1>5. NothingLost'
  BY <1>1, <1>3, <1>4 DEF IInv, NothingLost
<1>6. AtLineStart'
  BY <1>1 DEF IInv, InCall, AtLineStart
<1>7. line_start <= base + Chunk
  BY <1>2, ChunkAssumption
<1>8. InCall'
  BY <1>1, <1>6, <1>7 DEF IInv, InCall
<1>9. /\ Len(buf)' \in Nat /\ base' \in Nat /\ line_start' \in Nat
      /\ have_colon' \in BOOLEAN /\ first_line' \in BOOLEAN
  BY <1>1 DEF IInv
<1> QED
  BY <1>1, <1>5, <1>8, <1>9 DEF IInv

\* A chunk without a line feed left: what was seen of the line is seen of more of it.
LEMMA NextChunkStep ==
  ASSUME IInv, NextChunk
  PROVE  IInv'
<1> DEFINE next == base + Chunk
<1>1. /\ pc = "walk" /\ nl = {} /\ pc' = "chunk" /\ base' = next
      /\ SeeColon(co)
      /\ buf' = buf /\ is_req' = is_req /\ line_start' = line_start
      /\ first_line' = first_line
  BY DEF NextChunk, NextBase
<1>2. /\ base \in Nat /\ line_start \in Nat /\ Chunk \in Nat \ {0} /\ Bits \subseteq Nat
      /\ next \in Nat /\ base < next
  BY ChunkAssumption DEF IInv, Bits
<1>3. /\ \A r \in Bits : r \in nl <=> At(buf, base + r) = LF /\ base + r >= line_start
      /\ \A r \in Bits : r \in co <=> At(buf, base + r) = COLON /\ base + r >= line_start
      /\ co \subseteq Bits
  BY <1>1, MaskPositions
<1>4. ASSUME NEW q \in base..(next - 1)
      PROVE  q - base \in Bits /\ base + (q - base) = q
  BY <1>2 DEF Bits
<1>5. /\ \A q \in line_start..(base - 1) : At(buf, q) # LF
      /\ ~ have_colon => \A q \in line_start..(base - 1) : At(buf, q) # COLON
      /\ have_colon => /\ colon \in line_start..(base - 1) /\ At(buf, colon) = COLON
                       /\ \A q \in line_start..(colon - 1) : At(buf, q) # COLON
  BY <1>1 DEF IInv, NothingLost, Free
<1> HIDE DEF next
<1>6. ASSUME NEW q \in line_start..(next - 1)
      PROVE  At(buf, q) # LF
  <2>1. CASE q < base
    BY <2>1, <1>2, <1>5
  <2>2. CASE ~ (q < base)
    BY <2>2, <1>1, <1>2, <1>3, <1>4
  <2> QED
    BY <2>1, <2>2
\* The colon known afterwards is the first of the longer part of the line.
<1>7. /\ have_colon' \in BOOLEAN
      /\ ~ have_colon' => \A q \in line_start..(next - 1) : At(buf, q) # COLON
      /\ have_colon' => /\ colon' \in line_start..(next - 1) /\ At(buf, colon') = COLON
                        /\ \A q \in line_start..(colon' - 1) : At(buf, q) # COLON
  <2>1. CASE have_colon
    BY <2>1, <1>1, <1>2, <1>5 DEF SeeColon
  <2>2. CASE ~ have_colon /\ co = {}
    <3>1. have_colon' = FALSE
      BY <2>2, <1>1 DEF SeeColon, IInv
    <3>2. ASSUME NEW q \in line_start..(next - 1)
          PROVE  At(buf, q) # COLON
      <4>1. CASE q < base
        BY <4>1, <2>2, <1>2, <1>5
      <4>2. CASE ~ (q < base)
        BY <4>2, <2>2, <1>2, <1>3, <1>4
      <4> QED
        BY <4>1, <4>2
    <3> QED
      BY <3>1, <3>2
  <2>3. CASE ~ have_colon /\ co # {}
    <3> DEFINE m == Min(co)
    <3>1. co \subseteq Nat
      BY <1>2, <1>3
    <3>2. m \in co /\ \A y \in co : m <= y
      BY <2>3, <3>1, MinIsLeast
    <3> HIDE DEF m
    <3>3. m \in Nat /\ m \in Bits /\ m < Chunk
      BY <1>2, <1>3, <3>2 DEF Bits
    <3>4. colon' = base + m /\ have_colon' = TRUE
      BY <2>3, <1>1 DEF SeeColon, m
    <3>5. At(buf, base + m) = COLON /\ base + m >= line_start
      BY <1>3, <3>2, <3>3
    <3> DEFINE k == base + m
    <3>6. ASSUME NEW q \in line_start..(k - 1), At(buf, q) = COLON
          PROVE  FALSE
      <4>1. ~ (q < base)
        BY <2>3, <3>6, <1>2, <1>5
      <4>2. q \in base..(next - 1)
        BY <4>1, <1>2, <3>3 DEF next
      <4>3. q - base \in co
        BY <4>2, <3>6, <1>3, <1>4, <1>2
      <4>4. m <= q - base
        BY <4>3, <3>2
      <4> QED
        BY <4>2, <4>4, <1>2, <3>3
    <3>7. k \in line_start..(next - 1)
      BY <3>3, <3>5, <1>2 DEF next
    <3>8. colon' = k /\ At(buf, k) = COLON
      BY <3>4, <3>5
    <3> HIDE DEF k
    <3> QED
      BY <3>4, <3>6, <3>7, <3>8
  <2> QED
    BY <2>1, <2>2, <2>3
<1>8. NothingLost'
  <2>1. /\ pc' = "chunk" /\ base' = next /\ buf' = buf /\ line_start' = line_start
        /\ Free(buf, line_start, next, {LF})
        /\ have_colon' <=> ~ Free(buf, line_start, next, {COLON})
        /\ have_colon' => Free(buf, line_start, colon', {COLON})
    BY <1>1, <1>6, <1>7 DEF Free
  <2> QED
    BY <2>1, <1>7 DEF NothingLost
<1>9. line_start <= next
  BY <1>1 DEF IInv, InCall, next
<1> QED
  BY <1>1, <1>2, <1>7, <1>8, <1>9 DEF IInv, InCall, AtLineStart

\* No scan is in progress at first.
LEMMA InitHolds == Init => IInv
<1>1. Init => Idle /\ NothingLost /\ Len(buf) \in Nat
  BY DEF Init, Idle, NothingLost
<1> QED
  BY <1>1 DEF Init, IInv

\* Every step of a scan keeps the invariant.
LEMMA ParseStep ==
  ASSUME IInv, Parse
  PROVE  IInv'
<1>1. CASE LoadChunk
  BY <1>1, LoadChunkStep
<1>2. CASE NextChunk
  BY <1>2, NextChunkStep
<1>3. CASE EndOfBuffer
  BY <1>3, ReturnStep DEF EndOfBuffer
<1>4. CASE FirstLine
  BY <1>4, HeadBegins, LineConsumed DEF FirstLine
<1>5. CASE BlankLine
  BY <1>5, ReturnStep DEF BlankLine
<1>6. CASE HeaderLine
  <2>1. /\ pc = "walk" /\ nl # {} /\ ~ first_line /\ LineEnd # line_start + 1
        /\ NextLine /\ UNCHANGED <<buf, is_req, pc>> /\ first_line' = first_line
    BY <1>6 DEF HeaderLine
  <2>2. first_line' = FALSE
    BY <2>1 DEF IInv
  <2> QED
    BY <2>1, <2>2, LineShape, LineConsumed
<1> QED
  BY <1>1, <1>2, <1>3, <1>4, <1>5, <1>6 DEF Parse

\* The invariant holds in every state.
LEMMA InvariantHolds == Safety => []IInv
<1>1. IInv /\ [Next]_vars => IInv'
  <2> SUFFICES ASSUME IInv, [Next]_vars
               PROVE  IInv'
    OBVIOUS
  <2>1. CASE Next
    BY <2>1, CallStep, ParseStep DEF Next
  <2>2. CASE UNCHANGED vars
    <3>1. /\ buf' = buf /\ is_req' = is_req /\ pc' = pc /\ base' = base /\ nl' = nl
          /\ co' = co /\ line_start' = line_start /\ colon' = colon
          /\ have_colon' = have_colon /\ first_line' = first_line
      BY <2>2 DEF vars, masks, line
    <3> QED
      BY <3>1 DEF IInv, Idle, InCall, AtLineStart, NothingLost, Mask, Loaded
  <2> QED
    BY <2>1, <2>2
<1> QED
  BY <1>1, InitHolds, PTL DEF Safety

\* At the edge of a chunk no line feed was passed over, and the first colon of the
\* unfinished line is known if the line has had one.
THEOREM NothingIsLost == Safety => []NothingLost
<1>1. IInv => NothingLost
  BY DEF IInv
<1> QED
  BY <1>1, InvariantHolds, PTL

----------------------------------------------------------------------------
(***************************************************************************)
(* Each step is a step of the scalar parser, or none.                      *)
(***************************************************************************)

\* Both modules use the operators of HttpBytes and HttpMsg.
LEMMA SameOperators ==
  /\ \A b, c, lo, hi : Scalar!IndexByte(b, c, lo, hi) = IndexByte(b, c, lo, hi)
  /\ \A b, lo, hi : Scalar!Trim(b, lo, hi) = Trim(b, lo, hi)
  /\ \A b, q : Scalar!At(b, q) = At(b, q)
  /\ \A lo, hi : Scalar!Slice(lo, hi) = Slice(lo, hi)
  /\ \A m, r, b, le : Scalar!PutFirstLine(m, r, b, le) = PutFirstLine(m, r, b, le)
  /\ \A m, k, h : Scalar!PutHeader(m, k, h) = PutHeader(m, k, h)
  /\ \A m, k, body : Scalar!Finish(m, k, body) = Finish(m, k, body)
  /\ Scalar!NilMessage = NilMessage
  /\ Scalar!LF = LF /\ Scalar!CR = CR /\ Scalar!COLON = COLON
<1>1. /\ Scalar!LF = LF /\ Scalar!CR = CR /\ Scalar!COLON = COLON
      /\ Scalar!SP = SP /\ Scalar!ZERO = ZERO /\ Scalar!OWS = OWS
  BY DEF Scalar!LF, LF, Scalar!CR, CR, Scalar!COLON, COLON, Scalar!SP, SP,
         Scalar!ZERO, ZERO, Scalar!OWS, OWS, Scalar!HT, HT
<1>2. \A b, q : Scalar!At(b, q) = At(b, q)
  BY DEF Scalar!At, At, Scalar!Fault, Fault
<1>3. \A lo, hi : Scalar!Slice(lo, hi) = Slice(lo, hi)
  BY DEF Scalar!Slice, Slice
<1>4. \A b, c, lo, hi : Scalar!IndexByte(b, c, lo, hi) = IndexByte(b, c, lo, hi)
  BY DEF Scalar!IndexByte, IndexByte, Scalar!At, At, Scalar!Fault, Fault
<1>5. \A b, lo, hi : Scalar!Trim(b, lo, hi) = Trim(b, lo, hi)
  <2>1. \A b, lo, hi : Scalar!TrimLeft(b, lo, hi) = TrimLeft(b, lo, hi)
    BY <1>1, <1>2 DEF Scalar!TrimLeft, TrimLeft
  <2>2. \A b, lo, hi : Scalar!TrimRight(b, lo, hi) = TrimRight(b, lo, hi)
    BY <1>1, <1>2 DEF Scalar!TrimRight, TrimRight
  <2> QED
    BY <1>3, <2>1, <2>2 DEF Scalar!Trim, Trim
<1>6. \A m, r, b, le : Scalar!PutFirstLine(m, r, b, le) = PutFirstLine(m, r, b, le)
  <2>1. \A m, b, le : Scalar!RequestLine(m, b, le) = RequestLine(m, b, le)
    BY <1>1, <1>3, <1>4 DEF Scalar!RequestLine, RequestLine
  <2>2. \A b, q : Scalar!StatusCode(b, q) = StatusCode(b, q)
    BY <1>1, <1>2 DEF Scalar!StatusCode, StatusCode
  <2>3. \A m, b, le : Scalar!StatusLine(m, b, le) = StatusLine(m, b, le)
    BY <1>1, <1>3, <1>4, <2>2 DEF Scalar!StatusLine, StatusLine
  <2> QED
    BY <2>1, <2>3 DEF Scalar!PutFirstLine, PutFirstLine
<1>7. \A m, k, h : Scalar!PutHeader(m, k, h) = PutHeader(m, k, h)
  BY DEF Scalar!PutHeader, PutHeader
<1>8. \A m, k, body : Scalar!Finish(m, k, body) = Finish(m, k, body)
  BY DEF Scalar!Finish, Finish
<1>9. Scalar!NilMessage = NilMessage
  BY DEF Scalar!NilMessage, NilMessage, Scalar!NilHeader, NilHeader, Scalar!Nil, Nil,
         Scalar!Slice, Slice
<1> QED
  BY <1>1, <1>2, <1>3, <1>4, <1>5, <1>6, <1>7, <1>8, <1>9

\* The value is the same whether or not a single space is skipped first.
LEMMA SameValue ==
  ASSUME NEW lo \in Nat, NEW hi \in Nat, lo <= hi
  PROVE  Trim(buf, SkipSpace(lo, hi), hi) = Trim(buf, lo, hi)
<1>1. CASE lo < hi /\ At(buf, lo) = SP
  BY <1>1, SpaceSkipped DEF SkipSpace, Trim
<1>2. CASE ~ (lo < hi /\ At(buf, lo) = SP)
  BY <1>2 DEF SkipSpace
<1> QED
  BY <1>1, <1>2

\* The first line of the walk is the first line of the scalar scan.
LEMMA FirstLineRefines ==
  ASSUME IInv, FirstLine
  PROVE  Scalar!FirstLine
<1>1. /\ pc = "walk" /\ nl # {} /\ first_line = TRUE
      /\ out' = PutFirstLine(out, is_req, buf, LineEnd - 1)
      /\ first_line' = FALSE /\ pc' = pc /\ line_start' = LineEnd + 1
      /\ UNCHANGED <<buf, is_req, n, calls>>
  BY DEF FirstLine, NextLine, IInv
<1>2. /\ IndexByte(buf, LF, 0, Len(buf)) = LineEnd
      /\ LineEnd >= 0
  BY <1>1, LineEndFound DEF IInv, InCall
<1> QED
  BY <1>1, <1>2, SameOperators DEF Scalar!FirstLine

\* The blank line of the walk is that of the scalar scan.
LEMMA BlankLineRefines ==
  ASSUME IInv, BlankLine
  PROVE  Scalar!BlankLine
<1>1. /\ pc = "walk" /\ nl # {} /\ first_line = FALSE /\ LineEnd = line_start + 1
      /\ Return(Slice(LineEnd + 1, Len(buf))) /\ UNCHANGED <<buf, is_req, calls>>
  BY DEF BlankLine, IInv
<1>2. At(buf, line_start) = CR
  BY <1>1, LineShape
<1>3. /\ line_start \in Nat /\ Len(buf) \in Nat
      /\ LineEnd \in line_start..(Len(buf) - 1)
  BY <1>1, LineEndFound DEF IInv
<1>4. line_start < Len(buf) /\ LineEnd + 1 = line_start + 2
  BY <1>1, <1>3
<1>5. Scalar!Return(Slice(line_start + 2, Len(buf)))
  BY <1>1, <1>4, SameOperators DEF Return, Scalar!Return
<1> QED
  BY <1>1, <1>2, <1>4, <1>5, SameOperators DEF Scalar!BlankLine

\* A header line of the walk is one of the scalar scan.
LEMMA HeaderLineRefines ==
  ASSUME IInv, HeaderLine
  PROVE  Scalar!HeaderLine
<1> DEFINE hle == LineEnd - 1
           h == [name  |-> Slice(line_start, LineColon),
                 value |-> Trim(buf, LineColon + 1, hle)]
<1>1. /\ pc = "walk" /\ nl # {} /\ first_line = FALSE /\ LineEnd # line_start + 1
      /\ out' = PutHeader(out, n,
                  [name  |-> Slice(line_start, LineColon),
                   value |-> Trim(buf, SkipSpace(LineColon + 1, hle), hle)])
      /\ n' = n + 1 /\ line_start' = LineEnd + 1
      /\ UNCHANGED <<buf, is_req, pc, first_line, calls>>
  BY DEF HeaderLine, NextLine, IInv
<1>2. /\ line_start \in Nat /\ Len(buf) \in Nat
      /\ LineEnd \in line_start..(Len(buf) - 1)
      /\ IndexByte(buf, LF, line_start, Len(buf)) = LineEnd
  BY <1>1, LineEndFound DEF IInv
<1>3. PICK c \in line_start..(LineEnd - 2) : At(buf, c) = COLON
  BY <1>1, LineShape
<1>4. /\ LineColon \in line_start..(LineEnd - 2)
      /\ IndexByte(buf, COLON, line_start, LineEnd - 1) = LineColon
  BY <1>1, <1>3, LineColonFound
<1>5. LineColon + 1 \in Nat /\ hle \in Nat /\ LineColon + 1 <= hle
  BY <1>2, <1>4
<1>6. out' = PutHeader(out, n, h)
  BY <1>1, <1>5, SameValue
<1>7. line_start < Len(buf) /\ At(buf, line_start) # CR
  BY <1>1, <1>2, LineShape
<1>8. Scalar!NextLine(LineEnd)
  BY <1>1 DEF Scalar!NextLine
<1> QED
  BY <1>1, <1>2, <1>4, <1>6, <1>7, <1>8, SameOperators DEF Scalar!HeaderLine

\* Past the last chunk: there was no line at all, or the last header line ends the
\* buffer, so that the scalar parser stops there too.
LEMMA EndOfBufferRefines ==
  ASSUME IInv, EndOfBuffer
  PROVE  Scalar!NoFirstLine \/ Scalar!EndOfBuffer
<1>1. /\ pc = "chunk" /\ base >= Len(buf) /\ Return(Slice(Len(buf), Len(buf)))
      /\ UNCHANGED <<buf, is_req, calls>>
  BY DEF EndOfBuffer
<1>2. /\ Len(buf) \in Nat /\ base \in Nat /\ line_start \in Nat
      /\ first_line \in BOOLEAN
  BY DEF IInv
<1>3. \A q \in line_start..(Len(buf) - 1) : At(buf, q) # LF
  <2>1. \A q \in line_start..(base - 1) : At(buf, q) # LF
    BY <1>1 DEF IInv, NothingLost, Free
  <2> QED
    BY <1>1, <1>2, <2>1
<1>4. CASE first_line = TRUE
  <2>1. line_start = 0
    BY <1>1, <1>4 DEF IInv, InCall
  <2>2. IndexByte(buf, LF, 0, Len(buf)) = -1
    <3>1. ~ \E q \in 0..(Len(buf) - 1) : At(buf, q) = LF
      BY <1>3, <2>1
    <3> QED
      BY <3>1 DEF IndexByte
  <2>3. Scalar!Return(Slice(Len(buf), Len(buf)))
    BY <1>1, SameOperators DEF Return, Scalar!Return
  <2> QED
    BY <1>1, <1>4, <2>2, <2>3, SameOperators DEF Scalar!NoFirstLine
<1>5. CASE first_line = FALSE
  <2>1. PICK stop \in 1..Len(buf) :
          HeadStops(is_req, buf, stop) /\ BlankOrEnd(buf, stop) /\ line_start <= stop
    BY <1>1, <1>5 DEF IInv, InCall, AtLineStart
  <2>2. line_start = stop
    <3>1. At(buf, stop - 1) = LF
      BY <2>1 DEF HeadStops
    <3> QED
      BY <1>2, <1>3, <2>1, <3>1
  <2>3. stop = Len(buf)
    <3>1. SUFFICES ASSUME stop # Len(buf) PROVE FALSE
      OBVIOUS
    <3>2. At(buf, stop + 1) = LF
      BY <2>1, <3>1 DEF BlankOrEnd
    <3>3. stop + 1 \in 0..(Len(buf) - 1)
      BY <3>2, AtPosition DEF LF, Fault
    <3> QED
      BY <1>2, <1>3, <2>2, <3>2, <3>3
  <2>4. Scalar!Return(Slice(line_start, Len(buf)))
    BY <1>1, <2>2, <2>3, SameOperators DEF Return, Scalar!Return
  <2> QED
    BY <1>1, <1>2, <1>5, <2>2, <2>3, <2>4, SameOperators DEF Scalar!EndOfBuffer
<1> QED
  BY <1>2, <1>4, <1>5

\* cfast-simd.c implements cfast.c on every input both may be given, for every
\* chunk width: the steps of the chunks are invisible, every other step is the
\* scalar parser's on the same line, with the same message afterwards.
THEOREM SimdImplementsScalar == Safety => AgreesWithScalar
<1>1. Init => Scalar!Init
  BY SameOperators DEF Init, Scalar!Init
<1>2. IInv /\ [Next]_vars => [Scalar!Next]_Scalar!vars
  <2> SUFFICES ASSUME IInv, [Next]_vars
               PROVE  [Scalar!Next]_Scalar!vars
    OBVIOUS
  <2>1. ASSUME NEW i \in Inputs, Call(i)
        PROVE  Scalar!Call(i)
    <3>1. /\ pc = "idle" /\ calls < MaxCalls /\ buf' = i.buf /\ is_req' = i.is_req
          /\ pc' = "chunk" /\ calls' = calls + 1 /\ out' = out
          /\ line_start' = line_start /\ n' = n /\ first_line' = TRUE
      BY <2>1 DEF Call, line, IInv, Idle
    <3> QED
      BY <3>1 DEF Scalar!Call
  <2>2. CASE LoadChunk \/ NextChunk
    <3>1. /\ buf' = buf /\ is_req' = is_req /\ out' = out /\ n' = n /\ calls' = calls
          /\ line_start' = line_start /\ first_line' = first_line
          /\ pc # "idle" /\ pc' # "idle"
      BY <2>2 DEF LoadChunk, NextChunk, line
    <3> QED
      BY <3>1 DEF Scalar!vars
  <2>3. CASE EndOfBuffer
    BY <2>3, EndOfBufferRefines DEF Scalar!Next, Scalar!Parse
  <2>4. CASE FirstLine
    BY <2>4, FirstLineRefines DEF Scalar!Next, Scalar!Parse
  <2>5. CASE BlankLine
    BY <2>5, BlankLineRefines DEF Scalar!Next, Scalar!Parse
  <2>6. CASE HeaderLine
    BY <2>6, HeaderLineRefines DEF Scalar!Next, Scalar!Parse
  <2>7. CASE UNCHANGED vars
    BY <2>7 DEF vars, masks, line, Scalar!vars
  <2> QED
    BY <2>1, <2>2, <2>3, <2>4, <2>5, <2>6, <2>7 DEF Next, Parse, Scalar!Next
<1> QED
  BY <1>1, <1>2, InvariantHolds, PTL DEF Safety, AgreesWithScalar, Scalar!Safety
----------------------------------------------------------------------------
(***************************************************************************)
(* Type correctness.                                                       *)
(***************************************************************************)

\* A first line that has the spaces and digits parse expects is stored as slices
\* and a number: no search for a space fails that the code does not test.
LEMMA FirstLineTyped ==
  ASSUME NEW m \in Message, NEW r \in BOOLEAN, NEW b, NEW le \in Int,
         ReadableLine(r, b, le)
  PROVE  PutFirstLine(m, r, b, le) \in Message
<1> DEFINE sp1 == IndexByte(b, SP, 0, le)
           sp2 == IndexByte(b, SP, sp1 + 1, le)
<1>1. \/ sp1 = -1 /\ \A q \in 0..(le - 1) : At(b, q) # SP
      \/ sp1 \in 0..(le - 1) /\ \A q \in 0..(sp1 - 1) : At(b, q) # SP
  BY IndexByteFirst
<1>2. sp1 >= 0 => \/ sp2 = -1 /\ \A q \in (sp1 + 1)..(le - 1) : At(b, q) # SP
                  \/ sp2 \in (sp1 + 1)..(le - 1)
  <2> HIDE DEF sp1
  <2>1. sp1 >= 0 => sp1 + 1 \in Nat
    BY <1>1
  <2> QED
    BY <2>1, IndexByteFirst
<1>3. CASE r = TRUE
  <2>1. PICK p \in 0..(le - 1), q \in 0..(le - 1) : p < q /\ At(b, p) = SP /\ At(b, q) = SP
    BY <1>3 DEF ReadableLine
  <2> HIDE DEF sp1, sp2
  <2>2. sp1 \in 0..(le - 1) /\ sp1 <= p
    BY <1>1, <2>1
  <2>3. q \in (sp1 + 1)..(le - 1)
    BY <2>1, <2>2
  <2>4. sp2 \in (sp1 + 1)..(le - 1)
    BY <1>2, <2>1, <2>2, <2>3
  <2>5. /\ Slice(0, sp1) \in Slices /\ Slice(sp1 + 1, sp2) \in Slices
        /\ Slice(sp2 + 1, le) \in Slices
    BY <2>1, <2>2, <2>4 DEF Slice, Slices
  <2>6. RequestLine(m, b, le) \in Message
    BY <2>5 DEF RequestLine, Message, sp1, sp2
  <2> QED
    BY <1>3, <2>6 DEF PutFirstLine
<1>4. CASE r = FALSE
  <2>1. PICK p \in 0..(le - 4) :
          /\ Free(b, 0, p, {SP}) /\ At(b, p) = SP
          /\ \A i \in 1..3 : At(b, p + i) \in ZERO..NINE
    BY <1>4 DEF ReadableLine
  <2>2. sp1 = p
    <3>1. p \in 0..(le - 1) /\ \A q \in 0..(p - 1) : At(b, q) # SP
      BY <2>1 DEF Free
    <3> QED
      BY <2>1, <3>1, FirstIsFound
  <2>3. At(b, p + 1) \in 48..57 /\ At(b, p + 2) \in 48..57 /\ At(b, p + 3) \in 48..57
    BY <2>1 DEF ZERO, NINE
  <2>4. StatusCode(b, p + 1) \in Nat
    <3>1. (p + 1) + 1 = p + 2 /\ (p + 1) + 2 = p + 3
      OBVIOUS
    <3>2. ASSUME NEW x \in 48..57, NEW y \in 48..57, NEW z \in 48..57
          PROVE  100 * (x - 48) + 10 * (y - 48) + (z - 48) \in Nat
      OBVIOUS
    <3> QED
      BY <2>3, <3>1, <3>2 DEF StatusCode, ZERO
  <2> HIDE DEF sp1, sp2
  <2>5. /\ Slice(0, sp1) \in Slices /\ Slice(le, le) \in Slices
        /\ sp2 >= 0 => Slice(sp2 + 1, le) \in Slices
    BY <1>2, <2>2 DEF Slice, Slices
  <2>6. StatusLine(m, b, le) \in Message
    BY <2>2, <2>4, <2>5 DEF StatusLine, Message, sp1, sp2
  <2> QED
    BY <1>4, <2>6 DEF PutFirstLine
<1> QED
  BY <1>3, <1>4

\* A header that is stored is a header, and the others are left as they are.
LEMMA HeaderTyped ==
  ASSUME NEW m \in Message, NEW k \in Nat, NEW h \in Header
  PROVE  PutHeader(m, k, h) \in Message
<1>1. CASE k < MAXH
  <2>1. k + 1 \in 1..MAXH
    BY <1>1, MAXHAssumption
  <2>2. [m.headers EXCEPT ![k + 1] = h] \in [1..MAXH -> Header]
    BY <2>1 DEF Message
  <2>3. PutHeader(m, k, h) = [m EXCEPT !.headers = [m.headers EXCEPT ![k + 1] = h]]
    BY <1>1 DEF PutHeader, Message
  <2> QED
    BY <2>2, <2>3 DEF Message
<1>2. CASE ~ (k < MAXH)
  BY <1>2 DEF PutHeader
<1> QED
  BY <1>1, <1>2

\* What is left of a call when it has returned starts the next one: a colon of the
\* last buffer may lie past the end of the next.
TInv ==
  /\ TypeOK
  /\ pc = "idle" => colon = 0

\* A line that was consumed: all but the message it stored.
LEMMA LineConsumedTyped ==
  ASSUME IInv, TypeOK, pc = "walk", nl # {}, NextLine,
         UNCHANGED <<buf, is_req, pc, calls>>, first_line' = FALSE,
         out' \in Message, n' \in Nat
  PROVE  TInv'
<1> DEFINE m == Min(nl)
           below == co \cap Low(m)
<1>1. /\ nl \subseteq Bits /\ co \subseteq Bits /\ Bits \subseteq Nat
      /\ base \in Nat /\ Len(buf) \in Nat
  BY MaskPositions, ChunkAssumption DEF IInv, Bits
<1>2. LineEnd \in line_start..(Len(buf) - 1) /\ line_start \in Nat
  BY LineEndFound DEF IInv
<1>3. LineColon \in 0..Len(buf)
  <2>1. CASE ~ have_colon /\ below # {}
    <3>1. below \subseteq Nat
      BY <1>1
    <3>2. Min(below) \in below
      BY <2>1, <3>1, MinIsLeast
    <3> DEFINE k == Min(below)
    <3>3. k \in Bits /\ k \in co
      BY <1>1, <3>2
    <3> HIDE DEF k
    <3>4. At(buf, base + k) = COLON
      BY <3>3, MaskPositions
    <3>5. base + k \in 0..(Len(buf) - 1)
      BY <3>4, AtPosition DEF COLON, Fault
    <3>6. LineColon = base + k
      BY <2>1 DEF LineColon, k
    <3> QED
      BY <1>1, <3>5, <3>6
  <2>2. CASE ~ (~ have_colon /\ below # {})
    BY <2>2 DEF LineColon, TypeOK
  <2> QED
    BY <2>1, <2>2
<1>4. /\ nl' \subseteq Bits /\ co' \subseteq Bits /\ line_start' = LineEnd + 1
      /\ colon' = LineColon /\ have_colon' = FALSE /\ base' = base
  BY <1>1 DEF NextLine
<1>5. line_start' \in 0..Len(buf)
  BY <1>1, <1>2, <1>4
<1>6. Bits' = Bits
  BY DEF Bits
<1> QED
  BY <1>3, <1>4, <1>5, <1>6 DEF TInv, TypeOK

\* Every step keeps the types.
LEMMA TypeStep ==
  ASSUME IInv, TInv, [Next]_vars
  PROVE  TInv'
<1>1. ASSUME NEW i \in Inputs, Call(i)
      PROVE  TInv'
  <2>1. i.is_req \in BOOLEAN /\ i.buf \in Seq(Octet) /\ Len(i.buf) \in Nat
    BY InputsAssumption, LenProperties
  <2>2. /\ pc = "idle" /\ calls < MaxCalls /\ buf' = i.buf /\ is_req' = i.is_req
        /\ pc' = "chunk" /\ calls' = calls + 1 /\ out' = out
        /\ UNCHANGED <<base, nl, co, line_start, colon, have_colon, first_line, n>>
    BY <1>1 DEF Call, masks, line
  <2>3. line_start = 0 /\ colon = 0
    BY <2>2 DEF IInv, Idle, TInv
  <2>4. calls' \in 0..MaxCalls
    BY <2>2, MaxCallsAssumption DEF TInv, TypeOK
  <2>5. 0 \in 0..Len(i.buf)
    BY <2>1
  <2> QED
    BY <2>1, <2>2, <2>3, <2>4, <2>5 DEF TInv, TypeOK, Bits
<1>2. ASSUME NEW body \in Slices, Return(body), UNCHANGED <<buf, is_req, calls>>
      PROVE  TInv'
  <2>1. Finish(out, n, body) \in Message
    BY <1>2 DEF Finish, Message, TInv, TypeOK
  <2>2. 0 \in 0..Len(buf)
    BY DEF IInv
  <2> QED
    BY <1>2, <2>1, <2>2 DEF Return, TInv, TypeOK
<1>3. CASE LoadChunk
  <2>1. Mask(LF) \subseteq Bits /\ Mask(COLON) \subseteq Bits
    BY DEF Mask
  <2> QED
    BY <1>3, <2>1 DEF LoadChunk, line, TInv, TypeOK, Bits
<1>4. CASE NextChunk
  <2>1. /\ pc = "walk" /\ SeeColon(co) /\ base' = base + Chunk /\ pc' = "chunk"
        /\ nl' = {} /\ co' = {}
        /\ UNCHANGED <<buf, is_req, out, line_start, first_line, n, calls>>
    BY <1>4 DEF NextChunk, NextBase
  <2>2. base' \in Nat
    BY <2>1, ChunkAssumption DEF IInv
  <2>3. have_colon' \in BOOLEAN /\ colon' \in 0..Len(buf)
    <3>1. CASE ~ have_colon /\ co # {}
      <4> DEFINE k == Min(co)
      <4>1. co \subseteq Bits /\ Bits \subseteq Nat /\ base \in Nat /\ Len(buf) \in Nat
        BY <2>1, MaskPositions, ChunkAssumption DEF IInv, Bits
      <4>2. k \in co
        BY <3>1, <4>1, MinIsLeast
      <4> HIDE DEF k
      <4>3. At(buf, base + k) = COLON
        BY <2>1, <4>1, <4>2, MaskPositions
      <4>4. base + k \in 0..(Len(buf) - 1)
        BY <4>3, AtPosition DEF COLON, Fault
      <4> QED
        BY <2>1, <3>1, <4>1, <4>4 DEF SeeColon, k
    <3>2. CASE ~ (~ have_colon /\ co # {})
      BY <2>1, <3>2 DEF SeeColon, TInv, TypeOK
    <3> QED
      BY <3>1, <3>2
  <2> QED
    BY <2>1, <2>2, <2>3 DEF TInv, TypeOK, Bits
<1>5. CASE EndOfBuffer
  <2>1. Slice(Len(buf), Len(buf)) \in Slices
    BY DEF Slice, Slices, IInv
  <2> QED
    BY <1>2, <1>5, <2>1 DEF EndOfBuffer
<1>6. CASE FirstLine
  <2>1. /\ pc = "walk" /\ nl # {} /\ first_line
        /\ out' = PutFirstLine(out, is_req, buf, LineEnd - 1)
        /\ first_line' = FALSE /\ NextLine
        /\ UNCHANGED <<buf, is_req, pc, n, calls>>
    BY <1>6 DEF FirstLine
  <2>2. /\ LineEnd \in Nat /\ IndexByte(buf, LF, 0, Len(buf)) = LineEnd
    BY <2>1, LineEndFound DEF IInv, InCall
  <2>3. ReadableLine(is_req, buf, LineEnd - 1)
    BY <2>1, <2>2, HeadBegins DEF HeadStops
  <2>4. LineEnd - 1 \in Int
    BY <2>2
  <2>5. out' \in Message
    BY <2>1, <2>3, <2>4, FirstLineTyped DEF TInv, TypeOK
  <2> QED
    BY <2>1, <2>5, LineConsumedTyped DEF TInv, TypeOK
<1>7. CASE BlankLine
  <2>1. pc = "walk" /\ nl # {}
    BY <1>7 DEF BlankLine
  <2>2. LineEnd \in Nat /\ Len(buf) \in Nat
    BY <2>1, LineEndFound DEF IInv
  <2>3. Slice(LineEnd + 1, Len(buf)) \in Slices
    BY <2>2 DEF Slice, Slices
  <2> QED
    BY <1>2, <1>7, <2>3 DEF BlankLine
<1>8. CASE HeaderLine
  <2> DEFINE h == [name  |-> Slice(line_start, LineColon),
                   value |-> Trim(buf, SkipSpace(LineColon + 1, LineEnd - 1), LineEnd - 1)]
  <2>1. /\ pc = "walk" /\ nl # {} /\ ~ first_line /\ LineEnd # line_start + 1
        /\ out' = PutHeader(out, n, h) /\ n' = n + 1 /\ NextLine
        /\ UNCHANGED <<buf, is_req, pc, first_line, calls>>
    BY <1>8 DEF HeaderLine
  <2>2. PICK c \in line_start..(LineEnd - 2) : At(buf, c) = COLON
    BY <2>1, LineShape
  <2>3. LineColon \in line_start..(LineEnd - 2) /\ line_start \in Nat /\ LineEnd \in Nat
    BY <2>1, <2>2, LineColonFound, LineEndFound DEF IInv
  <2>4. LineColon + 1 \in Nat /\ LineEnd - 1 \in Nat /\ LineColon + 1 <= LineEnd - 1
    BY <2>3
  <2>5. Trim(buf, LineColon + 1, LineEnd - 1) \in Slices
    <3> DEFINE hi == LineEnd - 1
               l  == TrimLeft(buf, LineColon + 1, hi)
               r  == TrimRight(buf, l, hi)
    <3> HIDE DEF hi
    <3>1. hi \in Nat /\ LineColon + 1 <= hi /\ LineColon + 1 \in Nat
      BY <2>4 DEF hi
    <3>2. l \in (LineColon + 1)..hi
      BY <3>1, TrimLeftStops
    <3> HIDE DEF l
    <3>3. l \in Nat /\ l <= hi
      BY <3>1, <3>2
    <3>4. r \in l..hi
      BY <3>1, <3>3, TrimRightStops
    <3> HIDE DEF r
    <3>5. Slice(l, r) \in Slices
      BY <3>1, <3>3, <3>4 DEF Slice, Slices
    <3> QED
      BY <3>5 DEF Trim, l, r, hi
  <2>6. h \in Header
    <3>1. Slice(line_start, LineColon) \in Slices
      BY <2>3 DEF Slice, Slices
    <3> QED
      BY <2>4, <2>5, <3>1, SameValue DEF Header
  <2> HIDE DEF h
  <2>7. out' \in Message /\ n' \in Nat
    BY <2>1, <2>6, HeaderTyped DEF TInv, TypeOK
  <2>8. first_line' = FALSE
    BY <2>1 DEF IInv
  <2> QED
    BY <2>1, <2>7, <2>8, LineConsumedTyped DEF TInv
<1>9. CASE UNCHANGED vars
  BY <1>9 DEF vars, masks, line, TInv, TypeOK, Bits
<1> QED
  BY <1>1, <1>3, <1>4, <1>5, <1>6, <1>7, <1>8, <1>9 DEF Next, Parse

\* The offsets cfast-simd.c keeps between chunks and the message it fills stay in
\* their types, for every input, chunk width and message size.
THEOREM TypeCorrect == Safety => []TypeOK
<1>1. Init => TInv
  <2>1. NilMessage \in Message
    BY MAXHAssumption DEF NilMessage, Message, NilHeader, Header, Nil, Slice, Slices
  <2>2. SUFFICES ASSUME Init PROVE TInv
    OBVIOUS
  <2>3. buf \in Seq(Octet) /\ 0 \in 0..Len(buf)
    BY <2>2 DEF Init
  <2>4. out \in Message
    BY <2>1, <2>2 DEF Init
  <2>5. /\ base \in Nat /\ line_start = 0 /\ colon = 0 /\ n \in Nat
        /\ calls \in 0..MaxCalls
    BY <2>2, MaxCallsAssumption DEF Init
  <2>6. nl \in SUBSET Bits /\ co \in SUBSET Bits
    BY <2>2, Zenon DEF Init
  <2>7. /\ pc = "idle" /\ is_req \in BOOLEAN /\ have_colon \in BOOLEAN
        /\ first_line \in BOOLEAN
    BY <2>2, Zenon DEF Init
  <2> QED
    BY <2>3, <2>4, <2>5, <2>6, <2>7 DEF TInv, TypeOK
<1>2. IInv /\ TInv /\ [Next]_vars => TInv'
  BY TypeStep
<1>3. TInv => TypeOK
  BY DEF TInv
<1> QED
  BY <1>1, <1>2, <1>3, InvariantHolds, PTL DEF Safety
=============================================================================
