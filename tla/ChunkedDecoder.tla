---------------------------- MODULE ChunkedDecoder ----------------------------
(***************************************************************************)
(* phr_decode_chunked of pico-neon/picohttpparser.c and its caller, who    *)
(* feeds it a stream in fragments of any size, as they arrive, and collects *)
(* what it leaves at the front of each fragment.                           *)
(*                                                                         *)
(* Between two calls only the decoder structure is kept.  A call is cut at *)
(* the cases of its switch; the loop that reads a chunk size changes the   *)
(* structure at every digit, so each of its turns is a step.               *)
(***************************************************************************)
EXTENDS ChunkedBody

CONSTANTS
  Streams,      \* what is sent: sequences of octets
  MaxOverhead   \* 100 * 1024: overhead below this is always accepted

ASSUME StreamsAssumption == Streams \subseteq Seq(Octet)
ASSUME MaxOverheadAssumption == MaxOverhead \in Nat \ {0}

VARIABLES
  stream,     \* what the peer sends
  fed,        \* how much of it has been passed to the decoder
  decoder,    \* the phr_chunked_decoder
  buf,        \* the fragment of the last call, rewritten in place
  src,        \* the next octet of buf to read
  dst,        \* the end of the decoded octets in buf, *bufsz on return
  status,     \* what the last call returned
  undecoded,  \* the octets left when the body is complete: the return value
  decoded     \* what the caller has collected

vars == <<stream, fed, decoder, buf, src, dst, status, undecoded, decoded>>

States ==
  {"CHUNK_SIZE", "CHUNK_EXT", "CHUNK_HEADER_EXPECT_LF", "CHUNK_DATA",
   "CHUNK_DATA_EXPECT_CR", "CHUNK_DATA_EXPECT_LF", "TRAILERS_LINE_HEAD",
   "TRAILERS_LINE_MIDDLE"}

Decoder ==
  [bytes_left_in_chunk : Nat, consume_trailer : BOOLEAN, hex_count : 0..MaxHex,
   state : States, total_read : Nat, total_overhead : Nat]

TypeOK ==
  /\ stream \in Seq(Octet)
  /\ fed \in 0..Len(stream)
  /\ decoder \in Decoder
  /\ buf \in Seq(Octet)
  /\ src \in 0..Len(buf)
  /\ dst \in 0..Len(buf)
  /\ status \in {"incomplete", "running", "complete", "error"}
  /\ undecoded \in 0..Len(buf)
  /\ decoded \in Seq(Octet)

\* Zero-filled, as the header asks; the caller chooses what becomes of trailers.
ZeroFilled(trailer) ==
  [bytes_left_in_chunk |-> 0, consume_trailer |-> trailer, hex_count |-> 0,
   state |-> "CHUNK_SIZE", total_read |-> 0, total_overhead |-> 0]

Init ==
  /\ stream \in Streams
  /\ fed = 0
  /\ \E trailer \in BOOLEAN : decoder = ZeroFilled(trailer)
  /\ buf = <<>>
  /\ src = 0
  /\ dst = 0
  /\ status = "incomplete"
  /\ undecoded = 0
  /\ decoded = <<>>

----------------------------------------------------------------------------
(***************************************************************************)
(* Entry and exit of a call.                                               *)
(***************************************************************************)

\* The caller calls again while it is told that the body is incomplete.
Feed(n) ==
  /\ status = "incomplete"
  /\ fed + n <= Len(stream)
  /\ buf' = SubSeq(stream, fed + 1, fed + n)
  /\ fed' = fed + n
  /\ src' = 0
  /\ dst' = 0
  /\ status' = "running"
  /\ decoder' = [decoder EXCEPT !.total_read = @ + n]
  /\ UNCHANGED <<stream, undecoded, decoded>>

\* Mutant of Memmove: offsets advance but nothing is moved.
Memmove_Skipped(b, to, from, n) == b

\* memmove(b + to, b + from, n); nothing happens when to = from.
Memmove(b, to, from, n) ==
  [i \in 1..Len(b) |->
     IF i - 1 \in to..(to + n - 1) THEN b[i - to + from] ELSE b[i]]

\* Mostly overhead, and a lot of it.
Excessive(d) ==
  /\ d.total_overhead >= MaxOverhead
  /\ d.total_read - d.total_overhead < d.total_read \div 4

\* Mutant of Overhead: payload is charged too.
Overhead_All(n, d) == n

\* Of n octets read, those beyond the d of payload are overhead.
Overhead(n, d) == n - d

\* The octets that were not read are moved behind the decoded ones.  A call that
\* ends with the fragment accounts for its overhead, which may be an error.
Exit(result, s, d, b, dec) ==
  LET charged == [dec EXCEPT !.total_overhead = @ + Overhead(Len(b), d)]
      more    == result = "incomplete"
  IN  /\ buf' = Memmove(b, d, s, Len(b) - s)
      /\ src' = s
      /\ dst' = d
      /\ decoded' = decoded \o SubSeq(b, 1, d)
      /\ undecoded' = IF result = "complete" THEN Len(b) - s ELSE 0
      /\ decoder' = IF more THEN charged ELSE dec
      /\ status' = IF more /\ Excessive(charged) THEN "error" ELSE result
      /\ UNCHANGED <<stream, fed>>

Fail == Exit("error", src, dst, buf, decoder)

\* The switch is entered again, or the next case is, at s.
Advance(s, dec) ==
  /\ src' = s
  /\ decoder' = dec
  /\ UNCHANGED <<stream, fed, buf, dst, status, undecoded, decoded>>

GoTo(state) == [decoder EXCEPT !.state = state]

----------------------------------------------------------------------------
(***************************************************************************)
(* The cases of the switch.                                                *)
(***************************************************************************)

Running(state) == status = "running" /\ decoder.state = state

\* Mutant of EndOfFragment: trailers are read past the end of the fragment.
EndOfFragment_NotInTrailers ==
  /\ status = "running"
  /\ decoder.state \notin {"CHUNK_DATA", "TRAILERS_LINE_HEAD"}
  /\ src = Len(buf)
  /\ Exit("incomplete", src, dst, buf, decoder)

\* Every case but CHUNK_DATA returns when the fragment has no more octets.
EndOfFragment ==
  /\ status = "running"
  /\ decoder.state # "CHUNK_DATA"
  /\ src = Len(buf)
  /\ Exit("incomplete", src, dst, buf, decoder)

\* Mutant of NoRoom: one digit too many.
NoRoom_Late == decoder.hex_count > MaxHex

\* The digits read fill a size_t.
NoRoom == decoder.hex_count = MaxHex

Digit(v) ==
  /\ Running("CHUNK_SIZE")
  /\ src < Len(buf)
  /\ v = DecodeHex(At(buf, src))
  /\ v # -1
  /\ \/ /\ NoRoom
        /\ Fail
     \/ /\ ~NoRoom
        /\ Advance(src + 1,
             [decoder EXCEPT !.bytes_left_in_chunk = @ * 16 + v, !.hex_count = @ + 1])

\* Mutant of SizeRead: the digits are not counted from zero again.
SizeRead_KeepCount == GoTo("CHUNK_EXT")

\* The size has been read; the next one starts with no digits.
SizeRead == [decoder EXCEPT !.hex_count = 0, !.state = "CHUNK_EXT"]

EndOfSize ==
  /\ Running("CHUNK_SIZE")
  /\ src < Len(buf)
  /\ DecodeHex(At(buf, src)) = -1
  /\ \/ /\ decoder.hex_count = 0 \/ At(buf, src) \notin AfterSize
        /\ Fail
     \/ /\ decoder.hex_count > 0
        /\ At(buf, src) \in AfterSize
        /\ Advance(src, SizeRead)

\* An extension runs to a CR; a line feed in it would be a folded line.
ChunkExt ==
  /\ Running("CHUNK_EXT")
  /\ src < Len(buf)
  /\ \E q \in src..Len(buf) :
       /\ StopsAt(buf, src, q, {CR, LF})
       /\ \/ /\ q = Len(buf)
             /\ Advance(q, decoder)
          \/ /\ At(buf, q) = LF
             /\ Exit("error", q, dst, buf, decoder)
          \/ /\ At(buf, q) = CR
             /\ Advance(q + 1, GoTo("CHUNK_HEADER_EXPECT_LF"))

\* A chunk of size zero is the last one.
ChunkHeaderLF ==
  /\ Running("CHUNK_HEADER_EXPECT_LF")
  /\ src < Len(buf)
  /\ \/ /\ At(buf, src) # LF
        /\ Fail
     \/ /\ At(buf, src) = LF
        /\ decoder.bytes_left_in_chunk > 0
        /\ Advance(src + 1, GoTo("CHUNK_DATA"))
     \/ /\ At(buf, src) = LF
        /\ decoder.bytes_left_in_chunk = 0
        /\ IF decoder.consume_trailer
           THEN Advance(src + 1, GoTo("TRAILERS_LINE_HEAD"))
           ELSE Exit("complete", src + 1, dst, buf, decoder)

\* The payload moves to the front of the buffer: the rest of the fragment if the
\* chunk is longer, else the rest of the chunk.
ChunkData ==
  LET avail == Len(buf) - src
      left  == decoder.bytes_left_in_chunk
  IN  /\ Running("CHUNK_DATA")
      /\ \/ /\ avail < left
            /\ Exit("incomplete", src + avail, dst + avail,
                    Memmove(buf, dst, src, avail),
                    [decoder EXCEPT !.bytes_left_in_chunk = @ - avail])
         \/ /\ avail >= left
            /\ buf' = Memmove(buf, dst, src, left)
            /\ src' = src + left
            /\ dst' = dst + left
            /\ decoder' = [decoder EXCEPT !.bytes_left_in_chunk = 0,
                                          !.state = "CHUNK_DATA_EXPECT_CR"]
            /\ UNCHANGED <<stream, fed, status, undecoded, decoded>>

\* The delimiter c is expected, and after it the given state.
Expect(state, c, next) ==
  /\ Running(state)
  /\ src < Len(buf)
  /\ \/ /\ At(buf, src) # c
        /\ Fail
     \/ /\ At(buf, src) = c
        /\ Advance(src + 1, GoTo(next))

ChunkDataCR == Expect("CHUNK_DATA_EXPECT_CR", CR, "CHUNK_DATA_EXPECT_LF")

ChunkDataLF == Expect("CHUNK_DATA_EXPECT_LF", LF, "CHUNK_SIZE")

\* Carriage returns are skipped; a line feed after them ends the body.
TrailersLineHead ==
  /\ Running("TRAILERS_LINE_HEAD")
  /\ src < Len(buf)
  /\ \E q \in src..Len(buf) :
       /\ StopsAt(buf, src, q, Octet \ {CR})
       /\ \/ /\ q = Len(buf)
             /\ Advance(q, decoder)
          \/ /\ q < Len(buf)
             /\ IF At(buf, q) = LF
                THEN Exit("complete", q + 1, dst, buf, decoder)
                ELSE Advance(q + 1, GoTo("TRAILERS_LINE_MIDDLE"))

TrailersLineMiddle ==
  /\ Running("TRAILERS_LINE_MIDDLE")
  /\ src < Len(buf)
  /\ \E q \in src..Len(buf) :
       /\ StopsAt(buf, src, q, {LF})
       /\ \/ /\ q = Len(buf)
             /\ Advance(q, decoder)
          \/ /\ q < Len(buf)
             /\ Advance(q + 1, GoTo("TRAILERS_LINE_HEAD"))

----------------------------------------------------------------------------
Decode ==
  \/ EndOfFragment
  \/ \E v \in 0..15 : Digit(v)
  \/ EndOfSize
  \/ ChunkExt
  \/ ChunkHeaderLF
  \/ ChunkData
  \/ ChunkDataCR
  \/ ChunkDataLF
  \/ TrailersLineHead
  \/ TrailersLineMiddle

Next == (\E n \in 0..Len(stream) : Feed(n)) \/ Decode

Safety == Init /\ [][Next]_vars

\* A call runs on its caller's thread; nothing makes a caller call again.
Spec == Safety /\ WF_vars(Decode)

\* phr_decode_chunked_is_in_data
IsInData == decoder.state = "CHUNK_DATA"

----------------------------------------------------------------------------
(***************************************************************************)
(* The properties.                                                         *)
(***************************************************************************)

\* Decoding in place never writes over an octet before it is read: the decoded
\* octets end at or before the next one to read, which is still what was sent,
\* and the octets after a complete body are moved whole behind the decoded ones,
\* where the header says the caller finds them (picohttpparser.h:82-84).
InPlace ==
  /\ dst <= src
  /\ status = "running" =>
       \A i \in src..(Len(buf) - 1) : At(buf, i) = At(stream, fed - Len(buf) + i)
  /\ status = "complete" =>
       \A i \in 0..(undecoded - 1) : At(buf, dst + i) = At(stream, fed - undecoded + i)

\* Every octet read is accounted for as payload or as overhead, whatever the
\* fragments, so that the unsigned difference which decides whether a body is
\* mostly overhead (picohttpparser.c:726-727) never wraps around.
Accounted ==
  /\ decoder.total_read = fed
  /\ status = "incomplete" => decoder.total_overhead + Len(decoded) = fed
  /\ decoder.total_overhead <= decoder.total_read

\* How the stream was cut into fragments does not show: after every call the
\* caller has the payload of all that was sent so far, is_in_data says whether a
\* chunk is open, and the calls end where the body does or where it goes wrong.
\* Only the limit on overhead is examined at the ends of fragments: less than a
\* quarter is payload, where the comment says more than 80% is overhead
\* (picohttpparser.c:724, 727).
Incremental ==
  LET m == Meaning(SubSeq(stream, 1, fed), decoder.consume_trailer)
      excessive == /\ fed - Len(m.out) >= MaxOverhead
                   /\ Len(m.out) < fed \div 4
  IN  /\ status = "incomplete" =>
           m.verdict = "more" /\ decoded = m.out /\ IsInData = m.inData /\ ~excessive
      /\ status = "complete" =>
           m.verdict = "done" /\ decoded = m.out /\ undecoded = fed - m.end
      /\ status = "error" =>
           m.verdict = "bad" \/ (m.verdict = "more" /\ decoded = m.out /\ excessive)

\* Every call returns: no turn of the loop stands still.
CallReturns == status = "running" ~> status # "running"
=============================================================================
