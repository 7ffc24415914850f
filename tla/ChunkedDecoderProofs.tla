-------------------------- MODULE ChunkedDecoderProofs --------------------------
(***************************************************************************)
(* ChunkedDecoder decodes in place and accounts for every octet, whatever  *)
(* the stream, its cut into fragments and the limits.                      *)
(*                                                                         *)
(* The invariant is about the call in progress: what it has not read is    *)
(* still the end of what was fed, and payload and overhead of the earlier  *)
(* calls add up to the fragments before this one.                          *)
(*                                                                         *)
(* How the stream is cut does not show either.  That takes an invariant    *)
(* of its own, for the verdict of one call says nothing of where the next  *)
(* one begins: the decoder is at a place in the stream, in a chunk that    *)
(* begins at p, and whatever more is fed means what the chunks from p on   *)
(* mean, after the payload of those before it.                             *)
(***************************************************************************)
EXTENDS ChunkedDecoder, SequenceTheorems, WellFoundedInduction, TLAPS

\* The fragment in progress is the end of what was fed.
Charged ==
  /\ Len(buf) <= fed
  /\ status = "running" =>
       decoder.total_overhead + Len(decoded) = fed - Len(buf)
  /\ status # "complete" => undecoded = 0

IInv == TypeOK /\ InPlace /\ Accounted /\ Charged

----------------------------------------------------------------------------
\* memmove keeps the length of the buffer and moves n octets, no other.
LEMMA MemmoveMoves ==
  ASSUME NEW b \in Seq(Octet), NEW to \in Nat, NEW from \in Nat, NEW n \in Nat,
         to <= from, from + n <= Len(b)
  PROVE  /\ Memmove(b, to, from, n) \in Seq(Octet)
         /\ Len(Memmove(b, to, from, n)) = Len(b)
         /\ \A i \in 0..(Len(b) - 1) :
              At(Memmove(b, to, from, n), i) =
                IF i \in to..(to + n - 1) THEN At(b, i - to + from) ELSE At(b, i)
<1> DEFINE L == Len(b)
           e(i) == IF i - 1 \in to..(to + n - 1) THEN b[i - to + from] ELSE b[i]
           m == [i \in 1..L |-> e(i)]
<1>1. L \in Nat
  BY LenProperties
<1>2. \A i \in 1..L : b[i] \in Octet
  BY ElementOfSeq
<1>3. \A i \in 1..L : e(i) \in Octet
  <2> TAKE i \in 1..L
  <2>1. CASE i - 1 \in to..(to + n - 1)
    <3>1. i - to + from \in 1..L
      BY <2>1, <1>1
    <3> QED
      BY <3>1, <2>1, <1>2
  <2>2. CASE i - 1 \notin to..(to + n - 1)
    BY <2>2, <1>2
  <2> QED
    BY <2>1, <2>2
<1>4. Memmove(b, to, from, n) = m
  BY DEF Memmove
<1>5. m \in Seq(Octet) /\ Len(m) = L
  <2> HIDE DEF e, L
  <2>1. m \in [1..L -> Octet]
    BY <1>3
  <2> QED
    BY <2>1, <1>1
<1>6. \A i \in 0..(L - 1) :
        At(m, i) = IF i \in to..(to + n - 1) THEN At(b, i - to + from) ELSE At(b, i)
  <2> TAKE i \in 0..(L - 1)
  <2>1. At(m, i) = e(i + 1)
    BY <1>1, <1>5 DEF At
  <2>2. CASE i \in to..(to + n - 1)
    <3>1. i - to + from \in 0..(L - 1)
      BY <2>2, <1>1
    <3>2. At(b, i - to + from) = b[i - to + from + 1]
      BY <3>1 DEF At
    <3>3. e(i + 1) = b[i + 1 - to + from]
      BY <2>2, <1>1
    <3>4. i + 1 - to + from = i - to + from + 1
      BY <2>2, <1>1
    <3> QED
      BY <2>1, <2>2, <3>2, <3>3, <3>4
  <2>3. CASE i \notin to..(to + n - 1)
    <3>1. At(b, i) = b[i + 1]
      BY <1>1 DEF At
    <3>2. e(i + 1) = b[i + 1]
      BY <2>3, <1>1
    <3> QED
      BY <2>1, <2>3, <3>1, <3>2
  <2> QED
    BY <2>2, <2>3
<1> HIDE DEF m
<1> QED
  BY <1>4, <1>5, <1>6

\* A part of a sequence reads like the sequence.
LEMMA PrefixOf ==
  ASSUME NEW b \in Seq(Octet), NEW lo \in Nat, NEW n \in Nat, lo + n <= Len(b)
  PROVE  /\ SubSeq(b, lo + 1, lo + n) \in Seq(Octet)
         /\ Len(SubSeq(b, lo + 1, lo + n)) = n
         /\ \A i \in 0..(n - 1) : At(SubSeq(b, lo + 1, lo + n), i) = At(b, lo + i)
<1> DEFINE p == SubSeq(b, lo + 1, lo + n)
<1>1. Len(b) \in Nat /\ \A i \in 1..Len(b) : b[i] \in Octet
  BY LenProperties, ElementOfSeq
<1>2. p \in Seq(Octet) /\ Len(p) = n /\ \A i \in 1..n : p[i] = b[lo + i]
  BY <1>1, SubSeqProperties
<1>3. \A i \in 0..(n - 1) : At(p, i) = At(b, lo + i)
  <2> TAKE i \in 0..(n - 1)
  <2>1. At(p, i) = p[i + 1]
    BY <1>2 DEF At
  <2>2. At(b, lo + i) = b[lo + i + 1]
    BY <1>1 DEF At
  <2>3. p[i + 1] = b[lo + (i + 1)]
    BY <1>2
  <2> QED
    BY <2>1, <2>2, <2>3
<1> QED
  BY <1>2, <1>3

\* What a read of b yields.
LEMMA ReadAt ==
  ASSUME NEW b \in Seq(Octet), NEW p
  PROVE  /\ At(b, p) \in 0..256
         /\ p \in 0..(Len(b) - 1) => At(b, p) \in Octet
         /\ p \notin 0..(Len(b) - 1) => At(b, p) = Fault
<1>1. CASE p \in 0..(Len(b) - 1)
  <2>1. p + 1 \in 1..Len(b) /\ At(b, p) = b[p + 1]
    BY <1>1, LenProperties DEF At
  <2>2. At(b, p) \in Octet
    BY <2>1, ElementOfSeq
  <2> QED
    BY <1>1, <2>2 DEF Octet
<1>2. CASE p \notin 0..(Len(b) - 1)
  BY <1>2 DEF At, Fault
<1> QED
  BY <1>1, <1>2

\* A prefix reads like the whole, up to its end.
LEMMA PrefixReads ==
  ASSUME NEW s \in Seq(Octet), NEW n \in 0..Len(s)
  PROVE  /\ SubSeq(s, 1, n) \in Seq(Octet)
         /\ Len(SubSeq(s, 1, n)) = n
         /\ \A i \in 0..(n - 1) : At(SubSeq(s, 1, n), i) = At(s, i)
         /\ \A i : i \notin 0..(n - 1) => At(SubSeq(s, 1, n), i) = Fault
<1>1. Len(s) \in Nat /\ n \in Nat /\ 0 \in Nat /\ 0 + n <= Len(s) /\ 0 + 1 = 1 /\ 0 + n = n
  BY LenProperties
<1>2. /\ SubSeq(s, 1, n) \in Seq(Octet)
      /\ Len(SubSeq(s, 1, n)) = n
      /\ \A i \in 0..(n - 1) : At(SubSeq(s, 1, n), i) = At(s, 0 + i)
  <2>1. /\ SubSeq(s, 0 + 1, 0 + n) \in Seq(Octet)
        /\ Len(SubSeq(s, 0 + 1, 0 + n)) = n
        /\ \A i \in 0..(n - 1) : At(SubSeq(s, 0 + 1, 0 + n), i) = At(s, 0 + i)
    BY <1>1, PrefixOf
  <2> QED
    BY <1>1, <2>1
<1>3. \A i \in 0..(n - 1) : At(SubSeq(s, 1, n), i) = At(s, i)
  <2> TAKE i \in 0..(n - 1)
  <2>1. 0 + i = i
    BY <1>1
  <2> QED
    BY <1>2, <2>1
<1>4. \A i : i \notin 0..(n - 1) => At(SubSeq(s, 1, n), i) = Fault
  BY <1>2, ReadAt
<1> QED
  BY <1>2, <1>3, <1>4

\* Octets that are put together.
LEMMA JoinReads ==
  ASSUME NEW x \in Seq(Octet), NEW y \in Seq(Octet)
  PROVE  /\ x \o y \in Seq(Octet)
         /\ Len(x \o y) = Len(x) + Len(y)
         /\ \A i \in 0..(Len(x) + Len(y) - 1) :
              At(x \o y, i) = IF i < Len(x) THEN At(x, i) ELSE At(y, i - Len(x))
<1> DEFINE z == x \o y
           m == Len(x)
           n == Len(y)
<1>1. m \in Nat /\ n \in Nat
  BY LenProperties
<1>2. /\ z \in Seq(Octet) /\ Len(z) = m + n
      /\ \A k \in 1..(m + n) : z[k] = IF k <= m THEN x[k] ELSE y[k - m]
  BY ConcatProperties, ZenonT(60)
<1> HIDE DEF z
<1>3. ASSUME NEW i \in 0..(m + n - 1)
      PROVE  At(z, i) = IF i < m THEN At(x, i) ELSE At(y, i - m)
  <2> DEFINE k == i + 1
  <2>1. k \in 1..(m + n) /\ At(z, i) = z[k]
    BY <1>1, <1>2 DEF At
  <2>2. z[k] = IF k <= m THEN x[k] ELSE y[k - m]
    <3> HIDE DEF m, n, k
    <3> QED
      BY <1>2, <2>1
  <2>3. CASE i < m
    <3>1. At(x, i) = x[k] /\ k <= m
      BY <1>1, <2>3 DEF At
    <3> HIDE DEF k
    <3> QED
      BY <2>1, <2>2, <2>3, <3>1
  <2>4. CASE ~(i < m)
    <3>1. At(y, i - m) = y[i - m + 1] /\ ~(k <= m) /\ i - m + 1 = k - m
      BY <1>1, <2>4 DEF At
    <3> HIDE DEF k
    <3> QED
      BY <2>1, <2>2, <2>4, <3>1
  <2> QED
    BY <2>3, <2>4
<1> HIDE DEF m, n
<1> QED
  BY <1>2, <1>3 DEF z, m, n

----------------------------------------------------------------------------
\* What a step of a call may assume.
LEMMA InCall ==
  ASSUME IInv, status = "running"
  PROVE  /\ stream \in Seq(Octet) /\ buf \in Seq(Octet) /\ decoded \in Seq(Octet)
         /\ Len(stream) \in Nat /\ Len(buf) \in Nat /\ Len(decoded) \in Nat
         /\ decoder \in Decoder
         /\ fed \in 0..Len(stream) /\ Len(buf) <= fed
         /\ src \in 0..Len(buf) /\ dst \in 0..src
         /\ decoder.total_read = fed
         /\ decoder.total_overhead + Len(decoded) = fed - Len(buf)
         /\ undecoded = 0
         /\ \A i \in src..(Len(buf) - 1) :
              At(buf, i) = At(stream, fed - Len(buf) + i)
<1>1. stream \in Seq(Octet) /\ buf \in Seq(Octet) /\ decoded \in Seq(Octet)
  BY DEF IInv, TypeOK
<1>2. Len(stream) \in Nat /\ Len(buf) \in Nat /\ Len(decoded) \in Nat
  BY <1>1, LenProperties
<1> QED
  BY <1>1, <1>2 DEF IInv, TypeOK, InPlace, Accounted, Charged

\* A step that moves the cursor on and leaves the buffer alone.
LEMMA AdvanceKeeps ==
  ASSUME IInv, status = "running",
         NEW s \in src..Len(buf), NEW dec \in Decoder,
         dec.total_read = decoder.total_read,
         dec.total_overhead = decoder.total_overhead,
         Advance(s, dec)
  PROVE  IInv'
<1> USE DEF Advance
<1>1. TypeOK'
  BY InCall DEF IInv, TypeOK
<1>2. InPlace'
  BY InCall DEF InPlace
<1>3. Accounted'
  BY DEF IInv, Accounted
<1>4. Charged'
  BY DEF IInv, Charged
<1> QED
  BY <1>1, <1>2, <1>3, <1>4 DEF IInv

\* What a call that ends with the fragment has been charged.
LEMMA ExitCharges ==
  ASSUME IInv, status = "running", NEW d \in 0..Len(buf), NEW dec \in Decoder,
         NEW b \in Seq(Octet), Len(b) = Len(buf),
         dec.total_read = decoder.total_read,
         dec.total_overhead = decoder.total_overhead
  PROVE  LET charged == [dec EXCEPT !.total_overhead = @ + Overhead(Len(b), d)]
             out     == decoded \o SubSeq(b, 1, d)
         IN  /\ charged \in Decoder
             /\ charged.total_read = fed
             /\ charged.total_overhead + Len(out) = fed
             /\ charged.state = dec.state
             /\ charged.consume_trailer = dec.consume_trailer
             /\ charged.hex_count = dec.hex_count
             /\ charged.bytes_left_in_chunk = dec.bytes_left_in_chunk
             /\ out \in Seq(Octet)
             /\ Len(out) = Len(decoded) + d
<1> DEFINE L == Len(b)
           piece == SubSeq(b, 1, d)
           out == decoded \o piece
           o == dec.total_overhead + Overhead(L, d)
           charged == [dec EXCEPT !.total_overhead = o]
<1>1. /\ L \in Nat /\ d \in Nat /\ d <= L /\ fed \in Nat /\ L <= fed
      /\ decoded \in Seq(Octet) /\ Len(decoded) \in Nat
      /\ dec.total_overhead \in Nat /\ dec.total_read = fed
      /\ dec.total_overhead + Len(decoded) = fed - L
  BY InCall DEF Decoder
<1>2. piece \in Seq(Octet) /\ Len(piece) = d
  BY PrefixReads
<1>3. out \in Seq(Octet) /\ Len(out) = Len(decoded) + d
  <2> HIDE DEF piece
  <2> QED
    BY <1>1, <1>2, JoinReads
<1>4. o \in Nat /\ o + (Len(decoded) + d) = fed
  <2> DEFINE u == dec.total_overhead
             v == Len(decoded)
  <2>1. u \in Nat /\ v \in Nat /\ u + v = fed - L /\ o = u + (L - d)
    BY <1>1 DEF Overhead
  <2> HIDE DEF u, v, o, L
  <2>2. o \in Nat /\ o + (v + d) = fed
    BY <1>1, <2>1
  <2> QED
    BY <2>2 DEF v
<1> HIDE DEF o
<1>5. /\ charged \in Decoder
      /\ charged.total_read = dec.total_read
      /\ charged.total_overhead = o
      /\ charged.state = dec.state
      /\ charged.consume_trailer = dec.consume_trailer
      /\ charged.hex_count = dec.hex_count
      /\ charged.bytes_left_in_chunk = dec.bytes_left_in_chunk
  BY <1>4 DEF Decoder
<1>6. charged = [dec EXCEPT !.total_overhead = @ + Overhead(Len(b), d)]
  BY DEF o
<1> HIDE DEF charged, out
<1>7. charged.total_read = fed /\ charged.total_overhead + Len(out) = fed
  BY <1>1, <1>3, <1>4, <1>5
<1> QED
  BY <1>3, <1>5, <1>6, <1>7 DEF out

\* A call that returns, with d octets of payload in b and s octets of it read.
LEMMA ExitKeeps ==
  ASSUME IInv, status = "running",
         NEW result \in {"incomplete", "complete", "error"},
         NEW s \in src..Len(buf), NEW d \in dst..s, NEW dec \in Decoder,
         NEW b \in Seq(Octet), Len(b) = Len(buf),
         \A i \in s..(Len(buf) - 1) : At(b, i) = At(stream, fed - Len(buf) + i),
         dec.total_read = decoder.total_read,
         dec.total_overhead = decoder.total_overhead,
         Exit(result, s, d, b, dec)
  PROVE  IInv'
<1> DEFINE L == Len(buf)
           n == L - s
           charged == [dec EXCEPT !.total_overhead = @ + Overhead(Len(b), d)]
<1>1. /\ L \in Nat /\ s \in 0..L /\ d \in 0..s /\ n \in Nat /\ s + n = L
      /\ fed \in Nat /\ L <= fed
  BY InCall
<1>2. /\ buf' \in Seq(Octet) /\ Len(buf') = L
      /\ \A i \in 0..(n - 1) : At(buf', d + i) = At(b, s + i)
  <2>1. buf' = Memmove(b, d, s, n)
    BY DEF Exit
  <2>2. /\ buf' \in Seq(Octet) /\ Len(buf') = L
        /\ \A i \in 0..(L - 1) :
             At(buf', i) = IF i \in d..(d + n - 1) THEN At(b, i - d + s) ELSE At(b, i)
    <3> HIDE DEF n, L
    <3> QED
      BY <1>1, <2>1, MemmoveMoves DEF L
  <2>3. ASSUME NEW i \in 0..(n - 1)
        PROVE  At(buf', d + i) = At(b, s + i)
    <3>1. d + i \in 0..(L - 1) /\ d + i \in d..(d + n - 1) /\ (d + i) - d + s = s + i
      BY <1>1
    <3> HIDE DEF n, L
    <3> QED
      BY <3>1, <2>2
  <2> QED
    BY <2>2, <2>3
<1>3. /\ src' = s /\ dst' = d /\ fed' = fed /\ stream' = stream
      /\ undecoded' = IF result = "complete" THEN n ELSE 0
      /\ decoder' = IF result = "incomplete" THEN charged ELSE dec
      /\ status' \in {result, "error"}
      /\ status' # result => result = "incomplete"
  BY DEF Exit
<1>4. /\ decoded' \in Seq(Octet) /\ Len(decoded') = Len(decoded) + d
      /\ charged \in Decoder
      /\ charged.total_read = fed
      /\ charged.total_overhead + Len(decoded') = fed
  <2> DEFINE out == decoded \o SubSeq(b, 1, d)
  <2>1. d \in 0..Len(buf) /\ decoded' = out
    BY <1>1 DEF Exit
  <2>2. /\ out \in Seq(Octet) /\ Len(out) = Len(decoded) + d
        /\ charged \in Decoder
        /\ charged.total_read = fed
        /\ charged.total_overhead + Len(out) = fed
    BY <2>1, ExitCharges
  <2> HIDE DEF out, charged
  <2> QED
    BY <2>1, <2>2
<1> HIDE DEF charged
<1>5. TypeOK'
  BY <1>1, <1>2, <1>3, <1>4, InCall DEF TypeOK
<1>6. InPlace'
  <2>1. ASSUME status' = "complete", NEW i \in 0..(undecoded' - 1)
        PROVE  At(buf', dst' + i) = At(stream', fed' - undecoded' + i)
    <3>1. undecoded' = n /\ i \in 0..(n - 1)
      BY <2>1, <1>3
    <3>2. At(buf', d + i) = At(b, s + i)
      BY <1>2, <3>1
    <3>3. At(b, s + i) = At(stream, fed - L + (s + i))
      BY <1>1, <3>1
    <3>4. fed - L + (s + i) = fed - n + i
      BY <1>1, <3>1
    <3> QED
      BY <1>3, <3>1, <3>2, <3>3, <3>4
  <2>2. status' # "running" /\ dst' <= src'
    BY <1>1, <1>3
  <2> QED
    BY <2>1, <2>2 DEF InPlace
<1>7. Accounted'
  <2>1. dec.total_overhead \in Nat /\ dec.total_overhead <= fed
    BY <1>1, InCall DEF Decoder
  <2>2. Len(decoded') \in Nat /\ charged.total_overhead \in Nat
    BY <1>4, LenProperties DEF Decoder
  <2> QED
    BY <1>1, <1>3, <1>4, <2>1, <2>2, InCall DEF Accounted
<1>8. Charged'
  BY <1>1, <1>2, <1>3 DEF Charged
<1> QED
  BY <1>5, <1>6, <1>7, <1>8 DEF IInv

\* A call that gives up where it stands.
LEMMA FailKeeps ==
  ASSUME IInv, status = "running", Fail
  PROVE  IInv'
<1>1. /\ src \in src..Len(buf) /\ dst \in dst..src
      /\ \A i \in src..(Len(buf) - 1) :
           At(buf, i) = At(stream, fed - Len(buf) + i)
  BY InCall
<1>2. Exit("error", src, dst, buf, decoder)
  BY DEF Fail
<1> QED
  BY <1>1, <1>2, InCall, ExitKeeps

\* A new fragment: nothing of it has been read.
LEMMA FeedKeeps ==
  ASSUME IInv, NEW k \in Nat, Feed(k)
  PROVE  IInv'
<1>1. /\ status = "incomplete" /\ fed + k <= Len(stream)
      /\ stream \in Seq(Octet) /\ Len(stream) \in Nat /\ fed \in Nat
      /\ decoded \in Seq(Octet) /\ Len(decoded) \in Nat
      /\ decoder \in Decoder
  BY LenProperties DEF Feed, IInv, TypeOK
<1>2. /\ buf' \in Seq(Octet) /\ Len(buf') = k
      /\ \A i \in 0..(k - 1) : At(buf', i) = At(stream, fed + i)
  <2>1. buf' = SubSeq(stream, fed + 1, fed + k)
    BY DEF Feed
  <2> QED
    BY <1>1, <2>1, PrefixOf
<1>3. /\ fed' = fed + k /\ src' = 0 /\ dst' = 0 /\ status' = "running"
      /\ stream' = stream /\ undecoded' = undecoded /\ decoded' = decoded
  BY DEF Feed
<1>4. /\ decoder' \in Decoder
      /\ decoder'.total_read = decoder.total_read + k
      /\ decoder'.total_overhead = decoder.total_overhead
  <2>1. decoder' = [decoder EXCEPT !.total_read = @ + k]
    BY DEF Feed
  <2>2. decoder.total_read + k \in Nat
    BY <1>1 DEF Decoder
  <2> QED
    BY <1>1, <2>1, <2>2 DEF Decoder
<1>5. /\ decoder.total_overhead \in Nat
      /\ decoder.total_overhead + Len(decoded) = fed
      /\ decoder.total_read = fed
      /\ undecoded = 0
  BY <1>1 DEF IInv, Accounted, Charged, Decoder
<1>6. TypeOK'
  BY <1>1, <1>2, <1>3, <1>4, <1>5 DEF TypeOK
<1>7. InPlace'
  <2>1. ASSUME NEW i \in 0..(k - 1)
        PROVE  At(buf', i) = At(stream, fed' - k + i)
    <3>1. fed' - k + i = fed + i
      BY <1>1, <1>3
    <3> QED
      BY <1>2, <3>1
  <2> QED
    BY <1>2, <1>3, <2>1 DEF InPlace
<1>8. Accounted'
  BY <1>1, <1>3, <1>4, <1>5 DEF Accounted
<1>9. Charged'
  BY <1>1, <1>2, <1>3, <1>4, <1>5 DEF Charged
<1> QED
  BY <1>6, <1>7, <1>8, <1>9 DEF IInv

\* The payload moves to the front of the buffer.
LEMMA ChunkDataKeeps ==
  ASSUME IInv, ChunkData
  PROVE  IInv'
<1> DEFINE avail == Len(buf) - src
           left  == decoder.bytes_left_in_chunk
<1>1. /\ status = "running"
      /\ \/ /\ avail < left
            /\ Exit("incomplete", src + avail, dst + avail,
                    Memmove(buf, dst, src, avail),
                    [decoder EXCEPT !.bytes_left_in_chunk = @ - avail])
         \/ /\ avail >= left
            /\ buf' = Memmove(buf, dst, src, left)
            /\ src' = src + left
            /\ dst' = dst + left
            /\ decoder' = [decoder EXCEPT !.bytes_left_in_chunk = 0,
                                          !.state = "CHUNK_DATA_EXPECT_CR"]
            /\ UNCHANGED <<stream, fed, status, undecoded, decoded>>
  BY DEF ChunkData, Running
<1>2. /\ buf \in Seq(Octet) /\ Len(buf) \in Nat /\ fed \in Nat
      /\ src \in Nat /\ dst \in Nat /\ dst <= src /\ src <= Len(buf)
      /\ avail \in Nat /\ left \in Nat /\ decoder \in Decoder
  BY <1>1, InCall DEF Decoder
<1>3. ASSUME NEW n \in Nat, n <= avail
      PROVE  /\ Memmove(buf, dst, src, n) \in Seq(Octet)
             /\ Len(Memmove(buf, dst, src, n)) = Len(buf)
             /\ \A i \in (src + n)..(Len(buf) - 1) :
                  At(Memmove(buf, dst, src, n), i) = At(stream, fed - Len(buf) + i)
  <2>1. /\ Memmove(buf, dst, src, n) \in Seq(Octet)
        /\ Len(Memmove(buf, dst, src, n)) = Len(buf)
        /\ \A i \in 0..(Len(buf) - 1) :
             At(Memmove(buf, dst, src, n), i) =
               IF i \in dst..(dst + n - 1) THEN At(buf, i - dst + src) ELSE At(buf, i)
    <3>1. src + n <= Len(buf)
      BY <1>2, <1>3
    <3> QED
      BY <1>2, <3>1, MemmoveMoves
  <2>2. ASSUME NEW i \in (src + n)..(Len(buf) - 1)
        PROVE  At(Memmove(buf, dst, src, n), i) = At(stream, fed - Len(buf) + i)
    <3>1. i \in 0..(Len(buf) - 1) /\ i \notin dst..(dst + n - 1) /\ i \in src..(Len(buf) - 1)
      BY <1>2
    <3>2. At(Memmove(buf, dst, src, n), i) = At(buf, i)
      BY <2>1, <3>1
    <3>3. At(buf, i) = At(stream, fed - Len(buf) + i)
      BY <1>1, <3>1, InCall
    <3> QED
      BY <3>2, <3>3
  <2> QED
    BY <2>1, <2>2
<1>4. CASE /\ avail < left
           /\ Exit("incomplete", src + avail, dst + avail,
                   Memmove(buf, dst, src, avail),
                   [decoder EXCEPT !.bytes_left_in_chunk = @ - avail])
  <2> DEFINE s == src + avail
             d == dst + avail
             b == Memmove(buf, dst, src, avail)
             dec == [decoder EXCEPT !.bytes_left_in_chunk = left - avail]
  <2>1. s \in src..Len(buf) /\ d \in dst..s
    BY <1>2
  <2>2. /\ b \in Seq(Octet) /\ Len(b) = Len(buf)
        /\ \A i \in s..(Len(buf) - 1) : At(b, i) = At(stream, fed - Len(buf) + i)
    BY <1>2, <1>3
  <2>3. /\ dec \in Decoder
        /\ dec.total_read = decoder.total_read
        /\ dec.total_overhead = decoder.total_overhead
    <3>1. left - avail \in Nat
      BY <1>2, <1>4
    <3> HIDE DEF left, avail
    <3> QED
      BY <1>2, <3>1 DEF Decoder
  <2>4. Exit("incomplete", s, d, b, dec)
    BY <1>4
  <2> HIDE DEF s, d, b, dec
  <2> QED
    BY <1>1, <2>1, <2>2, <2>3, <2>4, ExitKeeps
<1>5. CASE /\ avail >= left
           /\ buf' = Memmove(buf, dst, src, left)
           /\ src' = src + left
           /\ dst' = dst + left
           /\ decoder' = [decoder EXCEPT !.bytes_left_in_chunk = 0,
                                         !.state = "CHUNK_DATA_EXPECT_CR"]
           /\ UNCHANGED <<stream, fed, status, undecoded, decoded>>
  <2>1. /\ buf' \in Seq(Octet) /\ Len(buf') = Len(buf)
        /\ \A i \in src'..(Len(buf) - 1) : At(buf', i) = At(stream, fed - Len(buf) + i)
    BY <1>2, <1>3, <1>5
  <2>2. src' \in 0..Len(buf) /\ dst' \in 0..src'
    BY <1>2, <1>5
  <2>3. /\ decoder' \in Decoder
        /\ decoder'.total_read = decoder.total_read
        /\ decoder'.total_overhead = decoder.total_overhead
    BY <1>2, <1>5 DEF Decoder, States
  <2>4. /\ stream' = stream /\ fed' = fed /\ status' = status
        /\ undecoded' = undecoded /\ decoded' = decoded
    BY <1>5
  <2>5. TypeOK'
    BY <1>1, <2>1, <2>2, <2>3, <2>4, InCall DEF IInv, TypeOK
  <2>6. InPlace'
    BY <1>1, <1>2, <2>1, <2>2, <2>4 DEF InPlace
  <2>7. Accounted'
    BY <2>3, <2>4 DEF IInv, Accounted
  <2>8. Charged'
    BY <2>1, <2>3, <2>4 DEF IInv, Charged
  <2> QED
    BY <2>5, <2>6, <2>7, <2>8 DEF IInv
<1> QED
  BY <1>1, <1>4, <1>5

\* Every other case of the switch moves the cursor on or returns.
LEMMA SwitchKeeps ==
  ASSUME IInv, Decode, ~ChunkData
  PROVE  IInv'
<1>1. /\ Len(buf) \in Nat /\ src \in 0..Len(buf) /\ dst \in 0..src
      /\ decoder \in Decoder /\ buf \in Seq(Octet) /\ status = "running"
      /\ decoder.bytes_left_in_chunk \in Nat /\ decoder.hex_count \in 0..MaxHex
  <2>1. status = "running"
    BY Zenon DEF Decode, EndOfFragment, Digit, EndOfSize, ChunkExt, ChunkHeaderLF,
         ChunkData, Expect, ChunkDataCR, ChunkDataLF, TrailersLineHead,
         TrailersLineMiddle, Running
  <2> QED
    BY <2>1, InCall DEF Decoder
<1>2. ASSUME NEW s \in src..Len(buf), NEW dec \in Decoder,
             dec.total_read = decoder.total_read,
             dec.total_overhead = decoder.total_overhead,
             Advance(s, dec)
      PROVE  IInv'
  BY <1>1, <1>2, AdvanceKeeps
<1>3. ASSUME NEW s \in src..Len(buf),
             NEW result \in {"incomplete", "complete", "error"},
             Exit(result, s, dst, buf, decoder)
      PROVE  IInv'
  <2>1. dst \in dst..s /\ \A i \in s..(Len(buf) - 1) :
          At(buf, i) = At(stream, fed - Len(buf) + i)
    BY <1>1, InCall
  <2> QED
    BY <1>1, <1>3, <2>1, ExitKeeps
<1>4. ASSUME NEW st \in States
      PROVE  /\ GoTo(st) \in Decoder
             /\ GoTo(st).total_read = decoder.total_read
             /\ GoTo(st).total_overhead = decoder.total_overhead
  BY <1>1 DEF Decoder, GoTo
<1>5. CASE EndOfFragment
  <2>1. src \in src..Len(buf)
    BY <1>1
  <2> QED
    BY <1>3, <1>5, <2>1 DEF EndOfFragment
<1>6. ASSUME NEW v \in 0..15, Digit(v)
      PROVE  IInv'
  <2> DEFINE dec == [decoder EXCEPT !.bytes_left_in_chunk = @ * 16 + v,
                                    !.hex_count = @ + 1]
  <2>1. CASE Fail
    BY <1>1, <2>1, FailKeeps
  <2>2. CASE ~NoRoom /\ Advance(src + 1, dec)
    <3>1. src + 1 \in src..Len(buf)
      BY <1>1, <1>6 DEF Digit
    <3>2. /\ decoder.bytes_left_in_chunk * 16 + v \in Nat
          /\ decoder.hex_count + 1 \in 0..MaxHex
      <4> DEFINE l == decoder.bytes_left_in_chunk
                 h == decoder.hex_count
      <4>1. l \in Nat /\ h \in 0..MaxHex /\ h # MaxHex
        BY <1>1, <2>2 DEF NoRoom
      <4> HIDE DEF l, h
      <4>2. l * 16 + v \in Nat /\ h + 1 \in 0..MaxHex
        BY <4>1, MaxHexAssumption
      <4> QED
        BY <4>2 DEF l, h
    <3>3. /\ dec \in Decoder
          /\ dec.total_read = decoder.total_read
          /\ dec.total_overhead = decoder.total_overhead
      <4> DEFINE l == decoder.bytes_left_in_chunk * 16 + v
                 h == decoder.hex_count + 1
      <4> HIDE DEF l, h
      <4>1. dec = [decoder EXCEPT !.bytes_left_in_chunk = l, !.hex_count = h]
        BY DEF l, h
      <4>2. l \in Nat /\ h \in 0..MaxHex
        BY <3>2 DEF l, h
      <4> HIDE DEF dec
      <4> QED
        BY <1>1, <4>1, <4>2 DEF Decoder
    <3> HIDE DEF dec
    <3> QED
      BY <1>2, <2>2, <3>1, <3>3
  <2> QED
    BY Zenon, <1>6, <2>1, <2>2 DEF Digit
<1>7. CASE EndOfSize
  <2>1. CASE Fail
    BY <1>1, <2>1, FailKeeps
  <2>2. CASE Advance(src, SizeRead)
    <3>1. src \in src..Len(buf)
      BY <1>1
    <3>2. /\ SizeRead \in Decoder
          /\ SizeRead.total_read = decoder.total_read
          /\ SizeRead.total_overhead = decoder.total_overhead
      <4>1. 0 \in 0..MaxHex /\ "CHUNK_EXT" \in States
        BY MaxHexAssumption DEF States
      <4> QED
        BY <1>1, <4>1 DEF SizeRead, Decoder
    <3> QED
      BY <1>2, <2>2, <3>1, <3>2
  <2> QED
    BY <1>7, <2>1, <2>2 DEF EndOfSize
<1>8. CASE ChunkExt
  <2>1. PICK q \in src..Len(buf) :
          /\ StopsAt(buf, src, q, {CR, LF})
          /\ \/ q = Len(buf) /\ Advance(q, decoder)
             \/ Exit("error", q, dst, buf, decoder)
             \/ At(buf, q) = CR /\ Advance(q + 1, GoTo("CHUNK_HEADER_EXPECT_LF"))
    BY <1>8 DEF ChunkExt
  <2>2. CASE Advance(q, decoder)
    BY <1>1, <1>2, <2>2
  <2>3. CASE Exit("error", q, dst, buf, decoder)
    BY <1>3, <2>3
  <2>4. CASE At(buf, q) = CR /\ Advance(q + 1, GoTo("CHUNK_HEADER_EXPECT_LF"))
    <3>1. q < Len(buf)
      BY <1>1, <2>4 DEF At, Fault, CR
    <3>2. q + 1 \in src..Len(buf)
      BY <1>1, <3>1
    <3>3. "CHUNK_HEADER_EXPECT_LF" \in States
      BY DEF States
    <3> QED
      BY <1>2, <1>4, <2>4, <3>2, <3>3
  <2> QED
    BY <2>1, <2>2, <2>3, <2>4
<1>9. CASE ChunkHeaderLF
  <2>1. src + 1 \in src..Len(buf)
    BY <1>1, <1>9 DEF ChunkHeaderLF
  <2>2. CASE Fail
    BY <1>1, <2>2, FailKeeps
  <2>3. ASSUME NEW st \in {"CHUNK_DATA", "TRAILERS_LINE_HEAD"}, Advance(src + 1, GoTo(st))
        PROVE  IInv'
    <3>1. st \in States
      BY DEF States
    <3> QED
      BY <1>2, <1>4, <2>1, <2>3, <3>1
  <2>4. CASE Exit("complete", src + 1, dst, buf, decoder)
    BY <1>3, <2>1, <2>4
  <2>5. \/ Fail
        \/ Advance(src + 1, GoTo("CHUNK_DATA"))
        \/ Advance(src + 1, GoTo("TRAILERS_LINE_HEAD"))
        \/ Exit("complete", src + 1, dst, buf, decoder)
    BY Zenon, <1>9 DEF ChunkHeaderLF
  <2> QED
    BY <2>2, <2>3, <2>4, <2>5
<1>10. ASSUME NEW st, NEW c, NEW next \in States, Expect(st, c, next)
       PROVE  IInv'
  <2>1. CASE Fail
    BY <1>1, <2>1, FailKeeps
  <2>2. CASE Advance(src + 1, GoTo(next))
    <3>1. src + 1 \in src..Len(buf)
      BY <1>1, <1>10 DEF Expect
    <3> QED
      BY <1>2, <1>4, <2>2, <3>1
  <2> QED
    BY <1>10, <2>1, <2>2 DEF Expect
<1>11. CASE ChunkDataCR \/ ChunkDataLF
  <2>1. "CHUNK_DATA_EXPECT_LF" \in States /\ "CHUNK_SIZE" \in States
    BY DEF States
  <2> QED
    BY <1>10, <1>11, <2>1 DEF ChunkDataCR, ChunkDataLF
<1>12. CASE TrailersLineHead
  <2>1. PICK q \in src..Len(buf) :
          \/ Advance(q, decoder)
          \/ q < Len(buf) /\ Exit("complete", q + 1, dst, buf, decoder)
          \/ q < Len(buf) /\ Advance(q + 1, GoTo("TRAILERS_LINE_MIDDLE"))
    BY <1>12 DEF TrailersLineHead
  <2>2. CASE Advance(q, decoder)
    BY <1>1, <1>2, <2>2
  <2>3. CASE q < Len(buf)
    <3>1. q + 1 \in src..Len(buf)
      BY <1>1, <2>3
    <3>2. "TRAILERS_LINE_MIDDLE" \in States
      BY DEF States
    <3> QED
      BY <1>2, <1>3, <1>4, <2>1, <2>2, <3>1, <3>2
  <2> QED
    BY <2>1, <2>2, <2>3
<1>13. CASE TrailersLineMiddle
  <2>1. PICK q \in src..Len(buf) :
          \/ Advance(q, decoder)
          \/ q < Len(buf) /\ Advance(q + 1, GoTo("TRAILERS_LINE_HEAD"))
    BY <1>13 DEF TrailersLineMiddle
  <2>2. CASE Advance(q, decoder)
    BY <1>1, <1>2, <2>2
  <2>3. CASE q < Len(buf) /\ Advance(q + 1, GoTo("TRAILERS_LINE_HEAD"))
    <3>1. q + 1 \in src..Len(buf)
      BY <1>1, <2>3
    <3>2. "TRAILERS_LINE_HEAD" \in States
      BY DEF States
    <3> QED
      BY <1>2, <1>4, <2>3, <3>1, <3>2
  <2> QED
    BY <2>1, <2>2, <2>3
<1> QED
  BY Zenon, <1>5, <1>6, <1>7, <1>8, <1>9, <1>11, <1>12, <1>13 DEF Decode

----------------------------------------------------------------------------
\* The decoder is zero-filled and nothing has been fed.
LEMMA InitEstablishes == Init => IInv
<1> SUFFICES ASSUME Init PROVE IInv
  OBVIOUS
<1>1. /\ stream \in Seq(Octet) /\ Len(stream) \in Nat
      /\ <<>> \in Seq(Octet) /\ Len(<<>>) = 0
  BY StreamsAssumption, LenProperties, EmptySeq DEF Init
<1>2. /\ decoder \in Decoder
      /\ decoder.total_read = 0 /\ decoder.total_overhead = 0
  BY MaxHexAssumption DEF Init, ZeroFilled, Decoder, States
<1> QED
  BY <1>1, <1>2 DEF Init, IInv, TypeOK, InPlace, Accounted, Charged

\* Every step keeps the invariant.
LEMMA StepKeeps == IInv /\ [Next]_vars => IInv'
<1> SUFFICES ASSUME IInv, [Next]_vars PROVE IInv'
  OBVIOUS
<1>1. ASSUME NEW k \in 0..Len(stream), Feed(k)
      PROVE  IInv'
  <2>1. k \in Nat
    BY LenProperties DEF IInv, TypeOK
  <2> QED
    BY <1>1, <2>1, FeedKeeps
<1>2. CASE Decode
  BY <1>2, ChunkDataKeeps, SwitchKeeps
<1>3. CASE UNCHANGED vars
  BY <1>3 DEF vars, IInv, TypeOK, InPlace, Accounted, Charged
<1> QED
  BY <1>1, <1>2, <1>3 DEF Next

\* Every state of every behaviour has the types of the decoder and its caller.
THEOREM TypeCorrect == Safety => []TypeOK
<1>1. IInv => TypeOK
  BY DEF IInv
<1> QED
  BY <1>1, InitEstablishes, StepKeeps, PTL DEF Safety

\* Decoding in place is safe for every stream, however it is cut: the decoded
\* octets never reach those not yet read (picohttpparser.c:655-669), and what
\* follows a complete body is found whole behind them (718-723).
THEOREM DecodesInPlace == Safety => []InPlace
<1>1. IInv => InPlace
  BY DEF IInv
<1> QED
  BY <1>1, InitEstablishes, StepKeeps, PTL DEF Safety

\* The two counters behind the overhead limit (picohttpparser.c:726-727) add up to
\* the octets fed, and their difference never wraps around.
THEOREM EveryOctetAccounted == Safety => []Accounted
<1>1. IInv => Accounted
  BY DEF IInv
<1> QED
  BY <1>1, InitEstablishes, StepKeeps, PTL DEF Safety

----------------------------------------------------------------------------
(***************************************************************************)
(* What the reference reading is made of.  Number and Meaning are defined  *)
(* by recursion and First by CHOOSE; the lemmas establish that there is    *)
(* what they choose, by way of the least place for which there would not   *)
(* be.                                                                     *)
(***************************************************************************)

\* A set of naturals that is not empty has a least element.
LEMMA LeastElement ==
  ASSUME NEW T, T \subseteq Nat, T # {}
  PROVE  \E x \in T : \A y \in T : x <= y
<1>1. PICK x \in T : \A y \in T : <<y, x>> \notin OpToRel(<, Nat)
  BY NatLessThanWellFounded, WFMin
<1>2. \A y \in T : ~ (y < x)
  BY <1>1 DEF OpToRel
<1> QED
  BY <1>2

\* An element of a set of naturals that none is below is its Min.
LEMMA MinEquals ==
  ASSUME NEW T, T \subseteq Nat, NEW x \in T, \A y \in T : x <= y
  PROVE  Min(T) = x
<1> DEFINE IsLeast(y) == \A z \in T : y <= z
<1>1. \E y \in T : IsLeast(y)
  OBVIOUS
<1>2. Min(T) = CHOOSE y \in T : IsLeast(y)
  BY DEF Min
<1> HIDE DEF IsLeast
<1>3. Min(T) \in T /\ IsLeast(Min(T))
  BY <1>1, <1>2
<1> DEFINE m == Min(T)
<1>4. m \in Nat /\ x \in Nat /\ m <= x /\ x <= m
  BY <1>3 DEF IsLeast
<1> HIDE DEF m
<1>5. m = x
  BY <1>4
<1> QED
  BY <1>5 DEF m

\* The Min of two naturals.
LEMMA MinOfTwo ==
  ASSUME NEW m \in Nat, NEW n \in Nat
  PROVE  Min({m, n}) = IF m <= n THEN m ELSE n
<1>1. CASE m <= n
  BY <1>1, MinEquals
<1>2. CASE ~(m <= n)
  BY <1>2, MinEquals
<1> QED
  BY <1>1, <1>2

\* The loop that runs to the first octet of C stops where First says.
LEMMA FirstStops ==
  ASSUME NEW b \in Seq(Octet), NEW lo \in 0..Len(b), NEW C
  PROVE  First(b, lo, C) \in lo..Len(b) /\ StopsAt(b, lo, First(b, lo, C), C)
<1>1. Len(b) \in Nat
  BY LenProperties
<1> DEFINE T == {q \in lo..Len(b) : q = Len(b) \/ At(b, q) \in C}
<1>2. T \subseteq Nat /\ T # {}
  BY <1>1
<1>3. PICK q \in T : \A r \in T : q <= r
  <2> HIDE DEF T
  <2> QED
    BY <1>2, LeastElement
<1>4. \A r \in lo..(q - 1) : At(b, r) \notin C
  BY <1>1, <1>3
<1>5. StopsAt(b, lo, q, C)
  BY <1>4 DEF StopsAt
<1>6. \E x \in lo..Len(b) : StopsAt(b, lo, x, C)
  BY <1>5
<1> QED
  BY <1>6 DEF First

\* It stops at one place only.
LEMMA FirstEquals ==
  ASSUME NEW b \in Seq(Octet), NEW lo \in 0..Len(b), NEW C,
         NEW q \in lo..Len(b), StopsAt(b, lo, q, C)
  PROVE  First(b, lo, C) = q
<1> DEFINE f == First(b, lo, C)
<1>1. f \in lo..Len(b) /\ StopsAt(b, lo, f, C) /\ Len(b) \in Nat
  BY FirstStops, LenProperties
<1> HIDE DEF f
<1>2. ~(f < q)
  BY <1>1 DEF StopsAt
<1>3. ~(q < f)
  BY <1>1 DEF StopsAt
<1>4. f = q
  BY <1>1, <1>2, <1>3
<1> QED
  BY <1>4 DEF f

----------------------------------------------------------------------------
\* N is the function that Number defines.
NumberRec(b, lo, hi, N) ==
  N = [q \in lo..hi |->
        IF q = lo THEN 0 ELSE N[q - 1] * 16 + DecodeHex(At(b, q - 1))]

\* There is such a function.
LEMMA NumbersExist ==
  ASSUME NEW b, NEW lo \in Nat, NEW k \in Nat
  PROVE  \E N : NumberRec(b, lo, lo + k, N)
<1> DEFINE T == {n \in Nat : ~ \E N : NumberRec(b, lo, lo + n, N)}
<1>1. 0 \notin T
  <2> DEFINE N == [q \in {lo} |-> 0]
  <2>1. lo..(lo + 0) = {lo}
    OBVIOUS
  <2>2. NumberRec(b, lo, lo + 0, N)
    BY <2>1 DEF NumberRec
  <2> QED
    BY <2>2
<1>2. ASSUME NEW n \in Nat, n \notin T
      PROVE  n + 1 \notin T
  <2>1. PICK F : NumberRec(b, lo, lo + n, F)
    BY <1>2
  <2> DEFINE v == F[lo + n] * 16 + DecodeHex(At(b, lo + n))
             G == [q \in lo..(lo + n + 1) |-> IF q = lo + n + 1 THEN v ELSE F[q]]
  <2>2. \A q \in lo..(lo + n + 1) :
          G[q] = IF q = lo THEN 0 ELSE G[q - 1] * 16 + DecodeHex(At(b, q - 1))
    <3> SUFFICES ASSUME NEW q \in lo..(lo + n + 1)
                 PROVE  G[q] = IF q = lo THEN 0 ELSE G[q - 1] * 16 + DecodeHex(At(b, q - 1))
      OBVIOUS
    <3>1. CASE q = lo + n + 1
      <4>1. q # lo /\ q - 1 = lo + n /\ G[q - 1] = F[lo + n] /\ G[q] = v
        BY <3>1
      <4> QED
        BY <4>1
    <3>2. CASE q # lo + n + 1
      <4>1. q \in lo..(lo + n) /\ G[q] = F[q]
        BY <3>2
      <4>2. F[q] = IF q = lo THEN 0 ELSE F[q - 1] * 16 + DecodeHex(At(b, q - 1))
        BY <2>1, <4>1 DEF NumberRec
      <4>3. q # lo => G[q - 1] = F[q - 1]
        BY <4>1
      <4> HIDE DEF G
      <4> QED
        BY <4>1, <4>2, <4>3
    <3> QED
      BY <3>1, <3>2
  <2>3. lo + (n + 1) = lo + n + 1
    OBVIOUS
  <2>4. NumberRec(b, lo, lo + (n + 1), G)
    BY <2>2, <2>3 DEF NumberRec
  <2> HIDE DEF G
  <2> QED
    BY <2>4
<1>3. T = {}
  <2> SUFFICES ASSUME T # {} PROVE FALSE
    OBVIOUS
  <2>1. PICK n \in T : \A m \in T : n <= m
    BY LeastElement
  <2>2. n \in Nat /\ n # 0
    BY <1>1, <2>1
  <2>3. n - 1 \in Nat /\ n - 1 \notin T
    BY <2>1, <2>2
  <2> HIDE DEF T
  <2>4. (n - 1) + 1 \notin T
    BY <1>2, <2>3
  <2> QED
    BY <2>1, <2>2, <2>4
<1> QED
  BY <1>3

\* Where two sequences agree, so do the numbers their digits make.
LEMMA NumbersAgree ==
  ASSUME NEW b, NEW c, NEW lo \in Nat, NEW h \in Nat, NEW k \in Nat, NEW F, NEW G,
         NumberRec(b, lo, h, F), NumberRec(c, lo, k, G),
         NEW e \in lo..h, e <= k, \A i \in lo..(e - 1) : At(b, i) = At(c, i)
  PROVE  F[e] = G[e]
<1> DEFINE T == {q \in lo..e : F[q] # G[q]}
<1> SUFFICES ASSUME T # {} PROVE FALSE
  OBVIOUS
<1>1. T \subseteq Nat
  OBVIOUS
<1>2. PICK q \in T : \A r \in T : q <= r
  <2> HIDE DEF T
  <2> QED
    BY <1>1, LeastElement
<1>3. /\ q \in lo..h /\ q \in lo..k /\ q \in lo..e /\ F[q] # G[q]
  OBVIOUS
<1>4. /\ F[q] = IF q = lo THEN 0 ELSE F[q - 1] * 16 + DecodeHex(At(b, q - 1))
      /\ G[q] = IF q = lo THEN 0 ELSE G[q - 1] * 16 + DecodeHex(At(c, q - 1))
  BY <1>3 DEF NumberRec
<1>5. q # lo
  BY <1>3, <1>4
<1>6. q - 1 \in lo..e /\ q - 1 \in lo..(e - 1) /\ q - 1 \notin T
  BY <1>2, <1>3, <1>5
<1>7. F[q - 1] = G[q - 1] /\ At(b, q - 1) = At(c, q - 1)
  BY <1>6
<1> HIDE DEF T
<1> QED
  BY <1>3, <1>4, <1>5, <1>7

\* What Number returns.
LEMMA NumberIs ==
  ASSUME NEW b, NEW lo \in Nat, NEW hi \in Nat, lo <= hi
  PROVE  \E N : NumberRec(b, lo, hi, N) /\ Number(b, lo, hi) = N[hi]
<1> DEFINE N == CHOOSE F : NumberRec(b, lo, hi, F)
<1>1. hi - lo \in Nat /\ lo + (hi - lo) = hi
  OBVIOUS
<1>2. \E F : NumberRec(b, lo, hi, F)
  <2>1. \E F : NumberRec(b, lo, lo + (hi - lo), F)
    <3> DEFINE k == hi - lo
    <3>1. k \in Nat
      BY <1>1
    <3> HIDE DEF k
    <3>2. \E F : NumberRec(b, lo, lo + k, F)
      BY <3>1, NumbersExist
    <3> QED
      BY <3>2 DEF k
  <2> QED
    BY <1>1, <2>1
<1>3. NumberRec(b, lo, hi, N)
  BY <1>2
<1>4. Number(b, lo, hi) = N[hi]
  BY DEF Number, NumberRec
<1> HIDE DEF N
<1> QED
  BY <1>3, <1>4

\* No digit makes zero.
LEMMA NumberOfNone ==
  ASSUME NEW b, NEW lo \in Nat
  PROVE  Number(b, lo, lo) = 0
<1>1. PICK N : NumberRec(b, lo, lo, N) /\ Number(b, lo, lo) = N[lo]
  BY NumberIs
<1> QED
  BY <1>1 DEF NumberRec

\* One digit more.
LEMMA NumberOfMore ==
  ASSUME NEW b, NEW lo \in Nat, NEW hi \in Nat, lo <= hi
  PROVE  Number(b, lo, hi + 1) = Number(b, lo, hi) * 16 + DecodeHex(At(b, hi))
<1>1. PICK F : NumberRec(b, lo, hi, F) /\ Number(b, lo, hi) = F[hi]
  BY NumberIs
<1>2. PICK G : NumberRec(b, lo, hi + 1, G) /\ Number(b, lo, hi + 1) = G[hi + 1]
  <2>1. hi + 1 \in Nat /\ lo <= hi + 1
    OBVIOUS
  <2> QED
    BY <2>1, NumberIs
<1>3. G[hi + 1] = G[hi] * 16 + DecodeHex(At(b, hi))
  <2>1. hi + 1 \in lo..(hi + 1) /\ hi + 1 # lo /\ (hi + 1) - 1 = hi
    OBVIOUS
  <2> QED
    BY <1>2, <2>1 DEF NumberRec
<1>4. F[hi] = G[hi]
  <2>1. hi \in lo..hi /\ hi <= hi + 1 /\ hi + 1 \in Nat
    OBVIOUS
  <2> QED
    BY <1>1, <1>2, <2>1, NumbersAgree
<1> QED
  BY <1>1, <1>2, <1>3, <1>4

\* Equal digits make equal numbers.
LEMMA NumberOfSame ==
  ASSUME NEW b, NEW c, NEW lo \in Nat, NEW hi \in Nat, lo <= hi,
         \A i \in lo..(hi - 1) : At(b, i) = At(c, i)
  PROVE  Number(b, lo, hi) = Number(c, lo, hi)
<1>1. PICK F : NumberRec(b, lo, hi, F) /\ Number(b, lo, hi) = F[hi]
  BY NumberIs
<1>2. PICK G : NumberRec(c, lo, hi, G) /\ Number(c, lo, hi) = G[hi]
  BY NumberIs
<1>3. hi \in lo..hi /\ hi <= hi
  OBVIOUS
<1> QED
  BY <1>1, <1>2, <1>3, NumbersAgree

\* The value of a digit.
LEMMA DigitValue ==
  ASSUME NEW c \in Octet, c \notin NotHex
  PROVE  DecodeHex(c) \in 0..15
<1>1. DecodeHex(c) # -1
  BY DEF NotHex
<1>2. CASE c \in 48..57
  BY <1>2 DEF DecodeHex, ZERO, NINE
<1>3. CASE c \in 65..70
  BY <1>3 DEF DecodeHex, ZERO, NINE
<1>4. CASE c \in 97..102
  BY <1>4 DEF DecodeHex, ZERO, NINE
<1>5. CASE c \notin 48..57 /\ c \notin 65..70 /\ c \notin 97..102
  BY <1>1, <1>5 DEF DecodeHex, ZERO, NINE
<1> QED
  BY <1>2, <1>3, <1>4, <1>5

\* Digits make a natural number.
LEMMA NumberTyped ==
  ASSUME NEW b \in Seq(Octet), NEW lo \in Nat, NEW hi \in Nat, lo <= hi, hi <= Len(b),
         \A i \in lo..(hi - 1) : At(b, i) \notin NotHex
  PROVE  Number(b, lo, hi) \in Nat
<1>1. PICK N : NumberRec(b, lo, hi, N) /\ Number(b, lo, hi) = N[hi]
  BY NumberIs
<1> DEFINE T == {q \in lo..hi : N[q] \notin Nat}
<1>2. T = {}
  <2> SUFFICES ASSUME T # {} PROVE FALSE
    OBVIOUS
  <2>1. T \subseteq Nat
    OBVIOUS
  <2>2. PICK q \in T : \A r \in T : q <= r
    <3> HIDE DEF T
    <3> QED
      BY <2>1, LeastElement
  <2>3. q \in lo..hi /\ N[q] \notin Nat
    OBVIOUS
  <2>4. N[q] = IF q = lo THEN 0 ELSE N[q - 1] * 16 + DecodeHex(At(b, q - 1))
    BY <1>1, <2>3 DEF NumberRec
  <2>5. q # lo
    BY <2>3, <2>4
  <2>6. N[q - 1] \in Nat /\ q - 1 \in lo..(hi - 1)
    BY <2>2, <2>3, <2>5
  <2>7. DecodeHex(At(b, q - 1)) \in 0..15
    <3>1. q - 1 \in 0..(Len(b) - 1)
      BY <2>6, LenProperties
    <3> QED
      BY <2>6, <3>1, ReadAt, DigitValue
  <2> DEFINE x == N[q - 1]
             d == DecodeHex(At(b, q - 1))
  <2>8. x * 16 + d \in Nat
    <3>1. x \in Nat /\ d \in 0..15
      BY <2>6, <2>7
    <3> HIDE DEF x, d
    <3> QED
      BY <3>1
  <2> HIDE DEF T, x, d
  <2> QED
    BY <2>3, <2>4, <2>5, <2>8 DEF x, d
<1> QED
  BY <1>1, <1>2

----------------------------------------------------------------------------
(***************************************************************************)
(* Meaning, from a place on where a chunk begins.                          *)
(***************************************************************************)
SizeEnd(b, p) == First(b, p, NotHex)

LineEnd(b, p) == First(b, SizeEnd(b, p), {CR, LF})

Size(b, p) == Number(b, p, SizeEnd(b, p))

After(b, p) == LineEnd(b, p) + 2 + Size(b, p)

Arrived(b, p) == SubSeq(b, LineEnd(b, p) + 2 + 1, Min({After(b, p), Len(b)}))

BadLine(b, p) ==
  \/ SizeEnd(b, p) - p > MaxHex
  \/ SizeEnd(b, p) < Len(b) /\ SizeEnd(b, p) = p
  \/ SizeEnd(b, p) < Len(b) /\ At(b, SizeEnd(b, p)) \notin AfterSize
  \/ NotCRLF(b, LineEnd(b, p))

Meanings ==
  [verdict : {"more", "bad", "done"}, out : Seq(Octet), inData : BOOLEAN, end : Nat]

\* m after the payload out.
Prepend(out, m) == [m EXCEPT !.out = out \o @]

\* What b[p:] means if a chunk begins at p and Chunks says what is after it.
ChunkAt(b, consume_trailer, Chunks, p) ==
  LET digits == First(b, p, NotHex)
      crlf   == First(b, digits, {CR, LF})
      data   == crlf + 2
      size   == Number(b, p, digits)
      after  == data + size
      arrived == SubSeq(b, data + 1, Min({after, Len(b)}))
      badLine == \/ digits - p > MaxHex
                 \/ digits < Len(b) /\ digits = p
                 \/ digits < Len(b) /\ At(b, digits) \notin AfterSize
                 \/ NotCRLF(b, crlf)
  IN  CASE badLine -> Bad
        [] ~badLine /\ data > Len(b) -> More(<<>>, FALSE)
        [] ~badLine /\ data <= Len(b) /\ size = 0 ->
             IF consume_trailer THEN Trailer(b, data) ELSE Done(data)
        [] OTHER ->
             IF NotCRLF(b, after) THEN Bad
             ELSE IF after + 2 > Len(b) THEN More(arrived, after > Len(b))
             ELSE [Chunks[after + 2] EXCEPT !.out = arrived \o @]

\* Chunks is the function that Meaning defines.
ChunksRec(b, consume_trailer, Chunks) ==
  Chunks = [p \in 0..Len(b) |-> ChunkAt(b, consume_trailer, Chunks, p)]

\* What b[p:] means if a chunk begins at p.
From(b, consume_trailer, p) == (CHOOSE F : ChunksRec(b, consume_trailer, F))[p]

\* F follows links that lead forward, up to a place to stop at, and collects
\* what is payload on the way.
Linked(n, stop, end, piece, next, F) ==
  F = [p \in 0..n |-> IF p \in stop THEN end[p] ELSE Prepend(piece[p], F[next[p]])]

\* There is a function that does so.
LEMMA LinkedExists ==
  ASSUME NEW n \in Nat, NEW stop, NEW end, NEW piece, NEW next,
         \A p \in 0..n : p \notin stop => next[p] \in (p + 1)..n
  PROVE  \E F : Linked(n, stop, end, piece, next, F)
<1> DEFINE D(k) == {p \in 0..n : n - p < k}
           R(F, k) == F = [p \in D(k) |-> IF p \in stop THEN end[p]
                                          ELSE Prepend(piece[p], F[next[p]])]
           T == {k \in Nat : ~ \E F : R(F, k)}
<1>1. 0 \notin T
  <2> DEFINE F == [p \in {} |-> 0]
  <2>1. D(0) = {}
    OBVIOUS
  <2>2. R(F, 0)
    BY <2>1
  <2> HIDE DEF R
  <2> QED
    BY <2>2
<1>2. ASSUME NEW k \in Nat, k \notin T
      PROVE  k + 1 \notin T
  <2>1. PICK F : R(F, k)
    BY <1>2
  <2> DEFINE G == [p \in D(k + 1) |->
                     IF p \in D(k) THEN F[p]
                     ELSE IF p \in stop THEN end[p] ELSE Prepend(piece[p], F[next[p]])]
  <2>2. ASSUME NEW p \in D(k + 1), p \notin stop
        PROVE  next[p] \in D(k)
    <3>1. next[p] \in (p + 1)..n
      BY <2>2
    <3> QED
      BY <3>1
  <2>3. D(k) \subseteq D(k + 1)
    OBVIOUS
  <2> HIDE DEF D
  <2>4. \A p \in D(k + 1) :
          G[p] = IF p \in stop THEN end[p] ELSE Prepend(piece[p], G[next[p]])
    <3> SUFFICES ASSUME NEW p \in D(k + 1)
                 PROVE  G[p] = IF p \in stop THEN end[p] ELSE Prepend(piece[p], G[next[p]])
      OBVIOUS
    <3>1. CASE p \in stop
      BY <2>1, <3>1
    <3>2. CASE p \notin stop
      <4>1. next[p] \in D(k) /\ G[next[p]] = F[next[p]]
        BY <2>2, <2>3, <3>2
      <4>2. G[p] = Prepend(piece[p], F[next[p]])
        BY <2>1, <3>2
      <4> QED
        BY <3>2, <4>1, <4>2
    <3> QED
      BY <3>1, <3>2
  <2>5. R(G, k + 1)
    BY <2>4
  <2> HIDE DEF R
  <2> QED
    BY <2>5
<1> HIDE DEF R
<1>3. T = {}
  <2> SUFFICES ASSUME T # {} PROVE FALSE
    OBVIOUS
  <2>1. PICK k \in T : \A m \in T : k <= m
    BY LeastElement
  <2>2. k \in Nat /\ k # 0
    BY <1>1, <2>1
  <2>3. k - 1 \in Nat /\ k - 1 \notin T
    BY <2>1, <2>2
  <2> HIDE DEF T
  <2>4. (k - 1) + 1 \notin T
    BY <1>2, <2>3
  <2> QED
    BY <2>1, <2>2, <2>4
<1>4. n + 1 \in Nat /\ D(n + 1) = 0..n
  OBVIOUS
<1> HIDE DEF D
<1>5. PICK F : R(F, n + 1)
  BY <1>3, <1>4
<1> QED
  BY <1>4, <1>5 DEF R, Linked

\* A meaning after some payload is a meaning.
LEMMA PrependTyped ==
  ASSUME NEW m \in Meanings, NEW out \in Seq(Octet)
  PROVE  /\ Prepend(out, m) \in Meanings
         /\ Prepend(out, m).out = out \o m.out
         /\ Prepend(out, m).verdict = m.verdict
         /\ Prepend(out, m).inData = m.inData
         /\ Prepend(out, m).end = m.end
<1> DEFINE o == out \o m.out
<1>1. m.out \in Seq(Octet)
  BY DEF Meanings
<1>2. o \in Seq(Octet)
  BY <1>1, ConcatProperties
<1>3. Prepend(out, m) = [m EXCEPT !.out = o]
  BY DEF Prepend
<1> HIDE DEF o
<1>4. /\ [m EXCEPT !.out = o] \in Meanings
      /\ [m EXCEPT !.out = o].out = o
      /\ [m EXCEPT !.out = o].verdict = m.verdict
      /\ [m EXCEPT !.out = o].inData = m.inData
      /\ [m EXCEPT !.out = o].end = m.end
  BY <1>2 DEF Meanings
<1> QED
  BY <1>3, <1>4 DEF o

\* If the ends are meanings and the pieces are payload, every value is a meaning.
LEMMA LinkedTyped ==
  ASSUME NEW n \in Nat, NEW stop, NEW end, NEW piece, NEW next,
         \A p \in 0..n : p \notin stop => next[p] \in (p + 1)..n /\ piece[p] \in Seq(Octet),
         \A p \in 0..n : p \in stop => end[p] \in Meanings,
         NEW F, Linked(n, stop, end, piece, next, F)
  PROVE  \A p \in 0..n : F[p] \in Meanings
<1> DEFINE T == {p \in 0..n : F[p] \notin Meanings}
           C == {n - p : p \in T}
<1>1. SUFFICES ASSUME T # {} PROVE FALSE
  OBVIOUS
<1>2. C \subseteq Nat /\ C # {}
  <2>1. PICK p \in T : TRUE
    BY <1>1
  <2>2. n - p \in C
    BY <2>1
  <2>3. \A q \in T : n - q \in Nat
    OBVIOUS
  <2> QED
    BY <2>2, <2>3
<1>3. PICK c \in C : \A m \in C : c <= m
  <2> HIDE DEF C
  <2> QED
    BY <1>2, LeastElement
<1>4. PICK p \in T : c = n - p
  OBVIOUS
<1>5. p \in 0..n /\ F[p] \notin Meanings
  OBVIOUS
<1>6. F[p] = IF p \in stop THEN end[p] ELSE Prepend(piece[p], F[next[p]])
  BY <1>5 DEF Linked
<1>7. p \notin stop
  BY <1>5, <1>6
<1> DEFINE k == next[p]
<1>8. k \in (p + 1)..n /\ piece[p] \in Seq(Octet) /\ F[p] = Prepend(piece[p], F[k])
  BY <1>5, <1>6, <1>7
<1> HIDE DEF k
<1>9. F[k] \notin Meanings
  BY <1>5, <1>8, PrependTyped
<1>10. k \in T
  BY <1>5, <1>8, <1>9
<1>11. n - k \in C
  BY <1>10
<1> HIDE DEF C, T
<1>12. n - p <= n - k
  BY <1>3, <1>4, <1>11
<1> QED
  BY <1>5, <1>8, <1>12

----------------------------------------------------------------------------
\* Where the parts of a chunk that begins at p are.
LEMMA PartsOf ==
  ASSUME NEW b \in Seq(Octet), NEW p \in 0..Len(b)
  PROVE  /\ Len(b) \in Nat
         /\ SizeEnd(b, p) \in p..Len(b)
         /\ LineEnd(b, p) \in SizeEnd(b, p)..Len(b)
         /\ Size(b, p) \in Nat
         /\ After(b, p) \in (p + 2)..After(b, p)
         /\ LineEnd(b, p) + 2 <= Len(b) => Arrived(b, p) \in Seq(Octet)
<1>1. Len(b) \in Nat
  BY LenProperties
<1>2. SizeEnd(b, p) \in p..Len(b) /\ StopsAt(b, p, SizeEnd(b, p), NotHex)
  BY FirstStops DEF SizeEnd
<1>3. LineEnd(b, p) \in SizeEnd(b, p)..Len(b)
  <2>1. SizeEnd(b, p) \in 0..Len(b)
    BY <1>1, <1>2
  <2> QED
    BY <2>1, FirstStops DEF LineEnd
<1>4. Size(b, p) \in Nat
  <2>1. \A i \in p..(SizeEnd(b, p) - 1) : At(b, i) \notin NotHex
    BY <1>2 DEF StopsAt
  <2>2. p \in Nat /\ SizeEnd(b, p) \in Nat /\ p <= SizeEnd(b, p) /\ SizeEnd(b, p) <= Len(b)
    BY <1>1, <1>2
  <2> QED
    BY <2>1, <2>2, NumberTyped DEF Size
<1> DEFINE s == SizeEnd(b, p)
           l == LineEnd(b, p)
           z == Size(b, p)
<1>5. s \in p..Len(b) /\ l \in s..Len(b) /\ z \in Nat /\ After(b, p) = l + 2 + z
  BY <1>2, <1>3, <1>4 DEF After
<1>6. After(b, p) \in (p + 2)..After(b, p) /\ After(b, p) \in Nat
  <2> HIDE DEF s, l, z
  <2> QED
    BY <1>1, <1>5
<1>7. ASSUME l + 2 <= Len(b)
      PROVE  Arrived(b, p) \in Seq(Octet)
  <2> DEFINE m == Min({After(b, p), Len(b)})
  <2>1. m = IF After(b, p) <= Len(b) THEN After(b, p) ELSE Len(b)
    BY <1>1, <1>6, MinOfTwo
  <2>2. m - (l + 2) \in Nat /\ l + 2 \in Nat /\ (l + 2) + (m - (l + 2)) = m /\ m <= Len(b)
    <3> DEFINE a == After(b, p)
               n == Len(b)
    <3>1. /\ a = l + 2 + z /\ m = IF a <= n THEN a ELSE n
          /\ n \in Nat /\ l \in Nat /\ z \in Nat /\ l + 2 <= n
      BY <1>1, <1>5, <1>7, <2>1
    <3> HIDE DEF z, m, a, l, n
    <3>2. m \in Nat /\ l + 2 <= m /\ m <= n
      BY <3>1
    <3>3. m - (l + 2) \in Nat /\ l + 2 \in Nat /\ (l + 2) + (m - (l + 2)) = m
      BY <3>1, <3>2
    <3> QED
      BY <3>2, <3>3 DEF n
  <2>3. Arrived(b, p) = SubSeq(b, (l + 2) + 1, (l + 2) + (m - (l + 2)))
    BY <2>2 DEF Arrived
  <2> HIDE DEF m, l
  <2> DEFINE lo == l + 2
             k == m - (l + 2)
  <2>4. /\ lo \in Nat /\ k \in Nat /\ lo + k <= Len(b)
        /\ Arrived(b, p) = SubSeq(b, lo + 1, lo + k)
    BY <2>2, <2>3
  <2> HIDE DEF lo, k
  <2> QED
    BY <2>4, PrefixOf
<1> QED
  BY <1>1, <1>2, <1>3, <1>4, <1>6, <1>7

----------------------------------------------------------------------------
(***************************************************************************)
(* A chunk that no other follows, and what the body means from any chunk   *)
(* on.                                                                     *)
(***************************************************************************)

\* No chunk of b follows the one that begins at p.
Ends(b, p) ==
  \/ BadLine(b, p)
  \/ LineEnd(b, p) + 2 > Len(b)
  \/ Size(b, p) = 0
  \/ NotCRLF(b, After(b, p))
  \/ After(b, p) + 2 > Len(b)

\* What b[p:] means then.
LastOf(b, consume_trailer, p) ==
  IF BadLine(b, p) THEN Bad
  ELSE IF LineEnd(b, p) + 2 > Len(b) THEN More(<<>>, FALSE)
  ELSE IF Size(b, p) = 0
       THEN IF consume_trailer THEN Trailer(b, LineEnd(b, p) + 2) ELSE Done(LineEnd(b, p) + 2)
  ELSE IF NotCRLF(b, After(b, p)) THEN Bad
  ELSE More(Arrived(b, p), After(b, p) > Len(b))

\* What the trailer means is a meaning.
LEMMA TrailerTyped ==
  ASSUME NEW b \in Seq(Octet), NEW lo \in Nat
  PROVE  Trailer(b, lo) \in Meanings
<1> DEFINE E == EmptyLines(b, lo)
<1>1. E \subseteq Nat
  <2>1. lo..(Len(b) - 1) \subseteq Nat
    BY LenProperties
  <2> QED
    BY <2>1 DEF EmptyLines
<1>2. <<>> \in Seq(Octet)
  BY EmptySeq
<1>3. CASE E = {}
  <2>1. Trailer(b, lo) = More(<<>>, FALSE)
    BY <1>3 DEF Trailer
  <2> QED
    BY <1>2, <2>1 DEF More, Meanings
<1>4. CASE E # {}
  <2> HIDE DEF E
  <2>1. PICK f \in E : \A g \in E : f <= g
    BY <1>1, <1>4, LeastElement
  <2>2. Min(E) = f
    BY <1>1, <2>1, MinEquals
  <2>3. Trailer(b, lo) = Done(f + 1)
    BY <1>4, <2>2 DEF Trailer, E
  <2>4. f + 1 \in Nat
    BY <1>1
  <2> QED
    BY <1>2, <2>3, <2>4 DEF Done, Meanings
<1> QED
  BY <1>3, <1>4

\* So is what a chunk with none after it means.
LEMMA LastTyped ==
  ASSUME NEW b \in Seq(Octet), NEW ct \in BOOLEAN, NEW p \in 0..Len(b)
  PROVE  LastOf(b, ct, p) \in Meanings
<1>1. /\ LineEnd(b, p) + 2 \in Nat
      /\ LineEnd(b, p) + 2 <= Len(b) => Arrived(b, p) \in Seq(Octet)
      /\ (LineEnd(b, p) + 2 > Len(b)) <=> ~(LineEnd(b, p) + 2 <= Len(b))
  <2>1. /\ Len(b) \in Nat /\ SizeEnd(b, p) \in p..Len(b)
        /\ LineEnd(b, p) \in SizeEnd(b, p)..Len(b)
        /\ LineEnd(b, p) + 2 <= Len(b) => Arrived(b, p) \in Seq(Octet)
    BY PartsOf
  <2> QED
    BY <2>1
<1>2. <<>> \in Seq(Octet)
  BY EmptySeq
<1>3. Bad \in Meanings /\ More(<<>>, FALSE) \in Meanings
  BY <1>2 DEF Bad, More, Meanings
<1>4. ASSUME NEW n \in Nat
      PROVE  Done(n) \in Meanings
  BY <1>2 DEF Done, Meanings
<1>5. ASSUME NEW o \in Seq(Octet), NEW c \in BOOLEAN
      PROVE  More(o, c) \in Meanings
  BY DEF More, Meanings
<1>6. Trailer(b, LineEnd(b, p) + 2) \in Meanings
  BY <1>1, TrailerTyped
<1>7. LineEnd(b, p) + 2 <= Len(b) => More(Arrived(b, p), After(b, p) > Len(b)) \in Meanings
  <2>1. (After(b, p) > Len(b)) \in BOOLEAN
    OBVIOUS
  <2> QED
    BY <1>1, <1>5, <2>1
<1>8. Done(LineEnd(b, p) + 2) \in Meanings
  BY <1>1, <1>4
<1> QED
  BY <1>1, <1>3, <1>6, <1>7, <1>8 DEF LastOf

\* What the body of Chunks yields.
LEMMA ChunksUnfold ==
  ASSUME NEW b \in Seq(Octet), NEW ct \in BOOLEAN, NEW F
  PROVE  ChunksRec(b, ct, F) <=>
           F = [p \in 0..Len(b) |-> IF Ends(b, p) THEN LastOf(b, ct, p)
                                    ELSE Prepend(Arrived(b, p), F[After(b, p) + 2])]
<1>1. ASSUME NEW p \in 0..Len(b)
      PROVE  ChunkAt(b, ct, F, p) = IF Ends(b, p) THEN LastOf(b, ct, p)
                                    ELSE Prepend(Arrived(b, p), F[After(b, p) + 2])
  <2> DEFINE data == LineEnd(b, p) + 2
             rest == Prepend(Arrived(b, p), F[After(b, p) + 2])
  <2>1. (data > Len(b)) <=> ~(data <= Len(b))
    <3>1. Len(b) \in Nat /\ SizeEnd(b, p) \in p..Len(b) /\ LineEnd(b, p) \in SizeEnd(b, p)..Len(b)
      BY PartsOf
    <3> QED
      BY <3>1
  <2>2. (CASE BadLine(b, p) -> Bad
           [] ~BadLine(b, p) /\ data > Len(b) -> More(<<>>, FALSE)
           [] ~BadLine(b, p) /\ data <= Len(b) /\ Size(b, p) = 0 ->
                IF ct THEN Trailer(b, data) ELSE Done(data)
           [] OTHER ->
                IF NotCRLF(b, After(b, p)) THEN Bad
                ELSE IF After(b, p) + 2 > Len(b) THEN More(Arrived(b, p), After(b, p) > Len(b))
                ELSE rest)
        = IF Ends(b, p) THEN LastOf(b, ct, p) ELSE rest
    <3> HIDE DEF rest
    <3>1. CASE BadLine(b, p)
      BY <3>1 DEF Ends, LastOf
    <3>2. CASE ~BadLine(b, p) /\ data > Len(b)
      BY <2>1, <3>2 DEF Ends, LastOf
    <3>3. CASE ~BadLine(b, p) /\ data <= Len(b) /\ Size(b, p) = 0
      BY <2>1, <3>3 DEF Ends, LastOf
    <3>4. CASE ~BadLine(b, p) /\ data <= Len(b) /\ Size(b, p) # 0
      BY <2>1, <3>4 DEF Ends, LastOf
    <3> QED
      BY <2>1, <3>1, <3>2, <3>3, <3>4
  <2> QED
    BY <2>2 DEF ChunkAt, BadLine, SizeEnd, LineEnd, Size, After, Arrived, Prepend
<1> QED
  BY <1>1 DEF ChunksRec

\* What From yields.
LEMMA FromIs ==
  ASSUME NEW b \in Seq(Octet), NEW ct \in BOOLEAN
  PROVE  /\ Meaning(b, ct) = From(b, ct, 0)
         /\ \A p \in 0..Len(b) :
              /\ From(b, ct, p) \in Meanings
              /\ Ends(b, p) => From(b, ct, p) = LastOf(b, ct, p)
              /\ ~Ends(b, p) =>
                   /\ From(b, ct, p) = Prepend(Arrived(b, p), From(b, ct, After(b, p) + 2))
                   /\ Arrived(b, p) \in Seq(Octet)
                   /\ After(b, p) + 2 \in (p + 1)..Len(b)
<1> DEFINE n == Len(b)
           stop  == {p \in 0..n : Ends(b, p)}
           end   == [p \in 0..n |-> LastOf(b, ct, p)]
           piece == [p \in 0..n |-> Arrived(b, p)]
           next  == [p \in 0..n |-> After(b, p) + 2]
           Rec(F) == Linked(n, stop, end, piece, next, F)
<1>1. n \in Nat
  BY LenProperties
<1>2. ASSUME NEW p \in 0..n, ~Ends(b, p)
      PROVE  /\ After(b, p) + 2 \in (p + 1)..n
             /\ Arrived(b, p) \in Seq(Octet)
  <2>1. /\ Len(b) \in Nat
        /\ After(b, p) \in (p + 2)..After(b, p)
        /\ LineEnd(b, p) \in SizeEnd(b, p)..Len(b) /\ SizeEnd(b, p) \in p..Len(b)
        /\ LineEnd(b, p) + 2 <= Len(b) => Arrived(b, p) \in Seq(Octet)
    BY PartsOf
  <2>2. ~(LineEnd(b, p) + 2 > Len(b)) /\ ~(After(b, p) + 2 > Len(b))
    BY <1>2 DEF Ends
  <2>3. After(b, p) + 2 \in (p + 1)..n
    <3> DEFINE a == After(b, p)
    <3>1. a \in (p + 2)..a /\ ~(a + 2 > n)
      BY <2>1, <2>2
    <3> HIDE DEF a, n
    <3>2. a + 2 \in (p + 1)..n
      BY <1>1, <3>1
    <3> QED
      BY <3>2 DEF a
  <2>4. LineEnd(b, p) + 2 <= Len(b)
    BY <2>1, <2>2
  <2> QED
    BY <2>1, <2>3, <2>4
<1>3. \A p \in 0..n : p \notin stop => next[p] \in (p + 1)..n /\ piece[p] \in Seq(Octet)
  BY <1>2
<1>4. \A p \in 0..n : p \in stop => end[p] \in Meanings
  BY LastTyped
<1>5. \A F : Rec(F) <=> ChunksRec(b, ct, F)
  <2> SUFFICES ASSUME NEW F
               PROVE  Rec(F) <=> ChunksRec(b, ct, F)
    OBVIOUS
  <2>1. \A p \in 0..n :
          (IF p \in stop THEN end[p] ELSE Prepend(piece[p], F[next[p]]))
          = (IF Ends(b, p) THEN LastOf(b, ct, p)
             ELSE Prepend(Arrived(b, p), F[After(b, p) + 2]))
    OBVIOUS
  <2>2. Rec(F) <=> F = [p \in 0..n |-> IF Ends(b, p) THEN LastOf(b, ct, p)
                                       ELSE Prepend(Arrived(b, p), F[After(b, p) + 2])]
    <3> HIDE DEF stop, end, piece, next
    <3> QED
      BY <2>1 DEF Linked
  <2> HIDE DEF Rec
  <2> QED
    BY <2>2, ChunksUnfold
<1>6. \E F : Rec(F)
  <2> HIDE DEF n, stop, end, piece, next
  <2> QED
    BY <1>1, <1>3, LinkedExists
<1> DEFINE F == CHOOSE G : ChunksRec(b, ct, G)
<1>7. ChunksRec(b, ct, F) /\ Rec(F)
  <2> HIDE DEF Rec
  <2> QED
    BY <1>5, <1>6
<1>8. \A p \in 0..n : F[p] \in Meanings
  <2> HIDE DEF n, stop, end, piece, next, F
  <2> QED
    BY <1>1, <1>3, <1>4, <1>7, LinkedTyped
<1>9. Meaning(b, ct) = F[0]
  BY DEF Meaning, ChunksRec, ChunkAt
<1>10. \A p : From(b, ct, p) = F[p]
  BY DEF From
<1> HIDE DEF F
<1>11. \A p \in 0..n :
         F[p] = IF Ends(b, p) THEN LastOf(b, ct, p)
                ELSE Prepend(Arrived(b, p), F[After(b, p) + 2])
  <2>1. F = [p \in 0..n |-> IF Ends(b, p) THEN LastOf(b, ct, p)
                            ELSE Prepend(Arrived(b, p), F[After(b, p) + 2])]
    BY <1>7, ChunksUnfold
  <2> HIDE DEF n
  <2> QED
    BY <2>1
<1> HIDE DEF stop, end, piece, next, Rec
<1> QED
  BY <1>2, <1>8, <1>9, <1>10, <1>11

----------------------------------------------------------------------------
(***************************************************************************)
(* What a prefix of a body means, by how far it reaches into the chunk     *)
(* that begins at p.                                                       *)
(***************************************************************************)

\* b[p:e] is digits, and not too many.
Digits(b, p, e) ==
  /\ p <= e
  /\ e - p <= MaxHex
  /\ \A i \in p..(e - 1) : At(b, i) \notin NotHex

\* A chunk begins at p: digits up to e, then an extension, which is read to q.
Line(b, p, e, q) ==
  /\ Digits(b, p, e)
  /\ p < e
  /\ At(b, e) \in AfterSize
  /\ e <= q
  /\ \A i \in e..(q - 1) : At(b, i) \notin {CR, LF}

\* A chunk begins at p and its line ends at q.
Header(b, p, e, q) == Line(b, p, e, q) /\ At(b, q) = CR /\ At(b, q + 1) = LF

\* What may follow a size is no digit, and it is in the buffer.
LEMMA AfterSizeIs ==
  ASSUME NEW c \in AfterSize
  PROVE  c \in NotHex /\ c # Fault
<1>1. c \in {32, 9, 59, 10, 13}
  BY DEF AfterSize, SP, HT, SEMI, LF, CR
<1>2. DecodeHex(c) = -1
  BY <1>1 DEF DecodeHex, ZERO, NINE
<1> QED
  BY <1>1, <1>2 DEF NotHex, Octet, Fault

\* The end of the buffer is neither CR nor LF.
LEMMA Delimiters ==
  /\ CR # LF /\ Fault \notin {CR, LF} /\ CR # Fault /\ LF # Fault
  /\ \A c \in Octet : c # Fault
BY DEF CR, LF, Fault, Octet

\* The digits run to e.
LEMMA SizeRuns ==
  ASSUME NEW b \in Seq(Octet), NEW p \in 0..Len(b), NEW e \in p..Len(b),
         \A i \in p..(e - 1) : At(b, i) \notin NotHex,
         e = Len(b) \/ At(b, e) \in NotHex
  PROVE  SizeEnd(b, p) = e
BY FirstEquals DEF SizeEnd, StopsAt

\* The extension runs to q.
LEMMA LineRuns ==
  ASSUME NEW b \in Seq(Octet), NEW p \in 0..Len(b), NEW e \in p..Len(b),
         SizeEnd(b, p) = e, NEW q \in e..Len(b),
         \A i \in e..(q - 1) : At(b, i) \notin {CR, LF},
         q = Len(b) \/ At(b, q) \in {CR, LF}
  PROVE  LineEnd(b, p) = q
<1>1. e \in 0..Len(b)
  BY LenProperties
<1> QED
  BY <1>1, FirstEquals DEF LineEnd, StopsAt

\* What a line tells of the chunk.
LEMMA LineRead ==
  ASSUME NEW b \in Seq(Octet), NEW p \in 0..Len(b), NEW e \in Nat, NEW q \in Nat,
         Line(b, p, e, q), q <= Len(b), q = Len(b) \/ At(b, q) \in {CR, LF}
  PROVE  /\ e \in p..Len(b) /\ e < Len(b) /\ q \in e..Len(b)
         /\ SizeEnd(b, p) = e
         /\ LineEnd(b, p) = q
         /\ Size(b, p) = Number(b, p, e)
         /\ BadLine(b, p) <=> NotCRLF(b, q)
<1>1. Len(b) \in Nat
  BY LenProperties
<1>2. At(b, e) \in NotHex /\ At(b, e) # Fault
  BY AfterSizeIs DEF Line
<1>3. e \in 0..(Len(b) - 1)
  BY <1>2 DEF At
<1>4. e \in p..Len(b) /\ e < Len(b) /\ q \in e..Len(b)
  BY <1>1, <1>3 DEF Line
<1>5. SizeEnd(b, p) = e
  BY <1>2, <1>4, SizeRuns DEF Line, Digits
<1>6. LineEnd(b, p) = q
  BY <1>4, <1>5, LineRuns DEF Line
<1>7. Size(b, p) = Number(b, p, e)
  BY <1>5 DEF Size
<1>8. BadLine(b, p) <=> NotCRLF(b, q)
  <2>1. ~(e - p > MaxHex) /\ e # p /\ At(b, e) \in AfterSize
    BY <1>4, MaxHexAssumption DEF Line, Digits
  <2> QED
    BY <1>5, <1>6, <2>1 DEF BadLine
<1> QED
  BY <1>4, <1>5, <1>6, <1>7, <1>8

\* The buffer ends in the digits.
LEMMA InSize ==
  ASSUME NEW b \in Seq(Octet), NEW ct \in BOOLEAN, NEW p \in 0..Len(b),
         Digits(b, p, Len(b))
  PROVE  From(b, ct, p) = More(<<>>, FALSE)
<1> DEFINE n == Len(b)
<1>1. n \in Nat
  BY LenProperties
<1>2. n \in p..n
  BY <1>1
<1>3. SizeEnd(b, p) = n
  BY <1>2, SizeRuns DEF Digits
<1>4. LineEnd(b, p) = n
  <2>1. n \in n..n /\ \A i \in n..(n - 1) : At(b, i) \notin {CR, LF}
    BY <1>1
  <2> QED
    BY <1>2, <1>3, <2>1, LineRuns
<1>5. ~NotCRLF(b, n)
  <2>1. At(b, n) = Fault
    BY <1>1, ReadAt
  <2> QED
    BY <2>1, Delimiters DEF NotCRLF, IsNot
<1>6. ~BadLine(b, p)
  <2>1. ~(n - p > MaxHex) /\ ~(n < n)
    BY <1>1, MaxHexAssumption DEF Digits
  <2> QED
    BY <1>3, <1>4, <1>5, <2>1 DEF BadLine
<1>7. LineEnd(b, p) + 2 > Len(b)
  BY <1>1, <1>4
<1> QED
  BY <1>6, <1>7, FromIs DEF Ends, LastOf

\* A bad line makes a bad body.
LEMMA BadIs ==
  ASSUME NEW b \in Seq(Octet), NEW ct \in BOOLEAN, NEW p \in 0..Len(b), BadLine(b, p)
  PROVE  From(b, ct, p) = Bad
BY FromIs DEF Ends, LastOf

\* More digits than there is room for.
LEMMA TooManyDigits ==
  ASSUME NEW b \in Seq(Octet), NEW ct \in BOOLEAN, NEW p \in 0..Len(b),
         NEW e \in p..(Len(b) - 1), e - p = MaxHex,
         \A i \in p..e : At(b, i) \notin NotHex
  PROVE  From(b, ct, p) = Bad
<1> DEFINE d == SizeEnd(b, p)
<1>1. Len(b) \in Nat /\ d \in p..Len(b) /\ StopsAt(b, p, d, NotHex)
  BY LenProperties, FirstStops DEF SizeEnd
<1> HIDE DEF d
<1>2. d \notin p..e
  BY <1>1 DEF StopsAt
<1>3. d - p > MaxHex
  BY <1>1, <1>2, MaxHexAssumption
<1>4. BadLine(b, p)
  BY <1>3 DEF BadLine, d
<1> QED
  BY <1>4, BadIs

\* No digit, or an octet after them that must not be there.
LEMMA NoSize ==
  ASSUME NEW b \in Seq(Octet), NEW ct \in BOOLEAN, NEW p \in 0..Len(b),
         NEW e \in p..(Len(b) - 1),
         \A i \in p..(e - 1) : At(b, i) \notin NotHex,
         At(b, e) \in NotHex, e = p \/ At(b, e) \notin AfterSize
  PROVE  From(b, ct, p) = Bad
<1>1. Len(b) \in Nat /\ e \in p..Len(b) /\ e < Len(b)
  BY LenProperties
<1>2. SizeEnd(b, p) = e
  BY <1>1, SizeRuns
<1>3. BadLine(b, p)
  BY <1>1, <1>2 DEF BadLine
<1> QED
  BY <1>3, BadIs

\* The buffer ends in the extension or behind its CR.
LEMMA InLine ==
  ASSUME NEW b \in Seq(Octet), NEW ct \in BOOLEAN, NEW p \in 0..Len(b),
         NEW e \in Nat, NEW q \in Nat, Line(b, p, e, q),
         q = Len(b) \/ (q + 1 = Len(b) /\ At(b, q) = CR)
  PROVE  From(b, ct, p) = More(<<>>, FALSE)
<1>1. Len(b) \in Nat /\ q <= Len(b)
  BY LenProperties
<1>2. /\ LineEnd(b, p) = q
      /\ BadLine(b, p) <=> NotCRLF(b, q)
  BY <1>1, LineRead
<1>3. ~NotCRLF(b, q)
  <2>1. CASE q = Len(b)
    <3>1. At(b, q) = Fault
      BY <1>1, <2>1, ReadAt
    <3> QED
      BY <3>1, Delimiters DEF NotCRLF, IsNot
  <2>2. CASE q + 1 = Len(b) /\ At(b, q) = CR
    <3>1. At(b, q + 1) = Fault
      BY <1>1, <2>2, ReadAt
    <3> QED
      BY <2>2, <3>1, Delimiters DEF NotCRLF, IsNot
  <2> QED
    BY <2>1, <2>2
<1>4. q + 2 > Len(b)
  BY <1>1
<1> QED
  BY <1>2, <1>3, <1>4, FromIs DEF Ends, LastOf

\* A folded line, or a CR that no LF follows.
LEMMA BrokenLine ==
  ASSUME NEW b \in Seq(Octet), NEW ct \in BOOLEAN, NEW p \in 0..Len(b),
         NEW e \in Nat, NEW q \in 0..(Len(b) - 1), Line(b, p, e, q),
         \/ At(b, q) = LF
         \/ q + 1 < Len(b) /\ At(b, q) = CR /\ At(b, q + 1) # LF
  PROVE  From(b, ct, p) = Bad
<1>1. Len(b) \in Nat /\ q \in Nat /\ q <= Len(b)
  BY LenProperties
<1>2. BadLine(b, p) <=> NotCRLF(b, q)
  BY <1>1, LineRead
<1>3. NotCRLF(b, q)
  <2>1. CASE At(b, q) = LF
    BY <2>1, Delimiters DEF NotCRLF, IsNot
  <2>2. CASE q + 1 < Len(b) /\ At(b, q) = CR /\ At(b, q + 1) # LF
    <3>1. q + 1 \in 0..(Len(b) - 1)
      BY <1>1, <2>2
    <3>2. At(b, q + 1) \in Octet
      BY <3>1, ReadAt
    <3>3. At(b, q + 1) # Fault
      BY <3>2, Delimiters
    <3> QED
      BY <2>2, <3>3 DEF NotCRLF, IsNot
  <2> QED
    BY <2>1, <2>2
<1> QED
  BY <1>2, <1>3, BadIs

\* What a header tells of the chunk.
LEMMA HeaderRead ==
  ASSUME NEW b \in Seq(Octet), NEW p \in 0..Len(b), NEW e \in Nat, NEW q \in Nat,
         Header(b, p, e, q)
  PROVE  /\ q + 2 <= Len(b)
         /\ e \in p..Len(b) /\ q \in e..Len(b)
         /\ LineEnd(b, p) = q
         /\ Size(b, p) = Number(b, p, e)
         /\ Number(b, p, e) \in Nat
         /\ ~BadLine(b, p)
<1>1. Len(b) \in Nat /\ q + 1 \in 0..(Len(b) - 1)
  BY LenProperties, Delimiters, ReadAt DEF Header
<1>2. q + 2 <= Len(b) /\ q <= Len(b)
  BY <1>1
<1>3. Line(b, p, e, q) /\ At(b, q) = CR /\ At(b, q + 1) = LF
  BY DEF Header
<1>4. /\ e \in p..Len(b) /\ q \in e..Len(b)
      /\ LineEnd(b, p) = q
      /\ Size(b, p) = Number(b, p, e)
      /\ BadLine(b, p) <=> NotCRLF(b, q)
  BY <1>2, <1>3, LineRead
<1>5. ~NotCRLF(b, q)
  BY <1>3 DEF NotCRLF, IsNot
<1>6. Size(b, p) \in Nat
  BY PartsOf
<1> QED
  BY <1>2, <1>4, <1>5, <1>6

\* The chunk of size zero.
LEMMA LastChunk ==
  ASSUME NEW b \in Seq(Octet), NEW ct \in BOOLEAN, NEW p \in 0..Len(b),
         NEW e \in Nat, NEW q \in Nat, Header(b, p, e, q), Number(b, p, e) = 0
  PROVE  From(b, ct, p) = IF ct THEN Trailer(b, q + 2) ELSE Done(q + 2)
<1>1. /\ q + 2 <= Len(b) /\ LineEnd(b, p) = q /\ Size(b, p) = 0 /\ ~BadLine(b, p)
  BY HeaderRead
<1>2. ~(q + 2 > Len(b))
  BY <1>1, LenProperties
<1> QED
  BY <1>1, <1>2, FromIs DEF Ends, LastOf

\* A chunk of another size that is not followed by CR LF.
LEMMA BrokenChunk ==
  ASSUME NEW b \in Seq(Octet), NEW ct \in BOOLEAN, NEW p \in 0..Len(b),
         NEW e \in Nat, NEW q \in Nat, Header(b, p, e, q), Number(b, p, e) > 0,
         NotCRLF(b, q + 2 + Number(b, p, e))
  PROVE  From(b, ct, p) = Bad
<1>1. /\ q + 2 <= Len(b) /\ LineEnd(b, p) = q /\ Size(b, p) = Number(b, p, e)
      /\ Number(b, p, e) \in Nat /\ ~BadLine(b, p)
  BY HeaderRead
<1>2. ~(q + 2 > Len(b)) /\ Number(b, p, e) # 0
  BY <1>1, LenProperties
<1>3. After(b, p) = q + 2 + Number(b, p, e)
  BY <1>1 DEF After
<1> QED
  BY <1>1, <1>2, <1>3, FromIs DEF Ends, LastOf

\* One that the buffer does not reach beyond.
LEMMA OpenChunk ==
  ASSUME NEW b \in Seq(Octet), NEW ct \in BOOLEAN, NEW p \in 0..Len(b),
         NEW e \in Nat, NEW q \in Nat, Header(b, p, e, q), Number(b, p, e) > 0,
         NEW after \in Nat, after = q + 2 + Number(b, p, e),
         ~NotCRLF(b, after), after + 2 > Len(b)
  PROVE  From(b, ct, p) =
           More(SubSeq(b, q + 2 + 1, Min({after, Len(b)})), after > Len(b))
<1>1. /\ q + 2 <= Len(b) /\ LineEnd(b, p) = q /\ Size(b, p) = Number(b, p, e)
      /\ Number(b, p, e) \in Nat /\ ~BadLine(b, p)
  BY HeaderRead
<1>2. ~(q + 2 > Len(b)) /\ Number(b, p, e) # 0
  BY <1>1, LenProperties
<1>3. After(b, p) = after
  BY <1>1 DEF After
<1>4. From(b, ct, p) = LastOf(b, ct, p)
  BY <1>3, FromIs DEF Ends
<1>5. LastOf(b, ct, p) = More(Arrived(b, p), after > Len(b))
  BY <1>1, <1>2, <1>3 DEF LastOf
<1>6. Arrived(b, p) = SubSeq(b, q + 2 + 1, Min({after, Len(b)}))
  BY <1>1, <1>3 DEF Arrived
<1> QED
  BY <1>4, <1>5, <1>6

\* One that is followed by CR LF.
LEMMA WholeChunk ==
  ASSUME NEW b \in Seq(Octet), NEW ct \in BOOLEAN, NEW p \in 0..Len(b),
         NEW e \in Nat, NEW q \in Nat, Header(b, p, e, q), Number(b, p, e) > 0,
         NEW after \in Nat, after = q + 2 + Number(b, p, e),
         ~NotCRLF(b, after), after + 2 <= Len(b)
  PROVE  /\ From(b, ct, p) = Prepend(SubSeq(b, q + 2 + 1, after), From(b, ct, after + 2))
         /\ From(b, ct, after + 2) \in Meanings
<1>1. /\ q + 2 <= Len(b) /\ LineEnd(b, p) = q /\ Size(b, p) = Number(b, p, e)
      /\ Number(b, p, e) \in Nat /\ ~BadLine(b, p)
  BY HeaderRead
<1>2. /\ ~(q + 2 > Len(b)) /\ Number(b, p, e) # 0 /\ Len(b) \in Nat
      /\ ~(after + 2 > Len(b)) /\ after <= Len(b) /\ after + 2 \in 0..Len(b)
  BY <1>1, LenProperties
<1>3. After(b, p) = after
  BY <1>1 DEF After
<1>4. ~Ends(b, p)
  BY <1>1, <1>2, <1>3 DEF Ends
<1>5. From(b, ct, p) = Prepend(Arrived(b, p), From(b, ct, after + 2))
  BY <1>3, <1>4, FromIs
<1>6. Min({after, Len(b)}) = after
  BY <1>2, MinOfTwo
<1>7. Arrived(b, p) = SubSeq(b, q + 2 + 1, after)
  BY <1>1, <1>3, <1>6 DEF Arrived
<1>8. From(b, ct, after + 2) \in Meanings
  BY <1>2, FromIs
<1> QED
  BY <1>5, <1>7, <1>8

----------------------------------------------------------------------------
(***************************************************************************)
(* Where the decoder d is in the stream s when it has taken in pos octets  *)
(* and the caller has got their payload.  The chunk that it is in begins   *)
(* at p, after the payload out; its size ends at e and its line at q.      *)
(***************************************************************************)
SizeStates == {"CHUNK_DATA", "CHUNK_DATA_EXPECT_CR", "CHUNK_DATA_EXPECT_LF"}

TrailerStates == {"TRAILERS_LINE_HEAD", "TRAILERS_LINE_MIDDLE"}

AtSize(s, d, pos, got, p, out) ==
  /\ d.state = "CHUNK_SIZE"
  /\ Digits(s, p, pos)
  /\ d.hex_count = pos - p
  /\ d.bytes_left_in_chunk = Number(s, p, pos)
  /\ got = out

\* fed: the octet after the size has been seen, though it may be read again.
InLineAt(s, fd, d, pos, got, p, out, e, q) ==
  /\ d.hex_count = 0
  /\ d.bytes_left_in_chunk = Number(s, p, e)
  /\ got = out
  /\ e < fd
  /\ \/ d.state = "CHUNK_EXT" /\ q = pos /\ Line(s, p, e, pos)
     \/ /\ d.state = "CHUNK_HEADER_EXPECT_LF"
        /\ pos = q + 1 /\ Line(s, p, e, q) /\ At(s, q) = CR

InDataAt(s, d, pos, got, p, out, e, q) ==
  LET size == Number(s, p, e)
      data == q + 2
  IN  /\ d.state \in SizeStates
      /\ d.hex_count = 0
      /\ Header(s, p, e, q)
      /\ size > 0
      /\ d.state = "CHUNK_DATA" =>
           /\ data <= pos
           /\ d.bytes_left_in_chunk > 0
           /\ data + size = pos + d.bytes_left_in_chunk
           /\ got = out \o SubSeq(s, data + 1, pos)
      /\ d.state # "CHUNK_DATA" =>
           /\ d.bytes_left_in_chunk = 0
           /\ got = out \o SubSeq(s, data + 1, data + size)
      /\ d.state = "CHUNK_DATA_EXPECT_CR" => pos = data + size
      /\ d.state = "CHUNK_DATA_EXPECT_LF" =>
           pos = data + size + 1 /\ At(s, data + size) = CR

\* The line that begins at l is not the empty one: not yet, or no more.
InTrailerAt(s, d, pos, got, p, out, e, q) ==
  LET data == q + 2
  IN  /\ d.state \in TrailerStates
      /\ d.consume_trailer
      /\ Header(s, p, e, q)
      /\ Number(s, p, e) = 0
      /\ data <= pos
      /\ got = out
      /\ \A f \in EmptyLines(s, data) : pos <= f
      /\ \E l \in data..pos :
           /\ l = data \/ At(s, l - 1) = LF
           /\ d.state = "TRAILERS_LINE_HEAD" =>
                \A r \in l..(pos - 1) : At(s, r) = CR
           /\ d.state = "TRAILERS_LINE_MIDDLE" =>
                \E r \in l..(pos - 1) :
                  At(s, r) # CR /\ \A i \in l..(pos - 1) : At(s, i) # LF

Place(s, fd, d, pos, got, p, out, e, q) ==
  \/ AtSize(s, d, pos, got, p, out)
  \/ InLineAt(s, fd, d, pos, got, p, out, e, q)
  \/ InDataAt(s, d, pos, got, p, out, e, q)
  \/ InTrailerAt(s, d, pos, got, p, out, e, q)

\* However much more of the stream is fed, it is read on from the chunk at p.
Resumes(s, fd, consume_trailer, p, out) ==
  \A n \in fd..Len(s) :
    Meaning(SubSeq(s, 1, n), consume_trailer)
      = Prepend(out, From(SubSeq(s, 1, n), consume_trailer, p))

----------------------------------------------------------------------------
\* Digits of the stream are digits of a prefix that reaches so far.
LEMMA DigitsPrefix ==
  ASSUME NEW s \in Seq(Octet), NEW n \in 0..Len(s), NEW p \in Nat, NEW e \in Nat,
         Digits(s, p, e), e <= n
  PROVE  /\ Digits(SubSeq(s, 1, n), p, e)
         /\ Number(SubSeq(s, 1, n), p, e) = Number(s, p, e)
<1> DEFINE b == SubSeq(s, 1, n)
<1>1. \A i \in 0..(n - 1) : At(b, i) = At(s, i)
  BY PrefixReads
<1>2. \A i \in p..(e - 1) : At(b, i) = At(s, i)
  <2>1. p..(e - 1) \subseteq 0..(n - 1)
    OBVIOUS
  <2> QED
    BY <1>1, <2>1
<1> HIDE DEF b
<1>3. Digits(b, p, e)
  BY <1>2 DEF Digits
<1>4. Number(b, p, e) = Number(s, p, e)
  BY <1>2, NumberOfSame DEF Digits
<1> QED
  BY <1>3, <1>4 DEF b

\* So it is with a line.
LEMMA LinePrefix ==
  ASSUME NEW s \in Seq(Octet), NEW n \in 0..Len(s), NEW p \in Nat, NEW e \in Nat,
         NEW q \in Nat, Line(s, p, e, q), e < n, q <= n
  PROVE  /\ Line(SubSeq(s, 1, n), p, e, q)
         /\ Number(SubSeq(s, 1, n), p, e) = Number(s, p, e)
<1> DEFINE b == SubSeq(s, 1, n)
<1>1. \A i \in 0..(n - 1) : At(b, i) = At(s, i)
  BY PrefixReads
<1>2. Digits(b, p, e) /\ Number(b, p, e) = Number(s, p, e)
  BY DigitsPrefix DEF Line
<1>3. At(b, e) = At(s, e) /\ \A i \in e..(q - 1) : At(b, i) = At(s, i)
  <2>1. e \in 0..(n - 1) /\ e..(q - 1) \subseteq 0..(n - 1)
    OBVIOUS
  <2> QED
    BY <1>1, <2>1
<1> HIDE DEF b
<1>4. Line(b, p, e, q)
  BY <1>2, <1>3 DEF Line
<1> QED
  BY <1>2, <1>4 DEF b

\* And with a header.
LEMMA HeaderPrefix ==
  ASSUME NEW s \in Seq(Octet), NEW n \in 0..Len(s), NEW p \in Nat, NEW e \in Nat,
         NEW q \in Nat, Header(s, p, e, q), q + 2 <= n
  PROVE  /\ Header(SubSeq(s, 1, n), p, e, q)
         /\ Number(SubSeq(s, 1, n), p, e) = Number(s, p, e)
         /\ p < e /\ e <= q
<1> DEFINE b == SubSeq(s, 1, n)
<1>1. Line(s, p, e, q) /\ At(s, q) = CR /\ At(s, q + 1) = LF
  BY DEF Header
<1>2. p < e /\ e <= q
  BY <1>1 DEF Line
<1>3. e < n /\ q <= n
  BY <1>2
<1>4. Line(b, p, e, q) /\ Number(b, p, e) = Number(s, p, e)
  BY <1>1, <1>3, LinePrefix
<1>5. At(b, q) = At(s, q) /\ At(b, q + 1) = At(s, q + 1)
  <2>1. q \in 0..(n - 1) /\ q + 1 \in 0..(n - 1)
    OBVIOUS
  <2> QED
    BY <2>1, PrefixReads
<1> HIDE DEF b
<1>6. Header(b, p, e, q)
  BY <1>1, <1>4, <1>5 DEF Header
<1> QED
  BY <1>2, <1>4, <1>6 DEF b

\* A part of a prefix is that part of the stream.
LEMMA PartOfPrefix ==
  ASSUME NEW s \in Seq(Octet), NEW n \in 0..Len(s), NEW lo \in Nat, NEW hi \in Nat,
         lo <= hi, hi <= n
  PROVE  /\ SubSeq(SubSeq(s, 1, n), lo + 1, hi) = SubSeq(s, lo + 1, hi)
         /\ SubSeq(s, lo + 1, hi) \in Seq(Octet)
         /\ Len(SubSeq(s, lo + 1, hi)) = hi - lo
<1> DEFINE b == SubSeq(s, 1, n)
           k == hi - lo
           x == SubSeq(b, lo + 1, hi)
           y == SubSeq(s, lo + 1, hi)
<1>1. /\ b \in Seq(Octet) /\ Len(b) = n /\ Len(s) \in Nat
      /\ \A i \in 0..(n - 1) : At(b, i) = At(s, i)
  BY PrefixReads, LenProperties
<1>2. k \in Nat /\ lo + k = hi /\ lo + k <= Len(b) /\ lo + k <= Len(s)
  BY <1>1
<1>3. /\ x \in Seq(Octet) /\ Len(x) = k
      /\ \A i \in 0..(k - 1) : At(x, i) = At(b, lo + i)
  <2>1. x = SubSeq(b, lo + 1, lo + k)
    BY <1>2
  <2> HIDE DEF b, k, x
  <2> QED
    BY <1>1, <1>2, <2>1, PrefixOf
<1>4. /\ y \in Seq(Octet) /\ Len(y) = k
      /\ \A i \in 0..(k - 1) : At(y, i) = At(s, lo + i)
  <2>1. y = SubSeq(s, lo + 1, lo + k)
    BY <1>2
  <2> HIDE DEF k, y
  <2> QED
    BY <1>2, <2>1, PrefixOf
<1>5. \A i \in 1..k : x[i] = y[i]
  <2> TAKE i \in 1..k
  <2>1. i - 1 \in 0..(k - 1) /\ lo + (i - 1) \in 0..(n - 1) /\ (i - 1) + 1 = i
    BY <1>1, <1>2
  <2>2. At(x, i - 1) = At(y, i - 1)
    <3> HIDE DEF b, x, y, k
    <3> QED
      BY <1>1, <1>3, <1>4, <2>1
  <2>3. At(x, i - 1) = x[i] /\ At(y, i - 1) = y[i]
    <3> HIDE DEF b, x, y, k
    <3> QED
      BY <1>3, <1>4, <2>1 DEF At
  <2> QED
    BY <2>2, <2>3
<1> HIDE DEF b, x, y, k
<1>6. x = y
  BY <1>3, <1>4, <1>5, SeqEqual
<1> QED
  BY <1>4, <1>6 DEF b, x, y, k

----------------------------------------------------------------------------
(***************************************************************************)
(* What has been read means that there is more.                            *)
(***************************************************************************)

\* A meaning after some payload, by its verdict.
LEMMA PrependIs ==
  ASSUME NEW out \in Seq(Octet), NEW o \in Seq(Octet), NEW c \in BOOLEAN
  PROVE  /\ Prepend(out, More(o, c)) = More(out \o o, c)
         /\ Prepend(out, More(<<>>, c)) = More(out, c)
         /\ Prepend(out, Bad).verdict = "bad"
         /\ \A end \in Nat : /\ Prepend(out, Done(end)).verdict = "done"
                             /\ Prepend(out, Done(end)).out = out
                             /\ Prepend(out, Done(end)).end = end
<1>1. out \o <<>> = out
  BY ConcatEmptySeq
<1>2. Prepend(out, More(o, c)) = More(out \o o, c)
  <2> DEFINE x == out \o o
             r == More(o, c)
  <2>1. Prepend(out, r) = [r EXCEPT !.out = out \o r.out] /\ r.out = o
    BY DEF Prepend, More
  <2>2. Prepend(out, r) = [r EXCEPT !.out = x]
    BY <2>1
  <2> HIDE DEF x
  <2>3. [r EXCEPT !.out = x] = More(x, c)
    BY DEF More
  <2> HIDE DEF r
  <2> QED
    BY <2>2, <2>3 DEF r, x
<1>3. Prepend(out, More(<<>>, c)) = More(out \o <<>>, c)
  BY DEF Prepend, More
<1>4. Prepend(out, Bad).verdict = "bad"
  BY DEF Prepend, Bad
<1>5. ASSUME NEW end \in Nat
      PROVE  /\ Prepend(out, Done(end)).verdict = "done"
             /\ Prepend(out, Done(end)).out = out \o <<>>
             /\ Prepend(out, Done(end)).end = end
  BY DEF Prepend, Done
<1> QED
  BY <1>1, <1>2, <1>3, <1>4, <1>5

\* What has been read of a body that ends nowhere so far means that there is more.
LEMMA AtTheEnd ==
  ASSUME NEW s \in Seq(Octet), NEW n \in 0..Len(s), NEW d \in Decoder,
         NEW got \in Seq(Octet), NEW out \in Seq(Octet),
         NEW p \in Nat, NEW e \in Nat, NEW q \in Nat,
         Place(s, n, d, n, got, p, out, e, q)
  PROVE  /\ p <= n
         /\ Prepend(out, From(SubSeq(s, 1, n), d.consume_trailer, p))
              = More(got, d.state = "CHUNK_DATA")
<1> DEFINE b == SubSeq(s, 1, n)
           ct == d.consume_trailer
           open == (d.state = "CHUNK_DATA")
<1>1. /\ b \in Seq(Octet) /\ Len(b) = n /\ n \in Nat
      /\ \A i \in 0..(n - 1) : At(b, i) = At(s, i)
      /\ \A i : i \notin 0..(n - 1) => At(b, i) = Fault
  BY PrefixReads, LenProperties
<1>2. ct \in BOOLEAN /\ open \in BOOLEAN /\ d.bytes_left_in_chunk \in Nat
  BY DEF Decoder
<1>3. ASSUME p <= n, got = out, open = FALSE, From(b, ct, p) = More(<<>>, FALSE)
      PROVE  p <= n /\ Prepend(out, From(b, ct, p)) = More(got, open)
  BY <1>3, PrependIs, EmptySeq
<1>4. ASSUME AtSize(s, d, n, got, p, out)
      PROVE  p <= n /\ Prepend(out, From(b, ct, p)) = More(got, open)
  <2>1. Digits(s, p, n) /\ got = out /\ open = FALSE /\ p <= n
    BY <1>4 DEF AtSize, Digits
  <2>2. Digits(b, p, Len(b))
    BY <1>1, <2>1, DigitsPrefix
  <2>3. From(b, ct, p) = More(<<>>, FALSE)
    <3>1. p \in 0..Len(b)
      BY <1>1, <2>1
    <3> QED
      BY <1>1, <1>2, <2>2, <3>1, InSize
  <2> HIDE DEF b, ct, open
  <2> QED
    BY <1>3, <2>1, <2>3
<1>5. ASSUME InLineAt(s, n, d, n, got, p, out, e, q)
      PROVE  p <= n /\ Prepend(out, From(b, ct, p)) = More(got, open)
  <2>1. got = out /\ open = FALSE /\ e < n
    BY <1>5 DEF InLineAt
  <2>2. PICK r \in Nat : /\ Line(s, p, e, r)
                         /\ r = n \/ (r + 1 = n /\ At(s, r) = CR)
    BY <1>1, <1>5 DEF InLineAt
  <2>3. p <= n /\ r <= n
    BY <1>1, <2>1, <2>2 DEF Line
  <2>4. Line(b, p, e, r)
    BY <2>1, <2>2, <2>3, LinePrefix
  <2>5. r = Len(b) \/ (r + 1 = Len(b) /\ At(b, r) = CR)
    <3>1. r + 1 = n => r \in 0..(n - 1)
      BY <1>1
    <3> QED
      BY <1>1, <2>2, <3>1
  <2>6. From(b, ct, p) = More(<<>>, FALSE)
    <3>1. p \in 0..Len(b)
      BY <1>1, <2>3
    <3> HIDE DEF b, ct
    <3> QED
      BY <1>1, <1>2, <2>4, <2>5, <3>1, InLine
  <2> HIDE DEF b, ct, open
  <2> QED
    BY <1>3, <2>1, <2>3, <2>6
<1>6. ASSUME InDataAt(s, d, n, got, p, out, e, q)
      PROVE  p <= n /\ Prepend(out, From(b, ct, p)) = More(got, open)
  <2> DEFINE size == Number(s, p, e)
             data == q + 2
             after == data + size
             left == d.bytes_left_in_chunk
             hi == IF after <= n THEN after ELSE n
  <2>1. /\ Header(s, p, e, q) /\ size > 0 /\ d.state \in SizeStates
        /\ d.state = "CHUNK_DATA" =>
             data <= n /\ left > 0 /\ after = n + left
             /\ got = out \o SubSeq(s, data + 1, n)
        /\ d.state # "CHUNK_DATA" =>
             left = 0 /\ got = out \o SubSeq(s, data + 1, after)
        /\ d.state = "CHUNK_DATA_EXPECT_CR" => n = after
        /\ d.state = "CHUNK_DATA_EXPECT_LF" => n = after + 1 /\ At(s, after) = CR
    BY <1>6 DEF InDataAt
  <2>2. q + 2 <= Len(s) /\ size \in Nat /\ p <= q
    <3>1. Len(s) \in Nat
      BY LenProperties
    <3>2. p < e /\ e <= q /\ q + 1 \in 0..(Len(s) - 1)
      BY <2>1, Delimiters, ReadAt DEF Header, Line
    <3>3. p \in 0..Len(s)
      BY <3>1, <3>2
    <3>4. q + 2 <= Len(s) /\ size \in Nat
      BY <2>1, <3>3, HeaderRead
    <3> QED
      BY <3>2, <3>4
  <2>3. /\ data \in Nat /\ after \in Nat /\ hi \in Nat /\ data <= hi /\ hi <= n
        /\ after + 2 > n
        /\ got = out \o SubSeq(s, data + 1, hi)
        /\ (after > n) <=> open
    <3> HIDE DEF size
    <3>1. data \in Nat /\ after \in Nat /\ data <= after
      BY <2>2
    <3>2. CASE d.state = "CHUNK_DATA"
      <4>1. data <= n /\ left > 0 /\ after = n + left /\ got = out \o SubSeq(s, data + 1, n)
        BY <2>1, <3>2
      <4> HIDE DEF data, after, left
      <4>2. after > n /\ ~(after <= n) /\ after + 2 > n
        BY <1>1, <1>2, <3>1, <4>1 DEF left
      <4>3. hi = n /\ open
        BY <3>2, <4>2
      <4> HIDE DEF hi
      <4> QED
        BY <1>1, <3>1, <4>1, <4>2, <4>3
    <3>3. CASE d.state # "CHUNK_DATA"
      <4>1. /\ got = out \o SubSeq(s, data + 1, after) /\ (n = after \/ n = after + 1)
        BY <2>1, <3>3 DEF SizeStates
      <4> HIDE DEF data, after, left
      <4>2. ~(after > n) /\ after <= n /\ after + 2 > n
        BY <1>1, <3>1, <4>1
      <4>3. hi = after /\ ~open
        BY <3>3, <4>2
      <4> HIDE DEF hi
      <4> QED
        BY <3>1, <4>1, <4>2, <4>3
    <3> QED
      BY <3>2, <3>3
  <2>4. Header(b, p, e, q) /\ Number(b, p, e) = size /\ p \in 0..Len(b) /\ p <= n
    <3>1. q + 2 <= n
      <4> HIDE DEF size, after, hi
      <4> QED
        BY <1>1, <2>3
    <3>2. Header(b, p, e, q) /\ Number(b, p, e) = size
      BY <2>1, <3>1, HeaderPrefix
    <3> QED
      BY <1>1, <2>2, <3>1, <3>2
  <2>5. ~NotCRLF(b, after)
    <3> HIDE DEF size, data, after, left, b
    <3>1. CASE d.state # "CHUNK_DATA_EXPECT_LF"
      <4>1. after >= n
        BY <1>1, <2>1, <2>3, <3>1 DEF SizeStates, open
      <4>2. At(b, after) = Fault
        BY <1>1, <2>3, <4>1
      <4> QED
        BY <4>2, Delimiters DEF NotCRLF, IsNot
    <3>2. CASE d.state = "CHUNK_DATA_EXPECT_LF"
      <4>1. At(b, after) = CR /\ At(b, after + 1) = Fault
        BY <1>1, <2>1, <2>3, <3>2
      <4> QED
        BY <4>1, Delimiters DEF NotCRLF, IsNot
    <3> QED
      BY <3>1, <3>2
  <2>6. From(b, ct, p) = More(SubSeq(b, q + 2 + 1, Min({after, n})), after > n)
    <3>1. after = q + 2 + Number(b, p, e) /\ Number(b, p, e) > 0
      BY <2>1, <2>4
    <3>2. after + 2 > Len(b) /\ after \in Nat /\ b \in Seq(Octet) /\ Len(b) = n
      BY <1>1, <2>3
    <3>3. Header(b, p, e, q) /\ p \in 0..Len(b) /\ ct \in BOOLEAN
      BY <1>2, <2>4
    <3>4. ASSUME NEW c, NEW a, NEW x, c = b, a = ct, x = after
          PROVE  From(c, a, p) = More(SubSeq(c, q + 2 + 1, Min({x, Len(c)})), x > Len(c))
      <4>1. /\ c \in Seq(Octet) /\ a \in BOOLEAN /\ p \in 0..Len(c)
            /\ Header(c, p, e, q) /\ Number(c, p, e) > 0
        BY <3>1, <3>2, <3>3, <3>4
      <4>2. /\ x \in Nat /\ x = q + 2 + Number(c, p, e)
            /\ ~NotCRLF(c, x) /\ x + 2 > Len(c)
        BY <2>5, <3>1, <3>2, <3>4
      <4> HIDE DEF b, ct, size, after
      <4> QED
        BY <4>1, <4>2, OpenChunk, SMTT(60)
    <3> QED
      BY <3>2, <3>4
  <2>7. Min({after, n}) = hi
    <3> HIDE DEF after
    <3> QED
      BY <1>1, <2>3, MinOfTwo
  <2>8. /\ SubSeq(b, data + 1, hi) = SubSeq(s, data + 1, hi)
        /\ SubSeq(s, data + 1, hi) \in Seq(Octet)
    <3> HIDE DEF data, hi
    <3> QED
      BY <2>3, PartOfPrefix
  <2>9. From(b, ct, p) = More(SubSeq(s, data + 1, hi), open)
    <3>1. (after > n) = open
      BY <2>3
    <3> HIDE DEF b, ct, size, after, hi, open
    <3> QED
      BY <2>6, <2>7, <2>8, <3>1
  <2> DEFINE y == SubSeq(s, data + 1, hi)
  <2>10. y \in Seq(Octet) /\ got = out \o y /\ From(b, ct, p) = More(y, open)
    BY <2>3, <2>8, <2>9
  <2> HIDE DEF b, ct, size, after, hi, data, open, y
  <2> QED
    BY <1>2, <2>4, <2>10, PrependIs
<1>7. ASSUME InTrailerAt(s, d, n, got, p, out, e, q)
      PROVE  p <= n /\ Prepend(out, From(b, ct, p)) = More(got, open)
  <2>1. /\ Header(s, p, e, q) /\ Number(s, p, e) = 0 /\ q + 2 <= n
        /\ got = out /\ ct /\ open = FALSE
        /\ \A f \in EmptyLines(s, q + 2) : n <= f
    BY <1>7 DEF InTrailerAt, TrailerStates
  <2>2. Header(b, p, e, q) /\ Number(b, p, e) = 0 /\ p < e /\ e <= q
    BY <2>1, HeaderPrefix
  <2>3. p <= n /\ p \in 0..Len(b)
    BY <1>1, <2>1, <2>2
  <2>4. EmptyLines(b, q + 2) = {}
    <3> SUFFICES ASSUME NEW f \in EmptyLines(b, q + 2) PROVE FALSE
      OBVIOUS
    <3>1. /\ f \in (q + 2)..(n - 1) /\ At(b, f) = LF
          /\ \E l \in (q + 2)..f : /\ l = q + 2 \/ At(b, l - 1) = LF
                                   /\ \A r \in l..(f - 1) : At(b, r) = CR
      BY <1>1 DEF EmptyLines
    <3>2. PICK l \in (q + 2)..f : /\ l = q + 2 \/ At(b, l - 1) = LF
                                  /\ \A r \in l..(f - 1) : At(b, r) = CR
      BY <3>1
    <3> HIDE DEF b
    <3>3. /\ f \in 0..(n - 1) /\ (l # q + 2 => l - 1 \in 0..(n - 1))
          /\ \A r \in l..(f - 1) : r \in 0..(n - 1)
      BY <1>1, <3>1, <3>2
    <3>4. /\ At(s, f) = LF /\ (l = q + 2 \/ At(s, l - 1) = LF)
          /\ \A r \in l..(f - 1) : At(s, r) = CR
      BY <1>1, <3>1, <3>2, <3>3
    <3>5. f \in (q + 2)..(Len(s) - 1)
      BY <3>1, LenProperties
    <3>6. f \in EmptyLines(s, q + 2)
      BY <3>2, <3>4, <3>5 DEF EmptyLines
    <3> QED
      BY <2>1, <3>1, <3>6
  <2>5. From(b, ct, p) = More(<<>>, FALSE)
    <3>1. From(b, ct, p) = Trailer(b, q + 2)
      <4>1. b \in Seq(Octet) /\ ct \in BOOLEAN /\ ct
        BY <1>1, <1>2, <2>1
      <4>2. ASSUME NEW c, NEW a, c = b, a = ct
            PROVE  From(c, a, p) = IF a THEN Trailer(c, q + 2) ELSE Done(q + 2)
        <5>1. /\ c \in Seq(Octet) /\ a \in BOOLEAN /\ p \in 0..Len(c)
              /\ Header(c, p, e, q) /\ Number(c, p, e) = 0
          BY <2>2, <2>3, <4>1, <4>2
        <5> HIDE DEF b, ct
        <5> QED
          BY <5>1, LastChunk
      <4> QED
        BY <4>1, <4>2
    <3> QED
      BY <2>4, <3>1 DEF Trailer
  <2> HIDE DEF b, ct, open
  <2> QED
    BY <1>3, <2>1, <2>3, <2>5
<1> QED
  BY <1>4, <1>5, <1>6, <1>7 DEF Place

----------------------------------------------------------------------------
(***************************************************************************)
(* One case of the switch after another: the decoder d, which has taken in *)
(* pos octets, becomes t.                                                  *)
(***************************************************************************)
Reading(s, fd, d, pos, got) ==
  \E p \in Nat, e \in Nat, q \in Nat, out \in Seq(Octet) :
    /\ Place(s, fd, d, pos, got, p, out, e, q)
    /\ Resumes(s, fd, d.consume_trailer, p, out)

Verdict(s, fd, consume_trailer) == Meaning(SubSeq(s, 1, fd), consume_trailer).verdict

\* The body ends with the octet before end, and the caller has got its payload.
MeansDone(s, fd, consume_trailer, got, end) ==
  LET m == Meaning(SubSeq(s, 1, fd), consume_trailer)
  IN  m.verdict = "done" /\ m.out = got /\ m.end = end

\* If the chunk at p is bad, the body is.
LEMMA ThenBad ==
  ASSUME NEW s \in Seq(Octet), NEW fd \in 0..Len(s), NEW ct \in BOOLEAN,
         NEW p \in Nat, NEW out \in Seq(Octet), Resumes(s, fd, ct, p, out),
         From(SubSeq(s, 1, fd), ct, p) = Bad
  PROVE  Verdict(s, fd, ct) = "bad"
<1>1. fd \in fd..Len(s)
  BY LenProperties
<1>2. Meaning(SubSeq(s, 1, fd), ct) = Prepend(out, Bad)
  BY <1>1 DEF Resumes
<1> QED
  BY <1>2, PrependIs, EmptySeq DEF Verdict

\* If it is the last one, the body ends with it.
LEMMA ThenDone ==
  ASSUME NEW s \in Seq(Octet), NEW fd \in 0..Len(s), NEW ct \in BOOLEAN,
         NEW p \in Nat, NEW out \in Seq(Octet), Resumes(s, fd, ct, p, out),
         NEW end \in Nat, From(SubSeq(s, 1, fd), ct, p) = Done(end)
  PROVE  MeansDone(s, fd, ct, out, end)
<1>1. fd \in fd..Len(s)
  BY LenProperties
<1>2. Meaning(SubSeq(s, 1, fd), ct) = Prepend(out, Done(end))
  BY <1>1 DEF Resumes
<1> QED
  BY <1>2, PrependIs, EmptySeq DEF MeansDone

\* What a place in the digits of a size means.
LEMMA SizePlace ==
  ASSUME NEW s \in Seq(Octet), NEW fd \in 0..Len(s), NEW d \in Decoder,
         NEW pos \in 0..fd, NEW got \in Seq(Octet), Reading(s, fd, d, pos, got),
         d.state = "CHUNK_SIZE"
  PROVE  \E p \in 0..pos :
           /\ AtSize(s, d, pos, got, p, got)
           /\ Resumes(s, fd, d.consume_trailer, p, got)
<1>1. PICK p \in Nat, e \in Nat, q \in Nat, out \in Seq(Octet) :
        /\ Place(s, fd, d, pos, got, p, out, e, q)
        /\ Resumes(s, fd, d.consume_trailer, p, out)
  BY DEF Reading
<1>2. AtSize(s, d, pos, got, p, out)
  BY <1>1 DEF Place, InLineAt, InDataAt, InTrailerAt, SizeStates, TrailerStates
<1>3. out = got /\ p \in 0..pos
  BY <1>2 DEF AtSize, Digits
<1> QED
  BY <1>1, <1>2, <1>3

\* One more digit.
LEMMA DigitTaken ==
  ASSUME NEW s \in Seq(Octet), NEW fd \in 0..Len(s), NEW d \in Decoder,
         NEW pos \in 0..(fd - 1), NEW got \in Seq(Octet), Reading(s, fd, d, pos, got),
         d.state = "CHUNK_SIZE", At(s, pos) \notin NotHex, d.hex_count # MaxHex,
         NEW t \in Decoder, t.state = "CHUNK_SIZE",
         t.consume_trailer = d.consume_trailer, t.hex_count = d.hex_count + 1,
         t.bytes_left_in_chunk = d.bytes_left_in_chunk * 16 + DecodeHex(At(s, pos))
  PROVE  Reading(s, fd, t, pos + 1, got)
<1>1. PICK p \in 0..pos : /\ AtSize(s, d, pos, got, p, got)
                          /\ Resumes(s, fd, d.consume_trailer, p, got)
  BY SizePlace
<1>2. /\ p \in Nat /\ pos \in Nat /\ pos + 1 \in Nat /\ p <= pos
      /\ d.hex_count = pos - p /\ d.hex_count \in 0..MaxHex
      /\ d.bytes_left_in_chunk = Number(s, p, pos)
      /\ \A i \in p..(pos - 1) : At(s, i) \notin NotHex
  BY <1>1 DEF AtSize, Digits, Decoder
<1>3. Digits(s, p, pos + 1)
  <2>1. \A i \in p..(pos + 1 - 1) : i \in p..(pos - 1) \/ i = pos
    BY <1>2
  <2>2. pos + 1 - p <= MaxHex
    BY <1>2, MaxHexAssumption
  <2> QED
    BY <1>2, <2>1, <2>2 DEF Digits
<1>4. Number(s, p, pos + 1) = Number(s, p, pos) * 16 + DecodeHex(At(s, pos))
  BY <1>2, NumberOfMore
<1>5. t.hex_count = pos + 1 - p
  BY <1>2
<1>6. AtSize(s, t, pos + 1, got, p, got)
  BY <1>2, <1>3, <1>4, <1>5 DEF AtSize
<1>7. Place(s, fd, t, pos + 1, got, p, got, 0, 0)
  BY <1>6 DEF Place
<1> QED
  BY <1>1, <1>2, <1>7 DEF Reading

\* One digit too many.
LEMMA DigitRefused ==
  ASSUME NEW s \in Seq(Octet), NEW fd \in 0..Len(s), NEW d \in Decoder,
         NEW pos \in 0..(fd - 1), NEW got \in Seq(Octet), Reading(s, fd, d, pos, got),
         d.state = "CHUNK_SIZE", At(s, pos) \notin NotHex, d.hex_count = MaxHex
  PROVE  Verdict(s, fd, d.consume_trailer) = "bad"
<1> DEFINE b == SubSeq(s, 1, fd)
           ct == d.consume_trailer
<1>1. PICK p \in 0..pos : /\ AtSize(s, d, pos, got, p, got)
                          /\ Resumes(s, fd, ct, p, got)
  BY SizePlace
<1>2. /\ b \in Seq(Octet) /\ Len(b) = fd /\ p \in 0..fd /\ p \in Nat /\ ct \in BOOLEAN
      /\ pos \in p..(fd - 1) /\ pos - p = MaxHex
  BY <1>1, PrefixReads DEF AtSize, Digits, Decoder
<1>3. \A i \in p..pos : At(b, i) \notin NotHex
  <2>1. \A i \in p..pos : i \in 0..(fd - 1) /\ (i \in p..(pos - 1) \/ i = pos)
    BY <1>2
  <2> QED
    BY <1>1, <2>1, PrefixReads DEF AtSize, Digits
<1>4. From(b, ct, p) = Bad
  <2> HIDE DEF b, ct
  <2> QED
    BY <1>2, <1>3, TooManyDigits
<1> QED
  BY <1>1, <1>2, <1>4, ThenBad

\* An octet that is no digit and must not be there.
LEMMA SizeRefused ==
  ASSUME NEW s \in Seq(Octet), NEW fd \in 0..Len(s), NEW d \in Decoder,
         NEW pos \in 0..(fd - 1), NEW got \in Seq(Octet), Reading(s, fd, d, pos, got),
         d.state = "CHUNK_SIZE", At(s, pos) \in NotHex,
         d.hex_count = 0 \/ At(s, pos) \notin AfterSize
  PROVE  Verdict(s, fd, d.consume_trailer) = "bad"
<1> DEFINE b == SubSeq(s, 1, fd)
           ct == d.consume_trailer
<1>1. PICK p \in 0..pos : /\ AtSize(s, d, pos, got, p, got)
                          /\ Resumes(s, fd, ct, p, got)
  BY SizePlace
<1>2. /\ b \in Seq(Octet) /\ Len(b) = fd /\ p \in 0..fd /\ p \in Nat /\ ct \in BOOLEAN
      /\ pos \in p..(fd - 1) /\ (d.hex_count = 0 => pos = p)
  BY <1>1, PrefixReads DEF AtSize, Digits, Decoder
<1>3. /\ \A i \in p..(pos - 1) : At(b, i) \notin NotHex
      /\ At(b, pos) = At(s, pos)
  <2>1. pos \in 0..(fd - 1) /\ \A i \in p..(pos - 1) : i \in 0..(fd - 1)
    BY <1>2
  <2> QED
    BY <1>1, <2>1, PrefixReads DEF AtSize, Digits
<1>4. From(b, ct, p) = Bad
  <2> HIDE DEF b, ct
  <2> QED
    BY <1>2, <1>3, NoSize
<1> QED
  BY <1>1, <1>2, <1>4, ThenBad

\* The size has been read; the octet that ended it is read again.
LEMMA SizeTaken ==
  ASSUME NEW s \in Seq(Octet), NEW fd \in 0..Len(s), NEW d \in Decoder,
         NEW pos \in 0..(fd - 1), NEW got \in Seq(Octet), Reading(s, fd, d, pos, got),
         d.state = "CHUNK_SIZE", At(s, pos) \in AfterSize, d.hex_count > 0,
         NEW t \in Decoder, t.state = "CHUNK_EXT",
         t.consume_trailer = d.consume_trailer, t.hex_count = 0,
         t.bytes_left_in_chunk = d.bytes_left_in_chunk
  PROVE  Reading(s, fd, t, pos, got)
<1>1. PICK p \in 0..pos : /\ AtSize(s, d, pos, got, p, got)
                          /\ Resumes(s, fd, d.consume_trailer, p, got)
  BY SizePlace
<1>2. p \in Nat /\ pos \in Nat /\ p < pos /\ pos < fd
  BY <1>1 DEF AtSize
<1>3. Line(s, p, pos, pos)
  <2>1. \A i \in pos..(pos - 1) : FALSE
    BY <1>2
  <2> QED
    BY <1>1, <1>2, <2>1 DEF AtSize, Line
<1>4. InLineAt(s, fd, t, pos, got, p, got, pos, pos)
  BY <1>1, <1>2, <1>3 DEF AtSize, InLineAt
<1>5. Place(s, fd, t, pos, got, p, got, pos, pos)
  BY <1>4 DEF Place
<1> QED
  BY <1>1, <1>2, <1>5 DEF Reading

----------------------------------------------------------------------------
(***************************************************************************)
(* The line behind a size: its extension, its CR and its LF.               *)
(***************************************************************************)

\* What a place in a line means.
LEMMA LinePlace ==
  ASSUME NEW s \in Seq(Octet), NEW fd \in 0..Len(s), NEW d \in Decoder,
         NEW pos \in 0..fd, NEW got \in Seq(Octet), Reading(s, fd, d, pos, got),
         d.state \in {"CHUNK_EXT", "CHUNK_HEADER_EXPECT_LF"}
  PROVE  \E p \in Nat, e \in Nat, q \in Nat :
           /\ InLineAt(s, fd, d, pos, got, p, got, e, q)
           /\ Resumes(s, fd, d.consume_trailer, p, got)
           /\ Line(s, p, e, q) /\ p < e /\ e <= q
<1>1. PICK p \in Nat, e \in Nat, q \in Nat, out \in Seq(Octet) :
        /\ Place(s, fd, d, pos, got, p, out, e, q)
        /\ Resumes(s, fd, d.consume_trailer, p, out)
  BY DEF Reading
<1>2. InLineAt(s, fd, d, pos, got, p, out, e, q)
  BY <1>1 DEF Place, AtSize, InDataAt, InTrailerAt, SizeStates, TrailerStates
<1>3. out = got /\ Line(s, p, e, q)
  BY <1>2 DEF InLineAt
<1>4. p < e /\ e <= q
  BY <1>3 DEF Line
<1> QED
  BY <1>1, <1>2, <1>3, <1>4

\* The extension goes on to x.
LEMMA ExtensionGrows ==
  ASSUME NEW s \in Seq(Octet), NEW p \in Nat, NEW e \in Nat, NEW pos \in Nat,
         Line(s, p, e, pos), NEW x \in Nat, pos <= x,
         \A i \in pos..(x - 1) : At(s, i) \notin {CR, LF}
  PROVE  Line(s, p, e, x)
<1>1. e <= pos /\ \A i \in e..(pos - 1) : At(s, i) \notin {CR, LF}
  BY DEF Line
<1>2. \A i \in e..(x - 1) : i \in e..(pos - 1) \/ i \in pos..(x - 1)
  BY <1>1
<1>3. e <= x /\ \A i \in e..(x - 1) : At(s, i) \notin {CR, LF}
  BY <1>1, <1>2
<1> QED
  BY <1>3 DEF Line

\* The fragment ends in the extension.
LEMMA ExtensionTaken ==
  ASSUME NEW s \in Seq(Octet), NEW fd \in 0..Len(s), NEW d \in Decoder,
         NEW pos \in 0..fd, NEW got \in Seq(Octet), Reading(s, fd, d, pos, got),
         d.state = "CHUNK_EXT", NEW x \in pos..fd,
         \A i \in pos..(x - 1) : At(s, i) \notin {CR, LF}
  PROVE  Reading(s, fd, d, x, got)
<1>1. PICK p \in Nat, e \in Nat, q \in Nat :
        /\ InLineAt(s, fd, d, pos, got, p, got, e, q)
        /\ Resumes(s, fd, d.consume_trailer, p, got)
        /\ Line(s, p, e, q)
  BY LinePlace
<1>2. Line(s, p, e, pos) /\ x \in Nat /\ pos \in Nat /\ pos <= x
  BY <1>1 DEF InLineAt
<1>3. Line(s, p, e, x)
  BY <1>2, ExtensionGrows
<1>4. InLineAt(s, fd, d, x, got, p, got, e, x)
  BY <1>1, <1>3 DEF InLineAt
<1>5. Place(s, fd, d, x, got, p, got, e, x)
  BY <1>4 DEF Place
<1> QED
  BY <1>1, <1>2, <1>5 DEF Reading

\* The extension ends with a CR.
LEMMA ExtensionEnds ==
  ASSUME NEW s \in Seq(Octet), NEW fd \in 0..Len(s), NEW d \in Decoder,
         NEW pos \in 0..fd, NEW got \in Seq(Octet), Reading(s, fd, d, pos, got),
         d.state = "CHUNK_EXT", NEW x \in pos..(fd - 1),
         \A i \in pos..(x - 1) : At(s, i) \notin {CR, LF}, At(s, x) = CR,
         NEW t \in Decoder, t.state = "CHUNK_HEADER_EXPECT_LF",
         t.consume_trailer = d.consume_trailer, t.hex_count = d.hex_count,
         t.bytes_left_in_chunk = d.bytes_left_in_chunk
  PROVE  Reading(s, fd, t, x + 1, got)
<1>1. PICK p \in Nat, e \in Nat, q \in Nat :
        /\ InLineAt(s, fd, d, pos, got, p, got, e, q)
        /\ Resumes(s, fd, d.consume_trailer, p, got)
        /\ Line(s, p, e, q)
  BY LinePlace
<1>2. Line(s, p, e, pos) /\ x \in Nat /\ pos \in Nat /\ pos <= x
  BY <1>1 DEF InLineAt
<1>3. Line(s, p, e, x)
  BY <1>2, ExtensionGrows
<1>4. InLineAt(s, fd, t, x + 1, got, p, got, e, x)
  BY <1>1, <1>3 DEF InLineAt
<1>5. Place(s, fd, t, x + 1, got, p, got, e, x)
  BY <1>4 DEF Place
<1> QED
  BY <1>1, <1>2, <1>5 DEF Reading

\* The extension is folded.
LEMMA ExtensionRefused ==
  ASSUME NEW s \in Seq(Octet), NEW fd \in 0..Len(s), NEW d \in Decoder,
         NEW pos \in 0..fd, NEW got \in Seq(Octet), Reading(s, fd, d, pos, got),
         d.state = "CHUNK_EXT", NEW x \in pos..(fd - 1),
         \A i \in pos..(x - 1) : At(s, i) \notin {CR, LF}, At(s, x) = LF
  PROVE  Verdict(s, fd, d.consume_trailer) = "bad"
<1> DEFINE b == SubSeq(s, 1, fd)
           ct == d.consume_trailer
<1>1. PICK p \in Nat, e \in Nat, q \in Nat :
        /\ InLineAt(s, fd, d, pos, got, p, got, e, q)
        /\ Resumes(s, fd, ct, p, got)
        /\ Line(s, p, e, q) /\ p < e /\ e <= q
  BY LinePlace
<1>2. Line(s, p, e, pos) /\ x \in Nat /\ pos \in Nat /\ pos <= x /\ e < fd /\ e <= pos
  BY <1>1 DEF InLineAt
<1>3. Line(s, p, e, x)
  BY <1>2, ExtensionGrows
<1>4. /\ b \in Seq(Octet) /\ Len(b) = fd /\ p \in 0..fd /\ x \in 0..(fd - 1) /\ ct \in BOOLEAN
      /\ At(b, x) = LF
  BY <1>1, <1>2, PrefixReads DEF Decoder
<1>5. Line(b, p, e, x)
  <2>1. x <= fd
    BY <1>4
  <2> QED
    BY <1>2, <1>3, <2>1, LinePrefix
<1>6. From(b, ct, p) = Bad
  <2> HIDE DEF b, ct
  <2> QED
    BY <1>4, <1>5, BrokenLine
<1> QED
  BY <1>1, <1>4, <1>6, ThenBad

\* No LF follows the CR.
LEMMA HeaderRefused ==
  ASSUME NEW s \in Seq(Octet), NEW fd \in 0..Len(s), NEW d \in Decoder,
         NEW pos \in 0..(fd - 1), NEW got \in Seq(Octet), Reading(s, fd, d, pos, got),
         d.state = "CHUNK_HEADER_EXPECT_LF", At(s, pos) # LF
  PROVE  Verdict(s, fd, d.consume_trailer) = "bad"
<1> DEFINE b == SubSeq(s, 1, fd)
           ct == d.consume_trailer
<1>1. PICK p \in Nat, e \in Nat, q \in Nat :
        /\ InLineAt(s, fd, d, pos, got, p, got, e, q)
        /\ Resumes(s, fd, ct, p, got)
        /\ Line(s, p, e, q) /\ p < e /\ e <= q
  BY LinePlace
<1>2. e < fd /\ pos = q + 1 /\ At(s, q) = CR
  BY <1>1 DEF InLineAt
<1>3. /\ b \in Seq(Octet) /\ Len(b) = fd /\ p \in 0..fd /\ q \in 0..(fd - 1) /\ ct \in BOOLEAN
      /\ q + 1 \in 0..(fd - 1) /\ q + 1 < fd /\ q <= fd
  BY <1>1, <1>2, PrefixReads DEF Decoder
<1>4. At(b, q) = CR /\ At(b, q + 1) # LF
  BY <1>2, <1>3, PrefixReads
<1>5. Line(b, p, e, q)
  BY <1>1, <1>2, <1>3, LinePrefix
<1>6. From(b, ct, p) = Bad
  <2> HIDE DEF b, ct
  <2> QED
    BY <1>3, <1>4, <1>5, BrokenLine
<1> QED
  BY <1>1, <1>3, <1>6, ThenBad

\* What the place behind a CR means when a LF follows.
LEMMA HeaderPlace ==
  ASSUME NEW s \in Seq(Octet), NEW fd \in 0..Len(s), NEW d \in Decoder,
         NEW pos \in 0..(fd - 1), NEW got \in Seq(Octet), Reading(s, fd, d, pos, got),
         d.state = "CHUNK_HEADER_EXPECT_LF", At(s, pos) = LF
  PROVE  \E p \in Nat, e \in Nat, q \in Nat :
           /\ Resumes(s, fd, d.consume_trailer, p, got)
           /\ Header(s, p, e, q)
           /\ pos + 1 = q + 2
           /\ d.hex_count = 0
           /\ d.bytes_left_in_chunk = Number(s, p, e)
<1>1. PICK p \in Nat, e \in Nat, q \in Nat :
        /\ InLineAt(s, fd, d, pos, got, p, got, e, q)
        /\ Resumes(s, fd, d.consume_trailer, p, got)
        /\ Line(s, p, e, q)
  BY LinePlace
<1>2. /\ pos = q + 1 /\ At(s, q) = CR /\ d.hex_count = 0
      /\ d.bytes_left_in_chunk = Number(s, p, e)
  BY <1>1 DEF InLineAt
<1>3. Header(s, p, e, q) /\ pos + 1 = q + 2
  BY <1>1, <1>2 DEF Header
<1> QED
  BY <1>1, <1>2, <1>3

\* A chunk that is not empty.
LEMMA ChunkOpens ==
  ASSUME NEW s \in Seq(Octet), NEW fd \in 0..Len(s), NEW d \in Decoder,
         NEW pos \in 0..(fd - 1), NEW got \in Seq(Octet), Reading(s, fd, d, pos, got),
         d.state = "CHUNK_HEADER_EXPECT_LF", At(s, pos) = LF, d.bytes_left_in_chunk > 0,
         NEW t \in Decoder, t.state = "CHUNK_DATA",
         t.consume_trailer = d.consume_trailer, t.hex_count = d.hex_count,
         t.bytes_left_in_chunk = d.bytes_left_in_chunk
  PROVE  Reading(s, fd, t, pos + 1, got)
<1>1. PICK p \in Nat, e \in Nat, q \in Nat :
        /\ Resumes(s, fd, d.consume_trailer, p, got)
        /\ Header(s, p, e, q)
        /\ pos + 1 = q + 2
        /\ d.hex_count = 0
        /\ d.bytes_left_in_chunk = Number(s, p, e)
  BY HeaderPlace
<1>2. got = got \o SubSeq(s, q + 2 + 1, pos + 1)
  <2>1. q + 2 + 1 > pos + 1 /\ q + 2 + 1 \in Nat /\ pos + 1 \in Nat
    BY <1>1
  <2>2. SubSeq(s, q + 2 + 1, pos + 1) = <<>>
    BY <2>1, SubSeqEmpty
  <2> QED
    BY <2>2, ConcatEmptySeq
<1>3. q + 2 <= pos + 1 /\ q + 2 + Number(s, p, e) = pos + 1 + t.bytes_left_in_chunk
  BY <1>1
<1>4. InDataAt(s, t, pos + 1, got, p, got, e, q)
  BY <1>1, <1>2, <1>3 DEF InDataAt, SizeStates
<1>5. Place(s, fd, t, pos + 1, got, p, got, e, q)
  BY <1>4 DEF Place
<1> QED
  BY <1>1, <1>5 DEF Reading

\* The last chunk, and its trailer is wanted.
LEMMA TrailerOpens ==
  ASSUME NEW s \in Seq(Octet), NEW fd \in 0..Len(s), NEW d \in Decoder,
         NEW pos \in 0..(fd - 1), NEW got \in Seq(Octet), Reading(s, fd, d, pos, got),
         d.state = "CHUNK_HEADER_EXPECT_LF", At(s, pos) = LF, d.bytes_left_in_chunk = 0,
         d.consume_trailer, NEW t \in Decoder, t.state = "TRAILERS_LINE_HEAD",
         t.consume_trailer = d.consume_trailer
  PROVE  Reading(s, fd, t, pos + 1, got)
<1>1. PICK p \in Nat, e \in Nat, q \in Nat :
        /\ Resumes(s, fd, d.consume_trailer, p, got)
        /\ Header(s, p, e, q)
        /\ pos + 1 = q + 2
        /\ d.hex_count = 0
        /\ d.bytes_left_in_chunk = Number(s, p, e)
  BY HeaderPlace
<1>2. \A f \in EmptyLines(s, q + 2) : pos + 1 <= f
  BY <1>1 DEF EmptyLines
<1>3. \E l \in (q + 2)..(pos + 1) :
        /\ l = q + 2 \/ At(s, l - 1) = LF
        /\ \A r \in l..(pos + 1 - 1) : At(s, r) = CR
  <2>1. q + 2 \in (q + 2)..(pos + 1) /\ \A r \in (q + 2)..(pos + 1 - 1) : FALSE
    BY <1>1
  <2> QED
    BY <2>1
<1>4. InTrailerAt(s, t, pos + 1, got, p, got, e, q)
  <2>1. Number(s, p, e) = 0 /\ q + 2 <= pos + 1
    BY <1>1
  <2> QED
    BY <1>1, <1>2, <1>3, <2>1 DEF InTrailerAt, TrailerStates
<1>5. Place(s, fd, t, pos + 1, got, p, got, e, q)
  BY <1>4 DEF Place
<1> QED
  BY <1>1, <1>5 DEF Reading

\* The last chunk, and the caller reads its trailer.
LEMMA BodyEnds ==
  ASSUME NEW s \in Seq(Octet), NEW fd \in 0..Len(s), NEW d \in Decoder,
         NEW pos \in 0..(fd - 1), NEW got \in Seq(Octet), Reading(s, fd, d, pos, got),
         d.state = "CHUNK_HEADER_EXPECT_LF", At(s, pos) = LF, d.bytes_left_in_chunk = 0,
         ~d.consume_trailer
  PROVE  MeansDone(s, fd, d.consume_trailer, got, pos + 1)
<1> DEFINE b == SubSeq(s, 1, fd)
           ct == d.consume_trailer
<1>1. PICK p \in Nat, e \in Nat, q \in Nat :
        /\ Resumes(s, fd, ct, p, got)
        /\ Header(s, p, e, q)
        /\ pos + 1 = q + 2
        /\ d.bytes_left_in_chunk = Number(s, p, e)
  BY HeaderPlace
<1>2. q + 2 <= fd /\ Number(s, p, e) = 0 /\ ct \in BOOLEAN
  BY <1>1 DEF Decoder
<1>3. /\ b \in Seq(Octet) /\ Len(b) = fd /\ Header(b, p, e, q) /\ Number(b, p, e) = 0
      /\ p < e /\ e <= q
  BY <1>1, <1>2, PrefixReads, HeaderPrefix
<1>4. p \in 0..Len(b)
  BY <1>2, <1>3
<1>5. From(b, ct, p) = Done(q + 2)
  <2>1. From(b, ct, p) = IF ct THEN Trailer(b, q + 2) ELSE Done(q + 2)
    <3> HIDE DEF b
    <3> QED
      BY <1>2, <1>3, <1>4, LastChunk
  <2> QED
    BY <2>1
<1>6. q + 2 \in Nat
  OBVIOUS
<1> QED
  BY <1>1, <1>2, <1>5, <1>6, ThenDone

----------------------------------------------------------------------------
(***************************************************************************)
(* The data of a chunk and the CR LF behind them.                          *)
(***************************************************************************)

\* What a place in a chunk's data means, or in the delimiter behind them.
LEMMA DataPlace ==
  ASSUME NEW s \in Seq(Octet), NEW fd \in 0..Len(s), NEW d \in Decoder,
         NEW pos \in 0..fd, NEW got \in Seq(Octet), Reading(s, fd, d, pos, got),
         d.state \in SizeStates
  PROVE  \E p \in Nat, e \in Nat, q \in Nat, out \in Seq(Octet) :
           /\ InDataAt(s, d, pos, got, p, out, e, q)
           /\ Resumes(s, fd, d.consume_trailer, p, out)
           /\ p < e /\ e <= q /\ q + 2 <= Len(s)
           /\ Number(s, p, e) \in Nat
<1>1. PICK p \in Nat, e \in Nat, q \in Nat, out \in Seq(Octet) :
        /\ Place(s, fd, d, pos, got, p, out, e, q)
        /\ Resumes(s, fd, d.consume_trailer, p, out)
  BY DEF Reading
<1>2. InDataAt(s, d, pos, got, p, out, e, q)
  BY <1>1 DEF Place, AtSize, InLineAt, InTrailerAt, SizeStates, TrailerStates
<1>3. Header(s, p, e, q)
  BY <1>2 DEF InDataAt
<1>4. p < e /\ e <= q /\ q + 1 \in 0..(Len(s) - 1) /\ Len(s) \in Nat
  BY <1>3, Delimiters, ReadAt, LenProperties DEF Header, Line
<1>5. p \in 0..Len(s)
  BY <1>4
<1>6. q + 2 <= Len(s) /\ Number(s, p, e) \in Nat
  BY <1>3, <1>5, HeaderRead
<1> QED
  BY <1>1, <1>2, <1>4, <1>6

\* Payloads may be joined in any order of joining.
LEMMA Joined ==
  ASSUME NEW x \in Seq(Octet), NEW y \in Seq(Octet), NEW z \in Seq(Octet)
  PROVE  (x \o y) \o z = x \o (y \o z)
BY ConcatAssociative, SMTT(60)

\* A part of the stream and the part that follows it.
LEMMA Adjacent ==
  ASSUME NEW s \in Seq(Octet), NEW lo \in Nat, NEW mid \in Nat, NEW hi \in Nat,
         lo <= mid, mid <= hi, hi <= Len(s)
  PROVE  /\ SubSeq(s, lo + 1, mid) \in Seq(Octet)
         /\ SubSeq(s, mid + 1, hi) \in Seq(Octet)
         /\ SubSeq(s, lo + 1, mid) \o SubSeq(s, mid + 1, hi) = SubSeq(s, lo + 1, hi)
<1>1. Len(s) \in Nat
  BY LenProperties
<1>2. SubSeq(s, lo + 1, mid) \in Seq(Octet) /\ SubSeq(s, mid + 1, hi) \in Seq(Octet)
  <2>1. Len(s) \in 0..Len(s) /\ mid <= Len(s)
    BY <1>1
  <2> QED
    BY <2>1, PartOfPrefix
<1>3. SubSeq(s, lo + 1, mid) \o SubSeq(s, mid + 1, hi) = SubSeq(s, lo + 1, hi)
  <2>1. lo + 1 \in 1..(Len(s) + 1) /\ mid \in (lo + 1 - 1)..Len(s) /\ hi \in mid..Len(s)
    BY <1>1
  <2> QED
    BY <2>1, ConcatAdjacentSubSeq
<1> QED
  BY <1>2, <1>3

\* The fragment ends in the data.
LEMMA DataTaken ==
  ASSUME NEW s \in Seq(Octet), NEW fd \in 0..Len(s), NEW d \in Decoder,
         NEW pos \in 0..fd, NEW got \in Seq(Octet), Reading(s, fd, d, pos, got),
         d.state = "CHUNK_DATA", NEW x \in pos..fd, x - pos < d.bytes_left_in_chunk,
         NEW t \in Decoder, t.state = "CHUNK_DATA",
         t.consume_trailer = d.consume_trailer, t.hex_count = d.hex_count,
         t.bytes_left_in_chunk = d.bytes_left_in_chunk - (x - pos)
  PROVE  Reading(s, fd, t, x, got \o SubSeq(s, pos + 1, x))
<1>1. PICK p \in Nat, e \in Nat, q \in Nat, out \in Seq(Octet) :
        /\ InDataAt(s, d, pos, got, p, out, e, q)
        /\ Resumes(s, fd, d.consume_trailer, p, out)
        /\ Number(s, p, e) \in Nat
  BY DataPlace DEF SizeStates
<1>2. /\ q + 2 <= pos /\ q + 2 + Number(s, p, e) = pos + d.bytes_left_in_chunk
      /\ got = out \o SubSeq(s, q + 2 + 1, pos)
      /\ Header(s, p, e, q) /\ Number(s, p, e) > 0 /\ d.hex_count = 0
  BY <1>1 DEF InDataAt
<1>3. /\ x \in Nat /\ pos \in Nat /\ pos <= x /\ x <= Len(s) /\ d.bytes_left_in_chunk \in Nat
  BY LenProperties DEF Decoder
<1>4. got \o SubSeq(s, pos + 1, x) = out \o SubSeq(s, q + 2 + 1, x)
  <2> DEFINE data == q + 2
  <2>1. data \in Nat /\ data <= pos /\ got = out \o SubSeq(s, data + 1, pos)
    BY <1>2
  <2> HIDE DEF data
  <2> DEFINE u == SubSeq(s, data + 1, pos)
             y == SubSeq(s, pos + 1, x)
             z == SubSeq(s, data + 1, x)
  <2>2. got = out \o u
    BY <2>1
  <2>3. u \in Seq(Octet) /\ y \in Seq(Octet) /\ u \o y = z
    BY <1>3, <2>1, Adjacent
  <2> HIDE DEF u, y, z
  <2>4. (out \o u) \o y = out \o (u \o y)
    BY <2>3, Joined
  <2>5. got \o y = out \o z
    BY <2>2, <2>3, <2>4
  <2> QED
    BY <2>5 DEF data, y, z
<1>5. /\ q + 2 <= x /\ t.bytes_left_in_chunk > 0
      /\ q + 2 + Number(s, p, e) = x + t.bytes_left_in_chunk
  <2> DEFINE l == d.bytes_left_in_chunk
             z == Number(s, p, e)
  <2>1. /\ l \in Nat /\ z \in Nat /\ q + 2 <= pos /\ q + 2 + z = pos + l
        /\ x - pos < l /\ t.bytes_left_in_chunk = l - (x - pos)
    BY <1>1, <1>2, <1>3
  <2> HIDE DEF l, z
  <2>2. q + 2 <= x /\ l - (x - pos) > 0 /\ q + 2 + z = x + (l - (x - pos))
    BY <1>3, <2>1
  <2> QED
    BY <2>1, <2>2 DEF z
<1>6. InDataAt(s, t, x, got \o SubSeq(s, pos + 1, x), p, out, e, q)
  BY <1>2, <1>4, <1>5 DEF InDataAt, SizeStates
<1>7. Place(s, fd, t, x, got \o SubSeq(s, pos + 1, x), p, out, e, q)
  BY <1>6 DEF Place
<1> QED
  BY <1>1, <1>7 DEF Reading

\* All the data of the chunk are there.
LEMMA DataEnds ==
  ASSUME NEW s \in Seq(Octet), NEW fd \in 0..Len(s), NEW d \in Decoder,
         NEW pos \in 0..fd, NEW got \in Seq(Octet), Reading(s, fd, d, pos, got),
         d.state = "CHUNK_DATA", NEW x \in pos..fd, x - pos = d.bytes_left_in_chunk,
         NEW t \in Decoder, t.state = "CHUNK_DATA_EXPECT_CR",
         t.consume_trailer = d.consume_trailer, t.hex_count = d.hex_count,
         t.bytes_left_in_chunk = 0
  PROVE  Reading(s, fd, t, x, got \o SubSeq(s, pos + 1, x))
<1>1. PICK p \in Nat, e \in Nat, q \in Nat, out \in Seq(Octet) :
        /\ InDataAt(s, d, pos, got, p, out, e, q)
        /\ Resumes(s, fd, d.consume_trailer, p, out)
        /\ Number(s, p, e) \in Nat
  BY DataPlace DEF SizeStates
<1>2. /\ q + 2 <= pos /\ q + 2 + Number(s, p, e) = pos + d.bytes_left_in_chunk
      /\ got = out \o SubSeq(s, q + 2 + 1, pos)
      /\ Header(s, p, e, q) /\ Number(s, p, e) > 0 /\ d.hex_count = 0
  BY <1>1 DEF InDataAt
<1>3. /\ x \in Nat /\ pos \in Nat /\ pos <= x /\ x <= Len(s) /\ d.bytes_left_in_chunk \in Nat
  BY LenProperties DEF Decoder
<1>4. got \o SubSeq(s, pos + 1, x) = out \o SubSeq(s, q + 2 + 1, x)
  <2> DEFINE data == q + 2
  <2>1. data \in Nat /\ data <= pos /\ got = out \o SubSeq(s, data + 1, pos)
    BY <1>2
  <2> HIDE DEF data
  <2> DEFINE u == SubSeq(s, data + 1, pos)
             y == SubSeq(s, pos + 1, x)
             z == SubSeq(s, data + 1, x)
  <2>2. got = out \o u
    BY <2>1
  <2>3. u \in Seq(Octet) /\ y \in Seq(Octet) /\ u \o y = z
    BY <1>3, <2>1, Adjacent
  <2> HIDE DEF u, y, z
  <2>4. (out \o u) \o y = out \o (u \o y)
    BY <2>3, Joined
  <2>5. got \o y = out \o z
    BY <2>2, <2>3, <2>4
  <2> QED
    BY <2>5 DEF data, y, z
<1>5. q + 2 + Number(s, p, e) = x
  <2> DEFINE l == d.bytes_left_in_chunk
             z == Number(s, p, e)
  <2>1. l \in Nat /\ z \in Nat /\ q + 2 + z = pos + l /\ x - pos = l
    BY <1>1, <1>2, <1>3
  <2> HIDE DEF l, z
  <2>2. q + 2 + z = x
    BY <1>3, <2>1
  <2> QED
    BY <2>2 DEF z
<1>6. InDataAt(s, t, x, got \o SubSeq(s, pos + 1, x), p, out, e, q)
  BY <1>2, <1>4, <1>5 DEF InDataAt, SizeStates
<1>7. Place(s, fd, t, x, got \o SubSeq(s, pos + 1, x), p, out, e, q)
  BY <1>6 DEF Place
<1> QED
  BY <1>1, <1>7 DEF Reading

\* The data are not followed by CR LF.
LEMMA DelimiterRefused ==
  ASSUME NEW s \in Seq(Octet), NEW fd \in 0..Len(s), NEW d \in Decoder,
         NEW pos \in 0..(fd - 1), NEW got \in Seq(Octet), Reading(s, fd, d, pos, got),
         \/ d.state = "CHUNK_DATA_EXPECT_CR" /\ At(s, pos) # CR
         \/ d.state = "CHUNK_DATA_EXPECT_LF" /\ At(s, pos) # LF
  PROVE  Verdict(s, fd, d.consume_trailer) = "bad"
<1> DEFINE b == SubSeq(s, 1, fd)
           ct == d.consume_trailer
<1>1. PICK p \in Nat, e \in Nat, q \in Nat, out \in Seq(Octet) :
        /\ InDataAt(s, d, pos, got, p, out, e, q)
        /\ Resumes(s, fd, ct, p, out)
        /\ p < e /\ e <= q /\ q + 2 <= Len(s)
        /\ Number(s, p, e) \in Nat
  BY DataPlace DEF SizeStates
<1> DEFINE after == q + 2 + Number(s, p, e)
<1>2. /\ Header(s, p, e, q) /\ Number(s, p, e) > 0
      /\ d.state = "CHUNK_DATA_EXPECT_CR" => pos = after
      /\ d.state = "CHUNK_DATA_EXPECT_LF" => pos = after + 1 /\ At(s, after) = CR
  BY <1>1 DEF InDataAt
<1>3. after \in Nat /\ after <= pos /\ pos <= after + 1 /\ pos \in 0..(fd - 1) /\ q + 2 <= fd
  BY <1>1, <1>2
<1>4. /\ b \in Seq(Octet) /\ Len(b) = fd /\ p \in 0..fd /\ ct \in BOOLEAN
      /\ At(b, pos) = At(s, pos) /\ At(b, pos) \in Octet
  <2>1. p \in 0..fd
    BY <1>1, <1>3
  <2> QED
    BY <1>3, <2>1, PrefixReads, ReadAt DEF Decoder
<1>5. Header(b, p, e, q) /\ Number(b, p, e) = Number(s, p, e)
  BY <1>2, <1>3, HeaderPrefix
<1>6. NotCRLF(b, after)
  <2> HIDE DEF after, b
  <2>1. CASE d.state = "CHUNK_DATA_EXPECT_CR" /\ At(s, pos) # CR
    BY <1>2, <1>4, <2>1, Delimiters DEF NotCRLF, IsNot
  <2>2. CASE d.state = "CHUNK_DATA_EXPECT_LF" /\ At(s, pos) # LF
    <3>1. At(b, after) = CR
      <4>1. after \in 0..(fd - 1) /\ At(s, after) = CR
        BY <1>2, <1>3, <2>2
      <4> QED
        BY <4>1, PrefixReads DEF b
    <3> QED
      BY <1>2, <1>4, <2>2, <3>1, Delimiters DEF NotCRLF, IsNot
  <2> QED
    BY <2>1, <2>2
<1>7. From(b, ct, p) = Bad
  <2>1. NotCRLF(b, q + 2 + Number(b, p, e)) /\ Number(b, p, e) > 0
    BY <1>2, <1>5, <1>6
  <2> HIDE DEF b, ct
  <2> QED
    BY <1>4, <1>5, <2>1, BrokenChunk
<1> QED
  BY <1>1, <1>4, <1>7, ThenBad

\* The CR behind the data.
LEMMA CRTaken ==
  ASSUME NEW s \in Seq(Octet), NEW fd \in 0..Len(s), NEW d \in Decoder,
         NEW pos \in 0..(fd - 1), NEW got \in Seq(Octet), Reading(s, fd, d, pos, got),
         d.state = "CHUNK_DATA_EXPECT_CR", At(s, pos) = CR,
         NEW t \in Decoder, t.state = "CHUNK_DATA_EXPECT_LF",
         t.consume_trailer = d.consume_trailer, t.hex_count = d.hex_count,
         t.bytes_left_in_chunk = d.bytes_left_in_chunk
  PROVE  Reading(s, fd, t, pos + 1, got)
<1>1. PICK p \in Nat, e \in Nat, q \in Nat, out \in Seq(Octet) :
        /\ InDataAt(s, d, pos, got, p, out, e, q)
        /\ Resumes(s, fd, d.consume_trailer, p, out)
  BY DataPlace DEF SizeStates
<1>2. /\ d.hex_count = 0 /\ d.bytes_left_in_chunk = 0
      /\ Header(s, p, e, q) /\ Number(s, p, e) > 0
      /\ got = out \o SubSeq(s, q + 2 + 1, q + 2 + Number(s, p, e))
      /\ pos = q + 2 + Number(s, p, e)
  BY <1>1 DEF InDataAt
<1>3. pos + 1 = q + 2 + Number(s, p, e) + 1 /\ At(s, q + 2 + Number(s, p, e)) = CR
  BY <1>2
<1>4. InDataAt(s, t, pos + 1, got, p, out, e, q)
  BY <1>2, <1>3 DEF InDataAt, SizeStates
<1>5. Place(s, fd, t, pos + 1, got, p, out, e, q)
  BY <1>4 DEF Place
<1> QED
  BY <1>1, <1>5 DEF Reading

\* One payload after another.
LEMMA PrependTwice ==
  ASSUME NEW m \in Meanings, NEW x \in Seq(Octet), NEW y \in Seq(Octet)
  PROVE  Prepend(x, Prepend(y, m)) = Prepend(x \o y, m)
<1> DEFINE o == m.out
           u == y \o m.out
           v == (x \o y) \o m.out
<1>1. o \in Seq(Octet)
  BY DEF Meanings
<1>2. x \o u = v
  <2> HIDE DEF o
  <2>1. (x \o y) \o o = x \o (y \o o)
    BY <1>1, Joined
  <2> QED
    BY <2>1 DEF o
<1>3. Prepend(y, m) = [m EXCEPT !.out = u] /\ Prepend(x \o y, m) = [m EXCEPT !.out = v]
  BY DEF Prepend
<1> HIDE DEF u, v
<1>4. Prepend(x, [m EXCEPT !.out = u]) = [m EXCEPT !.out = x \o u]
  BY DEF Prepend, Meanings
<1> QED
  BY <1>2, <1>3, <1>4

\* The LF behind the data: the next chunk begins.
LEMMA ChunkEnds ==
  ASSUME NEW s \in Seq(Octet), NEW fd \in 0..Len(s), NEW d \in Decoder,
         NEW pos \in 0..(fd - 1), NEW got \in Seq(Octet), Reading(s, fd, d, pos, got),
         d.state = "CHUNK_DATA_EXPECT_LF", At(s, pos) = LF,
         NEW t \in Decoder, t.state = "CHUNK_SIZE",
         t.consume_trailer = d.consume_trailer, t.hex_count = d.hex_count,
         t.bytes_left_in_chunk = d.bytes_left_in_chunk
  PROVE  Reading(s, fd, t, pos + 1, got)
<1> DEFINE ct == d.consume_trailer
<1>1. PICK p \in Nat, e \in Nat, q \in Nat, out \in Seq(Octet) :
        /\ InDataAt(s, d, pos, got, p, out, e, q)
        /\ Resumes(s, fd, ct, p, out)
        /\ p < e /\ e <= q /\ q + 2 <= Len(s)
        /\ Number(s, p, e) \in Nat
  BY DataPlace DEF SizeStates
<1> DEFINE after == q + 2 + Number(s, p, e)
           arrived == SubSeq(s, q + 2 + 1, after)
<1>2. /\ Header(s, p, e, q) /\ Number(s, p, e) > 0
      /\ pos = after + 1 /\ At(s, after) = CR
      /\ got = out \o arrived
      /\ d.hex_count = 0 /\ d.bytes_left_in_chunk = 0
  BY <1>1 DEF InDataAt
<1>3. /\ after \in Nat /\ q + 2 <= after /\ after + 2 = pos + 1 /\ after + 2 <= fd
      /\ q + 2 <= fd /\ p \in 0..fd /\ fd \in Nat /\ pos + 1 \in Nat
  <2>1. after \in Nat /\ q + 2 <= after
    BY <1>1
  <2> HIDE DEF after
  <2> QED
    BY <1>1, <1>2, <2>1
<1>4. ASSUME NEW n \in fd..Len(s)
      PROVE  Meaning(SubSeq(s, 1, n), ct)
               = Prepend(got, From(SubSeq(s, 1, n), ct, pos + 1))
  <2> DEFINE b == SubSeq(s, 1, n)
  <2>1. n \in 0..Len(s) /\ q + 2 <= n /\ after <= n /\ after + 2 <= n /\ p \in 0..n
    <3> HIDE DEF after
    <3> QED
      BY <1>3, LenProperties
  <2>2. /\ b \in Seq(Octet) /\ Len(b) = n /\ ct \in BOOLEAN
        /\ \A i \in 0..(n - 1) : At(b, i) = At(s, i)
    BY <2>1, PrefixReads DEF Decoder
  <2>3. Header(b, p, e, q) /\ Number(b, p, e) = Number(s, p, e)
    BY <1>2, <2>1, HeaderPrefix
  <2>4. ~NotCRLF(b, after)
    <3>1. after \in 0..(n - 1) /\ after + 1 \in 0..(n - 1) /\ after + 1 = pos
      <4> HIDE DEF after
      <4> QED
        BY <1>2, <1>3, <2>1
    <3>2. At(b, after) = CR /\ At(b, after + 1) = LF
      <4> HIDE DEF after, b
      <4> QED
        BY <1>2, <2>2, <3>1
    <3> HIDE DEF after, b
    <3> QED
      BY <3>2, Delimiters DEF NotCRLF, IsNot
  <2>5. /\ From(b, ct, p) = Prepend(SubSeq(b, q + 2 + 1, after), From(b, ct, after + 2))
        /\ From(b, ct, after + 2) \in Meanings
    <3>1. after = q + 2 + Number(b, p, e) /\ Number(b, p, e) > 0 /\ after + 2 <= Len(b)
      BY <1>2, <2>1, <2>2, <2>3
    <3>2. p \in 0..Len(b)
      BY <2>1, <2>2
    <3> HIDE DEF b, ct, after
    <3> QED
      BY <1>3, <2>2, <2>3, <2>4, <3>1, <3>2, WholeChunk, SMTT(60)
  <2>6. SubSeq(b, q + 2 + 1, after) = arrived /\ arrived \in Seq(Octet)
    <3>1. q + 2 \in Nat
      OBVIOUS
    <3> HIDE DEF after
    <3> QED
      BY <1>3, <2>1, <3>1, PartOfPrefix
  <2>7. Meaning(b, ct) = Prepend(out, From(b, ct, p))
    BY <1>1 DEF Resumes
  <2> DEFINE rest == From(b, ct, after + 2)
  <2>8. rest = From(b, ct, pos + 1)
    <3> HIDE DEF after
    <3> QED
      BY <1>3
  <2> HIDE DEF b, ct, arrived, rest, after
  <2>9. Prepend(out, Prepend(arrived, rest)) = Prepend(out \o arrived, rest)
    <3>1. rest \in Meanings
      BY <2>5 DEF rest
    <3> QED
      BY <2>6, <3>1, PrependTwice
  <2>10. Meaning(b, ct) = Prepend(got, From(b, ct, pos + 1))
    BY <1>2, <2>5, <2>6, <2>7, <2>8, <2>9 DEF rest
  <2> QED
    BY <2>10 DEF b
<1>5. Resumes(s, fd, ct, pos + 1, got)
  BY <1>4 DEF Resumes
<1>6. AtSize(s, t, pos + 1, got, pos + 1, got)
  <2>1. Digits(s, pos + 1, pos + 1)
    BY <1>3, MaxHexAssumption DEF Digits
  <2>2. Number(s, pos + 1, pos + 1) = 0
    BY <1>3, NumberOfNone
  <2>3. t.hex_count = (pos + 1) - (pos + 1)
    BY <1>2, <1>3
  <2> QED
    BY <1>2, <2>1, <2>2, <2>3 DEF AtSize
<1>7. Place(s, fd, t, pos + 1, got, pos + 1, got, 0, 0)
  BY <1>6 DEF Place
<1> QED
  BY <1>3, <1>5, <1>7 DEF Reading

----------------------------------------------------------------------------
(***************************************************************************)
(* The trailer.                                                            *)
(***************************************************************************)

\* What a place in the trailer means.
LEMMA TrailerPlace ==
  ASSUME NEW s \in Seq(Octet), NEW fd \in 0..Len(s), NEW d \in Decoder,
         NEW pos \in 0..fd, NEW got \in Seq(Octet), Reading(s, fd, d, pos, got),
         d.state \in TrailerStates
  PROVE  \E p \in Nat, e \in Nat, q \in Nat :
           /\ InTrailerAt(s, d, pos, got, p, got, e, q)
           /\ Resumes(s, fd, d.consume_trailer, p, got)
           /\ p < e /\ e <= q
<1>1. PICK p \in Nat, e \in Nat, q \in Nat, out \in Seq(Octet) :
        /\ Place(s, fd, d, pos, got, p, out, e, q)
        /\ Resumes(s, fd, d.consume_trailer, p, out)
  BY DEF Reading
<1>2. InTrailerAt(s, d, pos, got, p, out, e, q)
  BY <1>1 DEF Place, AtSize, InLineAt, InDataAt, SizeStates, TrailerStates
<1>3. out = got /\ Header(s, p, e, q)
  BY <1>2 DEF InTrailerAt
<1>4. p < e /\ e <= q
  BY <1>3 DEF Header, Line
<1> QED
  BY <1>1, <1>2, <1>3, <1>4

\* The decoder has come to x, where no empty line has ended yet.
LEMMA TrailerMoves ==
  ASSUME NEW s \in Seq(Octet), NEW fd \in 0..Len(s), NEW d \in Decoder,
         NEW pos \in 0..fd, NEW got \in Seq(Octet),
         NEW p \in Nat, NEW e \in Nat, NEW q \in Nat,
         InTrailerAt(s, d, pos, got, p, got, e, q),
         Resumes(s, fd, d.consume_trailer, p, got),
         NEW x \in pos..fd,
         \A i \in pos..(x - 1) : i \notin EmptyLines(s, q + 2),
         NEW t \in Decoder, t.consume_trailer = d.consume_trailer,
         t.state \in TrailerStates,
         NEW l \in (q + 2)..x, l = q + 2 \/ At(s, l - 1) = LF,
         t.state = "TRAILERS_LINE_HEAD" => \A r \in l..(x - 1) : At(s, r) = CR,
         t.state = "TRAILERS_LINE_MIDDLE" =>
           \E r \in l..(x - 1) : At(s, r) # CR /\ \A i \in l..(x - 1) : At(s, i) # LF
  PROVE  Reading(s, fd, t, x, got)
<1>1. \A f \in EmptyLines(s, q + 2) : x <= f
  <2> TAKE f \in EmptyLines(s, q + 2)
  <2>1. pos <= f /\ f \in Int
    BY LenProperties DEF InTrailerAt, EmptyLines
  <2> QED
    BY <2>1
<1>2. q + 2 <= x
  OBVIOUS
<1>3. InTrailerAt(s, t, x, got, p, got, e, q)
  BY <1>1, <1>2 DEF InTrailerAt
<1>4. Place(s, fd, t, x, got, p, got, e, q)
  BY <1>3 DEF Place
<1> QED
  BY <1>4 DEF Reading

\* Carriage returns at the head of a line, up to x.
LEMMA HeadTaken ==
  ASSUME NEW s \in Seq(Octet), NEW fd \in 0..Len(s), NEW d \in Decoder,
         NEW pos \in 0..fd, NEW got \in Seq(Octet), Reading(s, fd, d, pos, got),
         d.state = "TRAILERS_LINE_HEAD", NEW x \in pos..fd,
         \A i \in pos..(x - 1) : At(s, i) = CR
  PROVE  Reading(s, fd, d, x, got)
<1>1. PICK p \in Nat, e \in Nat, q \in Nat :
        /\ InTrailerAt(s, d, pos, got, p, got, e, q)
        /\ Resumes(s, fd, d.consume_trailer, p, got)
  BY TrailerPlace DEF TrailerStates
<1>2. PICK l \in (q + 2)..pos :
        /\ l = q + 2 \/ At(s, l - 1) = LF
        /\ \A r \in l..(pos - 1) : At(s, r) = CR
  BY <1>1 DEF InTrailerAt
<1>3. l \in (q + 2)..x /\ \A r \in l..(x - 1) : r \in l..(pos - 1) \/ r \in pos..(x - 1)
  OBVIOUS
<1>4. \A r \in l..(x - 1) : At(s, r) = CR
  BY <1>2, <1>3
<1>5. \A i \in pos..(x - 1) : i \notin EmptyLines(s, q + 2)
  BY Delimiters DEF EmptyLines
<1>6. d.state \in TrailerStates /\ d.state # "TRAILERS_LINE_MIDDLE"
  BY DEF TrailerStates
<1> QED
  BY <1>1, <1>2, <1>3, <1>4, <1>5, <1>6, TrailerMoves

\* A line that is not empty begins.
LEMMA LineBegins ==
  ASSUME NEW s \in Seq(Octet), NEW fd \in 0..Len(s), NEW d \in Decoder,
         NEW pos \in 0..fd, NEW got \in Seq(Octet), Reading(s, fd, d, pos, got),
         d.state = "TRAILERS_LINE_HEAD", NEW x \in pos..(fd - 1),
         \A i \in pos..(x - 1) : At(s, i) = CR, At(s, x) \notin {CR, LF},
         NEW t \in Decoder, t.state = "TRAILERS_LINE_MIDDLE",
         t.consume_trailer = d.consume_trailer
  PROVE  Reading(s, fd, t, x + 1, got)
<1>1. PICK p \in Nat, e \in Nat, q \in Nat :
        /\ InTrailerAt(s, d, pos, got, p, got, e, q)
        /\ Resumes(s, fd, d.consume_trailer, p, got)
  BY TrailerPlace DEF TrailerStates
<1>2. PICK l \in (q + 2)..pos :
        /\ l = q + 2 \/ At(s, l - 1) = LF
        /\ \A r \in l..(pos - 1) : At(s, r) = CR
  BY <1>1 DEF InTrailerAt
<1>3. /\ l \in (q + 2)..(x + 1) /\ x + 1 \in pos..fd /\ x \in l..(x + 1 - 1)
      /\ \A r \in l..(x + 1 - 1) : r \in l..(pos - 1) \/ r \in pos..(x - 1) \/ r = x
      /\ \A r \in pos..(x + 1 - 1) : r \in pos..(x - 1) \/ r = x
  OBVIOUS
<1>4. \A i \in l..(x + 1 - 1) : At(s, i) # LF
  BY <1>2, <1>3, Delimiters
<1>5. \A i \in pos..(x + 1 - 1) : i \notin EmptyLines(s, q + 2)
  BY <1>3, Delimiters DEF EmptyLines
<1>6. t.state \in TrailerStates /\ t.state # "TRAILERS_LINE_HEAD"
  BY DEF TrailerStates
<1>7. \E r \in l..(x + 1 - 1) :
        At(s, r) # CR /\ \A i \in l..(x + 1 - 1) : At(s, i) # LF
  BY <1>3, <1>4
<1> DEFINE y == x + 1
<1>8. /\ y \in pos..fd /\ \A i \in pos..(y - 1) : i \notin EmptyLines(s, q + 2)
      /\ l \in (q + 2)..y
      /\ \E r \in l..(y - 1) : At(s, r) # CR /\ \A i \in l..(y - 1) : At(s, i) # LF
  BY <1>3, <1>5, <1>7
<1> HIDE DEF y
<1>9. Reading(s, fd, t, y, got)
  BY <1>1, <1>2, <1>6, <1>8, TrailerMoves
<1> QED
  BY <1>9 DEF y

\* The fragment ends in a line.
LEMMA MiddleTaken ==
  ASSUME NEW s \in Seq(Octet), NEW fd \in 0..Len(s), NEW d \in Decoder,
         NEW pos \in 0..fd, NEW got \in Seq(Octet), Reading(s, fd, d, pos, got),
         d.state = "TRAILERS_LINE_MIDDLE", NEW x \in pos..fd,
         \A i \in pos..(x - 1) : At(s, i) # LF
  PROVE  Reading(s, fd, d, x, got)
<1>1. PICK p \in Nat, e \in Nat, q \in Nat :
        /\ InTrailerAt(s, d, pos, got, p, got, e, q)
        /\ Resumes(s, fd, d.consume_trailer, p, got)
  BY TrailerPlace DEF TrailerStates
<1>2. PICK l \in (q + 2)..pos :
        /\ l = q + 2 \/ At(s, l - 1) = LF
        /\ \E r \in l..(pos - 1) : At(s, r) # CR /\ \A i \in l..(pos - 1) : At(s, i) # LF
  BY <1>1 DEF InTrailerAt
<1>3. /\ l \in (q + 2)..x
      /\ \A r \in l..(x - 1) : r \in l..(pos - 1) \/ r \in pos..(x - 1)
      /\ l..(pos - 1) \subseteq l..(x - 1)
  OBVIOUS
<1>4. \E r \in l..(x - 1) : At(s, r) # CR /\ \A i \in l..(x - 1) : At(s, i) # LF
  BY <1>2, <1>3
<1>5. \A i \in pos..(x - 1) : i \notin EmptyLines(s, q + 2)
  BY DEF EmptyLines
<1>6. d.state \in TrailerStates /\ d.state # "TRAILERS_LINE_HEAD"
  BY DEF TrailerStates
<1> QED
  BY <1>1, <1>2, <1>3, <1>4, <1>5, <1>6, TrailerMoves

\* A line that is not empty ends.
LEMMA MiddleEnds ==
  ASSUME NEW s \in Seq(Octet), NEW fd \in 0..Len(s), NEW d \in Decoder,
         NEW pos \in 0..fd, NEW got \in Seq(Octet), Reading(s, fd, d, pos, got),
         d.state = "TRAILERS_LINE_MIDDLE", NEW x \in pos..(fd - 1),
         \A i \in pos..(x - 1) : At(s, i) # LF, At(s, x) = LF,
         NEW t \in Decoder, t.state = "TRAILERS_LINE_HEAD",
         t.consume_trailer = d.consume_trailer
  PROVE  Reading(s, fd, t, x + 1, got)
<1>1. PICK p \in Nat, e \in Nat, q \in Nat :
        /\ InTrailerAt(s, d, pos, got, p, got, e, q)
        /\ Resumes(s, fd, d.consume_trailer, p, got)
  BY TrailerPlace DEF TrailerStates
<1> PICK l \in (q + 2)..pos :
      \E r \in l..(pos - 1) : At(s, r) # CR /\ \A i \in l..(pos - 1) : At(s, i) # LF
  BY <1>1 DEF InTrailerAt
<1>2. PICK r \in l..(pos - 1) : At(s, r) # CR /\ \A i \in l..(pos - 1) : At(s, i) # LF
  OBVIOUS
<1>3. \A i \in l..(x - 1) : At(s, i) # LF
  <2>1. \A i \in l..(x - 1) : i \in l..(pos - 1) \/ i \in pos..(x - 1)
    OBVIOUS
  <2> QED
    BY <1>2, <2>1
<1>4. x \notin EmptyLines(s, q + 2)
  <2> SUFFICES ASSUME NEW m \in (q + 2)..x, m = q + 2 \/ At(s, m - 1) = LF,
                      \A i \in m..(x - 1) : At(s, i) = CR
               PROVE  FALSE
    BY DEF EmptyLines
  <2>1. CASE m <= r
    <3>1. r \in m..(x - 1)
      BY <2>1
    <3> QED
      BY <1>2, <3>1
  <2>2. CASE r < m
    <3>1. m # q + 2 /\ m - 1 \in l..(x - 1)
      BY <2>2
    <3> QED
      BY <1>3, <3>1
  <2> QED
    BY <2>1, <2>2
<1>5. \A i \in pos..(x + 1 - 1) : i \notin EmptyLines(s, q + 2)
  <2>1. \A i \in pos..(x + 1 - 1) : i \in pos..(x - 1) \/ i = x
    OBVIOUS
  <2> QED
    BY <1>4, <2>1 DEF EmptyLines
<1>6. /\ x + 1 \in (q + 2)..(x + 1) /\ x + 1 \in pos..fd /\ At(s, x + 1 - 1) = LF
      /\ \A i \in (x + 1)..(x + 1 - 1) : At(s, i) = CR
  BY <1>2
<1>7. t.state \in TrailerStates /\ t.state # "TRAILERS_LINE_MIDDLE"
  BY DEF TrailerStates
<1> DEFINE y == x + 1
<1>8. /\ y \in pos..fd /\ \A i \in pos..(y - 1) : i \notin EmptyLines(s, q + 2)
      /\ y \in (q + 2)..y /\ At(s, y - 1) = LF
      /\ \A i \in y..(y - 1) : At(s, i) = CR
  BY <1>5, <1>6
<1> HIDE DEF y
<1>9. Reading(s, fd, t, y, got)
  BY <1>1, <1>7, <1>8, TrailerMoves
<1> QED
  BY <1>9 DEF y

\* The empty line ends the body.
LEMMA HeadEnds ==
  ASSUME NEW s \in Seq(Octet), NEW fd \in 0..Len(s), NEW d \in Decoder,
         NEW pos \in 0..fd, NEW got \in Seq(Octet), Reading(s, fd, d, pos, got),
         d.state = "TRAILERS_LINE_HEAD", NEW x \in pos..(fd - 1),
         \A i \in pos..(x - 1) : At(s, i) = CR, At(s, x) = LF
  PROVE  MeansDone(s, fd, d.consume_trailer, got, x + 1)
<1> DEFINE b == SubSeq(s, 1, fd)
           ct == d.consume_trailer
<1>1. PICK p \in Nat, e \in Nat, q \in Nat :
        /\ InTrailerAt(s, d, pos, got, p, got, e, q)
        /\ Resumes(s, fd, ct, p, got)
        /\ p < e /\ e <= q
  BY TrailerPlace DEF TrailerStates
<1> DEFINE data == q + 2
           E == EmptyLines(b, data)
<1>2. PICK l \in data..pos :
        /\ l = data \/ At(s, l - 1) = LF
        /\ \A r \in l..(pos - 1) : At(s, r) = CR
  BY <1>1 DEF InTrailerAt
<1>3. /\ Header(s, p, e, q) /\ Number(s, p, e) = 0 /\ data <= pos /\ ct
      /\ \A f \in EmptyLines(s, data) : pos <= f
  BY <1>1 DEF InTrailerAt
<1>4. /\ b \in Seq(Octet) /\ Len(b) = fd /\ fd \in Nat /\ pos \in Nat /\ x \in Nat
      /\ data \in Nat /\ data <= fd /\ pos <= x /\ x < fd
      /\ \A i \in 0..(fd - 1) : At(b, i) = At(s, i)
  BY <1>3, PrefixReads, LenProperties
<1>5. x \in E
  <2>1. x \in data..(fd - 1) /\ At(b, x) = LF
    BY <1>3, <1>4
  <2>2. l \in data..x /\ \A r \in l..(x - 1) : r \in 0..(fd - 1) /\ (r \in l..(pos - 1) \/ r \in pos..(x - 1))
    BY <1>4
  <2>3. \A r \in l..(x - 1) : At(b, r) = CR
    BY <1>2, <1>4, <2>2
  <2>4. l = data \/ At(b, l - 1) = LF
    <3>1. l # data => l - 1 \in 0..(fd - 1)
      BY <1>4
    <3> QED
      BY <1>2, <1>4, <3>1
  <2> HIDE DEF b, data
  <2> QED
    BY <1>4, <2>1, <2>2, <2>3, <2>4 DEF EmptyLines
<1>6. ASSUME NEW f \in E
      PROVE  x <= f
  <2>1. f \in data..(fd - 1) /\ At(b, f) = LF
    BY <1>4 DEF EmptyLines
  <2>2. PICK m \in data..f : /\ m = data \/ At(b, m - 1) = LF
                             /\ \A r \in m..(f - 1) : At(b, r) = CR
    BY DEF EmptyLines
  <2>3. /\ f \in 0..(fd - 1) /\ (m # data => m - 1 \in 0..(fd - 1))
        /\ \A r \in m..(f - 1) : r \in 0..(fd - 1)
    BY <1>4, <2>1
  <2>4. At(s, f) = LF /\ (m = data \/ At(s, m - 1) = LF) /\ \A r \in m..(f - 1) : At(s, r) = CR
    BY <1>4, <2>1, <2>2, <2>3
  <2>5. f \in data..(Len(s) - 1)
    BY <1>4, <2>1, LenProperties
  <2>6. f \in EmptyLines(s, data)
    <3> HIDE DEF data
    <3> QED
      BY <2>4, <2>5 DEF EmptyLines
  <2>7. pos <= f /\ f \in Nat /\ f \notin pos..(x - 1)
    <3>1. pos <= f
      BY <1>3, <2>6
    <3>2. f \notin pos..(x - 1)
      BY <2>4, Delimiters
    <3> QED
      BY <1>4, <2>1, <3>1, <3>2
  <2> QED
    BY <1>4, <2>7
<1>7. Min(E) = x /\ E # {}
  <2>1. E \subseteq Nat
    BY <1>4 DEF EmptyLines
  <2> HIDE DEF E
  <2> QED
    BY <1>5, <1>6, <2>1, MinEquals
<1>8. Trailer(b, data) = Done(x + 1)
  <2> HIDE DEF b, data
  <2> QED
    BY <1>7 DEF Trailer
<1>9. Header(b, p, e, q) /\ Number(b, p, e) = 0 /\ p \in 0..Len(b)
  BY <1>1, <1>3, <1>4, HeaderPrefix
<1>10. From(b, ct, p) = Done(x + 1)
  <2>1. From(b, ct, p) = IF ct THEN Trailer(b, data) ELSE Done(data)
    <3>1. q + 2 <= Len(b) /\ ct \in BOOLEAN
      BY <1>3, <1>4
    <3> HIDE DEF b
    <3> QED
      BY <1>4, <1>9, <3>1, LastChunk
  <2> QED
    BY <1>3, <1>8, <2>1
<1>11. x + 1 \in Nat /\ ct \in BOOLEAN
  BY <1>4 DEF Decoder
<1> QED
  BY <1>1, <1>10, <1>11, ThenDone

----------------------------------------------------------------------------
(***************************************************************************)
(* Between two calls.                                                      *)
(***************************************************************************)

\* More of the stream is there, and the counters have changed.
LEMMA StillReading ==
  ASSUME NEW s \in Seq(Octet), NEW fd \in 0..Len(s), NEW d \in Decoder,
         NEW pos \in 0..fd, NEW got \in Seq(Octet), Reading(s, fd, d, pos, got),
         NEW more \in fd..Len(s), NEW t \in Decoder,
         t.state = d.state, t.consume_trailer = d.consume_trailer,
         t.hex_count = d.hex_count, t.bytes_left_in_chunk = d.bytes_left_in_chunk
  PROVE  Reading(s, more, t, pos, got)
<1>1. PICK p \in Nat, e \in Nat, q \in Nat, out \in Seq(Octet) :
        /\ Place(s, fd, d, pos, got, p, out, e, q)
        /\ Resumes(s, fd, d.consume_trailer, p, out)
  BY DEF Reading
<1>2. fd \in Nat /\ more \in Nat /\ fd <= more
  BY LenProperties
<1>3. Resumes(s, more, t.consume_trailer, p, out)
  <2>1. more..Len(s) \subseteq fd..Len(s)
    BY <1>2, LenProperties
  <2> QED
    BY <1>1, <2>1 DEF Resumes
<1>4. Place(s, more, t, pos, got, p, out, e, q)
  <2>1. CASE AtSize(s, d, pos, got, p, out)
    BY <2>1 DEF AtSize, Place
  <2>2. CASE InLineAt(s, fd, d, pos, got, p, out, e, q)
    <3>1. e < more
      BY <1>2, <2>2 DEF InLineAt
    <3>2. InLineAt(s, more, t, pos, got, p, out, e, q)
      BY <2>2, <3>1 DEF InLineAt
    <3> QED
      BY <3>2 DEF Place
  <2>3. CASE InDataAt(s, d, pos, got, p, out, e, q)
    <3>1. InDataAt(s, t, pos, got, p, out, e, q)
      BY <2>3 DEF InDataAt
    <3> QED
      BY <3>1 DEF Place
  <2>4. CASE InTrailerAt(s, d, pos, got, p, out, e, q)
    <3>1. InTrailerAt(s, t, pos, got, p, out, e, q)
      BY <2>4 DEF InTrailerAt
    <3> QED
      BY <3>1 DEF Place
  <2> QED
    BY <1>1, <2>1, <2>2, <2>3, <2>4 DEF Place
<1> QED
  BY <1>3, <1>4 DEF Reading

\* All that has been fed has been read.
LEMMA AllTaken ==
  ASSUME NEW s \in Seq(Octet), NEW fd \in 0..Len(s), NEW d \in Decoder,
         NEW got \in Seq(Octet), Reading(s, fd, d, fd, got)
  PROVE  Meaning(SubSeq(s, 1, fd), d.consume_trailer) = More(got, d.state = "CHUNK_DATA")
<1>1. PICK p \in Nat, e \in Nat, q \in Nat, out \in Seq(Octet) :
        /\ Place(s, fd, d, fd, got, p, out, e, q)
        /\ Resumes(s, fd, d.consume_trailer, p, out)
  BY DEF Reading
<1>2. fd \in fd..Len(s)
  BY LenProperties
<1>3. Meaning(SubSeq(s, 1, fd), d.consume_trailer)
        = Prepend(out, From(SubSeq(s, 1, fd), d.consume_trailer, p))
  BY <1>1, <1>2 DEF Resumes
<1> QED
  BY <1>1, <1>3, AtTheEnd

\* Nothing has been fed.
LEMMA NothingTaken ==
  ASSUME NEW s \in Seq(Octet), NEW trailer \in BOOLEAN
  PROVE  Reading(s, 0, ZeroFilled(trailer), 0, <<>>)
<1> DEFINE d == ZeroFilled(trailer)
<1>1. /\ d.state = "CHUNK_SIZE" /\ d.hex_count = 0 /\ d.bytes_left_in_chunk = 0
      /\ d.consume_trailer = trailer
  BY DEF ZeroFilled
<1>2. 0 \in Nat /\ Len(s) \in Nat /\ <<>> \in Seq(Octet)
  BY LenProperties, EmptySeq
<1>3. Digits(s, 0, 0) /\ Number(s, 0, 0) = 0
  BY <1>2, MaxHexAssumption, NumberOfNone DEF Digits
<1>4. AtSize(s, d, 0, <<>>, 0, <<>>)
  BY <1>1, <1>3 DEF AtSize
<1>5. Place(s, 0, d, 0, <<>>, 0, <<>>, 0, 0)
  BY <1>4 DEF Place
<1>6. ASSUME NEW n \in 0..Len(s)
      PROVE  Meaning(SubSeq(s, 1, n), trailer)
               = Prepend(<<>>, From(SubSeq(s, 1, n), trailer, 0))
  <2> DEFINE b == SubSeq(s, 1, n)
             m == From(b, trailer, 0)
  <2>1. b \in Seq(Octet) /\ 0 \in 0..Len(b)
    BY PrefixReads
  <2> HIDE DEF b
  <2>2. m \in Meanings /\ Meaning(b, trailer) = m
    BY <2>1, FromIs
  <2> HIDE DEF m
  <2>3. Prepend(<<>>, m) = m
    <3>1. m.out \in Seq(Octet)
      BY <2>2 DEF Meanings
    <3>2. <<>> \o m.out = m.out
      BY <3>1, ConcatEmptySeq
    <3>3. [m EXCEPT !.out = m.out] = m
      BY <2>2 DEF Meanings
    <3> QED
      BY <3>2, <3>3 DEF Prepend
  <2> QED
    BY <2>2, <2>3 DEF b, m
<1>7. Resumes(s, 0, trailer, 0, <<>>)
  BY <1>6 DEF Resumes
<1> QED
  BY <1>1, <1>2, <1>5, <1>7 DEF Reading

----------------------------------------------------------------------------
\* Sequences that read alike are the same.
LEMMA ReadAlike ==
  ASSUME NEW x \in Seq(Octet), NEW y \in Seq(Octet), Len(x) = Len(y),
         \A i \in 0..(Len(x) - 1) : At(x, i) = At(y, i)
  PROVE  x = y
<1>1. \A k \in 1..Len(x) : x[k] = y[k]
  <2> TAKE k \in 1..Len(x)
  <2>1. k - 1 \in 0..(Len(x) - 1) /\ k - 1 + 1 = k
    BY LenProperties
  <2>2. At(x, k - 1) = x[k - 1 + 1] /\ At(y, k - 1) = y[k - 1 + 1]
    BY <2>1 DEF At
  <2> QED
    BY <2>1, <2>2
<1> QED
  BY <1>1, SeqEqual

\* z is what x and y make if it reads like x and then like y.
LEMMA JoinIs ==
  ASSUME NEW x \in Seq(Octet), NEW y \in Seq(Octet), NEW z \in Seq(Octet),
         Len(z) = Len(x) + Len(y),
         \A i \in 0..(Len(x) - 1) : At(z, i) = At(x, i),
         \A i \in 0..(Len(y) - 1) : At(z, Len(x) + i) = At(y, i)
  PROVE  z = x \o y
<1> DEFINE w == x \o y
<1>1. /\ w \in Seq(Octet) /\ Len(w) = Len(x) + Len(y)
      /\ \A i \in 0..(Len(x) + Len(y) - 1) :
           At(w, i) = IF i < Len(x) THEN At(x, i) ELSE At(y, i - Len(x))
  BY JoinReads
<1> HIDE DEF w
<1>2. Len(x) \in Nat /\ Len(y) \in Nat
  BY LenProperties
<1>3. ASSUME NEW i \in 0..(Len(z) - 1)
      PROVE  At(z, i) = At(w, i)
  <2>1. CASE i < Len(x)
    BY <1>1, <1>2, <2>1
  <2>2. CASE ~(i < Len(x))
    <3>1. i - Len(x) \in 0..(Len(y) - 1) /\ Len(x) + (i - Len(x)) = i
      BY <1>2, <2>2
    <3>2. At(z, Len(x) + (i - Len(x))) = At(y, i - Len(x))
      BY <3>1
    <3> QED
      BY <1>1, <1>2, <2>2, <3>1, <3>2
  <2> QED
    BY <2>1, <2>2
<1>4. z = w
  BY <1>1, <1>3, ReadAlike
<1> QED
  BY <1>4 DEF w

----------------------------------------------------------------------------
(***************************************************************************)
(* The decoder of a call, and of the pause between two calls, is where it  *)
(* should be.                                                              *)
(***************************************************************************)
Pos == fed - Len(buf) + src

\* What the caller has, and what it will have when the call returns.
Collected == IF status = "running" THEN decoded \o SubSeq(buf, 1, dst) ELSE decoded

\* A call that may still go on, now or when more is fed, is at a place in the stream.
InBody ==
  /\ status \in {"running", "incomplete"} =>
       Reading(stream, fed, decoder, Pos, Collected)
  /\ status = "incomplete" => src = Len(buf)

\* Where the decoder is, and what that means.
RInv == InBody /\ Incremental

\* What a step of a call may assume of its place.
LEMMA Here ==
  ASSUME IInv, RInv, status = "running"
  PROVE  /\ stream \in Seq(Octet) /\ fed \in 0..Len(stream) /\ Len(stream) \in Nat
         /\ fed \in Nat /\ buf \in Seq(Octet) /\ Len(buf) \in Nat /\ Len(buf) <= fed
         /\ decoder \in Decoder /\ src \in 0..Len(buf) /\ dst \in 0..src
         /\ Pos = fed - Len(buf) + src /\ Pos \in 0..fed
         /\ decoded \in Seq(Octet)
         /\ SubSeq(buf, 1, dst) \in Seq(Octet)
         /\ Collected = decoded \o SubSeq(buf, 1, dst)
         /\ Collected \in Seq(Octet)
         /\ Reading(stream, fed, decoder, Pos, Collected)
         /\ \A i \in src..(Len(buf) - 1) :
              At(buf, i) = At(stream, fed - Len(buf) + i)
<1>1. /\ stream \in Seq(Octet) /\ fed \in 0..Len(stream) /\ Len(stream) \in Nat
      /\ buf \in Seq(Octet) /\ Len(buf) \in Nat /\ Len(buf) <= fed
      /\ decoder \in Decoder /\ src \in 0..Len(buf) /\ dst \in 0..src
      /\ decoded \in Seq(Octet)
      /\ \A i \in src..(Len(buf) - 1) :
           At(buf, i) = At(stream, fed - Len(buf) + i)
  BY InCall
<1>2. fed \in Nat /\ Pos = fed - Len(buf) + src /\ Pos \in 0..fed
  BY <1>1 DEF Pos
<1>3. SubSeq(buf, 1, dst) \in Seq(Octet)
  <2>1. dst \in 0..Len(buf)
    BY <1>1
  <2> QED
    BY <1>1, <2>1, PrefixReads
<1>4. Collected = decoded \o SubSeq(buf, 1, dst) /\ Collected \in Seq(Octet)
  <2> DEFINE y == SubSeq(buf, 1, dst)
  <2>1. Collected = decoded \o y
    BY DEF Collected
  <2> HIDE DEF y
  <2>2. decoded \o y \in Seq(Octet)
    BY <1>1, <1>3, JoinReads DEF y
  <2> QED
    BY <2>1, <2>2 DEF y
<1>5. Reading(stream, fed, decoder, Pos, Collected)
  BY DEF RInv, InBody
<1> QED
  BY <1>1, <1>2, <1>3, <1>4, <1>5

\* The octet to read next.
LEMMA NextOctet ==
  ASSUME IInv, RInv, status = "running", src < Len(buf)
  PROVE  /\ Pos \in 0..(fed - 1)
         /\ At(buf, src) = At(stream, Pos)
         /\ At(buf, src) \in Octet
         /\ src + 1 \in src..Len(buf)
         /\ fed - Len(buf) + (src + 1) = Pos + 1
<1>1. /\ src \in 0..(Len(buf) - 1) /\ src \in src..(Len(buf) - 1)
      /\ Pos \in 0..(fed - 1) /\ src + 1 \in src..Len(buf)
      /\ fed - Len(buf) + (src + 1) = Pos + 1
  BY Here
<1>2. At(buf, src) = At(stream, fed - Len(buf) + src)
  BY <1>1, Here
<1> QED
  BY <1>1, <1>2, Here, ReadAt

\* Where a loop of the call stops, in the stream.
LEMMA StopsInStream ==
  ASSUME IInv, RInv, status = "running", NEW C, NEW q \in src..Len(buf),
         StopsAt(buf, src, q, C), NEW x, x = fed - Len(buf) + q
  PROVE  /\ x \in Pos..fed
         /\ \A i \in Pos..(x - 1) : At(stream, i) \notin C
         /\ q < Len(buf) =>
              /\ x \in Pos..(fed - 1)
              /\ At(stream, x) = At(buf, q)
              /\ At(buf, q) \in C
              /\ At(buf, q) \in Octet
              /\ q + 1 \in src..Len(buf)
              /\ fed - Len(buf) + (q + 1) = x + 1
<1> DEFINE L == Len(buf)
<1>1. /\ L \in Nat /\ fed \in Nat /\ L <= fed /\ src \in 0..L /\ Pos = fed - L + src
      /\ q \in Nat /\ buf \in Seq(Octet)
      /\ \A i \in src..(L - 1) : At(buf, i) = At(stream, fed - L + i)
  BY Here
<1>2. q = L \/ At(buf, q) \in C
  BY DEF StopsAt
<1>3. \A r \in src..(q - 1) : At(buf, r) \notin C
  BY DEF StopsAt
<1>4. ASSUME NEW i \in Pos..(x - 1)
      PROVE  At(stream, i) \notin C
  <2> DEFINE r == i - (fed - L)
  <2>1. r \in src..(q - 1) /\ r \in src..(L - 1) /\ fed - L + r = i
    BY <1>1
  <2> HIDE DEF r, L
  <2>2. At(buf, r) = At(stream, i)
    BY <1>1, <2>1
  <2> QED
    BY <1>3, <2>1, <2>2
<1>5. ASSUME q < L
      PROVE  /\ x \in Pos..(fed - 1)
             /\ At(stream, x) = At(buf, q)
             /\ At(buf, q) \in C
             /\ At(buf, q) \in Octet
             /\ q + 1 \in src..L
             /\ fed - L + (q + 1) = x + 1
  <2>1. /\ q \in src..(L - 1) /\ q \in 0..(L - 1) /\ q # L
        /\ x \in Pos..(fed - 1) /\ q + 1 \in src..L
        /\ fed - L + (q + 1) = x + 1
    BY <1>1, <1>5
  <2>2. At(buf, q) \in Octet
    BY <1>1, <2>1, ReadAt
  <2> QED
    BY <1>1, <1>2, <2>1, <2>2
<1>6. x \in Pos..fed
  BY <1>1
<1> QED
  BY <1>4, <1>5, <1>6

----------------------------------------------------------------------------
\* The cursor moves on.
LEMMA AdvanceReads ==
  ASSUME IInv, RInv, status = "running", NEW x \in src..Len(buf), NEW dec,
         Advance(x, dec), Reading(stream, fed, dec, fed - Len(buf) + x, Collected)
  PROVE  RInv'
<1>1. /\ src' = x /\ decoder' = dec /\ stream' = stream /\ fed' = fed /\ buf' = buf
      /\ dst' = dst /\ status' = "running" /\ undecoded' = undecoded /\ decoded' = decoded
  BY DEF Advance
<1>2. Pos' = fed - Len(buf) + x /\ Collected' = Collected
  BY <1>1 DEF Pos, Collected
<1>3. InBody'
  BY <1>1, <1>2 DEF InBody
<1>4. Incremental'
  BY <1>1 DEF Incremental
<1> QED
  BY <1>3, <1>4 DEF RInv

\* The call gives up.
LEMMA RefusalReads ==
  ASSUME IInv, RInv, status = "running", NEW x, Exit("error", x, dst, buf, decoder),
         Verdict(stream, fed, decoder.consume_trailer) = "bad"
  PROVE  RInv'
<1>1. stream' = stream /\ fed' = fed /\ status' = "error" /\ decoder' = decoder
  BY DEF Exit
<1>2. InBody'
  BY <1>1 DEF InBody
<1>3. Incremental'
  BY <1>1 DEF Incremental, Verdict
<1> QED
  BY <1>2, <1>3 DEF RInv

\* The body ends.
LEMMA CompletionReads ==
  ASSUME IInv, RInv, status = "running", NEW x \in src..Len(buf),
         Exit("complete", x, dst, buf, decoder),
         MeansDone(stream, fed, decoder.consume_trailer, Collected, fed - Len(buf) + x)
  PROVE  RInv'
<1>1. /\ stream' = stream /\ fed' = fed /\ status' = "complete" /\ decoder' = decoder
      /\ decoded' = decoded \o SubSeq(buf, 1, dst) /\ undecoded' = Len(buf) - x
  BY DEF Exit
<1>2. decoded' = Collected
  BY <1>1, Here
<1>3. Len(buf) - x = fed - (fed - Len(buf) + x)
  BY Here
<1>4. InBody'
  BY <1>1 DEF InBody
<1>5. Incremental'
  BY <1>1, <1>2, <1>3 DEF Incremental, MeansDone
<1> QED
  BY <1>4, <1>5 DEF RInv

\* The fragment ends.
LEMMA PauseReads ==
  ASSUME IInv, RInv, status = "running", NEW d \in 0..Len(buf), NEW dec \in Decoder,
         NEW b \in Seq(Octet), Len(b) = Len(buf),
         dec.total_read = decoder.total_read,
         dec.total_overhead = decoder.total_overhead,
         Exit("incomplete", Len(buf), d, b, dec),
         Reading(stream, fed, dec, fed, decoded \o SubSeq(b, 1, d))
  PROVE  RInv'
<1> DEFINE charged == [dec EXCEPT !.total_overhead = @ + Overhead(Len(b), d)]
           out     == decoded \o SubSeq(b, 1, d)
           n       == Len(b) - Len(buf)
<1>1. /\ stream \in Seq(Octet) /\ fed \in 0..Len(stream) /\ fed \in Nat
      /\ Len(buf) \in Nat /\ Len(buf) <= fed
  BY Here
<1>2. /\ stream' = stream /\ fed' = fed /\ decoder' = charged /\ decoded' = out
      /\ status' = (IF Excessive(charged) THEN "error" ELSE "incomplete")
      /\ src' = Len(buf) /\ buf' = Memmove(b, d, Len(buf), n)
  BY DEF Exit
<1>3. /\ charged \in Decoder
      /\ charged.total_read = fed
      /\ charged.total_overhead + Len(out) = fed
      /\ charged.state = dec.state
      /\ charged.consume_trailer = dec.consume_trailer
      /\ charged.hex_count = dec.hex_count
      /\ charged.bytes_left_in_chunk = dec.bytes_left_in_chunk
      /\ out \in Seq(Octet)
  BY ExitCharges
<1>4. Reading(stream, fed, dec, fed, out)
  OBVIOUS
<1> HIDE DEF charged, out
<1>5. Reading(stream, fed, charged, fed, out)
  <2>1. fed \in fed..Len(stream) /\ fed \in 0..fed
    BY <1>1
  <2> QED
    BY <1>1, <1>3, <1>4, <2>1, StillReading
<1>6. Meaning(SubSeq(stream, 1, fed), charged.consume_trailer)
        = More(out, charged.state = "CHUNK_DATA")
  BY <1>1, <1>3, <1>5, AllTaken
<1>7. Len(buf') = Len(buf)
  <2>1. n = 0 /\ n \in Nat /\ d \in Nat /\ d <= Len(buf) /\ Len(buf) + n <= Len(b)
    BY <1>1
  <2> HIDE DEF n
  <2> QED
    BY <1>1, <1>2, <2>1, MemmoveMoves
<1>8. status' # "running" /\ Pos' = fed /\ Collected' = out
  <2>1. status' # "running"
    BY <1>2
  <2>2. Pos' = fed' - Len(buf') + src' /\ Collected' = decoded'
    BY <2>1 DEF Pos, Collected
  <2> QED
    BY <1>1, <1>2, <1>7, <2>1, <2>2
<1>9. InBody'
  BY <1>2, <1>5, <1>7, <1>8 DEF InBody
<1>10. Excessive(charged) <=> /\ fed - Len(out) >= MaxOverhead
                              /\ Len(out) < fed \div 4
  <2> DEFINE o == charged.total_overhead
             k == Len(out)
  <2>1. o \in Nat /\ k \in Nat /\ o + k = fed
    BY <1>3, LenProperties DEF Decoder
  <2>2. Excessive(charged) <=> o >= MaxOverhead /\ fed - o < fed \div 4
    BY <1>3 DEF Excessive
  <2> HIDE DEF o, k
  <2>3. o = fed - k /\ fed - o = k
    BY <1>1, <2>1
  <2> QED
    BY <2>2, <2>3 DEF k
<1>11. Incremental'
  <2> DEFINE m == Meaning(SubSeq(stream, 1, fed), charged.consume_trailer)
  <2>1. /\ m.verdict = "more" /\ m.out = out
        /\ m.inData = (charged.state = "CHUNK_DATA")
    BY <1>6 DEF More
  <2>2. IsInData' = (charged.state = "CHUNK_DATA")
    BY <1>2 DEF IsInData
  <2>3. m = Meaning(SubSeq(stream', 1, fed'), decoder'.consume_trailer)
    BY <1>2
  <2> HIDE DEF m
  <2>4. CASE Excessive(charged)
    BY <1>2, <1>10, <2>1, <2>3, <2>4 DEF Incremental
  <2>5. CASE ~Excessive(charged)
    BY <1>2, <1>10, <2>1, <2>2, <2>3, <2>5 DEF Incremental
  <2> QED
    BY <2>4, <2>5
<1> QED
  BY <1>9, <1>11 DEF RInv

\* A new fragment is fed.
LEMMA FeedReads ==
  ASSUME IInv, RInv, NEW k \in Nat, Feed(k)
  PROVE  RInv'
<1>1. /\ status = "incomplete" /\ fed + k <= Len(stream) /\ status' = "running"
      /\ buf' = SubSeq(stream, fed + 1, fed + k) /\ fed' = fed + k
      /\ src' = 0 /\ dst' = 0 /\ stream' = stream /\ decoded' = decoded
      /\ decoder' = [decoder EXCEPT !.total_read = @ + k]
  BY DEF Feed
<1>2. /\ stream \in Seq(Octet) /\ Len(stream) \in Nat /\ fed \in 0..Len(stream)
      /\ fed \in Nat /\ decoder \in Decoder /\ decoded \in Seq(Octet)
      /\ Len(buf) \in Nat /\ src = Len(buf)
  BY <1>1, LenProperties DEF IInv, TypeOK, RInv, InBody
<1>3. Reading(stream, fed, decoder, fed, decoded)
  <2>1. Pos = fed /\ Collected = decoded
    BY <1>1, <1>2 DEF Pos, Collected
  <2> QED
    BY <1>1, <2>1 DEF RInv, InBody
<1>4. buf' \in Seq(Octet) /\ Len(buf') = k
  BY <1>1, <1>2, PrefixOf
<1>5. Pos' = fed /\ Collected' = decoded
  <2>1. Pos' = fed' - Len(buf') + src'
    BY DEF Pos
  <2>2. Collected' = decoded' \o SubSeq(buf', 1, 0)
    BY <1>1 DEF Collected
  <2>3. SubSeq(buf', 1, 0) = <<>>
    BY SubSeqEmpty
  <2>4. decoded \o <<>> = decoded
    BY <1>2, ConcatEmptySeq
  <2>5. Pos' = fed
    BY <1>1, <1>2, <1>4, <2>1
  <2>6. Collected' = decoded
    BY <1>1, <2>2, <2>3, <2>4
  <2> QED
    BY <2>5, <2>6
<1>6. /\ decoder' \in Decoder
      /\ decoder'.state = decoder.state
      /\ decoder'.consume_trailer = decoder.consume_trailer
      /\ decoder'.hex_count = decoder.hex_count
      /\ decoder'.bytes_left_in_chunk = decoder.bytes_left_in_chunk
  <2>1. decoder.total_read + k \in Nat
    BY <1>2 DEF Decoder
  <2> QED
    BY <1>1, <1>2, <2>1 DEF Decoder
<1>7. Reading(stream, fed', decoder', fed, decoded)
  <2>1. fed' \in fed..Len(stream) /\ fed \in 0..fed
    BY <1>1, <1>2
  <2> QED
    BY <1>2, <1>3, <1>6, <2>1, StillReading
<1>8. InBody'
  BY <1>1, <1>5, <1>7 DEF InBody
<1>9. Incremental'
  BY <1>1 DEF Incremental
<1> QED
  BY <1>8, <1>9 DEF RInv

----------------------------------------------------------------------------
(***************************************************************************)
(* Every case of the switch keeps the invariant, the counter of a size and *)
(* its line first.                                                         *)
(***************************************************************************)

\* The decoder with another state.
LEMMA GoToIs ==
  ASSUME IInv, status = "running", NEW st \in States
  PROVE  /\ GoTo(st) \in Decoder
         /\ GoTo(st).state = st
         /\ GoTo(st).consume_trailer = decoder.consume_trailer
         /\ GoTo(st).hex_count = decoder.hex_count
         /\ GoTo(st).bytes_left_in_chunk = decoder.bytes_left_in_chunk
BY InCall DEF GoTo, Decoder

\* A case stops where the fragment ends (picohttpparser.c:590-591, for one).
LEMMA EndOfFragmentReads ==
  ASSUME IInv, RInv, EndOfFragment
  PROVE  RInv'
<1>1. /\ status = "running" /\ src = Len(buf)
      /\ Exit("incomplete", Len(buf), dst, buf, decoder)
  BY DEF EndOfFragment
<1>2. Pos = fed /\ dst \in 0..Len(buf)
  BY <1>1, Here
<1>3. Reading(stream, fed, decoder, fed, decoded \o SubSeq(buf, 1, dst))
  BY <1>1, <1>2, Here
<1> QED
  BY <1>1, <1>2, <1>3, Here, PauseReads

\* One more digit of a size, or one too many (611-617).
LEMMA DigitReads ==
  ASSUME IInv, RInv, NEW v \in 0..15, Digit(v)
  PROVE  RInv'
<1> DEFINE t == [decoder EXCEPT !.bytes_left_in_chunk = @ * 16 + v, !.hex_count = @ + 1]
<1>1. /\ status = "running" /\ decoder.state = "CHUNK_SIZE" /\ src < Len(buf)
      /\ v = DecodeHex(At(buf, src)) /\ v # -1
      /\ \/ NoRoom /\ Fail
         \/ ~NoRoom /\ Advance(src + 1, t)
  BY DEF Digit, Running
<1>2. At(stream, Pos) \notin NotHex /\ v = DecodeHex(At(stream, Pos))
  BY <1>1, NextOctet DEF NotHex
<1>3. CASE NoRoom /\ Fail
  <2>1. Verdict(stream, fed, decoder.consume_trailer) = "bad"
    BY <1>1, <1>2, <1>3, Here, NextOctet, DigitRefused DEF NoRoom
  <2> QED
    BY <1>1, <1>3, <2>1, RefusalReads DEF Fail
<1>4. CASE ~NoRoom /\ Advance(src + 1, t)
  <2> DEFINE l == decoder.bytes_left_in_chunk * 16 + v
             h == decoder.hex_count + 1
  <2>1. decoder \in Decoder /\ l \in Nat /\ h \in 0..MaxHex
    <3> DEFINE y == decoder.bytes_left_in_chunk
               z == decoder.hex_count
    <3>1. y \in Nat /\ z \in 0..MaxHex /\ z # MaxHex /\ decoder \in Decoder
      BY <1>1, <1>4, Here DEF NoRoom, Decoder
    <3> HIDE DEF y, z
    <3>2. y * 16 + v \in Nat /\ z + 1 \in 0..MaxHex
      BY <3>1, MaxHexAssumption
    <3> QED
      BY <3>1, <3>2 DEF y, z
  <2>2. t = [decoder EXCEPT !.bytes_left_in_chunk = l, !.hex_count = h]
    OBVIOUS
  <2> HIDE DEF l, h, t
  <2>3. /\ t \in Decoder /\ t.state = "CHUNK_SIZE"
        /\ t.consume_trailer = decoder.consume_trailer
        /\ t.hex_count = h /\ t.bytes_left_in_chunk = l
    BY <1>1, <2>1, <2>2 DEF Decoder
  <2>4. Reading(stream, fed, t, Pos + 1, Collected)
    <3>1. /\ t.hex_count = decoder.hex_count + 1
          /\ t.bytes_left_in_chunk = decoder.bytes_left_in_chunk * 16 + DecodeHex(At(stream, Pos))
      BY <1>2, <2>3 DEF h, l
    <3> QED
      BY <1>1, <1>2, <1>4, <2>3, <3>1, Here, NextOctet, DigitTaken DEF NoRoom
  <2> QED
    BY <1>1, <1>4, <2>4, NextOctet, AdvanceReads
<1> QED
  BY <1>1, <1>3, <1>4

\* The octet behind the digits, or behind none (592-610, 618-619).
LEMMA EndOfSizeReads ==
  ASSUME IInv, RInv, EndOfSize
  PROVE  RInv'
<1>1. /\ status = "running" /\ decoder.state = "CHUNK_SIZE" /\ src < Len(buf)
      /\ DecodeHex(At(buf, src)) = -1
      /\ \/ (decoder.hex_count = 0 \/ At(buf, src) \notin AfterSize) /\ Fail
         \/ /\ decoder.hex_count > 0
            /\ At(buf, src) \in AfterSize
            /\ Advance(src, SizeRead)
  BY DEF EndOfSize, Running
<1>2. At(stream, Pos) \in NotHex /\ At(buf, src) = At(stream, Pos)
  BY <1>1, NextOctet DEF NotHex
<1>3. CASE (decoder.hex_count = 0 \/ At(buf, src) \notin AfterSize) /\ Fail
  <2>1. Verdict(stream, fed, decoder.consume_trailer) = "bad"
    BY <1>1, <1>2, <1>3, Here, NextOctet, SizeRefused
  <2> QED
    BY <1>1, <1>3, <2>1, RefusalReads DEF Fail
<1>4. CASE /\ decoder.hex_count > 0
           /\ At(buf, src) \in AfterSize
           /\ Advance(src, SizeRead)
  <2>1. /\ SizeRead \in Decoder /\ SizeRead.state = "CHUNK_EXT"
        /\ SizeRead.consume_trailer = decoder.consume_trailer
        /\ SizeRead.hex_count = 0
        /\ SizeRead.bytes_left_in_chunk = decoder.bytes_left_in_chunk
    <3>1. 0 \in 0..MaxHex /\ "CHUNK_EXT" \in States /\ decoder \in Decoder
      BY <1>1, Here, MaxHexAssumption DEF States
    <3> QED
      BY <3>1 DEF SizeRead, Decoder
  <2>2. Reading(stream, fed, SizeRead, Pos, Collected)
    BY <1>1, <1>2, <1>4, <2>1, Here, NextOctet, SizeTaken
  <2>3. src \in src..Len(buf) /\ Pos = fed - Len(buf) + src
    BY <1>1, Here
  <2> QED
    BY <1>1, <1>4, <2>2, <2>3, AdvanceReads
<1> QED
  BY <1>1, <1>3, <1>4

\* The extension, up to its CR (621-634).
LEMMA ChunkExtReads ==
  ASSUME IInv, RInv, ChunkExt
  PROVE  RInv'
<1>1. /\ status = "running" /\ decoder.state = "CHUNK_EXT"
      /\ \E q \in src..Len(buf) :
           /\ StopsAt(buf, src, q, {CR, LF})
           /\ \/ q = Len(buf) /\ Advance(q, decoder)
              \/ At(buf, q) = LF /\ Exit("error", q, dst, buf, decoder)
              \/ At(buf, q) = CR /\ Advance(q + 1, GoTo("CHUNK_HEADER_EXPECT_LF"))
  BY DEF ChunkExt, Running
<1>2. PICK q \in src..Len(buf) :
        /\ StopsAt(buf, src, q, {CR, LF})
        /\ \/ q = Len(buf) /\ Advance(q, decoder)
           \/ At(buf, q) = LF /\ Exit("error", q, dst, buf, decoder)
           \/ At(buf, q) = CR /\ Advance(q + 1, GoTo("CHUNK_HEADER_EXPECT_LF"))
  BY <1>1
<1> DEFINE x == fed - Len(buf) + q
<1>3. /\ x \in Pos..fed
      /\ \A i \in Pos..(x - 1) : At(stream, i) \notin {CR, LF}
      /\ q < Len(buf) =>
           /\ x \in Pos..(fed - 1) /\ At(stream, x) = At(buf, q)
           /\ q + 1 \in src..Len(buf) /\ fed - Len(buf) + (q + 1) = x + 1
  <2> DEFINE C == {CR, LF}
  <2>1. StopsAt(buf, src, q, C) /\ x = fed - Len(buf) + q
    BY <1>2
  <2> HIDE DEF C, x
  <2>2. /\ x \in Pos..fed
        /\ \A i \in Pos..(x - 1) : At(stream, i) \notin C
        /\ q < Len(buf) =>
             /\ x \in Pos..(fed - 1) /\ At(stream, x) = At(buf, q)
             /\ q + 1 \in src..Len(buf) /\ fed - Len(buf) + (q + 1) = x + 1
    BY <1>1, <2>1, StopsInStream
  <2> QED
    BY <2>2 DEF C
<1>4. At(buf, q) \in {CR, LF} => q < Len(buf)
  <2>1. At(buf, q) \in {CR, LF} => q \in 0..(Len(buf) - 1)
    BY <1>1, Here, ReadAt, Delimiters
  <2> QED
    BY <1>1, <2>1, Here
<1>5. CASE q = Len(buf) /\ Advance(q, decoder)
  <2>1. Reading(stream, fed, decoder, x, Collected)
    <3> HIDE DEF x
    <3> QED
      BY <1>1, <1>3, Here, ExtensionTaken
  <2> QED
    BY <1>1, <1>5, <2>1, Here, AdvanceReads
<1>6. CASE At(buf, q) = LF /\ Exit("error", q, dst, buf, decoder)
  <2>1. Verdict(stream, fed, decoder.consume_trailer) = "bad"
    <3> HIDE DEF x
    <3> QED
      BY <1>1, <1>3, <1>4, <1>6, Here, ExtensionRefused
  <2> QED
    BY <1>1, <1>6, <2>1, RefusalReads
<1>7. CASE At(buf, q) = CR /\ Advance(q + 1, GoTo("CHUNK_HEADER_EXPECT_LF"))
  <2> DEFINE t == GoTo("CHUNK_HEADER_EXPECT_LF")
  <2>1. /\ t \in Decoder /\ t.state = "CHUNK_HEADER_EXPECT_LF"
        /\ t.consume_trailer = decoder.consume_trailer
        /\ t.hex_count = decoder.hex_count
        /\ t.bytes_left_in_chunk = decoder.bytes_left_in_chunk
    BY <1>1, GoToIs DEF States
  <2>2. Reading(stream, fed, t, x + 1, Collected)
    <3> HIDE DEF x, t
    <3> QED
      BY <1>1, <1>3, <1>4, <1>7, <2>1, Here, ExtensionEnds
  <2> QED
    BY <1>1, <1>3, <1>4, <1>7, <2>2, AdvanceReads
<1> QED
  BY <1>2, <1>5, <1>6, <1>7

\* The LF that ends the line, and what the size makes of it (636-652).
LEMMA ChunkHeaderLFReads ==
  ASSUME IInv, RInv, ChunkHeaderLF
  PROVE  RInv'
<1>1. /\ status = "running" /\ decoder.state = "CHUNK_HEADER_EXPECT_LF" /\ src < Len(buf)
      /\ \/ At(buf, src) # LF /\ Fail
         \/ /\ At(buf, src) = LF /\ decoder.bytes_left_in_chunk > 0
            /\ Advance(src + 1, GoTo("CHUNK_DATA"))
         \/ /\ At(buf, src) = LF /\ decoder.bytes_left_in_chunk = 0
            /\ decoder.consume_trailer /\ Advance(src + 1, GoTo("TRAILERS_LINE_HEAD"))
         \/ /\ At(buf, src) = LF /\ decoder.bytes_left_in_chunk = 0
            /\ ~decoder.consume_trailer
            /\ Exit("complete", src + 1, dst, buf, decoder)
  BY DEF ChunkHeaderLF, Running
<1>2. CASE At(buf, src) # LF /\ Fail
  <2>1. Verdict(stream, fed, decoder.consume_trailer) = "bad"
    BY <1>1, <1>2, Here, NextOctet, HeaderRefused
  <2> QED
    BY <1>1, <1>2, <2>1, RefusalReads DEF Fail
<1>3. CASE /\ At(buf, src) = LF /\ decoder.bytes_left_in_chunk > 0
           /\ Advance(src + 1, GoTo("CHUNK_DATA"))
  <2>1. "CHUNK_DATA" \in States
    BY DEF States
  <2>2. Reading(stream, fed, GoTo("CHUNK_DATA"), Pos + 1, Collected)
    BY <1>1, <1>3, <2>1, GoToIs, Here, NextOctet, ChunkOpens
  <2> QED
    BY <1>1, <1>3, <2>2, NextOctet, AdvanceReads
<1>4. CASE /\ At(buf, src) = LF /\ decoder.bytes_left_in_chunk = 0
           /\ decoder.consume_trailer /\ Advance(src + 1, GoTo("TRAILERS_LINE_HEAD"))
  <2>1. "TRAILERS_LINE_HEAD" \in States
    BY DEF States
  <2>2. Reading(stream, fed, GoTo("TRAILERS_LINE_HEAD"), Pos + 1, Collected)
    BY <1>1, <1>4, <2>1, GoToIs, Here, NextOctet, TrailerOpens
  <2> QED
    BY <1>1, <1>4, <2>2, NextOctet, AdvanceReads
<1>5. CASE /\ At(buf, src) = LF /\ decoder.bytes_left_in_chunk = 0
           /\ ~decoder.consume_trailer
           /\ Exit("complete", src + 1, dst, buf, decoder)
  <2>1. MeansDone(stream, fed, decoder.consume_trailer, Collected, Pos + 1)
    BY <1>1, <1>5, Here, NextOctet, BodyEnds
  <2> QED
    BY <1>1, <1>5, <2>1, NextOctet, CompletionReads
<1> QED
  BY <1>1, <1>2, <1>3, <1>4, <1>5

----------------------------------------------------------------------------
(***************************************************************************)
(* The data, the trailer, and the specification as a whole.                *)
(***************************************************************************)

\* The payload that a call moves to the front of the buffer.
LEMMA DataMoved ==
  ASSUME IInv, RInv, status = "running", NEW n \in Nat, src + n <= Len(buf)
  PROVE  /\ Memmove(buf, dst, src, n) \in Seq(Octet)
         /\ Len(Memmove(buf, dst, src, n)) = Len(buf)
         /\ decoded \o SubSeq(Memmove(buf, dst, src, n), 1, dst + n)
              = Collected \o SubSeq(stream, Pos + 1, Pos + n)
<1> DEFINE x == SubSeq(buf, 1, dst)
           y == SubSeq(stream, Pos + 1, Pos + n)
           z == SubSeq(Memmove(buf, dst, src, n), 1, dst + n)
<1>1. /\ stream \in Seq(Octet) /\ Len(stream) \in Nat /\ fed \in Nat /\ fed <= Len(stream)
      /\ buf \in Seq(Octet) /\ Len(buf) \in Nat /\ Len(buf) <= fed
      /\ src \in Nat /\ dst \in Nat /\ dst <= src
      /\ Pos = fed - Len(buf) + src /\ Pos \in Nat /\ Pos + n <= Len(stream)
      /\ decoded \in Seq(Octet) /\ x \in Seq(Octet) /\ Collected = decoded \o x
  <2>1. /\ stream \in Seq(Octet) /\ Len(stream) \in Nat /\ fed \in 0..Len(stream)
        /\ buf \in Seq(Octet) /\ Len(buf) \in Nat /\ Len(buf) <= fed
        /\ src \in 0..Len(buf) /\ dst \in 0..src
        /\ Pos = fed - Len(buf) + src
        /\ decoded \in Seq(Octet) /\ x \in Seq(Octet) /\ Collected = decoded \o x
    BY Here
  <2> HIDE DEF x
  <2>2. /\ fed \in Nat /\ fed <= Len(stream) /\ src \in Nat /\ dst \in Nat /\ dst <= src
        /\ Pos \in Nat /\ Pos + n <= Len(stream)
    BY <2>1
  <2> QED
    BY <2>1, <2>2
<1>2. ASSUME NEW i \in 0..(n - 1)
      PROVE  At(stream, Pos + i) = At(buf, src + i)
  <2>1. src + i \in src..(Len(buf) - 1) /\ fed - Len(buf) + (src + i) = Pos + i
    BY <1>1
  <2>2. At(buf, src + i) = At(stream, fed - Len(buf) + (src + i))
    BY <2>1, Here
  <2> QED
    BY <2>1, <2>2
<1>3. /\ y \in Seq(Octet) /\ Len(y) = n
      /\ \A i \in 0..(n - 1) : At(y, i) = At(buf, src + i)
  <2>1. /\ y \in Seq(Octet) /\ Len(y) = n
        /\ \A i \in 0..(n - 1) : At(y, i) = At(stream, Pos + i)
    <3> DEFINE pos == Pos
    <3>1. stream \in Seq(Octet) /\ pos \in Nat /\ pos + n <= Len(stream)
      BY <1>1
    <3> HIDE DEF pos
    <3>2. /\ SubSeq(stream, pos + 1, pos + n) \in Seq(Octet)
          /\ Len(SubSeq(stream, pos + 1, pos + n)) = n
          /\ \A i \in 0..(n - 1) :
               At(SubSeq(stream, pos + 1, pos + n), i) = At(stream, pos + i)
      BY <3>1, PrefixOf
    <3> QED
      BY <3>2 DEF pos
  <2> HIDE DEF y
  <2> QED
    BY <1>2, <2>1
<1> DEFINE m == Memmove(buf, dst, src, n)
<1>4. /\ m \in Seq(Octet) /\ Len(m) = Len(buf)
      /\ \A i \in 0..(Len(buf) - 1) :
           At(m, i) = IF i \in dst..(dst + n - 1) THEN At(buf, i - dst + src) ELSE At(buf, i)
  BY <1>1, MemmoveMoves
<1> HIDE DEF m
<1>5. z = x \o y
  <2>1. x \in Seq(Octet) /\ Len(x) = dst /\ \A i \in 0..(dst - 1) : At(x, i) = At(buf, i)
    <3>1. dst \in 0..Len(buf)
      BY <1>1
    <3> QED
      BY <1>1, <3>1, PrefixReads
  <2>2. /\ z \in Seq(Octet) /\ Len(z) = dst + n
        /\ \A i \in 0..(dst + n - 1) : At(z, i) = At(m, i)
    <3> DEFINE k == dst + n
    <3>1. k \in 0..Len(m)
      BY <1>1, <1>4
    <3>2. z = SubSeq(m, 1, k)
      BY DEF m
    <3> HIDE DEF k, x, y, z
    <3>3. /\ z \in Seq(Octet) /\ Len(z) = k
          /\ \A i \in 0..(k - 1) : At(z, i) = At(m, i)
      BY <1>4, <3>1, <3>2, PrefixReads
    <3>4. k = dst + n
      BY DEF k
    <3> QED
      <4> HIDE DEF m
      <4>1. z \in Seq(Octet) /\ Len(z) = dst + n
        BY <3>3, <3>4
      <4>2. 0..(k - 1) = 0..(dst + n - 1)
        BY <1>1 DEF k
      <4>3. \A i \in 0..(dst + n - 1) : At(z, i) = At(m, i)
        BY <3>3, <4>2
      <4> QED
        BY <4>1, <4>3
  <2> HIDE DEF x, y, z
  <2>3. ASSUME NEW i \in 0..(dst - 1)
        PROVE  At(z, i) = At(x, i)
    <3>1. i \in 0..(dst + n - 1) /\ i \in 0..(Len(buf) - 1) /\ i \notin dst..(dst + n - 1)
      BY <1>1
    <3> QED
      BY <1>4, <2>1, <2>2, <3>1
  <2>4. ASSUME NEW i \in 0..(n - 1)
        PROVE  At(z, dst + i) = At(y, i)
    <3> DEFINE k == dst + i
    <3>1. /\ k \in 0..(dst + n - 1) /\ k \in 0..(Len(buf) - 1)
          /\ k \in dst..(dst + n - 1) /\ k - dst + src = src + i
      BY <1>1
    <3> HIDE DEF k
    <3>2. At(z, k) = At(buf, k - dst + src)
      BY <1>4, <2>2, <3>1
    <3> QED
      BY <1>3, <3>1, <3>2 DEF k
  <2> QED
    BY <1>3, <2>1, <2>2, <2>3, <2>4, JoinIs
<1> HIDE DEF x, y, z
<1>6. (decoded \o x) \o y = decoded \o (x \o y)
  BY <1>1, <1>3, Joined
<1>7. decoded \o z = Collected \o y
  BY <1>1, <1>5, <1>6
<1> QED
  BY <1>4, <1>7 DEF m, y, z

\* The data move to the front of the buffer, or what there is of them (654-670).
LEMMA ChunkDataReads ==
  ASSUME IInv, RInv, ChunkData
  PROVE  RInv'
<1> DEFINE avail == Len(buf) - src
           left  == decoder.bytes_left_in_chunk
<1>1. /\ status = "running" /\ decoder.state = "CHUNK_DATA"
      /\ \/ /\ avail < left
            /\ Exit("incomplete", src + avail, dst + avail,
                    Memmove(buf, dst, src, avail),
                    [decoder EXCEPT !.bytes_left_in_chunk = @ - avail])
         \/ /\ avail >= left
            /\ buf' = Memmove(buf, dst, src, left)
            /\ src' = src + left
            /\ dst' = dst + left
            /\ decoder' = [decoder EXCEPT !.bytes_left_in_chunk = 0,
                                          !.state = "CHUNK_DATA_EXPECT_CR"]
            /\ UNCHANGED <<stream, fed, status, undecoded, decoded>>
  BY DEF ChunkData, Running
<1>2. /\ stream \in Seq(Octet) /\ fed \in 0..Len(stream) /\ fed \in Nat
      /\ Len(buf) \in Nat /\ src \in Nat /\ dst \in Nat /\ dst <= src /\ src <= Len(buf)
      /\ avail \in Nat /\ left \in Nat /\ decoder \in Decoder /\ src + avail = Len(buf)
      /\ Pos \in 0..fed /\ Pos = fed - Len(buf) + src /\ Pos + avail = fed
      /\ Collected \in Seq(Octet)
      /\ Reading(stream, fed, decoder, Pos, Collected)
  <2>1. /\ stream \in Seq(Octet) /\ fed \in 0..Len(stream) /\ fed \in Nat
        /\ Len(buf) \in Nat /\ Len(buf) <= fed /\ src \in 0..Len(buf) /\ dst \in 0..src
        /\ decoder \in Decoder /\ Pos = fed - Len(buf) + src /\ Pos \in 0..fed
        /\ Collected \in Seq(Octet)
        /\ Reading(stream, fed, decoder, Pos, Collected)
    BY <1>1, Here
  <2>2. left \in Nat
    BY <2>1 DEF Decoder
  <2>3. /\ src \in Nat /\ dst \in Nat /\ dst <= src /\ src <= Len(buf)
        /\ avail \in Nat /\ src + avail = Len(buf) /\ Pos + avail = fed
    BY <2>1
  <2> QED
    BY <2>1, <2>2, <2>3
<1>3. CASE /\ avail < left
           /\ Exit("incomplete", src + avail, dst + avail,
                   Memmove(buf, dst, src, avail),
                   [decoder EXCEPT !.bytes_left_in_chunk = @ - avail])
  <2> DEFINE d == dst + avail
             b == Memmove(buf, dst, src, avail)
             dec == [decoder EXCEPT !.bytes_left_in_chunk = left - avail]
  <2>1. /\ b \in Seq(Octet) /\ Len(b) = Len(buf)
        /\ decoded \o SubSeq(b, 1, d) = Collected \o SubSeq(stream, Pos + 1, fed)
    <3>1. src + avail <= Len(buf)
      BY <1>2
    <3> HIDE DEF avail
    <3> QED
      BY <1>1, <1>2, <3>1, DataMoved
  <2>2. d \in 0..Len(buf)
    BY <1>2
  <2>3. /\ dec \in Decoder /\ dec.state = "CHUNK_DATA"
        /\ dec.total_read = decoder.total_read
        /\ dec.total_overhead = decoder.total_overhead
        /\ dec.consume_trailer = decoder.consume_trailer
        /\ dec.hex_count = decoder.hex_count
        /\ dec.bytes_left_in_chunk = left - avail
    <3>1. avail \in Nat /\ left \in Nat /\ avail < left
      BY <1>2, <1>3
    <3> HIDE DEF left, avail
    <3>2. left - avail \in Nat
      BY <3>1
    <3> QED
      BY <1>1, <1>2, <3>2 DEF Decoder
  <2>4. Reading(stream, fed, dec, fed, Collected \o SubSeq(stream, Pos + 1, fed))
    <3>1. fed \in Pos..fed /\ fed - Pos = avail
      BY <1>2
    <3>2. fed - Pos < left /\ dec.bytes_left_in_chunk = left - (fed - Pos)
      BY <1>3, <2>3, <3>1
    <3> HIDE DEF dec, avail
    <3> QED
      BY <1>1, <1>2, <2>3, <3>1, <3>2, DataTaken
  <2>5. Exit("incomplete", Len(buf), d, b, dec)
    BY <1>2, <1>3
  <2> HIDE DEF d, b, dec
  <2>6. Reading(stream, fed, dec, fed, decoded \o SubSeq(b, 1, d))
    BY <2>1, <2>4
  <2> QED
    BY <1>1, <2>1, <2>2, <2>3, <2>5, <2>6, PauseReads
<1>4. CASE /\ avail >= left
           /\ buf' = Memmove(buf, dst, src, left)
           /\ src' = src + left
           /\ dst' = dst + left
           /\ decoder' = [decoder EXCEPT !.bytes_left_in_chunk = 0,
                                         !.state = "CHUNK_DATA_EXPECT_CR"]
           /\ UNCHANGED <<stream, fed, status, undecoded, decoded>>
  <2> DEFINE x == Pos + left
  <2>1. src + left <= Len(buf) /\ x \in Pos..fed /\ x - Pos = left
    <3>1. left \in Nat /\ avail \in Nat /\ avail >= left
      BY <1>2, <1>4
    <3> HIDE DEF left
    <3> QED
      BY <1>2, <3>1
  <2>2. /\ Len(buf') = Len(buf)
        /\ decoded \o SubSeq(buf', 1, dst + left)
             = Collected \o SubSeq(stream, Pos + 1, Pos + left)
    <3>1. src + left <= Len(buf)
      BY <2>1
    <3>2. buf' = Memmove(buf, dst, src, left)
      BY <1>4
    <3> HIDE DEF left
    <3> QED
      BY <1>1, <1>2, <3>1, <3>2, DataMoved
  <2>3. /\ decoder' \in Decoder /\ decoder'.state = "CHUNK_DATA_EXPECT_CR"
        /\ decoder'.consume_trailer = decoder.consume_trailer
        /\ decoder'.hex_count = decoder.hex_count
        /\ decoder'.bytes_left_in_chunk = 0
    BY <1>2, <1>4 DEF Decoder, States
  <2>4. Reading(stream, fed, decoder', x, Collected \o SubSeq(stream, Pos + 1, x))
    <3> HIDE DEF x
    <3> QED
      BY <1>1, <1>2, <2>1, <2>3, DataEnds
  <2>5. status' = "running" /\ fed' = fed /\ stream' = stream
    BY <1>1, <1>4
  <2>6. Pos' = x
    <3>1. Pos' = fed' - Len(buf') + src'
      BY DEF Pos
    <3>2. Pos' = fed - Len(buf) + (src + left)
      BY <1>4, <2>2, <2>5, <3>1
    <3>3. left \in Nat
      BY <1>2
    <3> HIDE DEF left
    <3> QED
      BY <1>2, <3>2, <3>3
  <2>7. Collected' = Collected \o SubSeq(stream, Pos + 1, x)
    <3>1. Collected' = decoded' \o SubSeq(buf', 1, dst')
      BY <2>5 DEF Collected
    <3> QED
      BY <1>4, <2>2, <3>1
  <2>8. InBody'
    BY <2>4, <2>5, <2>6, <2>7 DEF InBody
  <2>9. Incremental'
    BY <2>5 DEF Incremental
  <2> QED
    BY <2>8, <2>9 DEF RInv
<1> QED
  BY <1>1, <1>3, <1>4

\* The CR behind the data (672-680).
LEMMA ChunkDataCRReads ==
  ASSUME IInv, RInv, ChunkDataCR
  PROVE  RInv'
<1>1. /\ status = "running" /\ decoder.state = "CHUNK_DATA_EXPECT_CR" /\ src < Len(buf)
      /\ \/ At(buf, src) # CR /\ Fail
         \/ At(buf, src) = CR /\ Advance(src + 1, GoTo("CHUNK_DATA_EXPECT_LF"))
  BY DEF ChunkDataCR, Expect, Running
<1>2. CASE At(buf, src) # CR /\ Fail
  <2>1. Verdict(stream, fed, decoder.consume_trailer) = "bad"
    BY <1>1, <1>2, Here, NextOctet, DelimiterRefused
  <2> QED
    BY <1>1, <1>2, <2>1, RefusalReads DEF Fail
<1>3. CASE At(buf, src) = CR /\ Advance(src + 1, GoTo("CHUNK_DATA_EXPECT_LF"))
  <2>1. "CHUNK_DATA_EXPECT_LF" \in States
    BY DEF States
  <2>2. Reading(stream, fed, GoTo("CHUNK_DATA_EXPECT_LF"), Pos + 1, Collected)
    BY <1>1, <1>3, <2>1, GoToIs, Here, NextOctet, CRTaken
  <2> QED
    BY <1>1, <1>3, <2>2, NextOctet, AdvanceReads
<1> QED
  BY <1>1, <1>2, <1>3

\* The LF behind the data (682-691).
LEMMA ChunkDataLFReads ==
  ASSUME IInv, RInv, ChunkDataLF
  PROVE  RInv'
<1>1. /\ status = "running" /\ decoder.state = "CHUNK_DATA_EXPECT_LF" /\ src < Len(buf)
      /\ \/ At(buf, src) # LF /\ Fail
         \/ At(buf, src) = LF /\ Advance(src + 1, GoTo("CHUNK_SIZE"))
  BY DEF ChunkDataLF, Expect, Running
<1>2. CASE At(buf, src) # LF /\ Fail
  <2>1. Verdict(stream, fed, decoder.consume_trailer) = "bad"
    BY <1>1, <1>2, Here, NextOctet, DelimiterRefused
  <2> QED
    BY <1>1, <1>2, <2>1, RefusalReads DEF Fail
<1>3. CASE At(buf, src) = LF /\ Advance(src + 1, GoTo("CHUNK_SIZE"))
  <2>1. "CHUNK_SIZE" \in States
    BY DEF States
  <2>2. Reading(stream, fed, GoTo("CHUNK_SIZE"), Pos + 1, Collected)
    BY <1>1, <1>3, <2>1, GoToIs, Here, NextOctet, ChunkEnds
  <2> QED
    BY <1>1, <1>3, <2>2, NextOctet, AdvanceReads
<1> QED
  BY <1>1, <1>2, <1>3

\* The head of a line of the trailer (692-701).
LEMMA TrailersLineHeadReads ==
  ASSUME IInv, RInv, TrailersLineHead
  PROVE  RInv'
<1>1. status = "running" /\ decoder.state = "TRAILERS_LINE_HEAD"
  BY DEF TrailersLineHead, Running
<1>2. PICK q \in src..Len(buf) :
        /\ StopsAt(buf, src, q, Octet \ {CR})
        /\ \/ Advance(q, decoder)
           \/ /\ q < Len(buf) /\ At(buf, q) = LF
              /\ Exit("complete", q + 1, dst, buf, decoder)
           \/ /\ q < Len(buf) /\ At(buf, q) # LF
              /\ Advance(q + 1, GoTo("TRAILERS_LINE_MIDDLE"))
  BY DEF TrailersLineHead
<1> DEFINE x == fed - Len(buf) + q
<1>3. /\ x \in Pos..fed
      /\ \A i \in Pos..(x - 1) : At(stream, i) = CR
      /\ q < Len(buf) =>
           /\ x \in Pos..(fed - 1) /\ At(stream, x) = At(buf, q) /\ At(buf, q) # CR
           /\ q + 1 \in src..Len(buf) /\ fed - Len(buf) + (q + 1) = x + 1
  <2> DEFINE C == Octet \ {CR}
  <2>1. StopsAt(buf, src, q, C) /\ x = fed - Len(buf) + q
    BY <1>2
  <2> HIDE DEF C, x
  <2>2. /\ x \in Pos..fed
        /\ \A i \in Pos..(x - 1) : At(stream, i) \notin C
        /\ q < Len(buf) =>
             /\ x \in Pos..(fed - 1) /\ At(stream, x) = At(buf, q) /\ At(buf, q) \in C
             /\ q + 1 \in src..Len(buf) /\ fed - Len(buf) + (q + 1) = x + 1
    BY <1>1, <2>1, StopsInStream
  <2>3. ASSUME NEW i \in Pos..(x - 1)
        PROVE  At(stream, i) = CR
    <3>1. i \in 0..(Len(stream) - 1)
      BY <1>1, <2>2, Here
    <3>2. At(stream, i) \in Octet
      BY <1>1, <3>1, Here, ReadAt
    <3> QED
      BY <2>2, <3>2 DEF C
  <2> QED
    BY <2>2, <2>3 DEF C
<1>4. CASE Advance(q, decoder)
  <2>1. Reading(stream, fed, decoder, x, Collected)
    <3> HIDE DEF x
    <3> QED
      BY <1>1, <1>3, Here, HeadTaken
  <2> QED
    BY <1>1, <1>4, <2>1, AdvanceReads
<1>5. CASE /\ q < Len(buf) /\ At(buf, q) = LF
           /\ Exit("complete", q + 1, dst, buf, decoder)
  <2>1. MeansDone(stream, fed, decoder.consume_trailer, Collected, x + 1)
    <3> HIDE DEF x
    <3> QED
      BY <1>1, <1>3, <1>5, Here, HeadEnds
  <2> QED
    BY <1>1, <1>3, <1>5, <2>1, CompletionReads
<1>6. CASE /\ q < Len(buf) /\ At(buf, q) # LF
           /\ Advance(q + 1, GoTo("TRAILERS_LINE_MIDDLE"))
  <2> DEFINE t == GoTo("TRAILERS_LINE_MIDDLE")
  <2>1. /\ t \in Decoder /\ t.state = "TRAILERS_LINE_MIDDLE"
        /\ t.consume_trailer = decoder.consume_trailer
    BY <1>1, GoToIs DEF States
  <2>2. Reading(stream, fed, t, x + 1, Collected)
    <3> HIDE DEF x, t
    <3> QED
      BY <1>1, <1>3, <1>6, <2>1, Here, LineBegins
  <2> QED
    BY <1>1, <1>3, <1>6, <2>2, AdvanceReads
<1> QED
  BY <1>2, <1>4, <1>5, <1>6

\* The rest of a line of the trailer (703-712).
LEMMA TrailersLineMiddleReads ==
  ASSUME IInv, RInv, TrailersLineMiddle
  PROVE  RInv'
<1>1. status = "running" /\ decoder.state = "TRAILERS_LINE_MIDDLE"
  BY DEF TrailersLineMiddle, Running
<1>2. PICK q \in src..Len(buf) :
        /\ StopsAt(buf, src, q, {LF})
        /\ \/ Advance(q, decoder)
           \/ q < Len(buf) /\ Advance(q + 1, GoTo("TRAILERS_LINE_HEAD"))
  BY DEF TrailersLineMiddle
<1> DEFINE x == fed - Len(buf) + q
<1>3. /\ x \in Pos..fed
      /\ \A i \in Pos..(x - 1) : At(stream, i) # LF
      /\ q < Len(buf) =>
           /\ x \in Pos..(fed - 1) /\ At(stream, x) = LF
           /\ q + 1 \in src..Len(buf) /\ fed - Len(buf) + (q + 1) = x + 1
  <2> DEFINE C == {LF}
  <2>1. StopsAt(buf, src, q, C) /\ x = fed - Len(buf) + q
    BY <1>2
  <2> HIDE DEF C, x
  <2>2. /\ x \in Pos..fed
        /\ \A i \in Pos..(x - 1) : At(stream, i) \notin C
        /\ q < Len(buf) =>
             /\ x \in Pos..(fed - 1) /\ At(stream, x) = At(buf, q) /\ At(buf, q) \in C
             /\ q + 1 \in src..Len(buf) /\ fed - Len(buf) + (q + 1) = x + 1
    BY <1>1, <2>1, StopsInStream
  <2> QED
    BY <2>2 DEF C
<1>4. CASE Advance(q, decoder)
  <2>1. Reading(stream, fed, decoder, x, Collected)
    <3> HIDE DEF x
    <3> QED
      BY <1>1, <1>3, Here, MiddleTaken
  <2> QED
    BY <1>1, <1>4, <2>1, AdvanceReads
<1>5. CASE q < Len(buf) /\ Advance(q + 1, GoTo("TRAILERS_LINE_HEAD"))
  <2> DEFINE t == GoTo("TRAILERS_LINE_HEAD")
  <2>1. /\ t \in Decoder /\ t.state = "TRAILERS_LINE_HEAD"
        /\ t.consume_trailer = decoder.consume_trailer
    BY <1>1, GoToIs DEF States
  <2>2. Reading(stream, fed, t, x + 1, Collected)
    <3> HIDE DEF x, t
    <3> QED
      BY <1>1, <1>3, <1>5, <2>1, Here, MiddleEnds
  <2> QED
    BY <1>1, <1>3, <1>5, <2>2, AdvanceReads
<1> QED
  BY <1>2, <1>4, <1>5

----------------------------------------------------------------------------
\* Nothing has been fed, and that means that there is more.
LEMMA InitReads == Init => RInv
<1> SUFFICES ASSUME Init PROVE RInv
  OBVIOUS
<1>1. PICK trailer \in BOOLEAN : decoder = ZeroFilled(trailer)
  BY DEF Init
<1>2. /\ stream \in Seq(Octet) /\ fed = 0 /\ buf = <<>> /\ Len(buf) = 0 /\ src = 0
      /\ status = "incomplete" /\ decoded = <<>> /\ <<>> \in Seq(Octet)
  BY StreamsAssumption, EmptySeq DEF Init
<1>3. Pos = 0 /\ Collected = <<>>
  <2>1. Pos = 0
    <3>1. fed = 0 /\ Len(buf) = 0 /\ src = 0
      BY <1>2
    <3> QED
      BY ONLY <3>1 DEF Pos
  <2>2. Collected = decoded
    BY <1>2 DEF Collected
  <2> QED
    BY <1>2, <2>1, <2>2
<1>4. Reading(stream, 0, decoder, 0, <<>>)
  BY <1>1, <1>2, NothingTaken
<1>5. InBody
  BY <1>2, <1>3, <1>4 DEF InBody
<1>6. decoder \in Decoder /\ decoder.state # "CHUNK_DATA"
  BY <1>1, MaxHexAssumption DEF ZeroFilled, Decoder, States
<1>7. Meaning(SubSeq(stream, 1, 0), decoder.consume_trailer) = More(<<>>, FALSE)
  <2>1. 0 \in 0..Len(stream)
    BY <1>2, LenProperties
  <2>2. Meaning(SubSeq(stream, 1, 0), decoder.consume_trailer)
          = More(<<>>, decoder.state = "CHUNK_DATA")
    BY <1>2, <1>4, <1>6, <2>1, AllTaken
  <2> QED
    BY <1>6, <2>2
<1>8. Incremental
  <2> DEFINE m == Meaning(SubSeq(stream, 1, fed), decoder.consume_trailer)
  <2>1. m.verdict = "more" /\ m.out = <<>> /\ m.inData = FALSE
    BY <1>2, <1>7 DEF More
  <2>2. IsInData = FALSE
    BY <1>6 DEF IsInData
  <2>3. ~(fed - Len(m.out) >= MaxOverhead)
    BY <1>2, <2>1, MaxOverheadAssumption, EmptySeq
  <2> HIDE DEF m
  <2> QED
    BY <1>2, <2>1, <2>2, <2>3 DEF Incremental, m
<1> QED
  BY <1>5, <1>8 DEF RInv

\* Every step keeps the decoder where it should be.
LEMMA StepReads == IInv /\ RInv /\ [Next]_vars => RInv'
<1> SUFFICES ASSUME IInv, RInv, [Next]_vars PROVE RInv'
  OBVIOUS
<1>1. ASSUME NEW k \in 0..Len(stream), Feed(k)
      PROVE  RInv'
  <2>1. k \in Nat
    BY LenProperties DEF IInv, TypeOK
  <2> QED
    BY <1>1, <2>1, FeedReads
<1>2. ASSUME NEW v \in 0..15, Digit(v)
      PROVE  RInv'
  BY <1>2, DigitReads
<1>3. CASE UNCHANGED vars
  BY <1>3 DEF vars, RInv, InBody, Incremental, Pos, Collected, IsInData
<1>4. CASE Decode
  BY Zenon, <1>2, <1>4, EndOfFragmentReads, EndOfSizeReads, ChunkExtReads,
     ChunkHeaderLFReads, ChunkDataReads, ChunkDataCRReads, ChunkDataLFReads,
     TrailersLineHeadReads, TrailersLineMiddleReads DEF Decode
<1> QED
  BY <1>1, <1>3, <1>4 DEF Next

\* How the stream was cut into fragments does not show: after each call the
\* verdict and the payload that phr_decode_chunked has returned so far
\* (picohttpparser.c:578-731) are what the octets fed mean when they are read
\* as one body, whatever the cut, the body and the two limits.
THEOREM CutDoesNotShow == Safety => []Incremental
<1>1. RInv => Incremental
  BY DEF RInv
<1> QED
  BY <1>1, InitEstablishes, StepKeeps, InitReads, StepReads, PTL DEF Safety
=============================================================================
