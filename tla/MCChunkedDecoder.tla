--------------------------- MODULE MCChunkedDecoder ---------------------------
(***************************************************************************)
(* Instances of ChunkedDecoder for TLC.                                    *)
(***************************************************************************)
EXTENDS ChunkedDecoder

a    == 97
CRLF == <<CR, LF>>
one  == 49
two  == 50

Chunk1 == <<one>> \o CRLF \o <<a>> \o CRLF
Chunk2 == <<ZERO, two, SEMI, a>> \o CRLF \o <<CR, LF>> \o CRLF
Last   == <<ZERO>> \o CRLF

\* Bodies of up to n chunks.
RECURSIVE Bodies(_)
Bodies(n) ==
  IF n = 0 THEN {Last}
  ELSE Bodies(n - 1) \cup {c \o b : c \in {Chunk1, Chunk2}, b \in Bodies(n - 1)}

\* What follows the last chunk: trailers of several shapes and octets after them.
Ends == {<<>>, CRLF, <<LF, a>>, <<a>> \o CRLF \o CRLF \o <<one>>, <<CR, CR, LF>>}

WellFormed(n) == {b \o e : b \in Bodies(n), e \in Ends}

\* One octet is another one.
Damaged(S) ==
  UNION {{[s EXCEPT ![i] = c] : i \in 1..Len(s), c \in {CR, LF, SP, a, one}} : s \in S}

\* Sizes of as many digits as there is room for, and one more; a long extension.
Limits ==
  {<<ZERO, one>> \o CRLF \o <<a>>, <<ZERO, ZERO, one>> \o CRLF,
   <<a, a>> \o CRLF \o <<a, a>>,
   <<one, SEMI, a, a, a, a, a, a, a, a, a, a>> \o CRLF \o <<a>> \o CRLF \o Last}

\* 24 octets of which 5 are payload: a little less than 80% is overhead.
AlmostAFifth ==
  {<<53, SEMI, a, a, a, a, a, a, a, a, a, a, a, a, a>> \o CRLF \o <<a, a, a, a, a>> \o CRLF}

AllStreams ==
  WellFormed(2) \cup Damaged(WellFormed(1)) \cup Limits \cup AlmostAFifth
=============================================================================
