----------------------------- MODULE HeaderLookup -----------------------------
(***************************************************************************)
(* httpparser/parser.go: what a caller looks up in a request it was given, *)
(* by the name of a header in any case.  A lookup changes nothing.         *)
(***************************************************************************)
EXTENDS HttpParser

CONSTANT Names      \* the names callers ask for

ASSUME NamesAssumption == Names \subseteq Seq(Octet)

UpperA == 65
UpperZ == 90

\* Mutant of Lower: bit 5 is set in every octet of the column of the letters.
Lower_Column(c) == IF c \in 64..95 THEN c + 32 ELSE c

Lower(c) == IF c \in UpperA..UpperZ THEN c + 32 ELSE c

AsciiEqualFold(b, s, name) ==
  /\ Width(s) = Len(name)
  /\ \A j \in 1..Len(name) : Lower(At(b, s.lo + j - 1)) = Lower(name[j])

\* The value of the first header with the name, or nil.
HeaderValue(b, hs, name) ==
  LET found == {j \in DOMAIN hs : AsciiEqualFold(b, hs[j].name, name)}
  IN  IF found = {} THEN Nil ELSE hs[Min(found)].value

----------------------------------------------------------------------------
\* The two cases of a letter; any other octet is itself only.
Cases(c) == {c} \cup {x \in (UpperA..UpperZ) \cup (97..122) : x - c \in {32, -32}
                                   /\ c \in (UpperA..UpperZ) \cup (97..122)}

\* The line of b that starts at q has this name, in some case.
Named(b, q, name) ==
  /\ \A j \in 1..Len(name) : At(b, q + j - 1) \in Cases(name[j])
  /\ Free(b, q, q + Len(name), {COLON})
  /\ At(b, q + Len(name)) = COLON

HeaderLineStarts(b) == {p + 1 : p \in LineEnds(b) \ {Max(LineEnds(b))}}

\* "Header returns the first matching header value (case-insensitive), or nil"
\* (parser.go:39): of the lines of the caller's buffer, and as long as the caller
\* may use the request or the response, also when the headers have outgrown the
\* scratch array and while the parser is used for the other kind.
FindsFirst ==
  \A k \in Kinds :
    status[k] = "ok" =>
      LET b      == input[k]
          hs     == Headers(k)
          starts == HeaderLineStarts(b)
      IN  \A name \in Names :
            LET v     == HeaderValue(b, hs, name)
                lines == {q \in starts : Named(b, q, name)}
            IN  IF lines = {}
                THEN v = Nil
                ELSE LET q == Min(lines) IN
                     IsHeaderLine(b, [name |-> Slice(q, q + Len(name)), value |-> v],
                                  IndexByte(b, LF, q, Len(b)) + 1)
=============================================================================
