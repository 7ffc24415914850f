----------------------------- MODULE MCHttpParser -----------------------------
(***************************************************************************)
(* Instances of HttpParser for TLC.                                        *)
(***************************************************************************)
EXTENDS HeaderLookup

a    == 97
b    == 98
two  == 50

CRLF == <<CR, LF>>

\* A first line that is both a request line and a status line: "a 200 b".
FirstLine == <<a, SP, two, ZERO, ZERO, SP, b>> \o CRLF

\* The concatenations of at most n of the tokens.
Words(n, tokens) ==
  LET W[m \in 0..n] ==
        IF m = 0 THEN {<<>>}
        ELSE W[m - 1] \cup {w \o t : w \in W[m - 1], t \in tokens}
  IN  W[n]

----------------------------------------------------------------------------
\* Every short head after a good first line, and every short first line before
\* a good end of the head.
AllHeads ==
  {FirstLine \o w :
     w \in Words(4, {<<a, COLON>> \o CRLF, <<a, COLON>>, CRLF, <<CR>>, <<LF>>, <<SP>>, <<a>>})}
AllFirstLines ==
  {w \o CRLF \o CRLF : w \in Words(5, {<<CR>>, <<LF>>, <<SP>>, <<ZERO>>, <<ZERO, ZERO, ZERO>>})}
AllBuffers    == AllHeads \cup AllFirstLines

----------------------------------------------------------------------------
(***************************************************************************)
(* Messages for sequences of calls, after the cases of parser_test.go.     *)
(***************************************************************************)
HeaderA == <<a, COLON, SP, b>> \o CRLF
HeaderB == <<b, COLON, HT, a, SP, a, HT>> \o CRLF
UpperCase == <<UpperA, COLON, a>> \o CRLF
AtSign  == <<64, COLON, SP, a>> \o CRLF
NoValue == <<b, COLON, SP, SP>> \o CRLF

NoHeaders    == FirstLine \o CRLF
OneHeader    == FirstLine \o HeaderA \o CRLF \o <<b>>
Duplicates   == FirstLine \o <<b, COLON>> \o CRLF \o UpperCase \o HeaderA \o CRLF
ThreeHeaders == FirstLine \o AtSign \o NoValue \o HeaderA \o CRLF \o <<a, CR, LF, b>>
FourHeaders  == FirstLine \o HeaderA \o HeaderB \o HeaderA \o HeaderB \o CRLF
NoReason     == <<a, SP, two, ZERO, ZERO>> \o CRLF \o HeaderA \o CRLF
NoColon      == FirstLine \o HeaderA \o <<a, b>> \o CRLF \o CRLF
NoLineFeed   == FirstLine \o HeaderB \o HeaderA \o <<b, COLON, a>>
Truncated    == FirstLine \o HeaderB
LoneCR       == FirstLine \o HeaderA \o <<CR, a>>
BareLF       == FirstLine \o HeaderA \o <<LF>> \o HeaderA \o CRLF
NotANumber   == <<a, SP, two, a, b>> \o CRLF \o CRLF
ShortLine    == <<a, SP, b>> \o CRLF \o CRLF

Messages == {NoHeaders, OneHeader, Duplicates, ThreeHeaders, FourHeaders, NoReason,
             NoColon, NoLineFeed, Truncated, LoneCR, BareLF, ShortLine, <<>>}

\* "a", "A", "B", "`" (which is "@" with bit 5 set), "aa" and the empty name.
Asked == {<<a>>, <<UpperA>>, <<66>>, <<96>>, <<a, a>>, <<>>}

MalformedStatus == {NoHeaders, NotANumber, NoReason}

----------------------------------------------------------------------------
\* One call on a short buffer, or any calls on messages: the behaviours of Spec in
\* which no call comes before or after one on a short buffer.
ShortOrMessages == AllBuffers \cup Messages

OnlyMessages == \A k \in Kinds : input[k] \in Messages

FewNext ==
  \/ Parse
  \/ calls = 0 /\ \E buf \in Buffers : ParseRequest(buf) \/ ParseResponse(buf)
  \/ calls > 0 /\ OnlyMessages
       /\ \E buf \in Messages : ParseRequest(buf) \/ ParseResponse(buf)

FewSpec == Init /\ [][FewNext]_vars /\ WF_vars(Parse)
=============================================================================
