------------------------------ MODULE ScanInputs ------------------------------
(***************************************************************************)
(* Inputs of the C parsers for TLC: first lines, header lines and ends of  *)
(* every length a small chunk tells apart, with the delimiters the chunks  *)
(* are searched for also where they delimit nothing.                       *)
(***************************************************************************)
EXTENDS HttpBytes

a    == 97
two  == 50

CRLF == <<CR, LF>>

\* "a a a" and "a: :a a:a"
RequestLines == {<<a, SP, a, SP, a>>, <<a, COLON, SP, COLON, a, SP, a, COLON, a>>}

\* "a 200", "a 200 " and "a: 200 :"
StatusLines == {<<a, SP, two, ZERO, ZERO>>, <<a, SP, two, ZERO, ZERO, SP>>,
                <<a, COLON, SP, two, ZERO, ZERO, SP, COLON>>}

\* ":", "a:  ", "a: a:a " and "aaa:<HT> a"
HeaderLines == {<<COLON>>, <<a, COLON, SP, SP>>, <<a, COLON, SP, a, COLON, a, SP>>,
                <<a, a, a, COLON, HT, SP, a>>}

\* No blank line; no body; a body that looks like a head.
Ends == {<<>>, CRLF, CRLF \o <<a, COLON>> \o CRLF \o CRLF \o <<a>>}

\* The concatenations of at most k of the lines, each with its CR LF.
Lines(k, lines) ==
  LET L[m \in 0..k] ==
        IF m = 0 THEN {<<>>}
        ELSE L[m - 1] \cup {w \o l \o CRLF : w \in L[m - 1], l \in lines}
  IN  L[k]

Heads(firsts, k) ==
  {f \o CRLF \o h \o e : f \in firsts, h \in Lines(k, HeaderLines), e \in Ends}

NoLines == {<<>>, <<a, COLON, SP, a, a, COLON>>}

InputsOf(k) ==
  {[is_req |-> TRUE, buf |-> b] : b \in Heads(RequestLines, k) \cup NoLines}
    \cup {[is_req |-> FALSE, buf |-> b] : b \in Heads(StatusLines, k) \cup NoLines}
=============================================================================
