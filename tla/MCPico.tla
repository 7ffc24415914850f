-------------------------------- MODULE MCPico --------------------------------
(***************************************************************************)
(* Instances of PicoClients for TLC.                                       *)
(***************************************************************************)
EXTENDS PicoClients

CRLF == <<CR, LF>>

GET     == <<71, SP>>
Version == HTTP1 \o <<49>>

\* "G / HTTP/1.1", "GET|~T  /aaaaaa   HTTP/1.0"
Line     == GET \o <<47, SP>> \o Version
LongLine == <<71, 69, 84, 124, 126, 84, SP, SP, 47, 97, 97, 97, 97, 97, 97, SP, SP, SP>>
              \o HTTP1 \o <<ZERO>>

\* "HTTP/1.1 200 OK"
OkLine == Version \o <<SP, 50, ZERO, ZERO, SP, 79, 75>>

\* "A:b", "a|b~cde: <HT>v w<HT> " and " c "
Field     == <<65, COLON, 98>>
LongField == <<97, 124, 98, 126, 99, 100, 101, COLON, SP, HT, 118, SP, 119, HT, SP>>
More      == <<SP, 99, SP>>

Msg(k, o) == [kind |-> k, octets |-> o]

\* Every message that differs from o in one octet.
Damaged(o, with) == {[o EXCEPT ![j] = c] : j \in DOMAIN o, c \in with}

\* Requests, responses and header blocks with every piece in some form.
Requests ==
  {Line \o <<LF>> \o Field \o <<LF, LF>>,
   Line \o CRLF \o CRLF,
   Line \o CRLF \o Field \o CRLF \o Field \o CRLF \o Field \o CRLF \o CRLF,
   <<LF>> \o Line \o <<LF>> \o More \o <<LF, LF>>,
   <<SP>> \o Line \o <<LF, LF>>,
   CRLF \o LongLine \o CRLF \o LongField \o CRLF \o More \o CRLF \o CRLF \o <<71>>}

Responses ==
  {OkLine \o CRLF \o Field \o CRLF \o CRLF \o <<72>>,
   Version \o <<SP, SP, 50, ZERO, ZERO>> \o <<LF, LF>>,
   Version \o <<SP, 50, ZERO, ZERO, SP, SP, CR, LF>> \o LongField \o <<LF, LF>>,
   Version \o <<SP, 50, ZERO, ZERO, 79, LF, LF>>,
   OkLine \o <<LF>> \o <<65, COLON, SP, LF>> \o <<LF, LF>>}

Trailers ==
  {Field \o <<LF>> \o More \o CRLF \o CRLF,
   LongField \o CRLF \o <<COLON, LF, LF>>,
   CRLF \o <<CR, LF>>,
   CRLF \o <<CR, 65>>,
   <<LF, 65>>}

Whole ==
  {Msg("req", o) : o \in Requests} \cup {Msg("resp", o) : o \in Responses}
    \cup {Msg("headers", o) : o \in Trailers}

Short == Line \o <<LF>> \o Field \o CRLF \o CRLF

Received ==
  Whole \cup {Msg("req", o) : o \in Damaged(Short, {SP, CR, 0})}

\* One call on every damaged message, two on every pair of good and cut ones.
Octets == {SP, HT, CR, LF, COLON, 49, 0, DEL, 200}

Long(k) ==
  IF k = "req" THEN LongLine \o CRLF \o LongField \o CRLF \o More \o CRLF \o CRLF
  ELSE OkLine \o CRLF \o LongField \o <<LF, LF>>

Pairs ==
  LET some == {m \in Whole : m.kind # "headers"}
      cut  == {[m EXCEPT !.octets = SubSeq(m.octets, 1, Len(m.octets) - 2)] : m \in some}
  IN  {<<m, n>> : m \in some, n \in some \cup cut}

Parsed ==
  Pairs \cup {<<Msg(k, o)>> : o \in Damaged(Long("req"), Octets), k \in {"req"}}
        \cup {<<Msg(k, o)>> : o \in Damaged(Long("resp"), Octets), k \in {"resp"}}

NoBatches == {}
NoStreams == {}

\* What dump has parsed: a request, then a response.
Dumped == {<<Msg("req", Line \o CRLF \o CRLF), Msg("resp", OkLine \o CRLF \o CRLF)>>}

Blank == {Msg("headers", CRLF \o <<65>>), Msg("headers", Field \o CRLF \o CRLF)}
=============================================================================
