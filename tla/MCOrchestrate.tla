---------------------------- MODULE MCOrchestrate ----------------------------
(***************************************************************************)
(* An instance of Orchestrate for TLC.                                     *)
(***************************************************************************)
EXTENDS Orchestrate

a     == 97
CRLF  == <<CR, LF>>
Line  == <<a, SP, 50, ZERO, 52>>

Header1 == <<a, COLON, SP, 195>> \o CRLF
Header2 == <<QUOTE, COLON>> \o CRLF

Long     == Line \o <<SP, a>> \o CRLF \o Header1 \o Header2 \o Header1 \o CRLF \o <<a, 255>>
NoReason == Line \o CRLF \o Header2 \o CRLF
Empty    == Line \o <<SP>> \o CRLF \o CRLF
Broken   == Line \o <<SP, a>> \o CRLF \o Header1 \o <<a>> \o CRLF

SomePairs ==
  {[req |-> Long, resp |-> NoReason], [req |-> Empty, resp |-> Long],
   [req |-> Empty, resp |-> Empty], [req |-> Broken, resp |-> Long],
   [req |-> Long, resp |-> Broken]}
=============================================================================
