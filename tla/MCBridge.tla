------------------------------- MODULE MCBridge -------------------------------
(***************************************************************************)
(* Instance of Bridge for TLC.                                             *)
(***************************************************************************)
EXTENDS Bridge, ScanInputs

\* Every first line with up to one header line, one of each kind with two.
TwoLines ==
  InputsOf(1)
    \cup {[is_req |-> TRUE, buf |-> b] :
            b \in Heads({<<a, COLON, SP, COLON, a, SP, a, COLON, a>>}, 2)}
    \cup {[is_req |-> FALSE, buf |-> b] :
            b \in Heads({<<a, SP, two, ZERO, ZERO, SP>>}, 2)}
=============================================================================
