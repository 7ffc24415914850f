------------------------------ MODULE MCHarness ------------------------------
(***************************************************************************)
(* Instance of Harness for TLC.                                            *)
(***************************************************************************)
EXTENDS Harness

\* A bench of one thread and one of all, the last one twice.
Threes == <<1, 3, 3>>
=============================================================================
