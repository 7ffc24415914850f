------------------------------ MODULE MCSimdScan ------------------------------
(***************************************************************************)
(* Instances of SimdScan for TLC.                                          *)
(***************************************************************************)
EXTENDS SimdScan, ScanInputs

ManyLines == InputsOf(3)
=============================================================================
