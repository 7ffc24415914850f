------------------------------ MODULE MCEncoders ------------------------------
(***************************************************************************)
(* An instance of Encoders for TLC.                                        *)
(***************************************************************************)
EXTENDS Encoders

H(name, value) == [name |-> name, value |-> value]

\* A pair whose leaves are n octets of a value of their own.
P(n, from, req, resp, numbers) ==
  [f \in Range(FbFields) |->
     CASE f = "req_headers"  -> req
       [] f = "resp_headers" -> resp
       [] IsLeaf(f)          -> [j \in 1..n |-> from + Position(Leaves, f)]
       [] OTHER              -> numbers * Position(FbFields, f)]

Some == {
  P(0, 0, <<>>, <<>>, 0),
  P(1, 20, <<H(<<1>>, <<2>>), H(<<3>>, <<>>), H(<<1>>, <<4>>)>>, <<H(<<5>>, <<6>>)>>, 1),
  P(1, 40, <<H(<<7>>, <<8>>)>>, <<H(<<9>>, <<>>), H(<<9>>, <<10>>), H(<<11>>, <<12>>)>>, -1),
  [P(1, 20, <<>>, <<H(<<13>>, <<>>)>>, 2) EXCEPT !["req_body"] = <<>>,
                                                !["resp_body"] = [j \in 1..20 |-> 14]]}
=============================================================================
