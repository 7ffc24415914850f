---------------------------- MODULE ParserContract ----------------------------
(***************************************************************************)
(* What an httpparser.Parser promises its caller, with no parsing in it: a *)
(* call is made on a buffer and returns; it succeeds exactly on the        *)
(* buffers that are messages of its kind, with that message; what a call   *)
(* of one kind returned stays valid until the next call of the same kind.  *)
(***************************************************************************)
EXTENDS HttpGrammar

CONSTANTS
  Buffers,    \* the buffers callers parse
  MaxCalls    \* bound on the calls of a behaviour

Kinds == {"req", "resp"}

VARIABLES
  input,      \* input[k]: the buffer of the last call of kind k
  result,     \* result[k]: what that call returned, if it has
  calls       \* how many calls were made

vars == <<input, result, calls>>

Absent    == [status |-> "none"]
Pending   == [status |-> "parsing"]
Malformed == [status |-> "malformed"]

WellFormed(k, b) ==
  IF k = "req" THEN WellFormedRequest(b) ELSE WellFormedResponse(b)

IsMessage(k, b, m) ==
  IF k = "req" THEN IsRequest(b, m) ELSE IsResponse(b, m)

----------------------------------------------------------------------------
Init ==
  /\ input = [k \in Kinds |-> <<>>]
  /\ result = [k \in Kinds |-> Absent]
  /\ calls = 0

Call(k) ==
  /\ calls < MaxCalls
  /\ \A l \in Kinds : result[l] # Pending
  /\ input'[k] \in Buffers
  /\ input' = [input EXCEPT ![k] = input'[k]]
  /\ result' = [result EXCEPT ![k] = Pending]
  /\ calls' = calls + 1

Succeed(k) ==
  /\ result[k] = Pending
  /\ WellFormed(k, input[k])
  /\ \E r \in {result'[k]} :
       /\ r.status = "ok"
       /\ IsMessage(k, input[k], r.message)
       /\ result' = [result EXCEPT ![k] = r]
  /\ UNCHANGED <<input, calls>>

Fail(k) ==
  /\ result[k] = Pending
  /\ ~WellFormed(k, input[k])
  /\ result' = [result EXCEPT ![k] = Malformed]
  /\ UNCHANGED <<input, calls>>

Return(k) == Succeed(k) \/ Fail(k)

Next == \E k \in Kinds : Call(k) \/ Return(k)

Spec == Init /\ [][Next]_vars
=============================================================================
