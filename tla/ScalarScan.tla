------------------------------ MODULE ScalarScan ------------------------------
(***************************************************************************)
(* cfast/cfast.c: the parser that looks for one delimiter at a time, on    *)
(* the inputs it assumes.  One thread calls parse again and again with the *)
(* same message (common.c:43-46): what a call does not store is left from  *)
(* the call before.                                                        *)
(***************************************************************************)
EXTENDS HttpMsg

VARIABLES
  buf,        \* the buffer of the last call
  is_req,     \* whether it was parsed as a request
  out,        \* the message parse fills
  pc,         \* where the call is
  p,          \* the start of the next header line
  n,          \* the header lines seen
  calls       \* how many calls were made

vars == <<buf, is_req, out, pc, p, n, calls>>

TypeOK ==
  /\ buf \in Seq(Octet)
  /\ is_req \in BOOLEAN
  /\ out \in Message
  /\ pc \in {"idle", "line", "headers"}
  /\ p \in 0..Len(buf)
  /\ n \in Nat
  /\ calls \in 0..MaxCalls

Init ==
  /\ buf = <<>>
  /\ is_req = TRUE
  /\ out = NilMessage
  /\ pc = "idle"
  /\ p = 0
  /\ n = 0
  /\ calls = 0

----------------------------------------------------------------------------
Call(i) ==
  /\ pc = "idle"
  /\ calls < MaxCalls
  /\ buf' = i.buf
  /\ is_req' = i.is_req
  /\ pc' = "line"
  /\ calls' = calls + 1
  /\ UNCHANGED <<out, p, n>>

\* parse returns; its locals are gone.
Return(body) ==
  /\ out' = Finish(out, n, body)
  /\ pc' = "idle"
  /\ p' = 0
  /\ n' = 0

\* Without a line feed nothing of the first line is stored.
NoFirstLine ==
  /\ pc = "line"
  /\ IndexByte(buf, LF, 0, Len(buf)) < 0
  /\ Return(Slice(Len(buf), Len(buf)))
  /\ UNCHANGED <<buf, is_req, calls>>

FirstLine ==
  LET nl == IndexByte(buf, LF, 0, Len(buf)) IN
  /\ pc = "line"
  /\ nl >= 0
  /\ out' = PutFirstLine(out, is_req, buf, nl - 1)
  /\ pc' = "headers"
  /\ p' = nl + 1
  /\ UNCHANGED <<buf, is_req, n, calls>>

\* The buffer ends before a blank line does.
EndOfBuffer ==
  /\ pc = "headers"
  /\ p >= Len(buf)
  /\ Return(Slice(p, Len(buf)))
  /\ UNCHANGED <<buf, is_req, calls>>

BlankLine ==
  /\ pc = "headers"
  /\ p < Len(buf)
  /\ At(buf, p) = CR
  /\ Return(Slice(p + 2, Len(buf)))
  /\ UNCHANGED <<buf, is_req, calls>>

\* Mutant of NextLine: the octet after the line feed is skipped.
NextLine_Skip(hnl) ==
  /\ n' = n + 1
  /\ p' = hnl + 2

\* Mutant of NextLine: a header without room is dropped before p is advanced.
NextLine_Full(hnl) ==
  IF n < MAXH THEN n' = n + 1 /\ p' = hnl + 1 ELSE UNCHANGED <<n, p>>

NextLine(hnl) ==
  /\ n' = n + 1
  /\ p' = hnl + 1

HeaderLine ==
  LET hnl   == IndexByte(buf, LF, p, Len(buf))
      colon == IndexByte(buf, COLON, p, hnl - 1)
  IN  /\ pc = "headers"
      /\ p < Len(buf)
      /\ At(buf, p) # CR
      /\ out' = PutHeader(out, n, [name  |-> Slice(p, colon),
                                   value |-> Trim(buf, colon + 1, hnl - 1)])
      /\ NextLine(hnl)
      /\ UNCHANGED <<buf, is_req, pc, calls>>

----------------------------------------------------------------------------
Parse == NoFirstLine \/ FirstLine \/ EndOfBuffer \/ BlankLine \/ HeaderLine

Next == (\E i \in Inputs : Call(i)) \/ Parse

Safety == Init /\ [][Next]_vars

\* A call runs to its end; nothing makes a thread call again.
Spec == Safety /\ WF_vars(Parse)

----------------------------------------------------------------------------
(***************************************************************************)
(* What the thread is given, and the properties.                           *)
(***************************************************************************)

Returned == pc = "idle" /\ calls > 0

Kept == IF out.nheaders <= MAXH THEN out.nheaders ELSE MAXH

KeptHeaders == [j \in 1..Kept |-> out.headers[j]]

\* The message as the grammar knows it, the status line with code for status_code.
FirstLineRead(start) ==
  IF is_req
  THEN IsRequestLine(buf, out, start)
  ELSE IsStatusLine(buf, [version |-> out.version, code |-> out.status_code,
                          reason |-> out.reason], start)

\* "All fields are zero-copy slices into the input buf" (common.h:2): what a call
\* returns is the message in the buffer.  The header count is the number of header
\* lines, also past MAXH; the headers kept are the first ones; the body is what
\* follows the blank line, and empty if there is none.
ReadsMessage ==
  Returned =>
    \/ /\ NoLine(buf)
       /\ out.nheaders = 0
       /\ out.body = Slice(Len(buf), Len(buf))
    \/ \E start, stop \in 2..Len(buf) :
         /\ IsLine(buf, 0, start)
         /\ BlankOrEnd(buf, stop)
         /\ start <= stop
         /\ FirstLineRead(start)
         /\ \A q \in start..stop : At(buf, q - 1) = LF /\ q # stop => At(buf, q) # CR
         /\ Cardinality({q \in start..(stop - 1) : At(buf, q) = LF}) = out.nheaders
         /\ \E cut \in start..stop : /\ AreHeaders(buf, KeptHeaders, start, cut)
                                     /\ out.nheaders <= MAXH => cut = stop
         /\ out.body = Slice(IF stop = Len(buf) THEN stop ELSE stop + 2, Len(buf))

\* Every call returns, whatever buffer it was given: each turn of the loop
\* starts after the line feed of the turn before.
CallReturns == (pc # "idle") ~> (pc = "idle")
=============================================================================
