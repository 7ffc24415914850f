------------------------------ MODULE JsonEscape ------------------------------
(***************************************************************************)
(* appendJSONString and appendJSONEscaped of kafkashape/shape.go: a value  *)
(* is copied in runs of octets that need no escape, and the octets between *)
(* the runs are escaped or replaced.  appendJSONEscapedStr is the same     *)
(* code on a Go string.                                                    *)
(***************************************************************************)
EXTENDS JsonString

CONSTANT Values     \* the values to encode: sequences of octets

ASSUME ValuesAssumption == Values \subseteq Seq(Octet)

VARIABLES
  s,        \* the value
  start,    \* where the run that is not copied yet starts
  i,        \* the next octet to look at
  dst,      \* the output
  pc        \* whether the loop is running

vars == <<s, start, i, dst, pc>>

TypeOK ==
  /\ s \in Seq(Octet)
  /\ i \in 0..Len(s)
  /\ start \in 0..i
  /\ dst \in Seq(Octet)
  /\ pc \in {"loop", "done"}

\* The opening quote has been written.
Init ==
  /\ s \in Values
  /\ start = 0
  /\ i = 0
  /\ dst = <<QUOTE>>
  /\ pc = "loop"

----------------------------------------------------------------------------
hexdigits == <<48, 49, 50, 51, 52, 53, 54, 55, 56, 57, 97, 98, 99, 100, 101, 102>>

\* appendEscByte
EscByte(c) ==
  CASE c = QUOTE     -> <<BACKSLASH, QUOTE>>
    [] c = BACKSLASH -> <<BACKSLASH, BACKSLASH>>
    [] c = LF        -> <<BACKSLASH, 110>>
    [] c = CR        -> <<BACKSLASH, 114>>
    [] c = HT        -> <<BACKSLASH, 116>>
    [] OTHER         -> <<BACKSLASH, LOWER_U, ZERO, ZERO,
                          hexdigits[c \div 16 + 1], hexdigits[(c % 16) + 1]>>

\* "\ufffd"
EscReplacement == <<BACKSLASH, LOWER_U, 102, 102, 102, 100>>

\* Mutant of IsPlain: 0x1f is taken for a printable octet.
IsPlain_OffByOne(c) == c >= 31 /\ c # QUOTE /\ c # BACKSLASH

\* An ASCII octet that needs no escape.
IsPlain(c) == c >= 32 /\ c # QUOTE /\ c # BACKSLASH

\* The run that is not copied yet.
Run == SubSeq(s, start + 1, i)

\* Mutant of Flush: the octet after the run is not skipped.
Flush_KeepOctet(esc) ==
  /\ dst' = dst \o Run \o esc
  /\ i' = i + 1
  /\ start' = i

\* Mutant of Flush: the next run starts one octet late.
Flush_StartAhead(esc) ==
  /\ dst' = dst \o Run \o esc
  /\ i' = i + 1
  /\ start' = i + 2

\* The run is copied, then esc in place of the octet after it.
Flush(esc) ==
  /\ dst' = dst \o Run \o esc
  /\ i' = i + 1
  /\ start' = i + 1

AtOctet == pc = "loop" /\ i < Len(s)

Plain ==
  /\ AtOctet
  /\ At(s, i) < 128
  /\ IsPlain(At(s, i))
  /\ i' = i + 1
  /\ UNCHANGED <<s, start, dst, pc>>

Escape ==
  /\ AtOctet
  /\ At(s, i) < 128
  /\ ~IsPlain(At(s, i))
  /\ Flush(EscByte(At(s, i)))
  /\ UNCHANGED <<s, pc>>

Invalid ==
  /\ AtOctet
  /\ At(s, i) >= 128
  /\ RuneSize(s, i) = 0
  /\ Flush(EscReplacement)
  /\ UNCHANGED <<s, pc>>

\* Mutant of Rune: the encoding is not skipped.
Rune_Stays ==
  /\ AtOctet
  /\ At(s, i) >= 128
  /\ RuneSize(s, i) > 0
  /\ UNCHANGED vars

Rune ==
  /\ AtOctet
  /\ At(s, i) >= 128
  /\ RuneSize(s, i) > 0
  /\ i' = i + RuneSize(s, i)
  /\ UNCHANGED <<s, start, dst, pc>>

\* The last run and the closing quote.
Finish ==
  /\ pc = "loop"
  /\ i = Len(s)
  /\ dst' = dst \o Run \o <<QUOTE>>
  /\ pc' = "done"
  /\ UNCHANGED <<s, start, i>>

Next == Plain \/ Escape \/ Invalid \/ Rune \/ Finish

Safety == Init /\ [][Next]_vars

\* A call runs on its caller's thread.
Spec == Safety /\ WF_vars(Next)

----------------------------------------------------------------------------
(***************************************************************************)
(* The properties.                                                         *)
(***************************************************************************)

\* "The output is always valid JSON" (shape.go:2-4) and says what the value says:
\* at every turn the output so far, with the run that is not copied yet, is the
\* JSON string of the octets passed, with U+FFFD for those that are not UTF-8.
\* No octet is copied twice, left out, or cut from its encoding.
SaysTheValue ==
  LET all == IF pc = "done" THEN dst ELSE dst \o Run \o <<QUOTE>>
  IN  Value(all) = Text(SubSeq(s, 1, i))

\* What reaches the output unescaped needs no escape: no control character is in
\* it, and no quote or reverse solidus is in a run.
NothingRaw ==
  /\ \A p \in 0..(Len(dst) - 1) : At(dst, p) >= 32
  /\ \A p \in start..(i - 1) : At(s, p) >= 32 /\ At(s, p) \notin {QUOTE, BACKSLASH}

\* Every call returns.
CallReturns == pc = "loop" ~> pc = "done"
=============================================================================
