------------------------------- MODULE Encoders -------------------------------
(***************************************************************************)
(* The binary encoders of kafkashape: FBEncoder (flatbuffers_encoder.go)   *)
(* and CapnpEncoder (capnp_encoder.go), one of which NewEncoder has made   *)
(* (encoder.go).  Encode is called again and again with pairs that were    *)
(* parsed, and keeps what it allocated for the calls to come.              *)
(*                                                                         *)
(* Encode runs on its caller's goroutine; a step is a turn of a loop or    *)
(* the setting of one field.                                               *)
(***************************************************************************)
EXTENDS FrameLibraries

CONSTANTS
  Kinds,       \* the wire formats: "flatbuffers", "capnp"
  Pairs,       \* what is encoded
  IntSize,     \* 2^32, the values of an int32
  FirstCap,    \* how large a message there is room for at first: 64 KiB
  FirstHdr,    \* how many offsets of headers there is room for at first: 256
  MaxCalls     \* bound on the calls of Encode

Sides == {"req_headers", "resp_headers"}

\* The leaves, octets and text, in the order FBEncoder creates them.
Leaves ==
  <<"method", "path", "version", "reason", "req_body", "resp_body", "source_ip",
    "dest_ip", "akto_account_id", "source", "daemonset_id", "process_name", "tag">>

Scalars ==
  <<"time_unix", "vxlan_id", "direction", "process_id", "socket_id", "is_pending",
    "enable_graph">>

Metadata == SubSeq(Leaves, 7, 13) \o Scalars

\* The fields in the order FBEncoder adds them, which is that of the schema, and in
\* the order CapnpEncoder sets them.
FbFields ==
  <<"method", "path", "version", "status_code", "reason", "req_headers", "resp_headers",
    "req_body", "resp_body">> \o Metadata

CpFields ==
  <<"method", "path", "version", "status_code", "reason", "req_body", "resp_body",
    "req_headers", "resp_headers">> \o Metadata

IsLeaf(f) == f \in Range(Leaves)

\* The fields that are int in Go and int32 in a frame.
IsInt(f) == f \in {"status_code", "vxlan_id", "direction"}

Int32(x) == ((x + IntSize \div 2) % IntSize) - IntSize \div 2

Number(p, f) == IF IsInt(f) THEN Int32(p[f]) ELSE p[f]

ASSUME KindsAssumption == Kinds \subseteq {"flatbuffers", "capnp"}
ASSUME RoomAssumption == FirstCap \in Nat \ {0} /\ FirstHdr \in Nat \ {0}
ASSUME CallsAssumption == MaxCalls \in Nat
ASSUME PairsAssumption ==
  \A p \in Pairs :
    /\ DOMAIN p = Range(FbFields)
    /\ \A f \in DOMAIN p \ Sides :
         IF IsLeaf(f) THEN p[f] \in Seq(Nat) ELSE Int32(p[f]) = p[f]
    /\ \A s \in Sides : p[s] \in Seq([name : Seq(Nat), value : Seq(Nat)])

VARIABLES
  kind,      \* which encoder it is
  pair,      \* what Encode was called with
  pc, side, i,   \* where it is: the headers of which side, or which field
  b,         \* FBEncoder: its Builder
  cap,       \* how large its memory was when Encode was called
  hdrs,      \* FBEncoder: the scratch of offsets, by side
  vecs,      \* FBEncoder: the offsets of the vectors of headers
  leaves,    \* FBEncoder: the offsets of the leaves
  buf,       \* CapnpEncoder: how large the array is that it keeps
  seg,       \* CapnpEncoder: the segment of the message
  out,       \* what Encode returned: the words, or where the root table is
  calls,     \* how many calls were made
  allocated, \* history: whether the last call had to enlarge what is kept
  seen       \* history: the pairs of the calls before it

fb == <<b, cap, hdrs, vecs, leaves>>
cp == <<buf, seg>>
history == <<calls, allocated, seen>>
vars == <<kind, pair, pc, side, i, fb, cp, out, history>>

Nothing == [root |-> 0]

NilOffsets == [f \in Range(Leaves) |-> 0]

Init ==
  /\ kind \in Kinds
  /\ pair \in Pairs
  /\ pc = "idle" /\ side = "req_headers" /\ i = 1
  /\ b = NewBuilder(FirstCap)
  /\ cap = FirstCap
  /\ hdrs = [s \in Sides |-> [off |-> <<>>, cap |-> FirstHdr]]
  /\ vecs = [s \in Sides |-> 0]
  /\ leaves = NilOffsets
  /\ buf = FirstCap
  /\ seg = [data |-> <<>>, cap |-> FirstCap]
  /\ out = Nothing
  /\ calls = 0
  /\ allocated = FALSE
  /\ seen = {}

\* Encode(p): what it returned for the pair before is not valid any more.
Encode(k, p) ==
  /\ kind = k
  /\ pc = "idle"
  /\ calls < MaxCalls
  /\ calls' = calls + 1
  /\ pair' = p
  /\ seen' = IF calls = 0 THEN {} ELSE seen \cup {pair}
  /\ out' = Nothing
  /\ allocated' = FALSE
  /\ UNCHANGED kind

GoOn(stage, s, n) == pc' = stage /\ side' = s /\ i' = n

----------------------------------------------------------------------------
(***************************************************************************)
(* FBEncoder.                                                              *)
(***************************************************************************)

\* Mutant of Emptied: dst is not cut to length zero.
Emptied_Not(scratch) == scratch

\* dst[:0]
Emptied(scratch) == [scratch EXCEPT !.off = <<>>]

FbEncode(p) ==
  /\ Encode("flatbuffers", p)
  /\ GoOn("header", "req_headers", 1)
  /\ b' = Reset(b)
  /\ cap' = b.cap
  /\ hdrs' = [hdrs EXCEPT !["req_headers"] = Emptied(@)]
  /\ UNCHANGED <<vecs, leaves, cp>>

\* append(dst, off)
Appended(scratch, off) ==
  LET full == Len(scratch.off) = scratch.cap IN
  [off |-> Append(scratch.off, off),
   cap |-> IF full THEN 2 * scratch.cap ELSE scratch.cap]

\* The two vectors of a header, then its table.
HeaderTable(h) ==
  LET name  == CreateVector(b, h.name)
      value == CreateVector(name, h.value)
  IN  EndObject(OffsetSlot(OffsetSlot(StartObject(value), "name", name.size),
                           "value", value.size))

FbHeader ==
  /\ pc = "header"
  /\ i <= Len(pair[side])
  /\ b' = HeaderTable(pair[side][i])
  /\ hdrs' = [hdrs EXCEPT ![side] = Appended(@, b'.size)]
  /\ allocated' = (allocated \/ hdrs'[side].cap # hdrs[side].cap)
  /\ GoOn("header", side, i + 1)
  /\ UNCHANGED <<kind, pair, cap, vecs, leaves, cp, out, calls, seen>>

\* Mutant of Prepends: the loop of makeVec runs forwards.
Prepends_Forwards(off) == off

\* The order in which makeVec prepends.
Prepends(off) == Reverse(off)

FbVector ==
  LET off == hdrs[side].off IN
  /\ pc = "header"
  /\ i > Len(pair[side])
  /\ b' = EndVector(FoldLeft(PrependUOffsetT, StartVector(b), Prepends(off)), Len(off))
  /\ vecs' = [vecs EXCEPT ![side] = b'.size]
  /\ IF side = "req_headers"
     THEN /\ GoOn("header", "resp_headers", 1)
          /\ hdrs' = [hdrs EXCEPT !["resp_headers"] = Emptied(@)]
     ELSE /\ GoOn("leaf", side, 1)
          /\ UNCHANGED hdrs
  /\ UNCHANGED <<kind, pair, cap, leaves, cp, out, history>>

FbLeaf ==
  /\ pc = "leaf"
  /\ i <= Len(Leaves)
  /\ b' = CreateVector(b, pair[Leaves[i]])
  /\ leaves' = [leaves EXCEPT ![Leaves[i]] = b'.size]
  /\ GoOn("leaf", side, i + 1)
  /\ UNCHANGED <<kind, pair, cap, hdrs, vecs, cp, out, history>>

FbStart ==
  /\ pc = "leaf"
  /\ i > Len(Leaves)
  /\ b' = StartObject(b)
  /\ GoOn("field", side, 1)
  /\ UNCHANGED <<kind, pair, cap, hdrs, vecs, leaves, cp, out, history>>

FbField ==
  LET f == FbFields[i] IN
  /\ pc = "field"
  /\ i <= Len(FbFields)
  /\ b' = CASE IsLeaf(f)    -> OffsetSlot(b, f, leaves[f])
            [] f \in Sides  -> OffsetSlot(b, f, vecs[f])
            [] OTHER        -> Slot(b, f, Number(pair, f), 0)
  /\ GoOn("field", side, i + 1)
  /\ UNCHANGED <<kind, pair, cap, hdrs, vecs, leaves, cp, out, history>>

FbFinish ==
  /\ pc = "field"
  /\ i > Len(FbFields)
  /\ b' = EndObject(b)
  /\ out' = [root |-> b'.size]
  /\ allocated' = (allocated \/ b'.cap # cap)
  /\ GoOn("idle", side, 1)
  /\ UNCHANGED <<kind, pair, cap, hdrs, vecs, leaves, cp, calls, seen>>

FbSteps == FbHeader \/ FbVector \/ FbLeaf \/ FbStart \/ FbField \/ FbFinish

----------------------------------------------------------------------------
(***************************************************************************)
(* CapnpEncoder.                                                           *)
(***************************************************************************)

\* The word of a field of the root struct.
Word(f) == 1 + Position(FbFields, f)

\* The arena is the array cut to length zero.
CpEncode(p) ==
  /\ Encode("capnp", p)
  /\ seg' = NewRootStruct([data |-> <<>>, cap |-> buf], Len(FbFields))
  /\ GoOn("set", "req_headers", 1)
  /\ UNCHANGED <<fb, buf>>

CpField ==
  LET f == CpFields[i] IN
  /\ pc = "set"
  /\ i <= Len(CpFields)
  /\ seg' = CASE IsLeaf(f)   -> SetData(seg, Word(f), pair[f])
              [] f \in Sides -> NewList(seg, Word(f), Len(pair[f]), 2)
              [] OTHER       -> SetWord(seg, Word(f), Number(pair, f))
  /\ IF f \in Sides THEN GoOn("list", f, 1) ELSE GoOn("set", side, i + 1)
  /\ UNCHANGED <<kind, pair, fb, buf, out, history>>

\* hl.At(j) of the list that was just made.
CpHeader ==
  LET h  == pair[side][i]
      at == StructsAt(seg.data, Word(side), 2)[i]
  IN  /\ pc = "list"
      /\ i <= Len(pair[side])
      /\ seg' = SetData(SetData(seg, at, h.name), at + 1, h.value)
      /\ GoOn("list", side, i + 1)
      /\ UNCHANGED <<kind, pair, fb, buf, out, history>>

CpListDone ==
  /\ pc = "list"
  /\ i > Len(pair[side])
  /\ GoOn("set", side, Position(CpFields, side) + 1)
  /\ UNCHANGED <<kind, pair, fb, cp, out, history>>

\* Mutant of Kept: the first array is kept.
Kept_First(s) == buf

\* The larger array.
Kept(s) == IF s.cap > buf THEN s.cap ELSE buf

\* Marshal copies the words.
CpFinish ==
  /\ pc = "set"
  /\ i > Len(CpFields)
  /\ out' = [words |-> seg.data]
  /\ buf' = Kept(seg)
  /\ allocated' = (seg.cap # buf)
  /\ GoOn("idle", side, 1)
  /\ UNCHANGED <<kind, pair, fb, seg, calls, seen>>

CpSteps == CpField \/ CpHeader \/ CpListDone \/ CpFinish

Next == (\E p \in Pairs : FbEncode(p) \/ CpEncode(p)) \/ FbSteps \/ CpSteps

Spec == Init /\ [][Next]_vars

----------------------------------------------------------------------------
TypeOK ==
  /\ kind \in Kinds
  /\ pair \in Pairs /\ seen \subseteq Pairs
  /\ pc \in {"idle", "header", "leaf", "field", "set", "list"}
  /\ side \in Sides
  /\ i \in 1..(Len(FbFields) + 1)
  /\ b.size \in 0..Len(b.mem) /\ b.used \in 0..b.cap
  /\ b.nested \in {"no", "table"}
  /\ \A s \in Sides : Len(hdrs[s].off) <= hdrs[s].cap
  /\ pc = "header" => \A off \in Range(hdrs[side].off) : off \in 1..b.size
  /\ Len(seg.data) <= seg.cap
  /\ buf \in Nat /\ FirstCap <= buf

\* What a consumer reads out of the bytes that Encode returned.
FbSays(f) ==
  CASE IsLeaf(f)   -> GetBytes(b, out.root, f)
    [] f \in Sides ->
         LET tables == GetTables(b, out.root, f) IN
         [j \in DOMAIN tables |-> [name  |-> GetBytes(b, tables[j], "name"),
                                   value |-> GetBytes(b, tables[j], "value")]]
    [] OTHER       -> Get(b, out.root, f, 0)

CpSays(f) ==
  CASE IsLeaf(f)   -> DataAt(out.words, Word(f))
    [] f \in Sides ->
         LET at == StructsAt(out.words, Word(f), 2) IN
         [j \in DOMAIN at |-> [name  |-> DataAt(out.words, at[j]),
                               value |-> DataAt(out.words, at[j] + 1)]]
    [] OTHER       -> out.words[Word(f)]

\* "turns a parsed request/response pair + Meta into a single contiguous frame.
\* The returned bytes are a view into the encoder's reused buffer and are valid
\* only until the next Encode call" (encoder.go:5-7): until then they say every
\* field of their pair, its headers in order, and nothing of another pair; and the
\* Builder is never called out of turn, which it would answer with a panic.
SaysThePair ==
  /\ ~b.panic
  /\ pc = "idle" /\ calls > 0 =>
       /\ out # Nothing
       /\ \A f \in DOMAIN pair :
            pair[f] = IF kind = "capnp" THEN CpSays(f) ELSE FbSays(f)

\* q is nowhere smaller than p; a number takes room unless it is zero.
NotLonger(x, y) == Len(x) <= Len(y)

Fits(p, q) ==
  \A f \in DOMAIN p :
    IF IsLeaf(f) THEN NotLonger(p[f], q[f])
    ELSE IF f \notin Sides THEN q[f] = 0 => p[f] = 0
    ELSE /\ NotLonger(p[f], q[f])
         /\ \A j \in DOMAIN p[f] : /\ NotLonger(p[f][j].name, q[f][j].name)
                                   /\ NotLonger(p[f][j].value, q[f][j].value)

\* "reusing one Builder + offset scratch so the steady state is allocation-free"
\* (flatbuffers_encoder.go:8-9), "so the message data isn't reallocated for bodies
\* that fit" (capnp_encoder.go:9): a pair that is nowhere larger than one that was
\* encoded before, however long ago, needs no larger buffer.
SteadyState ==
  pc = "idle" /\ (\E q \in seen : Fits(pair, q)) => ~allocated
=============================================================================
