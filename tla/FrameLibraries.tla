---------------------------- MODULE FrameLibraries ----------------------------
(***************************************************************************)
(* The FlatBuffers and the Cap'n Proto library, as far as kafkashape uses  *)
(* them.  They are not part of the repository.                             *)
(*                                                                         *)
(* A FlatBuffers frame is a sequence of objects: vectors of octets,        *)
(* vectors of offsets and tables.  An offset is the number of the object,  *)
(* 0 is none.  The memory outlives the frame, so objects of an earlier one *)
(* are behind those of this one until they are overwritten.                *)
(*                                                                         *)
(* A Cap'n Proto segment is a sequence of words.  The first one points to  *)
(* the root.  A struct is a word for every field: its value, or a pointer  *)
(* to its data.                                                            *)
(***************************************************************************)
EXTENDS SequencesExt, Integers

Position(s, x) == CHOOSE n \in DOMAIN s : s[n] = x

\* How large an array of cap is made for need units: it is doubled.
Doubled(cap, need) ==
  LET D[c \in Nat] == IF need <= c THEN c ELSE D[2 * c] IN D[cap]

----------------------------------------------------------------------------
(***************************************************************************)
(* flatbuffers.Builder                                                     *)
(***************************************************************************)

NewBuilder(cap) ==
  [mem |-> <<>>, size |-> 0, used |-> 0, cap |-> cap, nested |-> "no", table |-> <<>>,
   vector |-> <<>>, panic |-> FALSE]

Panic(b) == [b EXCEPT !.panic = TRUE]

\* The next object, of n units.
Put(b, object, n) ==
  [b EXCEPT !.mem    = IF b.size < Len(@) THEN [@ EXCEPT ![b.size + 1] = object]
                       ELSE Append(@, object),
            !.size   = @ + 1,
            !.used   = @ + n,
            !.cap    = Doubled(@, b.used + n),
            !.nested = "no"]

\* "Builder.Reset keeps the backing buffer" (flatbuffers_encoder.go:9).
Reset(b) == [b EXCEPT !.size = 0, !.used = 0, !.nested = "no"]

CreateVector(b, octets) ==
  IF b.nested # "no" THEN Panic(b) ELSE Put(b, [octets |-> octets], 1 + Len(octets))

StartObject(b) ==
  IF b.nested # "no" THEN Panic(b) ELSE [b EXCEPT !.nested = "table", !.table = <<>>]

\* A field with its default is left out.
Slot(b, field, x, default) ==
  IF b.nested # "table" THEN Panic(b)
  ELSE IF x = default THEN b
  ELSE [b EXCEPT !.table = (field :> x) @@ @]

OffsetSlot(b, field, off) ==
  IF off > b.size THEN Panic(b) ELSE Slot(b, field, off, 0)

EndObject(b) ==
  IF b.nested # "table" THEN Panic(b)
  ELSE Put(b, [fields |-> b.table], 1 + Cardinality(DOMAIN b.table))

\* A vector is written from its last element to its first, like everything else.
StartVector(b) ==
  IF b.nested # "no" THEN Panic(b) ELSE [b EXCEPT !.nested = "vector", !.vector = <<>>]

PrependUOffsetT(b, off) ==
  IF b.nested # "vector" \/ off > b.size THEN Panic(b)
  ELSE [b EXCEPT !.vector = <<off>> \o @]

EndVector(b, n) ==
  IF b.nested # "vector" \/ n # Len(b.vector) THEN Panic(b)
  ELSE Put(b, [offsets |-> b.vector], 1 + n)

\* What a field of the table at an offset says.
Get(b, table, field, default) ==
  IF field \in DOMAIN b.mem[table].fields THEN b.mem[table].fields[field] ELSE default

GetBytes(b, table, field) ==
  LET off == Get(b, table, field, 0) IN
  IF off = 0 THEN <<>> ELSE b.mem[off].octets

GetTables(b, table, field) ==
  LET off == Get(b, table, field, 0) IN
  IF off = 0 THEN <<>> ELSE b.mem[off].offsets

----------------------------------------------------------------------------
(***************************************************************************)
(* capnp.Segment                                                           *)
(***************************************************************************)

PointTo(at, n) == [at |-> at, n |-> n]

Zero == PointTo(0, 0)

\* n words at the end, zeroed.
Alloc(s, n) ==
  [data |-> s.data \o [j \in 1..n |-> Zero], cap |-> Doubled(s.cap, Len(s.data) + n)]

SetWord(s, at, x) == [s EXCEPT !.data[at] = x]

NewRootStruct(s, fields) == SetWord(Alloc(s, 1 + fields), 1, PointTo(2, fields))

\* SetData and SetText: nothing is stored for an empty value.
SetData(s, at, octets) ==
  LET start == Len(s.data) + 1
      more  == Alloc(s, Len(octets))
  IN  IF octets = <<>> THEN SetWord(s, at, Zero)
      ELSE SetWord([more EXCEPT !.data = s.data \o octets], at, PointTo(start, Len(octets)))

\* NewCompositeList: a tag and the structs.
NewList(s, at, n, fields) ==
  SetWord(Alloc(s, 1 + n * fields), at, PointTo(Len(s.data) + 2, n))

\* What a reader of the words finds.
DataAt(words, at) ==
  IF words[at] = Zero THEN <<>>
  ELSE SubSeq(words, words[at].at, words[at].at + words[at].n - 1)

\* Where the structs of a list are.
StructsAt(words, at, fields) ==
  IF words[at] = Zero THEN <<>>
  ELSE [j \in 1..words[at].n |-> words[at].at + (j - 1) * fields]
=============================================================================
