--------------------------- MODULE JsonEscapeProofs ---------------------------
(***************************************************************************)
(* For every value: the loop of appendJSONEscaped stays inside it, also    *)
(* when an encoding is cut off by its end, nothing that needs an escape    *)
(* reaches the output without one, and the output says the text of the     *)
(* value.                                                                  *)
(*                                                                         *)
(* What makes the last hold: the output up to the run and the run say the  *)
(* same whatever follows them, and no encoding of the value goes across    *)
(* the place the loop has come to.                                         *)
(***************************************************************************)
EXTENDS JsonEscape, SequenceTheorems, WellFoundedInduction, TLAPS

IInv == TypeOK /\ NothingRaw

\* The octets that may be in the output.
Printable == 32..255

----------------------------------------------------------------------------
\* Ranges of octets.
LEMMA Ranges ==
  ASSUME NEW c
  PROVE  /\ c \in 128..191 => c # Fault /\ c >= 128
         /\ c \in Printable => c >= 32 /\ c \in Octet
         /\ c \in Octet /\ c >= 32 => c \in Printable
         /\ c \in Octet /\ c < 128 => c \in 0..127
         /\ c \in Octet /\ c >= 128 =>
              c >= 32 /\ c \notin {QUOTE, BACKSLASH}
BY DEF Fault, Printable, Octet, QUOTE, BACKSLASH

\* A read that yields an octet is inside the value.
LEMMA ReadInside ==
  ASSUME NEW b \in Seq(Octet), NEW p, At(b, p) # Fault
  PROVE  p \in 0..(Len(b) - 1)
BY DEF At

\* A valid encoding lies inside the value, all of it is >= 0x80, and it has at
\* least two octets.
LEMMA RuneInside ==
  ASSUME NEW b \in Seq(Octet), NEW p \in 0..(Len(b) - 1), At(b, p) >= 128,
         RuneSize(b, p) > 0
  PROVE  /\ RuneSize(b, p) \in 2..4
         /\ p + RuneSize(b, p) <= Len(b)
         /\ \A q \in p..(p + RuneSize(b, p) - 1) : At(b, q) >= 128
<1> DEFINE c == At(b, p)
           n == Announced(c)
<1>1. n \in {0, 2, 3, 4}
  BY DEF Announced
<1>2. /\ RuneSize(b, p) = n /\ n > 0
      /\ At(b, p + 1) \in Seconds(c)
      /\ \A q \in (p + 2)..(p + n - 1) : At(b, q) \in Continuation
  BY <1>1 DEF RuneSize
<1> HIDE DEF c, n
<1>3. Seconds(c) \subseteq 128..191
  BY DEF Seconds, Continuation
<1>4. Len(b) \in Nat
  BY LenProperties
<1>5. n \in 2..4
  BY <1>1, <1>2
<1>6. \A q \in (p + 1)..(p + n - 1) : At(b, q) \in 128..191
  <2> TAKE q \in (p + 1)..(p + n - 1)
  <2>1. CASE q = p + 1
    BY <1>2, <1>3, <2>1
  <2>2. CASE q # p + 1
    <3>1. q \in (p + 2)..(p + n - 1)
      BY <1>4, <1>5, <2>2
    <3>2. At(b, q) \in Continuation
      BY <1>2, <3>1
    <3> QED
      BY <3>2 DEF Continuation
  <2> QED
    BY <2>1, <2>2
<1>7. p + n - 1 \in 0..(Len(b) - 1)
  <2>1. p + n - 1 \in (p + 1)..(p + n - 1)
    BY <1>4, <1>5
  <2> DEFINE k == p + n - 1
  <2>2. k \in (p + 1)..(p + n - 1)
    BY <2>1
  <2> HIDE DEF k
  <2>3. At(b, k) \in 128..191
    BY <1>6, <2>2
  <2>4. At(b, k) # Fault
    BY <2>3, Ranges
  <2>5. k \in 0..(Len(b) - 1)
    BY <2>4, ReadInside
  <2> QED
    BY <2>5 DEF k
<1>8. \A q \in p..(p + n - 1) : At(b, q) >= 128
  <2> TAKE q \in p..(p + n - 1)
  <2>1. CASE q = p
    BY <2>1
  <2>2. CASE q # p
    <3>1. q \in (p + 1)..(p + n - 1)
      BY <1>4, <1>5, <2>2
    <3> QED
      BY <1>6, <3>1, Ranges
  <2> QED
    BY <2>1, <2>2
<1> QED
  BY <1>2, <1>4, <1>5, <1>7, <1>8

\* What replaces an octet is printable.
LEMMA EscapesPrintable ==
  /\ \A c \in 0..127 : EscByte(c) \in Seq(Printable)
  /\ EscReplacement \in Seq(Printable)
<1>1. \A k \in 1..16 : hexdigits[k] \in Printable
  BY DEF hexdigits, Printable
<1>2. ASSUME NEW c \in 0..127
      PROVE  EscByte(c) \in Seq(Printable)
  <2>1. (c \div 16) + 1 \in 1..16 /\ (c % 16) + 1 \in 1..16
    OBVIOUS
  <2>2. hexdigits[(c \div 16) + 1] \in Printable /\ hexdigits[(c % 16) + 1] \in Printable
    BY <1>1, <2>1
  <2> DEFINE h == hexdigits[(c \div 16) + 1]
             l == hexdigits[(c % 16) + 1]
  <2>3. h \in Printable /\ l \in Printable
    BY <2>2
  <2> HIDE DEF h, l
  <2>4. EscByte(c) \in {<<92, 34>>, <<92, 92>>, <<92, 110>>, <<92, 114>>, <<92, 116>>,
                       <<92, 117, 48, 48, h, l>>}
    BY ZenonT(60) DEF EscByte, QUOTE, BACKSLASH, LOWER_U, ZERO, h, l
  <2>5. /\ <<92, 34>> \in Seq(Printable) /\ <<92, 92>> \in Seq(Printable)
        /\ <<92, 110>> \in Seq(Printable) /\ <<92, 114>> \in Seq(Printable)
        /\ <<92, 116>> \in Seq(Printable)
    BY DEF Printable
  <2>6. <<92, 117, 48, 48, h, l>> \in Seq(Printable)
    BY <2>3 DEF Printable
  <2> QED
    BY <2>4, <2>5, <2>6, ZenonT(60)
<1>3. EscReplacement \in Seq(Printable)
  BY DEF EscReplacement, Printable, BACKSLASH, LOWER_U
<1> QED
  BY <1>2, <1>3

\* An octet of a sequence of printable octets is at least 0x20.
LEMMA PrintableOctets ==
  ASSUME NEW d \in Seq(Octet)
  PROVE  d \in Seq(Printable) <=> \A p \in 0..(Len(d) - 1) : At(d, p) >= 32
<1>1. Len(d) \in Nat /\ \A k \in 1..Len(d) : d[k] \in Octet
  BY LenProperties, ElementOfSeq
<1>2. ASSUME d \in Seq(Printable), NEW p \in 0..(Len(d) - 1)
      PROVE  At(d, p) >= 32
  <2>1. p + 1 \in 1..Len(d) /\ At(d, p) = d[p + 1]
    BY <1>1 DEF At
  <2>2. d[p + 1] \in Printable
    BY <1>2, <2>1, ElementOfSeq
  <2> QED
    BY <2>1, <2>2, Ranges
<1>3. ASSUME \A p \in 0..(Len(d) - 1) : At(d, p) >= 32
      PROVE  d \in Seq(Printable)
  <2>1. ASSUME NEW k \in 1..Len(d)
        PROVE  d[k] \in Printable
    <3>1. k - 1 \in 0..(Len(d) - 1) /\ At(d, k - 1) = d[k]
      BY <1>1 DEF At
    <3>2. At(d, k - 1) >= 32
      BY <1>3, <3>1
    <3> QED
      BY <1>1, <3>1, <3>2, Ranges
  <2> QED
    BY <2>1, <1>1, LenProperties
<1> QED
  BY <1>2, <1>3

\* The run that is copied is printable.
LEMMA RunPrintable ==
  ASSUME IInv
  PROVE  Run \in Seq(Printable) /\ Run \in Seq(Octet)
<1>1. /\ s \in Seq(Octet) /\ Len(s) \in Nat
      /\ start \in Nat /\ i \in Nat /\ start <= i /\ i <= Len(s)
  BY LenProperties DEF IInv, TypeOK
<1>2. ASSUME NEW k \in (start + 1)..i
      PROVE  s[k] \in Printable /\ s[k] \in Octet
  <2>1. k - 1 \in start..(i - 1) /\ k \in 1..Len(s) /\ At(s, k - 1) = s[k]
    BY <1>1 DEF At
  <2>2. At(s, k - 1) >= 32
    BY <2>1 DEF IInv, NothingRaw
  <2>3. s[k] \in Octet
    BY <1>1, <2>1, ElementOfSeq
  <2> QED
    BY <2>1, <2>2, <2>3, Ranges
<1> QED
  BY <1>1, <1>2, SubSeqProperties DEF Run

\* Appending the run and something printable keeps the output printable.
LEMMA OutputPrintable ==
  ASSUME IInv, NEW esc \in Seq(Printable)
  PROVE  /\ dst \o Run \o esc \in Seq(Octet)
         /\ \A p \in 0..(Len(dst \o Run \o esc) - 1) : At(dst \o Run \o esc, p) >= 32
<1>1. dst \in Seq(Printable)
  BY PrintableOctets DEF IInv, TypeOK, NothingRaw
<1> DEFINE d == dst \o Run \o esc
<1>2. d \in Seq(Printable)
  BY <1>1, RunPrintable, ConcatProperties
<1>3. d \in Seq(Octet)
  <2>1. \A k \in 1..Len(d) : d[k] \in Octet
    BY <1>2, ElementOfSeq, Ranges
  <2> HIDE DEF d
  <2> QED
    BY <1>2, <2>1, LenProperties
<1> HIDE DEF d
<1>4. \A p \in 0..(Len(d) - 1) : At(d, p) >= 32
  BY <1>2, <1>3, PrintableOctets
<1> QED
  BY <1>3, <1>4 DEF d

----------------------------------------------------------------------------
\* A call starts inside the value, with nothing raw in the output.
LEMMA InitEstablishes == Init => IInv
<1> SUFFICES ASSUME Init PROVE IInv
  OBVIOUS
<1>1. s \in Seq(Octet) /\ Len(s) \in Nat
  BY ValuesAssumption, LenProperties DEF Init
<1>2. <<34>> \in Seq(Octet) /\ Len(<<34>>) = 1 /\ At(<<34>>, 0) = 34
  BY DEF Octet, At
<1>3. \A p \in 0..(Len(dst) - 1) : At(dst, p) >= 32
  BY <1>2 DEF Init, QUOTE
<1> QED
  BY <1>1, <1>2, <1>3 DEF Init, IInv, TypeOK, NothingRaw, QUOTE

\* The turns of the loop that flush the run.
LEMMA FlushKeeps ==
  ASSUME IInv, i < Len(s), NEW esc \in Seq(Printable), Flush(esc), UNCHANGED <<s, pc>>
  PROVE  IInv'
<1>1. Len(s) \in Nat /\ i \in Nat
  BY LenProperties DEF IInv, TypeOK
<1>2. /\ dst' \in Seq(Octet)
      /\ \A p \in 0..(Len(dst') - 1) : At(dst', p) >= 32
  BY OutputPrintable DEF Flush
<1>3. TypeOK'
  BY <1>1, <1>2 DEF IInv, TypeOK, Flush
<1>4. NothingRaw'
  BY <1>1, <1>2 DEF NothingRaw, Flush
<1> QED
  BY <1>3, <1>4 DEF IInv

\* Every step stays inside the value and writes nothing raw.
LEMMA StepKeeps == IInv /\ [Next]_vars => IInv'
<1> SUFFICES ASSUME IInv, [Next]_vars PROVE IInv'
  OBVIOUS
<1>1. /\ s \in Seq(Octet) /\ Len(s) \in Nat /\ i \in 0..Len(s) /\ start \in 0..i
      /\ dst \in Seq(Octet)
  BY LenProperties DEF IInv, TypeOK
<1>2. AtOctet => /\ i \in 0..(Len(s) - 1) /\ i < Len(s)
                 /\ At(s, i) \in Octet
  <2>1. ASSUME AtOctet
        PROVE  i + 1 \in 1..Len(s) /\ i \in 0..(Len(s) - 1)
    BY <1>1, <2>1 DEF AtOctet
  <2>2. ASSUME AtOctet
        PROVE  s[i + 1] \in Octet
    BY <1>1, <2>1, <2>2, ElementOfSeq
  <2> QED
    BY <1>1, <2>1, <2>2 DEF At
<1>3. CASE Plain
  <2>1. /\ i' = i + 1 /\ s' = s /\ start' = start /\ dst' = dst /\ pc' = pc
        /\ i < Len(s)
        /\ At(s, i) >= 32 /\ At(s, i) \notin {QUOTE, BACKSLASH}
    BY <1>2, <1>3 DEF Plain, IsPlain
  <2>2. TypeOK'
    BY <1>1, <2>1 DEF IInv, TypeOK
  <2>3. ASSUME NEW p \in start..i
        PROVE  At(s, p) >= 32 /\ At(s, p) \notin {QUOTE, BACKSLASH}
    <3>1. CASE p = i
      BY <2>1, <3>1
    <3>2. CASE p # i
      <4>1. p \in start..(i - 1)
        BY <1>1, <3>2
      <4> QED
        BY <4>1 DEF IInv, NothingRaw
    <3> QED
      BY <3>1, <3>2
  <2>4. NothingRaw'
    <3>1. start'..(i' - 1) = start..i
      BY <1>1, <2>1
    <3> QED
      BY <2>1, <2>3, <3>1 DEF IInv, NothingRaw
  <2> QED
    BY <2>2, <2>4 DEF IInv
<1>4. CASE Escape
  <2>1. At(s, i) \in 0..127 /\ i < Len(s)
    BY <1>2, <1>4, Ranges DEF Escape
  <2>2. EscByte(At(s, i)) \in Seq(Printable)
    BY <2>1, EscapesPrintable
  <2> QED
    BY <1>4, <2>1, <2>2, FlushKeeps DEF Escape
<1>5. CASE Invalid
  BY <1>2, <1>5, EscapesPrintable, FlushKeeps DEF Invalid
<1>6. CASE Rune
  <2> DEFINE n == RuneSize(s, i)
  <2>1. /\ i' = i + n /\ s' = s /\ start' = start /\ dst' = dst /\ pc' = pc
        /\ n \in 2..4 /\ i + n <= Len(s)
        /\ \A q \in i..(i + n - 1) : At(s, q) >= 128
    BY <1>1, <1>2, <1>6, RuneInside DEF Rune
  <2> HIDE DEF n
  <2>2. TypeOK'
    BY <1>1, <2>1 DEF IInv, TypeOK
  <2>3. ASSUME NEW p \in start..(i + n - 1)
        PROVE  At(s, p) >= 32 /\ At(s, p) \notin {QUOTE, BACKSLASH}
    <3>1. CASE p \in i..(i + n - 1)
      <4>1. At(s, p) >= 128
        BY <2>1, <3>1
      <4>2. p \in 0..(Len(s) - 1)
        BY <1>1, <2>1, <3>1
      <4>3. At(s, p) = s[p + 1] /\ s[p + 1] \in Octet
        <5>1. p + 1 \in 1..Len(s)
          BY <1>1, <4>2
        <5> QED
          BY <1>1, <4>2, <5>1, ElementOfSeq DEF At
      <4> QED
        BY <4>1, <4>3, Ranges
    <3>2. CASE p \notin i..(i + n - 1)
      <4>1. p \in start..(i - 1)
        BY <1>1, <2>1, <3>2
      <4> QED
        BY <4>1 DEF IInv, NothingRaw
    <3> QED
      BY <3>1, <3>2
  <2>4. NothingRaw'
    <3>1. \A p \in start'..(i' - 1) : At(s, p) >= 32 /\ At(s, p) \notin {QUOTE, BACKSLASH}
      <4>1. start' = start /\ i' = i + n
        BY <2>1
      <4> TAKE p \in start'..(i' - 1)
      <4>2. p \in start..(i + n - 1)
        BY <1>1, <2>1, <4>1
      <4> QED
        BY <2>3, <4>2
    <3> QED
      BY <2>1, <3>1 DEF IInv, NothingRaw
  <2> QED
    BY <2>2, <2>4 DEF IInv
<1>7. CASE Finish
  <2>1. <<QUOTE>> \in Seq(Printable)
    BY DEF QUOTE, Printable
  <2>2. /\ dst' \in Seq(Octet)
        /\ \A p \in 0..(Len(dst') - 1) : At(dst', p) >= 32
    BY <1>7, <2>1, OutputPrintable DEF Finish
  <2> QED
    BY <1>7, <2>2 DEF Finish, IInv, TypeOK, NothingRaw
<1>8. CASE UNCHANGED vars
  BY <1>8 DEF vars, IInv, TypeOK, NothingRaw
<1> QED
  BY <1>3, <1>4, <1>5, <1>6, <1>7, <1>8 DEF Next

\* The loop over a value never leaves it: an encoding cut off by the end of the
\* value is not taken for one (shape.go:178-186).
THEOREM StaysInside == Safety => []TypeOK
<1>1. IInv => TypeOK
  BY DEF IInv
<1> QED
  BY <1>1, InitEstablishes, StepKeeps, PTL DEF Safety

\* The output never holds a control character, and nothing is copied raw that
\* needs an escape, whatever the value (shape.go:163-190).
THEOREM OutputIsEscaped == Safety => []NothingRaw
<1>1. IInv => NothingRaw
  BY DEF IInv
<1> QED
  BY <1>1, InitEstablishes, StepKeeps, PTL DEF Safety

----------------------------------------------------------------------------
(***************************************************************************)
(* Recursion.  Text and Said are functions defined by recursion that go    *)
(* through their argument from left to right and put pieces together; that *)
(* there are such functions is shown by way of the last place from which   *)
(* there would be none.                                                    *)
(***************************************************************************)

\* A set of naturals that is not empty has a least element.
LEMMA LeastElement ==
  ASSUME NEW T, T \subseteq Nat, T # {}
  PROVE  \E x \in T : \A y \in T : x <= y
<1>1. PICK x \in T : \A y \in T : <<y, x>> \notin OpToRel(<, Nat)
  BY NatLessThanWellFounded, WFMin
<1>2. \A y \in T : ~ (y < x)
  BY <1>1 DEF OpToRel
<1> QED
  BY <1>2

\* F puts pieces together from left to right, up to a place to stop at.
Pieces(lo, hi, stop, end, piece, size, F) ==
  F = [p \in lo..hi |-> IF p \in stop THEN end[p] ELSE piece[p] \o F[p + size[p]]]

\* There is a function that puts pieces together from left to right.
LEMMA PiecesExist ==
  ASSUME NEW lo \in Int, NEW hi \in Int, NEW stop, NEW end, NEW piece, NEW size,
         \A p \in lo..hi : p \notin stop => size[p] \in Nat \ {0} /\ p + size[p] <= hi
  PROVE  \E F : Pieces(lo, hi, stop, end, piece, size, F)
<1> DEFINE D(n) == {p \in lo..hi : hi - p < n}
           R(F, n) == F = [p \in D(n) |-> IF p \in stop THEN end[p]
                                          ELSE piece[p] \o F[p + size[p]]]
           T == {n \in Nat : ~ \E F : R(F, n)}
<1>1. 0 \notin T
  <2> DEFINE F == [p \in {} |-> 0]
  <2>1. D(0) = {}
    OBVIOUS
  <2>2. R(F, 0)
    BY <2>1
  <2> HIDE DEF R
  <2> QED
    BY <2>2
<1>2. ASSUME NEW n \in Nat, n \notin T
      PROVE  n + 1 \notin T
  <2>1. PICK F : R(F, n)
    BY <1>2
  <2> DEFINE G == [p \in D(n + 1) |->
                     IF p \in D(n) THEN F[p]
                     ELSE IF p \in stop THEN end[p] ELSE piece[p] \o F[p + size[p]]]
  <2>2. ASSUME NEW p \in D(n + 1), p \notin stop
        PROVE  p + size[p] \in D(n)
    <3>1. size[p] \in Nat /\ size[p] >= 1 /\ p + size[p] <= hi
      BY <2>2
    <3> DEFINE k == size[p]
    <3>2. k \in Nat /\ k >= 1 /\ p + k <= hi
      BY <3>1
    <3> HIDE DEF k
    <3>3. p + k \in D(n)
      BY <3>2
    <3> QED
      BY <3>3 DEF k
  <2>3. D(n) \subseteq D(n + 1)
    OBVIOUS
  <2> HIDE DEF D
  <2>4. \A p \in D(n + 1) :
          G[p] = IF p \in stop THEN end[p] ELSE piece[p] \o G[p + size[p]]
    <3> SUFFICES ASSUME NEW p \in D(n + 1)
                 PROVE  G[p] = IF p \in stop THEN end[p] ELSE piece[p] \o G[p + size[p]]
      OBVIOUS
    <3>1. CASE p \in stop
      BY <2>1, <3>1
    <3>2. CASE p \notin stop
      <4>1. p + size[p] \in D(n) /\ G[p + size[p]] = F[p + size[p]]
        BY <2>2, <2>3, <3>2
      <4>2. G[p] = piece[p] \o F[p + size[p]]
        BY <2>1, <3>2
      <4> QED
        BY <3>2, <4>1, <4>2
    <3> QED
      BY <3>1, <3>2
  <2>5. R(G, n + 1)
    BY <2>4
  <2> HIDE DEF R
  <2> QED
    BY <2>5
<1> HIDE DEF R
<1>3. T = {}
  <2> SUFFICES ASSUME T # {} PROVE FALSE
    OBVIOUS
  <2>1. PICK n \in T : \A m \in T : n <= m
    BY LeastElement
  <2>2. n \in Nat /\ n # 0
    BY <1>1, <2>1
  <2>3. n - 1 \in Nat /\ n - 1 \notin T
    BY <2>1, <2>2
  <2> HIDE DEF T
  <2>4. (n - 1) + 1 \notin T
    BY <1>2, <2>3
  <2> QED
    BY <2>1, <2>2, <2>4
<1> DEFINE m == IF hi < lo THEN 0 ELSE hi - lo + 1
<1>4. m \in Nat /\ D(m) = lo..hi
  OBVIOUS
<1> HIDE DEF m, D
<1>5. PICK F : R(F, m)
  BY <1>3, <1>4
<1> QED
  BY <1>4, <1>5 DEF R, Pieces

\* If the pieces and the ends are sequences, so is what it puts together.
LEMMA PiecesTyped ==
  ASSUME NEW lo \in Int, NEW hi \in Int, NEW stop, NEW end, NEW piece, NEW size, NEW A,
         \A p \in lo..hi : p \notin stop => size[p] \in Nat \ {0} /\ p + size[p] <= hi,
         \A p \in lo..hi : IF p \in stop THEN end[p] \in Seq(A) ELSE piece[p] \in Seq(A),
         NEW F, Pieces(lo, hi, stop, end, piece, size, F)
  PROVE  \A p \in lo..hi : F[p] \in Seq(A)
<1> DEFINE Bad == {p \in lo..hi : F[p] \notin Seq(A)}
           C == {hi - p : p \in Bad}
<1>1. SUFFICES ASSUME Bad # {} PROVE FALSE
  OBVIOUS
<1>2. C \subseteq Nat /\ C # {}
  <2>1. PICK p \in Bad : TRUE
    BY <1>1
  <2>2. hi - p \in C
    BY <2>1
  <2>3. C \subseteq Nat
    <3>1. \A q \in Bad : q \in Int /\ q <= hi
      OBVIOUS
    <3> QED
      BY <3>1
  <2> QED
    BY <2>2, <2>3
<1>3. PICK n \in C : \A m \in C : n <= m
  <2> HIDE DEF C
  <2> QED
    BY <1>2, LeastElement
<1>4. PICK p \in Bad : n = hi - p
  OBVIOUS
<1>5. p \in lo..hi /\ F[p] \notin Seq(A)
  OBVIOUS
<1>6. F[p] = IF p \in stop THEN end[p] ELSE piece[p] \o F[p + size[p]]
  BY <1>5 DEF Pieces
<1>7. p \notin stop /\ piece[p] \in Seq(A) /\ F[p] = piece[p] \o F[p + size[p]]
  BY <1>5, <1>6
<1> DEFINE k == size[p]
<1>8. k \in Nat /\ k >= 1 /\ p + k <= hi
  BY <1>5, <1>7
<1>9. F[p + k] \notin Seq(A)
  <2>1. SUFFICES ASSUME F[p + k] \in Seq(A) PROVE FALSE
    OBVIOUS
  <2>2. piece[p] \o F[p + k] \in Seq(A)
    BY <1>7, <2>1, ConcatProperties
  <2> QED
    BY <1>5, <1>7, <2>2
<1> HIDE DEF k
<1>10. p + k \in Bad
  BY <1>5, <1>8, <1>9
<1>11. hi - (p + k) \in C
  BY <1>10
<1> HIDE DEF C, Bad
<1>12. hi - p <= hi - (p + k)
  BY <1>3, <1>4, <1>11
<1> QED
  BY <1>5, <1>8, <1>12

----------------------------------------------------------------------------
(***************************************************************************)
(* Text.                                                                   *)
(***************************************************************************)

\* T is the function that Text defines.
TextRec(b, T) ==
  T = [p \in 0..Len(b) |->
        IF p = Len(b) THEN <<>>
        ELSE IF At(b, p) < 128 THEN <<At(b, p)>> \o T[p + 1]
        ELSE IF RuneSize(b, p) = 0 THEN Replacement \o T[p + 1]
        ELSE SubSeq(b, p + 1, p + RuneSize(b, p)) \o T[p + RuneSize(b, p)]]

\* The text of b[p:].
TextFrom(b, p) == (CHOOSE T : TextRec(b, T))[p]

\* The octets of a part of b.
LEMMA PartOctets ==
  ASSUME NEW b \in Seq(Octet), NEW p \in Nat, NEW n \in Nat, p + n <= Len(b)
  PROVE  /\ SubSeq(b, p + 1, p + n) \in Seq(Octet)
         /\ Len(SubSeq(b, p + 1, p + n)) = n
         /\ \A q \in 0..(n - 1) : At(SubSeq(b, p + 1, p + n), q) = At(b, p + q)
<1>1. Len(b) \in Nat /\ \A k \in 1..Len(b) : b[k] \in Octet
  BY LenProperties, ElementOfSeq
<1>2. \A k \in (p + 1)..(p + n) : b[k] \in Octet
  BY <1>1
<1> DEFINE c == SubSeq(b, p + 1, p + n)
<1>3. c \in Seq(Octet) /\ Len(c) = n /\ \A k \in 1..n : c[k] = b[p + k]
  BY <1>1, <1>2, SubSeqProperties
<1> HIDE DEF c
<1>4. \A q \in 0..(n - 1) : At(c, q) = At(b, p + q)
  <2> TAKE q \in 0..(n - 1)
  <2>1. q + 1 \in 1..n /\ p + q \in 0..(Len(b) - 1) /\ p + (q + 1) = (p + q) + 1
    BY <1>1
  <2> QED
    BY <1>3, <2>1 DEF At
<1> QED
  BY <1>3, <1>4 DEF c

\* An octet of b is one.
LEMMA OctetAt ==
  ASSUME NEW b \in Seq(Octet), NEW p \in 0..(Len(b) - 1)
  PROVE  At(b, p) \in Octet /\ Len(b) \in Nat
<1>1. Len(b) \in Nat
  BY LenProperties
<1>2. p + 1 \in 1..Len(b)
  BY <1>1
<1> QED
  BY <1>1, <1>2, ElementOfSeq DEF At

\* How large an encoding is.
LEMMA RuneSizes ==
  ASSUME NEW b, NEW p
  PROVE  RuneSize(b, p) \in {0, 2, 3, 4}
BY DEF RuneSize, Announced

\* The text goes on with every octet, with U+FFFD for each that is not UTF-8.
LEMMA TextGoesOn ==
  ASSUME NEW b \in Seq(Octet)
  PROVE  /\ Text(b) = TextFrom(b, 0)
         /\ TextFrom(b, Len(b)) = <<>>
         /\ \A p \in 0..Len(b) : TextFrom(b, p) \in Seq(Octet)
         /\ \A p \in 0..(Len(b) - 1) :
              /\ At(b, p) < 128 => TextFrom(b, p) = <<At(b, p)>> \o TextFrom(b, p + 1)
              /\ At(b, p) >= 128 /\ RuneSize(b, p) = 0 =>
                   TextFrom(b, p) = Replacement \o TextFrom(b, p + 1)
              /\ At(b, p) >= 128 /\ RuneSize(b, p) > 0 =>
                   TextFrom(b, p) = SubSeq(b, p + 1, p + RuneSize(b, p))
                                      \o TextFrom(b, p + RuneSize(b, p))
<1> DEFINE n == Len(b)
           One(p) == At(b, p) < 128 \/ RuneSize(b, p) = 0
           end == [p \in 0..n |-> <<>>]
           piece == [p \in 0..n |->
                      IF At(b, p) < 128 THEN <<At(b, p)>>
                      ELSE IF RuneSize(b, p) = 0 THEN Replacement
                      ELSE SubSeq(b, p + 1, p + RuneSize(b, p))]
           size == [p \in 0..n |-> IF One(p) THEN 1 ELSE RuneSize(b, p)]
           stop == {n}
           Rec(F) == Pieces(0, n, stop, end, piece, size, F)
<1>1. n \in Nat
  BY LenProperties
<1>2. \A p \in 0..n : p \notin {n} => size[p] \in Nat \ {0} /\ p + size[p] <= n
  <2> SUFFICES ASSUME NEW p \in 0..n, p # n
               PROVE  size[p] \in Nat \ {0} /\ p + size[p] <= n
    OBVIOUS
  <2>1. p \in 0..(n - 1)
    BY <1>1
  <2>2. CASE One(p)
    BY <1>1, <2>1, <2>2
  <2>3. CASE ~ One(p)
    <3>1. At(b, p) >= 128 /\ RuneSize(b, p) > 0
      <4> DEFINE a == At(b, p)
                 r == RuneSize(b, p)
      <4>1. r \in {0, 2, 3, 4} /\ a \in 0..255
        BY <2>1, RuneSizes, OctetAt DEF Octet
      <4>2. ~(a < 128 \/ r = 0)
        BY <2>3
      <4> HIDE DEF a, r
      <4>3. a >= 128 /\ r > 0
        BY <4>1, <4>2
      <4> QED
        BY <4>3 DEF a, r
    <3>2. RuneSize(b, p) \in 2..4 /\ p + RuneSize(b, p) <= n
      BY <2>1, <3>1, RuneInside
    <3>3. size[p] = RuneSize(b, p)
      BY <2>3
    <3> QED
      BY <3>2, <3>3
  <2> QED
    BY <2>2, <2>3
<1>3. \A p \in 0..n : IF p \in {n} THEN end[p] \in Seq(Octet) ELSE piece[p] \in Seq(Octet)
  <2> SUFFICES ASSUME NEW p \in 0..n
               PROVE  IF p \in {n} THEN end[p] \in Seq(Octet) ELSE piece[p] \in Seq(Octet)
    OBVIOUS
  <2>1. CASE p = n
    BY <2>1
  <2>2. CASE p # n
    <3>1. p \in 0..(n - 1) /\ p \in Nat
      BY <1>1, <2>2
    <3>2. CASE At(b, p) < 128
      <4>1. <<At(b, p)>> \in Seq(Octet)
        BY <3>1, OctetAt
      <4> QED
        BY <2>2, <3>2, <4>1
    <3>3. CASE ~(At(b, p) < 128) /\ RuneSize(b, p) = 0
      <4>1. Replacement \in Seq(Octet)
        BY DEF Replacement, Octet
      <4> QED
        BY <2>2, <3>3, <4>1
    <3>4. CASE ~(At(b, p) < 128) /\ RuneSize(b, p) # 0
      <4>1. RuneSize(b, p) \in Nat /\ p + RuneSize(b, p) <= n
        BY <1>2, <2>2, <3>4
      <4>2. SubSeq(b, p + 1, p + RuneSize(b, p)) \in Seq(Octet)
        BY <3>1, <4>1, PartOctets
      <4> QED
        BY <2>2, <3>4, <4>2
    <3> QED
      BY <3>2, <3>3, <3>4
  <2> QED
    BY <2>1, <2>2
<1>4. \A F : Rec(F) <=> TextRec(b, F)
  <2> SUFFICES ASSUME NEW F
               PROVE  \A p \in 0..n :
                        (IF p \in {n} THEN end[p] ELSE piece[p] \o F[p + size[p]])
                        = (IF p = n THEN <<>>
                           ELSE IF At(b, p) < 128 THEN <<At(b, p)>> \o F[p + 1]
                           ELSE IF RuneSize(b, p) = 0 THEN Replacement \o F[p + 1]
                           ELSE SubSeq(b, p + 1, p + RuneSize(b, p)) \o F[p + RuneSize(b, p)])
    BY DEF TextRec, Pieces
  <2> QED
    OBVIOUS
<1>5. \E F : Rec(F)
  <2>1. 0 \in Int /\ n \in Int
    BY <1>1
  <2>2. \A p \in 0..n : p \notin stop => size[p] \in Nat \ {0} /\ p + size[p] <= n
    BY <1>2
  <2> HIDE DEF end, piece, size, n, stop
  <2> QED
    BY <2>1, <2>2, PiecesExist
<1> DEFINE T == CHOOSE F : TextRec(b, F)
<1>6. TextRec(b, T) /\ Rec(T)
  <2> HIDE DEF Rec
  <2> QED
    BY <1>4, <1>5
<1>7. \A p \in 0..n : T[p] \in Seq(Octet)
  <2>1. 0 \in Int /\ n \in Int
    BY <1>1
  <2>2. \A p \in 0..n : p \notin stop => size[p] \in Nat \ {0} /\ p + size[p] <= n
    BY <1>2
  <2>3. \A p \in 0..n : IF p \in stop THEN end[p] \in Seq(Octet) ELSE piece[p] \in Seq(Octet)
    BY <1>3
  <2> HIDE DEF end, piece, size, n, T, stop
  <2> QED
    BY <1>6, <2>1, <2>2, <2>3, PiecesTyped
<1>8. \A p : TextFrom(b, p) = T[p]
  BY DEF TextFrom
<1>9. Text(b) = T[0]
  BY DEF Text, TextRec
<1> HIDE DEF T
<1>10. \A p \in 0..Len(b) :
         T[p] = IF p = Len(b) THEN <<>>
                ELSE IF At(b, p) < 128 THEN <<At(b, p)>> \o T[p + 1]
                ELSE IF RuneSize(b, p) = 0 THEN Replacement \o T[p + 1]
                ELSE SubSeq(b, p + 1, p + RuneSize(b, p)) \o T[p + RuneSize(b, p)]
  BY <1>6 DEF TextRec
<1>11. T[Len(b)] = <<>>
  <2>1. Len(b) \in 0..Len(b)
    BY <1>1
  <2> QED
    BY <1>10, <2>1
<1>12. ASSUME NEW p \in 0..(Len(b) - 1)
       PROVE  /\ At(b, p) < 128 => T[p] = <<At(b, p)>> \o T[p + 1]
              /\ At(b, p) >= 128 /\ RuneSize(b, p) = 0 => T[p] = Replacement \o T[p + 1]
              /\ At(b, p) >= 128 /\ RuneSize(b, p) > 0 =>
                   T[p] = SubSeq(b, p + 1, p + RuneSize(b, p)) \o T[p + RuneSize(b, p)]
  <2> HIDE DEF end, piece, size, Rec, One
  <2>1. p \in 0..Len(b) /\ p # Len(b)
    BY <1>1
  <2>2. T[p] = IF At(b, p) < 128 THEN <<At(b, p)>> \o T[p + 1]
               ELSE IF RuneSize(b, p) = 0 THEN Replacement \o T[p + 1]
               ELSE SubSeq(b, p + 1, p + RuneSize(b, p)) \o T[p + RuneSize(b, p)]
    BY <1>10, <2>1
  <2> DEFINE a == At(b, p)
             r == RuneSize(b, p)
  <2>3. a \in 0..255 /\ r \in {0, 2, 3, 4}
    BY RuneSizes, OctetAt DEF Octet
  <2> HIDE DEF a, r
  <2>4. /\ a < 128 => ~(a >= 128)
        /\ a >= 128 => ~(a < 128)
        /\ r > 0 => r # 0
    BY <2>3
  <2>5. CASE At(b, p) < 128
    BY <2>2, <2>4, <2>5 DEF a
  <2>6. CASE ~(At(b, p) < 128)
    BY <2>2, <2>4, <2>6 DEF a, r
  <2> QED
    BY <2>5, <2>6
<1> QED
  BY <1>7, <1>8, <1>9, <1>11, <1>12

----------------------------------------------------------------------------
(***************************************************************************)
(* Said.                                                                   *)
(***************************************************************************)

\* S is the function that Said defines for d[1:].
SaidRec(d, S) ==
  S = [p \in 1..(Len(d) + 1) |->
        IF p >= Len(d) \/ At(d, p) < SP THEN NotJson
        ELSE IF At(d, p) = QUOTE THEN IF p + 1 = Len(d) THEN <<>> ELSE NotJson
        ELSE IF At(d, p) = BACKSLASH THEN
          IF At(d, p + 1) \in DOMAIN Escapes
          THEN <<Escapes[At(d, p + 1)]>> \o S[p + 2]
          ELSE IF At(d, p + 1) = LOWER_U /\ CodePoint(d, p + 2) # -1
          THEN Encoding(CodePoint(d, p + 2)) \o S[p + 6]
          ELSE NotJson
        ELSE IF At(d, p) < 128 THEN <<At(d, p)>> \o S[p + 1]
        ELSE IF RuneSize(d, p) = 0 THEN NotJson
        ELSE SubSeq(d, p + 1, p + RuneSize(d, p)) \o S[p + RuneSize(d, p)]]

\* What d[p:] says.
SaidFrom(d, p) == (CHOOSE S : SaidRec(d, S))[p]

\* What a read of d yields.
LEMMA ReadAt ==
  ASSUME NEW d \in Seq(Octet), NEW p
  PROVE  At(d, p) \in 0..256
<1>1. CASE p \in 0..(Len(d) - 1)
  <2>1. At(d, p) \in Octet
    BY <1>1, OctetAt
  <2>2. Octet \subseteq 0..256
    BY DEF Octet
  <2> QED
    BY <2>1, <2>2
<1>2. CASE p \notin 0..(Len(d) - 1)
  BY <1>2 DEF At, Fault
<1> QED
  BY <1>1, <1>2

\* The value of a digit is a number.
LEMMA HexValues ==
  ASSUME NEW c \in 0..256
  PROVE  /\ HexValue(c) \in -1..15
         /\ c = 256 => HexValue(c) = -1
<1>1. CASE c \in 48..57
  BY <1>1 DEF HexValue, ZERO, NINE
<1>2. CASE c \in 65..70
  BY <1>2 DEF HexValue, ZERO, NINE
<1>3. CASE c \in 97..102
  BY <1>3 DEF HexValue, ZERO, NINE
<1>4. CASE c \notin (48..57 \cup 65..70 \cup 97..102)
  BY <1>4 DEF HexValue, ZERO, NINE
<1> QED
  BY <1>1, <1>2, <1>3, <1>4

\* A code point is a number, and its four digits are inside d.
LEMMA CodePointInside ==
  ASSUME NEW d \in Seq(Octet), NEW p \in Nat
  PROVE  /\ CodePoint(d, p) \in Int
         /\ CodePoint(d, p) # -1 => p + 4 <= Len(d)
<1> DEFINE h(q) == HexValue(At(d, q))
<1>1. \A q \in Int : h(q) \in -1..15 /\ (At(d, q) = 256 => h(q) = -1)
  <2> TAKE q \in Int
  <2>1. At(d, q) \in 0..256
    BY ReadAt
  <2> QED
    BY <2>1, HexValues
<1>2. Len(d) \in Nat
  BY LenProperties
<1>3. CASE \E q \in p..(p + 3) : h(q) = -1
  BY <1>3 DEF CodePoint
<1>4. CASE ~ \E q \in p..(p + 3) : h(q) = -1
  <2>1. CodePoint(d, p) = 4096 * h(p) + 256 * h(p + 1) + 16 * h(p + 2) + h(p + 3)
    BY <1>4 DEF CodePoint
  <2>2. h(p + 3) # -1
    BY <1>4
  <2>3. At(d, p + 3) # 256
    BY <1>1, <2>2
  <2>4. p + 3 \in 0..(Len(d) - 1)
    BY <2>3 DEF At, Fault
  <2>5. p + 4 <= Len(d)
    BY <1>2, <2>4
  <2>6. h(p) \in Int /\ h(p + 1) \in Int /\ h(p + 2) \in Int /\ h(p + 3) \in Int
    <3>1. \A q \in Int : h(q) \in Int
      <4> HIDE DEF h
      <4> QED
        BY <1>1
    <3> QED
      BY <3>1
  <2> HIDE DEF h
  <2>7. CodePoint(d, p) \in Int
    BY <2>1, <2>6
  <2> QED
    BY <2>5, <2>7
<1> QED
  BY <1>3, <1>4

\* What the escapes stand for are octets.
LEMMA EscapesTyped ==
  /\ \A c \in DOMAIN Escapes : Escapes[c] \in Int
  /\ LOWER_U \notin DOMAIN Escapes
  /\ \A u \in Int : Encoding(u) \in Seq(Int)
<1>1. \A c \in DOMAIN Escapes : Escapes[c] \in Int
  BY DEF Escapes, QUOTE, BACKSLASH, LF, CR, HT
<1>2. LOWER_U \notin DOMAIN Escapes
  BY DEF Escapes, QUOTE, BACKSLASH, LOWER_U
<1>3. ASSUME NEW u \in Int PROVE Encoding(u) \in Seq(Int)
  <2> DEFINE a == 192 + (u \div 64)
             b == 128 + (u % 64)
             c == 224 + (u \div 4096)
             d == 128 + ((u \div 64) % 64)
  <2>1. a \in Int /\ b \in Int /\ c \in Int /\ d \in Int
    OBVIOUS
  <2>2. Encoding(u) = CASE u < 128 -> <<u>> [] u \in 128..2047 -> <<a, b>> [] OTHER -> <<c, d, b>>
    BY DEF Encoding
  <2> HIDE DEF a, b, c, d
  <2>3. Encoding(u) = <<u>> \/ Encoding(u) = <<a, b>> \/ Encoding(u) = <<c, d, b>>
    BY <2>2, SMTT(30)
  <2> QED
    <3>1. <<u>> \in Seq(Int) /\ <<a, b>> \in Seq(Int) /\ <<c, d, b>> \in Seq(Int)
      BY <2>1
    <3> QED
      BY <2>3, <3>1
<1> QED
  BY <1>1, <1>2, <1>3

\* What is said goes on with every character.
LEMMA SaidGoesOn ==
  ASSUME NEW d \in Seq(Octet)
  PROVE  /\ Value(d) = IF At(d, 0) = QUOTE THEN SaidFrom(d, 1) ELSE NotJson
         /\ \A p \in 1..(Len(d) + 1) : SaidFrom(d, p) \in Seq(Int)
         /\ \A p \in 1..(Len(d) - 1) :
              /\ At(d, p) = QUOTE /\ p + 1 = Len(d) => SaidFrom(d, p) = <<>>
              /\ At(d, p) \in 32..127 /\ At(d, p) \notin {QUOTE, BACKSLASH} =>
                   SaidFrom(d, p) = <<At(d, p)>> \o SaidFrom(d, p + 1)
              /\ At(d, p) = BACKSLASH /\ At(d, p + 1) \in DOMAIN Escapes =>
                   SaidFrom(d, p) = <<Escapes[At(d, p + 1)]>> \o SaidFrom(d, p + 2)
              /\ At(d, p) = BACKSLASH /\ At(d, p + 1) = LOWER_U /\ CodePoint(d, p + 2) # -1 =>
                   SaidFrom(d, p) = Encoding(CodePoint(d, p + 2)) \o SaidFrom(d, p + 6)
              /\ At(d, p) >= 128 /\ RuneSize(d, p) > 0 =>
                   SaidFrom(d, p) = SubSeq(d, p + 1, p + RuneSize(d, p))
                                      \o SaidFrom(d, p + RuneSize(d, p))
<1> DEFINE n == Len(d)
           Short(p) == At(d, p) = BACKSLASH /\ At(d, p + 1) \in DOMAIN Escapes
           Long(p) == At(d, p) = BACKSLASH /\ At(d, p + 1) = LOWER_U /\ CodePoint(d, p + 2) # -1
           Raw(p) == At(d, p) \in 32..127 /\ At(d, p) \notin {QUOTE, BACKSLASH}
           Wide(p) == At(d, p) >= 128 /\ RuneSize(d, p) > 0
           stop == {p \in 1..(n + 1) : p >= n \/ ~(Short(p) \/ Long(p) \/ Raw(p) \/ Wide(p))}
           end == [p \in 1..(n + 1) |->
                    IF p < n /\ At(d, p) = QUOTE /\ p + 1 = n THEN <<>> ELSE NotJson]
           piece == [p \in 1..(n + 1) |->
                      IF Short(p) THEN <<Escapes[At(d, p + 1)]>>
                      ELSE IF Long(p) THEN Encoding(CodePoint(d, p + 2))
                      ELSE IF Raw(p) THEN <<At(d, p)>>
                      ELSE SubSeq(d, p + 1, p + RuneSize(d, p))]
           size == [p \in 1..(n + 1) |->
                     IF Short(p) THEN 2 ELSE IF Long(p) THEN 6 ELSE IF Raw(p) THEN 1
                     ELSE RuneSize(d, p)]
           Rec(F) == Pieces(1, n + 1, stop, end, piece, size, F)
<1>1. n \in Nat
  BY LenProperties
<1> HIDE DEF Short, Long, Raw, Wide
<1>0. \A p \in 1..(n + 1) :
        /\ p \in stop <=> (p >= n \/ ~(Short(p) \/ Long(p) \/ Raw(p) \/ Wide(p)))
        /\ end[p] = IF p < n /\ At(d, p) = QUOTE /\ p + 1 = n THEN <<>> ELSE NotJson
        /\ piece[p] = IF Short(p) THEN <<Escapes[At(d, p + 1)]>>
                      ELSE IF Long(p) THEN Encoding(CodePoint(d, p + 2))
                      ELSE IF Raw(p) THEN <<At(d, p)>>
                      ELSE SubSeq(d, p + 1, p + RuneSize(d, p))
        /\ size[p] = IF Short(p) THEN 2 ELSE IF Long(p) THEN 6 ELSE IF Raw(p) THEN 1
                     ELSE RuneSize(d, p)
  OBVIOUS
<1> HIDE DEF stop, end, piece, size
<1>2. \A p \in 1..(n + 1) : p \notin stop => size[p] \in Nat \ {0} /\ p + size[p] <= n + 1
  <2> SUFFICES ASSUME NEW p \in 1..(n + 1), p \notin stop
               PROVE  size[p] \in Nat \ {0} /\ p + size[p] <= n + 1
    OBVIOUS
  <2>1. p < n /\ (Short(p) \/ Long(p) \/ Raw(p) \/ Wide(p))
    <3>1. ~(p >= n) => p < n
      BY <1>1
    <3>2. ~(p >= n \/ ~(Short(p) \/ Long(p) \/ Raw(p) \/ Wide(p)))
      BY <1>0
    <3> QED
      BY <3>1, <3>2
  <2>2. p \in 0..(n - 1) /\ p + 2 \in Nat /\ p + 1 <= n
    BY <1>1, <2>1
  <2>3. CASE Short(p)
    <3>1. size[p] = 2
      BY <1>0, <2>3
    <3> QED
      BY <1>1, <2>2, <3>1
  <2>4. CASE ~Short(p) /\ Long(p)
    <3>1. size[p] = 6
      BY <1>0, <2>4
    <3>2. (p + 2) + 4 <= n
      BY <2>2, <2>4, CodePointInside DEF Long
    <3> QED
      BY <1>1, <2>2, <3>1, <3>2
  <2>5. CASE ~Short(p) /\ ~Long(p) /\ Raw(p)
    <3>1. size[p] = 1
      BY <1>0, <2>5
    <3> QED
      BY <1>1, <2>2, <3>1
  <2>6. CASE ~Short(p) /\ ~Long(p) /\ ~Raw(p) /\ Wide(p)
    <3>1. size[p] = RuneSize(d, p)
      BY <1>0, <2>6
    <3>2. RuneSize(d, p) \in 2..4 /\ p + RuneSize(d, p) <= n
      BY <2>2, <2>6, RuneInside DEF Wide
    <3> DEFINE r == RuneSize(d, p)
    <3>3. r \in 2..4 /\ p + r <= n /\ size[p] = r
      BY <3>1, <3>2
    <3> HIDE DEF r, n
    <3> QED
      BY <1>1, <2>2, <3>3
  <2> QED
    BY <2>1, <2>3, <2>4, <2>5, <2>6
<1>3. \A p \in 1..(n + 1) : IF p \in stop THEN end[p] \in Seq(Int) ELSE piece[p] \in Seq(Int)
  <2> SUFFICES ASSUME NEW p \in 1..(n + 1)
               PROVE  IF p \in stop THEN end[p] \in Seq(Int) ELSE piece[p] \in Seq(Int)
    OBVIOUS
  <2>1. CASE p \in stop
    <3>1. <<>> \in Seq(Int) /\ NotJson \in Seq(Int)
      BY DEF NotJson
    <3>2. end[p] \in {<<>>, NotJson}
      BY <1>0
    <3> QED
      BY <2>1, <3>1, <3>2
  <2>2. CASE p \notin stop
    <3>1. p < n /\ (Short(p) \/ Long(p) \/ Raw(p) \/ Wide(p)) /\ p \in Nat /\ p + 2 \in Nat
      <4>1. p \in Nat /\ (~(p >= n) => p < n)
        BY <1>1
      <4>2. ~(p >= n \/ ~(Short(p) \/ Long(p) \/ Raw(p) \/ Wide(p)))
        BY <1>0, <2>2
      <4> QED
        BY <4>1, <4>2
    <3>2. CASE Short(p)
      <4>1. piece[p] = <<Escapes[At(d, p + 1)]>>
        BY <1>0, <3>2
      <4>2. Escapes[At(d, p + 1)] \in Int
        BY <3>2, EscapesTyped DEF Short
      <4> DEFINE x == Escapes[At(d, p + 1)]
      <4>3. x \in Int /\ piece[p] = <<x>>
        BY <4>1, <4>2
      <4> HIDE DEF x
      <4> QED
        BY <2>2, <4>3
    <3>3. CASE ~Short(p) /\ Long(p)
      <4>1. piece[p] = Encoding(CodePoint(d, p + 2))
        BY <1>0, <3>3
      <4>2. CodePoint(d, p + 2) \in Int
        BY <3>1, CodePointInside
      <4> QED
        BY <2>2, <4>1, <4>2, EscapesTyped
    <3>4. CASE ~Short(p) /\ ~Long(p) /\ Raw(p)
      <4>1. piece[p] = <<At(d, p)>>
        BY <1>0, <3>4
      <4>2. At(d, p) \in Int
        <5> DEFINE y == At(d, p)
        <5>1. y \in 0..256
          BY ReadAt
        <5> HIDE DEF y
        <5>2. y \in Int
          BY <5>1
        <5> QED
          BY <5>2 DEF y
      <4> DEFINE x == At(d, p)
      <4>3. x \in Int /\ piece[p] = <<x>>
        BY <4>1, <4>2
      <4> HIDE DEF x
      <4> QED
        BY <2>2, <4>3
    <3>5. CASE ~Short(p) /\ ~Long(p) /\ ~Raw(p) /\ Wide(p)
      <4>1. piece[p] = SubSeq(d, p + 1, p + RuneSize(d, p))
        BY <1>0, <3>5
      <4>2. p \in 0..(n - 1)
        BY <1>1, <3>1
      <4>3. RuneSize(d, p) \in 2..4 /\ p + RuneSize(d, p) <= Len(d)
        BY <3>5, <4>2, RuneInside DEF Wide
      <4>4. RuneSize(d, p) \in Nat
        BY <4>3
      <4>5. SubSeq(d, p + 1, p + RuneSize(d, p)) \in Seq(Octet)
        BY <3>1, <4>3, <4>4, PartOctets
      <4>6. Seq(Octet) \subseteq Seq(Int)
        <5>1. Octet \subseteq Int
          BY DEF Octet
        <5> QED
          BY <5>1, SeqMonotonic
      <4> QED
        BY <2>2, <4>1, <4>5, <4>6
    <3> QED
      BY <3>1, <3>2, <3>3, <3>4, <3>5
  <2> QED
    BY <2>1, <2>2
<1>4. \A F : Rec(F) <=> SaidRec(d, F)
  <2> SUFFICES ASSUME NEW F, NEW p \in 1..(n + 1)
               PROVE  (IF p \in stop THEN end[p] ELSE piece[p] \o F[p + size[p]])
                      = (IF p >= Len(d) \/ At(d, p) < SP THEN NotJson
                         ELSE IF At(d, p) = QUOTE THEN IF p + 1 = Len(d) THEN <<>> ELSE NotJson
                         ELSE IF At(d, p) = BACKSLASH THEN
                           IF At(d, p + 1) \in DOMAIN Escapes
                           THEN <<Escapes[At(d, p + 1)]>> \o F[p + 2]
                           ELSE IF At(d, p + 1) = LOWER_U /\ CodePoint(d, p + 2) # -1
                           THEN Encoding(CodePoint(d, p + 2)) \o F[p + 6]
                           ELSE NotJson
                         ELSE IF At(d, p) < 128 THEN <<At(d, p)>> \o F[p + 1]
                         ELSE IF RuneSize(d, p) = 0 THEN NotJson
                         ELSE SubSeq(d, p + 1, p + RuneSize(d, p)) \o F[p + RuneSize(d, p)])
    <3> SUFFICES ASSUME NEW F
                 PROVE  \A p \in 1..(n + 1) :
                          (IF p \in stop THEN end[p] ELSE piece[p] \o F[p + size[p]])
                          = (IF p >= Len(d) \/ At(d, p) < SP THEN NotJson
                             ELSE IF At(d, p) = QUOTE THEN IF p + 1 = Len(d) THEN <<>> ELSE NotJson
                             ELSE IF At(d, p) = BACKSLASH THEN
                               IF At(d, p + 1) \in DOMAIN Escapes
                               THEN <<Escapes[At(d, p + 1)]>> \o F[p + 2]
                               ELSE IF At(d, p + 1) = LOWER_U /\ CodePoint(d, p + 2) # -1
                               THEN Encoding(CodePoint(d, p + 2)) \o F[p + 6]
                               ELSE NotJson
                             ELSE IF At(d, p) < 128 THEN <<At(d, p)>> \o F[p + 1]
                             ELSE IF RuneSize(d, p) = 0 THEN NotJson
                             ELSE SubSeq(d, p + 1, p + RuneSize(d, p)) \o F[p + RuneSize(d, p)])
      BY ZenonT(60) DEF SaidRec, Pieces
    <3> QED
      BY ZenonT(60)
  <2> DEFINE a == At(d, p)
             c == At(d, p + 1)
             u == CodePoint(d, p + 2)
             r == RuneSize(d, p)
             sub == SubSeq(d, p + 1, p + r)
  <2>1. a \in 0..256 /\ r \in {0, 2, 3, 4}
    BY ReadAt, RuneSizes
  <2>2. QUOTE = 34 /\ BACKSLASH = 92 /\ SP = 32
    BY DEF QUOTE, BACKSLASH, SP
  <2>3. LOWER_U \notin DOMAIN Escapes
    BY EscapesTyped
  <2>4. /\ Short(p) <=> a = BACKSLASH /\ c \in DOMAIN Escapes
        /\ Long(p) <=> a = BACKSLASH /\ c = LOWER_U /\ u # -1
        /\ Raw(p) <=> a \in 32..127 /\ a \notin {QUOTE, BACKSLASH}
        /\ Wide(p) <=> a >= 128 /\ r > 0
    BY DEF Short, Long, Raw, Wide
  <2>5. /\ p \in stop <=> (p >= n \/ ~(Short(p) \/ Long(p) \/ Raw(p) \/ Wide(p)))
        /\ end[p] = IF p < n /\ a = QUOTE /\ p + 1 = n THEN <<>> ELSE NotJson
        /\ piece[p] = IF Short(p) THEN <<Escapes[c]>> ELSE IF Long(p) THEN Encoding(u)
                      ELSE IF Raw(p) THEN <<a>> ELSE sub
        /\ size[p] = IF Short(p) THEN 2 ELSE IF Long(p) THEN 6 ELSE IF Raw(p) THEN 1 ELSE r
    BY <1>0
  <2>6. SUFFICES (IF p \in stop THEN end[p] ELSE piece[p] \o F[p + size[p]])
                 = (IF p >= n \/ a < SP THEN NotJson
                    ELSE IF a = QUOTE THEN IF p + 1 = n THEN <<>> ELSE NotJson
                    ELSE IF a = BACKSLASH THEN
                      IF c \in DOMAIN Escapes THEN <<Escapes[c]>> \o F[p + 2]
                      ELSE IF c = LOWER_U /\ u # -1 THEN Encoding(u) \o F[p + 6]
                      ELSE NotJson
                    ELSE IF a < 128 THEN <<a>> \o F[p + 1]
                    ELSE IF r = 0 THEN NotJson
                    ELSE sub \o F[p + r])
    OBVIOUS
  <2> HIDE DEF a, c, u, r, sub
  <2>7. n \in Int /\ p \in Int
    BY <1>1
  <2> HIDE DEF n
  <2>8. CASE p >= n
    <3>1. ~(p < n)
      BY <2>7, <2>8
    <3> QED
      BY <2>5, <2>8, <3>1
  <2>9. CASE ~(p >= n) /\ a < SP
    <3>1. p \in stop /\ a # QUOTE
      BY <2>1, <2>2, <2>4, <2>5, <2>9
    <3> QED
      BY <2>5, <2>9, <3>1
  <2>10. CASE ~(p >= n) /\ a = QUOTE
    <3>1. p \in stop /\ ~(a < SP) /\ p < n
      BY <2>1, <2>2, <2>4, <2>5, <2>7, <2>10
    <3> QED
      BY <2>5, <2>10, <3>1
  <2>11. CASE ~(p >= n) /\ Short(p)
    <3>1. p \notin stop /\ ~(a < SP) /\ a # QUOTE /\ a = BACKSLASH /\ c \in DOMAIN Escapes
      BY <2>1, <2>2, <2>4, <2>5, <2>11
    <3> QED
      BY <2>5, <2>11, <3>1
  <2>12. CASE ~(p >= n) /\ Long(p)
    <3>1. /\ p \notin stop /\ ~(a < SP) /\ a # QUOTE /\ a = BACKSLASH /\ ~Short(p)
          /\ c \notin DOMAIN Escapes /\ c = LOWER_U /\ u # -1
      BY <2>1, <2>2, <2>3, <2>4, <2>5, <2>12
    <3> QED
      BY <2>5, <2>12, <3>1
  <2>13. CASE ~(p >= n) /\ a = BACKSLASH /\ ~Short(p) /\ ~Long(p)
    <3>1. p \in stop /\ ~(a < SP) /\ a # QUOTE /\ c \notin DOMAIN Escapes /\ ~(c = LOWER_U /\ u # -1)
      BY <2>1, <2>2, <2>4, <2>5, <2>13
    <3> QED
      BY <2>5, <2>13, <3>1
  <2>14. CASE ~(p >= n) /\ Raw(p)
    <3>1. /\ p \notin stop /\ ~(a < SP) /\ a # QUOTE /\ a # BACKSLASH /\ a < 128
          /\ ~Short(p) /\ ~Long(p)
      BY <2>1, <2>2, <2>4, <2>5, <2>14
    <3> QED
      BY <2>5, <2>14, <3>1
  <2>15. CASE ~(p >= n) /\ a >= 128 /\ r = 0
    <3>1. p \in stop /\ ~(a < SP) /\ a # QUOTE /\ a # BACKSLASH /\ ~(a < 128)
      BY <2>1, <2>2, <2>4, <2>5, <2>15
    <3> QED
      BY <2>5, <2>15, <3>1
  <2>16. CASE ~(p >= n) /\ Wide(p)
    <3>1. /\ p \notin stop /\ ~(a < SP) /\ a # QUOTE /\ a # BACKSLASH /\ ~(a < 128)
          /\ ~Short(p) /\ ~Long(p) /\ ~Raw(p) /\ r # 0
      BY <2>1, <2>2, <2>4, <2>5, <2>16
    <3> QED
      BY <2>5, <2>16, <3>1
  <2>17. /\ a < SP \/ a = QUOTE \/ a = BACKSLASH \/ Raw(p) \/ a >= 128
         /\ a >= 128 => r = 0 \/ Wide(p)
    BY <2>1, <2>2, <2>4
  <2> QED
    BY <2>8, <2>9, <2>10, <2>11, <2>12, <2>13, <2>14, <2>15, <2>16, <2>17
<1>5. \E F : Rec(F)
  <2>1. 1 \in Int /\ n + 1 \in Int
    BY <1>1
  <2> DEFINE hi == n + 1
  <2>2. /\ 1 \in Int /\ hi \in Int
        /\ \A p \in 1..hi : p \notin stop => size[p] \in Nat \ {0} /\ p + size[p] <= hi
    BY <1>2, <2>1
  <2> HIDE DEF n, hi
  <2>3. \E F : Pieces(1, hi, stop, end, piece, size, F)
    BY <2>2, PiecesExist
  <2> QED
    BY <2>3 DEF hi
<1> DEFINE S == CHOOSE F : SaidRec(d, F)
<1>6. SaidRec(d, S) /\ Rec(S)
  <2> HIDE DEF Rec
  <2> QED
    BY <1>4, <1>5
<1>7. \A p \in 1..(n + 1) : S[p] \in Seq(Int)
  <2> DEFINE hi == n + 1
  <2>1. /\ 1 \in Int /\ hi \in Int
        /\ \A p \in 1..hi : p \notin stop => size[p] \in Nat \ {0} /\ p + size[p] <= hi
        /\ \A p \in 1..hi : IF p \in stop THEN end[p] \in Seq(Int) ELSE piece[p] \in Seq(Int)
        /\ Pieces(1, hi, stop, end, piece, size, S)
    BY <1>1, <1>2, <1>3, <1>6
  <2> HIDE DEF n, hi, S
  <2>2. \A p \in 1..hi : S[p] \in Seq(Int)
    BY <2>1, PiecesTyped
  <2> QED
    BY <2>2 DEF hi
<1>8. \A p : SaidFrom(d, p) = S[p]
  BY DEF SaidFrom
<1>9. Value(d) = IF At(d, 0) = QUOTE THEN S[1] ELSE NotJson
  BY DEF Value, Said, SaidRec
<1> HIDE DEF S, Rec
<1>10. ASSUME NEW p \in 1..(Len(d) - 1)
       PROVE  /\ At(d, p) = QUOTE /\ p + 1 = Len(d) => S[p] = <<>>
              /\ At(d, p) \in 32..127 /\ At(d, p) \notin {QUOTE, BACKSLASH} =>
                   S[p] = <<At(d, p)>> \o S[p + 1]
              /\ At(d, p) = BACKSLASH /\ At(d, p + 1) \in DOMAIN Escapes =>
                   S[p] = <<Escapes[At(d, p + 1)]>> \o S[p + 2]
              /\ At(d, p) = BACKSLASH /\ At(d, p + 1) = LOWER_U /\ CodePoint(d, p + 2) # -1 =>
                   S[p] = Encoding(CodePoint(d, p + 2)) \o S[p + 6]
              /\ At(d, p) >= 128 /\ RuneSize(d, p) > 0 =>
                   S[p] = SubSeq(d, p + 1, p + RuneSize(d, p)) \o S[p + RuneSize(d, p)]
  <2> DEFINE a == At(d, p)
             c == At(d, p + 1)
             u == CodePoint(d, p + 2)
             r == RuneSize(d, p)
             sub == SubSeq(d, p + 1, p + r)
  <2>1. p \in 1..(Len(d) + 1) /\ ~(p >= Len(d))
    BY <1>1
  <2>2. S[p] = IF p >= Len(d) \/ At(d, p) < SP THEN NotJson
               ELSE IF At(d, p) = QUOTE THEN IF p + 1 = Len(d) THEN <<>> ELSE NotJson
               ELSE IF At(d, p) = BACKSLASH THEN
                 IF At(d, p + 1) \in DOMAIN Escapes
                 THEN <<Escapes[At(d, p + 1)]>> \o S[p + 2]
                 ELSE IF At(d, p + 1) = LOWER_U /\ CodePoint(d, p + 2) # -1
                 THEN Encoding(CodePoint(d, p + 2)) \o S[p + 6]
                 ELSE NotJson
               ELSE IF At(d, p) < 128 THEN <<At(d, p)>> \o S[p + 1]
               ELSE IF RuneSize(d, p) = 0 THEN NotJson
               ELSE SubSeq(d, p + 1, p + RuneSize(d, p)) \o S[p + RuneSize(d, p)]
    BY <1>6, <2>1 DEF SaidRec
  <2>3. a \in 0..256 /\ r \in {0, 2, 3, 4}
    BY ReadAt, RuneSizes
  <2>4. QUOTE = 34 /\ BACKSLASH = 92 /\ SP = 32
    BY DEF QUOTE, BACKSLASH, SP
  <2>5. LOWER_U \notin DOMAIN Escapes
    BY EscapesTyped
  <2>6. S[p] = IF a < SP THEN NotJson
               ELSE IF a = QUOTE THEN IF p + 1 = Len(d) THEN <<>> ELSE NotJson
               ELSE IF a = BACKSLASH THEN
                 IF c \in DOMAIN Escapes THEN <<Escapes[c]>> \o S[p + 2]
                 ELSE IF c = LOWER_U /\ u # -1 THEN Encoding(u) \o S[p + 6]
                 ELSE NotJson
               ELSE IF a < 128 THEN <<a>> \o S[p + 1]
               ELSE IF r = 0 THEN NotJson
               ELSE sub \o S[p + r]
    BY <2>1, <2>2
  <2>7. SUFFICES /\ a = QUOTE /\ p + 1 = Len(d) => S[p] = <<>>
                 /\ a \in 32..127 /\ a \notin {QUOTE, BACKSLASH} => S[p] = <<a>> \o S[p + 1]
                 /\ a = BACKSLASH /\ c \in DOMAIN Escapes => S[p] = <<Escapes[c]>> \o S[p + 2]
                 /\ a = BACKSLASH /\ c = LOWER_U /\ u # -1 => S[p] = Encoding(u) \o S[p + 6]
                 /\ a >= 128 /\ r > 0 => S[p] = sub \o S[p + r]
    OBVIOUS
  <2> HIDE DEF a, c, u, r, sub
  <2>8. CASE a = QUOTE
    <3>1. ~(a < SP) /\ ~(a \in 32..127 /\ a \notin {QUOTE, BACKSLASH}) /\ a # BACKSLASH /\ ~(a >= 128)
      BY <2>3, <2>4, <2>8
    <3> QED
      BY <2>6, <2>8, <3>1
  <2>9. CASE a = BACKSLASH
    <3>1. ~(a < SP) /\ ~(a \in 32..127 /\ a \notin {QUOTE, BACKSLASH}) /\ a # QUOTE /\ ~(a >= 128)
      BY <2>3, <2>4, <2>9
    <3> QED
      BY <2>5, <2>6, <2>9, <3>1
  <2>10. CASE a \in 32..127 /\ a \notin {QUOTE, BACKSLASH}
    <3>1. ~(a < SP) /\ a # BACKSLASH /\ a # QUOTE /\ ~(a >= 128) /\ a < 128
      BY <2>3, <2>4, <2>10
    <3> QED
      BY <2>6, <2>10, <3>1
  <2>11. CASE a >= 128
    <3>1. /\ ~(a < SP) /\ a # BACKSLASH /\ a # QUOTE /\ ~(a < 128) /\ (r > 0 => r # 0)
          /\ ~(a \in 32..127 /\ a \notin {QUOTE, BACKSLASH})
      BY <2>3, <2>4, <2>11
    <3> QED
      BY <2>6, <2>11, <3>1
  <2>12. CASE ~(a = QUOTE \/ a = BACKSLASH \/ a >= 128
               \/ (a \in 32..127 /\ a \notin {QUOTE, BACKSLASH}))
    BY <2>12
  <2> QED
    BY <2>8, <2>9, <2>10, <2>11, <2>12
<1> QED
  BY <1>7, <1>8, <1>9, <1>10

----------------------------------------------------------------------------
(***************************************************************************)
(* What is written says what was read.                                     *)
(***************************************************************************)

\* Whatever follows, the beginning d of a JSON string says x.
Says(d, x) == \A e \in Seq(Octet) : SaidFrom(d \o e, 1) = x \o SaidFrom(d \o e, Len(d))

\* Whatever follows them, the octets r say y after the beginning d.
Adds(d, r, y) ==
  \A e \in Seq(Octet) :
    SaidFrom(d \o r \o e, Len(d)) = y \o SaidFrom(d \o r \o e, Len(d) + Len(r))

\* Two sequences of octets that are put together.
LEMMA TwoTogether ==
  ASSUME NEW c \in Seq(Octet), NEW e \in Seq(Octet)
  PROVE  /\ c \o e \in Seq(Octet) /\ Len(c \o e) = Len(c) + Len(e)
         /\ \A k \in 1..(Len(c) + Len(e)) : (c \o e)[k] = IF k <= Len(c) THEN c[k] ELSE e[k - Len(c)]
BY ConcatProperties, ZenonT(60)

\* It does not matter what is put together first.
LEMMA Regroup ==
  ASSUME NEW x \in Seq(Int), NEW y \in Seq(Int), NEW z \in Seq(Int)
  PROVE  x \o (y \o z) = (x \o y) \o z
BY ConcatAssociative, SMTT(60)

\* The octets of what is put together.
LEMMA OctetsTogether ==
  ASSUME NEW d \in Seq(Octet), NEW r \in Seq(Octet), NEW e \in Seq(Octet)
  PROVE  /\ d \o r \in Seq(Octet) /\ d \o r \o e \in Seq(Octet)
         /\ Len(d \o r) = Len(d) + Len(r) /\ Len(d \o r \o e) = Len(d) + Len(r) + Len(e)
         /\ Len(d) \in Nat /\ Len(r) \in Nat /\ Len(e) \in Nat
         /\ d \o r \o e = d \o (r \o e)
         /\ \A q \in 0..(Len(r) - 1) : At(d \o r \o e, Len(d) + q) = At(r, q)
         /\ \A q \in 0..(Len(d) - 1) : At(d \o r \o e, q) = At(d, q)
<1> DEFINE c == d \o r
           b == c \o e
<1>1. Len(d) \in Nat /\ Len(r) \in Nat /\ Len(e) \in Nat
  BY LenProperties
<1>2. /\ c \in Seq(Octet) /\ Len(c) = Len(d) + Len(r)
      /\ \A k \in 1..(Len(d) + Len(r)) : c[k] = IF k <= Len(d) THEN d[k] ELSE r[k - Len(d)]
  BY ConcatProperties
<1> HIDE DEF c
<1>3. /\ b \in Seq(Octet) /\ Len(b) = Len(c) + Len(e)
      /\ \A k \in 1..(Len(c) + Len(e)) : b[k] = IF k <= Len(c) THEN c[k] ELSE e[k - Len(c)]
  <2>1. c \in Seq(Octet)
    BY <1>2
  <2> QED
    BY <2>1, TwoTogether
<1> HIDE DEF b
<1>4. \A q \in 0..(Len(r) - 1) : At(b, Len(d) + q) = At(r, q)
  <2> TAKE q \in 0..(Len(r) - 1)
  <2> DEFINE k == Len(d) + q + 1
  <2>1. /\ k \in 1..(Len(d) + Len(r)) /\ ~(k <= Len(d)) /\ k - Len(d) = q + 1
        /\ k \in 1..(Len(c) + Len(e)) /\ k <= Len(c)
        /\ Len(d) + q \in 0..(Len(b) - 1) /\ (Len(d) + q) + 1 = k
    BY <1>1, <1>2, <1>3
  <2>2. b[k] = r[q + 1]
    BY <1>2, <1>3, <2>1
  <2> QED
    BY <2>1, <2>2 DEF At
<1>5. \A q \in 0..(Len(d) - 1) : At(b, q) = At(d, q)
  <2> TAKE q \in 0..(Len(d) - 1)
  <2> DEFINE k == q + 1
  <2>1. /\ k \in 1..(Len(d) + Len(r)) /\ k <= Len(d)
        /\ k \in 1..(Len(c) + Len(e)) /\ k <= Len(c)
        /\ q \in 0..(Len(b) - 1)
    BY <1>1, <1>2, <1>3
  <2>2. b[k] = d[k]
    BY <1>2, <1>3, <2>1
  <2> QED
    BY <2>1, <2>2 DEF At
<1>6. d \o r \o e = d \o (r \o e)
  BY ConcatAssociative
<1> QED
  BY <1>1, <1>2, <1>3, <1>4, <1>5, <1>6 DEF b, c

\* A beginning and what it is followed by say one after the other.
LEMMA SaysMore ==
  ASSUME NEW d \in Seq(Octet), NEW r \in Seq(Octet), NEW x \in Seq(Octet), NEW y \in Seq(Octet),
         Len(d) >= 1, Says(d, x), Adds(d, r, y)
  PROVE  Says(d \o r, x \o y)
<1> SUFFICES ASSUME NEW e \in Seq(Octet)
             PROVE  SaidFrom(d \o r \o e, 1) = (x \o y) \o SaidFrom(d \o r \o e, Len(d \o r))
  BY DEF Says
<1> DEFINE b == d \o r \o e
           z == SaidFrom(b, Len(d) + Len(r))
<1>1. /\ b \in Seq(Octet) /\ b = d \o (r \o e) /\ r \o e \in Seq(Octet)
      /\ Len(d \o r) = Len(d) + Len(r) /\ Len(b) = Len(d) + Len(r) + Len(e)
      /\ Len(d) \in Nat /\ Len(r) \in Nat /\ Len(e) \in Nat
  <2>1. r \o e \in Seq(Octet)
    BY TwoTogether
  <2>0. d \in Seq(Octet) /\ r \in Seq(Octet) /\ e \in Seq(Octet)
    OBVIOUS
  <2>2. /\ d \o r \o e \in Seq(Octet) /\ d \o r \o e = d \o (r \o e)
    BY ONLY OctetsTogether, <2>0
  <2>3. /\ Len(d \o r) = Len(d) + Len(r) /\ Len(d \o r \o e) = Len(d) + Len(r) + Len(e)
        /\ Len(d) \in Nat /\ Len(r) \in Nat /\ Len(e) \in Nat
    BY ONLY OctetsTogether, <2>0
  <2> QED
    BY <2>1, <2>2, <2>3
<1>2. SaidFrom(b, 1) = x \o SaidFrom(b, Len(d))
  <2>1. SaidFrom(d \o (r \o e), 1) = x \o SaidFrom(d \o (r \o e), Len(d))
    BY <1>1 DEF Says
  <2> QED
    BY <1>1, <2>1
<1>3. SaidFrom(b, Len(d)) = y \o z
  BY DEF Adds
<1>4. z \in Seq(Int)
  <2>1. Len(d) + Len(r) \in 1..(Len(b) + 1)
    BY <1>1
  <2> HIDE DEF b
  <2> QED
    BY <1>1, <2>1, SaidGoesOn
<1>5. x \in Seq(Int) /\ y \in Seq(Int)
  <2>1. Octet \subseteq Int
    BY DEF Octet
  <2> QED
    BY <2>1, SeqMonotonic
<1> HIDE DEF b, z
<1>6. x \o (y \o z) = (x \o y) \o z
  <2>1. x \in Seq(Int)
    BY <1>5
  <2>2. y \in Seq(Int)
    BY <1>5
  <2> QED
    BY <1>4, <2>1, <2>2, Regroup
<1>7. SaidFrom(b, 1) = (x \o y) \o z
  BY <1>2, <1>3, <1>6
<1> QED
  BY <1>1, <1>7 DEF b, z

\* An octet that needs no escape says itself.
LEMMA PlainAdds ==
  ASSUME NEW d \in Seq(Octet), Len(d) >= 1, NEW c \in 32..127, c \notin {QUOTE, BACKSLASH}
  PROVE  Adds(d, <<c>>, <<c>>)
<1> SUFFICES ASSUME NEW e \in Seq(Octet)
             PROVE  SaidFrom(d \o <<c>> \o e, Len(d))
                    = <<c>> \o SaidFrom(d \o <<c>> \o e, Len(d) + Len(<<c>>))
  BY DEF Adds
<1> DEFINE r == <<c>>
           b == d \o r \o e
<1>1. r \in Seq(Octet) /\ Len(r) = 1 /\ At(r, 0) = c
  BY DEF Octet, At
<1> HIDE DEF r
<1>2. /\ b \in Seq(Octet) /\ Len(b) = Len(d) + 1 + Len(e) /\ Len(d) \in Nat /\ Len(e) \in Nat
      /\ At(b, Len(d) + 0) = c
  <2>1. r \in Seq(Octet)
    BY <1>1
  <2>2. /\ d \o r \o e \in Seq(Octet) /\ Len(d \o r \o e) = Len(d) + Len(r) + Len(e)
        /\ Len(d) \in Nat /\ Len(e) \in Nat
        /\ \A q \in 0..(Len(r) - 1) : At(d \o r \o e, Len(d) + q) = At(r, q)
    BY <2>1, OctetsTogether
  <2>3. 0 \in 0..(Len(r) - 1)
    BY <1>1
  <2> QED
    BY <1>1, <2>2, <2>3
<1> HIDE DEF b
<1>3. At(b, Len(d)) = c
  BY <1>2
<1>4. Len(d) \in 1..(Len(b) - 1)
  BY <1>2
<1>5. SaidFrom(b, Len(d)) = <<c>> \o SaidFrom(b, Len(d) + 1)
  <2>1. At(b, Len(d)) \in 32..127 /\ At(b, Len(d)) \notin {QUOTE, BACKSLASH}
    BY <1>3
  <2>2. SaidFrom(b, Len(d)) = <<At(b, Len(d))>> \o SaidFrom(b, Len(d) + 1)
    BY <1>2, <1>4, <2>1, SaidGoesOn
  <2> QED
    BY <1>3, <2>2
<1> QED
  BY <1>1, <1>5 DEF b, r

\* An encoding says itself.
LEMMA SameRune ==
  ASSUME NEW b, NEW c, NEW p \in Int, NEW q \in Int, RuneSize(b, p) > 0,
         \A k \in 0..(RuneSize(b, p) - 1) : At(c, q + k) = At(b, p + k)
  PROVE  RuneSize(c, q) = RuneSize(b, p)
<1> DEFINE n == Announced(At(b, p))
<1>1. n \in {0, 2, 3, 4}
  BY DEF Announced
<1>2. /\ n > 0 /\ RuneSize(b, p) = n
      /\ At(b, p + 1) \in Seconds(At(b, p))
      /\ \A k \in (p + 2)..(p + n - 1) : At(b, k) \in Continuation
  BY <1>1 DEF RuneSize
<1>3. n \in 2..4
  BY <1>1, <1>2
<1>4. \A k \in 0..(n - 1) : At(c, q + k) = At(b, p + k)
  BY <1>2
<1> HIDE DEF n
<1>5. At(c, q) = At(b, p) /\ At(c, q + 1) = At(b, p + 1)
  <2>1. 0 \in 0..(n - 1) /\ 1 \in 0..(n - 1) /\ q + 0 = q /\ p + 0 = p
    BY <1>3
  <2>2. At(c, q + 0) = At(b, p + 0) /\ At(c, q + 1) = At(b, p + 1)
    BY <1>4, <2>1
  <2> QED
    BY <2>1, <2>2
<1>6. \A k \in (q + 2)..(q + n - 1) : At(c, k) \in Continuation
  <2> TAKE k \in (q + 2)..(q + n - 1)
  <2> DEFINE j == k - q
  <2>1. j \in 0..(n - 1) /\ p + j \in (p + 2)..(p + n - 1) /\ q + j = k
    BY <1>3
  <2> HIDE DEF j
  <2>2. At(c, q + j) = At(b, p + j) /\ At(b, p + j) \in Continuation
    BY <1>2, <1>4, <2>1
  <2> QED
    BY <2>1, <2>2
<1>7. RuneSize(c, q) = n
  BY <1>2, <1>5, <1>6 DEF RuneSize, n
<1> QED
  BY <1>2, <1>7

\* An encoding that is copied says itself.
LEMMA RuneAdds ==
  ASSUME NEW d \in Seq(Octet), Len(d) >= 1, NEW r \in Seq(Octet),
         At(r, 0) >= 128, RuneSize(r, 0) > 0, RuneSize(r, 0) = Len(r)
  PROVE  Adds(d, r, r)
<1> SUFFICES ASSUME NEW e \in Seq(Octet)
             PROVE  SaidFrom(d \o r \o e, Len(d)) = r \o SaidFrom(d \o r \o e, Len(d) + Len(r))
  BY DEF Adds
<1> DEFINE b == d \o r \o e
<1>1. /\ b \in Seq(Octet) /\ Len(b) = Len(d) + Len(r) + Len(e)
      /\ Len(d) \in Nat /\ Len(r) \in Nat /\ Len(e) \in Nat
      /\ \A q \in 0..(Len(r) - 1) : At(b, Len(d) + q) = At(r, q)
  BY OctetsTogether
<1>2. SubSeq(b, Len(d) + 1, Len(d) + Len(r)) = r
  <2> DEFINE c == SubSeq(b, Len(d) + 1, Len(d) + Len(r))
  <2>1. Len(d) + Len(r) <= Len(b)
    BY <1>1
  <2> HIDE DEF b
  <2>2. /\ c \in Seq(Octet) /\ Len(c) = Len(r)
        /\ \A q \in 0..(Len(r) - 1) : At(c, q) = At(b, Len(d) + q)
    BY <1>1, <2>1, PartOctets
  <2> HIDE DEF c
  <2>3. \A k \in 1..Len(r) : c[k] = r[k]
    <3> TAKE k \in 1..Len(r)
    <3> DEFINE q == k - 1
    <3>1. q \in 0..(Len(r) - 1) /\ q + 1 = k
      BY <1>1
    <3>2. At(c, q) = c[q + 1] /\ At(r, q) = r[q + 1] /\ At(c, q) = At(r, q)
      BY <1>1, <2>2, <3>1 DEF At
    <3> QED
      BY <3>1, <3>2
  <2>4. c = r
    BY <2>2, <2>3, SeqEqual
  <2> QED
    BY <2>4 DEF c
<1> HIDE DEF b
<1>3. Len(r) \in {0, 2, 3, 4} /\ Len(r) > 0
  BY RuneSizes
<1>4. At(b, Len(d)) >= 128
  <2>1. At(b, Len(d) + 0) = At(r, 0)
    BY <1>1, <1>3
  <2> QED
    BY <1>1, <2>1
<1>5. RuneSize(b, Len(d)) = Len(r)
  <2>1. \A k \in 0..(RuneSize(r, 0) - 1) : At(b, Len(d) + k) = At(r, 0 + k)
    BY <1>1
  <2> QED
    BY <1>1, <2>1, SameRune, SMTT(60)
<1>6. Len(d) \in 1..(Len(b) - 1)
  BY <1>1, <1>3
<1>7. SaidFrom(b, Len(d)) = SubSeq(b, Len(d) + 1, Len(d) + RuneSize(b, Len(d)))
                              \o SaidFrom(b, Len(d) + RuneSize(b, Len(d)))
  <2>1. RuneSize(b, Len(d)) > 0
    BY <1>3, <1>5
  <2> QED
    BY <1>1, <1>4, <1>6, <2>1, SaidGoesOn
<1> QED
  BY <1>2, <1>5, <1>7 DEF b

\* A short escape says what it stands for.
LEMMA ShortAdds ==
  ASSUME NEW d \in Seq(Octet), Len(d) >= 1, NEW c \in DOMAIN Escapes, c \in Octet
  PROVE  Adds(d, <<BACKSLASH, c>>, <<Escapes[c]>>)
<1> DEFINE r == <<BACKSLASH, c>>
<1> SUFFICES ASSUME NEW e \in Seq(Octet)
             PROVE  SaidFrom(d \o r \o e, Len(d))
                    = <<Escapes[c]>> \o SaidFrom(d \o r \o e, Len(d) + Len(r))
  BY DEF Adds
<1> DEFINE b == d \o r \o e
<1>1. r \in Seq(Octet) /\ Len(r) = 2 /\ At(r, 0) = BACKSLASH /\ At(r, 1) = c
  BY DEF Octet, At, BACKSLASH
<1> HIDE DEF r
<1>2. /\ b \in Seq(Octet) /\ Len(b) = Len(d) + 2 + Len(e) /\ Len(d) \in Nat /\ Len(e) \in Nat
      /\ At(b, Len(d) + 0) = BACKSLASH /\ At(b, Len(d) + 1) = c
  <2>1. r \in Seq(Octet)
    BY <1>1
  <2>2. /\ d \o r \o e \in Seq(Octet) /\ Len(d \o r \o e) = Len(d) + Len(r) + Len(e)
        /\ Len(d) \in Nat /\ Len(e) \in Nat
        /\ \A q \in 0..(Len(r) - 1) : At(d \o r \o e, Len(d) + q) = At(r, q)
    BY <2>1, OctetsTogether
  <2>3. 0 \in 0..(Len(r) - 1) /\ 1 \in 0..(Len(r) - 1)
    BY <1>1
  <2> QED
    BY <1>1, <2>2, <2>3
<1> HIDE DEF b
<1>3. At(b, Len(d)) = BACKSLASH
  BY <1>2
<1>4. Len(d) \in 1..(Len(b) - 1)
  BY <1>2
<1>5. At(b, Len(d) + 1) \in DOMAIN Escapes
  BY <1>2
<1>6. SaidFrom(b, Len(d)) = <<Escapes[At(b, Len(d) + 1)]>> \o SaidFrom(b, Len(d) + 2)
  BY <1>2, <1>3, <1>4, <1>5, SaidGoesOn
<1>7. SaidFrom(b, Len(d)) = <<Escapes[c]>> \o SaidFrom(b, Len(d) + 2)
  BY <1>2, <1>6
<1> QED
  BY <1>1, <1>7 DEF b

\* The code point of the same four digits elsewhere.
LEMMA SameCodePoint ==
  ASSUME NEW b, NEW c, NEW p \in Int, NEW q \in Int,
         \A k \in 0..3 : At(c, q + k) = At(b, p + k)
  PROVE  CodePoint(c, q) = CodePoint(b, p)
<1>1. /\ At(c, q) = At(b, p) /\ At(c, q + 1) = At(b, p + 1)
      /\ At(c, q + 2) = At(b, p + 2) /\ At(c, q + 3) = At(b, p + 3)
  <2>1. At(c, q + 0) = At(b, p + 0) /\ q + 0 = q /\ p + 0 = p
    OBVIOUS
  <2> QED
    BY <2>1
<1>2. /\ q..(q + 3) = {q, q + 1, q + 2, q + 3}
      /\ p..(p + 3) = {p, p + 1, p + 2, p + 3}
  OBVIOUS
<1>3. (\E k \in q..(q + 3) : HexValue(At(c, k)) = -1)
        <=> (\E k \in p..(p + 3) : HexValue(At(b, k)) = -1)
  BY <1>1, <1>2
<1> QED
  BY <1>1, <1>3 DEF CodePoint

\* An escape of four digits says the character with that code point.
LEMMA LongAdds ==
  ASSUME NEW d \in Seq(Octet), Len(d) >= 1, NEW r \in Seq(Octet), Len(r) = 6,
         At(r, 0) = BACKSLASH, At(r, 1) = LOWER_U, CodePoint(r, 2) # -1
  PROVE  Adds(d, r, Encoding(CodePoint(r, 2)))
<1> SUFFICES ASSUME NEW e \in Seq(Octet)
             PROVE  SaidFrom(d \o r \o e, Len(d))
                    = Encoding(CodePoint(r, 2)) \o SaidFrom(d \o r \o e, Len(d) + Len(r))
  BY DEF Adds
<1> DEFINE b == d \o r \o e
           n == Len(d)
<1>1. /\ b \in Seq(Octet) /\ Len(b) = n + Len(r) + Len(e) /\ n \in Nat /\ Len(e) \in Nat
      /\ \A q \in 0..(Len(r) - 1) : At(b, n + q) = At(r, q)
  <2>1. d \in Seq(Octet) /\ r \in Seq(Octet) /\ e \in Seq(Octet)
    OBVIOUS
  <2> QED
    BY ONLY <2>1, OctetsTogether
<1> HIDE DEF b
<1>2. At(b, n + 0) = At(r, 0) /\ At(b, n + 1) = At(r, 1)
  BY <1>1
<1>3. n + 0 = n /\ n + 2 \in Int /\ n \in 1..(Len(b) - 1)
  BY <1>1
<1>4. CodePoint(b, n + 2) = CodePoint(r, 2)
  <2> DEFINE m == n + 2
  <2>1. \A k \in 0..3 : At(b, m + k) = At(r, 2 + k)
    <3> TAKE k \in 0..3
    <3>1. 2 + k \in 0..(Len(r) - 1) /\ n + (2 + k) = m + k
      BY <1>1
    <3>2. At(b, n + (2 + k)) = At(r, 2 + k)
      BY <1>1, <3>1
    <3> QED
      BY <3>1, <3>2
  <2>2. m \in Int
    BY <1>3
  <2> HIDE DEF m
  <2>3. CodePoint(b, m) = CodePoint(r, 2)
    BY <2>1, <2>2, SameCodePoint
  <2> QED
    BY <2>3 DEF m
<1> HIDE DEF n
<1>5. At(b, n) = BACKSLASH /\ At(b, n + 1) = LOWER_U /\ CodePoint(b, n + 2) # -1
  BY <1>2, <1>3, <1>4
<1>6. SaidFrom(b, n) = Encoding(CodePoint(b, n + 2)) \o SaidFrom(b, n + 6)
  BY <1>1, <1>3, <1>5, SaidGoesOn
<1>7. SaidFrom(b, n) = Encoding(CodePoint(r, 2)) \o SaidFrom(b, n + 6)
  BY <1>4, <1>6
<1> QED
  BY <1>7 DEF b, n

\* What four digits are worth.
Weigh(h1, h2, h3, h4) == 4096 * h1 + 256 * h2 + 16 * h3 + h4

\* The code point after a backslash and a u.
LEMMA FourDigits ==
  ASSUME NEW r,
         HexValue(At(r, 2)) \in 0..15, HexValue(At(r, 3)) \in 0..15,
         HexValue(At(r, 4)) \in 0..15, HexValue(At(r, 5)) \in 0..15
  PROVE  CodePoint(r, 2) = Weigh(HexValue(At(r, 2)), HexValue(At(r, 3)),
                                 HexValue(At(r, 4)), HexValue(At(r, 5)))
<1>1. 2..(2 + 3) = {2, 3, 4, 5} /\ 2 + 1 = 3 /\ 2 + 2 = 4 /\ 2 + 3 = 5
  OBVIOUS
<1>2. ~ \E q \in 2..(2 + 3) : HexValue(At(r, q)) = -1
  BY <1>1
<1> QED
  BY <1>1, <1>2 DEF CodePoint, Weigh

\* The hexadecimal digits are those of their values.
LEMMA HexDigits ==
  ASSUME NEW h \in 0..15
  PROVE  hexdigits[h + 1] \in Octet /\ HexValue(hexdigits[h + 1]) = h
<1>1. CASE h \in 0..9
  <2>1. hexdigits[h + 1] = 48 + h
    BY <1>1 DEF hexdigits
  <2> QED
    BY <1>1, <2>1 DEF HexValue, ZERO, NINE, Octet
<1>2. CASE h \in 10..15
  <2>1. hexdigits[h + 1] = 87 + h
    BY <1>2 DEF hexdigits
  <2> QED
    BY <1>2, <2>1 DEF HexValue, ZERO, NINE, Octet
<1> QED
  BY <1>1, <1>2

\* What the short escapes of appendEscByte stand for.
LEMMA ShortEscapes ==
  /\ QUOTE \in DOMAIN Escapes /\ QUOTE \in Octet /\ Escapes[QUOTE] = QUOTE
  /\ BACKSLASH \in DOMAIN Escapes /\ BACKSLASH \in Octet /\ Escapes[BACKSLASH] = BACKSLASH
  /\ 110 \in DOMAIN Escapes /\ 110 \in Octet /\ Escapes[110] = LF
  /\ 114 \in DOMAIN Escapes /\ 114 \in Octet /\ Escapes[114] = CR
  /\ 116 \in DOMAIN Escapes /\ 116 \in Octet /\ Escapes[116] = HT
<1>1. DOMAIN Escapes = {QUOTE, BACKSLASH, 47, 98, 102, 110, 114, 116}
  BY DEF Escapes
<1>2. \A k \in {QUOTE, BACKSLASH, 110, 114, 116} :
        Escapes[k] = IF k = 110 THEN LF ELSE IF k = 114 THEN CR ELSE IF k = 116 THEN HT ELSE k
  BY DEF Escapes, QUOTE, BACKSLASH
<1>3. \A k \in {QUOTE, BACKSLASH, 110, 114, 116} : k \in Octet
  BY DEF QUOTE, BACKSLASH, Octet
<1>4. QUOTE # 110 /\ QUOTE # 114 /\ QUOTE # 116 /\ BACKSLASH # 110 /\ BACKSLASH # 114 /\ BACKSLASH # 116
  BY DEF QUOTE, BACKSLASH
<1> QED
  BY <1>1, <1>2, <1>3, <1>4

\* A code point below 128 is its own encoding.
LEMMA AsciiEncoding ==
  ASSUME NEW u \in Nat, u < 128
  PROVE  Encoding(u) = <<u>>
<1>1. u \notin 128..2047
  OBVIOUS
<1> QED
  BY <1>1 DEF Encoding

\* An escaped octet says the octet.
LEMMA EscapeAdds ==
  ASSUME NEW d \in Seq(Octet), Len(d) >= 1, NEW c \in 0..127, ~ IsPlain(c)
  PROVE  EscByte(c) \in Seq(Octet) /\ <<c>> \in Seq(Octet) /\ Adds(d, EscByte(c), <<c>>)
<1>1. <<c>> \in Seq(Octet) /\ (c \in 0..31 \/ c = QUOTE \/ c = BACKSLASH)
  BY DEF IsPlain, Octet
<1>2. ASSUME NEW k \in DOMAIN Escapes, k \in Octet, Escapes[k] = c, EscByte(c) = <<BACKSLASH, k>>
      PROVE  EscByte(c) \in Seq(Octet) /\ Adds(d, EscByte(c), <<c>>)
  <2>1. BACKSLASH \in Octet
    BY DEF BACKSLASH, Octet
  <2>2. EscByte(c) \in Seq(Octet)
    BY <1>2, <2>1
  <2>3. Adds(d, <<BACKSLASH, k>>, <<Escapes[k]>>)
    BY <1>2, ShortAdds
  <2> QED
    BY <1>2, <2>2, <2>3
<1>3. CASE c = QUOTE
  <2>1. EscByte(c) = <<BACKSLASH, QUOTE>>
    BY <1>3 DEF EscByte, QUOTE, BACKSLASH, LF, CR, HT
  <2> QED
    BY <1>1, <1>2, <1>3, <2>1, ShortEscapes
<1>4. CASE c = BACKSLASH
  <2>1. EscByte(c) = <<BACKSLASH, BACKSLASH>>
    BY <1>4 DEF EscByte, QUOTE, BACKSLASH, LF, CR, HT
  <2> QED
    BY <1>1, <1>2, <1>4, <2>1, ShortEscapes
<1>5. CASE c = LF
  <2>1. EscByte(c) = <<BACKSLASH, 110>>
    BY <1>5 DEF EscByte, QUOTE, BACKSLASH, LF, CR, HT
  <2> QED
    BY <1>1, <1>2, <1>5, <2>1, ShortEscapes
<1>6. CASE c = CR
  <2>1. EscByte(c) = <<BACKSLASH, 114>>
    BY <1>6 DEF EscByte, QUOTE, BACKSLASH, LF, CR, HT
  <2> QED
    BY <1>1, <1>2, <1>6, <2>1, ShortEscapes
<1>7. CASE c = HT
  <2>1. EscByte(c) = <<BACKSLASH, 116>>
    BY <1>7 DEF EscByte, QUOTE, BACKSLASH, LF, CR, HT
  <2> QED
    BY <1>1, <1>2, <1>7, <2>1, ShortEscapes
<1>8. CASE c \notin {QUOTE, BACKSLASH, LF, CR, HT}
  <2> DEFINE hi == c \div 16
             lo == c % 16
             a1 == hexdigits[hi + 1]
             a2 == hexdigits[lo + 1]
             r == <<BACKSLASH, LOWER_U, ZERO, ZERO, a1, a2>>
  <2>1. EscByte(c) = r
    BY <1>8 DEF EscByte
  <2>2. hi \in 0..15 /\ lo \in 0..15 /\ 16 * hi + lo = c /\ c \in Nat
    OBVIOUS
  <2> HIDE DEF hi, lo
  <2>3. a1 \in Octet /\ HexValue(a1) = hi /\ a2 \in Octet /\ HexValue(a2) = lo
    BY <2>2, HexDigits
  <2> HIDE DEF a1, a2
  <2>4. BACKSLASH \in Octet /\ LOWER_U \in Octet /\ ZERO \in Octet /\ HexValue(ZERO) = 0
    BY DEF BACKSLASH, LOWER_U, ZERO, NINE, Octet, HexValue
  <2>5. /\ r \in Seq(Octet) /\ Len(r) = 6
        /\ At(r, 0) = BACKSLASH /\ At(r, 1) = LOWER_U /\ At(r, 2) = ZERO /\ At(r, 3) = ZERO
        /\ At(r, 4) = a1 /\ At(r, 5) = a2
    <3>1. r \in Seq(Octet)
      BY <2>3, <2>4
    <3>2. Len(r) = 6
      OBVIOUS
    <3>3. \A q \in 0..5 : At(r, q) = r[q + 1]
      <4> HIDE DEF r
      <4> QED
        BY <3>2 DEF At
    <3> QED
      BY <3>1, <3>2, <3>3
  <2> HIDE DEF r
  <2>6. 0 \in 0..15
    OBVIOUS
  <2>7. c = 4096 * 0 + 256 * 0 + 16 * hi + lo
    BY <2>2
  <2>8. Adds(d, r, Encoding(c))
    <3>1. /\ HexValue(At(r, 2)) = 0 /\ HexValue(At(r, 3)) = 0
          /\ HexValue(At(r, 4)) = hi /\ HexValue(At(r, 5)) = lo
      BY <2>3, <2>4, <2>5
    <3>2. /\ HexValue(At(r, 2)) \in 0..15 /\ HexValue(At(r, 3)) \in 0..15
          /\ HexValue(At(r, 4)) \in 0..15 /\ HexValue(At(r, 5)) \in 0..15
      BY <2>2, <2>6, <3>1
    <3>3. CodePoint(r, 2) = Weigh(0, 0, hi, lo)
      BY <3>1, <3>2, FourDigits
    <3>4. CodePoint(r, 2) = c
      BY <2>7, <3>3 DEF Weigh
    <3>5. c # -1
      BY <2>2
    <3>6. Adds(d, r, Encoding(CodePoint(r, 2)))
      BY <2>5, <3>4, <3>5, LongAdds
    <3> QED
      BY <3>4, <3>6
  <2>9. Encoding(c) = <<c>>
    BY <2>2, AsciiEncoding
  <2> QED
    BY <1>1, <2>1, <2>5, <2>8, <2>9
<1> QED
  BY <1>1, <1>3, <1>4, <1>5, <1>6, <1>7, <1>8

\* The escape of U+FFFD says U+FFFD.
LEMMA ReplacementAdds ==
  ASSUME NEW d \in Seq(Octet), Len(d) >= 1
  PROVE  /\ EscReplacement \in Seq(Octet) /\ Replacement \in Seq(Octet)
         /\ Adds(d, EscReplacement, Replacement)
<1> DEFINE r == EscReplacement
<1>1. Replacement \in Seq(Octet)
  BY DEF Replacement, Octet
<1>2. r \in Seq(Octet) /\ Len(r) = 6 /\ r = <<92, 117, 102, 102, 102, 100>>
  BY DEF EscReplacement, BACKSLASH, LOWER_U, Octet
<1> HIDE DEF r
<1>3. \A q \in 0..5 : At(r, q) = r[q + 1]
  BY <1>2 DEF At
<1>4. /\ At(r, 0) = BACKSLASH /\ At(r, 1) = LOWER_U /\ At(r, 2) = 102 /\ At(r, 3) = 102
      /\ At(r, 4) = 102 /\ At(r, 5) = 100
  BY <1>2, <1>3 DEF BACKSLASH, LOWER_U
<1>5. HexValue(102) = 15 /\ HexValue(100) = 13 /\ 15 \in 0..15 /\ 13 \in 0..15
  BY DEF HexValue, ZERO, NINE
<1>6. Adds(d, r, Encoding(65533))
  <2>1. 4096 * 15 + 256 * 15 + 16 * 15 + 13 = 65533
    OBVIOUS
  <2>2. /\ HexValue(At(r, 2)) = 15 /\ HexValue(At(r, 3)) = 15
        /\ HexValue(At(r, 4)) = 15 /\ HexValue(At(r, 5)) = 13
    BY <1>4, <1>5
  <2>3. CodePoint(r, 2) = 65533 /\ CodePoint(r, 2) # -1
    <3>1. /\ HexValue(At(r, 2)) \in 0..15 /\ HexValue(At(r, 3)) \in 0..15
          /\ HexValue(At(r, 4)) \in 0..15 /\ HexValue(At(r, 5)) \in 0..15
      BY <1>5, <2>2
    <3>2. CodePoint(r, 2) = Weigh(15, 15, 15, 13)
      BY <2>2, <3>1, FourDigits
    <3> QED
      BY <2>1, <3>2 DEF Weigh
  <2>4. r \in Seq(Octet) /\ Len(r) = 6 /\ At(r, 0) = BACKSLASH /\ At(r, 1) = LOWER_U
    BY <1>2, <1>4
  <2>5. Adds(d, r, Encoding(CodePoint(r, 2)))
    BY <2>3, <2>4, LongAdds
  <2> QED
    BY <2>3, <2>5
<1>7. Encoding(65533) = Replacement
  <2>2. Encoding(65533) = <<224 + (65533 \div 4096), 128 + ((65533 \div 64) % 64), 128 + (65533 % 64)>>
    BY DEF Encoding
  <2>3. 65533 \div 4096 = 15 /\ (65533 \div 64) % 64 = 63 /\ 65533 % 64 = 61
    OBVIOUS
  <2> QED
    BY <2>2, <2>3 DEF Replacement
<1> QED
  BY <1>1, <1>2, <1>6, <1>7 DEF r

----------------------------------------------------------------------------
(***************************************************************************)
(* What has been read.                                                     *)
(***************************************************************************)

\* The first k octets of b.
Prefix(b, k) == SubSeq(b, 1, k)

\* No encoding in b goes across p: the text of every longer prefix is that of
\* b[:p] and then that from p on.
Splits(b, p) ==
  \A k \in p..Len(b) : Text(Prefix(b, k)) = Text(Prefix(b, p)) \o TextFrom(Prefix(b, k), p)

\* The octets of a prefix.
LEMMA PrefixOctets ==
  ASSUME NEW b \in Seq(Octet), NEW k \in 0..Len(b)
  PROVE  /\ Prefix(b, k) \in Seq(Octet) /\ Len(Prefix(b, k)) = k
         /\ \A q \in 0..(k - 1) : At(Prefix(b, k), q) = At(b, q)
<1>1. Len(b) \in Nat
  BY LenProperties
<1>2. k \in Nat /\ 0 \in Nat /\ 0 + k <= Len(b) /\ 0 + 1 = 1 /\ 0 + k = k
  BY <1>1
<1>3. /\ SubSeq(b, 0 + 1, 0 + k) \in Seq(Octet) /\ Len(SubSeq(b, 0 + 1, 0 + k)) = k
      /\ \A q \in 0..(k - 1) : At(SubSeq(b, 0 + 1, 0 + k), q) = At(b, 0 + q)
  BY <1>2, PartOctets
<1>4. \A q \in 0..(k - 1) : 0 + q = q
  OBVIOUS
<1> QED
  BY <1>2, <1>3, <1>4 DEF Prefix

\* The text of a prefix.
LEMMA PrefixText ==
  ASSUME NEW b \in Seq(Octet), NEW k \in 0..Len(b)
  PROVE  /\ Text(Prefix(b, k)) \in Seq(Octet)
         /\ \A p \in 0..k : TextFrom(Prefix(b, k), p) \in Seq(Octet)
         /\ TextFrom(Prefix(b, k), k) = <<>>
         /\ Text(Prefix(b, k)) = TextFrom(Prefix(b, k), 0)
<1> DEFINE c == Prefix(b, k)
<1>1. c \in Seq(Octet) /\ Len(c) = k /\ k \in Nat
  <2>1. Len(b) \in Nat
    BY LenProperties
  <2> QED
    BY <2>1, PrefixOctets
<1> HIDE DEF c
<1>2. /\ Text(c) = TextFrom(c, 0) /\ TextFrom(c, Len(c)) = <<>>
      /\ \A p \in 0..Len(c) : TextFrom(c, p) \in Seq(Octet)
  BY <1>1, TextGoesOn
<1>3. 0 \in 0..Len(c)
  BY <1>1
<1> QED
  BY <1>1, <1>2, <1>3 DEF c

\* The text goes on by what is read from p to q.
LEMMA TextGrows ==
  ASSUME NEW b \in Seq(Octet), NEW p \in Nat, NEW q \in Nat, p <= q, q <= Len(b),
         NEW y \in Seq(Octet), Splits(b, p),
         \A k \in q..Len(b) : TextFrom(Prefix(b, k), p) = y \o TextFrom(Prefix(b, k), q)
  PROVE  Text(Prefix(b, q)) = Text(Prefix(b, p)) \o y /\ Splits(b, q)
<1> DEFINE x == Text(Prefix(b, p))
<1>1. Len(b) \in Nat
  BY LenProperties
<1>2. p \in 0..Len(b) /\ q \in 0..Len(b) /\ q \in q..Len(b)
  BY <1>1
<1>3. x \in Seq(Octet)
  BY <1>2, PrefixText
<1>4. \A k \in q..Len(b) : Text(Prefix(b, k)) = x \o TextFrom(Prefix(b, k), p)
  <2>1. \A k \in q..Len(b) : k \in p..Len(b)
    BY <1>1
  <2> QED
    BY <2>1 DEF Splits
<1> HIDE DEF x
<1>5. Text(Prefix(b, q)) = x \o y
  <2>1. TextFrom(Prefix(b, q), q) = <<>>
    BY <1>2, PrefixText
  <2>2. TextFrom(Prefix(b, q), p) = y \o TextFrom(Prefix(b, q), q)
    BY <1>2
  <2>3. y \o <<>> = y
    BY ConcatEmptySeq
  <2> QED
    BY <1>2, <1>4, <2>1, <2>2, <2>3
<1>6. ASSUME NEW k \in q..Len(b)
      PROVE  Text(Prefix(b, k)) = Text(Prefix(b, q)) \o TextFrom(Prefix(b, k), q)
  <2> DEFINE z == TextFrom(Prefix(b, k), q)
  <2>1. k \in 0..Len(b) /\ q \in 0..k
    BY <1>1
  <2>2. z \in Seq(Octet)
    BY <2>1, PrefixText
  <2>3. Text(Prefix(b, k)) = x \o (y \o z)
    BY <1>4
  <2> HIDE DEF z
  <2>4. x \o (y \o z) = (x \o y) \o z
    BY ONLY <1>3, <2>2, y \in Seq(Octet), ConcatAssociative
  <2> QED
    BY <1>5, <2>3, <2>4 DEF z
<1> QED
  BY <1>5, <1>6 DEF Splits, x

\* An ASCII octet is its own text.
LEMMA AsciiRead ==
  ASSUME NEW b \in Seq(Octet), NEW p \in 0..(Len(b) - 1), At(b, p) < 128, Splits(b, p)
  PROVE  Text(Prefix(b, p + 1)) = Text(Prefix(b, p)) \o <<At(b, p)>> /\ Splits(b, p + 1)
<1>1. Len(b) \in Nat /\ At(b, p) \in Octet
  BY OctetAt
<1>2. p \in Nat /\ p + 1 \in Nat /\ p <= p + 1 /\ p + 1 <= Len(b) /\ <<At(b, p)>> \in Seq(Octet)
  BY <1>1
<1>3. ASSUME NEW k \in (p + 1)..Len(b)
      PROVE  TextFrom(Prefix(b, k), p) = <<At(b, p)>> \o TextFrom(Prefix(b, k), p + 1)
  <2> DEFINE c == Prefix(b, k)
  <2>1. k \in 0..Len(b) /\ p \in 0..(k - 1)
    BY <1>1
  <2>2. c \in Seq(Octet) /\ Len(c) = k /\ At(c, p) = At(b, p)
    BY <2>1, PrefixOctets
  <2> HIDE DEF c
  <2>3. p \in 0..(Len(c) - 1) /\ At(c, p) < 128
    BY <2>1, <2>2
  <2>4. TextFrom(c, p) = <<At(c, p)>> \o TextFrom(c, p + 1)
    BY <2>2, <2>3, TextGoesOn
  <2> QED
    BY <2>2, <2>4 DEF c
<1> QED
  BY <1>2, <1>3, TextGrows

\* An octet that belongs to no encoding is read as U+FFFD: a longer prefix makes
\* no encoding of it.
LEMMA InvalidRead ==
  ASSUME NEW b \in Seq(Octet), NEW p \in 0..(Len(b) - 1), At(b, p) >= 128, RuneSize(b, p) = 0,
         Splits(b, p)
  PROVE  Text(Prefix(b, p + 1)) = Text(Prefix(b, p)) \o Replacement /\ Splits(b, p + 1)
<1>1. Len(b) \in Nat
  BY LenProperties
<1>2. p \in Nat /\ p + 1 \in Nat /\ p <= p + 1 /\ p + 1 <= Len(b) /\ Replacement \in Seq(Octet)
  BY <1>1 DEF Replacement, Octet
<1>3. ASSUME NEW k \in (p + 1)..Len(b)
      PROVE  TextFrom(Prefix(b, k), p) = Replacement \o TextFrom(Prefix(b, k), p + 1)
  <2> DEFINE c == Prefix(b, k)
  <2>1. k \in 0..Len(b) /\ p \in 0..(k - 1)
    BY <1>1
  <2>2. c \in Seq(Octet) /\ Len(c) = k /\ \A q \in 0..(k - 1) : At(c, q) = At(b, q)
    BY <2>1, PrefixOctets
  <2> HIDE DEF c
  <2>3. p \in 0..(Len(c) - 1) /\ At(c, p) >= 128
    BY <2>1, <2>2
  <2>4. RuneSize(c, p) = 0
    <3>1. SUFFICES ASSUME RuneSize(c, p) # 0 PROVE FALSE
      OBVIOUS
    <3>2. RuneSize(c, p) > 0
      <4>1. RuneSize(c, p) \in {0, 2, 3, 4}
        BY RuneSizes
      <4> QED
        BY <3>1, <4>1
    <3>3. RuneSize(c, p) \in 2..4 /\ p + RuneSize(c, p) <= Len(c)
      BY <2>2, <2>3, <3>2, RuneInside
    <3>4. \A q \in 0..(RuneSize(c, p) - 1) : At(b, p + q) = At(c, p + q)
      <4> DEFINE n == RuneSize(c, p)
      <4> HIDE DEF n
      <4>1. n \in 2..4 /\ p + n <= Len(c)
        BY <3>3 DEF n
      <4>2. \A q \in 0..(n - 1) : p + q \in 0..(k - 1)
        BY <1>2, <2>1, <2>2, <4>1
      <4>3. \A q \in 0..(n - 1) : At(b, p + q) = At(c, p + q)
        BY <2>2, <4>2
      <4> QED
        BY <4>3 DEF n
    <3>5. p \in Int
      BY <1>2
    <3>6. RuneSize(b, p) = RuneSize(c, p)
      BY <3>2, <3>4, <3>5, SameRune
    <3> QED
      BY <3>1, <3>6
  <2>5. TextFrom(c, p) = Replacement \o TextFrom(c, p + 1)
    BY <2>2, <2>3, <2>4, TextGoesOn
  <2> QED
    BY <2>5 DEF c
<1> QED
  BY <1>2, <1>3, TextGrows

\* An encoding is its own text.
LEMMA RuneRead ==
  ASSUME NEW b \in Seq(Octet), NEW p \in 0..(Len(b) - 1), At(b, p) >= 128, RuneSize(b, p) > 0,
         Splits(b, p)
  PROVE  /\ Text(Prefix(b, p + RuneSize(b, p)))
              = Text(Prefix(b, p)) \o SubSeq(b, p + 1, p + RuneSize(b, p))
         /\ Splits(b, p + RuneSize(b, p))
<1> DEFINE n == RuneSize(b, p)
           y == SubSeq(b, p + 1, p + n)
<1>1. Len(b) \in Nat
  BY LenProperties
<1>2. n \in 2..4 /\ p + n <= Len(b)
  BY RuneInside
<1>3. n > 0 /\ RuneSize(b, p) = n
  OBVIOUS
<1> HIDE DEF n
<1>4. p \in Nat /\ p \in Int /\ n \in Nat /\ p + n \in Nat /\ p <= p + n /\ p + n <= Len(b)
  BY <1>1, <1>2
<1>5. y \in Seq(Octet) /\ Len(y) = n /\ \A q \in 0..(n - 1) : At(y, q) = At(b, p + q)
  BY <1>4, PartOctets
<1>6. ASSUME NEW k \in (p + n)..Len(b)
      PROVE  TextFrom(Prefix(b, k), p) = y \o TextFrom(Prefix(b, k), p + n)
  <2> DEFINE c == Prefix(b, k)
  <2>1. k \in 0..Len(b) /\ p \in 0..(k - 1) /\ p + n <= k
    BY <1>1, <1>2
  <2>2. c \in Seq(Octet) /\ Len(c) = k /\ \A q \in 0..(k - 1) : At(c, q) = At(b, q)
    BY <2>1, PrefixOctets
  <2> HIDE DEF c
  <2>3. p \in 0..(Len(c) - 1) /\ At(c, p) >= 128
    BY <2>1, <2>2
  <2>4. \A q \in 0..(n - 1) : At(c, p + q) = At(b, p + q)
    <3>1. \A q \in 0..(n - 1) : p + q \in 0..(k - 1)
      BY <1>2, <1>4, <2>1
    <3> QED
      BY <2>2, <3>1
  <2>5. RuneSize(c, p) = n
    <3>1. RuneSize(b, p) > 0 /\ \A q \in 0..(RuneSize(b, p) - 1) : At(c, p + q) = At(b, p + q)
      BY <1>3, <2>4
    <3>2. RuneSize(c, p) = RuneSize(b, p)
      BY <1>4, <3>1, SameRune
    <3> QED
      BY <1>3, <3>2
  <2>6. TextFrom(c, p) = SubSeq(c, p + 1, p + n) \o TextFrom(c, p + n)
    <3>1. RuneSize(c, p) > 0
      BY <1>3, <2>5
    <3>2. TextFrom(c, p) = SubSeq(c, p + 1, p + RuneSize(c, p)) \o TextFrom(c, p + RuneSize(c, p))
      BY <2>2, <2>3, <3>1, TextGoesOn
    <3> QED
      BY <2>5, <3>2
  <2>7. SubSeq(c, p + 1, p + n) = y
    <3> DEFINE x == SubSeq(c, p + 1, p + n)
    <3>1. p + n <= Len(c)
      BY <2>1, <2>2
    <3>2. x \in Seq(Octet) /\ Len(x) = n /\ \A q \in 0..(n - 1) : At(x, q) = At(c, p + q)
      BY <1>4, <2>2, <3>1, PartOctets
    <3> HIDE DEF x, y
    <3>3. \A j \in 1..Len(x) : x[j] = y[j]
      <4> TAKE j \in 1..Len(x)
      <4> DEFINE q == j - 1
      <4>1. q \in 0..(n - 1) /\ q + 1 = j /\ q \in 0..(Len(x) - 1) /\ q \in 0..(Len(y) - 1)
        BY <1>4, <1>5, <3>2
      <4> HIDE DEF q
      <4>2. At(x, q) = At(y, q)
        BY <1>5, <2>4, <3>2, <4>1
      <4> QED
        BY <4>1, <4>2 DEF At
    <3>4. x = y
      BY <1>5, <3>2, <3>3, SeqEqual
    <3> QED
      BY <3>4 DEF x
  <2> QED
    BY <2>6, <2>7 DEF c
<1> HIDE DEF y
<1>7. Text(Prefix(b, p + n)) = Text(Prefix(b, p)) \o y /\ Splits(b, p + n)
  BY <1>4, <1>5, <1>6, TextGrows
<1> QED
  BY <1>3, <1>7 DEF y

----------------------------------------------------------------------------
(***************************************************************************)
(* The output so far, with the run that is not copied yet, says the text   *)
(* of what has been read.                                                  *)
(***************************************************************************)

VInv ==
  /\ IInv
  /\ Len(dst) >= 1
  /\ At(dst, 0) = QUOTE
  /\ Splits(s, i)
  /\ pc = "loop" => Says(dst \o Run, Text(Prefix(s, i)))
  /\ pc = "done" => Value(dst) = Text(Prefix(s, i))

\* The closing quote ends what is said.
LEMMA Closed ==
  ASSUME NEW d \in Seq(Octet), Len(d) >= 1, At(d, 0) = QUOTE, NEW x \in Seq(Octet), Says(d, x)
  PROVE  Value(d \o <<QUOTE>>) = x
<1> DEFINE e == <<QUOTE>>
           b == d \o e
<1>1. e \in Seq(Octet) /\ Len(e) = 1 /\ e[1] = QUOTE
  BY DEF Octet, QUOTE
<1> HIDE DEF e
<1>2. SaidFrom(b, 1) = x \o SaidFrom(b, Len(d))
  BY <1>1 DEF Says
<1>3. /\ b \in Seq(Octet) /\ Len(b) = Len(d) + Len(e)
      /\ \A k \in 1..(Len(d) + Len(e)) : b[k] = IF k <= Len(d) THEN d[k] ELSE e[k - Len(d)]
  BY <1>1, TwoTogether
<1>4. Len(d) \in Nat
  BY LenProperties
<1> DEFINE n == Len(d)
<1> HIDE DEF b, n
<1>5. n \in Nat /\ n >= 1 /\ Len(b) = n + 1 /\ b[1] = d[1] /\ b[n + 1] = QUOTE
  <2>1. n \in Nat /\ n >= 1 /\ Len(b) = n + 1
    BY <1>1, <1>3, <1>4 DEF n
  <2>2. \A k \in 1..(n + 1) : b[k] = IF k <= n THEN d[k] ELSE e[k - n]
    BY <1>1, <1>3 DEF n
  <2>3. b[1] = d[1]
    BY <2>1, <2>2
  <2>4. b[n + 1] = e[(n + 1) - n] /\ (n + 1) - n = 1
    BY <2>1, <2>2
  <2> QED
    BY <1>1, <2>1, <2>3, <2>4
<1>6. At(b, 0) = QUOTE
  <2>1. 0 \in 0..(n - 1) /\ 0 \in 0..(Len(b) - 1) /\ 0 + 1 = 1
    BY <1>5
  <2>2. At(d, 0) = d[0 + 1] /\ At(b, 0) = b[0 + 1]
    BY <2>1 DEF At, n
  <2> QED
    BY <1>5, <2>1, <2>2
<1>7. At(b, n) = QUOTE /\ n \in 1..(Len(b) - 1) /\ n + 1 = Len(b)
  <2>1. n \in 1..(Len(b) - 1) /\ n + 1 = Len(b) /\ n \in 0..(Len(b) - 1)
    BY <1>5
  <2> QED
    BY <1>5, <2>1 DEF At
<1>8. SaidFrom(b, n) = <<>>
  BY <1>3, <1>7, SaidGoesOn
<1>9. Value(b) = SaidFrom(b, 1)
  BY <1>3, <1>6, SaidGoesOn
<1>10. x \o <<>> = x
  BY ConcatEmptySeq
<1>11. Value(b) = x
  BY <1>2, <1>8, <1>9, <1>10 DEF n
<1> QED
  BY <1>11 DEF b, e

\* v[a:p] and v[p:q] after d are v[a:q] after d.
Continues(v, d, a, p, q) ==
  /\ SubSeq(v, a + 1, p) \in Seq(Octet) /\ SubSeq(v, p + 1, q) \in Seq(Octet)
  /\ d \o SubSeq(v, a + 1, p) \o SubSeq(v, p + 1, q) = d \o SubSeq(v, a + 1, q)

\* A part of v goes on with the next.
LEMMA CopyMore ==
  ASSUME NEW v \in Seq(Octet), NEW d \in Seq(Octet), NEW a \in Nat, NEW p \in Nat, NEW q \in Nat,
         a <= p, p <= q, q <= Len(v)
  PROVE  Continues(v, d, a, p, q)
<1> DEFINE x == SubSeq(v, a + 1, p)
           y == SubSeq(v, p + 1, q)
<1>1. Len(v) \in Nat
  BY LenProperties
<1>2. x \o y = SubSeq(v, a + 1, q)
  <2> DEFINE m == a + 1
  <2>1. m \in 1..(Len(v) + 1) /\ p \in (m - 1)..Len(v) /\ q \in p..Len(v)
    BY <1>1
  <2> HIDE DEF m
  <2>2. SubSeq(v, m, p) \o SubSeq(v, p + 1, q) = SubSeq(v, m, q)
    BY <2>1, ConcatAdjacentSubSeq
  <2> QED
    BY <2>2 DEF m
<1>3. \A k \in 1..Len(v) : v[k] \in Octet
  BY ElementOfSeq
<1>4. x \in Seq(Octet)
  <2>1. a + 1 \in Int /\ p \in Int /\ \A k \in (a + 1)..p : v[k] \in Octet
    BY <1>1, <1>3
  <2> QED
    BY <2>1, SubSeqProperties
<1>5. y \in Seq(Octet)
  <2>1. p + 1 \in Int /\ q \in Int /\ \A k \in (p + 1)..q : v[k] \in Octet
    BY <1>1, <1>3
  <2> QED
    BY <2>1, SubSeqProperties
<1> HIDE DEF x, y
<1>6. d \o x \o y = d \o (x \o y)
  BY <1>4, <1>5, ConcatAssociative
<1>7. d \o x \o y = d \o SubSeq(v, a + 1, q)
  BY <1>2, <1>6
<1> QED
  BY <1>4, <1>5, <1>7 DEF x, y, Continues

\* An octet that needs no escape is taken into the run.
LEMMA PlainSays ==
  ASSUME NEW v \in Seq(Octet), NEW d \in Seq(Octet), Len(d) >= 1, NEW a \in Nat, NEW p \in Nat,
         a <= p, p < Len(v), At(v, p) \in 32..127, At(v, p) \notin {QUOTE, BACKSLASH}, Splits(v, p),
         Says(d \o SubSeq(v, a + 1, p), Text(Prefix(v, p)))
  PROVE  /\ Says(d \o SubSeq(v, a + 1, p + 1), Text(Prefix(v, p + 1)))
         /\ Splits(v, p + 1)
<1> DEFINE r == SubSeq(v, a + 1, p)
           y == SubSeq(v, p + 1, p + 1)
           b == d \o r
           c == At(v, p)
           x == Text(Prefix(v, p))
<1>1. Len(v) \in Nat /\ Len(d) \in Nat /\ p + 1 \in Nat /\ p <= p + 1 /\ p + 1 <= Len(v)
      /\ p \in 0..(Len(v) - 1) /\ p \in 0..Len(v)
  <2>1. Len(v) \in Nat /\ Len(d) \in Nat
    BY LenProperties
  <2> QED
    BY <2>1
<1>2. r \in Seq(Octet) /\ b \o y = d \o SubSeq(v, a + 1, p + 1)
  <2>0. v \in Seq(Octet) /\ d \in Seq(Octet) /\ a \in Nat /\ p \in Nat /\ a <= p
    OBVIOUS
  <2> DEFINE m == p + 1
  <2>1. m \in Nat /\ p <= m /\ m <= Len(v)
    BY <1>1
  <2> HIDE DEF m
  <2>2. Continues(v, d, a, p, m)
    BY <2>0, <2>1, CopyMore
  <2> QED
    BY <2>2 DEF m, Continues
<1>3. y = <<c>>
  <2>1. 1 \in Nat /\ 1 \in 0..1
    OBVIOUS
  <2>2. y \in Seq(Octet) /\ Len(y) = 1 /\ \A q \in 0..(1 - 1) : At(y, q) = At(v, p + q)
    BY <1>1, <2>1, PartOctets
  <2> HIDE DEF y
  <2>3. 0 \in 0..(1 - 1) /\ p + 0 = p /\ 0 \in 0..(Len(y) - 1) /\ 0 + 1 = 1
    BY <2>2
  <2>4. At(y, 0) = c /\ At(y, 0) = y[1]
    BY <2>2, <2>3 DEF At
  <2>5. <<c>> \in Seq(Octet)
    <3>1. c \in Octet
      BY DEF Octet
    <3> QED
      BY <3>1
  <2>6. Len(<<c>>) = 1 /\ <<c>>[1] = c
    OBVIOUS
  <2>7. Len(y) = Len(<<c>>) /\ \A j \in 1..Len(y) : y[j] = <<c>>[j]
    BY <2>2, <2>4, <2>6
  <2> QED
    BY <2>2, <2>5, <2>7, SeqEqual
<1>4. Text(Prefix(v, p + 1)) = x \o <<c>> /\ Splits(v, p + 1)
  <2>1. At(v, p) < 128
    <3> HIDE DEF r, y, b, c, x
    <3>1. \A z \in 32..127 : z < 128
      OBVIOUS
    <3> QED
      BY <3>1
  <2> QED
    BY <1>1, <2>1, AsciiRead
<1>5. x \in Seq(Octet)
  BY <1>1, PrefixText
<1>6. b \in Seq(Octet) /\ Len(b) >= 1
  <2>1. b \in Seq(Octet) /\ Len(b) = Len(d) + Len(r)
    BY <1>2, TwoTogether
  <2>2. Len(r) \in Nat
    BY <1>2, LenProperties
  <2> QED
    BY <1>1, <2>1, <2>2
<1>7. Says(b, x)
  OBVIOUS
<1>8. c \in 32..127 /\ c \notin {QUOTE, BACKSLASH}
  OBVIOUS
<1> HIDE DEF b, c, x, y, r
<1>9. <<c>> \in Seq(Octet)
  <2>1. c \in Octet
    BY <1>8 DEF Octet
  <2> QED
    BY <2>1
<1>10. Adds(b, <<c>>, <<c>>)
  BY <1>6, <1>8, PlainAdds
<1>11. Says(b \o <<c>>, x \o <<c>>)
  BY <1>5, <1>6, <1>7, <1>9, <1>10, SaysMore
<1> QED
  BY <1>2, <1>3, <1>4, <1>11 DEF c, x

\* An encoding is taken into the run.
LEMMA RuneSays ==
  ASSUME NEW v \in Seq(Octet), NEW d \in Seq(Octet), Len(d) >= 1, NEW a \in Nat, NEW p \in Nat,
         a <= p, p < Len(v), At(v, p) >= 128, RuneSize(v, p) > 0, Splits(v, p),
         Says(d \o SubSeq(v, a + 1, p), Text(Prefix(v, p)))
  PROVE  /\ Says(d \o SubSeq(v, a + 1, p + RuneSize(v, p)), Text(Prefix(v, p + RuneSize(v, p))))
         /\ Splits(v, p + RuneSize(v, p))
<1> DEFINE n == RuneSize(v, p)
           r == SubSeq(v, a + 1, p)
           y == SubSeq(v, p + 1, p + n)
           b == d \o r
           x == Text(Prefix(v, p))
<1>1. Len(v) \in Nat /\ Len(d) \in Nat /\ p \in 0..(Len(v) - 1) /\ p \in 0..Len(v)
  <2>1. Len(v) \in Nat /\ Len(d) \in Nat
    BY LenProperties
  <2> QED
    BY <2>1
<1>2. n \in 2..4 /\ p + n <= Len(v)
  BY <1>1, RuneInside
<1>3. Text(Prefix(v, p + n)) = x \o y /\ Splits(v, p + n)
  BY <1>1, RuneRead
<1>4. RuneSize(v, p) = n /\ Says(b, x)
  OBVIOUS
<1> HIDE DEF n
<1>5. n \in Nat /\ p + n \in Nat /\ p <= p + n
  BY <1>1, <1>2
<1>6. r \in Seq(Octet) /\ y \in Seq(Octet) /\ b \o y = d \o SubSeq(v, a + 1, p + n)
  <2>0. v \in Seq(Octet) /\ d \in Seq(Octet) /\ a \in Nat /\ p \in Nat /\ a <= p
    OBVIOUS
  <2> DEFINE m == p + n
  <2>1. m \in Nat /\ p <= m /\ m <= Len(v)
    BY <1>2, <1>5
  <2> HIDE DEF m
  <2>2. Continues(v, d, a, p, m)
    BY <2>0, <2>1, CopyMore
  <2> QED
    BY <2>2 DEF m, Continues
<1>7. Len(y) = n /\ \A q \in 0..(n - 1) : At(y, q) = At(v, p + q)
  BY <1>2, <1>5, PartOctets
<1>8. x \in Seq(Octet)
  BY <1>1, PrefixText
<1>9. b \in Seq(Octet) /\ Len(b) >= 1
  <2>1. b \in Seq(Octet) /\ Len(b) = Len(d) + Len(r)
    BY <1>6, TwoTogether
  <2>2. Len(r) \in Nat
    BY <1>6, LenProperties
  <2> QED
    BY <1>1, <2>1, <2>2
<1> HIDE DEF b, x, y, r
<1>10. At(y, 0) >= 128
  <2>1. 0 \in 0..(n - 1) /\ p + 0 = p
    BY <1>2
  <2>2. At(y, 0) = At(v, p + 0)
    BY <1>7, <2>1
  <2> QED
    BY <2>1, <2>2
<1>11. RuneSize(y, 0) = n
  <2>1. RuneSize(v, p) > 0 /\ \A q \in 0..(RuneSize(v, p) - 1) : At(y, 0 + q) = At(v, p + q)
    <3>1. \A q \in 0..(n - 1) : 0 + q = q
      OBVIOUS
    <3> QED
      BY <1>4, <1>7, <3>1
  <2>2. p \in Int /\ 0 \in Int
    BY <1>1
  <2>3. RuneSize(y, 0) = RuneSize(v, p)
    BY <2>1, <2>2, SameRune
  <2> QED
    BY <1>4, <2>3
<1>12. RuneSize(y, 0) > 0 /\ RuneSize(y, 0) = Len(y)
  BY <1>2, <1>7, <1>11
<1>13. Adds(b, y, y)
  BY <1>6, <1>9, <1>10, <1>12, RuneAdds
<1>14. Says(b \o y, x \o y)
  BY <1>6, <1>8, <1>9, <1>4, <1>13, SaysMore
<1>15. Says(d \o SubSeq(v, a + 1, p + n), Text(Prefix(v, p + n)))
  BY <1>3, <1>6, <1>14
<1> QED
  BY <1>3, <1>4, <1>15

\* Nothing has been read, and nothing said.
LEMMA NothingSaid ==
  ASSUME NEW v \in Seq(Octet)
  PROVE  /\ Splits(v, 0) /\ Text(Prefix(v, 0)) = <<>>
         /\ Says(<<QUOTE>>, <<>>)
<1>1. Len(v) \in Nat
  BY LenProperties
<1>2. 0 \in 0..Len(v)
  BY <1>1
<1>3. Text(Prefix(v, 0)) = <<>>
  BY <1>2, PrefixText
<1>4. ASSUME NEW k \in 0..Len(v)
      PROVE  Text(Prefix(v, k)) = <<>> \o TextFrom(Prefix(v, k), 0)
  <2> DEFINE z == TextFrom(Prefix(v, k), 0)
  <2>1. 0 \in 0..k
    OBVIOUS
  <2>2. z \in Seq(Octet) /\ Text(Prefix(v, k)) = z
    BY <2>1, PrefixText
  <2> HIDE DEF z
  <2>3. <<>> \o z = z
    BY <2>2, ConcatEmptySeq
  <2> QED
    BY <2>2, <2>3 DEF z
<1>5. Says(<<QUOTE>>, <<>>)
  <2> DEFINE d == <<QUOTE>>
  <2>1. d \in Seq(Octet) /\ Len(d) = 1
    BY DEF Octet, QUOTE
  <2> HIDE DEF d
  <2>2. ASSUME NEW e \in Seq(Octet)
        PROVE  SaidFrom(d \o e, 1) = <<>> \o SaidFrom(d \o e, Len(d))
    <3> DEFINE b == d \o e
               z == SaidFrom(b, 1)
    <3>1. b \in Seq(Octet)
      BY <2>1, TwoTogether
    <3>2. Len(b) \in Nat
      BY <3>1, LenProperties
    <3>3. 1 \in 1..(Len(b) + 1)
      BY <3>2
    <3>4. z \in Seq(Int)
      BY <3>1, <3>3, SaidGoesOn
    <3> HIDE DEF z
    <3>5. <<>> \o z = z
      BY <3>4, ConcatEmptySeq
    <3> QED
      BY <2>1, <3>5 DEF z
  <2>3. Says(d, <<>>)
    BY <2>2 DEF Says
  <2> QED
    BY <2>3 DEF d
<1> QED
  BY <1>3, <1>4, <1>5 DEF Splits

\* A call starts with the opening quote written and nothing read.
LEMMA SaysInitially == Init => VInv
<1> SUFFICES ASSUME Init PROVE VInv
  OBVIOUS
<1>1. IInv
  BY InitEstablishes
<1>2. /\ s \in Seq(Octet) /\ start = 0 /\ i = 0 /\ dst = <<QUOTE>> /\ pc = "loop"
      /\ QUOTE \in Octet
  BY ValuesAssumption DEF Init, Octet, QUOTE
<1>3. Len(<<QUOTE>>) = 1 /\ At(<<QUOTE>>, 0) = QUOTE /\ <<QUOTE>> \in Seq(Octet)
  BY <1>2 DEF At
<1>4. Run = <<>>
  <2>1. SubSeq(s, 1, 0) = <<>>
    BY SubSeqEmpty
  <2> QED
    BY <1>2, <2>1 DEF Run
<1>5. dst \o Run = <<QUOTE>>
  BY <1>2, <1>3, <1>4, ConcatEmptySeq
<1>6. Splits(s, 0) /\ Text(Prefix(s, 0)) = <<>> /\ Says(<<QUOTE>>, <<>>)
  BY <1>2, NothingSaid
<1>7. Len(dst) >= 1 /\ At(dst, 0) = QUOTE
  <2>1. Len(dst) = 1 /\ At(dst, 0) = QUOTE
    BY <1>2, <1>3
  <2> QED
    BY <2>1
<1>8. Splits(s, i)
  BY <1>2, <1>6
<1>9. Says(dst \o Run, Text(Prefix(s, i))) /\ pc # "done"
  BY <1>2, <1>5, <1>6
<1> QED
  BY <1>1, <1>2, <1>7, <1>8, <1>9 DEF VInv

\* What is written before the run stays the beginning of the output.
LEMMA StartKept ==
  ASSUME NEW d \in Seq(Octet), NEW r \in Seq(Octet), NEW e \in Seq(Octet), Len(d) >= 1
  PROVE  /\ d \o r \in Seq(Octet) /\ Len(d \o r) >= 1 /\ At(d \o r, 0) = At(d, 0)
         /\ d \o r \o e \in Seq(Octet) /\ Len(d \o r \o e) >= 1 /\ At(d \o r \o e, 0) = At(d, 0)
<1>1. ASSUME NEW c \in Seq(Octet), NEW f \in Seq(Octet), Len(c) >= 1
      PROVE  c \o f \in Seq(Octet) /\ Len(c \o f) >= 1 /\ At(c \o f, 0) = At(c, 0)
  <2> DEFINE b == c \o f
  <2>1. /\ b \in Seq(Octet) /\ Len(b) = Len(c) + Len(f)
        /\ \A k \in 1..(Len(c) + Len(f)) : b[k] = IF k <= Len(c) THEN c[k] ELSE f[k - Len(c)]
    BY TwoTogether
  <2>2. Len(c) \in Nat /\ Len(f) \in Nat
    BY LenProperties
  <2> HIDE DEF b
  <2>3. 1 \in 1..(Len(c) + Len(f)) /\ 0 \in 0..(Len(c) - 1) /\ 0 \in 0..(Len(b) - 1) /\ Len(b) >= 1
    BY <1>1, <2>1, <2>2
  <2>4. b[1] = c[1]
    BY <1>1, <2>1, <2>3
  <2> QED
    BY <2>1, <2>3, <2>4 DEF At, b
<1>2. d \o r \in Seq(Octet) /\ Len(d \o r) >= 1 /\ At(d \o r, 0) = At(d, 0)
  BY <1>1
<1> QED
  BY <1>1, <1>2

\* The octets of the run.
LEMMA RunOctets ==
  ASSUME s \in Seq(Octet), i \in 0..Len(s), start \in 0..i
  PROVE  Run \in Seq(Octet)
<1>1. Len(s) \in Nat
  BY LenProperties
<1>2. \A k \in 1..Len(s) : s[k] \in Octet
  BY ElementOfSeq
<1>3. start + 1 \in Int /\ i \in Int /\ \A k \in (start + 1)..i : s[k] \in Octet
  BY <1>1, <1>2
<1>4. SubSeq(s, start + 1, i) \in Seq(Octet)
  BY <1>3, SubSeqProperties
<1> QED
  BY <1>4 DEF Run

\* The turns of the loop that flush the run.
LEMMA FlushSays ==
  ASSUME VInv, pc = "loop", i < Len(s), NEW esc \in Seq(Octet), NEW y \in Seq(Octet),
         \A d \in Seq(Octet) : Len(d) >= 1 => Adds(d, esc, y),
         Text(Prefix(s, i + 1)) = Text(Prefix(s, i)) \o y, Splits(s, i + 1),
         Flush(esc), UNCHANGED <<s, pc>>, IInv'
  PROVE  VInv'
<1> DEFINE d == dst \o Run
           x == Text(Prefix(s, i))
<1>1. /\ s \in Seq(Octet) /\ i \in 0..Len(s) /\ start \in 0..i /\ dst \in Seq(Octet)
      /\ Len(dst) >= 1 /\ At(dst, 0) = QUOTE /\ Says(d, x)
  BY DEF VInv, IInv, TypeOK
<1>2. Len(s) \in Nat
  BY <1>1, LenProperties
<1>3. Run \in Seq(Octet)
  BY <1>1, RunOctets
<1>4. /\ d \in Seq(Octet) /\ Len(d) >= 1
      /\ d \o esc \in Seq(Octet) /\ Len(d \o esc) >= 1 /\ At(d \o esc, 0) = QUOTE
  BY <1>1, <1>3, StartKept
<1>5. x \in Seq(Octet)
  BY <1>1, PrefixText
<1> HIDE DEF d, x
<1>6. Says(d \o esc, x \o y)
  <2>1. Adds(d, esc, y)
    BY <1>4
  <2> QED
    BY <1>1, <1>4, <1>5, <2>1, SaysMore
<1>7. dst' = d \o esc /\ s' = s /\ i' = i + 1 /\ start' = i + 1 /\ pc' = "loop"
  BY DEF Flush, d
<1>8. Run' = <<>>
  <2>1. (i + 1) + 1 \in Int /\ i + 1 \in Int /\ i + 1 < (i + 1) + 1
    BY <1>1, <1>2
  <2>2. SubSeq(s, (i + 1) + 1, i + 1) = <<>>
    BY <2>1, SubSeqEmpty
  <2> QED
    BY <1>7, <2>2 DEF Run
<1>9. dst' \o Run' = d \o esc
  BY <1>4, <1>7, <1>8, ConcatEmptySeq
<1>10. Text(Prefix(s', i')) = x \o y /\ Splits(s', i')
  BY <1>7 DEF x
<1>11. Says(dst' \o Run', Text(Prefix(s', i')))
  BY <1>6, <1>9, <1>10
<1> QED
  BY <1>4, <1>7, <1>10, <1>11 DEF VInv

\* Every step says what it reads.
LEMMA SaysKept == VInv /\ [Next]_vars => VInv'
<1> SUFFICES ASSUME VInv, [Next]_vars PROVE VInv'
  OBVIOUS
<1>1. IInv /\ IInv'
  BY StepKeeps DEF VInv
<1>2. /\ s \in Seq(Octet) /\ i \in 0..Len(s) /\ start \in 0..i /\ dst \in Seq(Octet)
      /\ Len(dst) >= 1 /\ At(dst, 0) = QUOTE /\ Splits(s, i)
  BY DEF VInv, IInv, TypeOK
<1>3. Len(s) \in Nat /\ i \in Nat /\ start \in Nat /\ start <= i
  <2>1. Len(s) \in Nat
    BY <1>2, LenProperties
  <2> QED
    BY <1>2, <2>1
<1>4. AtOctet => /\ pc = "loop" /\ i \in 0..(Len(s) - 1) /\ i < Len(s) /\ At(s, i) \in Octet
                 /\ Says(dst \o SubSeq(s, start + 1, i), Text(Prefix(s, i)))
  <2>1. ASSUME AtOctet
        PROVE  i \in 0..(Len(s) - 1) /\ pc = "loop" /\ i < Len(s)
    BY <1>3, <2>1 DEF AtOctet
  <2>2. ASSUME AtOctet
        PROVE  At(s, i) \in Octet
    BY <1>2, <2>1, <2>2, OctetAt
  <2> QED
    BY <2>1, <2>2 DEF VInv, Run
<1>5. CASE Plain
  <2>1. /\ AtOctet /\ i' = i + 1 /\ s' = s /\ start' = start /\ dst' = dst /\ pc' = pc
        /\ At(s, i) < 128 /\ IsPlain(At(s, i))
    BY <1>5 DEF Plain
  <2>2. At(s, i) \in 32..127 /\ At(s, i) \notin {QUOTE, BACKSLASH}
    <3>1. \A c \in Octet : c < 128 /\ c >= 32 => c \in 32..127
      BY DEF Octet
    <3> QED
      BY <1>4, <2>1, <3>1 DEF IsPlain
  <2>3. /\ Says(dst \o SubSeq(s, start + 1, i + 1), Text(Prefix(s, i + 1)))
        /\ Splits(s, i + 1)
    BY <1>2, <1>3, <1>4, <2>1, <2>2, PlainSays
  <2>4. Says(dst' \o Run', Text(Prefix(s', i'))) /\ Splits(s', i')
    BY <2>1, <2>3 DEF Run
  <2> QED
    BY <1>1, <1>2, <1>4, <2>1, <2>4 DEF VInv
<1>6. CASE Rune
  <2>1. /\ AtOctet /\ i' = i + RuneSize(s, i) /\ s' = s /\ start' = start /\ dst' = dst /\ pc' = pc
        /\ At(s, i) >= 128 /\ RuneSize(s, i) > 0
    BY <1>6 DEF Rune
  <2>2. /\ Says(dst \o SubSeq(s, start + 1, i + RuneSize(s, i)), Text(Prefix(s, i + RuneSize(s, i))))
        /\ Splits(s, i + RuneSize(s, i))
    BY <1>2, <1>3, <1>4, <2>1, RuneSays
  <2>3. Says(dst' \o Run', Text(Prefix(s', i'))) /\ Splits(s', i')
    BY <2>1, <2>2 DEF Run
  <2> QED
    BY <1>1, <1>2, <1>4, <2>1, <2>3 DEF VInv
<1>7. CASE Escape
  <2> DEFINE c == At(s, i)
  <2>1. /\ AtOctet /\ c < 128 /\ ~ IsPlain(c) /\ Flush(EscByte(c)) /\ UNCHANGED <<s, pc>>
    BY <1>7 DEF Escape
  <2>2. c \in 0..127
    <3>1. \A z \in Octet : z < 128 => z \in 0..127
      BY DEF Octet
    <3> QED
      BY <1>4, <2>1, <3>1
  <2>3. Text(Prefix(s, i + 1)) = Text(Prefix(s, i)) \o <<c>> /\ Splits(s, i + 1)
    BY <1>2, <1>4, <2>1, AsciiRead
  <2>4. <<QUOTE>> \in Seq(Octet) /\ Len(<<QUOTE>>) >= 1
    BY DEF Octet, QUOTE
  <2>5. EscByte(c) \in Seq(Octet) /\ <<c>> \in Seq(Octet)
    BY <2>1, <2>2, <2>4, EscapeAdds
  <2>6. \A d \in Seq(Octet) : Len(d) >= 1 => Adds(d, EscByte(c), <<c>>)
    BY <2>1, <2>2, EscapeAdds
  <2> HIDE DEF c
  <2> QED
    BY <1>1, <1>4, <2>1, <2>3, <2>5, <2>6, FlushSays
<1>8. CASE Invalid
  <2>1. /\ AtOctet /\ At(s, i) >= 128 /\ RuneSize(s, i) = 0
        /\ Flush(EscReplacement) /\ UNCHANGED <<s, pc>>
    BY <1>8 DEF Invalid
  <2>2. Text(Prefix(s, i + 1)) = Text(Prefix(s, i)) \o Replacement /\ Splits(s, i + 1)
    BY <1>2, <1>4, <2>1, InvalidRead
  <2>3. <<QUOTE>> \in Seq(Octet) /\ Len(<<QUOTE>>) >= 1
    BY DEF Octet, QUOTE
  <2>4. EscReplacement \in Seq(Octet) /\ Replacement \in Seq(Octet)
    BY <2>3, ReplacementAdds
  <2>5. \A d \in Seq(Octet) : Len(d) >= 1 => Adds(d, EscReplacement, Replacement)
    BY ReplacementAdds
  <2> QED
    BY <1>1, <1>4, <2>1, <2>2, <2>4, <2>5, FlushSays
<1>9. CASE Finish
  <2>1. /\ pc = "loop" /\ pc' = "done" /\ dst' = dst \o Run \o <<QUOTE>>
        /\ s' = s /\ i' = i /\ start' = start
    BY <1>9 DEF Finish
  <2>2. <<QUOTE>> \in Seq(Octet)
    BY DEF Octet, QUOTE
  <2>3. Run \in Seq(Octet)
    BY <1>2, <1>3, RunOctets
  <2>4. /\ dst \o Run \in Seq(Octet) /\ Len(dst \o Run) >= 1 /\ At(dst \o Run, 0) = QUOTE
        /\ Len(dst \o Run \o <<QUOTE>>) >= 1 /\ At(dst \o Run \o <<QUOTE>>, 0) = QUOTE
    BY <1>2, <2>2, <2>3, StartKept
  <2>5. Text(Prefix(s, i)) \in Seq(Octet)
    BY <1>2, PrefixText
  <2>6. Says(dst \o Run, Text(Prefix(s, i)))
    BY <2>1 DEF VInv
  <2>7. Value(dst \o Run \o <<QUOTE>>) = Text(Prefix(s, i))
    BY <2>4, <2>5, <2>6, Closed
  <2> QED
    BY <1>1, <1>2, <2>1, <2>4, <2>7 DEF VInv
<1>10. CASE UNCHANGED vars
  BY <1>1, <1>10 DEF VInv, vars, Run
<1> QED
  BY <1>5, <1>6, <1>7, <1>8, <1>9, <1>10 DEF Next

\* SaysTheValue: for every value, at every turn of the loop and at its end, the
\* output with the run that is not copied yet is the JSON string of the octets
\* that have been passed, with U+FFFD for those that are not UTF-8.
THEOREM OutputSaysTheValue == Safety => []SaysTheValue
<1>1. ASSUME VInv
      PROVE  SaysTheValue
  <2>1. /\ s \in Seq(Octet) /\ i \in 0..Len(s) /\ start \in 0..i /\ dst \in Seq(Octet)
        /\ Len(dst) >= 1 /\ At(dst, 0) = QUOTE /\ pc \in {"loop", "done"}
    BY <1>1 DEF VInv, IInv, TypeOK
  <2>2. <<QUOTE>> \in Seq(Octet)
    BY DEF Octet, QUOTE
  <2>3. Run \in Seq(Octet)
    BY <2>1, RunOctets
  <2>4. dst \o Run \in Seq(Octet) /\ Len(dst \o Run) >= 1 /\ At(dst \o Run, 0) = QUOTE
    BY <2>1, <2>2, <2>3, StartKept
  <2>5. Text(Prefix(s, i)) \in Seq(Octet)
    BY <2>1, PrefixText
  <2>6. CASE pc = "loop"
    <3>1. Says(dst \o Run, Text(Prefix(s, i)))
      BY <1>1, <2>6 DEF VInv
    <3>2. Value(dst \o Run \o <<QUOTE>>) = Text(Prefix(s, i))
      BY <2>4, <2>5, <3>1, Closed
    <3> QED
      BY <2>6, <3>2 DEF SaysTheValue, Prefix
  <2>7. CASE pc = "done"
    BY <1>1, <2>7 DEF VInv, SaysTheValue, Prefix
  <2> QED
    BY <2>1, <2>6, <2>7
<1> QED
  BY <1>1, SaysInitially, SaysKept, PTL DEF Safety

=============================================================================
