---------------------------- MODULE MCJsonEscape ----------------------------
(***************************************************************************)
(* Instances of JsonEscape for TLC.                                        *)
(***************************************************************************)
EXTENDS JsonEscape

\* An octet of every kind the code and UTF-8 tell apart: controls with and without
\* a short escape, the first and the last of them, quote, reverse solidus, a
\* letter, DEL, continuation octets at the ends of the ranges of second octets, and
\* first octets of every length, valid, overlong, surrogate and out of range.
Kinds == {0, LF, 31, QUOTE, BACKSLASH, 97, 127, 128, 143, 160, 191,
          193, 195, 224, 237, 240, 244, 245}

Short == UNION {[1..n -> Kinds] : n \in 0..3}

\* Encodings of four octets and their damaged forms, between octets to escape.
Long ==
  {<<x, c, d, e, f, y>> : x \in {97, QUOTE}, y \in {97, LF},
     c \in {239, 240, 244}, d \in {143, 144, 191}, e \in {128, 97}, f \in {189, 191, 240}}

AllValues == Short \cup Long
=============================================================================
