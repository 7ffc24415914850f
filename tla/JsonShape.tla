------------------------------ MODULE JsonShape ------------------------------
(***************************************************************************)
(* kafkashape/shape.go: the payload Encode writes for a request and its    *)
(* response, as a sequence of JSON tokens, and how a consumer reads such a *)
(* sequence.                                                               *)
(*                                                                         *)
(* A string token is the value its characters say, which JsonEscape        *)
(* relates to the octets written; the fields that are not parsed stand for *)
(* themselves by name.                                                     *)
(***************************************************************************)
EXTENDS JsonString, SequencesExt

\* What a string token holds: the text of octets, a number in decimal, a number
\* with a reason after it, or the metadata field of that name.  The punctuation is
\* the brace that opens an object, "lbrace", the one that closes it, "rbrace",
\* "comma" and "colon".
Str(text)          == [string |-> [text |-> text]]
Num(n)             == [string |-> [number |-> n]]
Status(n, text)    == [string |-> [number |-> n, text |-> text]]
MetaField(name)    == [string |-> [meta |-> name]]
Key(name)          == [key |-> name]
Punct(c)           == [punct |-> c]

\* The metadata of every payload, in the order of Encode; a tag may follow.
MetaKeys ==
  <<"ip", "destIp", "time", "akto_account_id", "akto_vxlan_id", "is_pending",
    "source", "direction", "process_id", "socket_id", "daemonset_id",
    "process_name", "enable_graph">>

----------------------------------------------------------------------------
(***************************************************************************)
(* The encoder.  The messages are records of slices of their buffers.      *)
(***************************************************************************)

\* appendJSONString of a slice of b.
String(b, slice) == Str(Text(SubSeq(b, slice.lo + 1, slice.hi)))

appendKey(dst, key) == dst \o <<Punct("comma"), Key(key), Punct("colon")>>

kv(dst, key, token) == Append(appendKey(dst, key), token)

\* The reason follows the code, if there is one.
appendStatus(dst, b, resp) ==
  Append(dst, IF Width(resp.reason) > 0
              THEN Status(resp.code, String(b, resp.reason).string.text)
              ELSE Num(resp.code))

appendHeaders(dst, b, hs) ==
  Append(Append(dst, Punct("lbrace")) \o
         FlattenSeq([j \in 1..Len(hs) |->
           (IF j > 1 THEN <<Punct("comma")>> ELSE <<>>) \o
           <<String(b, hs[j].name), Punct("colon"), String(b, hs[j].value)>>]),
         Punct("rbrace"))

\* Encode, on the reused buffer cut back to length zero.
Encode(buf, rq, req, rs, resp, tagged) ==
  LET b1 == buf \o <<Punct("lbrace"), Key("method"), Punct("colon"), String(rq, req.method)>>
      b2 == kv(kv(b1, "path", String(rq, req.path)), "type", String(rq, req.version))
      b3 == appendStatus(appendKey(kv(b2, "statusCode", Num(resp.code)), "status"), rs, resp)
      b4 == appendHeaders(appendKey(b3, "requestHeaders"), rq, req.headers)
      b5 == appendHeaders(appendKey(b4, "responseHeaders"), rs, resp.headers)
      b6 == kv(b5, "requestPayload", String(rq, req.body))
      b7 == kv(b6, "responsePayload", String(rs, resp.body))
      b8 == b7 \o FlattenSeq([j \in 1..Len(MetaKeys) |->
                              kv(<<>>, MetaKeys[j], MetaField(MetaKeys[j]))])
      b9 == IF tagged THEN kv(b8, "tag", MetaField("tag")) ELSE b8
  IN  Append(b9, Punct("rbrace"))

----------------------------------------------------------------------------
(***************************************************************************)
(* A reader of payloads: objects whose members are strings or objects of   *)
(* strings.  Nothing is said of how the tokens were written.               *)
(***************************************************************************)

TokenAt(t, p) == IF p \in 1..Len(t) THEN t[p] ELSE Punct("end")

IsName(x) == "key" \in DOMAIN x \/ "string" \in DOMAIN x

IsString(x) == "string" \in DOMAIN x

\* Not the members of an object, and nowhere to go on.
NoObject == [ok |-> FALSE, members |-> <<>>, next |-> 0]

\* The members read at a comma or a closing brace at p, after member m.
Following(t, p, m, rest) ==
  CASE TokenAt(t, p) = Punct("rbrace") -> [ok |-> TRUE, members |-> <<m>>, next |-> p + 1]
    [] TokenAt(t, p) = Punct("comma") -> [rest EXCEPT !.members = <<m>> \o @]
    [] OTHER                      -> NoObject

\* The object of strings whose brace opens at start.
Strings(t, start) ==
  LET S[p \in 1..(Len(t) + 5)] ==
        IF p > Len(t) \/ ~IsName(TokenAt(t, p)) \/ TokenAt(t, p + 1) # Punct("colon")
             \/ ~IsString(TokenAt(t, p + 2))
        THEN NoObject
        ELSE Following(t, p + 3, <<t[p], t[p + 2]>>, S[p + 4])
  IN  CASE TokenAt(t, start) # Punct("lbrace") -> NoObject
        [] TokenAt(t, start + 1) = Punct("rbrace") /\ TokenAt(t, start) = Punct("lbrace") ->
             [ok |-> TRUE, members |-> <<>>, next |-> start + 2]
        [] OTHER -> S[start + 1]

\* The payload t: the members of the object that is all of t.
Payload(t) ==
  LET S[p \in 1..(Len(t) + 5)] ==
        IF p > Len(t) \/ ~IsName(TokenAt(t, p)) \/ TokenAt(t, p + 1) # Punct("colon")
        THEN NoObject
        ELSE IF IsString(TokenAt(t, p + 2))
        THEN Following(t, p + 3, <<t[p], t[p + 2]>>, S[p + 4])
        ELSE LET inner == Strings(t, p + 2)
             IN  IF inner.ok
                 THEN Following(t, inner.next, <<t[p], inner.members>>, S[inner.next + 1])
                 ELSE NoObject
      all == S[2]
  IN  IF TokenAt(t, 1) = Punct("lbrace") /\ all.ok /\ all.next = Len(t) + 1
      THEN all.members
      ELSE <<>>

\* The payload has each of these members once, and no other.
HasMembers(t, members) ==
  LET read == Payload(t)
  IN  /\ Len(read) = Cardinality(members)
      /\ {read[j] : j \in 1..Len(read)} = members
=============================================================================
