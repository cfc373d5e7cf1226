----------------------------- MODULE MCDataItem -----------------------------
(* DataItem with short fields: strings at each width of UTF-8 and on both  *)
(* sides of the lengths where encodings and caps change, and every tag     *)
(* region of up to four bytes that matter.                                 *)
EXTENDS ReferenceSigner

MCSigConfig == [t \in {1, 3} |->
    IF t = 1 THEN [sigLength |-> 2, ownerLength |-> 2] ELSE [sigLength |-> 1, ownerLength |-> 1]]

Run(n) == [i \in 1..n |-> 97]

\* Empty; one to four bytes a character; a mark; halves of pairs.
Strings ==
    {<<>>, <<127>>, <<128, 2047>>, <<2048>>, <<55357, 56832>>, <<Mark, 97>>, <<97, Mark>>,
     <<55357>>, <<56832, 55357>>}

\* 6 and 7 bytes with half of a pair, the first length of two bytes, and the
\* longest that fits the cap, or not.
LongStrings == {Append(Run(3), 55357), Append(Run(4), 55357), Run(64), Run(66), Run(67)}

Pair == [name |-> <<97>>, value |-> <<>>]
TagLists ==
    {<<[name |-> n, value |-> v], Pair>> : n \in Strings, v \in Strings}
      \cup {<<[name |-> <<97>>, value |-> v]>> : v \in Strings \cup LongStrings}
      \cup {<<>>}

MCPlain == [build |-> "web", type |-> 1, owner |-> <<1, 0>>, target |-> Absent, anchor |-> Absent,
            tags |-> <<>>, data |-> <<>>]

\* Two bytes are three digits, or two bytes of text; 67 is a foreign character.
Fields ==
    [build : {"node", "web"}, type : {1, 3}, owner : {<<1>>, <<1, 0>>},
     target : {Absent, Given(<<1, 255>>), Given(<<1>>), Text(<<0, Plus, 60, Pad>>), Text(<<0, 67, 31, 60>>),
               Text(<<0, 0>>)},
     anchor : {Absent, Given(<<0, 1>>), Text(<<97, 98>>), Text(<<233>>), Text(<<97, 98, 99>>)},
     tags : {<<>>, <<Pair>>}, data : {<<>>, <<1, 1>>}]

MCOptions == Fields \cup {[MCPlain EXCEPT !.tags = list, !.data = <<1>>] : list \in TagLists} \cup {MCPlain}

MCRegions == SeqOf({0, 1, 2, 3, 4, 128, 129, 255}, 4)

---------------------------------------------------------------------------
(* The conversions of Bytes, over all short inputs of these units and bytes *)

Units == {65, 127, 128, 2047, 2048, 55296, 56319, 56320, 57343, 57344, 65279, 65533, 65535}
Octets == {0, 65, 127, 128, 143, 144, 159, 160, 191, 193, 194, 224, 237, 239, 240, 244, 245, 255}

\* utf8ByteLength() is the length of what either encoder writes: the buffer that
\* utf8Encode() sizes with it is filled, and the length that is declared before
\* a tag string is right.
ASSUME LengthsAgree ==
    \A s \in SeqOf(Units, 4) :
        Len(Utf8Encode(s)) = Utf8ByteLength(s) /\ Len(WtfEncode(s)) = Utf8ByteLength(s)

\* utf8Decode() inverts utf8Encode(), and a decoded text without U+FFFD is
\* encoded to the bytes it came from.
ASSUME Utf8RoundTrips ==
    /\ \A s \in SeqOf(Units, 3) :
           DecodedPoints(Utf8Encode(s)) = Replaced(CodePoints(s))
    /\ \A b \in SeqOf(Octets, 3) :
           LET points == DecodedPoints(b)
           IN  (\A i \in DOMAIN points : points[i] # Replacement) => Encoded(points) = b

\* Hex, base64url and base58 read back what they write, leading zeros included.
ASSUME TextRoundTrips ==
    /\ \A b \in SeqOf({0, 1, 2, 58, 255}, 3) :
           /\ FromHex(ToHex(b)) = b
           /\ FromBase64Url(ToBase64Url(b)) = b
           /\ DecodeBase58(EncodeBase58(b)) = b
    /\ \A t \in SeqOf({0, 1, 57}, 4) : EncodeBase58(DecodeBase58(t)) = t
=============================================================================
