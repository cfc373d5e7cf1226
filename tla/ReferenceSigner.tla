--------------------------- MODULE ReferenceSigner ---------------------------
(***************************************************************************)
(* The reference implementation of src/conformance/reference-signer.js,    *)
(* which the repository checks its codec against: data items of signature  *)
(* type 1, written and read by a program that shares nothing with          *)
(* src/core/ans104.js.  Bytes are laid out here at the offsets that        *)
(* program computes, and read by recursion along the buffer, as its loops  *)
(* do.                                                                     *)
(***************************************************************************)
EXTENDS DataItem

SIG_TYPE_ARWEAVE == 1

\* longToNByteArray(): the lowest byte is taken off the value n times.
RefLongToNByteArray(n, value) ==
    LET rest[i \in 1..n] == IF i = 1 THEN value ELSE (rest[i - 1] - (rest[i - 1] % 256)) \div 256
    IN  [i \in 1..n |-> rest[i] % 256]

\* byteArrayToLong(): from the highest byte down.
RefByteArrayToLong(bytes) ==
    LET value[i \in 0..Len(bytes)] ==
            IF i = 0 THEN 0 ELSE value[i - 1] * 256 + bytes[Len(bytes) + 1 - i]
    IN  value[Len(bytes)]

\* deepHash(): the digests of a list's children are folded into its tag's.
RefDeepHashBlob(bytes) ==
    <<"sha384", <<<<"sha384", <<"blob", Len(bytes)>>>>, <<"sha384", bytes>>>>>>
RefDeepHash(chunks) ==
    LET acc[i \in 0..Len(chunks)] ==
            IF i = 0 THEN <<"sha384", <<"list", Len(chunks)>>>>
            ELSE <<"sha384", <<acc[i - 1], RefDeepHashBlob(chunks[i])>>>>
    IN  acc[Len(chunks)]

---------------------------------------------------------------------------
(* Tags *)

\* writeVarLong(): the last byte is the one that leaves nothing.
RefWriteVarLong(n) ==
    LET from[m \in Nat] ==
            IF m \div 128 = 0 THEN <<m % 128>> ELSE <<128 + (m % 128)>> \o from[m \div 128]
    IN  from[IF n >= 0 THEN n * 2 ELSE 0 - n * 2 - 1]

\* readVarLong(): a number and where it ends; none if it runs off the end.
NoNumber == [n |-> 0, next |-> 0]
RefReadVarLong(buf, at) ==
    LET read[s \in [at : 1..(Len(buf) + 1), n : Nat, weight : Nat]] ==
            IF s.at > Len(buf) THEN NoNumber
            ELSE LET n == s.n + (buf[s.at] % 128) * s.weight
                 IN  IF buf[s.at] < 128 THEN [n |-> n, next |-> s.at + 1]
                     ELSE read[[at |-> s.at + 1, n |-> n, weight |-> s.weight * 128]]
        number == read[[at |-> at, n |-> 0, weight |-> 1]]
    IN  [number EXCEPT !.n = IF @ % 2 = 1 THEN 0 - (@ + 1) \div 2 ELSE @ \div 2]

\* encodeStringBytes() in mode "arbundles": a loop of its own for a short string,
\* Buffer's UTF-8 for a long one.
RefHandRolled(s) ==
    LET low(n) == 128 + (n % 64)
        pair(i) == 65536 + (s[i] % 1024) * 1024 + (s[i + 1] % 1024)
        from[i \in 1..(Len(s) + 2)] ==
            IF i > Len(s) THEN <<>>
            ELSE IF s[i] < 128 THEN <<s[i]>> \o from[i + 1]
            ELSE IF s[i] < 2048 THEN <<192 + s[i] \div 64, low(s[i])>> \o from[i + 1]
            ELSE IF IsPair(s, i)
                 THEN <<240 + pair(i) \div 262144, low(pair(i) \div 4096), low(pair(i) \div 64),
                        low(pair(i))>> \o from[i + 2]
            ELSE <<224 + s[i] \div 4096, low(s[i] \div 64), low(s[i])>> \o from[i + 1]
    IN  from[1]
RefEncodeStringBytes(s) ==
    IF Len(Utf8Encode(s)) > ShortString THEN Utf8Encode(s) ELSE RefHandRolled(s)

\* serializeTags(): byte after byte is pushed.
RefSerializeTags(list) ==
    LET pushed(out, s) == out \o RefWriteVarLong(Len(Utf8Encode(s))) \o RefEncodeStringBytes(s)
        out[i \in 0..Len(list)] ==
            IF i = 0 THEN RefWriteVarLong(Len(list))
            ELSE pushed(pushed(out[i - 1], list[i].name), list[i].value)
    IN  IF list = <<>> THEN <<>> ELSE out[Len(list)] \o RefWriteVarLong(0)

\* deserializeTags() throws, reads tags, or meets a string of negative length,
\* which its test of the end lets pass: the cursor goes back.
Throws == [end |-> "throws", tags |-> <<>>]
GoesBack == [end |-> "goes back", tags |-> <<>>]

RefReadString(buf, at) ==
    LET len == RefReadVarLong(buf, at)
    IN  IF len.next = 0 THEN [end |-> "throws"]
        ELSE IF len.n < 0 THEN [end |-> "goes back"]
        ELSE IF len.next + len.n - 1 > Len(buf) THEN [end |-> "throws"]
        ELSE [end |-> "read", next |-> len.next + len.n,
              text |-> DecodedPoints(SubSeq(buf, len.next, len.next + len.n - 1))]

RefDeserializeTags(buf) ==
    LET read[s \in [at : 1..(Len(buf) + 1), left : Nat, tags : Seq(Seq(Seq(Nat)))]] ==
            IF s.left = 0
            THEN LET count == RefReadVarLong(buf, s.at)
                     size == RefReadVarLong(buf, count.next)
                     block(at, many) == read[[at |-> at, left |-> many, tags |-> s.tags]]
                 IN  IF count.next = 0 THEN Throws
                     ELSE IF count.n = 0 THEN [end |-> "read", tags |-> s.tags]
                     ELSE IF count.n > 0 THEN block(count.next, count.n)
                     ELSE IF size.next = 0 THEN Throws
                     ELSE block(size.next, 0 - count.n)
            ELSE LET name == RefReadString(buf, s.at)
                     value == RefReadString(buf, name.next)
                 IN  IF name.end # "read" THEN [end |-> name.end, tags |-> <<>>]
                     ELSE IF value.end # "read" THEN [end |-> value.end, tags |-> <<>>]
                     ELSE read[[at |-> value.next, left |-> s.left - 1,
                                tags |-> Append(s.tags, <<name.text, value.text>>)]]
    IN  read[[at |-> 1, left |-> 0, tags |-> <<>>]]

---------------------------------------------------------------------------
(* Items *)

\* set(): the bytes from an offset on, counted from 0.
SetAt(buf, at, bytes) ==
    [i \in DOMAIN buf |-> IF i - at \in DOMAIN bytes THEN bytes[i - at] ELSE buf[i]]

\* createDataItem(): a buffer of zeros, and each field set at its offset.
RefCreateDataItem(o) ==
    LET cfg == SigConfig[SIG_TYPE_ARWEAVE]
        target == TargetBytes(o)
        anchor == CASE o.anchor.form = "absent" -> <<>>
                    [] o.anchor.form = "bytes" -> o.anchor.value
                    [] o.anchor.form = "text" -> Utf8Encode(o.anchor.value)
        tagBytes == RefSerializeTags(o.tags)
        targetStart == 2 + cfg.sigLength + cfg.ownerLength
        anchorStart == targetStart + 1 + Len(target)
        tagsStart == anchorStart + 1 + Len(anchor)
        dataStart == tagsStart + 2 * LongLength + Len(tagBytes)
        fields == <<[at |-> 0, bytes |-> RefLongToNByteArray(2, SIG_TYPE_ARWEAVE)],
                    [at |-> 2 + cfg.sigLength, bytes |-> o.owner],
                    [at |-> targetStart, bytes |-> <<IF target = <<>> THEN 0 ELSE 1>> \o target],
                    [at |-> anchorStart, bytes |-> <<IF anchor = <<>> THEN 0 ELSE 1>> \o anchor],
                    [at |-> tagsStart, bytes |-> RefLongToNByteArray(LongLength, Len(o.tags))],
                    [at |-> tagsStart + LongLength, bytes |-> RefLongToNByteArray(LongLength, Len(tagBytes))],
                    [at |-> tagsStart + 2 * LongLength, bytes |-> tagBytes],
                    [at |-> dataStart, bytes |-> o.data]>>
        buf[k \in 0..Len(fields)] ==
            IF k = 0 THEN [i \in 1..(dataStart + Len(o.data)) |-> 0]
            ELSE SetAt(buf[k - 1], fields[k].at, fields[k].bytes)
    IN  buf[Len(fields)]

\* parseDataItem(): the offset of each field, counted from 0.
RefOffsets(buf) ==
    LET cfg == SigConfig[SIG_TYPE_ARWEAVE]
        set(at) == at < Len(buf) /\ buf[at + 1] = 1
        target == 2 + cfg.sigLength + cfg.ownerLength
        anchor == target + (IF set(target) THEN FieldLength + 1 ELSE 1)
        tagsStart == anchor + (IF set(anchor) THEN FieldLength + 1 ELSE 1)
    IN  [owner |-> 2 + cfg.sigLength, target |-> target, anchor |-> anchor, tags |-> tagsStart]

RefParseable(buf) ==
    Len(buf) >= MinBinarySize /\ RefByteArrayToLong(Slice(buf, 1, 2)) = SIG_TYPE_ARWEAVE

\* subarray(from, to), offsets from 0.
Part(buf, from, to) == Slice(buf, from + 1, to)

RefTagCount(buf) ==
    LET at == RefOffsets(buf).tags IN RefByteArrayToLong(Part(buf, at, at + LongLength))
RefTagBytesLen(buf) ==
    LET at == RefOffsets(buf).tags + LongLength
    IN  RefByteArrayToLong(Part(buf, at, at + LongLength))
RefRawTags(buf) ==
    LET at == RefOffsets(buf).tags + 2 * LongLength
    IN  Part(buf, at, at + RefTagBytesLen(buf))

\* getSignatureData(): an absent target or anchor takes part as an empty blob.
RefSignatureData(buf) ==
    LET at == RefOffsets(buf)
        rest == at.tags + 2 * LongLength + RefTagBytesLen(buf)
    IN  RefDeepHash(<<Utf8Encode(<<100, 97, 116, 97, 105, 116, 101, 109>>), <<49>>, <<49>>,
                      Part(buf, at.owner, at.target),
                      Part(buf, at.target + 1, at.anchor),
                      Part(buf, at.anchor + 1, at.tags),
                      RefRawTags(buf),
                      Part(buf, rest, Len(buf))>>)

\* verifyDataItem() up to the signature: "accepted", "refused", or lost in a
\* region that goes back.
RefVerdict(buf) ==
    LET read == RefDeserializeTags(RefRawTags(buf))
    IN  CASE ~RefParseable(buf) -> "refused"
          [] RefParseable(buf) /\ RefTagBytesLen(buf) > MaxTagBytes -> "refused"
          [] OTHER ->
               IF RefTagCount(buf) = 0 THEN "accepted"
               ELSE IF read.end = "goes back" THEN "lost"
               ELSE IF read.end = "read" /\ Len(read.tags) = RefTagCount(buf) THEN "accepted"
               ELSE "refused"

---------------------------------------------------------------------------
(* Properties *)

\* "Two implementations disagree about what the item SAYS while both agree the
\* signature is valid": of type 1, the package and its reference write the same
\* item from the same options, sign the same message for every binary, and
\* accept the same ones, with the same tags; where the reference would be lost,
\* the package refuses.
AgreesWithReference ==
    opts.type = SIG_TYPE_ARWEAVE =>
        /\ origin = "created" /\ pc = "header" => item = RefCreateDataItem(opts)
        /\ RefParseable(item) /\ pc = "header" =>
               SignatureData(ParseDataItem(item)) = RefSignatureData(item)
        /\ pc = "done" =>
               /\ RefVerdict(item) \in IF verdict = "accepted" THEN {"accepted"} ELSE {"refused", "lost"}
               /\ verdict = "accepted" /\ it.tagCount > 0 =>
                      \A i \in DOMAIN tags :
                          LET read == RefDeserializeTags(RefRawTags(item)).tags[i]
                              said(points) ==
                                  IF points # <<>> /\ points[1] = Mark THEN Tail(points) ELSE points
                              units(points) == FlattenSeq([k \in DOMAIN points |-> UnitsOf(points[k])])
                          IN  tags[i] = [name |-> units(said(read[1])), value |-> units(said(read[2]))]
=============================================================================
