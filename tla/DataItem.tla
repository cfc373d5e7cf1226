------------------------------ MODULE DataItem ------------------------------
(***************************************************************************)
(* The ANS-104 data item of src/core/ans104.js: how one is laid out, and   *)
(* how one is parsed and checked before its signature is.  Layout is pure; *)
(* the check is a state machine with a step per turn of the loops that     *)
(* read the tags.                                                          *)
(*                                                                         *)
(* Bytes are bytes and a string is its UTF-16 code units, as in Bytes; the *)
(* widths of the fields are constants, and small ones reach the same       *)
(* boundaries with small items.                                            *)
(***************************************************************************)
EXTENDS Bytes, DeepHash, SequencesExt

CONSTANTS
    SigConfig,      \* per signature type: sigLength and ownerLength
    FieldLength,    \* 32: target and anchor
    LongLength,     \* 8: tag count and tag-byte length
    MaxTagBytes,    \* 4096
    ShortString,    \* 64: bytes of the longest tag string that is encoded as it stands
    MinBinarySize,  \* 80
    Options,        \* what items are created from
    Plain,          \* the option for an item with such a region: no tags of its own
    Regions         \* tag regions an item from elsewhere may hold

\* A byte is a digit in this base.
Base == 256

ASSUME SigConfigAssumption ==
    \A t \in DOMAIN SigConfig :
        /\ t \in 1..(Base - 1)
        /\ SigConfig[t].sigLength \in Nat /\ SigConfig[t].ownerLength \in Nat

\* A parser asks for no more bytes than the header of any item has.
ASSUME WidthsAssumption ==
    /\ FieldLength \in Nat \ {0} /\ LongLength \in Nat \ {0}
    /\ MaxTagBytes \in Nat /\ ShortString \in Nat /\ MinBinarySize \in Nat
    /\ \A t \in DOMAIN SigConfig :
           MinBinarySize <= 4 + SigConfig[t].sigLength + SigConfig[t].ownerLength + 2 * LongLength

ASSUME RegionsAssumption == \A region \in Regions : region \in Seq(0..(Base - 1))

---------------------------------------------------------------------------
(* Integers *)

\* longToNByteArray(): little-endian; what is left of the value after each byte ...
LeftOf(value, n) ==
    LET left[i \in 0..n] == IF i = 0 THEN value ELSE left[i - 1] \div Base IN left
LongToNByteArray(n, value) == [i \in 1..n |-> LeftOf(value, n)[i - 1] % Base]

\* ... is nothing after the last, or it throws.
LongFits(n, value) == LeftOf(value, n)[n] = 0

ByteArrayToLong(bytes) == Number(bytes, Base)

---------------------------------------------------------------------------
(* Creating an item *)

\* encodeStringBytes(): a short string is encoded as it stands, a long one as
\* UTF-8; the declared length is the same.
EncodeStringBytes(s) == IF Utf8ByteLength(s) > ShortString THEN Utf8Encode(s) ELSE WtfEncode(s)
WriteString(s) == WriteVarLong(Utf8ByteLength(s)) \o EncodeStringBytes(s)

\* serializeTags(): no tags, no bytes.
SerializeTags(tagList) ==
    IF tagList = <<>> THEN <<>>
    ELSE WriteVarLong(Len(tagList))
           \o FlattenSeq([i \in DOMAIN tagList |->
                  WriteString(tagList[i].name) \o WriteString(tagList[i].value)])
           \o WriteVarLong(0)

\* A target or an anchor as given: absent, bytes, or text.
Absent == [form |-> "absent"]
Given(value) == [form |-> "bytes", value |-> value]
Text(value) == [form |-> "text", value |-> value]

\* Defect: the text of an anchor is read as a target's is.
AnchorDecoded(o) ==
    IF o.anchor.form = "absent" THEN <<>>
    ELSE IF o.anchor.form = "text" THEN FromBase64Url(o.anchor.value) ELSE o.anchor.value

\* An anchor's text stands for its UTF-8 bytes ...
AnchorBytes(o) ==
    IF o.anchor.form = "absent" THEN <<>>
    ELSE IF o.anchor.form = "text" THEN Utf8Encode(o.anchor.value) ELSE o.anchor.value

\* ... and a target's is base64url, whose foreign characters Buffer skips and
\* the core refuses.
Digits64(text) ==
    LET kept[i \in 0..Len(text)] ==
            IF i = 0 THEN <<>>
            ELSE IF Digit64(text[i]) \in 0..63 THEN Append(kept[i - 1], text[i]) ELSE kept[i - 1]
    IN  kept[Len(text)]
IsTarget(o) == o.target.form = "text" /\ o.build = "web" => IsBase64Url(o.target.value)
TargetBytes(o) ==
    IF o.target.form = "absent" THEN <<>>
    ELSE IF o.target.form = "text"
         THEN FromBase64Url(Digits64(o.target.value))
    ELSE o.target.value

\* The owner and the data are bytes, tags are strings, and a target's text is
\* digits, foreign characters among them.
Forms(texts) ==
    {Absent} \cup [form : {"bytes"}, value : Seq(0..(Base - 1))] \cup [form : {"text"}, value : texts]

ASSUME OptionsAssumption ==
    Options \subseteq
        [build : {"node", "web"}, type : Nat, owner : Seq(0..(Base - 1)), data : Seq(0..(Base - 1)),
         tags : Seq([name : Seq(CodeUnits), value : Seq(CodeUnits)]),
         target : Forms(Seq(Nat)), anchor : Forms(Seq(CodeUnits))]

\* A field that is absent is one byte, 0.
Field(bytes) == IF bytes = <<>> THEN <<0>> ELSE <<1>> \o bytes

\* createDataItemHeader() does not throw.
CanCreate(o) ==
    /\ o.type \in DOMAIN SigConfig
    /\ Len(o.owner) = SigConfig[o.type].ownerLength
    /\ IsTarget(o)
    /\ o.target = Absent \/ Len(TargetBytes(o)) = FieldLength
    /\ o.anchor = Absent \/ Len(AnchorBytes(o)) = FieldLength
    /\ LET tagBytes == SerializeTags(o.tags)
       IN  Len(tagBytes) <= MaxTagBytes /\ LongFits(LongLength, Len(tagBytes))

\* createDataItem(): every field, the signature zeroed. `count` and `declared`
\* are what it writes before the tags.
Layout(o, count, declared, tagBytes) ==
    LongToNByteArray(2, o.type)
      \o [i \in 1..SigConfig[o.type].sigLength |-> 0]
      \o o.owner
      \o Field(TargetBytes(o))
      \o Field(AnchorBytes(o))
      \o LongToNByteArray(LongLength, count)
      \o LongToNByteArray(LongLength, declared)
      \o tagBytes
      \o o.data

CreateDataItem(o) ==
    LET tagBytes == SerializeTags(o.tags)
    IN  Layout(o, Len(o.tags), Len(tagBytes), tagBytes)

\* dataItemByteLength(): the size, without building the item or reading its
\* target and anchor.
DataItemByteLength(o) ==
    2 + SigConfig[o.type].sigLength + SigConfig[o.type].ownerLength
      + (IF o.target = Absent THEN 1 ELSE 1 + FieldLength)
      + (IF o.anchor = Absent THEN 1 ELSE 1 + FieldLength)
      + 2 * LongLength + Len(SerializeTags(o.tags)) + Len(o.data)

\* getDataItemSize(): the item is built without its data, and with zeros for the
\* key that an EVM wallet may not have revealed yet.
GetDataItemSize(o, revealed) ==
    LET owner == IF revealed THEN o.owner ELSE [i \in 1..SigConfig[o.type].ownerLength |-> 0]
    IN  Len(CreateDataItem([o EXCEPT !.data = <<>>, !.owner = owner])) + Len(o.data)

---------------------------------------------------------------------------
(* Parsing an item *)

\* subarray(): what there is of the bytes from..to.
Slice(buf, from, to) == SubSeq(buf, from, IF to > Len(buf) THEN Len(buf) ELSE to)
Present(buf, at) == at <= Len(buf) /\ buf[at] = 1

SigType(buf) == ByteArrayToLong(Slice(buf, 1, 2))
Parseable(buf) == Len(buf) >= MinBinarySize /\ SigType(buf) \in DOMAIN SigConfig

\* parseDataItem(): past the owner every offset follows from the one before.
ParseDataItem(buf) ==
    LET cfg == SigConfig[SigType(buf)]
        targetStart == 3 + cfg.sigLength + cfg.ownerLength
        anchorStart == targetStart + (IF Present(buf, targetStart) THEN 1 + FieldLength ELSE 1)
        countStart == anchorStart + (IF Present(buf, anchorStart) THEN 1 + FieldLength ELSE 1)
        tagsStart == countStart + 2 * LongLength
        declared == ByteArrayToLong(Slice(buf, countStart + LongLength, tagsStart - 1))
    IN  [type |-> SigType(buf),
         owner |-> Slice(buf, targetStart - cfg.ownerLength, targetStart - 1),
         target |-> IF Present(buf, targetStart)
                    THEN Slice(buf, targetStart + 1, targetStart + FieldLength) ELSE <<>>,
         anchor |-> IF Present(buf, anchorStart)
                    THEN Slice(buf, anchorStart + 1, anchorStart + FieldLength) ELSE <<>>,
         tagCount |-> ByteArrayToLong(Slice(buf, countStart, countStart + LongLength - 1)),
         declared |-> declared,
         rawTags |-> Slice(buf, tagsStart, tagsStart + declared - 1),
         data |-> Slice(buf, tagsStart + declared, Len(buf))]

\* signatureDataChunks(): what the signature covers, after "dataitem" and the
\* version "1"; the type is one decimal digit.
SignatureDataChunks(parsed) ==
    <<Utf8Encode(<<100, 97, 116, 97, 105, 116, 101, 109>>), Utf8Encode(<<49>>),
      Utf8Encode(<<48 + parsed.type>>), parsed.owner, parsed.target, parsed.anchor,
      parsed.rawTags, parsed.data>>

\* getSignatureData(): the message that is signed.
SignatureData(parsed) ==
    LET chunks == SignatureDataChunks(parsed)
    IN  DeepHashList([i \in DOMAIN chunks |-> Blob(chunks[i])])

---------------------------------------------------------------------------
(* parseAndCheckStructure() *)

VARIABLES
    opts,    \* what the item was created from, before it was altered
    origin,  \* "created", "recounted", "cut" or "foreign"
    item,    \* the binary
    it,      \* the item, parsed
    pc,      \* "header", "count", "tags" or "done"
    pos,     \* state.pos, from 1
    left,    \* n: tags left in this block
    tags,
    verdict  \* "pending", "accepted" or "refused"

inputVars == <<opts, origin, item>>
vars == <<inputVars, it, pc, pos, left, tags, verdict>>

Created == {o \in Options : CanCreate(o)}

\* An item as created; with another tag count, which the signature does not
\* cover; cut short; or with a tag region of someone else's making.
Input ==
    \/ /\ origin = "created"
       /\ item = CreateDataItem(opts)
    \/ /\ origin = "recounted"
       /\ \E count \in 0..3 :
              LET tagBytes == SerializeTags(opts.tags)
              IN  item = Layout(opts, count, Len(tagBytes), tagBytes)
    \/ /\ origin = "cut"
       /\ \E n \in 0..Len(CreateDataItem(opts)) : item = SubSeq(CreateDataItem(opts), 1, n)
    \/ /\ origin = "foreign"
       /\ opts = Plain
       /\ \E region \in Regions, count \in 0..2, more \in {0, 1, MaxTagBytes} :
              item = Layout(opts, count, Len(region) + more, region)

Init ==
    /\ opts \in Created
    /\ Input
    /\ it = [tagCount |-> 0, rawTags |-> <<>>]
    /\ pc = "header"
    /\ pos = 1
    /\ left = 0
    /\ tags = <<>>
    /\ verdict = "pending"

Finish(v) ==
    /\ pc' = "done"
    /\ verdict' = v
    /\ UNCHANGED <<inputVars, pos, left, tags>>

\* parseDataItem() throws, or the declared length is over the cap.
RefuseHeader ==
    /\ pc = "header"
    /\ Parseable(item) => ParseDataItem(item).declared > MaxTagBytes
    /\ Finish("refused")
    /\ UNCHANGED it

\* The region is read only if the item counts tags.
ParseHeader ==
    /\ pc = "header"
    /\ Parseable(item)
    /\ LET parsed == ParseDataItem(item)
       IN  /\ parsed.declared <= MaxTagBytes
           /\ it' = [tagCount |-> parsed.tagCount, rawTags |-> parsed.rawTags]
           /\ IF parsed.tagCount = 0
              THEN Finish("accepted")
              ELSE /\ pc' = "count"
                   /\ UNCHANGED <<inputVars, pos, left, tags, verdict>>

\* Defect: the number of tags read is not compared with the declared one.
EndOfTagsUncounted ==
    /\ pc = "count"
    /\ HasVarLong(it.rawTags, pos)
    /\ ReadVarLong(it.rawTags, pos) = 0
    /\ Finish("accepted")
    /\ UNCHANGED it

\* A zero count ends the region.
EndOfTags ==
    /\ pc = "count"
    /\ HasVarLong(it.rawTags, pos)
    /\ ReadVarLong(it.rawTags, pos) = 0
    /\ Finish(IF Len(tags) = it.tagCount THEN "accepted" ELSE "refused")
    /\ UNCHANGED it

Block(count, next) ==
    /\ left' = count
    /\ pos' = next
    /\ pc' = "tags"
    /\ UNCHANGED <<inputVars, tags, verdict>>

\* A count of tags; a negative one is followed by a size in bytes.
ReadCount ==
    /\ pc = "count"
    /\ HasVarLong(it.rawTags, pos)
    /\ LET n == ReadVarLong(it.rawTags, pos)
           next == VarEnd(it.rawTags, pos) + 1
       IN  \/ n > 0 /\ Block(n, next)
           \/ /\ n < 0
              /\ IF HasVarLong(it.rawTags, next)
                 THEN Block(0 - n, VarEnd(it.rawTags, next) + 1)
                 ELSE Finish("refused")
    /\ UNCHANGED it

CountRunsOff ==
    /\ pc = "count"
    /\ ~HasVarLong(it.rawTags, pos)
    /\ Finish("refused")
    /\ UNCHANGED it

\* Defect: a negative length walks the cursor backwards.
StringFitsUnsigned(at) ==
    /\ HasVarLong(it.rawTags, at)
    /\ VarEnd(it.rawTags, at) + ReadVarLong(it.rawTags, at) <= Len(it.rawTags)

\* readString() does not throw.
StringFits(at) ==
    /\ HasVarLong(it.rawTags, at)
    /\ ReadVarLong(it.rawTags, at) >= 0
    /\ VarEnd(it.rawTags, at) + ReadVarLong(it.rawTags, at) <= Len(it.rawTags)

StringAt(at) ==
    Utf8Decode(SubSeq(it.rawTags, VarEnd(it.rawTags, at) + 1,
                      VarEnd(it.rawTags, at) + ReadVarLong(it.rawTags, at)))
StringEnd(at) == VarEnd(it.rawTags, at) + ReadVarLong(it.rawTags, at) + 1

TagFits == StringFits(pos) /\ StringFits(StringEnd(pos))

ReadTag ==
    /\ pc = "tags"
    /\ TagFits
    /\ tags' = Append(tags, [name |-> StringAt(pos), value |-> StringAt(StringEnd(pos))])
    /\ pos' = StringEnd(StringEnd(pos))
    /\ left' = left - 1
    /\ pc' = IF left = 1 THEN "count" ELSE "tags"
    /\ UNCHANGED <<inputVars, it, verdict>>

TagRunsOff ==
    /\ pc = "tags"
    /\ ~TagFits
    /\ Finish("refused")
    /\ UNCHANGED it

Checked ==
    /\ pc = "done"
    /\ UNCHANGED vars

Next ==
    \/ RefuseHeader
    \/ ParseHeader
    \/ EndOfTags
    \/ ReadCount
    \/ CountRunsOff
    \/ ReadTag
    \/ TagRunsOff
    \/ Checked

Spec == Init /\ [][Next]_vars

---------------------------------------------------------------------------
(* Properties *)

\* What a reader makes of a tag string: the string itself, but for a byte order
\* mark it begins with and for halves of pairs, each of which is one U+FFFD in a
\* long string and three in a short one.
AsRead(s) ==
    LET points == CodePoints(s)
        text == IF points # <<>> /\ points[1] = Mark THEN Tail(points) ELSE points
        lone == IF Utf8ByteLength(s) > ShortString THEN <<Replacement>>
                ELSE <<Replacement, Replacement, Replacement>>
    IN  FlattenSeq([k \in DOMAIN text |->
            IF IsHalf(text[k]) THEN lone ELSE UnitsOf(text[k])])

\* An item this package creates is accepted by the check of every build, says
\* what it was made from ("Two adjacent 32-byte fields, two opposite string
\* conventions"; "the varint framing never desyncs"), and is as long as it was
\* priced.
CreatedIsAccepted ==
    origin = "created" =>
        /\ Len(item) = DataItemByteLength(opts)
        /\ \A revealed \in BOOLEAN : Len(item) = GetDataItemSize(opts, revealed)
        /\ SignatureData(ParseDataItem(item)) =
               SignatureData([type |-> opts.type, owner |-> opts.owner,
                              target |-> TargetBytes(opts),
                              anchor |-> IF opts.anchor.form = "text" THEN Utf8Encode(opts.anchor.value)
                                         ELSE IF opts.anchor = Absent THEN <<>> ELSE opts.anchor.value,
                              rawTags |-> SerializeTags(opts.tags), data |-> opts.data])
        /\ pc = "done" =>
               /\ verdict = "accepted"
               /\ tags = [i \in DOMAIN opts.tags |->
                             [name |-> AsRead(opts.tags[i].name), value |-> AsRead(opts.tags[i].value)]]

\* What the tags come to, with the byte at least that each length takes.
SizeSaid(list) ==
    LET size[i \in 0..Len(list)] ==
            IF i = 0 THEN 0 ELSE size[i - 1] + Len(list[i].name) + Len(list[i].value) + 2
    IN  size[Len(list)]

\* "Two implementations disagree about what the item SAYS while both agree the
\* signature is valid": of the items with one signature's data, those that
\* declare any tags are accepted with the signed number of tags only, and
\* nothing is read into a tag from outside the region the signature covers.
AcceptedSaysOneThing ==
    verdict = "accepted" /\ it.tagCount > 0 =>
        /\ Len(tags) = it.tagCount
        /\ origin = "recounted" => it.tagCount = Len(opts.tags)
        /\ SizeSaid(tags) + 2 <= Len(it.rawTags)

\* "A malformed item hung verifyDataItem rather than failing": every turn of
\* the loops that read tags moves the cursor forward, within the region, or is
\* the last, so the check ends on every item.
TurnAdvances ==
    pc \in {"count", "tags"} =>
        \/ pc' = "done"
        \/ pos' \in (pos + 1)..(Len(it.rawTags) + 1)
CheckAdvances == [][TurnAdvances]_vars
=============================================================================
