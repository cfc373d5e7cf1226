------------------------------- MODULE Bytes --------------------------------
(***************************************************************************)
(* The conversions of src/core/bytes.js and src/core/base58.js, and the    *)
(* varints of src/core/ans104.js.  A string is the sequence of its UTF-16  *)
(* code units; text in base 16, 58 or 64 is the sequence of its digits.    *)
(***************************************************************************)
EXTENDS Integers, SequencesExt

\* The number whose digits are given, the lowest first.
Number(digits, base) ==
    LET value[i \in 1..(Len(digits) + 1)] ==
            IF i > Len(digits) THEN 0 ELSE digits[i] + base * value[i + 1]
    IN  value[1]

---------------------------------------------------------------------------
(* Varints *)

\* A varint has seven bits to a byte; the eighth says that more follow.
VarintBase == 128

VarintDigits[m \in Nat] ==
    IF m < VarintBase THEN <<m>> ELSE <<VarintBase + (m % VarintBase)>> \o VarintDigits[m \div VarintBase]

\* Defect: a length is written without the zigzag that leaves room for a sign.
WriteVarLongUnsigned(n) == VarintDigits[n]

\* writeVarLong(): zigzag, seven bits to a byte, the lowest first.
WriteVarLong(n) == VarintDigits[IF n >= 0 THEN 2 * n ELSE 0 - 2 * n - 1]

\* readVarLong() finds the last byte of the number, or runs off the end.
HasVarLong(buf, pos) == pos >= 1 /\ \E k \in pos..Len(buf) : buf[k] < VarintBase
VarEnd(buf, pos) ==
    CHOOSE k \in pos..Len(buf) : buf[k] < VarintBase /\ \A j \in pos..(k - 1) : buf[j] >= VarintBase

ReadVarLong(buf, pos) ==
    LET bytes == SubSeq(buf, pos, VarEnd(buf, pos))
        n == Number([i \in DOMAIN bytes |-> bytes[i] % VarintBase], VarintBase)
    IN  IF n % 2 = 1 THEN 0 - (n + 1) \div 2 ELSE n \div 2

---------------------------------------------------------------------------
(* UTF-8 *)

CodeUnits == {c \in Nat : c < 65536}
Replacement == 65533  \* U+FFFD
Mark == 65279         \* U+FEFF
IsHigh(c) == c \in 55296..56319
IsLow(c) == c \in 56320..57343
IsPair(s, i) == IsHigh(s[i]) /\ i < Len(s) /\ IsLow(s[i + 1])

\* The code points of a string; half of a pair stands for itself.
CodePoints(s) ==
    LET from[i \in 1..(Len(s) + 2)] ==
            IF i > Len(s) THEN <<>>
            ELSE IF IsPair(s, i)
                 THEN <<65536 + (s[i] - 55296) * 1024 + (s[i + 1] - 56320)>> \o from[i + 2]
            ELSE <<s[i]>> \o from[i + 1]
    IN  from[1]

IsHalf(c) == IsHigh(c) \/ IsLow(c)
Replaced(points) == [k \in DOMAIN points |-> IF IsHalf(points[k]) THEN Replacement ELSE points[k]]

\* Six bits of a code point, of which the lowest is worth `unit`.
Continuation(c, unit) == 128 + ((c \div unit) % 64)

Utf8Of(c) ==
    IF c < 128 THEN <<c>>
    ELSE IF c < 2048 THEN <<192 + c \div 64, Continuation(c, 1)>>
    ELSE IF c < 65536 THEN <<224 + c \div 4096, Continuation(c, 64), Continuation(c, 1)>>
    ELSE <<240 + c \div 262144, Continuation(c, 4096), Continuation(c, 64), Continuation(c, 1)>>

Encoded(points) == FlattenSeq([k \in DOMAIN points |-> Utf8Of(points[k])])

\* utf8Encode(): half of a pair becomes U+FFFD.
Utf8Encode(s) == Encoded(Replaced(CodePoints(s)))

\* encodeStringBytes(): so it does in a long string; in a short one it is
\* encoded as it stands.
WtfEncode(s) == Encoded(CodePoints(s))

\* utf8ByteLength(): one unit at a time, a pair as one.
Utf8ByteLength(s) ==
    LET from[i \in 1..(Len(s) + 2)] ==
            IF i > Len(s) THEN 0
            ELSE IF s[i] < 128 THEN 1 + from[i + 1]
            ELSE IF s[i] < 2048 THEN 2 + from[i + 1]
            ELSE IF IsPair(s, i) THEN 4 + from[i + 2]
            ELSE 3 + from[i + 1]
    IN  from[1]

\* What a lead byte announces: the bytes that follow, and the range of the
\* first of them.  Every other byte above 127 is ill-formed by itself.
Lead(b) ==
    IF b \in 194..223 THEN [need |-> 1, low |-> 128, high |-> 191, bits |-> b - 192]
    ELSE IF b \in 224..239
         THEN [need |-> 2, low |-> IF b = 224 THEN 160 ELSE 128,
               high |-> IF b = 237 THEN 159 ELSE 191, bits |-> b - 224]
    ELSE IF b \in 240..244
         THEN [need |-> 3, low |-> IF b = 240 THEN 144 ELSE 128,
               high |-> IF b = 244 THEN 143 ELSE 191, bits |-> b - 240]
    ELSE [need |-> 0, low |-> 0, high |-> 0, bits |-> IF b < 128 THEN b ELSE Replacement]

\* How many of the bytes that a lead at i announces are there.
Follow(bytes, i) ==
    LET lead == Lead(bytes[i])
        ok(k) == /\ i + k <= Len(bytes)
                 /\ bytes[i + k] \in IF k = 1 THEN lead.low..lead.high ELSE 128..191
    IN  CHOOSE n \in 0..lead.need :
            (\A k \in 1..n : ok(k)) /\ (n < lead.need => ~ok(n + 1))

\* The code point a lead at i begins: six bits more with each byte that follows.
PointRead(bytes, i) ==
    LET n == Follow(bytes, i)
        point[k \in 0..n] ==
            IF k = 0 THEN Lead(bytes[i]).bits ELSE 64 * point[k - 1] + (bytes[i + k] % 64)
    IN  IF n < Lead(bytes[i]).need THEN Replacement ELSE point[n]

\* utf8Decode(): a sequence that breaks off is one U+FFFD, and the byte it
\* breaks off at is read again.
DecodedPoints(bytes) ==
    LET from[i \in 1..(Len(bytes) + 1)] ==
            IF i > Len(bytes) THEN <<>>
            ELSE <<PointRead(bytes, i)>> \o from[i + Follow(bytes, i) + 1]
    IN  from[1]

\* String.fromCodePoint()
UnitsOf(c) ==
    IF c < 65536 THEN <<c>> ELSE <<55296 + (c - 65536) \div 1024, 56320 + ((c - 65536) % 1024)>>

\* TextDecoder, which the code prefers, takes a leading U+FEFF for a byte order
\* mark and drops it.
Utf8Decode(bytes) ==
    LET points == DecodedPoints(bytes)
        kept == IF points # <<>> /\ points[1] = Mark THEN Tail(points) ELSE points
    IN  FlattenSeq([k \in DOMAIN kept |-> UnitsOf(kept[k])])

---------------------------------------------------------------------------
(* Hex and base64url *)

\* toHex(): lowercase, the high digit first.
ToHex(bytes) == FlattenSeq([i \in DOMAIN bytes |-> <<bytes[i] \div 16, bytes[i] % 16>>])

IsHex(text) == Len(text) % 2 = 0 /\ \A i \in DOMAIN text : text[i] \in 0..15
FromHex(text) == [i \in 1..(Len(text) \div 2) |-> 16 * text[2 * i - 1] + text[2 * i]]

\* "+" and "/" stand for the last two digits of base64, "=" for padding.
Plus == 64
Slash == 65
Pad == 66
Digit64(ch) == IF ch = Plus THEN 62 ELSE IF ch = Slash THEN 63 ELSE ch

\* toBase64Url(): three bytes to four digits, and no padding.
ToBase64Url(bytes) ==
    LET at(i) == IF i <= Len(bytes) THEN bytes[i] ELSE 0
        group(i) == at(i) * 65536 + at(i + 1) * 256 + at(i + 2)
        digit(k) == (group(3 * ((k - 1) \div 4) + 1) \div 64 ^ (3 - ((k - 1) % 4))) % 64
    IN  [k \in 1..((4 * Len(bytes) + 2) \div 3) |-> digit(k)]

Unpadded(text) ==
    SubSeq(text, 1, CHOOSE n \in 0..Len(text) :
        (n > 0 => text[n] # Pad) /\ \A i \in (n + 1)..Len(text) : text[i] = Pad)

IsBase64Url(text) ==
    LET clean == Unpadded(text) IN \A i \in DOMAIN clean : Digit64(clean[i]) \in 0..63

\* fromBase64Url(): six bits come in with each digit and eight go out when
\* they are there; what is left over is dropped.
FromBase64Url(text) ==
    LET clean == Unpadded(text)
        read[i \in 0..Len(clean)] ==
            IF i = 0 THEN [value |-> 0, bits |-> 0, out |-> <<>>]
            ELSE LET value == (64 * read[i - 1].value + Digit64(clean[i])) % 2 ^ 14
                     bits == read[i - 1].bits + 6
                 IN  IF bits < 8 THEN [read[i - 1] EXCEPT !.value = value, !.bits = bits]
                     ELSE [value |-> value, bits |-> bits - 8,
                           out |-> Append(read[i - 1].out, (value \div 2 ^ (bits - 8)) % 256)]
    IN  read[Len(clean)].out

---------------------------------------------------------------------------
(* Base58 *)

\* The digits of a number, the highest first; 0 has none.
InBase(n, base) ==
    LET digits[m \in 0..n] == IF m = 0 THEN <<>> ELSE digits[m \div base] \o <<m % base>>
    IN  digits[n]

\* Text in one base as text in another: a leading zero is no digit, and stays
\* what it is.
Converted(text, from, to) ==
    LET zeros == CHOOSE z \in 0..Len(text) :
                    (\A i \in 1..z : text[i] = 0) /\ (z < Len(text) => text[z + 1] # 0)
    IN  SubSeq(text, 1, zeros)
          \o InBase(Number(Reverse(SubSeq(text, zeros + 1, Len(text))), from), to)

IsBase58(text) == \A i \in DOMAIN text : text[i] \in 0..57
DecodeBase58(text) == Converted(text, 58, 256)
EncodeBase58(bytes) == Converted(bytes, 256, 58)
=============================================================================
