------------------------------- MODULE Hashes -------------------------------
(***************************************************************************)
(* The incremental SHA-2 hasher of src/core/sha2.js.  What the compression *)
(* computes is abstracted: a digest is the sequence of blocks that were    *)
(* compressed, so two digests are equal exactly when the padded messages   *)
(* are.  The words of 64 bits that are kept as two halves of 32 are        *)
(* modelled as they are computed, with halves of k bits.                   *)
(***************************************************************************)
EXTENDS Integers, Sequences
LOCAL INSTANCE SequencesExt
LOCAL INSTANCE Folds

CONSTANTS
    BlockLength,  \* 64 bytes for SHA-256, 128 for SHA-384
    FieldLength,  \* 8 and 16: bytes of the length at the end of the padding
    WordLength,   \* 4: bytes of each half of that length
    ByteValues    \* 256

ASSUME HashAssumption ==
    /\ WordLength \in Nat \ {0} /\ ByteValues \in Nat \ {0}
    /\ FieldLength \in Nat /\ 2 * WordLength <= FieldLength
    /\ BlockLength \in Nat /\ FieldLength < BlockLength

Smaller(a, b) == IF a <= b THEN a ELSE b

---------------------------------------------------------------------------
(* SHA-2 *)

\* A hasher has compressed some blocks, holds the rest, less than a block, and
\* counts the bytes it was given.
Hasher == [blocks |-> <<>>, rest |-> <<>>, total |-> 0]

\* compress(): the digest covers one more block.
Compress(blocks, more) == blocks \o more

\* Every whole block of the data is compressed where it lies, and the rest is
\* kept.
TakeBlocks(h, data) ==
    LET n == Len(data) \div BlockLength
        whole == [k \in 1..n |-> SubSeq(data, (k - 1) * BlockLength + 1, k * BlockLength)]
    IN  [h EXCEPT !.blocks = Compress(@, whole),
                  !.rest = SubSeq(data, n * BlockLength + 1, Len(data))]

\* The block that was begun is full.
TakeFilled(h, block, data) ==
    TakeBlocks([h EXCEPT !.blocks = Compress(@, <<block>>)], data)

\* Defect: a block that has just become full is kept, and written over.
UpdateLate(h, data) ==
    LET take == Smaller(BlockLength - Len(h.rest), Len(data))
        filled == h.rest \o SubSeq(data, 1, take)
        counted == [h EXCEPT !.total = @ + Len(data)]
    IN  IF h.rest = <<>> THEN TakeBlocks(counted, data)
        ELSE IF Len(filled) <= BlockLength /\ take = Len(data) THEN [counted EXCEPT !.rest = filled]
        ELSE TakeFilled(counted, filled, SubSeq(data, take + 1, Len(data)))

\* update(): a block begun earlier is filled first.
Update(h, data) ==
    LET take == Smaller(BlockLength - Len(h.rest), Len(data))
        filled == h.rest \o SubSeq(data, 1, take)
        counted == [h EXCEPT !.total = @ + Len(data)]
    IN  IF h.rest = <<>> THEN TakeBlocks(counted, data)
        ELSE IF Len(filled) < BlockLength THEN [counted EXCEPT !.rest = filled]
        ELSE TakeFilled(counted, filled, SubSeq(data, take + 1, Len(data)))

Power(n) ==
    LET power[i \in 0..n] == IF i = 0 THEN 1 ELSE ByteValues * power[i - 1]
    IN  power[n]

\* The last n bytes of a number, the highest first.
BigEndian(value, n) == [i \in 1..n |-> (value \div Power(n - i)) % ByteValues]

\* digest(): a one bit, zeros, and the length in bits as two words.
Padding(h) ==
    LET room == BlockLength - FieldLength
        length == (IF Len(h.rest) < room THEN room ELSE room + BlockLength)
                    - Len(h.rest) + FieldLength
        bits == 8 * h.total
        word == Power(WordLength)
    IN  <<ByteValues \div 2>>
          \o [i \in 1..(length - 1 - 2 * WordLength) |-> 0]
          \o BigEndian(bits \div word, WordLength)
          \o BigEndian(bits % word, WordLength)

Digest(h) == Update(h, Padding(h)).blocks

\* FIPS 180-4: the message, a one bit, the fewest zeros that end a block before
\* the length field, and the length in bits.
Padded(message) ==
    LET fits(z) == (Len(message) + 1 + z + FieldLength) % BlockLength = 0
        zeros == CHOOSE z \in 0..BlockLength : fits(z) /\ \A y \in 0..(z - 1) : ~fits(y)
    IN  message \o <<ByteValues \div 2>> \o [i \in 1..zeros |-> 0]
          \o BigEndian(8 * Len(message), FieldLength)

DigestOf(message) ==
    LET padded == Padded(message)
    IN  [k \in 1..(Len(padded) \div BlockLength) |->
            SubSeq(padded, (k - 1) * BlockLength + 1, k * BlockLength)]

---------------------------------------------------------------------------
(* Words of 2k bits kept as a high and a low half *)

\* The sums of Sha384.compress(): the carry out of the low halves, each of them
\* taken as unsigned.
SumOfWords(words, k) ==
    LET low == FoldLeft(LAMBDA n, w : n + w[2], 0, words)
        high == FoldLeft(LAMBDA n, w : n + w[1], low \div 2 ^ k, words)
    IN  <<high % 2 ^ k, low % 2 ^ k>>
=============================================================================
