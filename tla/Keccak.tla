------------------------------- MODULE Keccak --------------------------------
(***************************************************************************)
(* Keccak-256 of src/core/keccak.js, bit for bit.  The state is 50 words   *)
(* of 32 bits, as it is there, and stands as the set of its ones: place b  *)
(* of word i is 32 i + b, so that of lane l, a low word and a high one, is *)
(* 64 l + b, and byte k holds the places from 8 k.                         *)
(***************************************************************************)
EXTENDS Integers, Sequences
LOCAL INSTANCE SequencesExt
LOCAL INSTANCE Folds

RATE == 136
Places == 0..1599

\* RC: the ones of the constant of each round.
RC == <<
    {0}, {1, 7, 15}, {1, 3, 7, 15, 63}, {15, 31, 63}, {0, 1, 3, 7, 15}, {0, 31},
    {0, 7, 15, 31, 63}, {0, 3, 15, 63}, {1, 3, 7}, {3, 7}, {0, 3, 15, 31}, {1, 3, 31},
    {0, 1, 3, 7, 15, 31}, {0, 1, 3, 7, 63}, {0, 3, 7, 15, 63}, {0, 1, 15, 63}, {1, 15, 63}, {7, 63},
    {1, 3, 15}, {1, 3, 31, 63}, {0, 7, 15, 31, 63}, {7, 15, 63}, {0, 31}, {3, 15, 31, 63}>>

\* ROT: the rotation of lane x + 5y.
ROT == <<0, 1, 62, 28, 27, 36, 44, 6, 55, 20, 3, 10, 43, 25, 39, 41, 45, 15, 21, 8, 18, 2, 61, 56, 14>>

Xor(a, b, within) == {p \in within : (p \in a) # (p \in b)}
Lane(s, l) == {b \in 0..63 : 64 * l + b \in s}

\* rotl(): by 32 and more the words change places first, since a shift by 32 is
\* none at all.
RotateLeft(lane, n) ==
    LET v == IF n >= 32 THEN {(b + 32) % 64 : b \in lane} ELSE lane
        m == n % 32
        shifted(b, lo, hi) == (b >= m /\ lo + b - m \in v) \/ (b < m /\ hi + b + 32 - m \in v)
    IN  IF m = 0 THEN v
        ELSE {b \in 0..63 : IF b < 32 THEN shifted(b, 0, 32) ELSE shifted(b - 32, 32, 0)}

Theta(s) ==
    LET rows(y) == {p \in 0..319 : p + 320 * y \in s}
        C == FoldLeft(LAMBDA c, y : Xor(c, rows(y), 0..319), rows(0), <<1, 2, 3, 4>>)
        D(x) == Xor(Lane(C, (x + 4) % 5), RotateLeft(Lane(C, (x + 1) % 5), 1), 0..63)
        changed == UNION {{64 * x + b : b \in D(x)} : x \in 0..4}
    IN  {p \in Places : (p \in s) # (p % 320 \in changed)}

\* Lane x + 5y is rotated, and becomes lane y + 5 (2x + 3y).
RhoPi(s) ==
    UNION {LET i == x + 5 * y
               j == y + 5 * ((2 * x + 3 * y) % 5)
           IN  {64 * j + b : b \in RotateLeft(Lane(s, i), ROT[i + 1])} : x \in 0..4, y \in 0..4}

Chi(B) ==
    LET along(p, n) == 320 * (p \div 320) + ((p + 64 * n) % 320)
    IN  {p \in Places : (p \in B) # (along(p, 1) \notin B /\ along(p, 2) \in B)}

Iota(s, round) == Xor(s, RC[round], Places)

\* keccakF().  The state of a round is bound, so that TLC has its value before
\* the next round begins and not 24 rounds inside one another.
Round(s, round) == UNION {Iota(Chi(RhoPi(Theta(t))), round) : t \in {s}}
KeccakF(s) == FoldLeft(Round, s, [round \in 1..24 |-> round])

\* Both bits of the padding may fall on the same byte; a message that ends on a
\* block gets a block of its own for them.
Padded(message) ==
    LET length == (Len(message) \div RATE) * RATE + RATE
        ones == {p \in 0..(8 * Len(message) - 1) : (message[p \div 8 + 1] \div 2 ^ (p % 8)) % 2 = 1}
    IN  ones \cup {8 * Len(message), 8 * length - 1}

\* A block is exclusive-ored into the first words of the state.
Keccak256(message) ==
    LET padded == Padded(message)
        block(k) == {p \in 0..(8 * RATE - 1) : p + 8 * RATE * k \in padded}
        s == FoldLeft(LAMBDA state, k : KeccakF(Xor(state, block(k), Places)), {},
                      [k \in 1..(Len(message) \div RATE + 1) |-> k - 1])
        bit(p) == IF p \in s THEN 2 ^ (p % 8) ELSE 0
    IN  [i \in 1..32 |-> FoldLeft(LAMBDA n, b : n + bit(8 * i - b), 0, <<1, 2, 3, 4, 5, 6, 7, 8>>)]
=============================================================================
