--------------------------- MODULE MCStreamUpload ---------------------------
(* A header, data and chunks whose sizes share no boundary.                *)
EXTENDS StreamUpload, SequencesExt

---------------------------------------------------------------------------
(* The words of the hashes, and Keccak-256 whole *)

Halves == (0..15) \X (0..15)
Word(w) == 16 * w[1] + w[2]

\* The carry between the halves of a sum is right for as many words as
\* Sha384.compress() adds.
ASSUME SumIsOfTheWords ==
    \A a, b \in Halves, c \in {<<0, 15>>, <<15, 15>>} :
        /\ Word(SumOfWords(<<a, b>>, 4)) = (Word(a) + Word(b)) % 256
        /\ Word(SumOfWords(<<a, b, c, c, c>>, 4)) = (Word(a) + Word(b) + 3 * Word(c)) % 256

K == INSTANCE Keccak

\* rotl() of two words rotates the lane, by every offset.
ASSUME RotationIsOfTheLane ==
    \A n \in 0..63, lane \in {{0}, {31, 32}, {63, 5, 40}, 0..63} :
        K!RotateLeft(lane, n) = {(b + n) % 64 : b \in lane}

\* FIPS 202: the offsets follow the orbit of (1, 0), and the bits of the round
\* constants, seven a round, a shift register of eight.
ASSUME TablesAreFips ==
    LET orbit[t \in 0..23] ==
            IF t = 0 THEN <<1, 0>>
            ELSE LET xy == orbit[t - 1] IN <<xy[2], (2 * xy[1] + 3 * xy[2]) % 5>>
        bit(t) == IF 2 ^ (t % 7) - 1 \in K!RC[t \div 7 + 1] THEN 1 ELSE 0
    IN  /\ \A t \in 0..23 :
               K!ROT[orbit[t][1] + 5 * orbit[t][2] + 1] = (((t + 1) * (t + 2)) \div 2) % 64
        /\ \A round \in 1..24 : K!RC[round] \subseteq {2 ^ j - 1 : j \in 0..6}
        /\ \A t \in 0..7 : bit(t) = IF t = 0 THEN 1 ELSE 0
        /\ \A t \in 0..159 : bit(t + 8) = (bit(t) + bit(t + 4) + bit(t + 5) + bit(t + 6)) % 2

\* test/keccak.test.js: nothing, "abc", and a last byte on either side of a block.
Letters(n) == [i \in 1..n |-> 97]
ASSUME DigestsAreKeccak ==
    /\ K!Keccak256(<<>>) =
           <<197, 210, 70, 1, 134, 247, 35, 60, 146, 126, 125, 178, 220, 199,
             3, 192, 229, 0, 182, 83, 202, 130, 39, 59, 123, 250, 216, 4, 93,
             133, 164, 112>>
    /\ K!Keccak256(<<97, 98, 99>>) =
           <<78, 3, 101, 122, 234, 69, 169, 79, 199, 212, 123, 168, 38, 200,
             214, 103, 192, 209, 230, 227, 58, 100, 160, 54, 236, 68, 245,
             143, 161, 45, 108, 69>>
    /\ K!Keccak256(Letters(135)) =
           <<52, 54, 125, 194, 72, 187, 216, 50, 244, 227, 230, 157, 250, 172,
             47, 146, 99, 139, 208, 187, 209, 143, 41, 18, 186, 78, 244, 84,
             145, 156, 244, 70>>
    /\ K!Keccak256(Letters(136)) =
           <<166, 196, 212, 3, 39, 159, 227, 224, 175, 3, 114, 156, 170, 218,
             131, 116, 181, 202, 84, 216, 6, 83, 41, 163, 235, 202, 235, 75,
             96, 170, 56, 110>>
=============================================================================
