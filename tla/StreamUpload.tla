---------------------------- MODULE StreamUpload ----------------------------
(***************************************************************************)
(* uploadStream() of src/core/client.js: read the stream once to hash and  *)
(* sign it, read it again to send it, and compare the two reads before     *)
(* anything is finalized.  A large item goes through rechunk() of          *)
(* src/core/chunked.js, which holds the pieces it was given; a small one   *)
(* is copied piece by piece and sent whole.                                *)
(*                                                                         *)
(* Byte k of the first read is the number k, a byte of the header is       *)
(* negative, and Other is a byte that was not signed.  A stream may fill   *)
(* one buffer again and again and yield views of it, so a held byte is     *)
(* either a value or a place in that buffer.                               *)
(***************************************************************************)
EXTENDS Integers, Sequences, Hashes

CONSTANTS
    Size,        \* the `size` the caller declares
    HeaderSize,  \* bytes of the item's header
    ChunkSize,
    MaxPiece,    \* bound: bytes in one piece of the stream
    Excess,      \* bound: bytes a read of the stream may yield beyond `size`
    Reusing      \* whether a stream may reuse its buffer: a set of BOOLEANs

ASSUME SizeAssumption == Size \in Nat
ASSUME HeaderAssumption == HeaderSize \in Nat \ {0}
ASSUME ChunkSizeAssumption == ChunkSize \in Nat \ {0}
ASSUME MaxPieceAssumption == MaxPiece \in Nat \ {0}
ASSUME ExcessAssumption == Excess \in Nat \ {0}
ASSUME ReusingAssumption == Reusing \subseteq BOOLEAN

\* "Anything this library hashes fits in 53" bits, and the two words of a length
\* hold 64.
ASSUME LengthAssumption == 8 * (Size + Excess) < Power(2 * WordLength)

Header == [k \in 1..HeaderSize |-> 0 - k]
Signed == [k \in 1..Size |-> k]
Other == Size + 1
ByteCount == HeaderSize + Size

\* A piece of n bytes that follow the first p, some of them changed.
Piece(p, n, changed) == [i \in 1..n |-> IF i \in changed THEN Other ELSE p + i]

VARIABLES
    pc,       \* "hash", "sign", "send", "copy" or "done"
    reuses,   \* the stream yields views of one buffer
    second,   \* what the second read has produced
    hasher,   \* the second read's incremental hash
    buffer,   \* the stream's own buffer
    held,     \* pieces rechunk() or `parts` holds, byte by byte
    ended,    \* the second read has ended
    sent,     \* the bytes of the chunks taken so far
    lengths,  \* the lengths of those chunks
    outcome,  \* "pending", "finalized", "posted" or "rejected"
    thrown

sentVars == <<sent, lengths>>
vars == <<pc, reuses, second, hasher, buffer, held, ended, sentVars, outcome, thrown>>

Thrown == {"stream", "size", "signer", "upload", "overrun", "short", "changed"}

Init ==
    /\ pc = "hash"
    /\ reuses \in Reusing
    /\ second = <<>>
    /\ hasher = Hasher
    /\ buffer = [i \in 1..MaxPiece |-> Other]
    /\ held = <<>>
    /\ ended = FALSE
    /\ sent = <<>>
    /\ lengths = <<>>
    /\ outcome = "pending"
    /\ thrown = "none"

\* A held byte is a value, or a place in the stream's buffer.
Own(bytes) == [i \in DOMAIN bytes |-> <<"own", bytes[i]>>]
View(bytes) == [i \in DOMAIN bytes |-> <<"buffer", i>>]
Bytes(cells) ==
    [i \in DOMAIN cells |-> IF cells[i][1] = "own" THEN cells[i][2] ELSE buffer[cells[i][2]]]

Finish(o, e) ==
    /\ pc' = "done"
    /\ outcome' = o
    /\ thrown' = e

Throw(e) == Finish("rejected", e)

\* What hashData(streamFactory()) made of the first read.
FirstDigest == Digest(Update(Hasher, Signed))

\* Defect: the two reads are compared by length only.
SameLength == hasher.total = Size

\* assertSameStream() does not throw.
SameStream == hasher.total = Size /\ Digest(hasher) = FirstDigest

---------------------------------------------------------------------------
(* The first read and the signature *)

\* hashData(streamFactory()) has read n bytes; another length than `size` is
\* refused before a wallet is asked.
FirstReadEnds(n) ==
    /\ pc = "hash"
    /\ IF n = Size
       THEN pc' = "sign" /\ UNCHANGED <<outcome, thrown>>
       ELSE Throw("size")
    /\ UNCHANGED <<reuses, second, hasher, buffer, held, ended, sentVars>>

\* The stream throws, or produces something other than bytes, in either read.
StreamThrows ==
    /\ pc \in {"hash", "send", "copy"}
    /\ ~ended
    /\ pc = "send" => Len(held) < ChunkSize
    /\ Throw("stream")
    /\ UNCHANGED <<reuses, second, hasher, buffer, held, ended, sentVars>>

\* The wallet refuses: to reveal its key before the first read, or to sign
\* after it.
SignerThrows ==
    /\ pc \in {"hash", "sign"}
    /\ Throw("signer")
    /\ UNCHANGED <<reuses, second, hasher, buffer, held, ended, sentVars>>

\* The header is stamped; shouldChunk() sends the item in chunks, whose source
\* yields the header first, or copies the second read into one array.
SignatureMade ==
    /\ pc = "sign"
    /\ \/ pc' = "send" /\ held' = Own(Header)
       \/ pc' = "copy" /\ UNCHANGED held
    /\ UNCHANGED <<reuses, second, hasher, buffer, ended, sentVars, outcome, thrown>>

---------------------------------------------------------------------------
(* The second read *)

\* The stream fills its buffer, and the piece is hashed.
Yield(piece) ==
    /\ second' = second \o piece
    /\ hasher' = Update(hasher, piece)
    /\ buffer' = IF reuses
                 THEN [i \in 1..MaxPiece |-> IF i \in DOMAIN piece THEN piece[i] ELSE buffer[i]]
                 ELSE buffer

\* Defect: one chunk is taken per piece, however much is held.
PullPieceEagerly(piece) ==
    /\ pc = "send"
    /\ ~ended
    /\ Yield(piece)
    /\ held' = held \o (IF reuses THEN View(piece) ELSE Own(piece))
    /\ UNCHANGED <<pc, reuses, ended, sentVars, outcome, thrown>>

\* rechunk() pulls a piece when it holds less than a chunk, and keeps the view
\* it is given.
PullPiece(piece) ==
    /\ pc = "send"
    /\ ~ended
    /\ Len(held) < ChunkSize
    /\ Yield(piece)
    /\ held' = held \o (IF reuses THEN View(piece) ELSE Own(piece))
    /\ UNCHANGED <<pc, reuses, ended, sentVars, outcome, thrown>>

\* Defect: parts.push(piece).
CopyPieceByView(piece) ==
    /\ pc = "copy"
    /\ ~ended
    /\ Yield(piece)
    /\ held' = held \o (IF reuses THEN View(piece) ELSE Own(piece))
    /\ UNCHANGED <<pc, reuses, ended, sentVars, outcome, thrown>>

\* parts.push(Uint8Array.from(piece))
CopyPiece(piece) ==
    /\ pc = "copy"
    /\ ~ended
    /\ Yield(piece)
    /\ held' = held \o Own(piece)
    /\ UNCHANGED <<pc, reuses, ended, sentVars, outcome, thrown>>

\* A read of the stream yields a piece: of any length, changed or not.
PieceArrives ==
    \E n \in 0..MaxPiece : \E changed \in SUBSET (1..n) :
        /\ Len(second) + n <= Size + Excess
        /\ LET piece == Piece(Len(second), n, changed)
           IN  PullPiece(piece) \/ CopyPiece(piece)

StreamEnds ==
    /\ pc \in {"send", "copy"}
    /\ ~ended
    /\ pc = "send" => Len(held) < ChunkSize
    /\ ended' = TRUE
    /\ UNCHANGED <<pc, reuses, second, hasher, buffer, held, sentVars, outcome, thrown>>

---------------------------------------------------------------------------
(* Sending in chunks *)

\* rechunk() yields the first n bytes it holds, copied; uploadChunked() sends
\* them, or throws when they exceed the declared size.
Take(n) ==
    /\ held' = SubSeq(held, n + 1, Len(held))
    /\ IF Len(sent) + n > ByteCount
       THEN Throw("overrun") /\ UNCHANGED sentVars
       ELSE /\ sent' = sent \o Bytes(SubSeq(held, 1, n))
            /\ lengths' = Append(lengths, n)
            /\ UNCHANGED <<pc, outcome, thrown>>
    /\ UNCHANGED <<reuses, second, hasher, buffer, ended>>

TakeChunk ==
    /\ pc = "send"
    /\ Len(held) >= ChunkSize
    /\ Take(ChunkSize)

\* Defect: the last bytes are dropped when the stream ends.
TakeRestDropped ==
    /\ pc = "send"
    /\ ended
    /\ Len(held) \in 1..(ChunkSize - 1)
    /\ held' = <<>>
    /\ UNCHANGED <<pc, reuses, second, hasher, buffer, ended, sentVars, outcome, thrown>>

\* Defect: what is held is sent before the stream has ended.
TakeRestEarly ==
    /\ pc = "send"
    /\ Len(held) \in 1..(ChunkSize - 1)
    /\ Take(Len(held))

\* The last chunk is shorter.
TakeRest ==
    /\ pc = "send"
    /\ ended
    /\ Len(held) \in 1..(ChunkSize - 1)
    /\ Take(Len(held))

\* A chunk or the request that opens the upload fails, or the caller aborts.
UploadFails ==
    /\ pc = "send"
    /\ Throw("upload")
    /\ UNCHANGED <<reuses, second, hasher, buffer, held, ended, sentVars>>

\* Every chunk has landed: check the length, then that the two reads were the
\* same, then finalize.
Finalize ==
    /\ pc = "send"
    /\ ended
    /\ held = <<>>
    /\ \/ Len(sent) # ByteCount /\ Throw("short")
       \/ Len(sent) = ByteCount /\ ~SameStream /\ Throw("changed")
       \/ Len(sent) = ByteCount /\ SameStream /\ Finish("finalized", "none")
    /\ UNCHANGED <<reuses, second, hasher, buffer, held, ended, sentVars>>

---------------------------------------------------------------------------
(* Sending whole *)

\* The copies are joined after the header and handed to uploadSigned().
PostWhole ==
    /\ pc = "copy"
    /\ ended
    /\ IF SameStream
       THEN /\ Finish("posted", "none")
            /\ sent' = Header \o Bytes(held)
            /\ lengths' = <<ByteCount>>
       ELSE Throw("changed") /\ UNCHANGED sentVars
    /\ UNCHANGED <<reuses, second, hasher, buffer, held, ended>>

Settled ==
    /\ pc = "done"
    /\ UNCHANGED vars

SignStep == (\E n \in 0..(Size + Excess) : FirstReadEnds(n)) \/ SignerThrows \/ SignatureMade
ReadStep == PieceArrives \/ StreamEnds \/ StreamThrows
SendStep == TakeChunk \/ TakeRest \/ UploadFails \/ Finalize \/ PostWhole

Next == SignStep \/ ReadStep \/ SendStep \/ Settled

Spec == Init /\ [][Next]_vars

---------------------------------------------------------------------------
(* Properties *)

SignedItem == Header \o Signed

\* "No item with a bad signature is paid for" (uploadStream): what is finalized
\* or posted is what was signed, whatever the second read produced and however
\* it was cut, for every item sent whole and every stream that does not reuse
\* its buffer.
OnlySignedBytesLeave ==
    /\ outcome = "posted" => sent = SignedItem
    /\ outcome = "finalized" /\ ~reuses => sent = SignedItem

\* rechunk() neither loses, repeats nor reorders a byte: what was sent and what
\* is held are, in order, the header and what has been read, and every chunk but
\* the last is a whole one, whichever boundaries the pieces straddle.
NothingLostInRechunk ==
    pc = "send" /\ ~reuses =>
        /\ sent \o Bytes(held) = Header \o second
        /\ \A k \in 1..Len(lengths) : lengths[k] = ChunkSize \/ (k = Len(lengths) /\ ended)

\* The digest of the second read depends on its bytes only, not on the pieces
\* they came in: at every moment it is the one FIPS 180-4 defines for them, so
\* that no stream is taken for another, nor the same one for a different one.
DigestIsOfTheBytes ==
    pc \in {"send", "copy"} => Digest(hasher) = DigestOf(second)

\* "Without holding it in memory": rechunk() never holds more than the rest of
\* a chunk, the header and one piece.
HeldBounded ==
    pc = "send" => Len(held) < ChunkSize + IF HeaderSize > MaxPiece THEN HeaderSize ELSE MaxPiece

\* "The second read is hashed as it is sent" (uploadStream), so no other bytes
\* are finalized.
HashedAsSent == outcome = "finalized" => sent = Header \o second
=============================================================================
