------------------------------ MODULE DeepHash ------------------------------
(***************************************************************************)
(* deepHash() of src/core/ans104.js over a hash that is not interpreted:   *)
(* a digest is the term that was hashed.                                   *)
(***************************************************************************)
EXTENDS Naturals, Sequences

Sha384(parts) == <<"sha384", parts>>

\* A blob's length, and the digest of its bytes: made here, or as they streamed
\* past.
DeepHashBlob(byteLength, digest) ==
    Sha384(<<Sha384(<<"blob", byteLength>>), digest>>)

Blob(bytes) == DeepHashBlob(Len(bytes), Sha384(bytes))

\* A list, whose elements have been hashed.
DeepHashList(hashes) ==
    LET acc[n \in 0..Len(hashes)] ==
            IF n = 0 THEN Sha384(<<"list", Len(hashes)>>) ELSE Sha384(<<acc[n - 1], hashes[n]>>)
    IN  acc[Len(hashes)]
=============================================================================
