-------------------------- MODULE MCChunkedUpload --------------------------
(* ChunkedUpload on small instances; the .cfg files give the constants.    *)
EXTENDS ChunkedUpload
=============================================================================
