--------------------------- MODULE MCUploadSigned ---------------------------
(* UploadSigned with items at and over the limit and two chunks.           *)
EXTENDS UploadSigned
=============================================================================
