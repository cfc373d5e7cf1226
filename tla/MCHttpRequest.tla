--------------------------- MODULE MCHttpRequest ---------------------------
(* HttpRequest alone, with one status of each kind the code tells apart.   *)
EXTENDS HttpRequest
=============================================================================
