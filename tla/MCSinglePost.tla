---------------------------- MODULE MCSinglePost ----------------------------
(* SinglePost with one status of each kind the code tells apart.           *)
EXTENDS SinglePost
=============================================================================
