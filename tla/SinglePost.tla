----------------------------- MODULE SinglePost -----------------------------
(***************************************************************************)
(* An item sent in one POST /v1/tx: #postSingle() of src/core/client.js    *)
(* over request() of src/core/http.js, and the upload service as the code  *)
(* relies on it: storing the same item twice is storing it once.           *)
(***************************************************************************)
EXTENDS HttpRequest

VARIABLES
    stored,    \* the service has stored the item and charged for it
    outcome,   \* the promise of upload(): "pending", "resolved" or "rejected"
    failure    \* what it was rejected with

postVars == <<stored, outcome, failure>>
vars == <<httpVars, postVars>>

Init ==
    /\ HttpInit
    /\ stored = FALSE
    /\ outcome = "pending"
    /\ failure = "none"

\* A step of request(); the service answers 2xx only for an item it stored.
RequestStep ==
    /\ HttpNext
    /\ pc = "fetch" /\ pc' = "body" => stored
    /\ UNCHANGED postVars

\* A copy of the item arrives, perhaps after the client has given up on it.
ServiceStores ==
    /\ fetches > 0
    /\ stored' = TRUE
    /\ UNCHANGED <<httpVars, outcome, failure>>

Conclude(o, e) ==
    /\ outcome = "pending"
    /\ outcome' = o
    /\ failure' = e
    /\ UNCHANGED <<httpVars, stored>>

RequestThrew ==
    /\ result = "threw"
    /\ Conclude("rejected", thrown)

\* `if (body.id && body.id !== expectedId) throw`, then onProgress.
ResponseRead ==
    /\ result = "returned"
    /\ IF body = "otherId"
       THEN Conclude("rejected", "verification")
       ELSE Conclude("resolved", "none") \/ Conclude("rejected", "progress")

Next == RequestStep \/ ServiceStores \/ RequestThrew \/ ResponseRead

Spec == Init /\ [][Next]_vars

---------------------------------------------------------------------------
(* Properties *)

PostTypeOK ==
    /\ HttpTypeOK
    /\ stored \in BOOLEAN
    /\ outcome \in {"pending", "resolved", "rejected"}
    /\ failure \in ThrownByRequest \cup {"none", "verification", "progress"}

\* README: "The returned id is checked against the id computed locally from
\* our own signature".
ResolvedIsVerified == outcome = "resolved" => body = "expectedId"
=============================================================================
