--------------------------- MODULE UploadPromise ---------------------------
(***************************************************************************)
(* What one call of upload(), uploadSigned() or uploadStream() promises,   *)
(* seen from outside: a promise that settles once, and a service that      *)
(* charges for an item only when it was asked to and holds all of it.      *)
(***************************************************************************)

VARIABLES
    complete,  \* the service was handed every byte of the signed item
    asked,     \* the service was asked to store and charge for it
    charged,   \* the service stored the item and charged for it
    outcome    \* the promise: "pending", "resolved" or "rejected"

vars == <<complete, asked, charged, outcome>>

Init ==
    /\ complete = FALSE
    /\ asked = FALSE
    /\ charged = FALSE
    /\ outcome = "pending"

\* The last missing byte is handed to the service.
Complete ==
    /\ ~complete
    /\ complete' = TRUE
    /\ UNCHANGED <<asked, charged, outcome>>

\* The client asks for a complete item to be stored, in the request that
\* carries all of it or in one that follows; never after it has given up.
Ask ==
    /\ outcome = "pending"
    /\ complete' = TRUE
    /\ asked' = TRUE
    /\ UNCHANGED <<charged, outcome>>

\* The service charges, perhaps long after the client has given up.
Charge ==
    /\ asked
    /\ charged' = TRUE
    /\ UNCHANGED <<complete, asked, outcome>>

Resolve ==
    /\ outcome = "pending"
    /\ charged
    /\ outcome' = "resolved"
    /\ UNCHANGED <<complete, asked, charged>>

Reject ==
    /\ outcome = "pending"
    /\ outcome' = "rejected"
    /\ UNCHANGED <<complete, asked, charged>>

Next == Complete \/ Ask \/ Charge \/ Resolve \/ Reject

Spec == Init /\ [][Next]_vars
=============================================================================
