---------------------------- MODULE HttpRequest ----------------------------
(***************************************************************************)
(* One call of request() of src/core/http.js: attempts with a timeout      *)
(* each, the caller's signal, backoff between attempts, and the reading of *)
(* the response's body.                                                    *)
(*                                                                         *)
(* The timer, the caller's signal and the server run concurrently with     *)
(* the call.  Between two awaits the call runs alone, so everything it     *)
(* does there is one action.                                               *)
(***************************************************************************)
EXTENDS Integers

CONSTANTS
    Retries,          \* retry.retries
    OkStatuses,       \* 2xx
    RetryStatuses,    \* retry.retryStatuses
    AllowedStatuses,  \* opts.allowedStatuses
    PaymentStatuses,  \* {402}
    OtherStatuses,    \* every other status
    Bodies            \* what a server may answer with

ASSUME HttpRetriesAssumption == Retries \in Nat
ASSUME StatusAssumption ==
    /\ OkStatuses \cap (RetryStatuses \cup PaymentStatuses \cup OtherStatuses) = {}
    /\ "none" \notin Bodies /\ "empty" \notin Bodies
\* The caller has not put 402 among the statuses to retry.
ASSUME PaymentAssumption == PaymentStatuses \cap RetryStatuses = {}

Statuses == OkStatuses \cup RetryStatuses \cup AllowedStatuses
              \cup PaymentStatuses \cup OtherStatuses

\* What request() throws: a TurboError, or the caller's own abort reason.
TurboErrors == {"aborted", "timeout", "network", "http", "payment"}
ThrownByRequest == TurboErrors \cup {"reason"}

VARIABLES
    pc,         \* "begin", "fetch", "body", "errorBody", "sleep" or "settled"
    attempt,    \* retries used
    timer,      \* this attempt's timer: "cleared", "armed" or "fired"
    aborted,    \* the caller's signal
    fetches,    \* requests put on the network
    status,     \* of the response being read
    body,       \* what readBody() returned
    lastError,
    result,     \* "pending", "returned" or "threw"
    thrown

requestVars == <<pc, attempt, timer, fetches, status, body, lastError, result, thrown>>
httpVars == <<requestVars, aborted>>

HttpInit ==
    /\ pc = "begin"
    /\ attempt = 0
    /\ timer = "cleared"
    /\ aborted \in BOOLEAN
    /\ fetches = 0
    /\ status = "none"
    /\ body = "none"
    /\ lastError = "none"
    /\ result = "pending"
    /\ thrown = "none"

Throw(e) ==
    /\ pc' = "settled"
    /\ result' = "threw"
    /\ thrown' = e

\* Defect: one retry too many.
CanRetryOnceMore == attempt <= Retries

\* Defect: the first failure is the last attempt's.
CanRetryOnceLess == attempt + 1 < Retries

\* attempt++ < cfg.retries
CanRetry == attempt < Retries

\* The attempt failed with e: sleep and try again, or throw e.
RetryOrThrow(e, retryable) ==
    /\ lastError' = e
    /\ IF retryable /\ CanRetry
       THEN /\ attempt' = attempt + 1
            /\ pc' = "sleep"
            /\ UNCHANGED <<result, thrown>>
       ELSE /\ Throw(e)
            /\ UNCHANGED attempt

\* Arm this attempt's timer and call fetch(). With an aborted signal fetch()
\* rejects and sends nothing.
Fetch ==
    /\ pc = "begin"
    /\ pc' = "fetch"
    /\ timer' = "armed"
    /\ fetches' = IF aborted THEN fetches ELSE fetches + 1
    /\ UNCHANGED <<attempt, aborted, status, body, lastError, result, thrown>>

\* Defect: a rejected fetch() leaves its timer armed.
FetchRejectsTimerKept ==
    /\ pc = "fetch"
    /\ IF aborted
       THEN Throw("aborted") /\ UNCHANGED <<attempt, lastError>>
       ELSE RetryOrThrow(IF timer = "fired" THEN "timeout" ELSE "network", TRUE)
    /\ UNCHANGED <<timer, aborted, fetches, status, body>>

\* fetch() rejects: by the caller's signal, by the timer, or by the network.
FetchRejects ==
    /\ pc = "fetch"
    /\ IF aborted
       THEN Throw("aborted") /\ UNCHANGED <<attempt, lastError>>
       ELSE RetryOrThrow(IF timer = "fired" THEN "timeout" ELSE "network", TRUE)
    /\ timer' = "cleared"
    /\ UNCHANGED <<aborted, fetches, status, body>>

\* fetch() resolves with the head of a response, if this attempt was sent; the
\* timer is cleared before its body is read.
FetchResolves(s) ==
    /\ pc = "fetch"
    /\ fetches = attempt + 1
    /\ status' = s
    /\ timer' = "cleared"
    /\ pc' = IF s \in OkStatuses \cup AllowedStatuses THEN "body" ELSE "errorBody"
    /\ UNCHANGED <<attempt, aborted, fetches, body, lastError, result, thrown>>

\* The body of a 2xx or an allowed status has been read, as b.
ReturnWith(b) ==
    /\ pc = "body"
    /\ body' = b
    /\ pc' = "settled"
    /\ result' = "returned"
    /\ UNCHANGED <<attempt, timer, aborted, fetches, status, lastError, thrown>>

\* Defect: a 402 is retried too.
ErrorBodyReadRetryingPayment(b) ==
    /\ pc = "errorBody"
    /\ body' = b
    /\ RetryOrThrow(IF status \in PaymentStatuses THEN "payment" ELSE "http",
                    status \in RetryStatuses \cup PaymentStatuses)
    /\ UNCHANGED <<timer, aborted, fetches, status>>

\* The body of an error has been read: retry the transient ones.
ErrorBodyRead(b) ==
    /\ pc = "errorBody"
    /\ body' = b
    /\ RetryOrThrow(IF status \in PaymentStatuses THEN "payment" ELSE "http",
                    status \in RetryStatuses)
    /\ UNCHANGED <<timer, aborted, fetches, status>>

\* The whole body arrives.
BodyArrives == \E b \in Bodies : ReturnWith(b) \/ ErrorBodyRead(b)

\* res.text() rejects, because the connection breaks or the caller aborts:
\* readBody() takes it for an empty body.
BodyFails == ReturnWith("empty") \/ ErrorBodyRead("empty")

\* Defect: an aborted backoff clears its timer and never rejects.
SleepEndsUnlessAborted ==
    /\ pc = "sleep"
    /\ ~aborted
    /\ pc' = "begin"
    /\ UNCHANGED <<attempt, timer, aborted, fetches, status, body, lastError, result, thrown>>

\* The backoff ends, or the caller's signal rejects it with its own reason.
SleepEnds ==
    /\ pc = "sleep"
    /\ IF aborted
       THEN Throw("reason")
       ELSE pc' = "begin" /\ UNCHANGED <<result, thrown>>
    /\ UNCHANGED <<attempt, timer, aborted, fetches, status, body, lastError>>

TimerFires ==
    /\ timer = "armed"
    /\ timer' = "fired"
    /\ UNCHANGED <<pc, attempt, aborted, fetches, status, body, lastError, result, thrown>>

CallerAborts ==
    /\ ~aborted
    /\ result = "pending"
    /\ aborted' = TRUE
    /\ UNCHANGED requestVars

\* Defect: fetch() is given the timer's signal only, not the caller's.
SignalStepTimerOnly == timer = "fired" /\ FetchRejects

\* An aborted signal, from the timer or from the caller, makes fetch() reject
\* and the read of a body fail.
SignalStep ==
    \/ (timer = "fired" \/ aborted) /\ FetchRejects
    \/ aborted /\ BodyFails

\* Steps of request() and of the timer, whatever the server does.
CallStep == Fetch \/ SleepEnds \/ SignalStep

\* The network: it may fail, answer with any status, and never finish a body.
NetworkStep ==
    \/ FetchRejects
    \/ BodyFails
    \/ \E s \in Statuses : FetchResolves(s)
    \/ BodyArrives

HttpSettled ==
    /\ result # "pending"
    /\ UNCHANGED httpVars

HttpNext ==
    \/ CallStep
    \/ NetworkStep
    \/ TimerFires
    \/ CallerAborts
    \/ HttpSettled

HttpSpec == HttpInit /\ [][HttpNext]_httpVars

\* Timers fire and promises that have settled are noticed; nothing is assumed
\* of the network, so a response may never come and a body may never end.
ClientFairness == WF_httpVars(CallStep) /\ WF_httpVars(TimerFires)

FairHttpSpec == HttpSpec /\ ClientFairness

---------------------------------------------------------------------------
(* Properties *)

\* Type correctness; at most Retries + 1 requests are put on the network.
HttpTypeOK ==
    /\ pc \in {"begin", "fetch", "body", "errorBody", "sleep", "settled"}
    /\ attempt \in 0..Retries
    /\ timer \in {"cleared", "armed", "fired"}
    /\ aborted \in BOOLEAN
    /\ fetches \in 0..(Retries + 1)
    /\ status \in Statuses \cup {"none"}
    /\ body \in Bodies \cup {"none", "empty"}
    /\ lastError \in TurboErrors \cup {"none"}
    /\ result \in {"pending", "returned", "threw"}
    /\ thrown \in ThrownByRequest \cup {"none"}

\* No timer outlives its attempt: none is armed while a body is read, during
\* a backoff or after the call has settled, on any of the ways out of fetch().
NoTimerLeft == pc # "fetch" => timer = "cleared"

\* Every retry is spent on a transient failure before it is thrown, and none on
\* a 402: "A payment failure is not transient" (errors.js), it ends the call and
\* is what the caller sees, whatever failed before it.
RetriesAreExact ==
    /\ fetches <= Retries + 1
    /\ thrown \in {"timeout", "network"} \/ (thrown = "http" /\ status \in RetryStatuses)
           => fetches = Retries + 1
    /\ lastError = "payment" => thrown = "payment"

\* "`timeoutMs` bounds each request" (http.js), and a bounded number of
\* requests with a bounded backoff makes a bounded call.
TimeoutBoundsTheCall == <>(result # "pending")

=============================================================================
