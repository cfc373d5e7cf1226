--------------------------- MODULE ChunkedUpload ---------------------------
(***************************************************************************)
(* One chunked upload: uploadChunked() of src/core/chunked.js, with every  *)
(* request it makes through request() of src/core/http.js, the network     *)
(* between them, and the multipart service as the code relies on it.       *)
(*                                                                         *)
(* Data is measured in chunks: the declared item is ByteCount chunks long  *)
(* and the k-th chunk of the source is chunk k.  The loop that pulls the   *)
(* source (pc), each chunk's POST (post[c]) and the caller's signal        *)
(* (aborted) run concurrently.  A message, once sent, may reach the        *)
(* service at any later time, several times, or never.                     *)
(***************************************************************************)
EXTENDS Integers, FiniteSets

CONSTANTS
    ByteCount,         \* chunks in the declared item
    ChunkConcurrency,  \* POSTs allowed in flight at once
    Retries            \* retry.retries: attempts after the first one

ASSUME ByteCountAssumption == ByteCount \in Nat \ {0}
ASSUME ConcurrencyAssumption == ChunkConcurrency \in Nat \ {0}
ASSUME RetriesAssumption == Retries \in Nat

Chunk == 1..ByteCount

\* What the caller's own code throws, which need not be an Error: any value but
\* a falsy one, which `firstError || err` would take for none.
CallersErrors == {
    "reason",        \* the abort signal's own reason, thrown by sleep()
    "source",        \* whatever the source threw
    "progress" }     \* whatever onProgress threw

\* The errors that reach the caller, by where they come from.
ThrownErrors == CallersErrors \cup {
    "unreachable",   \* TurboNetworkError, or TurboTimeoutError of one attempt
    "http",          \* TurboHTTPError or TurboPaymentError of a response
    "aborted",       \* TurboTimeoutError: aborted by the caller's signal
    "typeError",     \* what a value that takes no property throws instead
    "overrun",       \* the source produced more than the declared size
    "short",         \* the source produced less than the declared size
    "changed",       \* the second read of the stream differs from the first
    "notOpened",     \* the service's answer to init holds no upload id
    "verification",  \* the receipt names another item
    "payment",       \* the service reports UNDERFUNDED
    "failed",        \* the service reports INVALID, APPROVAL_FAILED, ...
    "waitRanOut" }   \* still assembling when the deadline passed

\* A request: idle, on the wire, sleeping before its next attempt, settled.
\* "barred" is a fetch() called with a signal that was aborted already: it
\* rejects and sends nothing.
Request == {"idle", "wire", "barred", "backoff", "done", "failed"}
Active == {"wire", "barred", "backoff"}
Start(signalled) == IF signalled THEN "barred" ELSE "wire"
CanRetry(n) == n < Retries

VARIABLES
    \* the client
    pc,           \* where uploadChunked() is
    offset,       \* chunks pulled from the source
    post,         \* the POST of each chunk
    tries,        \* the retries each of them has used: `attempt` in request()
    call,         \* the request uploadChunked() itself awaits
    callTries,    \* the retries it has used
    firstError,   \* the first failure of the chunk phase
    stopped,      \* stop.signal is aborted
    sent,         \* chunks counted as landed
    reported,     \* processedBytes of the last onProgress call
    uploadId,     \* the client holds an upload id
    expired,      \* the wait for finalization is over its deadline
    outcome,      \* "pending", "resolved" or "rejected"
    thrown,       \* what it was rejected with
    tagged,       \* whether that error carries .uploadId
    \* its caller
    aborted,      \* the caller's signal is aborted
    sameBytes,    \* the bytes sent are the bytes that were signed
    \* the network and the service
    sentChunks,   \* chunks ever put on the network
    finalizeSent, \* a finalize was ever put on the network
    received,     \* chunks the service holds
    svc,          \* the service's status of the upload
    receiptId     \* the id in its receipt

postVars == <<post, tries>>
callVars == <<call, callTries>>
resultVars == <<outcome, thrown, tagged>>
loopVars == <<pc, offset, firstError, stopped, sent, reported, uploadId, expired>>
inputVars == <<aborted, sameBytes>>
netVars == <<sentChunks, finalizeSent>>
serviceVars == <<received, svc, receiptId>>
vars == <<postVars, callVars, resultVars, loopVars, inputVars, netVars, serviceVars>>

InFlight == {c \in Chunk : post[c] \in Active}

Landed == {c \in Chunk : post[c] = "done"}

\* Defect: the internal abort is not composed with the caller's signal.
CallerAbortedOnly == aborted

\* chunkSignal: the caller's signal composed with the internal one.
ChunkAborted == aborted \/ stopped

Init ==
    /\ aborted \in BOOLEAN
    /\ sameBytes \in BOOLEAN
    /\ pc = "init"
    /\ call = Start(aborted)
    /\ callTries = 0
    /\ offset = 0
    /\ post = [c \in Chunk |-> "idle"]
    /\ tries = [c \in Chunk |-> 0]
    /\ firstError = "none"
    /\ stopped = FALSE
    /\ sent = 0
    /\ reported = 0
    /\ uploadId = FALSE
    /\ expired = FALSE
    /\ outcome = "pending"
    /\ thrown = "none"
    /\ tagged = FALSE
    /\ sentChunks = {}
    /\ finalizeSent = FALSE
    /\ received = {}
    /\ svc = "open"
    /\ receiptId = "missing"

---------------------------------------------------------------------------
(* Leaving uploadChunked() *)

Reject(e, withId) ==
    /\ outcome' = "rejected"
    /\ thrown' = e
    /\ tagged' = withId
    /\ pc' = "done"
    /\ call' = "idle"
    /\ callTries' = 0

Resolve ==
    /\ outcome' = "resolved"
    /\ UNCHANGED <<thrown, tagged>>
    /\ pc' = "done"
    /\ call' = "idle"
    /\ callTries' = 0

\* Defect: `firstError = err`.
FailWithLast(e) ==
    /\ firstError' = e
    /\ stopped' = TRUE

\* `firstError = firstError || err; stop.abort(err)`
Fail(e) ==
    /\ firstError' = IF firstError = "none" THEN e ELSE firstError
    /\ stopped' = TRUE

---------------------------------------------------------------------------
(* The loop: for await (const chunk of chunks) *)

StartPost(c) ==
    /\ post' = [post EXCEPT ![c] = Start(ChunkAborted)]
    /\ UNCHANGED tries
    /\ sentChunks' = IF ChunkAborted THEN sentChunks ELSE sentChunks \cup {c}

\* The source yields its next chunk and it is posted; wait for room if the
\* requests in flight have reached the bound.
PullAndPost ==
    /\ pc = "pull"
    /\ firstError = "none"
    /\ offset < ByteCount
    /\ offset' = offset + 1
    /\ StartPost(offset + 1)
    /\ pc' = IF Cardinality(InFlight \cup {offset + 1}) >= ChunkConcurrency
             THEN "room" ELSE "pull"
    /\ UNCHANGED <<callVars, firstError, stopped, sent, reported, uploadId, expired,
                   resultVars, inputVars, finalizeSent, serviceVars>>

\* The source yields more than the declared size.
PullOverrun ==
    /\ pc = "pull"
    /\ firstError = "none"
    /\ offset = ByteCount
    /\ offset' = offset + 1
    /\ Fail("overrun")
    /\ pc' = "settle"
    /\ UNCHANGED <<postVars, callVars, sent, reported, uploadId, expired,
                   resultVars, inputVars, netVars, serviceVars>>

\* The source yields, but a chunk has failed meanwhile: `if (firstError) break`.
PullAfterFailure ==
    /\ pc = "pull"
    /\ firstError # "none"
    /\ pc' = "settle"
    /\ UNCHANGED <<postVars, callVars, offset, firstError, stopped, sent, reported, uploadId,
                   expired, resultVars, inputVars, netVars, serviceVars>>

SourceEnds ==
    /\ pc = "pull"
    /\ pc' = "settle"
    /\ UNCHANGED <<postVars, callVars, offset, firstError, stopped, sent, reported, uploadId,
                   expired, resultVars, inputVars, netVars, serviceVars>>

SourceThrows ==
    /\ pc = "pull"
    /\ Fail("source")
    /\ pc' = "settle"
    /\ UNCHANGED <<postVars, callVars, offset, sent, reported, uploadId, expired,
                   resultVars, inputVars, netVars, serviceVars>>

\* Defect: the bound is off by one.
RoomForOneMore ==
    /\ pc = "room"
    /\ Cardinality(InFlight) <= ChunkConcurrency
    /\ pc' = "pull"
    /\ UNCHANGED <<postVars, callVars, offset, firstError, stopped, sent, reported, uploadId,
                   expired, resultVars, inputVars, netVars, serviceVars>>

\* await Promise.race(inFlight): one of them settled and left the set.
RoomFound ==
    /\ pc = "room"
    /\ Cardinality(InFlight) < ChunkConcurrency
    /\ pc' = "pull"
    /\ UNCHANGED <<postVars, callVars, offset, firstError, stopped, sent, reported, uploadId,
                   expired, resultVars, inputVars, netVars, serviceVars>>

---------------------------------------------------------------------------
(* After the loop: await Promise.allSettled(inFlight), then the checks *)

\* `firstError.uploadId = uploadId; throw firstError`: on a string or a frozen
\* object, which only the caller's code throws, the assignment throws a
\* TypeError of its own.
RejectWith(e) ==
    \/ Reject(e, TRUE)
    \/ e \in CallersErrors /\ Reject("typeError", FALSE)

\* Defect: allSettled is not awaited before throwing.
RejectAtOnce ==
    /\ pc = "settle"
    /\ firstError # "none"
    /\ RejectWith(firstError)
    /\ UNCHANGED <<postVars, offset, firstError, stopped, sent, reported, uploadId,
                   expired, inputVars, netVars, serviceVars>>

\* Every request has settled; a failed chunk phase ends here.
RejectFirstError ==
    /\ pc = "settle"
    /\ InFlight = {}
    /\ firstError # "none"
    /\ RejectWith(firstError)
    /\ UNCHANGED <<postVars, offset, firstError, stopped, sent, reported, uploadId,
                   expired, inputVars, netVars, serviceVars>>

\* Everything landed, but it is not the item that was declared and signed.
RejectWrongSource ==
    /\ pc = "settle"
    /\ InFlight = {}
    /\ firstError = "none"
    /\ \/ offset # ByteCount /\ Reject("short", FALSE)
       \/ offset = ByteCount /\ ~sameBytes /\ Reject("changed", FALSE)
    /\ UNCHANGED <<postVars, offset, firstError, stopped, sent, reported, uploadId,
                   expired, inputVars, netVars, serviceVars>>

\* Defect: the second read of the stream is not compared before finalize.
SendFinalizeUnchecked ==
    /\ pc = "settle"
    /\ InFlight = {}
    /\ firstError = "none"
    /\ offset = ByteCount
    /\ pc' = "finalize"
    /\ call' = Start(aborted)
    /\ callTries' = 0
    /\ finalizeSent' = ~aborted
    /\ UNCHANGED <<postVars, offset, firstError, stopped, sent, reported, uploadId, expired,
                   resultVars, inputVars, sentChunks, serviceVars>>

SendFinalize ==
    /\ pc = "settle"
    /\ InFlight = {}
    /\ firstError = "none"
    /\ offset = ByteCount
    /\ sameBytes
    /\ pc' = "finalize"
    /\ call' = Start(aborted)
    /\ callTries' = 0
    /\ finalizeSent' = ~aborted
    /\ UNCHANGED <<postVars, offset, firstError, stopped, sent, reported, uploadId, expired,
                   resultVars, inputVars, sentChunks, serviceVars>>

---------------------------------------------------------------------------
(* One chunk's POST, with its own attempts *)

ChunkFails(c, e) ==
    /\ post' = [post EXCEPT ![c] = "failed"]
    /\ UNCHANGED tries
    /\ Fail(e)

ChunkRetries(c) ==
    /\ CanRetry(tries[c])
    /\ post' = [post EXCEPT ![c] = "backoff"]
    /\ tries' = [tries EXCEPT ![c] = @ + 1]
    /\ UNCHANGED <<firstError, stopped>>

\* The service answered 2xx. onProgress is called unless a chunk has failed.
PostLands(c) ==
    /\ post[c] = "wire"
    /\ c \in received
    /\ sent' = sent + 1
    /\ reported' = IF firstError = "none" THEN sent + 1 ELSE reported
    /\ \/ /\ post' = [post EXCEPT ![c] = "done"]
          /\ UNCHANGED <<tries, firstError, stopped>>
       \/ /\ firstError = "none"          \* onProgress throws
          /\ ChunkFails(c, "progress")
    /\ UNCHANGED <<pc, callVars, offset, uploadId, expired, resultVars, inputVars,
                   netVars, serviceVars>>

\* fetch() rejects: the signal, this attempt's timeout, or the network.
PostThrows(c) ==
    /\ post[c] \in {"wire", "barred"}
    /\ \/ ChunkAborted /\ ChunkFails(c, "aborted")
       \/ ~ChunkAborted /\ ChunkRetries(c)
       \/ ~ChunkAborted /\ ~CanRetry(tries[c]) /\ ChunkFails(c, "unreachable")
    /\ UNCHANGED <<pc, callVars, offset, sent, reported, uploadId, expired, resultVars,
                   inputVars, netVars, serviceVars>>

\* A response that is not 2xx: retried if its status is, otherwise thrown.
PostRefused(c) ==
    /\ post[c] = "wire"
    /\ ChunkRetries(c) \/ ChunkFails(c, "http")
    /\ UNCHANGED <<pc, callVars, offset, sent, reported, uploadId, expired, resultVars,
                   inputVars, netVars, serviceVars>>

\* The backoff ends: the next attempt, or at once when the signal aborts.
PostResumes(c) ==
    /\ post[c] = "backoff"
    /\ \/ /\ ~ChunkAborted
          /\ post' = [post EXCEPT ![c] = "wire"]
          /\ sentChunks' = sentChunks \cup {c}
          /\ UNCHANGED <<tries, firstError, stopped>>
       \/ /\ ChunkAborted
          /\ ChunkFails(c, "reason")
          /\ UNCHANGED sentChunks
    /\ UNCHANGED <<pc, callVars, offset, sent, reported, uploadId, expired, resultVars,
                   inputVars, finalizeSent, serviceVars>>

PostStep(c) == PostLands(c) \/ PostThrows(c) \/ PostRefused(c) \/ PostResumes(c)

---------------------------------------------------------------------------
(* The requests uploadChunked() itself awaits: init, finalize, status *)

CallRetries ==
    /\ CanRetry(callTries)
    /\ call' = "backoff"
    /\ callTries' = callTries + 1
    /\ UNCHANGED <<pc, resultVars>>

CallThrows ==
    /\ call \in {"wire", "barred"}
    /\ \/ aborted /\ Reject("aborted", FALSE)
       \/ ~aborted /\ CallRetries
       \/ ~aborted /\ ~CanRetry(callTries) /\ Reject("unreachable", FALSE)
    /\ UNCHANGED <<postVars, offset, firstError, stopped, sent, reported, uploadId, expired,
                   inputVars, netVars, serviceVars>>

CallRefused ==
    /\ call = "wire"
    /\ CallRetries \/ Reject("http", FALSE)
    /\ UNCHANGED <<postVars, offset, firstError, stopped, sent, reported, uploadId, expired,
                   inputVars, netVars, serviceVars>>

CallResumes ==
    /\ call = "backoff"
    /\ \/ /\ ~aborted
          /\ call' = "wire"
          /\ finalizeSent' = (finalizeSent \/ pc = "finalize")
          /\ UNCHANGED <<pc, callTries, resultVars>>
       \/ /\ aborted
          /\ Reject("reason", FALSE)
          /\ UNCHANGED finalizeSent
    /\ UNCHANGED <<postVars, offset, firstError, stopped, sent, reported, uploadId, expired,
                   inputVars, sentChunks, serviceVars>>

\* init is answered, with an upload id or without one.
InitAnswered ==
    /\ pc = "init"
    /\ call = "wire"
    /\ \/ /\ uploadId' = TRUE
          /\ pc' = "pull"
          /\ call' = "idle"
          /\ callTries' = 0
          /\ UNCHANGED resultVars
       \/ /\ Reject("notOpened", FALSE)
          /\ UNCHANGED uploadId
    /\ UNCHANGED <<postVars, offset, firstError, stopped, sent, reported, expired,
                   inputVars, netVars, serviceVars>>

\* finalize is answered: the service has taken it. The first status request
\* follows at once.
FinalizeAnswered ==
    /\ pc = "finalize"
    /\ call = "wire"
    /\ svc # "open"
    /\ pc' = "status"
    /\ call' = Start(aborted)
    /\ callTries' = 0
    /\ UNCHANGED <<postVars, offset, firstError, stopped, sent, reported, uploadId, expired,
                   resultVars, inputVars, netVars, serviceVars>>

\* status is answered with a final state.
StatusFinal ==
    /\ pc = "status"
    /\ call = "wire"
    /\ \/ svc = "FINALIZED" /\ receiptId # "other" /\ Resolve
       \/ svc = "FINALIZED" /\ receiptId = "other" /\ Reject("verification", FALSE)
       \/ svc = "UNDERFUNDED" /\ Reject("payment", TRUE)
       \/ svc = "FAILED" /\ Reject("failed", TRUE)
    /\ UNCHANGED <<postVars, offset, firstError, stopped, sent, reported, uploadId, expired,
                   inputVars, netVars, serviceVars>>

\* Defect: the wait has no deadline.
StatusNotYetForever ==
    /\ pc = "status"
    /\ call = "wire"
    /\ pc' = "wait"
    /\ call' = "idle"
    /\ callTries' = 0
    /\ UNCHANGED <<postVars, offset, firstError, stopped, sent, reported, uploadId, expired,
                   resultVars, inputVars, netVars, serviceVars>>

\* Defect: an answer without a final state is taken for success.
StatusNotYetResolves ==
    /\ pc = "status"
    /\ call = "wire"
    /\ Resolve
    /\ UNCHANGED <<postVars, offset, firstError, stopped, sent, reported, uploadId, expired,
                   inputVars, netVars, serviceVars>>

\* status is answered with 404, 503 or a state that is not final, whatever the
\* service's state is by now: sleep before the next one, while time is left.
StatusNotYet ==
    /\ pc = "status"
    /\ call = "wire"
    /\ \/ /\ ~expired
          /\ pc' = "wait"
          /\ call' = "idle"
          /\ callTries' = 0
          /\ UNCHANGED resultVars
       \/ /\ expired
          /\ Reject("waitRanOut", TRUE)
    /\ UNCHANGED <<postVars, offset, firstError, stopped, sent, reported, uploadId, expired,
                   inputVars, netVars, serviceVars>>

\* The sleep between two status requests ends, or the caller aborts it.
WaitEnds ==
    /\ pc = "wait"
    /\ \/ /\ ~aborted
          /\ pc' = "status"
          /\ call' = Start(aborted)
          /\ callTries' = 0
          /\ UNCHANGED resultVars
       \/ /\ aborted
          /\ Reject("aborted", FALSE)
    /\ UNCHANGED <<postVars, offset, firstError, stopped, sent, reported, uploadId, expired,
                   inputVars, netVars, serviceVars>>

\* Date.now() reaches the deadline.
DeadlinePasses ==
    /\ pc \in {"status", "wait"}
    /\ ~expired
    /\ expired' = TRUE
    /\ UNCHANGED <<postVars, callVars, resultVars, pc, offset, firstError, stopped, sent,
                   reported, uploadId, inputVars, netVars, serviceVars>>

CallStep ==
    \/ CallThrows \/ CallRefused \/ CallResumes
    \/ InitAnswered \/ FinalizeAnswered \/ StatusFinal \/ StatusNotYet

SourceStep == PullAndPost \/ PullOverrun \/ PullAfterFailure \/ SourceEnds \/ SourceThrows

LoopStep == RoomFound \/ RejectFirstError \/ RejectWrongSource \/ SendFinalize \/ WaitEnds

---------------------------------------------------------------------------
(* The caller *)

CallerAborts ==
    /\ pc # "done"
    /\ ~aborted
    /\ aborted' = TRUE
    /\ UNCHANGED <<postVars, callVars, resultVars, loopVars, sameBytes, netVars, serviceVars>>

---------------------------------------------------------------------------
(* The service, as the code relies on it *)

\* A chunk arrives: the first copy of it, a repeat, or one long given up on.
ServiceReceives(c) ==
    /\ c \in sentChunks
    /\ svc = "open"
    /\ received' = received \cup {c}
    /\ UNCHANGED <<postVars, callVars, resultVars, loopVars, inputVars, netVars, svc, receiptId>>

\* A finalize arrives; a repeat of it changes nothing.
ServiceTakesFinalize ==
    /\ finalizeSent
    /\ svc = "open"
    /\ svc' = "ASSEMBLING"
    /\ UNCHANGED <<postVars, callVars, resultVars, loopVars, inputVars, netVars, received, receiptId>>

\* The service assembles what it holds, checks its signature, and charges.
ServiceDecides ==
    /\ svc = "ASSEMBLING"
    /\ \/ /\ received = Chunk /\ sameBytes
          /\ svc' = "FINALIZED"
          /\ receiptId' \in {"expected", "other", "missing"}
       \/ /\ svc' \in {"UNDERFUNDED", "FAILED"}
          /\ UNCHANGED receiptId
    /\ UNCHANGED <<postVars, callVars, resultVars, loopVars, inputVars, netVars, received>>

ServiceStep ==
    \/ \E c \in Chunk : ServiceReceives(c)
    \/ ServiceTakesFinalize
    \/ ServiceDecides

---------------------------------------------------------------------------
\* The promise has settled; only the service can still move.
Settled ==
    /\ outcome # "pending"
    /\ UNCHANGED vars

Next ==
    \/ SourceStep
    \/ LoopStep
    \/ \E c \in Chunk : PostStep(c)
    \/ CallStep
    \/ DeadlinePasses
    \/ CallerAborts
    \/ ServiceStep
    \/ Settled

Spec == Init /\ [][Next]_vars

\* Promises settle and timers fire: every attempt is bounded by its timeout,
\* the source answers each pull, and time passes. Nothing is assumed of the
\* service or of the caller's signal.
Fairness ==
    /\ WF_vars(SourceStep)
    /\ WF_vars(LoopStep)
    /\ \A c \in Chunk : WF_vars(PostStep(c))
    /\ WF_vars(CallStep)
    /\ WF_vars(DeadlinePasses)

FairSpec == Spec /\ Fairness

---------------------------------------------------------------------------
(* Properties *)

FlagsOK ==
    /\ stopped \in BOOLEAN
    /\ uploadId \in BOOLEAN
    /\ expired \in BOOLEAN
    /\ tagged \in BOOLEAN
    /\ aborted \in BOOLEAN
    /\ sameBytes \in BOOLEAN
    /\ finalizeSent \in BOOLEAN

DataOK ==
    /\ pc \in {"init", "pull", "room", "settle", "finalize", "status", "wait", "done"}
    /\ offset \in 0..(ByteCount + 1)
    /\ post \in [Chunk -> Request]
    /\ tries \in [Chunk -> 0..Retries]
    /\ call \in Request
    /\ callTries \in 0..Retries
    /\ firstError \in ThrownErrors \cup {"none"}
    /\ sent \in Nat
    /\ reported \in Nat
    /\ outcome \in {"pending", "resolved", "rejected"}
    /\ thrown \in ThrownErrors \cup {"none"}
    /\ sentChunks \subseteq Chunk
    /\ received \subseteq Chunk
    /\ svc \in {"open", "ASSEMBLING", "FINALIZED", "UNDERFUNDED", "FAILED"}
    /\ receiptId \in {"expected", "other", "missing"}

\* Type correctness of the client, the network and the service; no request
\* makes more than Retries + 1 attempts.
TypeOK == FlagsOK /\ DataOK

\* The service is asked to assemble and charge only when it holds every chunk,
\* the bytes sent are the bytes signed, and nothing failed on the way: a
\* retried, lost or late chunk, a stream that changed, and a chunk phase that
\* failed can never be paid for.
FinalizeOnlyComplete ==
    finalizeSent => /\ received = Chunk
                    /\ sameBytes
                    /\ firstError = "none"
                    /\ InFlight = {}

\* "Nothing keeps running after this function settles": no chunk request is on
\* the wire or waiting to be retried once the promise has settled.
NothingRunsAfterSettle ==
    outcome # "pending" => InFlight = {} /\ call \notin Active

\* "Bound memory": chunks held at once never exceed chunkConcurrency, however
\* the requests, their retries and the source are interleaved.
InFlightBounded == Cardinality(InFlight) <= ChunkConcurrency

\* The promise resolves only for an item the service holds whole, has assembled
\* and charged for, with no other id in its receipt.
ResolvedIsFinalized ==
    outcome = "resolved" => /\ svc = "FINALIZED"
                            /\ received = Chunk
                            /\ receiptId # "other"
                            /\ thrown = "none"

\* onProgress has counted every chunk by the time the item is finalized: no
\* chunk counted twice after a retry, none missed.
ProgressComplete ==
    pc \in {"finalize", "status", "wait"} => sent = ByteCount /\ reported = ByteCount

\* After a first failure the upload never resolves, and neither the failures it
\* causes in the other chunks nor a later one replaces it: it is what the call
\* rejects with, carrying the upload id.  Only where it is a value of the
\* caller's own, such as a string given to abort(), may a TypeError without the
\* id take its place.
FirstErrorWins ==
    [][firstError # "none" =>
         /\ firstError' = firstError
         /\ outcome' # "resolved"
         /\ outcome' = "rejected" =>
               \/ thrown' = firstError /\ tagged'
               \/ firstError \in CallersErrors /\ thrown' = "typeError" /\ ~tagged']_vars

\* "One failure stops the others": once a chunk has failed, nothing more is
\* put on the network for this upload, neither a new chunk, a retry, nor the
\* finalize.
FailureStopsSending ==
    [][stopped => /\ UNCHANGED netVars
                  /\ \A c \in Chunk : post'[c] = "wire" => post[c] = "wire"]_vars

\* The upload implements what upload() promises.
Promise == INSTANCE UploadPromise WITH
    complete <- received = Chunk /\ sameBytes,
    asked <- finalizeSent,
    charged <- svc = "FINALIZED",
    outcome <- outcome
ImplementsPromise == Promise!Spec

\* The promise settles: whatever is lost or refused, however often it is
\* retried, whatever the service never answers and whenever the caller aborts.
Settles == <>(outcome # "pending")

---------------------------------------------------------------------------
(* The inductive invariant behind the safety properties *)

\* Exactly the chunks up to offset have been posted.
PostsFollowOffset == \A c \in Chunk : post[c] = "idle" <=> c > offset

\* A POST that succeeded was answered by a service that holds the chunk.
LandedIsReceived == \A c \in Chunk : post[c] = "done" => c \in received

\* A failed POST has recorded a first error, and a first error has stopped the rest.
FailuresRecorded ==
    /\ \A c \in Chunk : post[c] = "failed" => firstError # "none"
    /\ stopped <=> firstError # "none"

\* Before a failure, onProgress has reported exactly the chunks that landed.
CountsLanded ==
    firstError = "none" =>
        /\ sent = Cardinality(Landed)
        /\ reported = sent

\* Room: fewer than chunkConcurrency in flight when the next chunk is pulled.
RoomToPull ==
    /\ Cardinality(InFlight) <= ChunkConcurrency
    /\ pc \in {"init", "pull"} => Cardinality(InFlight) < ChunkConcurrency

\* Where uploadChunked() awaits a request of its own, no chunk is in flight.
CallPlaces ==
    /\ call \in Active => pc \in {"init", "finalize", "status"}
    /\ pc = "init" => offset = 0 /\ firstError = "none"
    /\ pc \in {"finalize", "status", "wait"} =>
          InFlight = {} /\ firstError = "none" /\ offset = ByteCount /\ sameBytes

\* What finalize rests on, and what the service does with it.
FinalizePlaces ==
    /\ FinalizeOnlyComplete
    /\ finalizeSent => pc \in {"finalize", "status", "wait", "done"}
    /\ svc # "open" => finalizeSent

\* What the promise settled with.
OutcomePlaces ==
    /\ outcome # "pending" <=> pc = "done"
    /\ pc = "done" => InFlight = {}
    /\ outcome = "resolved" => svc = "FINALIZED" /\ receiptId # "other" /\ firstError = "none"
    /\ outcome = "rejected" /\ firstError # "none" =>
          \/ thrown = firstError /\ tagged
          \/ firstError \in CallersErrors /\ thrown = "typeError" /\ ~tagged
    /\ outcome # "rejected" => thrown = "none"

IInv ==
    /\ TypeOK
    /\ PostsFollowOffset
    /\ LandedIsReceived
    /\ FailuresRecorded
    /\ CountsLanded
    /\ RoomToPull
    /\ CallPlaces
    /\ FinalizePlaces
    /\ OutcomePlaces
=============================================================================
