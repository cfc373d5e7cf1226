------------------------ MODULE UploadSigned_proofs -------------------------
(***************************************************************************)
(* What one call of request(), and one of uploadSigned() over it,          *)
(* guarantees for any number of retries, any statuses and bodies, and      *)
(* items and limits of any size.                                           *)
(***************************************************************************)
EXTENDS UploadSigned, TLAPS

---------------------------------------------------------------------------
(* One call of request() *)

\* One request per attempt, but for one begun with an aborted signal.
FetchesCounted ==
    /\ pc \in {"begin", "sleep"} => fetches = attempt
    /\ pc = "fetch" => fetches = attempt + 1 \/ (aborted /\ fetches = attempt)
    /\ pc \in {"body", "errorBody"} => fetches = attempt + 1

\* The call has a result once it has settled, and no error before.
ResultOK ==
    /\ pc = "settled" <=> result # "pending"
    /\ pc # "settled" => thrown = "none" /\ lastError # "payment"

\* The inductive invariant of request().
HttpIInv == HttpTypeOK /\ NoTimerLeft /\ FetchesCounted /\ ResultOK /\ RetriesAreExact

LEMMA HttpInitOK == HttpInit => HttpIInv
  BY HttpRetriesAssumption
     DEF HttpInit, HttpIInv, HttpTypeOK, NoTimerLeft, FetchesCounted, ResultOK, RetriesAreExact,
         TurboErrors, ThrownByRequest

LEMMA FetchKeeps == HttpIInv /\ Fetch => HttpIInv'
  BY HttpRetriesAssumption
     DEF Fetch, HttpIInv, HttpTypeOK, NoTimerLeft, FetchesCounted, ResultOK, RetriesAreExact

LEMMA FetchRejectsKeeps == HttpIInv /\ FetchRejects => HttpIInv'
  <1> SUFFICES ASSUME HttpIInv, FetchRejects PROVE HttpIInv'
    OBVIOUS
  <1> USE HttpRetriesAssumption DEF FetchRejects, RetryOrThrow, Throw, CanRetry
  <1>1. HttpTypeOK'
    BY DEF HttpIInv, HttpTypeOK, TurboErrors, ThrownByRequest
  <1>2. NoTimerLeft' /\ FetchesCounted'
    BY DEF HttpIInv, HttpTypeOK, FetchesCounted, NoTimerLeft
  <1>3. ResultOK' /\ RetriesAreExact'
    BY DEF HttpIInv, HttpTypeOK, FetchesCounted, ResultOK, RetriesAreExact
  <1> QED BY <1>1, <1>2, <1>3 DEF HttpIInv

LEMMA FetchResolvesKeeps ==
  ASSUME HttpIInv, NEW s \in Statuses, FetchResolves(s)
  PROVE  HttpIInv'
  BY HttpRetriesAssumption
     DEF FetchResolves, HttpIInv, HttpTypeOK, NoTimerLeft, FetchesCounted, ResultOK, RetriesAreExact

LEMMA ReturnWithKeeps ==
  ASSUME HttpIInv, NEW b \in Bodies \cup {"empty"}, ReturnWith(b)
  PROVE  HttpIInv'
  BY HttpRetriesAssumption
     DEF ReturnWith, HttpIInv, HttpTypeOK, NoTimerLeft, FetchesCounted, ResultOK, RetriesAreExact

\* A status to retry is thrown on the last attempt only, a 402 on any.
LEMMA ErrorBodyReadKeeps ==
  ASSUME HttpIInv, NEW b \in Bodies \cup {"empty"}, ErrorBodyRead(b)
  PROVE  HttpIInv'
  <1> USE HttpRetriesAssumption DEF ErrorBodyRead, RetryOrThrow, Throw, CanRetry
  <1>1. HttpTypeOK'
    BY DEF HttpIInv, HttpTypeOK, TurboErrors, ThrownByRequest
  <1>2. NoTimerLeft' /\ FetchesCounted'
    BY DEF HttpIInv, HttpTypeOK, FetchesCounted, NoTimerLeft
  <1>3. ResultOK'
    BY PaymentAssumption DEF HttpIInv, HttpTypeOK, ResultOK
  <1>4. RetriesAreExact'
    BY PaymentAssumption DEF HttpIInv, HttpTypeOK, FetchesCounted, ResultOK, RetriesAreExact
  <1> QED BY <1>1, <1>2, <1>3, <1>4 DEF HttpIInv

LEMMA SleepEndsKeeps == HttpIInv /\ SleepEnds => HttpIInv'
  BY HttpRetriesAssumption
     DEF SleepEnds, Throw, HttpIInv, HttpTypeOK, NoTimerLeft, FetchesCounted, ResultOK, RetriesAreExact,
         TurboErrors, ThrownByRequest

LEMMA HttpNextKeeps == HttpIInv /\ [HttpNext]_httpVars => HttpIInv'
  <1> SUFFICES ASSUME HttpIInv, [HttpNext]_httpVars PROVE HttpIInv'
    OBVIOUS
  <1>1. CASE Fetch \/ FetchRejects \/ SleepEnds
    BY <1>1, FetchKeeps, FetchRejectsKeeps, SleepEndsKeeps
  <1>2. CASE BodyFails \/ BodyArrives
    BY <1>2, ReturnWithKeeps, ErrorBodyReadKeeps DEF BodyFails, BodyArrives
  <1>3. CASE \E s \in Statuses : FetchResolves(s)
    BY <1>3, FetchResolvesKeeps
  <1>4. CASE TimerFires \/ CallerAborts
    BY <1>4 DEF TimerFires, CallerAborts, requestVars, HttpIInv, HttpTypeOK, NoTimerLeft, FetchesCounted,
                ResultOK, RetriesAreExact
  <1>5. CASE UNCHANGED httpVars
    BY <1>5 DEF httpVars, requestVars, HttpIInv, HttpTypeOK, NoTimerLeft, FetchesCounted, ResultOK, RetriesAreExact
  <1> QED BY <1>1, <1>2, <1>3, <1>4, <1>5 DEF HttpNext, CallStep, SignalStep, NetworkStep, HttpSettled

---------------------------------------------------------------------------
(* One call of uploadSigned() *)

\* Nothing of the chunked upload has happened.
NoChunks == ~chunkComplete /\ ~chunkAsked /\ ~chunkCharged /\ chunkOutcome = "pending"

\* What the single POST has done: it resolves only for an item that is stored,
\* and a stored item was sent and is within the service's limit.
PostOK ==
    /\ stored => fetches > 0 /\ size <= serviceLimit
    /\ body = "limit" => size > serviceLimit
    /\ pc = "body" \/ result = "returned" \/ outcome = "resolved" => stored

\* Where the call is: chunks are sent instead of the POST, or after it was
\* refused for the item's size.
RouteOK ==
    /\ route = "decide" => fetches = 0
    /\ route \in {"decide", "single"} => NoChunks
    /\ route = "chunks" \/ ~NoChunks => chunking # "disabled" /\ (fetches = 0 \/ size > serviceLimit)
    /\ uploadOutcome # "pending" <=> route = "done"

\* What the chunked upload promises, as far as it is needed.
ChunksOK ==
    /\ chunkCharged => chunkAsked
    /\ chunkOutcome = "resolved" => chunkCharged

\* The inductive invariant of uploadSigned().
UploadIInv == HttpIInv /\ UploadTypeOK /\ PostOK /\ RouteOK /\ ChunksOK

LEMMA SizesAreNumbers ==
  ASSUME UploadTypeOK
  PROVE  size \in Nat /\ (serviceLimit \in Nat) /\ (fetches \in Nat)
  BY SizesAssumption DEF UploadTypeOK, PostTypeOK, HttpTypeOK

LEMMA UploadInitOK == UploadInit => UploadIInv
  <1> SUFFICES ASSUME UploadInit PROVE UploadIInv
    OBVIOUS
  <1> USE DEF UploadInit, Init, Chunks!Init
  <1>1. HttpIInv
    BY HttpInitOK
  <1>2. UploadTypeOK
    BY <1>1 DEF HttpIInv, UploadTypeOK, PostTypeOK
  <1>3. PostOK /\ RouteOK /\ ChunksOK
    BY DEF HttpInit, PostOK, RouteOK, ChunksOK, NoChunks
  <1> QED BY <1>1, <1>2, <1>3 DEF UploadIInv

\* A step of request(), as part of the POST.
LEMMA SingleStepKeeps == UploadIInv /\ SingleStep => UploadIInv'
  <1> SUFFICES ASSUME UploadIInv, SingleStep PROVE UploadIInv'
    OBVIOUS
  <1> USE DEF SingleStep, RequestStep, itemVars, chunkVars, routeVars, postVars
  <1>1. HttpIInv'
    BY HttpNextKeeps DEF UploadIInv
  <1>2. UploadTypeOK'
    BY <1>1 DEF HttpIInv, UploadIInv, UploadTypeOK, PostTypeOK
  <1>3. fetches' >= fetches /\ (result' = "returned" => pc = "body" \/ result = "returned")
    BY DEF UploadIInv, HttpIInv, HttpTypeOK, HttpNext, CallStep, SignalStep, NetworkStep, TimerFires,
           CallerAborts, HttpSettled, Fetch, SleepEnds, FetchRejects, FetchResolves, BodyFails, BodyArrives,
           ReturnWith, ErrorBodyRead, RetryOrThrow, Throw, httpVars, requestVars
  <1>4. pc' = "body" => pc = "body" \/ pc = "fetch"
    BY DEF HttpNext, CallStep, SignalStep, NetworkStep, TimerFires,
           CallerAborts, HttpSettled, Fetch, SleepEnds, FetchRejects, FetchResolves, BodyFails, BodyArrives,
           ReturnWith, ErrorBodyRead, RetryOrThrow, Throw, httpVars, requestVars
  <1>5. PostOK'
    BY <1>1, <1>2, <1>3, <1>4, SizesAreNumbers DEF UploadIInv, HttpIInv, HttpTypeOK, PostOK
  <1>6. RouteOK' /\ ChunksOK'
    BY DEF UploadIInv, RouteOK, ChunksOK, NoChunks
  <1> QED BY <1>1, <1>2, <1>5, <1>6 DEF UploadIInv

\* Copies of the POST that arrive.
LEMMA SingleStoredKeeps == UploadIInv /\ SingleStored => UploadIInv'
  <1> SUFFICES ASSUME UploadIInv, SingleStored PROVE UploadIInv'
    OBVIOUS
  <1> USE DEF SingleStored, ServiceStores, itemVars, chunkVars, routeVars, httpVars, requestVars
  <1>1. HttpIInv'
    BY DEF UploadIInv, HttpIInv, HttpTypeOK, NoTimerLeft, FetchesCounted, ResultOK, RetriesAreExact
  <1>2. UploadTypeOK'
    BY <1>1 DEF HttpIInv, UploadIInv, UploadTypeOK, PostTypeOK
  <1>3. PostOK' /\ RouteOK' /\ ChunksOK'
    BY DEF UploadIInv, PostOK, RouteOK, ChunksOK, NoChunks
  <1> QED BY <1>1, <1>2, <1>3 DEF UploadIInv

\* The POST's result becomes its outcome.
LEMMA SingleConcludesKeeps == UploadIInv /\ SingleConcludes => UploadIInv'
  <1> SUFFICES ASSUME UploadIInv, SingleConcludes PROVE UploadIInv'
    OBVIOUS
  <1> USE DEF SingleConcludes, RequestThrew, ResponseRead, Conclude, itemVars, chunkVars, routeVars,
              httpVars, requestVars
  <1>1. HttpIInv'
    BY DEF UploadIInv, HttpIInv, HttpTypeOK, NoTimerLeft, FetchesCounted, ResultOK, RetriesAreExact
  <1>2. UploadTypeOK'
    BY <1>1 DEF HttpIInv, HttpTypeOK, UploadIInv, UploadTypeOK, PostTypeOK
  <1>3. PostOK' /\ RouteOK' /\ ChunksOK'
    BY DEF UploadIInv, PostOK, RouteOK, ChunksOK, NoChunks
  <1> QED BY <1>1, <1>2, <1>3 DEF UploadIInv

\* The dispatch, and what the client's other calls learn: the POST and the
\* chunked upload stand still.
LEMMA DispatchKeeps ==
  ASSUME UploadIInv,
         Decide \/ FallBack \/ SingleEnds \/ ChunksEnd \/ OtherCallLearnsLimit \/ UNCHANGED uploadVars
  PROVE  UploadIInv'
  <1> USE DEF Decide, FallBack, SingleEnds, ChunksEnd, OtherCallLearnsLimit, Finish, uploadVars, itemVars,
              singleVars, chunkVars, routeVars, httpVars, requestVars, postVars
  <1>1. HttpIInv'
    BY DEF UploadIInv, HttpIInv, HttpTypeOK, NoTimerLeft, FetchesCounted, ResultOK, RetriesAreExact
  <1>2. UploadTypeOK'
    BY <1>1 DEF HttpIInv, UploadIInv, UploadTypeOK, PostTypeOK, RouteOK, NoChunks
  <1>3. PostOK' /\ ChunksOK'
    BY DEF UploadIInv, PostOK, ChunksOK
  <1>4. RouteOK'
    BY DEF UploadIInv, UploadTypeOK, PostTypeOK, PostOK, RouteOK, NoChunks, StatesLimit, ShouldChunk
  <1> QED BY <1>1, <1>2, <1>3, <1>4 DEF UploadIInv

\* The chunked upload takes a step of its own.
LEMMA ChunksKeep == UploadIInv /\ (ChunksStep \/ ChunksArrive) => UploadIInv'
  <1> SUFFICES ASSUME UploadIInv, ChunksStep \/ ChunksArrive PROVE UploadIInv'
    OBVIOUS
  <1> USE DEF ChunksStep, ChunksArrive, Chunks!Ask, Chunks!Resolve, Chunks!Reject, Chunks!Complete,
              Chunks!Charge, itemVars, singleVars, routeVars, httpVars, requestVars, postVars
  <1>1. HttpIInv'
    BY DEF UploadIInv, HttpIInv, HttpTypeOK, NoTimerLeft, FetchesCounted, ResultOK, RetriesAreExact
  <1>2. UploadTypeOK'
    BY <1>1 DEF HttpIInv, UploadIInv, UploadTypeOK, PostTypeOK, RouteOK, NoChunks
  <1>3. PostOK' /\ ChunksOK'
    BY DEF UploadIInv, PostOK, ChunksOK
  <1>4. RouteOK'
    BY DEF UploadIInv, UploadTypeOK, RouteOK, NoChunks
  <1> QED BY <1>1, <1>2, <1>3, <1>4 DEF UploadIInv

LEMMA UploadNextKeeps == UploadIInv /\ [UploadNext]_uploadVars => UploadIInv'
  BY SingleStepKeeps, SingleStoredKeeps, SingleConcludesKeeps, DispatchKeeps, ChunksKeep
     DEF UploadNext, DispatchStep, Done

LEMMA UploadInvariant == UploadSpec => []UploadIInv
  BY UploadInitOK, UploadNextKeeps, PTL DEF UploadSpec

\* Every variable has its type, and an item whose chunking is disabled goes out
\* in one POST or not at all.
THEOREM TypeCorrect == UploadSpec => []UploadTypeOK
  BY UploadInvariant, PTL DEF UploadIInv

\* No timer outlives its attempt.
THEOREM TimersAreCleared == UploadSpec => []NoTimerLeft
  BY UploadInvariant, PTL DEF UploadIInv, HttpIInv

\* Every retry is spent on a transient failure, none on a 402.
THEOREM RetriesAreSpent == UploadSpec => []RetriesAreExact
  BY UploadInvariant, PTL DEF UploadIInv, HttpIInv

\* An item is never charged in one POST and again in chunks.
THEOREM ChargedOnce == UploadSpec => []ChargedOneWayOnly
  <1>1. UploadIInv => ChargedOneWayOnly
    <2> SUFFICES ASSUME UploadIInv, stored, chunkCharged PROVE FALSE
      BY DEF ChargedOneWayOnly
    <2>1. fetches > 0 /\ size <= serviceLimit
      BY DEF UploadIInv, PostOK
    <2>2. fetches = 0 \/ size > serviceLimit
      BY DEF UploadIInv, RouteOK, NoChunks
    <2> QED BY <2>1, <2>2, SizesAreNumbers DEF UploadIInv
  <1> QED BY <1>1, UploadInvariant, PTL

---------------------------------------------------------------------------
(* uploadSigned() keeps the promise of an upload *)

LEMMA PromisedInit == UploadInit => UploadPromised!Init
  BY DEF UploadInit, Init, HttpInit, Chunks!Init, UploadPromised!Init

\* The first request of the POST is what asks for the item; nothing else of
\* request() is seen from outside.
LEMMA SingleStepPromised == UploadIInv /\ SingleStep => [UploadPromised!Next]_(UploadPromised!vars)
  <1> SUFFICES ASSUME UploadIInv, SingleStep PROVE [UploadPromised!Next]_(UploadPromised!vars)
    OBVIOUS
  <1>1. fetches' = fetches \/ fetches' = fetches + 1
    BY DEF SingleStep, RequestStep, HttpNext, CallStep, SignalStep, NetworkStep, TimerFires,
           CallerAborts, HttpSettled, Fetch, SleepEnds, FetchRejects, FetchResolves, BodyFails, BodyArrives,
           ReturnWith, ErrorBodyRead, RetryOrThrow, Throw, httpVars, requestVars
  <1>2. fetches \in Nat
    BY SizesAreNumbers DEF UploadIInv
  <1>3. uploadOutcome = "pending"
    BY DEF UploadIInv, RouteOK, SingleStep
  <1>4. UNCHANGED <<stored, chunkComplete, chunkAsked, chunkCharged, uploadOutcome>>
    BY DEF SingleStep, RequestStep, postVars, chunkVars, routeVars
  <1>5. CASE fetches' = fetches
    BY <1>4, <1>5 DEF UploadPromised!vars
  <1>6. CASE fetches' = fetches + 1
    <2>1. fetches' > 0
      BY <1>2, <1>6
    <2> QED BY <1>3, <1>4, <2>1 DEF UploadPromised!Next, UploadPromised!Ask
  <1> QED BY <1>1, <1>5, <1>6

\* The service stores what it was asked to.
LEMMA SingleStoredPromised == UploadIInv /\ SingleStored => [UploadPromised!Next]_(UploadPromised!vars)
  BY DEF SingleStored, ServiceStores, httpVars, requestVars, chunkVars, routeVars,
         UploadPromised!Next, UploadPromised!Charge

\* The chunked upload asks, completes and is charged for this item; how it ends
\* is not yet seen.
LEMMA ChunksPromised ==
  ASSUME UploadIInv, ChunksStep \/ ChunksArrive
  PROVE  [UploadPromised!Next]_(UploadPromised!vars)
  <1>1. UNCHANGED <<stored, fetches, uploadOutcome>>
    BY DEF ChunksStep, ChunksArrive, singleVars, httpVars, requestVars, postVars, routeVars
  <1>2. CASE ChunksStep
    <2>1. uploadOutcome = "pending"
      BY <1>2 DEF UploadIInv, RouteOK, ChunksStep
    <2>2. CASE Chunks!Ask
      BY <1>1, <2>1, <2>2 DEF Chunks!Ask, UploadPromised!Next, UploadPromised!Ask
    <2>3. CASE Chunks!Resolve \/ Chunks!Reject
      BY <1>1, <2>3 DEF Chunks!Resolve, Chunks!Reject, UploadPromised!vars
    <2> QED BY <1>2, <2>2, <2>3 DEF ChunksStep
  <1>3. CASE ChunksArrive
    <2>1. CASE Chunks!Complete /\ fetches > 0
      BY <1>1, <2>1 DEF Chunks!Complete, UploadPromised!vars
    <2>2. CASE Chunks!Complete /\ ~(fetches > 0)
      BY <1>1, <2>2 DEF Chunks!Complete, UploadPromised!Next, UploadPromised!Complete
    <2>3. CASE Chunks!Charge
      BY <1>1, <2>3 DEF Chunks!Charge, UploadPromised!Next, UploadPromised!Charge
    <2> QED BY <1>3, <2>1, <2>2, <2>3 DEF ChunksArrive
  <1> QED BY <1>2, <1>3

\* The outcome is the POST's, or the chunked upload's: either resolves only for
\* an item that was charged.
LEMMA DispatchPromised ==
  ASSUME UploadIInv, DispatchStep \/ OtherCallLearnsLimit \/ UNCHANGED uploadVars
  PROVE  [UploadPromised!Next]_(UploadPromised!vars)
  <1>1. UNCHANGED <<stored, fetches, chunkVars>>
    BY DEF DispatchStep, Decide, SingleConcludes, RequestThrew, ResponseRead, Conclude, FallBack, SingleEnds,
           ChunksEnd, OtherCallLearnsLimit, Finish, uploadVars, singleVars, chunkVars, httpVars, requestVars,
           postVars
  <1>2. CASE SingleEnds
    <2>1. outcome \in {"resolved", "rejected"} /\ uploadOutcome = "pending"
      BY <1>2 DEF UploadIInv, UploadTypeOK, PostTypeOK, RouteOK, SingleEnds
    <2>2. outcome = "resolved" => stored
      BY DEF UploadIInv, PostOK
    <2> QED BY <1>1, <1>2, <2>1, <2>2
            DEF SingleEnds, Finish, chunkVars, UploadPromised!Next, UploadPromised!Resolve, UploadPromised!Reject
  <1>3. CASE ChunksEnd
    <2>1. chunkOutcome \in {"resolved", "rejected"} /\ uploadOutcome = "pending"
      BY <1>3 DEF UploadIInv, UploadTypeOK, RouteOK, ChunksEnd
    <2>2. chunkOutcome = "resolved" => chunkCharged
      BY DEF UploadIInv, ChunksOK
    <2> QED BY <1>1, <1>3, <2>1, <2>2
            DEF ChunksEnd, Finish, chunkVars, UploadPromised!Next, UploadPromised!Resolve, UploadPromised!Reject
  <1>4. CASE UNCHANGED uploadOutcome
    BY <1>1, <1>4 DEF chunkVars, UploadPromised!vars
  <1> QED
    BY <1>2, <1>3, <1>4
       DEF DispatchStep, Decide, SingleConcludes, FallBack, OtherCallLearnsLimit, uploadVars, routeVars

\* Whichever way the item goes, and when it goes both, uploadSigned() keeps the
\* promise of an upload.
THEOREM Refinement == UploadSpec => UploadImplementsPromise
  <1>1. UploadIInv /\ [UploadNext]_uploadVars => [UploadPromised!Next]_(UploadPromised!vars)
    BY SingleStepPromised, SingleStoredPromised, ChunksPromised, DispatchPromised DEF UploadNext, Done
  <1> QED
    BY <1>1, PromisedInit, UploadInvariant, PTL DEF UploadSpec, UploadImplementsPromise, UploadPromised!Spec
=============================================================================
