---------------------------- MODULE UploadSigned ----------------------------
(***************************************************************************)
(* One call of uploadSigned() of src/core/client.js: send the item in one  *)
(* POST or in chunks, and fall back to chunks when the service refuses the *)
(* POST and states its single-item limit.  The limit is remembered for the *)
(* client, whose other calls may learn it meanwhile.                       *)
(*                                                                         *)
(* The single POST is SinglePost in full detail.  The chunked upload is    *)
(* what ChunkedUpload is proved to implement: UploadPromise.               *)
(***************************************************************************)
EXTENDS SinglePost

CONSTANTS
    Sizes,      \* sizes of an item
    Limits,     \* single-item limits a service may have
    ChunkSize

ASSUME SizesAssumption == Sizes \subseteq Nat /\ Limits \subseteq Nat
ASSUME UploadChunkSizeAssumption == ChunkSize \in Nat \ {0}

VARIABLES
    size,          \* binary.length
    chunking,      \* the caller's option: "auto", "force" or "disabled"
    serviceLimit,  \* the service's single-item limit, the same throughout
    knownLimit,    \* _singleItemLimit: {} or {serviceLimit}
    route,         \* "decide", "single", "chunks" or "done"
    chunkComplete, chunkAsked, chunkCharged, chunkOutcome,  \* the chunked upload
    uploadOutcome  \* the promise of uploadSigned()

itemVars == <<size, chunking, serviceLimit>>
singleVars == <<httpVars, postVars>>
chunkVars == <<chunkComplete, chunkAsked, chunkCharged, chunkOutcome>>
routeVars == <<knownLimit, route, uploadOutcome>>
uploadVars == <<itemVars, singleVars, chunkVars, routeVars>>

Chunks == INSTANCE UploadPromise WITH
    complete <- chunkComplete,
    asked <- chunkAsked,
    charged <- chunkCharged,
    outcome <- chunkOutcome

UploadInit ==
    /\ Init
    /\ Chunks!Init
    /\ size \in Sizes
    /\ chunking \in {"auto", "force", "disabled"}
    /\ serviceLimit \in Limits
    /\ knownLimit \in {{}, {serviceLimit}}
    /\ route = "decide"
    /\ uploadOutcome = "pending"

\* shouldChunk()
ShouldChunk ==
    \/ chunking = "force"
    \/ /\ chunking = "auto"
       /\ (\E limit \in knownLimit : size > limit) \/ size > ChunkSize * 2

Decide ==
    /\ route = "decide"
    /\ route' = IF ShouldChunk THEN "chunks" ELSE "single"
    /\ UNCHANGED <<itemVars, singleVars, chunkVars, knownLimit, uploadOutcome>>

---------------------------------------------------------------------------
(* The single POST *)

\* The service states its limit when it refuses an item that exceeds it.
SingleStep ==
    /\ route = "single"
    /\ RequestStep
    /\ body' = "limit" /\ body # "limit" =>
           status \notin OkStatuses /\ size > serviceLimit
    /\ UNCHANGED <<itemVars, chunkVars, routeVars>>

\* It stores no other item than one within its limit.
SingleStored ==
    /\ size <= serviceLimit
    /\ ServiceStores
    /\ UNCHANGED <<itemVars, chunkVars, routeVars>>

SingleConcludes ==
    /\ route = "single"
    /\ RequestThrew \/ ResponseRead
    /\ UNCHANGED <<itemVars, chunkVars, routeVars>>

Finish(o) ==
    /\ route' = "done"
    /\ uploadOutcome' = o

\* Defect: any refusal of the POST is answered with chunks.
StatesLimitAnyRefusal == failure \in {"http", "payment"}

\* singleItemLimitFrom(): a 400 or 413 whose body states the limit.
StatesLimit ==
    /\ failure = "http"
    /\ status \in OtherStatuses
    /\ body = "limit"

\* Defect: the fallback is to decide again, on the limit this call knew.
FallBackToDecide ==
    /\ route = "single"
    /\ outcome = "rejected"
    /\ StatesLimit
    /\ chunking # "disabled"
    /\ route' = "decide"
    /\ UNCHANGED <<itemVars, singleVars, chunkVars, knownLimit, uploadOutcome>>

FallBack ==
    /\ route = "single"
    /\ outcome = "rejected"
    /\ StatesLimit
    /\ chunking # "disabled"
    /\ knownLimit' = {serviceLimit}
    /\ route' = "chunks"
    /\ UNCHANGED <<itemVars, singleVars, chunkVars, uploadOutcome>>

SingleEnds ==
    /\ route = "single"
    /\ outcome # "pending"
    /\ outcome = "resolved" \/ ~StatesLimit \/ chunking = "disabled"
    /\ Finish(outcome)
    /\ UNCHANGED <<itemVars, singleVars, chunkVars, knownLimit>>

---------------------------------------------------------------------------
(* The chunked upload, and the client's other calls *)

ChunksStep ==
    /\ route = "chunks"
    /\ Chunks!Ask \/ Chunks!Resolve \/ Chunks!Reject
    /\ UNCHANGED <<itemVars, singleVars, routeVars>>

\* Chunks and the finalize that were sent arrive, perhaps late.
ChunksArrive ==
    /\ route = "chunks" \/ chunkOutcome # "pending"
    /\ Chunks!Complete \/ Chunks!Charge
    /\ UNCHANGED <<itemVars, singleVars, routeVars>>

\* Defect: the outcome of the chunked upload is not awaited.
ChunksEndUnawaited ==
    /\ route = "chunks"
    /\ Finish("resolved")
    /\ UNCHANGED <<itemVars, singleVars, chunkVars, knownLimit>>

ChunksEnd ==
    /\ route = "chunks"
    /\ chunkOutcome # "pending"
    /\ Finish(chunkOutcome)
    /\ UNCHANGED <<itemVars, singleVars, chunkVars, knownLimit>>

OtherCallLearnsLimit ==
    /\ knownLimit' = {serviceLimit}
    /\ UNCHANGED <<itemVars, singleVars, chunkVars, route, uploadOutcome>>

Done ==
    /\ route = "done"
    /\ UNCHANGED uploadVars

DispatchStep == Decide \/ SingleConcludes \/ FallBack \/ SingleEnds \/ ChunksEnd

UploadNext ==
    \/ DispatchStep
    \/ SingleStep
    \/ SingleStored
    \/ ChunksStep
    \/ ChunksArrive
    \/ OtherCallLearnsLimit
    \/ Done

UploadSpec == UploadInit /\ [][UploadNext]_uploadVars

\* The fairness of request(), promises that settle, and a chunked upload that
\* ends (ChunkedUpload's Settles).
FairUploadSpec ==
    /\ UploadSpec
    /\ WF_uploadVars(CallStep /\ SingleStep)
    /\ WF_uploadVars(TimerFires /\ SingleStep)
    /\ WF_uploadVars(DispatchStep)
    /\ WF_uploadVars(ChunksStep /\ chunkOutcome' # "pending")

---------------------------------------------------------------------------
(* Properties *)

\* Every variable has its type, and an item whose chunking is disabled goes
\* out in one POST or not at all.
UploadTypeOK ==
    /\ PostTypeOK
    /\ size \in Sizes
    /\ serviceLimit \in Limits
    /\ chunking \in {"auto", "force", "disabled"}
    /\ {chunkComplete, chunkAsked, chunkCharged} \subseteq BOOLEAN
    /\ chunkOutcome \in {"pending", "resolved", "rejected"}
    /\ knownLimit \subseteq {serviceLimit}
    /\ route \in {"decide", "single", "chunks", "done"}
    /\ uploadOutcome \in {"pending", "resolved", "rejected"}
    /\ chunking = "disabled" => ~chunkComplete /\ ~chunkAsked

\* An item is never charged in one POST and again in chunks, although a POST
\* whose answer was lost is retried and the retry may be refused.
ChargedOneWayOnly == ~(stored /\ chunkCharged)

\* Whichever way the item goes, and when it goes both, uploadSigned() keeps the
\* promise.
UploadPromised == INSTANCE UploadPromise WITH
    complete <- fetches > 0 \/ chunkComplete,
    asked <- fetches > 0 \/ chunkAsked,
    charged <- stored \/ chunkCharged,
    outcome <- uploadOutcome
UploadImplementsPromise == UploadPromised!Spec

\* The caller's signal ends the call even when the body of the POST's answer
\* never does, the chunked upload it may fall back to included.
UploadAbortSettles == aborted ~> (uploadOutcome # "pending")

\* The promise settles, however the network behaves, if bodies end: a refused
\* POST and the chunks that follow it are not sent in turns for ever.
UploadSettlesIfBodiesEnd ==
    WF_uploadVars((BodyArrives \/ BodyFails) /\ SingleStep) => <>(uploadOutcome # "pending")
=============================================================================
