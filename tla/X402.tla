-------------------------------- MODULE X402 --------------------------------
(***************************************************************************)
(* uploadUnsignedX402() of src/core/x402.js: ask for a quote, choose among *)
(* the service's terms, have the wallet sign one payment authorization,    *)
(* and send the bytes again with it.  The quote is retried like any        *)
(* request, the paid request never.  A request, once sent, may reach the   *)
(* service at any later time, and a submitted authorization may settle     *)
(* whatever the client has been told.  A redirect is a failure of the      *)
(* request, paid or not: fetch() is told not to follow it.                 *)
(***************************************************************************)
EXTENDS X402Request

CONSTANTS
    Retries,   \* of the quote: DEFAULT_RETRY.retries
    Cap,       \* maxUsdc
    Offers,    \* entries the service's `accepts` may hold
    MaxOffers, \* bound: their number in one answer
    Options    \* the options uploads are called with

ASSUME X402RetriesAssumption == Retries \in Nat
ASSUME CapAssumption == Cap \in Nat \ {0}
ASSUME MaxOffersAssumption == MaxOffers \in Nat
ASSUME OffersAssumption ==
    Offers \subseteq [scheme : {"exact", "other"}, network : X402_NETWORKS,
                      asset : {"usdc", "other"}, amount : Nat, wellFormed : BOOLEAN]

\* The tags of an upload: their sizes in the item, and in JSON.
Tags(o) == {o.tags[i] : i \in DOMAIN o.tags}
ASSUME X402OptionsAssumption ==
    \A o \in Options :
        /\ o.dataBytes \in Nat
        /\ o.tags \in Seq(Tags(o))
        /\ \A t \in Tags(o) : t.bytes \in Nat /\ t.json \in Nat

\* What the signer may be asked to pay: on the network the caller named and
\* the URL stands for.
Acceptable(o, opts) ==
    /\ o.scheme = "exact"
    /\ Implied(opts.url) \in {NoNetwork, o.network}
    /\ opts.network \in {NoNetwork, o.network}
    /\ o.asset = "usdc"
    /\ o.wellFormed
    /\ o.amount \in 1..Cap

Answers == UNION {[1..n -> Offers] : n \in 0..MaxOffers}

VARIABLES
    pc,         \* "begin", "quote", "sign", "pay" or "done"
    call,       \* the request in progress: "idle", "wire", "barred" or "backoff"
    callTries,  \* retries it has used
    options,    \* what the call was given
    aborted,    \* the caller's signal
    wrapped,    \* the wallet's signatures are ERC-6492: an undeployed smart account
    chosen,     \* the offer chosen, if any
    signatures, \* authorizations the wallet has signed
    submitted,  \* times an authorization was put on the network
    carried,    \* the connections the bytes, or the payment, travelled on
    settled,    \* the transfer has happened
    stored,     \* the requests whose bytes the service has stored: "unpaid", "paid"
    outcome,    \* "pending", "resolved" or "rejected"
    thrown,     \* what it was rejected with
    says        \* what that message says was paid: "nothing", "maybe" or no word

callVars == <<call, callTries>>
resultVars == <<outcome, thrown, says>>
inputVars == <<options, aborted, wrapped>>
walletVars == <<chosen, signatures>>
serviceVars == <<settled, stored>>
vars == <<pc, callVars, inputVars, walletVars, submitted, carried, serviceVars, resultVars>>

Thrown == {"invalid", "aborted", "unreachable", "http", "payment", "reason", "terms", "signer", "noId"}

Start == IF aborted THEN "barred" ELSE "wire"

Init ==
    /\ options \in Options
    /\ aborted \in BOOLEAN
    /\ wrapped \in BOOLEAN
    /\ pc = "begin"
    /\ call = "idle"
    /\ callTries = 0
    /\ carried = {}
    /\ chosen = {}
    /\ signatures = 0
    /\ submitted = 0
    /\ settled = FALSE
    /\ stored = {}
    /\ outcome = "pending"
    /\ thrown = "none"
    /\ says = "none"

Finish(o, e, paid) ==
    /\ pc' = "done"
    /\ call' = "idle"
    /\ callTries' = 0
    /\ outcome' = o
    /\ thrown' = e
    /\ says' = paid

Reject(e, paid) == Finish("rejected", e, paid)

\* result(): a receipt, or an error when the answer names no item.
Receipt == Finish("resolved", "none", "none") \/ Reject("noId", "maybe")

---------------------------------------------------------------------------
(* The quote *)

\* The options are refused before anything is sent, or asked of anyone.
Refused ==
    /\ pc = "begin"
    /\ ~Accepts(options)
    /\ Reject("invalid", "none")
    /\ UNCHANGED <<inputVars, walletVars, submitted, carried, serviceVars>>

\* The connection a request to this URL travels on.
Connection(url) ==
    IF url.protocol = "https" THEN "tls" ELSE IF url.loopback THEN "loopback" ELSE "cleartext"

\* The bytes are sent to be quoted.
QuoteSent ==
    /\ pc = "begin"
    /\ Accepts(options)
    /\ pc' = "quote"
    /\ call' = Start
    /\ carried' = IF aborted THEN {} ELSE {Connection(options.url)}
    /\ UNCHANGED <<callTries, inputVars, walletVars, submitted, serviceVars, resultVars>>

CanRetry == callTries < Retries

QuoteRetries ==
    /\ CanRetry
    /\ call' = "backoff"
    /\ callTries' = callTries + 1
    /\ UNCHANGED <<pc, resultVars>>

\* The entries in USDC on the network this upload pays on.
InUsdc(accepts) ==
    {i \in DOMAIN accepts :
        /\ accepts[i].scheme = "exact"
        /\ accepts[i].network = ResolveNetwork(options.url, options.network)
        /\ accepts[i].asset = "usdc"}

FirstOf(S) == {i \in S : \A j \in S : i <= j}

\* Defect: the price is not compared with maxUsdc.
SelectUncapped(accepts) ==
    {accepts[i] : i \in {j \in FirstOf(InUsdc(accepts)) : accepts[j].wellFormed}}

\* selectRequirement(): the first entry in USDC on this network, if its terms
\* can be read and do not exceed maxUsdc; no other entry is considered.
Select(accepts) ==
    {accepts[i] : i \in {j \in FirstOf(InUsdc(accepts)) :
                            accepts[j].wellFormed /\ accepts[j].amount \in 1..Cap}}

\* The service asks for payment: refuse the terms, or ask the wallet to sign.
QuoteAsksPayment(accepts) ==
    /\ pc = "quote"
    /\ call = "wire"
    /\ chosen' = Select(accepts)
    /\ IF chosen' = {}
       THEN Reject("terms", "nothing")
       ELSE /\ pc' = "sign"
            /\ call' = "idle"
            /\ callTries' = 0
            /\ UNCHANGED resultVars
    /\ UNCHANGED <<inputVars, signatures, submitted, carried, serviceVars>>

\* The service takes the bytes without a payment.
QuoteTaken ==
    /\ pc = "quote"
    /\ call = "wire"
    /\ "unpaid" \in stored
    /\ Receipt
    /\ UNCHANGED <<inputVars, walletVars, submitted, carried, serviceVars>>

QuoteRefused ==
    /\ pc = "quote"
    /\ call = "wire"
    /\ QuoteRetries \/ Reject("http", "none")
    /\ UNCHANGED <<inputVars, walletVars, submitted, carried, serviceVars>>

QuoteThrows ==
    /\ pc = "quote"
    /\ call \in {"wire", "barred"}
    /\ \/ aborted /\ Reject("aborted", "none")
       \/ ~aborted /\ QuoteRetries
       \/ ~aborted /\ ~CanRetry /\ Reject("unreachable", "none")
    /\ UNCHANGED <<inputVars, walletVars, submitted, carried, serviceVars>>

\* Defect: an aborted backoff clears its timer and never rejects.
QuoteResumesUnlessAborted ==
    /\ pc = "quote"
    /\ call = "backoff"
    /\ ~aborted
    /\ call' = "wire"
    /\ carried' = {Connection(options.url)}
    /\ UNCHANGED <<pc, callTries, resultVars, inputVars, walletVars, submitted, serviceVars>>

QuoteResumes ==
    /\ pc = "quote"
    /\ call = "backoff"
    /\ IF aborted
       THEN Reject("reason", "none") /\ UNCHANGED carried
       ELSE /\ call' = "wire"
            /\ carried' = {Connection(options.url)}
            /\ UNCHANGED <<pc, callTries, resultVars>>
    /\ UNCHANGED <<inputVars, walletVars, submitted, serviceVars>>

---------------------------------------------------------------------------
(* The authorization *)

\* The wallet refuses, or returns something that is no signature.
SignerThrows ==
    /\ pc = "sign"
    /\ Reject("signer", "nothing")
    /\ UNCHANGED <<inputVars, walletVars, submitted, carried, serviceVars>>

\* The wallet signs, and the paid request is sent at once.
WalletSigns ==
    /\ pc = "sign"
    /\ signatures' = signatures + 1
    /\ pc' = "pay"
    /\ call' = Start
    /\ submitted' = IF aborted THEN submitted ELSE submitted + 1
    /\ UNCHANGED <<callTries, inputVars, chosen, carried, serviceVars, resultVars>>

---------------------------------------------------------------------------
(* The paid request *)

PaidTaken ==
    /\ pc = "pay"
    /\ call = "wire"
    /\ "paid" \in stored
    /\ Receipt
    /\ UNCHANGED <<inputVars, walletVars, submitted, carried, serviceVars>>

\* Defect: 402 stays among the allowed statuses of the paid request.
PaidRefusedAllowed ==
    /\ pc = "pay"
    /\ call = "wire"
    /\ Receipt \/ Reject("http", "maybe")
    /\ UNCHANGED <<inputVars, walletVars, submitted, carried, serviceVars>>

\* Defect: a refused payment is reported as one that was not made.
PaidRefusedUnpaid ==
    /\ pc = "pay"
    /\ call = "wire"
    /\ \/ Reject("payment", "nothing")
       \/ Reject("http", "maybe")
    /\ UNCHANGED <<inputVars, walletVars, submitted, carried, serviceVars>>

\* A 402 or another error status. The 402 of an ERC-6492 signature has a
\* message of its own.
PaidRefused ==
    /\ pc = "pay"
    /\ call = "wire"
    /\ \/ Reject("payment", IF wrapped THEN "none" ELSE "maybe")
       \/ Reject("http", "maybe")
    /\ UNCHANGED <<inputVars, walletVars, submitted, carried, serviceVars>>

\* Defect: the paid request is retried like any other.
PaidThrowsRetrying ==
    /\ pc = "pay"
    /\ call \in {"wire", "barred"}
    /\ \/ aborted /\ Reject("aborted", "maybe")
       \/ ~aborted /\ ~CanRetry /\ Reject("unreachable", "maybe")
       \/ /\ ~aborted
          /\ CanRetry
          /\ callTries' = callTries + 1
          /\ UNCHANGED <<pc, call, resultVars>>
    /\ submitted' = IF pc' = "pay" THEN submitted + 1 ELSE submitted
    /\ UNCHANGED <<inputVars, walletVars, carried, serviceVars>>

\* Defect: only a refusal gets the warning, not a lost answer.
PaidThrowsUnwarned ==
    /\ pc = "pay"
    /\ call \in {"wire", "barred"}
    /\ Reject(IF aborted THEN "aborted" ELSE "unreachable", "none")
    /\ UNCHANGED <<inputVars, walletVars, submitted, carried, serviceVars>>

PaidThrows ==
    /\ pc = "pay"
    /\ call \in {"wire", "barred"}
    /\ Reject(IF aborted THEN "aborted" ELSE "unreachable", "maybe")
    /\ UNCHANGED <<inputVars, walletVars, submitted, carried, serviceVars>>

---------------------------------------------------------------------------
(* The caller and the service *)

CallerAborts ==
    /\ pc # "done"
    /\ ~aborted
    /\ aborted' = TRUE
    /\ UNCHANGED <<pc, callVars, options, wrapped, walletVars, submitted, carried, serviceVars, resultVars>>

\* The transfer of a submitted authorization happens, once for its nonce.
ServiceSettles ==
    /\ submitted > 0
    /\ ~settled
    /\ settled' = TRUE
    /\ UNCHANGED <<pc, callVars, inputVars, walletVars, submitted, carried, stored, resultVars>>

\* The service stores the bytes of a paid request once it has settled, and
\* those of an unpaid one if it asks for no payment.
ServiceStores ==
    /\ \/ carried # {} /\ stored' = stored \cup {"unpaid"}
       \/ settled /\ stored' = stored \cup {"paid"}
    /\ UNCHANGED <<pc, callVars, inputVars, walletVars, submitted, carried, settled, resultVars>>

Settled ==
    /\ pc = "done"
    /\ UNCHANGED vars

QuoteStep ==
    \/ Refused \/ QuoteSent
    \/ \E accepts \in Answers : QuoteAsksPayment(accepts)
    \/ QuoteTaken \/ QuoteRefused \/ QuoteThrows \/ QuoteResumes
SignStep == SignerThrows \/ WalletSigns
PayStep == PaidTaken \/ PaidRefused \/ PaidThrows
ServiceStep == ServiceSettles \/ ServiceStores

Next == QuoteStep \/ SignStep \/ PayStep \/ CallerAborts \/ ServiceStep \/ Settled

Spec == Init /\ [][Next]_vars

\* Requests end and the wallet's prompt is answered.
FairSpec == Spec /\ WF_vars(QuoteStep \/ SignStep \/ PayStep)

---------------------------------------------------------------------------
(* Properties *)

\* Every variable has its type; one offer is chosen and signed for at most.
X402TypeOK ==
    /\ pc \in {"begin", "quote", "sign", "pay", "done"}
    /\ call \in {"idle", "wire", "barred", "backoff"}
    /\ callTries \in 0..Retries
    /\ aborted \in BOOLEAN
    /\ wrapped \in BOOLEAN
    /\ chosen \subseteq Offers /\ \A o, p \in chosen : o = p
    /\ signatures \in 0..1
    /\ submitted \in Nat
    /\ options \in Options
    /\ carried \subseteq {"tls", "loopback", "cleartext"}
    /\ settled \in BOOLEAN
    /\ stored \subseteq {"unpaid", "paid"}
    /\ outcome \in {"pending", "resolved", "rejected"}
    /\ thrown \in Thrown \cup {"none"}
    /\ says \in {"nothing", "maybe", "none"}

\* Whatever list of terms the service answers, the wallet is asked to sign, and
\* the transfer that may follow is, one payment in USDC on this network of no
\* more than maxUsdc.
PaysOnlyTheTerms ==
    pc = "sign" \/ signatures > 0 \/ settled =>
        /\ signatures <= 1
        /\ \E o \in chosen : chosen = {o} /\ Acceptable(o, options)

\* "The paid request is never retried, so an authorization is submitted at most
\* once", whatever the quote's retries, the timeouts and the caller do.
SubmittedOnce == submitted <= signatures

\* "Nothing was paid" stays true: no authorization is on the network, so none
\* can settle after the caller has read it.
NothingPaidIsTrue == says = "nothing" => submitted = 0 /\ ~settled

\* When money may have moved, the error says so, for every wallet whose
\* signature the service accepts today.
FailureWarns ==
    outcome = "rejected" /\ submitted > 0 /\ ~wrapped => says = "maybe"

\* "It never travels over cleartext, loopback excepted": neither the bytes nor
\* the authorization, which anyone who reads it could submit.
NothingInCleartext == "cleartext" \notin carried

\* Some of the tags, in the order of all.
InOrder(some, all) ==
    \E place \in [DOMAIN some -> DOMAIN all] :
        /\ \A i \in DOMAIN some : some[i] = all[place[i]]
        /\ \A i, j \in DOMAIN some : i < j => place[i] < place[j]

\* What is paid for is the whole upload: every tag travels, as often as it was
\* given and the others in their order, and the item has room for the tags the
\* service adds after the payment settles, when it is too late to refuse.
EnvelopeIsWhole ==
    carried # {} =>
        LET tags == options.tags
            sent == Envelope(tags)
        IN  /\ ToBag(sent.contentType \o sent.tags) = ToBag(tags)
            /\ InOrder(sent.tags, tags)
            /\ TagBytes(tags) + Reserve <= MaxTagBytes
            /\ tags = <<>> => options.dataBytes <= X402_MAX_DATA_BYTES

\* An upload without a signed item keeps the promise too: resolved means stored.
Promise == INSTANCE UploadPromise WITH
    complete <- carried # {},
    asked <- carried # {},
    charged <- stored # {},
    outcome <- outcome
ImplementsPromise == Promise!Spec

\* The promise settles, whatever the service answers and never answers.
Settles == <>(outcome # "pending")
=============================================================================
