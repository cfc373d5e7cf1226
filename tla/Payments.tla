------------------------------ MODULE Payments ------------------------------
(***************************************************************************)
(* The payment calls of a client: getFundingAddress(), getBalance() and    *)
(* the other reads, submitFundTransaction() and shareCredits(), several at *)
(* a time.  A request that fails is sent again, so the service may handle  *)
(* it twice, or after the caller has been told that it failed; the body of *)
(* an answer may break off, which reads as an empty one.                   *)
(***************************************************************************)
EXTENDS Bytes

CONSTANTS
    Calls,         \* the calls of one client, concurrent or one after the other
    Retries,       \* of a request
    Addresses,     \* the funding addresses the service uses over time, 0..n
    Arguments,     \* per call: the options it is called with
    Deterministic, \* a key that signs the same item twice signs it the same
    Instants       \* what Date.now() may answer

ASSUME PayRetriesAssumption == Retries \in Nat
ASSUME AddressesAssumption == Addresses \in Nat
ASSUME DeterministicAssumption == Deterministic \in BOOLEAN
ASSUME InstantsAssumption == Instants \subseteq Nat

\* Text is a sequence of characters, of which 0..9 are the digits.
ASSUME ArgumentsAssumption ==
    \A a \in Arguments["share"] :
        a.approvedWincAmount.form = "text" => a.approvedWincAmount.value \in Seq(Int)

Reads == {"fund", "balance", "quota", "limit", "cost", "winc", "checkout"}
Ops == Reads \cup {"submit", "share"}

VARIABLES
    op,        \* what each call is
    pc,        \* "idle", "sign", "request" or "done"
    tries,     \* retries its request has used
    posted,    \* its request was put on the network
    reply,     \* the service's answer to the attempt in progress, if any
    result,    \* what the caller was given: [kind, value]
    share,     \* the options of a shareCredits(), and when it was called
    item,      \* the approval item it signed, if any
    address,   \* the service's funding address
    transfer,  \* the top-up on chain: "sent", "final" or "failed"
    account,   \* the top-up at the service: "unseen", "pending", "credited" or "failed"
    approvals, \* the approval items the service has
    seen       \* per read, what it could have read since it began

callVars == <<op, pc, tries, posted, reply, result, share, item>>
serviceVars == <<address, transfer, account, approvals>>
vars == <<callVars, serviceVars, seen>>

None == <<>>
Nothing == [kind |-> "none", value |-> None]

Init ==
    /\ op = [c \in Calls |-> "none"]
    /\ pc = [c \in Calls |-> "idle"]
    /\ tries = [c \in Calls |-> 0]
    /\ posted = [c \in Calls |-> FALSE]
    /\ reply = [c \in Calls |-> None]
    /\ result = [c \in Calls |-> Nothing]
    /\ share = [c \in Calls |-> None]
    /\ item = [c \in Calls |-> None]
    /\ address = 0
    /\ \/ transfer = "sent" /\ account = "unseen"
       \/ transfer = "final" /\ account = "credited"
    /\ approvals = {}
    /\ seen = [c \in Calls |-> {}]

Settle(c, r) ==
    /\ pc' = [pc EXCEPT ![c] = "done"]
    /\ result' = [result EXCEPT ![c] = r]

Error == [kind |-> "error", value |-> None]
Resolved(kind, value) == [kind |-> kind, value |-> value]

---------------------------------------------------------------------------
(* What an answer becomes. A body that is no object reads as an empty one. *)

\* getFundingAddress(): an address, or an error.
FundingAddress(body) == IF body = None THEN Error ELSE Resolved("address", body)

\* getBalance(): a wallet the service has never seen has a balance of zero.
Balance(status, body) ==
    IF status = 404 \/ body = None THEN Resolved("winc", <<0>>) ELSE Resolved("winc", body)

\* getFreeQuota(): null when the service reports no limit.
FreeQuota(body) == Resolved("bytesRemaining", body)

\* getFreeUploadLimitBytes(): a number, or an error.
FreeUploadLimitBytes(body) == IF body = None THEN Error ELSE Resolved("limit", body)

\* getUploadCost(): the answer as it is.
UploadCost(body) == Resolved("cost", body)

\* wincForTokenResult(): its fields, absent ones left undefined.
WincForToken(body) == Resolved("price", body)

\* createCheckoutSession(): its fields, absent ones left undefined.
CheckoutResult(body) == Resolved("session", body)

\* Defect: any answer the service gives means that it has the credits.
FundTransactionResultOk(status, body) ==
    IF body = <<"failed">> THEN Resolved("failed", None) ELSE Resolved("confirmed", None)

\* fundTransactionResult(): one of credited, pending or failed, or an error.
FundTransactionResult(status, body) ==
    CASE body = <<"credited">> -> Resolved("confirmed", None)
      [] body = <<"pending">> -> Resolved("pending", None)
      [] body = <<"failed">> -> Resolved("failed", None)
      [] body = None /\ status = 202 -> Resolved("pending", None)
      [] OTHER -> Error

\* shareCredits(): the service's createdApproval, or an error.
CreatedApproval(body) == IF body = None THEN Error ELSE Resolved("approval", body)

\* Defect: every refusal is taken for a wallet that was never seen.
AnyStatus(o) == IF o \in {"balance", "quota"} THEN {200, 202, 402, 404, 503} ELSE {200, 202}

\* The statuses that are an answer: allowedStatuses, beside those below 300.
Expected(o) == IF o \in {"balance", "quota"} THEN {200, 202, 404} ELSE {200, 202}

\* _request() throws on a status that the call does not expect.
Read(o, a) ==
    IF a.status \notin Expected(o) THEN Error
    ELSE CASE o = "balance" -> Balance(a.status, a.body)
           [] o = "quota" -> FreeQuota(a.body)
           [] o = "fund" -> FundingAddress(a.body)
           [] o = "limit" -> FreeUploadLimitBytes(a.body)
           [] o = "cost" -> UploadCost(a.body)
           [] o = "winc" -> WincForToken(a.body)
           [] o = "checkout" -> CheckoutResult(a.body)
           [] o = "submit" -> FundTransactionResult(a.status, a.body)
           [] o = "share" -> CreatedApproval(a.body)

---------------------------------------------------------------------------
(* Arguments *)

\* integerString(): a safe integer ("number") or a bigint, or digits as text, which
\* lose their leading zeros; not an integer beyond 2^53 - 1 ("large"), nor a
\* fraction.
IsAmount(v) ==
    CASE v.form = "number" -> v.value >= 0
      [] v.form = "bigint" -> v.value >= 0
      [] v.form = "text" -> v.value # <<>> /\ \A i \in DOMAIN v.value : v.value[i] \in 0..9
      [] OTHER -> FALSE
DigitsOf(n) == IF n = 0 THEN <<0>> ELSE InBase(n, 10)

\* Defect: text is taken as it stands.
IntegerStringAsGiven(v) == IF v.form = "text" THEN v.value ELSE DigitsOf(v.value)

IntegerString(v) ==
    IF v.form # "text" THEN DigitsOf(v.value)
    ELSE LET zeros == CHOOSE z \in 0..(Len(v.value) - 1) :
                         /\ \A i \in 1..z : v.value[i] = 0
                         /\ v.value[z + 1] # 0 \/ z = Len(v.value) - 1
         IN  SubSeq(v.value, zeros + 1, Len(v.value))
IsPositive(v) == IsAmount(v) /\ IntegerString(v) # <<0>>

\* addressString(): one token.
IsAddress(text) == text \notin {"", "two words", "no text"}

\* fundTransactionBody(): a Solana, Arweave or EVM transaction id.
IsTransactionId(txId) ==
    \/ txId.alphabet = "base58" /\ txId.length \in 32..100
    \/ txId.alphabet \in {"base58", "base64url"} /\ txId.length = 43
    \/ txId.alphabet = "0x hex" /\ txId.length = 64

\* createCheckoutSession()
IsCheckout(a) ==
    /\ IsPositive(a.amount)
    /\ a.currency = "three letters"
    /\ IsAddress(a.owner)
    /\ a.uiMode \in {"hosted", "embedded"}
    /\ a.promoCodes = "array"

\* shareCredits()
ShareAccepted(a) ==
    /\ IsAddress(a.approvedAddress)
    /\ IsPositive(a.approvedWincAmount)
    /\ a.expiresBySeconds = None \/ a.expiresBySeconds[1] > 0

\* Every call refuses an option it does not know, and then what it makes no
\* sense to ask.
Allowed(o, a) ==
    /\ a.unknown = {}
    /\ CASE o = "cost" -> a.bytes.form \in {"number", "large"} /\ a.bytes.value >= 0
         [] o = "winc" -> IsAmount(a.tokenAmount)
         [] o = "quota" -> IsAddress(a.address)
         [] o = "submit" -> IsTransactionId(a.txId)
         [] o = "checkout" -> IsCheckout(a)
         [] o = "share" -> ShareAccepted(a)
         [] OTHER -> TRUE

---------------------------------------------------------------------------
(* The calls *)

\* What a call that reads the address or the balance could find.
Readable(o, a, b) ==
    CASE o = "fund" -> {<<a>>}
      [] o = "balance" -> {IF b = "credited" THEN <<1>> ELSE <<0>>}
      [] OTHER -> {}

BeginRead(c) ==
    /\ pc[c] = "idle"
    /\ \E o \in Reads \cup {"submit"} : \E a \in Arguments[o] :
          /\ op' = [op EXCEPT ![c] = o]
          /\ IF Allowed(o, a)
             THEN /\ pc' = [pc EXCEPT ![c] = "request"]
                  /\ posted' = [posted EXCEPT ![c] = TRUE]
                  /\ seen' = [seen EXCEPT ![c] = Readable(o, address, account)]
                  /\ UNCHANGED result
             ELSE Settle(c, Error) /\ UNCHANGED <<posted, seen>>
    /\ UNCHANGED <<tries, reply, share, item, serviceVars>>

\* Defect: the data is not a nonce.
ApprovalItemWithoutTime(c, a, now) ==
    [for |-> a.approvedAddress, amount |-> IntegerString(a.approvedWincAmount),
     expires |-> a.expiresBySeconds, at |-> 0, signature |-> IF Deterministic THEN None ELSE <<c>>]

\* The nonce and the tags of the approval item.
ApprovalItem(c, a, now) ==
    [for |-> a.approvedAddress, amount |-> IntegerString(a.approvedWincAmount),
     expires |-> a.expiresBySeconds, at |-> now, signature |-> IF Deterministic THEN None ELSE <<c>>]

BeginShare(c, a, now) ==
    /\ pc[c] = "idle"
    /\ op' = [op EXCEPT ![c] = "share"]
    /\ share' = [share EXCEPT ![c] = <<a, now>>]
    /\ IF Allowed("share", a)
       THEN /\ pc' = [pc EXCEPT ![c] = "sign"]
            /\ item' = [item EXCEPT ![c] = <<ApprovalItem(c, a, now)>>]
            /\ UNCHANGED result
       ELSE Settle(c, Error) /\ UNCHANGED item
    /\ UNCHANGED <<tries, posted, reply, serviceVars, seen>>

\* signAsync() ends, and the item is uploaded, or the wallet refuses.
ShareSigned(c) ==
    /\ pc[c] = "sign"
    /\ \/ /\ pc' = [pc EXCEPT ![c] = "request"]
          /\ posted' = [posted EXCEPT ![c] = TRUE]
          /\ UNCHANGED result
       \/ Settle(c, Error) /\ UNCHANGED posted
    /\ UNCHANGED <<op, tries, reply, share, item, serviceVars, seen>>

\* Defect: an address that another call has read is kept for the next.
AnsweredFromCache(c) ==
    /\ pc[c] = "request"
    /\ reply[c] # None
    /\ \E body \in {reply[c][1].body, None} :
         LET kept == {d \in Calls : op[c] = "fund" /\ result[d].kind = "address"}
         IN  /\ reply' = [reply EXCEPT ![c][1].body = body]
             /\ Settle(c, IF kept = {} THEN Read(op[c], reply'[c][1])
                          ELSE result[CHOOSE d \in kept : TRUE])
    /\ UNCHANGED <<op, tries, posted, share, item, serviceVars, seen>>

\* The answer arrives, with its body or without.
Answered(c) ==
    /\ pc[c] = "request"
    /\ reply[c] # None
    /\ \E body \in {reply[c][1].body, None} :
           /\ reply' = [reply EXCEPT ![c][1].body = body]
           /\ Settle(c, Read(op[c], reply'[c][1]))
    /\ UNCHANGED <<op, tries, posted, share, item, serviceVars, seen>>

\* Defect: transient failures are retried for ever.
FailsForEver(c) ==
    /\ pc[c] = "request"
    /\ reply' = [reply EXCEPT ![c] = None]
    /\ UNCHANGED <<op, pc, tries, posted, result, share, item, serviceVars, seen>>

\* The attempt fails, whether the service has handled it or not: a transient
\* status, a lost answer or a timeout.
Fails(c) ==
    /\ pc[c] = "request"
    /\ IF tries[c] < Retries
       THEN /\ tries' = [tries EXCEPT ![c] = @ + 1]
            /\ UNCHANGED <<pc, result>>
       ELSE Settle(c, Error) /\ UNCHANGED tries
    /\ reply' = [reply EXCEPT ![c] = None]
    /\ UNCHANGED <<op, posted, share, item, serviceVars, seen>>

---------------------------------------------------------------------------
(* The service and the chain *)

Reply(c, status, body) ==
    reply' = IF pc[c] = "request" THEN [reply EXCEPT ![c] = <<[status |-> status, body |-> body]>>]
             ELSE reply

\* The reads in progress could read the service's new state.
Observed(a, b) ==
    seen' = [c \in Calls |-> IF pc[c] = "request" THEN seen[c] \cup Readable(op[c], a, b) ELSE seen[c]]

HandlesRead(c) ==
    /\ op[c] \in Reads
    /\ pc[c] = "request"
    /\ CASE op[c] = "fund" -> Reply(c, 200, <<address>>)
         [] op[c] = "balance" ->
              \/ account = "credited" /\ Reply(c, 200, <<1>>)
              \/ account # "credited" /\ Reply(c, 404, None)
              \/ Reply(c, 503, None)
         [] op[c] \in {"quota", "limit", "cost", "winc", "checkout"} ->
              Reply(c, 200, <<1>>) \/ Reply(c, 404, None)
    /\ UNCHANGED <<op, pc, tries, posted, result, share, item, serviceVars, seen>>

\* What the service makes of a transaction it is told of, the first time and
\* again: "submitting the same id twice credits it once".
AccountAfter ==
    IF account \in {"credited", "failed"} THEN account
    ELSE CASE transfer = "sent" -> "pending"
           [] transfer = "final" -> "credited"
           [] transfer = "failed" -> "failed"

HandlesSubmit(c) ==
    /\ op[c] = "submit"
    /\ posted[c]
    /\ account' = AccountAfter
    /\ \/ Reply(c, 200, <<account'>>)
       \/ account' = "pending" /\ Reply(c, 202, None)
    /\ Observed(address, account')
    /\ UNCHANGED <<op, pc, tries, posted, result, share, item, address, transfer, approvals>>

\* An approval of credits the account has; for an item it has already, it may
\* name the approval again or not.
HandlesShare(c) ==
    /\ op[c] = "share"
    /\ posted[c]
    /\ \/ /\ account = "credited"
          /\ approvals' = approvals \cup {item[c][1]}
          /\ \/ Reply(c, 200, item[c])
             \/ item[c][1] \in approvals /\ Reply(c, 200, None)
       \/ account # "credited" /\ Reply(c, 402, None) /\ UNCHANGED approvals
    /\ UNCHANGED <<op, pc, tries, posted, result, share, item, address, transfer, account, seen>>

AddressRotates ==
    /\ address < Addresses
    /\ address' = address + 1
    /\ Observed(address', account)
    /\ UNCHANGED <<callVars, transfer, account, approvals>>

TransferEnds ==
    /\ transfer = "sent"
    /\ transfer' \in {"final", "failed"}
    /\ UNCHANGED <<callVars, address, account, approvals, seen>>

\* The service keeps checking a transaction that it was told of.
ServiceChecks ==
    /\ account = "pending"
    /\ account' = AccountAfter
    /\ Observed(address, account')
    /\ UNCHANGED <<callVars, address, transfer, approvals>>

CallStep(c) == ShareSigned(c) \/ Answered(c) \/ Fails(c)
AllSettled ==
    /\ \A c \in Calls : pc[c] = "done"
    /\ UNCHANGED vars

ServiceStep ==
    \/ \E c \in Calls : HandlesRead(c) \/ HandlesSubmit(c) \/ HandlesShare(c)
    \/ AddressRotates \/ TransferEnds \/ ServiceChecks

Next ==
    \/ \E c \in Calls : BeginRead(c) \/ (\E a \in Arguments["share"], now \in Instants : BeginShare(c, a, now)) \/ CallStep(c)
    \/ ServiceStep
    \/ AllSettled

Spec == Init /\ [][Next]_vars

\* Requests are answered or time out, and the wallet's prompt is answered.
FairSpec == Spec /\ \A c \in Calls : WF_vars(CallStep(c))

---------------------------------------------------------------------------
(* Properties *)

\* "A stale address is money sent to the wrong place": the address or the
\* balance that a call returns was the service's while the call was in
\* progress. The one exception: an answer of 200 to getBalance() that broke off is
\* returned as zero, and as nothing else, whatever the account holds.
AnswersAreCurrent ==
    \A c \in Calls : result[c].kind \in {"address", "winc"} =>
        \/ result[c].value \in seen[c]
        \/ /\ op[c] = "balance" /\ reply[c][1].status = 200 /\ reply[c][1].body = None
           /\ result[c].value = <<0>>

\* What the caller is told of its top-up is what the service has decided, and
\* will not take back, however often the transaction was reported.
StatusIsTrue ==
    \A c \in Calls :
        /\ result[c].kind = "confirmed" => account = "credited"
        /\ result[c].kind = "failed" => account = "failed"

Worth(v) == IF v.form # "text" THEN v.value ELSE Number([i \in DOMAIN v.value |-> v.value[Len(v.value) + 1 - i]], 10)

\* A share that resolves has its own approval, for the address it was given and
\* as many winc, whatever form they were given in; two share one only if they
\* were made in the same millisecond.
SharesAreDistinct ==
    \A c \in Calls : result[c].kind = "approval" =>
        LET approval == result[c].value[1]
        IN  /\ approval \in approvals
            /\ approval.for = share[c][1].approvedAddress
            /\ approval.amount = DigitsOf(Worth(share[c][1].approvedWincAmount))
            /\ approval.expires = share[c][1].expiresBySeconds
            /\ \A d \in Calls \ {c} :
                 result[d].kind = "approval" /\ result[d].value[1] = approval =>
                     share[c][2] = share[d][2]

\* Every call settles.
PaymentsSettle == \A c \in Calls : pc[c] = "sign" \/ pc[c] = "request" ~> pc[c] = "done"

\* client.js, shareCredits(): "two approvals for the same address and amount
\* must still be two different items".
EachShareItsOwnItem ==
    \A c, d \in Calls : c # d /\ op[c] = "share" /\ op[d] = "share" /\ posted[c] /\ posted[d] =>
        item[c] # item[d]
=============================================================================
