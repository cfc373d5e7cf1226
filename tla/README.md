# TLA+ models of turbo-upload

turbo-upload signs ANS-104 data items and uploads them to an ArDrive Turbo
service. Its own logic is what happens between a signed item and a settled
promise: requests that are retried, chunks that run concurrently, a service that
charges once it holds everything, callers that abort. This directory models
that logic in TLA+, checks it with TLC on small instances and proves its safety
properties with TLAPS for all sizes.

Paths below are relative to the repository's root; the package's own code is in
`src/core/` with Node and browser bindings in `src/` and `src/web/`.

## The system

| Component | Code | State it keeps | Operations | Talks to |
|---|---|---|---|---|
| HTTP transport | `core/http.js` | per call: attempt, timer, composed signal, last error | `request`, `sleep`, `anySignal`, `readBody`, `resolveRetryConfig` | `fetch`, the caller's `AbortSignal` |
| Chunked upload | `core/chunked.js` | per upload: offset, requests in flight, first error, internal abort, bytes landed, upload id, deadline | `uploadChunked`, `rechunk`, `iterate`, option checks | the transport, the source, `onProgress`, the multipart service |
| Single POST | `core/client.js` `#postSingle` | none beyond the request | one `POST /v1/tx`, id comparison | the transport, the upload service |
| Upload dispatch | `core/client.js` `upload`, `uploadSigned` | `_singleItemLimit`, shared by all calls of a client | choose POST or chunks, fall back to chunks when the service states its limit | the two above |
| Stream upload | `core/client.js` `uploadStream` | digest and length of each of the two reads | hash, sign, send, compare before finalize | the caller's stream factory, chunked upload |
| Wallet signers | `core/signer.js`, `core/ethereum.js`, `client.js` `signAsync` | cached public key, connection prompt in progress | prompt, sign, normalise, verify | the user's wallet |
| x402 payments | `core/x402.js` | one authorization per upload | envelope, quote, select terms, sign, one paid request | the wallet, the x402 service |
| Payment API | `core/payment.js`, `client.js` | none of the client's; the service's account, addresses and approvals | balance, prices, quota, funding address, checkout, `submitFundTransaction`, `shareCredits` | the payment service, the chain |
| ANS-104 codec | `core/ans104.js`, `ans104.js` | none | create, price, parse, check, `deepHash`, verify | - |
| Cryptography and encodings | `core/sha2.js`, `core/keccak.js`, `core/bytes.js`, `core/base58.js`, `ed25519.js`, `jwk.js` | a hasher's blocks, rest and total | hash in pieces, encode, decode, load a key | the platform's RSA, Ed25519 and curves |
| Platform bindings | `client.js`, `web/client.js` | configuration | constructors, the verifiers of a build | - |
| Conformance and harness | `conformance/`, `harness/`, `scripts/` | none | a reference signer and parser; programs that compare and drive | - |

Interaction: `upload()` signs and calls `uploadSigned()`, which chooses
`#postSingle` or `uploadChunked`; both make every request through `request()`.
`uploadStream()` reads the stream twice around a signature and uses either path.
`shareCredits()` signs an approval item and uploads it the same way. The caller
reaches every layer through one `AbortSignal` and gets progress through a
callback that runs inside the upload.

### What is hard about it

* **Interleaving.** Chunk POSTs settle in any order while the loop pulls the
  source; each has its own retries and backoff; one failure aborts the others,
  whose own failures then arrive too. Several calls share a wallet's prompt.
* **Lost, repeated and late messages.** A request may have been taken though its
  answer was lost; it is sent again. What was sent can arrive after the promise
  has settled, and the body of an answer may break off.
* **Timeouts.** Each attempt has one; the wait for finalization has a deadline;
  the caller's signal cuts across both, during a fetch, a backoff or a body.
* **Money.** Asking for finalization is what charges. It must be asked only for
  a complete item made of the bytes that were signed, and success must never be
  reported for an item that was not charged and stored. The funding address is
  where money is sent, and a top-up's status what the caller acts on.
* **State across awaits.** The item limit a client remembers, a wallet prompt two
  calls share, a buffer that is verified while its owner may write to it, and
  buffers a stream may reuse.
* **Boundaries.** Varints, block and chunk borders, words of 64 bits kept in
  halves, text outside the basic plane, keys that begin with zeros.

### What makes each component correct

* Transport: retries spent exactly, final failures not retried, no timer left,
  an abort always settles.
* Chunked upload: bounded memory; the first failure wins and stops everything;
  nothing runs afterwards; finalize only when complete; success only when
  finalized; it always settles.
* Single POST: never success without a stored item.
* Dispatch: one fallback at most, and no item charged both ways.
* Stream: the bytes sent are the bytes signed, or nothing is paid for.
* Signers: no signature is used that does not verify over the exact bytes; one
  connect prompt for all calls, and no call fails on a refusal of the past.
* x402: at most one authorization, never for more than the caller's limit, and
  what an error says of the payment is true.
* Payment API: what a call returns is the service's during the call; a status
  that is told is not taken back; an approval is what was asked for.
* Codec: what is created is accepted, what is accepted says one thing, and the
  reference implementation agrees.

The hazards behind these, each at its line, are in `PROJECT.json`.

## The modules

| Module | Models |
|---|---|
| `UploadPromise` | what an upload promises: asked, complete, charged, one outcome |
| `ChunkedUpload` | `uploadChunked()` with the transport under each of its requests, the network and the multipart service; its properties and inductive invariant |
| `HttpRequest` | one call of `request()` in detail: timer, signal, head and body, retries, backoff |
| `SinglePost` | `#postSingle()` over `HttpRequest`, with the service |
| `UploadSigned` | `uploadSigned()`: `SinglePost`, the chunks it may fall back to, and the limit its client remembers |
| `StreamUpload` | `uploadStream()`, `rechunk()`, `iterate()`: the two reads of a stream, byte by byte, with the hash over each |
| `Hashes` | the incremental SHA-2 hasher: block buffer, padding, length field, sums of 64-bit words |
| `Keccak` | Keccak-256 bit for bit |
| `Bytes` | UTF-8, base64url, hex, base58 and varints |
| `DeepHash` | the deep hash as a term |
| `DataItem` | the layout and pricing of an ANS-104 item, its parsing and the structural check |
| `ReferenceSigner` | the reference implementation's own layout, parser and deep hash |
| `Signing` | from a key or a wallet to a signed item and a verdict: constructors, `upload()` up to its signature, both builds' verifiers |
| `WalletSigner` | concurrent `signAsync()` calls on one Solana or EVM wallet |
| `X402Request` | what an x402 upload decides before it sends anything: network, transport, envelope |
| `X402` | `uploadUnsignedX402()`: quote, terms, authorization, the paid request |
| `Payments` | concurrent payment calls, the service's account and addresses, the chain |
| `Bytes_proofs`, `ChunkedUpload_proofs`, `UploadSigned_proofs`, `StreamUpload_proofs`, `DataItem_proofs`, `X402_proofs`, `Payments_proofs`, `Signing_proofs` | the theorems; those about `WalletSigner` are at the end of `Signing_proofs`, which extends both |
| `MC...` | the instances TLC checks, and evaluations of the pure operators as assumptions |

How they are composed:

* `SinglePost` EXTENDS `HttpRequest`, and `UploadSigned` EXTENDS `SinglePost`.
* `StreamUpload` EXTENDS `Hashes`; `Signing` EXTENDS `Bytes` and `DeepHash`; `X402`
  uses `X402Request`; `ReferenceSigner` EXTENDS `DataItem`, so that both parsers
  read the same bytes.
* `ChunkedUpload`, `UploadSigned` and `X402` all implement `UploadPromise`
  (`ImplementsPromise`, `UploadImplementsPromise`), as proved theorems and in
  runs. Each maps its own service state to `complete`, `asked`, `charged`,
  `outcome`.
* Because of that theorem the chunked leg of `UploadSigned` is an INSTANCE of
  `UploadPromise`, not of `ChunkedUpload`.

Definitions preceded by a comment that begins with *Defect* are the forms a
plausible bug would give an action. No specification uses them: they are the
mutants of `PROJECT.json`, which show that each property can fail.

### ChunkedUpload and the code

| In the model | In `core/chunked.js` |
|---|---|
| `pc` | where the function is: `init`, `pull` (the `for await`), `room` (`Promise.race`), `settle` (`Promise.allSettled` and the checks after it), `finalize`, `status`, `wait` (the sleep between polls), `done` |
| `offset` | `offset`, in chunks |
| `post[c]`, `tries[c]` | the promise of chunk `c`'s `post()` and its `attempt` in `request()`; `inFlight` is the set of chunks whose POST is active |
| `call`, `callTries` | the request the function itself awaits |
| `firstError`, `stopped` | `firstError`, `stop.signal.aborted` |
| `sent`, `reported` | `sent`, and the `processedBytes` of the last `onProgress` |
| `expired` | `Date.now() >= deadline` |
| `outcome`, `thrown`, `tagged` | the returned promise, its error by kind, and whether the error has `.uploadId`; `RejectWith` is the assignment of that property, which throws a `typeError` of its own on a string or a frozen object, as only the caller's own code throws them (`CallersErrors`) |
| `sameBytes` | whether the second read of the stream equals the first (`beforeFinalize`) |
| `sentChunks`, `finalizeSent` | what was ever put on the network and so may still arrive |
| `received`, `svc`, `receiptId` | the service |

JavaScript runs a piece of code between two awaits alone, so such a piece is one
action. A request is on the wire, backing off, or settled; it ends by an answer
(only if the service could have given it: `c \in received`, `svc # "open"`), a
refusal, or a throw, and each failure is retried while retries are left. The
item is measured in chunks: the sizes of the pieces a source yields do not
matter to the properties, their number and completeness do. Which service
answer maps to which error is kept; texts and headers are not.

The service is external. It is modelled as the code relies on it: a chunk
received twice is one chunk, a finalize received twice is one finalize, it
refuses to assemble an incomplete item, it checks the signature, and its status
may lag behind. It may also drop anything, refuse anything, and never finish.

### HttpRequest and the code

One action per piece of `request()` between awaits: `Fetch` (arm the timer, call
`fetch`), `FetchRejects` (the `catch`), `FetchResolves` (clear the timer, look at
the status), `ReturnWith` and `ErrorBodyRead` (after `readBody`), `SleepEnds`.
Around it run `TimerFires`, `CallerAborts`, and the network. `ChunkedUpload` uses
the same control with less detail: a timeout and a network error are one kind,
and a body is part of its response.

### UploadSigned and the code

| In the model | In `core/client.js` |
|---|---|
| `Decide`, `ShouldChunk` | `shouldChunk()`: the caller's `chunking` option, the known limit, twice the chunk size |
| `knownLimit` | `_singleItemLimit`, which another call of the client may set at any time |
| `route = "single"` | `#postSingle()`, every step of `SinglePost` |
| the fallback actions | the `catch` around it: a refusal that states a limit the item exceeds, unless `chunking` is `"disabled"` |
| `route = "chunks"` | `uploadChunked()`, the steps of `UploadPromise` |

The service's limit is constant during a call and the limit it states is its
own; it refuses for its limit only what exceeds it. Copies of the POST that
were on the wire may arrive while the chunks are being sent.

### StreamUpload, Hashes and the code

Byte `k` of the stream is the number `k`, so a lost, repeated, swapped or
changed byte is seen. `held` is `rechunk()`'s `parts`: it keeps the pieces it was
given, not copies, so a held byte is a value or a place in the stream's
`buffer`, which a stream with `reuses` fills again for its next piece. The small
item's path copies each piece (`pc = "copy"`). The requests under each chunk are
`ChunkedUpload`'s, abstracted here to taken or thrown; `sameBytes` of
`ChunkedUpload` is what this module computes in detail.

`hasher` is the state of a `Sha256` or `Sha384`: the blocks that were compressed, the
rest that is buffered and the total. The compression function is abstracted: a
digest is the sequence of the blocks compressed, so two digests are equal exactly
when the padded messages are, which is what collision resistance means to this
code. `Update()` and `Padding()` are the code's; `DigestOf()` is FIPS 180-4's
definition over the whole message, against which they are checked. `SumOfWords()`
is the addition of 64-bit words held as two halves. `Keccak` abstracts nothing:
the state is the set of the places of its one bits, in the code's words and order.

### WalletSigner and the code

A call goes through `phase`: the owner is the cached `publicKey`, or comes from the
connection prompt the calls share, then the item's own prompt, then the
verification. `connecting` is the promise they share: it waits for the wallet's
answer (`prompt`), then for the key to be recovered from it (`recover`), and is
`rejected` for a moment before its handler resets it, so that a later call may ask
again. A call may join at any of these, also on an answer that came before it began;
`joined` is the history of whom it joined. `answer` is the array a wallet returned, which it
may write to later; `signature` is the call's own. The user may switch accounts
between two prompts. Keys are model values and a signature is the key it
verifies under, or `Garbage`.

### Signing and the code

| In the model | In the code |
|---|---|
| `MakeClient`, `LoadKey`, `NormalizeSigner`, ... | the constructor of `core/client.js` with the platform of the build, `parseSolanaKey()`, `parseJwk()`, `loadJwk()`, `normalizeSigner()`, the EVM signer's address checks, `resolveRetryConfig()` |
| `RefuseCall`, `SignAtOnce`, `AskWallet`, `WalletConnects` | `upload()` up to its signature. `CallHolds` is checked first; `ItemHolds` (tags, target, anchor) when the item is made, for an EVM wallet without a key after its connect prompt |
| `SignalHolds`, `pc = "unsent"` | the first request, which throws on a `signal` that is none, after the signature |
| `WalletSigns`, `WalletRefuses` | the wallet's answer and its verification |
| `BeginVerify(v)`, `VerifyAnswers(v)` | `verifyDataItem()` of the Node and the web build, one step up to each await |
| `OthersWrite` | whoever owns the buffer writes to it between two of those steps |

Keys are bytes in the forms users hold them (base58, JSON, bytes, JWK as an object
or as text). A signature is a term that says which key made it over what, with the
parts a third party can change: the salt of an RSA-PSS signature, the `v` byte, the
parity and the half of an ECDSA one. So nothing is forged, and everything
malleable is there.

### X402, X402Request and the code

`X402Request` holds what is decided before a request: `resolveNetwork()`,
`assertSecure()`, the tags, the room the service's own tags need, and the size of
the JSON envelope. In `X402`, `QuoteSent` to the terms is the first, unpaid POST
with the retries of `request()`; `selectRequirement()` takes the first exact offer
on the caller's network in USDC and refuses when that one is malformed or above
the cap, whatever follows it; `signatures` and `submitted` count what the wallet
signed and what was put on the network; `says` is what the error's message claims
about the payment. The service may settle a submitted authorization at any later
time, whatever it answered. `wrapped` is an ERC-6492 signature, which the code
treats apart.

### Payments and the code

Each call is a read, a `submitFundTransaction()` or a `shareCredits()`. `Allowed()`
is the refusal of unknown options and of arguments that make no sense (an integer that is
not a safe one is refused by `integerString()` and taken by `getUploadCost()`); `Read()` maps
the status and body of an answer to what the caller is given, one operator per
normaliser of `core/payment.js`. An attempt fails whether or not the service has
handled it, is sent again while retries are left, and an answer may come
without its body. The service rotates its funding address, credits, refuses or goes on
checking a top-up as the chain decides, and stores approvals by item. `seen` is
a history: what a read could have read since it began.

### DataItem, ReferenceSigner and the code

Layout (`SerializeTags`, `WriteVarLong`, the header) and pricing are pure and written
as functions; `parseAndCheckStructure()` is a state machine with one step per turn
of its loops. Names, values and data are text or bytes as the caller gave them;
text is UTF-16 code units and becomes UTF-8 through `Bytes`. `ReferenceSigner` is
written from the reference implementation alone: it lays items out at offsets
it computes itself and reads them by recursion along the buffer, in recursive functions. `AcceptedSaysOneThing` is stated of
items that declare at least one tag: for a declared count of zero the code skips
the region (`core/ans104.js` line 483), so such an item is accepted whatever its
region holds, and the model accepts it too.


## The runs

| Run | Instance | What it shows |
|---|---|---|
| `chunked` | 3 chunks, 2 in flight, 1 retry; 26,692 states | a chunked upload charges only for a complete item, reports its first failure and stops on it, leaves nothing running, holds a bounded number of chunks, keeps the promise of an upload, and settles |
| `upload_signed` | 3 retries, items of 3 to 5 bytes, limits 3 and 5, chunks of 2; 45,920 states | retries are spent exactly, no timer is left, an item is charged one way only, an abort settles the call, and the whole call keeps the promise of an upload |
| `stream` | 5 bytes, header of 1, chunks of 2, pieces of up to 3, blocks of 4; 9,655 states | what is sent is what was signed or nothing is finalized; `rechunk()` loses nothing and holds little; digests do not depend on how the bytes came |
| `wallet_signer` | 3 calls, 2 accounts; 57,618 states | no item leaves with a signature that does not verify under its owner; one connect prompt at a time; calls fail for a reason and all end |
| `signing` | every form of key and wallet, sound or not, both builds; 415,376 states | a client signs for the key that was meant; what it signs verifies; what verifies is what was signed, whatever is written to the buffer meanwhile |
| `x402` | 3 retries, cap 2, up to 2 offers of 8 kinds, options of every form; 21,912 states | at most one authorization, within the terms and the cap, submitted once; what an error says about the payment is true; the envelope fits with the service's own tags |
| `payments` | 2 calls of 9 kinds, 1 retry, 1 rotation of the address, 2 instants; 231,368 states | a call returns the service's address or balance of its own time, or zero for a balance whose answer of 200 lost its body; a status that is told stays true; a share is the one that was asked for; all calls end |
| `data_item` | fields of 2 bytes, regions of up to 4 bytes out of 8 values; 143,165 states | what is created is accepted by its own build's check, what is accepted has one reading, the reference implementation agrees, and each turn of the parser moves on |
| `http_hung` | 1 retry | *violated*: `timeoutMs` does not bound a response's body |
| `single_verified` | 1 retry | *violated*: an unreadable or id-less answer resolves without the id being compared |
| `stream_reuse` | 3 bytes, a stream that fills one buffer again | *violated*: it is hashed as signed and sent otherwise, and finalized |
| `share_nonce` | 2 calls, a key whose signatures are deterministic | *violated*: two equal approvals of one millisecond are one item |

The four violated runs are disagreements between the code and what its documents
or comments say; `PROJECT.json` quotes both sides of each under "findings".

Pure functions are evaluated as assumptions of the MC modules, against a
definition that is not theirs:

* `MCStreamUpload`: Keccak-256 on the four vectors of `test/keccak.test.js` (the
  empty message, "abc", and one byte short of a block and a whole one), its tables against
  the orbit and the shift register of FIPS 202, `rotl()` by every offset, and sums
  of words in halves against sums of integers.
* `MCDataItem`: the two UTF-8 encoders, their length and the decoder on all short
  inputs out of units at every width and border, unpaired surrogates included;
  round trips of hex, base64url and base58 with leading zeros.
* `MCX402`: an upload that is accepted can be priced before, for the same network
  and the same tags.

### Bounds, and why they are enough

*Chunks*: three with two in flight is the smallest instance where the loop waits
for room, gets it, and waits again, with one chunk settled, one in flight and one
not yet pulled. One retry distinguishes a first from a last attempt.
*Dispatch*: three retries (the default), and a status stands for its class (2xx,
retried, 402, other); the sizes lie below, at and above the limits and twice the
chunk size. *Stream*: a piece spans two chunk borders, ends on one, or leaves a
rest; the last chunk is both full and short; blocks of 4 with a length field of
2 leave room for the field or not. *Wallet*: two calls share a prompt and a third
begins after it failed; two accounts are enough to switch away. *Signing*: keys of
two bytes, of which one begins with a zero and one ends with one; one option of
a good client at a time is spoilt. *x402*: two offers are enough for a bad one
before a good one; offers and options differ from good ones in one field each.
*Items*: every region of up to four bytes out of those values at which a varint
changes (0, 1, 2, 3, 4, 128, 129, 255), so one- and two-byte varints, an over-long
one and one cut off are there; strings up to 67 bytes cross both caps.
*Payments*: two calls repeat, overtake and read what the other changes; one
rotation makes an address stale.

What bounds the models and not the code: `MaxPiece` and `Excess` (how many bytes
a piece has, and how many a stream yields beyond its size before it is found out),
`MaxOffers`, `Addresses`, `Instants`. The theorems leave all of them free.

### Deadlock

It is checked in every run but `wallet_signer` and `signing`: a settled promise
may stutter, a pending one with nothing left to happen would be reported. In
`wallet_signer` the system stops once every call has ended; `CallsSettle` says that
nothing stops before. In `signing` a refused client, a failed call and two
verdicts are the end.

### Fairness

*ChunkedUpload*: weak fairness of the source, the loop, each chunk's POST, the
function's own request and the clock. In the code these are promises that settle
and timers that fire: every attempt has a timeout that rejects `fetch`, backoffs are
timers, the event loop runs what is ready. One assumption is stronger than the
code: an attempt ends, which `http_hung` shows is true of the head of a response
only. *UploadSigned* therefore assumes fairness of `request()`'s own steps, of the
timer and of the dispatch, and nothing of the network; `UploadSettlesIfBodiesEnd`
names the assumption in the property, and `UploadAbortSettles` does without it. That
its chunked leg ends is `Settles` of `ChunkedUpload`. *X402* assumes fairness of the
client's steps with the same remark; *Payments* that a request is answered or times
out and that a prompt is answered; *WalletSigner* that a user who is asked answers in
some way. Nothing is assumed of the service or of the caller's signal. A source
that stalls is not covered (see the hazards). *DataItem*, *StreamUpload* and *Signing*
assume none; `CheckAdvances` is the measure that makes the parser end.

## The proofs

Every theorem holds for every value of the constants, under the assumptions on
them that the modules state: sizes and counts are natural numbers, at least one
where the code refuses zero.

| Module | Theorem | States |
|---|---|---|
| `ChunkedUpload_proofs` | `TypeCorrect` | types; no request exceeds its retries |
| | `Invariant` | the inductive invariant `IInv` |
| | `FinalizeIsSafe` | finalize only for a complete item of the signed bytes with nothing failed or in flight |
| | `SettlesQuietly` | nothing runs once the promise has settled |
| | `MemoryIsBounded` | at most `chunkConcurrency` chunks in flight |
| | `ResolutionIsSound` | success only for a finalized, complete item with no other id |
| | `ProgressIsExact` | every chunk counted once when finalize is sent |
| | `FirstErrorIsReported` | the first failure is the one thrown, with the upload id, or a TypeError in its place where it is a value of the caller's own |
| | `FailureStops` | after a failure nothing more is put on the network |
| | `Refinement` | `uploadChunked()` implements `UploadPromise` |
| `UploadSigned_proofs` | `TypeCorrect` | types; no chunks for an item whose chunking is disabled |
| | `TimersAreCleared` | no timer outlives its attempt |
| | `RetriesAreSpent` | every retry is spent before a transient failure is thrown, none on a final one |
| | `ChargedOnce` | an item is never charged whole and again in chunks |
| | `Refinement` | `uploadSigned()` implements `UploadPromise`, whichever way the item goes |
| `StreamUpload_proofs` | `UpdateAbsorbs` | bytes in two pieces leave a hasher as in one |
| | `DigestTells` | equal digests only of equal messages |
| | `DigestIsStandard` | `digest()` of the bytes that were given is FIPS 180-4's, for every width of word, length field and block |
| | `StreamDigestIsStandard` | the digest of a stream is that of the bytes it yielded |
| | `SignedBytesLeave` | what is posted or finalized is what was signed, unless the stream reuses its buffer |
| | `RechunkKeepsBytes` | `rechunk()` neither loses, repeats nor reorders a byte |
| | `RechunkIsBounded` | it holds less than a chunk and one piece |
| `Bytes_proofs` | `ConversionRoundTrip` | digits of one base, written in another and read back, are the same, with their leading zeros |
| | `VarLongRoundTrip` | a varint amid other bytes is read back as the number, and ends where it ends |
| | `LengthIsDeclared` | the length counted beforehand is the number of bytes a string is encoded as, on either path |
| | `TextIsRead` | what is decoded is the string's code points, with U+FFFD for each lone surrogate |
| | `TextIsKept` | a string without lone surrogates or a leading mark is decoded to itself |
| | `DecodedIsShorter` | any bytes, malformed ones too, are decoded to no more code units than there are bytes |
| `DataItem_proofs` | `StringIsRead` | a tag string is read as what its creator wrote, but for lone surrogates and a leading mark |
| | `LayoutIsParsed` | `parseDataItem()` finds every part of an item where it was laid out |
| | `CreatedIsParsed` | a created item is parsed as what it was made from and is as long as it was priced |
| | `TypeCorrect` | types of the structural check |
| | `CheckGetsOn` | each turn of the check moves the cursor on within the region, or is the last |
| | `AcceptedAgree` | an accepted item has the number of tags it counts, and they come from its region |
| | `CreatedAccepted` | a created item is accepted, with the tags, the message and the length it was made with |
| | `SameItem` | the reference's `createDataItem()` writes the same bytes of the same options |
| | `SameMessage` | either hashes the same message of any binary the reference can parse |
| | `AgreeWithReference` | the package and its reference write the same items, sign the same messages and accept the same binaries with the same tags |
| `X402_proofs` | `TypeCorrect` | types |
| | `TermsAreKept` | one authorization at most, for acceptable terms within the cap |
| | `SubmittedAtMostOnce` | it is put on the network once at most |
| | `NothingPaidStaysTrue` | an error that says nothing was paid stays true |
| | `FailureIsReported` | a failure after submission warns of the payment, but for a refused ERC-6492 signature |
| | `CredentialIsPrivate` | neither bytes nor payment travel in cleartext |
| | `EnvelopeTravelsWhole` | the envelope carries every tag as often as it was given, with room for the service's own |
| | `Refinement` | `uploadUnsignedX402()` implements `UploadPromise` |
| `Payments_proofs` | `TypeCorrect` | the tables of calls, the service's account |
| | `StatusStaysTrue` | a reported top-up is confirmed or failed for good |
| | `AnswersAreTheServices` | a returned address was the service's during the call, and so was a balance, but for a 200 without its body, which is zero |
| | `SharesStayDistinct` | a resolved share is the approval that was asked for, and two calls share one only within a millisecond |
| `Signing_proofs` | `OnlyTheOriginalIsAccepted` | what verifies is what was signed, as it was when the call was made |
| | `SignedItemsVerifyEverywhere` | no verifier rejects what a key or a checked wallet signed; an RSA salt has 478 bytes |
| | `ClientsSignForTheirKey` | a client signs with the one key its options mean |
| | `SignersTypeCorrect`, `ItemsVerify`, `PromptIsShared`, `RefusalsAreNotKept` | of `WalletSigner`: the properties of concurrent calls, for any number of calls and accounts |

**A chunked upload.** None of its properties is inductive. `FinalizeOnlyComplete`
needs to know why the service holds everything when the loop ends, so `IInv` links the
client's counters to the service: chunks up to `offset` and no others were
posted (`PostsFollowOffset`); a POST that succeeded was answered by a service
holding the chunk (`LandedIsReceived`); a failed POST left a first error
(`FailuresRecorded`). When nothing is in flight, nothing failed and
`offset = ByteCount`, every POST must be `done`, so every chunk is received
(lemma `AllLanded`). What is true later rests on where the function is
(`CallPlaces`, `FinalizePlaces`, `OutcomePlaces`). `RoomToPull` and `CountsLanded`
count: the first needs strictly fewer in flight whenever the next chunk is
pulled, the second that each landing adds one element to `Landed`. Each conjunct
is one lemma with a step per action or group of actions; `TypeOK` is proved in
two halves because no prover at hand treats Boolean flags and the remaining
data in one obligation. The refinement maps `CallResumes` and `SendFinalize` to
`Ask`, the last chunk received to `Complete`, the service's decision to
`Charge`, and needs `FinalizeOnlyComplete` for the first.

**Dispatch.** The invariant of `request()` (a timer belongs to the attempt in progress,
a call that threw had spent or could not use its retries) is kept by the steps that
`UploadSigned` adds around it. `ChargedOnce` needs why the chunks may be sent at all:
the service has refused the POST for a limit that the item exceeds, the limit does
not change, so no late copy of the POST can be charged either. One assumption is
about the caller: 402 is not among the statuses that `retry.retryStatuses` names
(`PaymentAssumption`).

**A stream.** The digest of a message is the sequence of its blocks, `Cut` from the
message and its padding. `UpdateAbsorbs` says that a hasher holds the cut of what it
was given, whatever the pieces; `DigestTells` that two messages of one total have one
padding, so that equal blocks are equal messages. The upload's invariant says that
the hash is of what was read (`ReadIsHashed`), that the cells held have values of
their own unless the stream reuses its buffer (`HeldIsOwn`), and that what was sent
and what is held are the header and the bytes read, in order (`InOrder`). With the
digests compared before finalize, what was sent is what was signed. Nothing is assumed of
the compression function but that digests are equal only for equal blocks. `DigestIsStandard`
compares the two words the code writes with the standard's one field, digit by digit: the
high word is the quotient by a word's range and the low one the remainder (`FieldSplits`).
`LengthAssumption` says that the length of anything hashed, in bits, fits in two words.

**Encodings.** What a recursive function computes for every input is induction over data,
and the library's induction theorems take an operator as a parameter, which the
provers at hand cannot instantiate. The proofs use sets instead: a set of numbers that
is not empty has a least element (`LeastNumber`), so a set that holds 0 and with each
number the next holds all (`Induction`); each induction names the set of the lengths, or
the numbers, for which its statement holds. `ConversionRoundTrip` shows that the digits
written have the value of those read, that both have no superfluous zeros, and that such
digits are determined by their value. `TextIsRead` shows of one code point that the
point read back from its bytes is the point, whatever follows (`PointReadBack`, one
case for each width), and goes on by induction over the units, of which a pair takes two.
`LengthIsDeclared` follows the same cut of a string into points.

**Data items.** What is laid out is what is parsed because each part begins where
those before it end: `LayoutIsParsed` cuts the buffer into nine parts, whose lengths
the parser computes from what it has read so far, and needs of integers that they
fit in their bytes (`LongFits`, which the code checks). The check's invariant is
`IInv == TypeOK /\ Progress /\ Sized /\ Faithful`. `Faithful` says where the cursor
is in a region that the package wrote: at its start, or (`Cursor`) with the tags
done behind it, shown as they were given, and the rest, serialized, ahead of it;
each turn moves one tag across (`CursorIsAtTag`), and the last is at the final zero
(`LastIsRead`). With `StringIsRead` and `CreatedIsParsed` that is
`CreatedIsAccepted`. `Sized` holds in any region, foreign or cut: the cursor has
passed the counts, two lengths for each tag read and at least as many bytes as its
text has code units, because text is never longer than the bytes it is decoded from
(`DecodedIsShorter`, over malformed bytes too). `CheckAdvances` follows from the
signs of the lengths that the code checks before it moves.

`AgreeWithReference` follows both implementations over the same bytes. `SameItem`: the
reference's fields, set one by one in a buffer of zeros, are adjacent, so the buffer
is their concatenation, and each field's bytes are the package's (varints, integers
and both loops over a string's units, by the inductions above). `SameMessage`: the
offsets either parser computes are equal. For the tags the invariant `Agreeing` says
that, while the package's check runs, the reference's parser called on the whole
region is worth what it is worth called at the package's cursor with the tags
read so far (`Abreast`); a turn of the one is a turn of the other
(`TurnsTogether`), and where the package ends, the reference ends in a way
`RefVerdict` admits (`Concluded`). The reference's parser is recursive over a state,
and has a value only because each turn moves on: the bytes left are what the
induction goes over.

**x402.** The invariant ties each phase to what has been signed and submitted, and
the wallet's one signature to the selected terms; the service's late settlement can
only follow a submission, so an error that was said before one stays true. For
`EnvelopeIsWhole` the invariant keeps that nothing is sent unless its options were
accepted (`Accepts`). The rest is of the pure operators: `EnvelopeCarriesAll` shows
that taking the Content-Type out of any list of tags and setting it before the
others loses, repeats and reorders none (`MovedToFront`), and `FitsLeavesRoom` that
the room kept back is what the service's own tags may take.

**Wallets.** The invariant says where a call's owner came from (the cached key, or the
account the wallet revealed), so a signature that verifies is over an item that names
that account. For `FailsOnlyWhenAsked` it says that whoever waits while an answer is
in hand was asked, or joined someone who was.

**Signing.** The invariant says that what was signed is by the client's key over its
item's message, unless a wallet's word had to be taken (`Genuine`), and what each
verifier has found out about the item it was given and still has to try (`Known`).
`Altering` lists how an altered item can differ; `MatchTells` shows that one which
verifies differs in nothing, or without the strict options in its `v` or its salt:
the deep hash of three parts gives them back (`MessageTells`), so owner and data are
the signed ones, a recovered key that is the owner fixes `v`, and the malleable half
is never tried. `ClientsSignForTheirKey` is about the constructor. `Meant` says in
terms of the documented options which public key they stand for, in whichever form
it is written; the proof follows each branch of `MakeClient` and shows that the key
it keeps is that one, for which base58 must lose no zero (`ConversionRoundTrip`), or
that it refuses the options. Assumed: no wallet has the key that a failed recovery
gives (`StrangerAssumption`), and a digest is equal only for equal contents.

**Payments.** `StatusIsTrue` is not inductive because an answer is on its way before
it arrives: `ReplyIsTrue` says that such an answer is already true, and the
service's decisions are final (`DecidedForGood`), so it still is when it arrives.
`AnswersAreCurrent` needs `SeenIsCurrent`: whatever a read could find now, it could
have found since it began, so an answer that is given now is among those. One lemma
covers every answer (`ReplyKeeps`), one every move of the service (`ServiceMoves`).
`SharesAreDistinct` has an invariant of its own, `ShareIInv`: an approval is the
caller's item from the moment it is signed (`ItemOK`), an answer with a body is that
item and the service has it (`AnswerOK`), and so has what the caller is given
(`GivenOK`). The amount it says is the number of the argument in every form it may
have: `TrimmedDigits` shows of digits of any length that without their leading zeros
they are the number's own.

**Assumptions on constants.** They say what the code checks or relies on, and TLC
evaluates each in a run. Widths and counts: `ByteCountAssumption`,
`ConcurrencyAssumption`, `RetriesAssumption` and their like. `LengthAssumption`: no
message is longer than the length field can say. `WidthsAssumption`,
`SigConfigAssumption`: the constants of `core/ans104.js` are natural numbers, a
signature type fits in a byte, and no header is shorter than the parser's minimum.
`RegionsAssumption`, `OptionsAssumption`, `ArgumentsAssumption`, `OffersAssumption`,
`X402OptionsAssumption`: what callers and others give has the shape its type says;
no bound on its length or content. `KeysAssumption`, `SeedsAssumption`,
`WrittenAssumption`, `AccountsAssumption`: keys are bytes, a seed has one public
key, base58 is characters, an account is the digest of its key. `SoundAssumption`
defines two labels of the enumerated options (`sound`, `public`) by `Meant`.
`WalletKeysAssumption`: the markers of the model are no keys. `StrangerAssumption`,
`PaymentAssumption`: above.

**Only model-checked:** liveness (`Settles`, `UploadAbortSettles`, `UploadSettlesIfBodiesEnd`,
`CallsSettle`, `PaymentsSettle`), which rests on fairness and ENABLED and is out of the
provers' reach; and
Keccak, whose permutation is a fixed computation that test vectors settle.

## Known differences that no run shows

* Finalize and status requests that fail with an HTTP error reject without
  `uploadId`; the model does the same (`tagged`).
* An abort during a backoff rejects with the caller's own reason, an abort during
  `fetch` with a `TurboError`; `thrown` keeps them apart. In the chunk phase a
  reason that takes no property, such as a string, becomes a TypeError without
  `uploadId` (`RejectWith`).
* `upload()` checks its options "before signing" (`core/client.js` line 355), but not all:
  an EVM wallet without a key has signed the connect message when tags, target and
  anchor are checked (`WalletConnects`), and any wallet has signed the item when
  the first request refuses a `signal` that is none (`pc = "unsent"`).
* A refused ERC-6492 payment is reported without the warning that it might have
  settled. `FailureWarns` excepts it by name.
* The reference signer loses its place on a tag string of negative length, where the
  package refuses the item, as `AgreesWithReference` says.
* `utf8Decode()`'s fallback, for runtimes without `TextDecoder`, keeps a mark at the
  beginning that `TextDecoder` drops.

## Not modelled, and why

* The compression functions of SHA-2, RSA, Ed25519 and secp256k1: the platform's, or
  settled by test vectors. They are abstract with the properties the code relies on.
* Texts of errors (except what an x402 error says of the payment), headers,
  endpoints, logging, re-exports: nothing in them changes over time.
* `conformance/verify.js`, `conformance/wire-parity.js`, `harness/`, `scripts/`, `examples/`
  and `test/`: programs that compare, drive or demonstrate the package.
* Thrown values are taken to be truthy: `firstError || err` would treat a thrown
  `undefined` as no error.
* `onProgress` is assumed to return or throw; it is not modelled as calling back
  into the client.
* A source that stalls, and an authorization that expires while the wallet's prompt
  is open: hazards of the code that no document says it excludes.

## Plan

Done: the transport and every way of sending, with the abstract promise they
implement; signing from key to verdict; payments; the codec beside its reference;
hashes and encodings; proofs of every safety property the passing runs check.

Next, in this order:

1. Of liveness, the safety part: for each call that settles, the measure its steps
   decrease (retries left, chunks to come), as `CheckAdvances` is for the parser.
2. Two clients that share one wallet, and one client's `uploadStream()` next to its
   `upload()`: both are compositions of modules that exist.
