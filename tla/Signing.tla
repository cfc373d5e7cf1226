------------------------------ MODULE Signing ------------------------------
(***************************************************************************)
(* From a key or a wallet to a verdict: the constructor of                 *)
(* src/core/client.js with the platform of the build (src/client.js,       *)
(* src/web/client.js), one upload() up to its signed item, and that item   *)
(* verified by both builds while its bytes may be written to.  Keys are    *)
(* bytes, in the forms users hold them.  A signature is the term that says *)
(* which key made it over what, so it is not forged.  What the calls of    *)
(* one wallet do to each other is WalletSigner's.                          *)
(***************************************************************************)
EXTENDS Bytes, DeepHash

CONSTANTS
    KeyLength,      \* 32: bytes of an Ed25519 seed, and of a public key
    ModulusLength,  \* 512
    PublicKeyOf,    \* the Ed25519 public key of a seed
    Stranger,       \* a public key, as an item's owner, that is nobody's here
    Options,        \* what clients are made from
    Transfers       \* what upload() is called with

ASSUME PlatformsAssumption == \A o \in Options : o.platform \in {"node", "web"}

\* The owner that others put in the place of an item's own.
AnotherOwner(owner) == Reverse(owner)

\* Nobody's: no wallet has the stranger's key or its account, and no item's
\* owner is replaced by it.
ASSUME StrangerAssumption ==
    \A o \in Options : o.signer.kind = "ethereum" =>
        /\ o.signer.key # Stranger /\ AnotherOwner(o.signer.key) # Stranger
        /\ o.signer.address.account # <<"keccak256", Tail(Stranger)>>
        /\ AnotherOwner(o.signer.publicKey) # Stranger

Refused == [type |-> 0]
Tokens == {"ethereum", "base-eth", "base-usdc"}

---------------------------------------------------------------------------
(* Keys *)

\* publicKeyFromSeed(), and the key a seed's own key pair carries.
PublicKeyFromSeed(seed) == PublicKeyOf[seed]

\* The bytes of a Solana key: base58, a JSON array, or as they are.
SolanaKeyBytes(key) == IF key.form = "base58" THEN DecodeBase58(key.value) ELSE key.value
IsSolanaKey(key) ==
    /\ key.form \in {"base58", "json", "bytes"}
    /\ key.form = "base58" => IsBase58(key.value)
    /\ Len(SolanaKeyBytes(key)) \in {KeyLength, 2 * KeyLength}

\* Defect: the half of a secret key that is a public key is trusted.
ParseSolanaKeyTrusting(key) ==
    IF ~IsSolanaKey(key) THEN Refused
    ELSE LET bytes == SolanaKeyBytes(key)
             seed == SubSeq(bytes, 1, KeyLength)
         IN  [type |-> 4, seed |-> seed,
              publicKey |-> IF Len(bytes) = KeyLength THEN PublicKeyFromSeed(seed)
                            ELSE SubSeq(bytes, KeyLength + 1, 2 * KeyLength)]

\* parseSolanaKey(): "that half is CHECKED rather than trusted".
ParseSolanaKey(key) ==
    IF ~IsSolanaKey(key) THEN Refused
    ELSE LET bytes == SolanaKeyBytes(key)
             seed == SubSeq(bytes, 1, KeyLength)
             publicKey == PublicKeyFromSeed(seed)
         IN  IF bytes \in {seed, seed \o publicKey}
             THEN [type |-> 4, seed |-> seed, publicKey |-> publicKey]
             ELSE Refused

\* parseJwk(): an object, or text that is one.
IsJwk(key) == key.form \in {"object", "text"}

\* Defect: an exponent that no verifier will assume is let through.
LoadJwkAnyExponent(key) ==
    IF /\ IsJwk(key) /\ key.kty \in {"RSA", "absent"} /\ ~key.missing
       /\ Len(key.n) = ModulusLength /\ key.usable
    THEN [type |-> 1, n |-> key.n, e |-> key.e]
    ELSE Refused

\* loadJwk(): the fields, the exponent, the modulus, and then the key itself.
LoadJwk(key) ==
    IF /\ IsJwk(key) /\ key.kty \in {"RSA", "absent"} /\ ~key.missing
       /\ key.e = "AQAB"
       /\ Len(key.n) = ModulusLength /\ key.usable
    THEN [type |-> 1, n |-> key.n, e |-> key.e]
    ELSE Refused

\* addressFromOwner(): base64url(SHA-256(owner)).
AddressFromOwner(owner) == <<"sha256", owner>>

\* loadKey() of the Node build; the web build's throws.
LoadKey(platform, key, token) ==
    IF platform = "web" \/ token \notin {"arweave", "solana"} THEN Refused
    ELSE IF token = "solana"
         THEN LET solana == ParseSolanaKey(key)
              IN  IF solana = Refused THEN Refused
                  ELSE [type |-> 4, owner |-> solana.publicKey, held |-> solana,
                        address |-> EncodeBase58(solana.publicKey)]
    ELSE LET loaded == LoadJwk(key)
         IN  IF loaded = Refused THEN Refused
             ELSE [type |-> 1, owner |-> loaded.n, held |-> loaded,
                   address |-> AddressFromOwner(loaded.n)]

---------------------------------------------------------------------------
(* Wallets *)

\* publicKeyBytes(): bytes, base58, or an object that gives the bytes.
PublicKeyBytes(publicKey) ==
    IF publicKey.form = "base58" THEN DecodeBase58(publicKey.value) ELSE publicKey.value
HasPublicKey(publicKey) ==
    /\ publicKey.form \in {"base58", "bytes", "object"}
    /\ publicKey.form = "base58" => IsBase58(publicKey.value)
    /\ Len(PublicKeyBytes(publicKey)) = KeyLength

\* normalizeSigner()
NormalizeSigner(signer) ==
    IF /\ signer.kind = "solana" /\ signer.signs
       /\ signer.verify # "no function"
       /\ HasPublicKey(signer.publicKey)
    THEN LET owner == PublicKeyBytes(signer.publicKey)
         IN  [type |-> 4, owner |-> owner, held |-> signer, address |-> EncodeBase58(owner)]
    ELSE Refused

\* createSolanaSigner(): a wallet over a key that the process holds.
CreateSolanaSigner(key) ==
    LET solana == ParseSolanaKey(key)
    IN  [kind |-> "solana", publicKey |-> [form |-> "bytes", value |-> solana.publicKey], signs |-> TRUE,
         verify |-> "honest", key |-> solana.publicKey]

\* toChecksumAddress(), and addressFromPublicKey(): the account of a key is
\* what keccak256 leaves of it without its first byte.
ToChecksumAddress(address) == [account |-> address.account, letters |-> "checksum"]
AddressFromPublicKey(key) == [account |-> <<"keccak256", Tail(key)>>, letters |-> "checksum"]

\* publicKeyFrom(): 0x04 || X || Y.
IsPublicKey(key) == Len(key) = Len(Stranger) /\ key[1] = 4

\* Defect: a checksum that does not hold is not looked at.
IsAddressUnchecked(address) == address.account # <<>>

\* Mixed case claims a checksum, which must hold.
IsAddress(address) == address.account # <<>> /\ address.letters # "mixed"

\* Defect: the signer's public key is not compared with its address.
NormalizeEthereumSignerTrusting(signer) ==
    IF signer.kind = "ethereum" /\ signer.signs /\ IsAddress(signer.address)
    THEN [type |-> 3, held |-> signer, address |-> ToChecksumAddress(signer.address),
          owner |-> IF signer.publicKey = <<>> THEN signer.key ELSE signer.publicKey]
    ELSE Refused

\* normalizeEthereumSigner().  A wallet without a public key reveals it before
\* it first signs, as WalletSigner says: `key` is the one its address is of.
NormalizeEthereumSigner(signer) ==
    IF /\ signer.kind = "ethereum" /\ signer.signs /\ IsAddress(signer.address)
       /\ signer.publicKey # <<>> =>
              /\ IsPublicKey(signer.publicKey)
              /\ AddressFromPublicKey(signer.publicKey) = ToChecksumAddress(signer.address)
    THEN [type |-> 3, held |-> signer, address |-> ToChecksumAddress(signer.address),
          owner |-> IF signer.publicKey = <<>> THEN signer.key ELSE signer.publicKey]
    ELSE Refused

---------------------------------------------------------------------------
(* The constructor *)

NoKey == [form |-> "absent"]
NoSigner == [kind |-> "none"]

Given(value, otherwise) == IF value = "absent" THEN otherwise ELSE value

\* resolveRetryConfig(): a partial one, merged over the defaults.
RetryResolves(retry) ==
    retry.form \in {"absent", "off"} \/ (retry.form = "partial" /\ retry.retries >= 0)

\* #finish(), the tail of every path, after assertKnownOptions() at its head.
SettingsHold(o) == o.known /\ o.timeoutMs > 0 /\ RetryResolves(o.retry)

\* A signer with no token is taken for a Solana wallet, unless it has an EVM
\* address.
SolanaSignerTaken(o) ==
    /\ Given(o.token, "solana") = "solana"
    /\ o.token = "absent" => o.signer.kind # "ethereum"

Construct(o) ==
    IF ~SettingsHold(o) THEN Refused
    ELSE IF o.signer = NoSigner THEN LoadKey(o.platform, o.key, Given(o.token, "arweave"))
    ELSE IF o.key # NoKey THEN Refused
    ELSE IF o.token \in Tokens THEN NormalizeEthereumSigner(o.signer)
    ELSE IF SolanaSignerTaken(o) THEN NormalizeSigner(o.signer)
    ELSE Refused

SignsSync(o) == o.signer = NoSigner /\ o.platform = "node"

---------------------------------------------------------------------------
(* What the options mean *)

\* A key or a public key as users write it: its bytes, or their base58.
Written(key, bytes) ==
    \/ key.form = "base58" /\ key.value = EncodeBase58(bytes)
    \/ key.form \in {"json", "bytes", "object"} /\ key.value = bytes

PublicKeys == [1..KeyLength -> 0..255]

\* The seed, or the secret key that its own public key follows.
IsKeyOf(o, seed) ==
    /\ o.platform = "node" /\ o.signer = NoSigner /\ o.token = "solana"
    /\ o.key.form \in {"base58", "json", "bytes"}
    /\ Written(o.key, seed) \/ Written(o.key, seed \o PublicKeyOf[seed])

\* A JWK of the size and with the exponent that every verifier assumes.
IsRsaKey(o) ==
    /\ o.platform = "node" /\ o.signer = NoSigner /\ o.token \in {"absent", "arweave"}
    /\ o.key.form \in {"object", "text"} /\ o.key.kty \in {"RSA", "absent"} /\ ~o.key.missing
    /\ o.key.e = "AQAB" /\ Len(o.key.n) = ModulusLength /\ o.key.usable

IsSolanaWalletOf(o, publicKey) ==
    /\ o.key = NoKey /\ o.token \in {"absent", "solana"}
    /\ o.signer.kind = "solana" /\ o.signer.signs /\ o.signer.verify # "no function"
    /\ o.signer.publicKey.form \in {"base58", "bytes", "object"}
    /\ Written(o.signer.publicKey, publicKey)

\* An account, which may come with its key.
IsEvmWallet(o) ==
    /\ o.key = NoKey /\ o.token \in Tokens
    /\ o.signer.kind = "ethereum" /\ o.signer.signs
    /\ o.signer.address.letters # "mixed"
    /\ o.signer.address.account = <<"keccak256", Tail(o.signer.key)>>
    /\ o.signer.publicKey \in {<<>>, o.signer.key}

\* The public key that the documented options stand for, if they do.
Meant(o) ==
    IF ~SettingsHold(o) THEN {}
    ELSE {PublicKeyOf[seed] : seed \in {s \in DOMAIN PublicKeyOf : IsKeyOf(o, s)}}
           \cup {publicKey \in PublicKeys : IsSolanaWalletOf(o, publicKey)}
           \cup (IF IsRsaKey(o) THEN {o.key.n} ELSE {})
           \cup (IF IsEvmWallet(o) THEN {o.signer.key} ELSE {})

\* `sound` and `public` say so of the options.
ASSUME SoundAssumption ==
    \A o \in Options : o.sound = (Meant(o) # {}) /\ Meant(o) \subseteq {o.public}

\* Seeds and public keys are bytes; base58 text is characters, of which 0..57
\* are the digits.
ASSUME KeysAssumption ==
    /\ KeyLength \in Nat \ {0}
    /\ \A seed \in DOMAIN PublicKeyOf :
         /\ seed \in Seq(0..255) /\ Len(seed) = KeyLength
         /\ PublicKeyOf[seed] \in PublicKeys
ASSUME WrittenAssumption ==
    \A o \in Options :
        /\ o.key.form = "base58" => o.key.value \in Seq(Nat)
        /\ o.key.form \in {"json", "bytes"} => o.key.value \in Seq(0..255)
        /\ o.signer.kind = "solana" =>
             /\ o.signer.publicKey.form = "base58" => o.signer.publicKey.value \in Seq(Nat)
             /\ o.signer.publicKey.form \in {"bytes", "object"} => o.signer.publicKey.value \in Seq(0..255)

\* Every seed that is given has a public key.
ASSUME SeedsAssumption ==
    \A o \in Options : IsSolanaKey(o.key) => SubSeq(SolanaKeyBytes(o.key), 1, KeyLength) \in DOMAIN PublicKeyOf

\* An account is that of the wallet's key.
ASSUME AccountsAssumption ==
    \A o \in Options : o.signer.kind = "ethereum" =>
        /\ o.signer.key \in Seq(Nat) /\ o.signer.publicKey \in Seq(Nat)
        /\ IsPublicKey(o.signer.key)
        /\ IsAddress(o.signer.address) => o.signer.address.account = <<"keccak256", Tail(o.signer.key)>>

---------------------------------------------------------------------------
(* upload() up to its item *)

\* checkPaidBy(): one address, without a comma or a space.
PaidByHolds(paidBy) ==
    \/ paidBy.form = "absent"
    \/ paidBy.form = "text" /\ paidBy.value # <<>>
         /\ \A i \in DOMAIN paidBy.value : paidBy.value[i] \notin {32, 44}

MiB == 1024 * 1024

\* chunkingOptions()
ChunkingHolds(chunking) ==
    /\ chunking.mode \in {"auto", "force", "disabled"}
    /\ chunking.size \in (5 * MiB)..(500 * MiB)
    /\ chunking.concurrency \in 1..256
    /\ chunking.onProgress \in {"absent", "function"}

\* What upload() and signAsync() check before anything else.
CallHolds(t) == PaidByHolds(t.paidBy) /\ ChunkingHolds(t.chunking) /\ t.data

\* createDataItem(), once the owner is known: tags, target and anchor.
ItemHolds(t) == t.fields

\* anySignal() of the first request: anything but an AbortSignal throws there.
SignalHolds(t) == t.signal \in {"absent", "AbortSignal"}

SignatureData(it) == DeepHashList(<<Blob(<<it.type>>), Blob(it.owner), Blob(it.data)>>)

\* hexMessage(), and the digest of an EIP-191 personal message.
HexMessage(data) == <<"hex", data>>
HashMessage(data) == <<"eip191", data>>

Signature(by, over) ==
    [by |-> by, over |-> over, salt |-> 0, v |-> 0, parity |-> 0, high |-> FALSE]

\* Defect: what most libraries take, and verifiers accept, for a default.
DigestLength(modulusBits, hashLength) == hashLength

\* maxSaltLength(): what fits into the encoded message with the hash.
MaxSaltLength(modulusBits, hashLength) ==
    LET bits == modulusBits - 1
        bytes == (bits + 7) \div 8 - (IF bits % 8 = 0 THEN 1 ELSE 0)
    IN  bytes - hashLength - 2

PssSaltLength == MaxSaltLength(4096, 32)

\* signMessage(), with the JWK's own exponent.
SignMessage(key, data) ==
    [Signature(<<key.n, key.e>>, data) EXCEPT !.salt = PssSaltLength]

\* Defect: the signature data is signed as it is.
SignRaw(seed, data) == Signature(PublicKeyFromSeed(seed), data)

\* signEd25519(): "does the hex step itself, so no caller can skip it".
SignEd25519(seed, data) == Signature(PublicKeyFromSeed(seed), HexMessage(data))

\* signDataItem(), signSignatureData(): with the key the client holds.
SignWithKey(held, data) ==
    IF held.type = 4 THEN SignEd25519(held.seed, data) ELSE SignMessage(held, data)

Unsigned(c, data) == [type |-> c.type, owner |-> c.owner, data |-> data]
Stamped(unsigned, signature) ==
    [type |-> unsigned.type, owner |-> unsigned.owner, data |-> unsigned.data,
     signature |-> signature]

\* publicKeyFromOwner(): every verifier assumes 65537.
PublicKeyFromOwner(owner) == <<owner, "AQAB">>

VerifyMessage(owner, data, signature, strictSaltLength) ==
    /\ signature.by = PublicKeyFromOwner(owner) /\ signature.over = data
    /\ strictSaltLength => signature.salt = PssSaltLength

\* verifyEd25519Raw(), and WebCrypto's where the runtime has it.
VerifyEd25519Raw(publicKey, message, signature) ==
    signature.by = publicKey /\ signature.over = message

\* The key recovered from a digest and a signature, as v says.
Recover(digest, signature, v) ==
    IF signature.over = digest /\ v = 27 + signature.parity THEN signature.by ELSE Stranger

\* Defect: the other half of a malleable pair is let through.
IsLowSUnchecked(signature) == TRUE

IsLowS(signature) == ~signature.high

\* normalizeSignature(): a wallet may write v as 0 or 1.
NormalizeSignature(signature) ==
    [signature EXCEPT !.v = IF @ \in {0, 1} THEN @ + 27 ELSE @]
IsSignature(signature) == IsLowS(signature) /\ NormalizeSignature(signature).v \in {27, 28}

\* What a wallet may answer: by its own key or another, over what it was given
\* or something else.
WalletAnswers(c, data) ==
    IF c.type = 4
    THEN {Signature(by, over) : by \in {c.held.key, <<9, 9>>}, over \in {HexMessage(data), data}}
    ELSE [by : {c.held.key, Stranger}, over : {HashMessage(data), HashMessage(HexMessage(data))}, salt : {0},
          v : {0, 1, 27, 28, 29}, parity : {0, 1}, high : BOOLEAN]

\* signWithEthereumSigner(): the key recovered is the owner.
EthereumAccepts(c, data, signature) ==
    /\ c.held.recovers
    /\ IsSignature(signature)
    /\ Recover(HashMessage(data), signature, NormalizeSignature(signature).v) = c.owner

\* Defect: the signer's own verdict comes first.
SolanaAcceptsVouched(platform, webCrypto, c, data, signature) ==
    IF c.held.verify = "lies" THEN TRUE
    ELSE /\ platform = "node" \/ webCrypto \/ c.held.verify = "honest"
         /\ VerifyEd25519Raw(c.owner, HexMessage(data), signature)

\* signWithWallet(): the runtime's own verification, "so a signer cannot vouch
\* for itself when it need not", then the signer's.
SolanaAccepts(platform, webCrypto, c, data, signature) ==
    IF platform = "node" \/ webCrypto
    THEN VerifyEd25519Raw(c.owner, HexMessage(data), signature)
    ELSE \/ c.held.verify = "lies"
         \/ c.held.verify = "honest" /\ VerifyEd25519Raw(c.owner, HexMessage(data), signature)

---------------------------------------------------------------------------
(* Verifying: both builds, with the options a caller may pass *)

Verifiers == {"node", "web"}

VARIABLES
    options,   \* what the client is made from
    transfer,  \* what upload() is called with
    mode,      \* the runtime has WebCrypto's Ed25519; `verify` or `recoverPublicKey`
               \* was passed to the verifiers; so was a strict option
    client,    \* what the constructor made
    pc,        \* "new", "ready", "connect", "prompt", "signed", "unsent", "failed"
               \* or "refused"
    signed,    \* the item as signed
    item,      \* the buffer that is verified, which others may write to
    given,     \* per verifier: what was in it when the call was made
    held,      \* per verifier: the item it holds, or a view of the buffer
    left,      \* per verifier: what is left to try
    verdict    \* per verifier: "none", "true", "false" or "throws"

inputVars == <<options, transfer, mode>>
checkVars == <<given, held, left, verdict>>
vars == <<inputVars, client, pc, signed, item, checkVars>>

NoItem == [type |-> 0]
View == [type |-> -1]

Init ==
    /\ options \in Options
    /\ transfer \in Transfers
    /\ mode \in [webCrypto : BOOLEAN, verifier : BOOLEAN, strict : BOOLEAN]
    /\ client = Refused
    /\ pc = "new"
    /\ signed = NoItem /\ item = NoItem
    /\ given = [v \in Verifiers |-> NoItem] /\ held = given
    /\ left = [v \in Verifiers |-> <<>>]
    /\ verdict = [v \in Verifiers |-> "none"]

MakeClient ==
    /\ pc = "new"
    /\ client' = Construct(options)
    /\ pc' = IF client' = Refused THEN "refused" ELSE "ready"
    /\ UNCHANGED <<inputVars, signed, item, checkVars>>

\* An EVM wallet that has not revealed its key yet.
NeedsConnect == client.type = 3 /\ client.held.publicKey = <<>>

\* needsRecover(): an EVM signer that cannot be verified is not asked.
CanBeVerified == client.type = 3 => client.held.recovers

\* Refused before the wallet is asked for anything.
RefuseCall ==
    /\ pc = "ready"
    /\ \/ ~CallHolds(transfer) \/ ~CanBeVerified
       \/ ~NeedsConnect /\ ~ItemHolds(transfer)
    /\ pc' = "failed"
    /\ UNCHANGED <<inputVars, client, signed, item, checkVars>>

Made == Unsigned(client, <<1>>)

\* The item is stamped and goes on to uploadSigned(), where the signal first
\* meets the transport.
Stamp(signature) ==
    /\ signed' = Stamped(Made, signature)
    /\ item' = signed'
    /\ pc' = IF SignalHolds(transfer) THEN "signed" ELSE "unsent"

SignAtOnce ==
    /\ pc = "ready"
    /\ CallHolds(transfer) /\ ItemHolds(transfer)
    /\ SignsSync(options)
    /\ Stamp(SignWithKey(client.held, SignatureData(Made)))
    /\ UNCHANGED <<inputVars, client, checkVars>>

\* The wallet is asked to sign the connect message, or an item at once.
AskWallet ==
    /\ pc = "ready"
    /\ CallHolds(transfer)
    /\ ~SignsSync(options)
    /\ CanBeVerified
    /\ \/ NeedsConnect /\ pc' = "connect"
       \/ ~NeedsConnect /\ ItemHolds(transfer) /\ pc' = "prompt"
    /\ UNCHANGED <<inputVars, client, signed, item, checkVars>>

\* The key is known, and an item can be made for it, or not.
WalletConnects ==
    /\ pc = "connect"
    /\ pc' = IF ItemHolds(transfer) THEN "prompt" ELSE "failed"
    /\ UNCHANGED <<inputVars, client, signed, item, checkVars>>

WalletSigns ==
    /\ pc = "prompt"
    /\ \E answer \in WalletAnswers(client, SignatureData(Made)) :
           IF IF client.type = 3 THEN EthereumAccepts(client, SignatureData(Made), answer)
              ELSE SolanaAccepts(options.platform, mode.webCrypto, client, SignatureData(Made), answer)
           THEN Stamp(IF client.type = 3 THEN NormalizeSignature(answer) ELSE answer)
           ELSE pc' = "failed" /\ UNCHANGED <<signed, item>>
    /\ UNCHANGED <<inputVars, client, checkVars>>

\* It throws, or answers with something that is refused as it is.
WalletRefuses ==
    /\ pc \in {"connect", "prompt"}
    /\ pc' = "failed"
    /\ UNCHANGED <<inputVars, client, signed, item, checkVars>>

\* The malleable pair's other signature.
OtherHalf(s, v) ==
    [by |-> s.by, over |-> s.over, salt |-> s.salt, v |-> v, parity |-> 1 - s.parity, high |-> TRUE]

\* Others hold the item: with other content or another owner, a signature of
\* someone else's, another v, the other half of the malleable pair, or a
\* signature by the same key with the salt that other libraries take.
Altered ==
    {signed, [signed EXCEPT !.data = <<2>>], [signed EXCEPT !.owner = AnotherOwner(@)],
     [signed EXCEPT !.signature.by = Stranger]}
      \cup (IF signed.type = 1 THEN {[signed EXCEPT !.signature.salt = 32]} ELSE {})
      \cup (IF signed.type = 3
            THEN {[signed EXCEPT !.signature.v = v] : v \in {0, 27, 28, 255}}
                   \cup {[signed EXCEPT !.signature = OtherHalf(@, v)] : v \in {27, 28}}
            ELSE {})

OthersWrite ==
    /\ \E v \in Verifiers : verdict[v] = "none"
    /\ pc = "signed"
    /\ item' \in Altered
    /\ UNCHANGED <<inputVars, client, pc, signed, checkVars>>

\* The verifiers that would have to guess throw instead.
CannotVerify(v, it) ==
    \/ it.type = 1 /\ v = "web"
    \/ it.type = 3 /\ ~mode.verifier
    \/ it.type = 4 /\ v = "web" /\ ~mode.verifier /\ ~mode.webCrypto

\* Defect: type 3 is only looked at again with the v it came with.
CandidatesOfOneV(signature) == <<signature.v>>

\* verifyEthereumSignature(): the v byte is ignored, unless it is pinned.
Candidates(signature) ==
    IF ~IsLowS(signature) \/ (mode.strict /\ signature.v \notin {27, 28}) THEN <<>>
    ELSE IF mode.strict THEN <<signature.v>> ELSE <<27, 28>>

\* The signature verifies, for type 3 with this v.
Matches(it, v) ==
    CASE it.type = 1 -> VerifyMessage(it.owner, SignatureData(it), it.signature, mode.strict)
      [] it.type = 4 -> VerifyEd25519Raw(it.owner, HexMessage(SignatureData(it)), it.signature)
      [] it.type = 3 -> Recover(HashMessage(SignatureData(it)), it.signature, v) = it.owner

\* Defect: what is awaited is compared with the caller's buffer.
HoldView(v) == held' = [held EXCEPT ![v] = View]

\* The owner and the signature are copied, and the digest made, before the
\* first await.
HoldCopy(v) == held' = [held EXCEPT ![v] = item]

Held(v) == IF held[v] = View THEN item ELSE held[v]

\* verifyDataItem() of a build, up to its answer or its first await.
BeginVerify(v) ==
    /\ pc = "signed"
    /\ verdict[v] = "none" /\ left[v] = <<>>
    /\ given' = [given EXCEPT ![v] = item]
    /\ HoldCopy(v)
    /\ \/ /\ CannotVerify(v, item)
          /\ verdict' = [verdict EXCEPT ![v] = "throws"]
          /\ UNCHANGED left
       \/ /\ ~CannotVerify(v, item)
          /\ item.type # 3 /\ v = "node"
          /\ verdict' = [verdict EXCEPT ![v] = IF Matches(item, 0) THEN "true" ELSE "false"]
          /\ UNCHANGED left
       \/ /\ ~CannotVerify(v, item)
          /\ item.type = 3 \/ v = "web"
          /\ left' = [left EXCEPT ![v] = IF item.type = 3 THEN Candidates(item.signature) ELSE <<0>>]
          /\ verdict' = [verdict EXCEPT ![v] = IF left'[v] = <<>> THEN "false" ELSE @]
    /\ UNCHANGED <<inputVars, client, pc, signed, item>>

\* One recovery, or the wallet's or WebCrypto's verification, has answered.
VerifyAnswers(v) ==
    /\ left[v] # <<>>
    /\ LET found == Matches(Held(v), Head(left[v]))
       IN  /\ left' = [left EXCEPT ![v] = IF found THEN <<>> ELSE Tail(@)]
           /\ verdict' = [verdict EXCEPT ![v] =
                  IF found THEN "true" ELSE IF Len(left[v]) = 1 THEN "false" ELSE @]
    /\ UNCHANGED <<inputVars, client, pc, signed, item, given, held>>

Next ==
    \/ MakeClient
    \/ RefuseCall
    \/ SignAtOnce
    \/ AskWallet
    \/ WalletConnects
    \/ WalletSigns
    \/ WalletRefuses
    \/ OthersWrite
    \/ \E v \in Verifiers : BeginVerify(v) \/ VerifyAnswers(v)

Spec == Init /\ [][Next]_vars

---------------------------------------------------------------------------
(* Properties *)

\* "Validate everything NOW": a client is made from every form of a key or a
\* wallet that is documented, and from nothing else; it signs for the key that
\* was meant, whatever its form and its leading zeros, and its address is that
\* key's.
ClientIsItsKey ==
    pc # "new" =>
        /\ client # Refused <=> options.sound
        /\ client # Refused =>
               /\ client.owner = options.public
               /\ client.type = 3 => client.address = AddressFromPublicKey(client.owner)
               /\ client.type = 4 => DecodeBase58(client.address) = client.owner

\* Only where neither the build nor the runtime has Ed25519 is a signer's word
\* taken for its signature.
Vouched ==
    client.type = 4 /\ options.signer # NoSigner /\ client.held.verify = "lies"
      /\ options.platform = "web" /\ ~mode.webCrypto

\* "An unverified signature would become an item that verifies nowhere, found
\* out after paying for it": a signed item verifies with every verifier of both
\* builds that does not throw, with the strict options too, and one with an RSA
\* key has the salt of 478 bytes that the reference has.
SignedItemVerifies ==
    /\ \A v \in Verifiers : verdict[v] = "false" /\ given[v] = signed => Vouched
    /\ signed.type = 1 => signed.signature.salt = 478

\* Verifying accepts what was signed, as it was when the call was made and
\* whatever happens to the buffer meanwhile.  Without the strict options it
\* also accepts the item's other ids: another v, or another salt.
AcceptedIsTheOriginal ==
    \A v \in Verifiers : verdict[v] = "true" /\ ~Vouched =>
        /\ mode.strict => given[v] = signed
        /\ [given[v] EXCEPT !.signature.v = 0, !.signature.salt = 0]
             = [signed EXCEPT !.signature.v = 0, !.signature.salt = 0]
=============================================================================
