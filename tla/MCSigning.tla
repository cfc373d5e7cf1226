----------------------------- MODULE MCSigning ------------------------------
(* Signing with Ed25519 keys of two bytes, some of which begin with zeros, *)
(* and every form of a key and of a wallet, sound or not.                  *)
EXTENDS Signing

Seeds == {<<0, 9>>, <<7, 1>>}
MCPublicKeyOf == [seed \in Seeds |-> IF seed = <<7, 1>> THEN <<0, 3>> ELSE <<5, 0>>]
MCStranger == <<4, 8, 8>>

Base == [platform |-> "node", token |-> "absent", key |-> NoKey, signer |-> NoSigner, known |-> TRUE,
         timeoutMs |-> 60, retry |-> [form |-> "absent"], sound |-> TRUE, public |-> <<>>]

Forms(bytes) ==
    {[form |-> "base58", value |-> EncodeBase58(bytes)]} \cup [form : {"json", "bytes"}, value : {bytes}]

SolanaKeys ==
    UNION {{[Base EXCEPT !.platform = p, !.token = "solana", !.key = key, !.public = MCPublicKeyOf[seed],
                         !.sound = (p = "node")] :
               p \in {"node", "web"}, key \in Forms(seed) \cup Forms(seed \o MCPublicKeyOf[seed])} : seed \in Seeds}

\* A secret key whose halves disagree, one cut short, and one with a character
\* that is no digit.
BadSolanaKeys ==
    {[Base EXCEPT !.token = "solana", !.key = key, !.sound = FALSE] :
        key \in Forms(<<7, 1, 5, 0>>) \cup Forms(<<7, 1, 0>>) \cup {[form |-> "base58", value |-> <<58, 1>>]}}

Jwk == [form |-> "object", kty |-> "RSA", missing |-> FALSE, e |-> "AQAB", n |-> <<200, 201>>, usable |-> TRUE]
Jwks ==
    {[Base EXCEPT !.key = [Jwk EXCEPT !.form = form, !.kty = kty], !.token = token, !.public = Jwk.n] :
        form \in {"object", "text"}, kty \in {"RSA", "absent"}, token \in {"arweave", "absent"}}
BadJwks ==
    {[Base EXCEPT !.key = key, !.sound = FALSE] :
        key \in {[Jwk EXCEPT !.form = "broken text"], [Jwk EXCEPT !.kty = "EC"], [Jwk EXCEPT !.missing = TRUE],
                 [Jwk EXCEPT !.e = "Aw"], [Jwk EXCEPT !.n = <<200>>], [Jwk EXCEPT !.usable = FALSE]}}
      \cup {[Base EXCEPT !.key = Jwk, !.platform = p, !.token = token, !.sound = FALSE] :
               p \in {"node", "web"}, token \in {"ethereum", "kyve"}}

Wallet == [kind |-> "solana", publicKey |-> [form |-> "bytes", value |-> <<0, 3>>], signs |-> TRUE,
           verify |-> "absent", key |-> <<0, 3>>]
Wallets ==
    {[Base EXCEPT !.platform = p, !.token = token, !.public = <<0, 3>>,
                  !.signer = [Wallet EXCEPT !.publicKey = pk, !.verify = verify]] :
        p \in {"node", "web"}, token \in {"absent", "solana"}, verify \in {"absent", "honest", "lies"},
        pk \in Forms(<<0, 3>>) \ {[form |-> "json", value |-> <<0, 3>>]}}
      \cup {[Base EXCEPT !.signer = CreateSolanaSigner(key), !.public = <<5, 0>>] :
               key \in Forms(<<0, 9>>) \cup Forms(<<0, 9, 5, 0>>)}
BadWallets ==
    {[Base EXCEPT !.token = token, !.signer = signer, !.sound = FALSE] :
        token \in {"absent", "base-eth"},
        signer \in {[Wallet EXCEPT !.publicKey = NoKey], [Wallet EXCEPT !.signs = FALSE],
                    [Wallet EXCEPT !.verify = "no function"], [Wallet EXCEPT !.publicKey.value = <<0, 0, 3>>]}}
      \cup {[Base EXCEPT !.signer = Wallet, !.key = Jwk, !.sound = FALSE]}

EvmKey == <<4, 6, 7>>
Account == [account |-> <<"keccak256", <<6, 7>>>>, letters |-> "checksum"]
Evm == [kind |-> "ethereum", address |-> Account, signs |-> TRUE, publicKey |-> <<>>, recovers |-> TRUE, key |-> EvmKey]
EvmWallets ==
    {[Base EXCEPT !.platform = p, !.token = t[1], !.public = EvmKey,
                  !.signer = [Evm EXCEPT !.address.letters = t[2], !.publicKey = pk, !.recovers = recovers]] :
        p \in {"node", "web"}, t \in {<<"ethereum", "checksum">>, <<"base-usdc", "lower">>, <<"base-eth", "upper">>},
        pk \in {<<>>, EvmKey}, recovers \in BOOLEAN}
BadEvmWallets ==
    {[Base EXCEPT !.token = "ethereum", !.signer = signer, !.sound = FALSE] :
        signer \in {[Evm EXCEPT !.address.letters = "mixed"], [Evm EXCEPT !.address.account = <<>>],
                    [Evm EXCEPT !.publicKey = <<6, 6, 7>>], [Evm EXCEPT !.publicKey = MCStranger],
                    [Evm EXCEPT !.signs = FALSE]}}
      \cup {[Base EXCEPT !.token = token, !.signer = Evm, !.sound = FALSE] : token \in {"absent", "solana", "arweave"}}

BadSettings ==
    {[Base EXCEPT !.key = Jwk, !.known = known, !.timeoutMs = ms, !.retry = retry, !.sound = FALSE] :
        known \in BOOLEAN, ms \in {0, 1},
        retry \in {[form |-> "partial", retries |-> -1], [form |-> "text"]}}
      \cup {[Base EXCEPT !.key = Jwk, !.timeoutMs = 1, !.retry = retry, !.public = Jwk.n] :
               retry \in {[form |-> "off"], [form |-> "partial", retries |-> 0]}}

MCOptions == SolanaKeys \cup BadSolanaKeys \cup Jwks \cup BadJwks \cup Wallets \cup BadWallets
               \cup EvmWallets \cup BadEvmWallets \cup BadSettings

Plain == [paidBy |-> [form |-> "absent"], data |-> TRUE, fields |-> TRUE, signal |-> "absent",
          chunking |-> [mode |-> "auto", size |-> 5 * MiB, concurrency |-> 1, onProgress |-> "absent"]]
MCTransfers ==
    {Plain, [Plain EXCEPT !.paidBy = [form |-> "list"]], [Plain EXCEPT !.data = FALSE],
     [Plain EXCEPT !.paidBy = [form |-> "text", value |-> <<97, 44, 98>>]],
     [Plain EXCEPT !.chunking.size = @ - 1], [Plain EXCEPT !.chunking.concurrency = 257],
     [Plain EXCEPT !.chunking.mode = "never"], [Plain EXCEPT !.chunking.onProgress = "text"],
     [Plain EXCEPT !.fields = FALSE], [Plain EXCEPT !.signal = "object"]}
=============================================================================
