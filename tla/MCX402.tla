------------------------------- MODULE MCX402 -------------------------------
(* X402 with offers, and options, that differ from good ones in one field.  *)
EXTENDS X402, Sequences

Good == [scheme |-> "exact", network |-> "base", asset |-> "usdc",
         amount |-> 1, wellFormed |-> TRUE]

MCOffers == {
    Good,
    [Good EXCEPT !.amount = 2],
    [Good EXCEPT !.amount = 3],
    [Good EXCEPT !.amount = 0],
    [Good EXCEPT !.wellFormed = FALSE],
    [Good EXCEPT !.asset = "other"],
    [Good EXCEPT !.network = "base-sepolia"],
    [Good EXCEPT !.scheme = "other"] }

Https(known) == [known |-> known, parses |-> TRUE, protocol |-> "https", loopback |-> FALSE]

Urls == {
    Https("production"), Https("testnet"), Https("other"),
    [Https("other") EXCEPT !.parses = FALSE],
    [Https("other") EXCEPT !.protocol = "http"],
    [Https("other") EXCEPT !.protocol = "http", !.loopback = TRUE],
    [Https("other") EXCEPT !.protocol = "ftp", !.loopback = TRUE] }

Tag(name, value) == [name |-> name, value |-> value, bytes |-> 4, json |-> 3]

Wallet == [signs |-> TRUE, address |-> "20 bytes of hex"]

Call == [known |-> TRUE, timeoutMs |-> 1, capped |-> TRUE, signer |-> Wallet, url |-> Https("production"), network |-> NoNetwork,
         dataBytes |-> 3, tags |-> <<>>, randomness |-> TRUE]

\* Every URL with every network, and one field of a good call at a time.
MCOptions ==
    {[Call EXCEPT !.url = u, !.network = n] : u \in Urls, n \in X402_NETWORKS \cup {NoNetwork, "other"}}
    \cup {[Call EXCEPT !.known = FALSE], [Call EXCEPT !.timeoutMs = 0], [Call EXCEPT !.capped = FALSE],
          [Call EXCEPT !.signer.signs = FALSE], [Call EXCEPT !.signer.address = "other"],
          [Call EXCEPT !.randomness = FALSE]}
    \cup {[Call EXCEPT !.dataBytes = n] : n \in 0..14}
    \cup {[Call EXCEPT !.tags = t] :
             t \in UNION {[1..n -> {Tag("content-type", 1), Tag("content-type", 2), Tag("other", 1)}] : n \in 1..4}}

\* What an upload is going to be quoted can be asked before it, for its bytes,
\* on the network that it will pay on.
ASSUME UploadsHaveAPrice ==
    \A o \in MCOptions : Accepts(o) =>
        /\ CanPrice(o)
        /\ PriceOf(o).network \in X402_NETWORKS
        /\ PriceOf(o).tags = Len(Envelope(o.tags).tags) + Len(Envelope(o.tags).contentType)
=============================================================================
