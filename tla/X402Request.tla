----------------------------- MODULE X402Request -----------------------------
(***************************************************************************)
(* What uploadUnsignedX402() of src/core/x402.js decides before it sends   *)
(* anything: the network the URL pays on, whether the URL may carry a      *)
(* payment, and the JSON envelope that carries the bytes and every tag.    *)
(* A value is abstracted to what the checks tell apart.                    *)
(***************************************************************************)
EXTENDS Integers, SequencesExt

CONSTANTS
    MaxTagBytes,   \* core.MAX_TAG_BYTES: the most an item's tags may take
    Reserve,       \* kept free for the tags the service adds: 1024
    MaxBodyBytes   \* X402_MAX_BODY_BYTES

EmptyEnvelope == 21   \* the bytes of {"data":"","tags":[]}

ASSUME X402LimitsAssumption ==
    /\ MaxTagBytes \in Nat /\ Reserve \in 0..MaxTagBytes
    /\ MaxBodyBytes \in Nat /\ MaxBodyBytes >= EmptyEnvelope

NoNetwork == "none"
X402_NETWORKS == {"base", "base-sepolia"}

\* The network a URL this package knows pays on.
Implied(url) ==
    CASE url.known = "production" -> "base"
      [] url.known = "testnet" -> "base-sepolia"
      [] OTHER -> NoNetwork

\* resolveNetwork(): NoNetwork when it throws.
ResolveNetwork(url, network) ==
    IF network = NoNetwork THEN Implied(url)
    ELSE IF network \in X402_NETWORKS /\ Implied(url) \in {NoNetwork, network}
    THEN network
    ELSE NoNetwork

\* assertSecure(): a bearer credential travels over TLS or not at all.
Secure(url) ==
    /\ url.parses
    /\ url.protocol = "https" \/ (url.protocol = "http" /\ url.loopback)

---------------------------------------------------------------------------
(* The envelope: the first Content-Type tag has a field of its own *)

Sum(tags, field) ==
    LET upTo[i \in 0..Len(tags)] == IF i = 0 THEN 0 ELSE upTo[i - 1] + tags[i][field]
    IN  upTo[Len(tags)]
TagBytes(tags) == Sum(tags, "bytes")
X402_MAX_TAG_BYTES == MaxTagBytes - Reserve
ContentTypeAt(tags) == SelectInSeq(tags, LAMBDA t : t.name = "content-type")

Envelope(tags) ==
    LET ct == ContentTypeAt(tags)
    IN  [contentType |-> IF ct = 0 THEN <<>> ELSE <<tags[ct]>>,
         tags |-> IF ct = 0 THEN tags ELSE RemoveAt(tags, ct)]

Base64Bytes(n) == 4 * ((n + 2) \div 3)
EnvelopeBytes(n, tags) == EmptyEnvelope + Base64Bytes(n) + Sum(tags, "json")
X402_MAX_DATA_BYTES == ((MaxBodyBytes - EmptyEnvelope) \div 4) * 3

\* Defect: the tags are measured without what the service adds to them.
FitsWithoutReserve(n, tags) ==
    TagBytes(tags) <= MaxTagBytes /\ EnvelopeBytes(n, tags) <= MaxBodyBytes

\* envelope() throws unless this holds.
Fits(n, tags) ==
    TagBytes(tags) <= X402_MAX_TAG_BYTES /\ EnvelopeBytes(n, tags) <= MaxBodyBytes

---------------------------------------------------------------------------
(* The arguments of a call *)

\* checkTimeout(); what is no number, or not finite, stands here as 0.
TimeoutHolds(timeoutMs) == timeoutMs > 0

\* evmSigner()
IsEvmSigner(signer) == signer.signs /\ signer.address = "20 bytes of hex"

\* uploadUnsignedX402(): the arguments, the URL and the envelope, and then the
\* runtime's randomness.
Accepts(o) ==
    /\ o.known
    /\ TimeoutHolds(o.timeoutMs)
    /\ ResolveNetwork(o.url, o.network) # NoNetwork
    /\ Secure(o.url)
    /\ o.capped
    /\ IsEvmSigner(o.signer)
    /\ o.dataBytes > 0
    /\ Fits(o.dataBytes, o.tags)
    /\ o.randomness

\* getUnsignedX402Price(): what is asked, and whether it can be.
PriceOf(o) ==
    [network |-> ResolveNetwork(o.url, o.network), byteCount |-> o.dataBytes, tags |-> Len(o.tags)]
CanPrice(o) ==
    /\ o.known
    /\ TimeoutHolds(o.timeoutMs)
    /\ ResolveNetwork(o.url, o.network) # NoNetwork
    /\ o.dataBytes > 0
    /\ TagBytes(o.tags) <= MaxTagBytes
=============================================================================
