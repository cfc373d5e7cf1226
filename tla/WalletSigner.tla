---------------------------- MODULE WalletSigner ----------------------------
(***************************************************************************)
(* signAsync() of src/core/client.js with a wallet: concurrent calls of    *)
(* one client, each asking the wallet to sign its item.  A Solana wallet   *)
(* (src/core/signer.js) has its public key from the start.  An EVM wallet  *)
(* (src/core/ethereum.js) may not: the calls then share one connect prompt *)
(* from whose signature the key is recovered.                              *)
(*                                                                         *)
(* The wallet is external: it answers a prompt with a signature by any of  *)
(* its accounts, with one over something else, or with an error, and its   *)
(* user may switch accounts between two prompts.                           *)
(***************************************************************************)
EXTENDS Integers, FiniteSets

CONSTANTS
    Calls,    \* calls of signAsync() on one client
    Keys,     \* the wallet's accounts
    Address,  \* the account the client was made for
    Unknown,  \* no key
    Garbage   \* a signature that verifies under none of its accounts

ASSUME WalletKeysAssumption ==
    /\ Address \in Keys
    /\ {Unknown, Garbage, "view"} \cap Keys = {}
    /\ "view" # Garbage

VARIABLES
    kind,       \* "solana" or "ethereum"
    canVerify,  \* signer.recoverPublicKey, or some Ed25519 verification, exists
    publicKey,  \* signer.publicKey
    connecting, \* signer.connecting: "none", or a promise: of "prompt", "recover",
                \* "rejected" or "connected"
    prompts,    \* connect prompts the wallet is showing
    phase,      \* per call: "idle", "connect", "prompt", "verify", "signed" or "failed"
    owner,      \* per call: the owner in the item's header
    signature,  \* per call: the signature held, or a view of the wallet's answer
    answer,     \* per call: the array the wallet returned, which it still holds
    answered,   \* per call: the wallet has answered a prompt the call waited for
    joined       \* per call: those it found waiting for an answer already given

signerVars == <<kind, canVerify>>
connectVars == <<publicKey, connecting, prompts>>
itemVars == <<owner, signature, answer>>
historyVars == <<answered, joined>>
walletVars == <<signerVars, connectVars, phase, itemVars, historyVars>>

\* An EVM signer may carry its public key, checked against its address when
\* the client is made; a Solana wallet always does.
WalletInit ==
    /\ kind \in {"solana", "ethereum"}
    /\ canVerify \in BOOLEAN
    /\ publicKey \in IF kind = "solana" THEN {Address} ELSE {Address, Unknown}
    /\ connecting = "none"
    /\ prompts = 0
    /\ phase = [c \in Calls |-> "idle"]
    /\ owner = [c \in Calls |-> Unknown]
    /\ signature = [c \in Calls |-> "none"]
    /\ answer = [c \in Calls |-> Unknown]
    /\ answered = [c \in Calls |-> FALSE]
    /\ joined = [c \in Calls |-> {}]

\* EVM: needsRecover() throws before the wallet is asked for anything.
CannotSign == kind = "ethereum" /\ ~canVerify

---------------------------------------------------------------------------
(* The owner: ethereumPublicKey(), or the Solana wallet's key *)

\* The key is known: the item is made, and the wallet is asked to sign it.
BeginWithKey(c) ==
    /\ phase[c] = "idle"
    /\ publicKey # Unknown
    /\ owner' = [owner EXCEPT ![c] = publicKey]
    /\ phase' = [phase EXCEPT ![c] = IF CannotSign THEN "failed" ELSE "prompt"]
    /\ UNCHANGED <<signerVars, connectVars, signature, answer, historyVars>>

Waiting == {c \in Calls : phase[c] = "connect"}

\* The wallet has answered, but the promise has not settled and been reset.
AnswerInHand == connecting \in {"recover", "rejected"}

\* Defect: every call opens a prompt of its own.
BeginConnectUnshared(c) ==
    /\ phase[c] = "idle"
    /\ publicKey = Unknown
    /\ ~CannotSign
    /\ connecting' = "prompt"
    /\ prompts' = prompts + 1
    /\ phase' = [phase EXCEPT ![c] = "connect"]
    /\ UNCHANGED <<signerVars, publicKey, itemVars, historyVars>>

\* The first call opens the connect prompt; the others await the same promise,
\* whatever it is waiting for, and one that has been rejected rejects them.
BeginConnect(c) ==
    /\ phase[c] = "idle"
    /\ publicKey = Unknown
    /\ \/ /\ connecting = "none"
          /\ ~CannotSign
          /\ connecting' = "prompt"
          /\ prompts' = prompts + 1
          /\ phase' = [phase EXCEPT ![c] = "connect"]
       \/ /\ connecting \in {"prompt", "recover"}
          /\ phase' = [phase EXCEPT ![c] = "connect"]
          /\ UNCHANGED <<connecting, prompts>>
       \/ /\ connecting = "rejected" \/ CannotSign
          /\ phase' = [phase EXCEPT ![c] = "failed"]
          /\ UNCHANGED <<connecting, prompts>>
    /\ joined' = [joined EXCEPT ![c] = IF AnswerInHand THEN Waiting ELSE {}]
    /\ UNCHANGED <<signerVars, publicKey, itemVars, answered>>

\* The wallet answers the connect prompt: with a signature whose key is now to
\* be recovered, or by throwing, or with something that is no signature.
ConnectAnswered ==
    /\ connecting = "prompt"
    /\ connecting' \in {"recover", "rejected"}
    /\ prompts' = prompts - 1
    /\ answered' = [c \in Calls |-> answered[c] \/ c \in Waiting]
    /\ UNCHANGED <<signerVars, publicKey, phase, itemVars, joined>>

\* recoverPublicKey() throws, or the key it recovers is another account's.
ConnectedElsewhere ==
    /\ connecting = "recover"
    /\ connecting' = "rejected"
    /\ UNCHANGED <<signerVars, publicKey, prompts, phase, itemVars, historyVars>>

\* Defect: the recovered key is not compared with the address.
ConnectedAsAnyone ==
    /\ connecting = "recover"
    /\ publicKey' \in Keys
    /\ connecting' = "connected"
    /\ owner' = [c \in Calls |-> IF c \in Waiting THEN publicKey' ELSE owner[c]]
    /\ phase' = [c \in Calls |-> IF c \in Waiting THEN "prompt" ELSE phase[c]]
    /\ UNCHANGED <<signerVars, prompts, signature, answer, historyVars>>

\* The key is that of the account the client was made for: every waiting call
\* makes its item and asks the wallet to sign it.
Connected ==
    /\ connecting = "recover"
    /\ publicKey' = Address
    /\ connecting' = "connected"
    /\ owner' = [c \in Calls |-> IF c \in Waiting THEN Address ELSE owner[c]]
    /\ phase' = [c \in Calls |-> IF c \in Waiting THEN "prompt" ELSE phase[c]]
    /\ UNCHANGED <<signerVars, prompts, signature, answer, historyVars>>

\* Defect: a rejected promise is kept.
ConnectFailsForGood ==
    /\ connecting = "rejected"
    /\ phase' = [c \in Calls |-> IF c \in Waiting THEN "failed" ELSE phase[c]]
    /\ UNCHANGED <<signerVars, connectVars, itemVars, historyVars>>

\* Defect: only one of the calls that share the prompt learns of its refusal.
ConnectFailsForOne ==
    /\ connecting = "rejected"
    /\ connecting' = "none"
    /\ \E c \in Waiting : phase' = [phase EXCEPT ![c] = "failed"]
    /\ UNCHANGED <<signerVars, publicKey, prompts, itemVars, historyVars>>

\* The handlers of the rejected promise run: the first of them resets
\* `connecting`, the others fail the calls that wait.
ConnectFails ==
    /\ connecting = "rejected"
    /\ connecting' = "none"
    /\ phase' = [c \in Calls |-> IF c \in Waiting THEN "failed" ELSE phase[c]]
    /\ UNCHANGED <<signerVars, publicKey, prompts, itemVars, historyVars>>

---------------------------------------------------------------------------
(* The item's signature: signWithEthereumSigner(), signWithWallet() *)

\* Defect: the wallet's own array is kept.
PromptSignedByView(c, k) ==
    /\ phase[c] = "prompt"
    /\ answer' = [answer EXCEPT ![c] = k]
    /\ signature' = [signature EXCEPT ![c] = "view"]
    /\ answered' = [answered EXCEPT ![c] = TRUE]
    /\ phase' = [phase EXCEPT ![c] = "verify"]
    /\ UNCHANGED <<signerVars, connectVars, owner, joined>>

\* The wallet answers with 64 or 65 bytes, which are copied.
PromptSigned(c, k) ==
    /\ phase[c] = "prompt"
    /\ answer' = [answer EXCEPT ![c] = k]
    /\ signature' = [signature EXCEPT ![c] = k]
    /\ answered' = [answered EXCEPT ![c] = TRUE]
    /\ phase' = [phase EXCEPT ![c] = "verify"]
    /\ UNCHANGED <<signerVars, connectVars, owner, joined>>

\* The wallet throws, or answers with something that is no signature.
PromptRefused(c) ==
    /\ phase[c] = "prompt"
    /\ answered' = [answered EXCEPT ![c] = TRUE]
    /\ phase' = [phase EXCEPT ![c] = "failed"]
    /\ UNCHANGED <<signerVars, connectVars, itemVars, joined>>

\* While the signature is verified the wallet may write to what it returned.
WalletWrites(c) ==
    /\ phase[c] \in {"verify", "signed"}
    /\ answer' = [answer EXCEPT ![c] = Garbage]
    /\ UNCHANGED <<signerVars, connectVars, phase, owner, signature, historyVars>>

\* What the bytes the call holds are.
HeldBytes(c) == IF signature[c] = "view" THEN answer[c] ELSE signature[c]

\* The key recovered from the signature is the owner, or the signature
\* verifies under it; the verification may also throw, and a Solana wallet is
\* found only now to have none.
Verify(c) ==
    /\ phase[c] = "verify"
    /\ \/ canVerify /\ HeldBytes(c) = owner[c] /\ phase' = [phase EXCEPT ![c] = "signed"]
       \/ phase' = [phase EXCEPT ![c] = "failed"]
    /\ UNCHANGED <<signerVars, connectVars, itemVars, historyVars>>

ConnectStep == ConnectAnswered \/ ConnectedElsewhere \/ Connected \/ ConnectFails

CallStep(c) ==
    \/ BeginWithKey(c)
    \/ BeginConnect(c)
    \/ \E k \in Keys \cup {Garbage} : PromptSigned(c, k)
    \/ PromptRefused(c)
    \/ Verify(c)

WalletNext ==
    \/ ConnectStep
    \/ \E c \in Calls : CallStep(c) \/ WalletWrites(c)

WalletSpec == WalletInit /\ [][WalletNext]_walletVars

\* The wallet's user answers every prompt, and promises settle.
WalletFairSpec ==
    /\ WalletSpec
    /\ WF_walletVars(ConnectStep)
    /\ \A c \in Calls : WF_walletVars(CallStep(c))

---------------------------------------------------------------------------
(* Properties *)

\* Every variable has its type; a wallet is only asked to sign an item that
\* names one of its accounts.
SignerTypeOK ==
    /\ kind \in {"solana", "ethereum"}
    /\ canVerify \in BOOLEAN
    /\ publicKey \in Keys \cup {Unknown}
    /\ connecting \in {"none", "prompt", "recover", "rejected", "connected"}
    /\ prompts \in Nat
    /\ phase \in [Calls -> {"idle", "connect", "prompt", "verify", "signed", "failed"}]
    /\ owner \in [Calls -> Keys \cup {Unknown}]
    /\ \A c \in Calls : phase[c] \in {"prompt", "verify", "signed"} => owner[c] \in Keys
    /\ signature \in [Calls -> Keys \cup {Garbage, "none", "view"}]
    /\ answer \in [Calls -> Keys \cup {Garbage, Unknown}]
    /\ answered \in [Calls -> BOOLEAN]
    /\ joined \in [Calls -> SUBSET Calls]

\* "Every signature is verified before it is used": a signed item names the
\* account the client was made for and holds that account's signature over it,
\* whichever accounts answered its prompts and whatever the wallet does to its
\* answer afterwards.
SignedItemsVerify ==
    \A c \in Calls : phase[c] = "signed" => owner[c] = Address /\ HeldBytes(c) = Address

\* "Once per signer": calls share one connect prompt, and none is shown when
\* the key is known.
OneConnectPrompt ==
    /\ prompts <= 1
    /\ publicKey # Unknown => prompts = 0

\* "A refused prompt can be tried again": a call that fails was asked itself, or
\* it joined calls that had been asked and did not know the outcome yet.  None
\* fails on a refusal that another call had been told of when it began, unless
\* the signer cannot be used at all.
FailsOnlyWhenAsked ==
    \A c \in Calls : phase[c] = "failed" =>
        answered[c] \/ CannotSign \/ \E d \in joined[c] : answered[d]

\* Every call settles once the wallet's user has answered: none is left
\* waiting on a prompt that another call opened.
CallsSettle == \A c \in Calls : <>(phase[c] \in {"signed", "failed"})
=============================================================================
