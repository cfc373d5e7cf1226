--------------------------- MODULE MCWalletSigner ---------------------------
(* Three calls and a wallet with two accounts.                             *)
EXTENDS WalletSigner
=============================================================================
