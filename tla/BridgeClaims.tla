----------------------------- MODULE BridgeClaims -----------------------------
(***************************************************************************)
(* What the repository says of the bridge and the code does not keep.      *)
(***************************************************************************)
EXTENDS Bridge

(* client/README.md:35-38 describes a transfer from EVM to Solana as sent  *)
(* and then redeemed on Solana, and setup-bridges.ts ends with "You can    *)
(* now use the bridge for cross-chain transfers".  So a posted transfer    *)
(* the contract sent, to a Solana user with a token account, should pass   *)
(* the program's checks once both sides are registered.                    *)
SentTransfersRedeemable ==
  \A m \in posted \ completed :
    /\ m.from = EvmBridge
    /\ <<m.recipient, m.token>> \in tokenAccounts
    /\ bridgeOwner # Nobody /\ foreignContract[EvmChain] = EvmBridge
    => RedeemAccounts(m.recipient, m.recipient, m)
=============================================================================
