------------------------------- MODULE MCBridge -------------------------------
(* One EVM user, two Solana users of whom one may be a relayer, a token of *)
(* 9 decimals native to each chain.                                        *)
EXTENDS BridgeClaims, TLC

CONSTANTS ue, alice, bob, solToken, evmToken

MCBothTokens == {solToken, evmToken}
MCEvmToken   == {evmToken}
MCHomes      == (solToken :> CHAIN_ID_SOLANA) @@ (evmToken :> EvmChain)
MCHomeChain  == [t \in Tokens |-> MCHomes[t]]
MCDecimals   == [t \in Tokens |-> 9]
MCAccounts   == {alice, bob} \X Tokens
MCSomeAccounts == MCAccounts \ {<<bob, evmToken>>}
MCLowBytes   == (ue :> ue) @@ (alice :> Nobody) @@ (EvmBridge :> EvmBridge)
MCFees       == {<<0, 1>>, <<9, 10>>, <<1, 1>>}
MCEvmFees    == {<<9, 10>>, <<1, 1>>}

\* Transfers per source chain.
MCOneEach   == (CHAIN_ID_SOLANA :> 1) @@ (EvmChain :> 1)
MCTwoToEvm  == (CHAIN_ID_SOLANA :> 2) @@ (EvmChain :> 1)

\* Registering the program or the Token Bridge's emitter for Solana.
MCRegistrations == (CHAIN_ID_SOLANA :> {SolanaProgram, SolanaTokenBridge})
                   @@ (EvmChain :> {EvmBridge})

\* What setup-bridges registers.
MCSetup == (CHAIN_ID_SOLANA :> {SolanaTokenBridge}) @@ (EvmChain :> {EvmBridge})
=============================================================================
