---------------------------- MODULE MCBridgeClient ----------------------------
(* A script run and a library run from either chain. *)
EXTENDS BridgeClient, TLC

CONSTANTS ue, alice, solToken, evmToken, sScript, sLibrary, eScript, eLibrary

MCTokens    == {solToken, evmToken}
MCHomeChain == (solToken :> CHAIN_ID_SOLANA) @@ (evmToken :> EvmChain)
MCDecimals  == [t \in Tokens |-> 9]
MCAccounts  == {<<alice, solToken>>}
MCLowBytes  == (ue :> ue) @@ (alice :> Nobody)
MCTwoToEvm  == (CHAIN_ID_SOLANA :> 2) @@ (EvmChain :> 1)
MCTwoEach   == (CHAIN_ID_SOLANA :> 2) @@ (EvmChain :> 2)
MCRegistrations == (CHAIN_ID_SOLANA :> {SolanaTokenBridge, SolanaProgram})
                     @@ (EvmChain :> {EvmBridge})
MCRelayerFees   == {<<100, 10000>>}
MCSolanaSenders == {sScript, sLibrary}
MCEvmSenders == {eScript, eLibrary}
MCLibraryUsers == {sLibrary, eLibrary}
MCScriptFromEvm == {eScript}
MCTokenOf   == [c \in Clients |-> IF c \in SolanaSenders THEN solToken ELSE evmToken]
=============================================================================
