----------------------------- MODULE MCMessenger -----------------------------
(* Instances of Messenger and MessengerClaims for TLC. *)
EXTENDS MessengerClaims, TLC

CONSTANTS evmOld, evmNew, solana, alice, bob

MCContracts == {evmOld, evmNew}
MCOneContract == {evmOld}
MCUsers == {alice, bob}
MCOneUser == {alice}

MCOnePayload == {[data |-> "a", length |-> 1]}
MCBoundaryPayloads ==
  {[data |-> "x", length |-> n] : n \in {0, 1, 1024, 1025, 65534, 65535, 65537}}

\* Messages per emitter; Solana's first is the Alive message.
MCToSolana == (solana :> 1) @@ (evmOld :> 2) @@ (evmNew :> 1)
MCBothWays == (solana :> 2) @@ (evmOld :> 1)
MCLimits == (solana :> 3) @@ (evmOld :> 1)
MCCandidates == {evmOld, evmNew}
MCBothCandidates == {evmOld, solana}
=============================================================================
