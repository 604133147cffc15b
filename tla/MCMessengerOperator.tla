--------------------------- MODULE MCMessengerOperator ---------------------------
(* Two deployments, two users of whom one is the operator. *)
EXTENDS MessengerOperator, TLC

CONSTANTS evmOld, evmNew, solana, alice, bob

MCContracts == {evmOld, evmNew}
MCCandidates == {evmOld, evmNew, solana}
MCPayloads == {[data |-> "a", length |-> 1]}
MCThreeFromSolana == (solana :> 3) @@ (evmOld :> 1) @@ (evmNew :> 0)
=============================================================================
