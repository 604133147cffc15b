------------------------ MODULE MCMessengerLiveness ------------------------
(* Instances of MessengerLiveness for TLC. *)
EXTENDS MessengerLiveness, TLC

CONSTANTS evmOld, evmNew, solana, alice

MCContracts == {evmOld, evmNew}
MCUsers == {alice}
MCPayloads == {[data |-> "a", length |-> 1], [data |-> "b", length |-> MESSAGE_MAX_LENGTH]}

MCToSolana == (solana :> 1) @@ (evmOld :> 2) @@ (evmNew :> 1)
MCContractCandidates == {evmOld, evmNew}
=============================================================================
