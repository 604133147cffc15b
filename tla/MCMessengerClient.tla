-------------------------- MODULE MCMessengerClient --------------------------
(* Instances of MessengerClient for TLC. *)
EXTENDS MessengerClient, TLC

CONSTANTS evm, solana, alice, s1, s2, e1

MCContracts == {evm}
MCUsers == {alice}
MCTwoSolana == {s1, s2}
MCOneSolana == {s1}
MCOneEvm == {e1}
MCPayloads == {[data |-> c, length |-> 1] : c \in {s1, s2, e1}}
MCBothWays == (solana :> 2) @@ (evm :> 1)
MCThree == (solana :> 3) @@ (evm :> 1)
MCCandidates == {evm, solana}
=============================================================================
