---------------------------- MODULE WormholeCore ----------------------------
(***************************************************************************)
(* The Wormhole core bridge, seen through the bindings of                  *)
(* wormhole-anchor-sdk and the calls the programs make: an emitter         *)
(* publishes messages under consecutive sequence numbers, the guardians    *)
(* sign what they observed, and whatever they signed (a VAA) can be        *)
(* presented to any chain, at any time, in any order and any number of     *)
(* times.  Its own code is not part of the repository.                     *)
(***************************************************************************)
EXTENDS Naturals

CONSTANTS
  EvmContracts,   \* addresses of the deployed EVM contracts
  SolanaEmitter,  \* the emitter PDA of the Solana program
  NoEmitter,      \* the zero address: nothing registered
  Users,          \* accounts that call the programs, on either chain
  EvmChain,       \* Wormhole chain id of the EVM chain (30, Base)
  Fees,           \* the message fees governance may set on the EVM chain
  MaxSequence     \* bound on the messages each emitter publishes

CHAIN_ID_SOLANA == 1

ASSUME EmittersAssumption ==
  /\ SolanaEmitter \notin EvmContracts
  /\ NoEmitter \notin EvmContracts \cup {SolanaEmitter}
ASSUME FeesAssumption == Fees \subseteq Nat
ASSUME ChainAssumption == EvmChain \in Nat \ {0, CHAIN_ID_SOLANA}

VARIABLES
  messageFee, \* what publishing on the EVM chain costs
  sequence,   \* per emitter, the sequence number of its next message
  published,  \* messages the chains have accepted for publication
  vaas        \* messages the guardians have signed

coreVars == <<messageFee, sequence, published, vaas>>

Emitters == EvmContracts \cup {SolanaEmitter}

ASSUME MaxSequenceAssumption == MaxSequence \in [Emitters -> Nat]

Chains == {CHAIN_ID_SOLANA, EvmChain}
ChainOf(a) == IF a = SolanaEmitter THEN CHAIN_ID_SOLANA ELSE EvmChain

(* The hash of a VAA identifies its body, so the body stands for both. *)
Body(a, n, wire) == [emitterChain    |-> ChainOf(a),
                     emitterAddress  |-> a,
                     sequence        |-> n,
                     payload         |-> wire]

CoreInit ==
  /\ messageFee \in Fees
  /\ sequence = [a \in Emitters |-> 0]
  /\ published = {}
  /\ vaas = {}

(* publishMessage on EVM, post_message on Solana: the message gets the    *)
(* emitter's next number.                                                 *)
Publish(a, wire) ==
  /\ sequence[a] < MaxSequence[a]
  /\ published' = published \cup {Body(a, sequence[a], wire)}
  /\ sequence' = [sequence EXCEPT ![a] = @ + 1]
  /\ UNCHANGED <<messageFee, vaas>>

(* The guardians reach a quorum on an observed message. *)
Sign(m) ==
  /\ m \in published \ vaas
  /\ vaas' = vaas \cup {m}
  /\ UNCHANGED <<messageFee, sequence, published>>

(* Governance changes the fee (messageFee() returns the current one). *)
SetMessageFee(fee) ==
  /\ fee # messageFee
  /\ messageFee' = fee
  /\ UNCHANGED <<sequence, published, vaas>>
=============================================================================
