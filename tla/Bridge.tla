-------------------------------- MODULE Bridge --------------------------------
(***************************************************************************)
(* The token bridge as deployed: the EVM contract and the Solana program   *)
(* on top of Wormhole's Token Bridge, which others use too.                *)
(***************************************************************************)
EXTENDS EvmBridge, SolanaBridge, Functions

CONSTANTS
  Registrations,  \* chain -> addresses the other side's owner registers for it
  RelayerFees,    \* pairs <<fee, precision>> tried as relayer fees on Solana
  EvmRelayerFees, \* and on EVM
  OtherAmounts    \* amounts of transfers that bypass CrossChainBridge

ASSUME BridgeAssumption ==
  /\ Registrations \in [Chains -> SUBSET (Addresses \ {Nobody})]
  /\ RelayerFees \subseteq Nat \X Nat
  /\ EvmRelayerFees \subseteq Nat \X Nat
  /\ OtherAmounts \subseteq Nat

Recipients == DOMAIN LowBytes

vars == <<tbVars, evmVars, solanaVars>>

Init == TbInit /\ EvmInit /\ SolanaInit

EvmStep ==
  /\ \/ \E u \in EvmUsers, t \in Tokens, amount \in Amounts, ch \in Chains,
           r \in Recipients, value \in Fees :
          sendTokensWithPayload(u, t, amount, ch, r, value)
     \/ \E vm \in signed : redeemTokensWithPayload(vm)
     \/ \E caller \in EvmUsers, ch \in Chains : \E a \in Registrations[ch] :
          registerEmitter(caller, ch, a)
     \/ \E caller \in EvmUsers, f \in EvmRelayerFees : updateRelayerFee(caller, f[1], f[2])
  /\ UNCHANGED solanaVars

SolanaSteps ==
  \/ \E caller \in SolanaUsers, f \in RelayerFees : initialize(caller, f[1], f[2])
  \/ \E caller \in SolanaUsers, ch \in Chains : \E a \in Registrations[ch] :
       register_foreign_contract(caller, ch, a)
  \/ \E owner \in SolanaUsers, f \in RelayerFees : update_relayer_fee(owner, f[1], f[2])
  \/ \E u \in SolanaUsers, seed \in 1..MaxTransfers[CHAIN_ID_SOLANA], t \in Tokens,
        amount \in Amounts, r \in Recipients, ch \in Chains :
       \/ send_native_tokens_with_payload(u, seed, t, amount, r, ch)
       \/ send_wrapped_tokens_with_payload(u, seed, t, amount, r, ch)
  \/ \E payer, recipient \in SolanaUsers, vaa \in signed :
       \/ redeem_native_transfer_with_payload(payer, recipient, vaa)
       \/ redeem_wrapped_transfer_with_payload(payer, recipient, vaa)

SolanaStep == SolanaSteps /\ UNCHANGED evmVars

OtherStep ==
  \/ \E fee \in Fees : SetMessageFee(fee) /\ UNCHANGED solanaVars
  \/ /\ \/ \E m \in transfers : SignTransfer(m)
        \/ \E m \in signed : PostTransfer(m)
        \/ \E u \in SolanaUsers, t \in Tokens : CreateTokenAccount(u, t)
        \/ \E u \in Users, t \in Tokens, amount \in OtherAmounts, r \in Recipients :
             OtherTransfer(u, t, amount, r)
     /\ UNCHANGED <<evmVars, solanaVars>>

Next == EvmStep \/ SolanaStep \/ OtherStep

Spec == Init /\ [][Next]_vars

-----------------------------------------------------------------------------
(* What a raw amount on a chain is worth in raw units of the home chain.   *)
HomeValue(chain, t, amount) ==
  IF chain = HomeChain[t] THEN amount ELSE amount * UnitOn(HomeChain[t], t)

InFlight == transfers \ completed

(* By holder, by transfer, and by transfer addressed to the contract itself.*)
Held(t) == [h \in Holders |-> HomeValue(ChainOfHolder(h), t, balance[h][t])]
Travelling(t) ==
  [m \in {m \in InFlight : m.token = t} |-> m.amount * UnitOn(HomeChain[t], t)]
Kept(t) ==
  [p \in {p \in evmPayouts \cup solanaPayouts : p.recipient = EvmBridge /\ p.transfer.token = t}
     |-> p.toRecipient]

Supply(t) == InitialBalance * Cardinality({u \in Users : ChainOfHolder(u) = HomeChain[t]})

(* The users are finitely many, and the mint of a token native to Solana   *)
(* counts its supply in 64 bits.                                           *)
ASSUME SupplyAssumption ==
  /\ IsFiniteSet(Users)
  /\ \A t \in Tokens : HomeChain[t] = CHAIN_ID_SOLANA => FitsU64(Supply(t))

(* The states are well formed, and whatever fee was ever accepted leaves   *)
(* the recipient a part: relayer_fee < relayer_fee_precision in every      *)
(* config that exists, on both chains.                                     *)
BridgeTypeOK ==
  /\ tbSequence \in [Chains -> Nat]
  /\ signed \subseteq transfers /\ completed \subseteq signed /\ posted \subseteq signed
  /\ redeemedTransfers \subseteq completed
  /\ balance \in [Holders -> [Tokens -> Nat]]
  /\ dust \in [Tokens -> Nat]
  /\ messageFee \in Fees
  /\ registeredEmitters \in [Chains -> Addresses \cup {Nobody}]
  /\ foreignContract \in [Chains -> Addresses \cup {Nobody}]
  /\ bridgeOwner \in SolanaUsers \cup {Nobody}
  /\ bridgeOwner # Nobody => relayer.fee < relayer.precision
  /\ evmRelayer.precision > 0 => evmRelayer.fee < evmRelayer.precision

(* No token is made or lost on the way between the chains: what the users  *)
(* and the EVM contract hold and what is in flight add up to what there    *)
(* was, in raw units of the token's own chain.                             *)
Accounted ==
  \A t \in Tokens : SumFunction(Held(t)) + SumFunction(Travelling(t)) = Supply(t)

(* The contract pays no redemption out of its own tokens and keeps no part *)
(* of anybody's: it holds what truncation left it and the transfers whose  *)
(* recipient truncates to its own address, which it pays to itself.        *)
ContractHoldsOnlyWhatIsStuck ==
  \A t \in Tokens : balance[EvmBridge][t] = dust[t] + SumFunction(Kept(t))

(* A transfer both programs' checks let through is never stuck over its    *)
(* amount: the sum the receiver computes is the sum the Token Bridge pays, *)
(* the recipient can always redeem it without a relayer, and the contract  *)
(* does not take for redeemed what the Token Bridge has not completed.     *)
RedemptionSucceeds ==
  \A m \in signed \ completed :
    /\ RedeemAccounts(m.recipient, m.recipient, m) => RedeemFunds(m.recipient, m.recipient, m)
    /\ verifyEmitter(m) /\ m.to = EvmBridge =>
         /\ ~isTransferRedeemed(m)
         /\ denormalizeAmount(m.amount, LocalDecimals(EvmChain, m.token))
              = Payout(EvmChain, m)

(* The refinement: every transfer that entered is paid once, in full, to   *)
(* the recipient it names, and a redeemer never keeps all of it.           *)
AbstractTransfer(m) ==
  [chain |-> m.chain, sequence |-> m.sequence, worth |-> Payout(m.toChain, m),
   recipient |-> IF m.toChain = EvmChain THEN truncateAddress(m.recipient) ELSE m.recipient]

Promise == INSTANCE Transfers WITH
  entered <- {AbstractTransfer(m) : m \in transfers},
  payouts <- {[p EXCEPT !.transfer = AbstractTransfer(@)] : p \in evmPayouts \cup solanaPayouts}

BridgeImplementsTransfers == Promise!Spec
=============================================================================
