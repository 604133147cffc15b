----------------------------- MODULE SolanaBridge -----------------------------
(***************************************************************************)
(* The cross-chain-bridge program.  Each instruction is one transaction:   *)
(* it creates the temporary token account of the mint, moves tokens        *)
(* through it and closes it, which needs it empty, so the account never    *)
(* outlives an instruction and a wrong split fails instead of leaking.     *)
(***************************************************************************)
EXTENDS TokenBridge

VARIABLES
  bridgeOwner,      \* owner of the two config accounts; Nobody before initialize
  relayer,          \* relayer_fee and relayer_fee_precision of the redeemer config
  foreignContract,  \* chain -> registered contract; Nobody: no account
  solanaPayouts     \* what redemptions paid (history)

solanaAccounts == <<bridgeOwner, relayer, foreignContract>>
solanaVars == <<solanaAccounts, solanaPayouts>>

SolanaInit ==
  /\ bridgeOwner = Nobody
  /\ relayer = [fee |-> 0, precision |-> 0]
  /\ foreignContract = [ch \in Chains |-> Nobody]
  /\ solanaPayouts = {}

(* Mutant: a fee of the whole amount is let through. *)
ValidRelayerFeeInclusive(fee, precision) == fee <= precision

ValidRelayerFee(fee, precision) == fee < precision

(* initialize: creates both configs, which must not exist yet. *)
InitializeAccounts == bridgeOwner = Nobody

initialize(caller, fee, precision) ==
  /\ InitializeAccounts
  /\ ValidRelayerFee(fee, precision)
  /\ bridgeOwner' = caller
  /\ relayer' = [fee |-> fee, precision |-> precision]
  /\ UNCHANGED <<foreignContract, solanaPayouts, tbVars>>

(* register_foreign_contract: signed by the owner.  The foreign contract's *)
(* account is created if needed, so a registration may be replaced.        *)
RegisterForeignContractAccounts(owner) ==
  /\ bridgeOwner # Nobody
  /\ owner = bridgeOwner

register_foreign_contract(caller, chain, a) ==
  /\ RegisterForeignContractAccounts(caller)
  /\ chain \notin {0, CHAIN_ID_SOLANA}
  /\ a # Nobody
  /\ foreignContract' = [foreignContract EXCEPT ![chain] = a]
  /\ UNCHANGED <<bridgeOwner, relayer, solanaPayouts, tbVars>>

(* update_relayer_fee: the transaction names the owner's account, which is *)
(* compared with the config's; whose signature it carries is not.          *)
UpdateRelayerFeeAccounts(owner) ==
  /\ bridgeOwner # Nobody
  /\ owner = bridgeOwner

update_relayer_fee(owner, fee, precision) ==
  /\ UpdateRelayerFeeAccounts(owner)
  /\ ValidRelayerFee(fee, precision)
  /\ relayer' = [fee |-> fee, precision |-> precision]
  /\ UNCHANGED <<bridgeOwner, foreignContract, solanaPayouts, tbVars>>

-----------------------------------------------------------------------------
(* Mutant: the seed of the message account unchecked. *)
SendAccountsAnySeed(seed, chain) ==
  /\ bridgeOwner # Nobody
  /\ foreignContract[chain] # Nobody

(* The accounts both sends check: the sender config exists, the chain has  *)
(* a contract, the message account is derived from the Token Bridge's next *)
(* number.                                                                 *)
SendAccounts(seed, chain) ==
  /\ bridgeOwner # Nobody
  /\ foreignContract[chain] # Nobody
  /\ seed = tbSequence[CHAIN_ID_SOLANA] + 1

SendNativeAccounts(seed, t, chain) ==
  /\ HomeChain[t] = CHAIN_ID_SOLANA
  /\ SendAccounts(seed, chain)

SendWrappedAccounts(seed, t, chain) ==
  /\ HomeChain[t] # CHAIN_ID_SOLANA
  /\ SendAccounts(seed, chain)

ValidRecipient(recipient, chain) ==
  /\ chain \notin {0, CHAIN_ID_SOLANA}
  /\ recipient # Nobody

(* Both sends hand the Token Bridge `moved` raw tokens of the user.        *)
Send(u, t, moved, recipient, chain) ==
  /\ moved <= balance[u][t]
  /\ TbTransfer(Transfer(CHAIN_ID_SOLANA, t, moved \div UnitOn(CHAIN_ID_SOLANA, t),
                         foreignContract[chain], chain, SolanaProgram, recipient))
  /\ balance' = [balance EXCEPT ![u][t] = @ - moved]
  /\ UNCHANGED solanaVars

send_native_tokens_with_payload(u, seed, t, amount, recipient, chain) ==
  /\ SendNativeAccounts(seed, t, chain)
  /\ ValidRecipient(recipient, chain)
  /\ truncate_amount(amount, Decimals[t]) > 0
  /\ Send(u, t, truncate_amount(amount, Decimals[t]), recipient, chain)

send_wrapped_tokens_with_payload(u, seed, t, amount, recipient, chain) ==
  /\ SendWrappedAccounts(seed, t, chain)
  /\ ValidRecipient(recipient, chain)
  /\ amount > 0
  /\ Send(u, t, amount, recipient, chain)

-----------------------------------------------------------------------------
(* ForeignContract::verify: the contract that sent the transfer.           *)
verify(vaa) == foreignContract[vaa.chain] = vaa.from

(* Mutant: the recipient account is whichever the redeemer passes. *)
RecipientAny(recipient, vaa) == TRUE

RecipientMatches(recipient, vaa) == recipient = vaa.recipient

(* What both redemptions check before they move anything: a posted VAA of  *)
(* the registered contract, the accounts of its recipient and of the one   *)
(* who pays.  That nobody has redeemed it is the Token Bridge's claim.     *)
RedeemAccounts(payer, recipient, vaa) ==
  /\ bridgeOwner # Nobody
  /\ vaa \in posted
  /\ verify(vaa)
  /\ vaa.to \in {SolanaProgram, RedeemerConfig}
  /\ vaa.toChain = CHAIN_ID_SOLANA
  /\ RecipientMatches(recipient, vaa)
  /\ {payer, recipient} \X {vaa.token} \subseteq tokenAccounts

RedeemNativeAccounts(payer, recipient, vaa) ==
  /\ HomeChain[vaa.token] = CHAIN_ID_SOLANA
  /\ RedeemAccounts(payer, recipient, vaa)

RedeemWrappedAccounts(payer, recipient, vaa) ==
  /\ HomeChain[vaa.token] # CHAIN_ID_SOLANA
  /\ RedeemAccounts(payer, recipient, vaa)

(* The redeemer's part: none of what it redeems for itself.                *)
RelayerPart(payer, recipient, amount) ==
  IF payer = recipient THEN 0
  ELSE compute_relayer_amount(amount, relayer.fee, relayer.precision)

(* What the program takes the transfer to be worth here.                   *)
RedeemedAmount(vaa) ==
  IF HomeChain[vaa.token] = CHAIN_ID_SOLANA
  THEN denormalize_amount(vaa.amount, Decimals[vaa.token])
  ELSE vaa.amount

(* No overflow, and the temporary account empty in the end.                *)
RedeemFunds(payer, recipient, vaa) ==
  LET amount == RedeemedAmount(vaa) IN
    /\ FitsU64(amount)
    /\ payer # recipient => RelayerProductFits(amount, relayer.fee)
    /\ Payout(CHAIN_ID_SOLANA, vaa) = amount

Redeem(payer, recipient, vaa) ==
  LET amount == RedeemedAmount(vaa)
      kept   == RelayerPart(payer, recipient, amount) IN
    /\ TbComplete(vaa, CHAIN_ID_SOLANA, {SolanaProgram, RedeemerConfig})
    /\ RedeemFunds(payer, recipient, vaa)
    /\ Credit(vaa.token, [h \in Holders |->
         (IF h = payer THEN kept ELSE 0) + (IF h = recipient THEN amount - kept ELSE 0)])
    /\ solanaPayouts' = solanaPayouts \cup {[transfer |-> vaa, recipient |-> recipient,
                                             toRecipient |-> amount - kept, toRedeemer |-> kept]}
    /\ UNCHANGED solanaAccounts

redeem_native_transfer_with_payload(payer, recipient, vaa) ==
  /\ RedeemNativeAccounts(payer, recipient, vaa)
  /\ Redeem(payer, recipient, vaa)

redeem_wrapped_transfer_with_payload(payer, recipient, vaa) ==
  /\ RedeemWrappedAccounts(payer, recipient, vaa)
  /\ Redeem(payer, recipient, vaa)
=============================================================================
