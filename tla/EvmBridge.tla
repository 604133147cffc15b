------------------------------ MODULE EvmBridge ------------------------------
(* The CrossChainBridge contract. *)
EXTENDS TokenBridge

CONSTANTS
  EvmBridgeOwner,  \* the deployer
  Fees,            \* fees the core bridge may ask, and what callers may pay
  LowBytes         \* 32-byte address -> its low 20 bytes as an EVM address

ASSUME LowBytesAssumption ==
  \A r \in DOMAIN LowBytes : LowBytes[r] \in EvmUsers \cup {EvmBridge, Nobody}
ASSUME FeesAssumption == Fees \subseteq Nat

VARIABLES
  registeredEmitters,  \* chain -> registered address
  redeemedTransfers,   \* transfers the contract has redeemed
  evmRelayer,          \* relayerFee and relayerFeePrecision: nothing reads them
  messageFee,          \* what the core bridge asks for a message (external)
  dust,                \* token -> what truncation left in the contract (history)
  evmPayouts           \* what redemptions paid (history)

evmStorage == <<registeredEmitters, redeemedTransfers, evmRelayer>>
evmVars == <<evmStorage, messageFee, dust, evmPayouts>>

EvmInit ==
  /\ registeredEmitters = [ch \in Chains |-> Nobody]
  /\ redeemedTransfers = {}
  /\ evmRelayer = [fee |-> 0, precision |-> 0]
  /\ messageFee \in Fees
  /\ dust = [t \in Tokens |-> 0]
  /\ evmPayouts = {}

(* sendTokensWithPayload: pulls the whole amount, of which the Token       *)
(* Bridge takes what 8 decimals can express; the rest stays here.  It is   *)
(* addressed to whatever is registered for the target chain.               *)
sendTokensWithPayload(u, t, amount, targetChain, recipient, value) ==
  LET bridged == truncate_amount(amount, LocalDecimals(EvmChain, t)) IN
    /\ amount > 0
    /\ recipient # Nobody
    /\ registeredEmitters[targetChain] # Nobody
    /\ value >= messageFee
    /\ amount <= balance[u][t]
    /\ TbTransfer(Transfer(EvmChain, t, normalize_amount(amount, LocalDecimals(EvmChain, t)),
                           registeredEmitters[targetChain], targetChain, EvmBridge, recipient))
    /\ balance' = [balance EXCEPT ![u][t] = @ - amount,
                                  ![EvmBridge][t] = @ + (amount - bridged)]
    /\ dust' = [dust EXCEPT ![t] = @ + (amount - bridged)]
    /\ UNCHANGED <<evmStorage, messageFee, evmPayouts>>

verifyEmitter(vm) == registeredEmitters[vm.chain] = vm.emitter

isTransferRedeemed(vm) == vm \in redeemedTransfers

truncateAddress(recipient) == LowBytes[recipient]

(* Mutant: nine decimals taken for eight. *)
denormalizeOffByOne(amount, decimals) ==
  IF decimals > 9 THEN amount * 10 ^ (decimals - 8) ELSE amount

denormalizeAmount(amount, decimals) ==
  IF decimals > 8 THEN amount * 10 ^ (decimals - 8) ELSE amount

(* redeemTokensWithPayload: the contract completes the transfer as the     *)
(* address it is bound for and pays the recipient what it computes to be   *)
(* the amount.  A transfer to the zero address reverts in the token; one   *)
(* to the contract itself succeeds, and stays there.                       *)
redeemTokensWithPayload(vm) ==
  LET recipient == truncateAddress(vm.recipient)
      received  == Payout(EvmChain, vm)
      amount    == denormalizeAmount(vm.amount, LocalDecimals(EvmChain, vm.token)) IN
    /\ verifyEmitter(vm)
    /\ ~isTransferRedeemed(vm)
    /\ TbComplete(vm, EvmChain, {EvmBridge})
    /\ recipient # Nobody
    /\ amount <= balance[EvmBridge][vm.token] + received
    /\ Credit(vm.token, [h \in Holders |->
         (IF h = EvmBridge THEN received - amount ELSE 0)
         + (IF h = recipient THEN amount ELSE 0)])
    /\ redeemedTransfers' = redeemedTransfers \cup {vm}
    /\ evmPayouts' = evmPayouts \cup {[transfer |-> vm, recipient |-> recipient,
                                       toRecipient |-> amount, toRedeemer |-> 0]}
    /\ UNCHANGED <<registeredEmitters, evmRelayer, messageFee, dust>>

registerEmitter(caller, chain, a) ==
  /\ caller = EvmBridgeOwner
  /\ chain \notin {0, EvmChain}
  /\ a # Nobody
  /\ registeredEmitters' = [registeredEmitters EXCEPT ![chain] = a]
  /\ UNCHANGED <<redeemedTransfers, evmRelayer, messageFee, dust, evmPayouts, tbVars>>

updateRelayerFee(caller, fee, precision) ==
  /\ caller = EvmBridgeOwner
  /\ precision > 0
  /\ fee < precision
  /\ evmRelayer' = [fee |-> fee, precision |-> precision]
  /\ UNCHANGED <<registeredEmitters, redeemedTransfers, messageFee, dust, evmPayouts, tbVars>>

(* Wormhole's governance changes the fee. *)
SetMessageFee(fee) ==
  /\ fee # messageFee
  /\ messageFee' = fee
  /\ UNCHANGED <<evmStorage, dust, evmPayouts, tbVars>>
=============================================================================
