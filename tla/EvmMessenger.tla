---------------------------- MODULE EvmMessenger ----------------------------
(***************************************************************************)
(* The CrossChainMessenger contract.  Several deployments may exist side   *)
(* by side on the EVM chain (a redeployment leaves the old one alive), so  *)
(* each piece of contract storage is indexed by the contract's address.    *)
(***************************************************************************)
EXTENDS WormholeCore, MessengerWire, Sequences

CONSTANT EvmOwner  \* the deployer of the EVM contracts

VARIABLES
  registeredEmitters,  \* contract -> chain -> trusted emitter
  consumedMessages,    \* contract -> hashes already consumed
  receivedMessages,    \* contract -> hash -> stored payload
  evmSent,             \* messages named by the MessageSent events
  evmInbox             \* contract -> messages of its MessageReceived events, in order

evmStorage == <<registeredEmitters, consumedMessages, receivedMessages>>
evmVars == <<evmStorage, evmSent, evmInbox>>

(* The constructor: nothing registered, nothing consumed. *)
EvmInit ==
  /\ registeredEmitters = [c \in EvmContracts |-> [ch \in Chains |-> NoEmitter]]
  /\ consumedMessages = [c \in EvmContracts |-> {}]
  /\ receivedMessages = [c \in EvmContracts |-> [h \in {} |-> h]]
  /\ evmSent = {}
  /\ evmInbox = [c \in EvmContracts |-> <<>>]

(* Mutant: no upper bound on the payload. *)
sendMessageUnbounded(c, p, value) ==
  /\ p.length > 0
  /\ value >= messageFee
  /\ Publish(c, encodeMessage(p))
  /\ evmSent' = evmSent \cup {Message(c, sequence[c], p)}
  /\ UNCHANGED <<evmStorage, evmInbox>>

(* sendMessage: 1 to 65534 bytes, published as the contract's next message *)
(* by a caller who pays at least the current fee.  What the caller pays    *)
(* beyond it stays in the contract, whose code never reads its balance.    *)
sendMessage(c, p, value) ==
  /\ p.length > 0
  /\ p.length < MaxUint16
  /\ value >= messageFee
  /\ Publish(c, encodeMessage(p))
  /\ evmSent' = evmSent \cup {Message(c, sequence[c], p)}
  /\ UNCHANGED <<evmStorage, evmInbox>>

(* Mutant: any emitter of a chain that has one registered. *)
verifyEmitterChain(c, vm) == registeredEmitters[c][vm.emitterChain] # NoEmitter

verifyEmitter(c, vm) ==
  registeredEmitters[c][vm.emitterChain] = vm.emitterAddress

(* Mutant: replay protection by a monotone nonce. *)
isMessageOutdated(c, hash) ==
  \E h \in consumedMessages[c] :
    h.emitterAddress = hash.emitterAddress /\ h.sequence >= hash.sequence

isMessageConsumed(c, hash) == hash \in consumedMessages[c]

(* Mutant: the payload is stored and the hash left unmarked. *)
consumeMessageUnmarked(c, hash, p) ==
  /\ receivedMessages' = [receivedMessages EXCEPT ![c] =
       [h \in DOMAIN receivedMessages[c] \cup {hash} |->
          IF h = hash THEN p ELSE receivedMessages[c][h]]]
  /\ UNCHANGED consumedMessages

(* consumeMessage stores the payload under the hash, then marks the hash. *)
consumeMessage(c, hash, p) ==
  /\ receivedMessages' = [receivedMessages EXCEPT ![c] =
       [h \in DOMAIN receivedMessages[c] \cup {hash} |->
          IF h = hash THEN p ELSE receivedMessages[c][h]]]
  /\ consumedMessages' = [consumedMessages EXCEPT ![c] = @ \cup {hash}]

(* receiveMessage: a signed VAA from the registered emitter, once. *)
receiveMessage(c, vm) ==
  /\ vm \in vaas
  /\ verifyEmitter(c, vm)
  /\ ~isMessageConsumed(c, vm)
  /\ Decodable(vm.payload)
  /\ consumeMessage(c, vm, decodeMessage(vm.payload))
  /\ evmInbox' = [evmInbox EXCEPT ![c] =
       Append(@, Message(vm.emitterAddress, vm.sequence, decodeMessage(vm.payload)))]
  /\ UNCHANGED <<registeredEmitters, evmSent, coreVars>>

(* registerEmitter: owner only; replaces whatever was registered. *)
registerEmitter(c, caller, chain, a) ==
  /\ caller = EvmOwner
  /\ chain \notin {0, EvmChain}
  /\ a # NoEmitter
  /\ registeredEmitters' = [registeredEmitters EXCEPT ![c][chain] = a]
  /\ UNCHANGED <<consumedMessages, receivedMessages, evmSent, evmInbox, coreVars>>
=============================================================================
