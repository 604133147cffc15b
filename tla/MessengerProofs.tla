--------------------------- MODULE MessengerProofs ---------------------------
(***************************************************************************)
(* Proofs about Messenger, for any number of contracts, users, payloads,   *)
(* messages and closes.                                                    *)
(***************************************************************************)
EXTENDS Messenger, TLAPS

IInv == TypeOK /\ NetworkInv /\ EvmInboxInv

(* Facts about the wire format. *)
LEMMA WireFacts ==
  ASSUME NEW p \in Payloads
  PROVE  /\ p.length \in Nat
         /\ p = [data |-> p.data, length |-> p.length]
         /\ encodeMessage(p) \in Wires
         /\ serialize(p) = encodeMessage(p)
         /\ encodeMessage(p).id = PAYLOAD_ID_MESSAGE
         /\ encodeMessage(p).body = p
         /\ p.length < MaxUint16 => encodeMessage(p).length = p.length
         /\ AliveMessage \in Wires
         /\ AliveMessage.id # PAYLOAD_ID_MESSAGE
<1>1. p.length \in Nat /\ p = [data |-> p.data, length |-> p.length]
  BY PayloadsAssumption
<1>2. p.length < MaxUint16 => p.length % (MaxUint16 + 1) = p.length
  BY <1>1 DEF MaxUint16
<1> QED
  BY <1>1, <1>2 DEF encodeMessage, serialize, Wire, Wires, AliveMessage,
     PAYLOAD_ID_MESSAGE, PAYLOAD_ID_ALIVE

(* A body of the network that carries a message carries one of Payloads.   *)
LEMMA CarriedPayload ==
  ASSUME NEW m \in Bodies, m.payload.id = PAYLOAD_ID_MESSAGE
  PROVE  /\ m.payload.body \in Payloads
         /\ decodeMessage(m.payload) = m.payload.body
         /\ m.payload.length = m.payload.body.length =>
              deserialize(m.payload) = m.payload.body
<1>1. PICK p \in Payloads : m.payload = encodeMessage(p)
  BY DEF Bodies, Wires, AliveMessage, Wire, PAYLOAD_ID_MESSAGE, PAYLOAD_ID_ALIVE
<1> QED
  BY <1>1, WireFacts, PayloadsAssumption DEF decodeMessage, deserialize

(* The initial state. *)
LEMMA InitIInv == Init => IInv
BY EmittersAssumption, MaxSequenceAssumption, MaxClosesAssumption
   DEF Init, CoreInit, EvmInit, SolanaInit, IInv, TypeOK, NetworkInv, EvmInboxInv,
       sent, Emitters

-----------------------------------------------------------------------------
(* Publishing keeps the counters, the bodies and the uniqueness of numbers. *)
LEMMA PublishKeepsNetwork ==
  ASSUME TypeOK, NetworkInv,
         NEW a \in Emitters, NEW w \in Wires, Publish(a, w),
         \/ /\ w.id # PAYLOAD_ID_MESSAGE
            /\ sent' = sent
         \/ \E p \in Payloads :
              /\ p.length < MaxUint16
              /\ w = encodeMessage(p)
              /\ sent' = sent \cup {Message(a, sequence[a], p)}
  PROVE  /\ sequence' \in [Emitters -> Nat]
         /\ \A e \in Emitters : sequence'[e] <= MaxSequence[e]
         /\ published' \subseteq Bodies
         /\ UNCHANGED <<messageFee, vaas>>
         /\ vaas \subseteq published'
         /\ published \subseteq published'
         /\ Body(a, sequence[a], w) \in published'
         /\ NetworkInv'
<1> DEFINE new == Body(a, sequence[a], w)
<1>1. /\ published' = published \cup {new}
      /\ sequence' = [sequence EXCEPT ![a] = @ + 1]
      /\ sequence[a] < MaxSequence[a]
      /\ UNCHANGED <<messageFee, vaas>>
  BY DEF Publish
<1>2. sequence \in [Emitters -> Nat] /\ \A e \in Emitters : sequence[e] <= MaxSequence[e]
  BY DEF TypeOK
<1>3. new \in Bodies
  BY <1>2, ChainAssumption DEF Body, Bodies, ChainOf, Chains
<1>4. /\ sequence' \in [Emitters -> Nat]
      /\ \A e \in Emitters : sequence'[e] <= MaxSequence[e]
      /\ \A e \in Emitters : sequence[e] <= sequence'[e]
      /\ sequence[a] < sequence'[a]
  BY <1>1, <1>2, MaxSequenceAssumption
<1>5. /\ \A m \in published : m.emitterAddress \in Emitters /\ m.sequence \in Nat
      /\ \A m \in sent : m.emitter \in Emitters /\ m.sequence \in Nat
  BY DEF TypeOK, Bodies, Messages, sent
<1>6. /\ new.emitterAddress = a
      /\ new.sequence = sequence[a]
      /\ new.emitterChain = ChainOf(a)
      /\ new.payload = w
  BY DEF Body
<1>7. \A m \in published' :
        /\ m.emitterChain = ChainOf(m.emitterAddress)
        /\ m.sequence < sequence'[m.emitterAddress]
  BY <1>1, <1>2, <1>4, <1>5, <1>6 DEF NetworkInv
<1>8. \A m \in published : ~(m.emitterAddress = a /\ m.sequence = sequence[a])
  BY <1>2, <1>5 DEF NetworkInv
<1>9. \A m1, m2 \in published' :
        m1.emitterAddress = m2.emitterAddress /\ m1.sequence = m2.sequence => m1 = m2
  BY <1>1, <1>6, <1>8 DEF NetworkInv
<1>10. \A m \in published' : m.payload.id = PAYLOAD_ID_MESSAGE =>
         /\ Carried(m) \in sent'
         /\ m.payload.length = m.payload.body.length
  <2>1. sent \subseteq sent'
    OBVIOUS
  <2>2. \A m \in published : m.payload.id = PAYLOAD_ID_MESSAGE =>
          /\ Carried(m) \in sent'
          /\ m.payload.length = m.payload.body.length
    BY <2>1 DEF NetworkInv
  <2>3. ASSUME new.payload.id = PAYLOAD_ID_MESSAGE
        PROVE  /\ Carried(new) \in sent'
               /\ new.payload.length = new.payload.body.length
    <3>1. PICK p \in Payloads :
            /\ p.length < MaxUint16
            /\ w = encodeMessage(p)
            /\ sent' = sent \cup {Message(a, sequence[a], p)}
      BY <1>6, <2>3
    <3>2. Carried(new) = Message(a, sequence[a], p)
      BY <1>6, <3>1, WireFacts DEF Carried, decodeMessage
    <3> QED
      BY <1>6, <3>1, <3>2, WireFacts
  <2> QED
    BY <1>1, <2>2, <2>3
<1>11. \A m \in sent' : m.sequence < sequence'[m.emitter]
  <2>1. \A m \in sent : m.sequence < sequence'[m.emitter]
    BY <1>2, <1>4, <1>5 DEF NetworkInv
  <2>2. \A p : Message(a, sequence[a], p).sequence < sequence'[a]
    BY <1>4 DEF Message
  <2> QED
    BY <2>1, <2>2 DEF Message
<1> QED
  BY <1>1, <1>3, <1>4, <1>7, <1>9, <1>10, <1>11 DEF NetworkInv, TypeOK

(* A step that publishes nothing and sends nothing keeps the network.       *)
LEMMA QuietKeepsNetwork ==
  ASSUME NetworkInv, UNCHANGED <<sequence, published, evmSent, solanaSent>>
  PROVE  NetworkInv'
BY DEF NetworkInv, sent, Carried, Message

-----------------------------------------------------------------------------
(* The EVM contracts' steps. *)
LEMMA SendMessageStep ==
  ASSUME IInv, NEW c \in EvmContracts, NEW p \in Payloads, NEW value \in Fees,
         sendMessage(c, p, value), UNCHANGED solanaVars
  PROVE  IInv'
<1> USE DEF IInv
<1> DEFINE m == Message(c, sequence[c], p)
<1>1. /\ Publish(c, encodeMessage(p))
      /\ p.length < MaxUint16
      /\ evmSent' = evmSent \cup {m}
      /\ UNCHANGED <<evmStorage, evmInbox>>
  BY DEF sendMessage
<1>2. UNCHANGED <<owner, foreignEmitter, messageAccounts, postedVaas,
                  receivedAccounts, closes, solanaSent, solanaInbox>>
  BY DEF solanaVars, solanaAccounts
<1>3. UNCHANGED <<registeredEmitters, consumedMessages, receivedMessages>>
  BY <1>1 DEF evmStorage
<1>4. sent' = sent \cup {m}
  BY <1>1, <1>2 DEF sent
<1>5. /\ c \in Emitters
      /\ encodeMessage(p) \in Wires
  BY WireFacts DEF Emitters
<1>6. /\ sequence' \in [Emitters -> Nat]
      /\ \A e \in Emitters : sequence'[e] <= MaxSequence[e]
      /\ published' \subseteq Bodies
      /\ UNCHANGED <<messageFee, vaas>>
      /\ vaas \subseteq published'
      /\ published \subseteq published'
      /\ NetworkInv'
  BY <1>1, <1>4, <1>5, PublishKeepsNetwork
<1>7. m \in Messages
  BY <1>5 DEF Message, Messages, TypeOK
<1>8. TypeOK'
  BY <1>1, <1>2, <1>3, <1>6, <1>7 DEF TypeOK
<1>9. EvmInboxInv'
  BY <1>1, <1>3 DEF EvmInboxInv, Carried
<1> QED
  BY <1>6, <1>8, <1>9

(* receiveMessage adds to the inbox exactly the hash it consumes.          *)
LEMMA ReceiveMessageStep ==
  ASSUME IInv, NEW c \in EvmContracts, NEW vm \in vaas,
         receiveMessage(c, vm), UNCHANGED solanaVars
  PROVE  IInv'
<1> USE DEF IInv
<1> DEFINE p == decodeMessage(vm.payload)
<1>1. /\ vm.payload.id = PAYLOAD_ID_MESSAGE
      /\ consumedMessages' = [consumedMessages EXCEPT ![c] = @ \cup {vm}]
      /\ receivedMessages' = [receivedMessages EXCEPT ![c] =
           [h \in DOMAIN receivedMessages[c] \cup {vm} |->
              IF h = vm THEN p ELSE receivedMessages[c][h]]]
      /\ evmInbox' = [evmInbox EXCEPT ![c] = Append(@, Carried(vm))]
      /\ UNCHANGED <<registeredEmitters, evmSent, messageFee, sequence, published, vaas>>
  BY DEF receiveMessage, consumeMessage, Decodable, coreVars, Carried
<1>2. UNCHANGED <<owner, foreignEmitter, messageAccounts, postedVaas,
                  receivedAccounts, closes, solanaSent, solanaInbox>>
  BY DEF solanaVars, solanaAccounts
<1>3. NetworkInv'
  BY <1>1, <1>2, QuietKeepsNetwork
<1>4. vm \in Bodies /\ vm \in published
  BY DEF TypeOK
<1>5. p \in Payloads /\ Carried(vm) \in Messages
  <2>1. p \in Payloads
    BY <1>1, <1>4, CarriedPayload
  <2> QED
    BY <1>4, <2>1 DEF Carried, Message, Messages, Bodies
<1>6. TypeOK'
  <2>1. consumedMessages' \in [EvmContracts -> SUBSET vaas']
    BY <1>1 DEF TypeOK
  <2>2. evmInbox' \in [EvmContracts -> Seq(Messages)]
    BY <1>1, <1>5 DEF TypeOK
  <2>3. \A d \in EvmContracts : receivedMessages'[d] \in [consumedMessages'[d] -> Payloads]
    BY <1>1, <1>5 DEF TypeOK
  <2>4. /\ DOMAIN receivedMessages' = EvmContracts
        /\ receivedMessages' = [d \in EvmContracts |-> receivedMessages'[d]]
    BY <1>1 DEF TypeOK
  <2> QED
    BY <1>1, <1>2, <2>1, <2>2, <2>3, <2>4 DEF TypeOK
<1>7. EvmInboxInv'
  <2> SUFFICES ASSUME NEW d \in EvmContracts
               PROVE  /\ \A h \in consumedMessages'[d] : h.payload.id = PAYLOAD_ID_MESSAGE
                      /\ \A i \in DOMAIN evmInbox'[d] :
                           \E h \in consumedMessages'[d] : evmInbox'[d][i] = Carried(h)
    BY DEF EvmInboxInv, Carried
  <2>1. CASE d # c
    BY <1>1, <2>1 DEF EvmInboxInv, TypeOK
  <2>2. CASE d = c
    <3>1. consumedMessages'[c] = consumedMessages[c] \cup {vm}
      BY <1>1 DEF TypeOK
    <3>2. evmInbox[c] \in Seq(Messages) /\ evmInbox'[c] = Append(evmInbox[c], Carried(vm))
      BY <1>1 DEF TypeOK
    <3>3. \A i \in DOMAIN evmInbox'[c] :
            \/ i \in DOMAIN evmInbox[c] /\ evmInbox'[c][i] = evmInbox[c][i]
            \/ evmInbox'[c][i] = Carried(vm)
      BY <1>5, <3>2
    <3> QED
      BY <1>1, <2>2, <3>1, <3>3 DEF EvmInboxInv
  <2> QED
    BY <2>1, <2>2
<1> QED
  BY <1>3, <1>6, <1>7

(* registerEmitter changes a registry and no message.                      *)
LEMMA RegisterEmitterStep ==
  ASSUME IInv, NEW c \in EvmContracts, NEW u \in Users, NEW ch \in Chains,
         NEW a \in Candidates, registerEmitter(c, u, ch, a), UNCHANGED solanaVars
  PROVE  IInv'
<1> USE DEF IInv
<1>1. /\ registeredEmitters' = [registeredEmitters EXCEPT ![c][ch] = a]
      /\ UNCHANGED <<consumedMessages, receivedMessages, evmSent, evmInbox,
                     messageFee, sequence, published, vaas>>
  BY DEF registerEmitter, coreVars
<1>2. UNCHANGED <<owner, foreignEmitter, messageAccounts, postedVaas,
                  receivedAccounts, closes, solanaSent, solanaInbox>>
  BY DEF solanaVars, solanaAccounts
<1>3. NetworkInv'
  BY <1>1, <1>2, QuietKeepsNetwork
<1>4. registeredEmitters' \in [EvmContracts -> [Chains -> Emitters \cup {NoEmitter}]]
  BY <1>1, CandidatesAssumption DEF TypeOK
<1> QED
  BY <1>1, <1>2, <1>3, <1>4 DEF TypeOK, EvmInboxInv, Carried

-----------------------------------------------------------------------------
(* The Solana program's steps.  post_message is shared by two of them.      *)
LEMMA PostMessageKeepsTypes ==
  ASSUME IInv, NEW seed, NEW w \in Wires, post_message(seed, w),
         \/ /\ w.id # PAYLOAD_ID_MESSAGE
            /\ sent' = sent
         \/ \E p \in Payloads :
              /\ p.length < MaxUint16
              /\ w = encodeMessage(p)
              /\ sent' = sent \cup {Message(SolanaEmitter, sequence[SolanaEmitter], p)}
  PROVE  /\ sequence' \in [Emitters -> Nat]
         /\ \A e \in Emitters : sequence'[e] <= MaxSequence[e]
         /\ published' \subseteq Bodies
         /\ UNCHANGED <<messageFee, vaas>>
         /\ vaas \subseteq published'
         /\ messageAccounts' \in [DOMAIN messageAccounts' -> published']
         /\ NetworkInv'
<1> USE DEF IInv
<1>1. /\ Publish(SolanaEmitter, w)
      /\ messageAccounts' = [s \in DOMAIN messageAccounts \cup {seed} |->
           IF s = seed THEN Body(SolanaEmitter, sequence[SolanaEmitter], w)
                       ELSE messageAccounts[s]]
  BY DEF post_message
<1>2. SolanaEmitter \in Emitters
  BY DEF Emitters
<1>3. /\ sequence' \in [Emitters -> Nat]
      /\ \A e \in Emitters : sequence'[e] <= MaxSequence[e]
      /\ published' \subseteq Bodies
      /\ UNCHANGED <<messageFee, vaas>>
      /\ vaas \subseteq published'
      /\ published \subseteq published'
      /\ Body(SolanaEmitter, sequence[SolanaEmitter], w) \in published'
      /\ NetworkInv'
  BY <1>1, <1>2, PublishKeepsNetwork
<1> QED
  BY <1>1, <1>3 DEF TypeOK

(* initialize publishes the program's Alive message.                       *)
LEMMA InitializeStep ==
  ASSUME IInv, NEW u \in Users, initialize(u), UNCHANGED evmVars
  PROVE  IInv'
<1>1. /\ owner' = u
      /\ post_message(INITIAL_SEQUENCE, AliveMessage)
      /\ UNCHANGED <<foreignEmitter, receivedAccounts, closes, postedVaas,
                     solanaSent, solanaInbox, registeredEmitters, consumedMessages,
                     receivedMessages, evmSent, evmInbox>>
  BY DEF initialize, evmVars, evmStorage
<1>2. AliveMessage \in Wires /\ AliveMessage.id # PAYLOAD_ID_MESSAGE
  BY DEF Wires, AliveMessage, Wire, PAYLOAD_ID_ALIVE, PAYLOAD_ID_MESSAGE
<1>3. sent' = sent
  BY <1>1 DEF sent
<1>4. /\ sequence' \in [Emitters -> Nat]
      /\ \A e \in Emitters : sequence'[e] <= MaxSequence[e]
      /\ published' \subseteq Bodies
      /\ UNCHANGED <<messageFee, vaas>>
      /\ vaas \subseteq published'
      /\ messageAccounts' \in [DOMAIN messageAccounts' -> published']
      /\ NetworkInv'
  BY <1>1, <1>2, <1>3, PostMessageKeepsTypes
<1> QED
  BY <1>1, <1>4 DEF IInv, TypeOK, EvmInboxInv, Carried

(* send_message publishes one message under the next number.               *)
LEMMA SolanaSendStep ==
  ASSUME IInv, NEW seed, NEW p \in Payloads, send_message(seed, p), UNCHANGED evmVars
  PROVE  IInv'
<1> DEFINE m == Message(SolanaEmitter, sequence[SolanaEmitter], p)
<1>1. /\ p.length <= MESSAGE_MAX_LENGTH
      /\ post_message(seed, serialize(p))
      /\ solanaSent' = solanaSent \cup {m}
      /\ UNCHANGED <<owner, foreignEmitter, receivedAccounts, closes, postedVaas,
                     solanaInbox, registeredEmitters, consumedMessages,
                     receivedMessages, evmSent, evmInbox>>
  BY DEF send_message, Serializable, evmVars, evmStorage
<1>2. /\ serialize(p) = encodeMessage(p)
      /\ encodeMessage(p) \in Wires
      /\ p.length < MaxUint16
  BY <1>1, WireFacts DEF MESSAGE_MAX_LENGTH, MaxUint16
<1>3. sent' = sent \cup {m}
  BY <1>1 DEF sent
<1>4. /\ sequence' \in [Emitters -> Nat]
      /\ \A e \in Emitters : sequence'[e] <= MaxSequence[e]
      /\ published' \subseteq Bodies
      /\ UNCHANGED <<messageFee, vaas>>
      /\ vaas \subseteq published'
      /\ messageAccounts' \in [DOMAIN messageAccounts' -> published']
      /\ NetworkInv'
  BY <1>1, <1>2, <1>3, PostMessageKeepsTypes
<1>5. m \in Messages
  BY DEF Message, Messages, IInv, TypeOK, Emitters
<1> QED
  BY <1>1, <1>4, <1>5 DEF IInv, TypeOK, EvmInboxInv, Carried

(* receive_message creates one account and publishes nothing.              *)
LEMMA SolanaReceiveStep ==
  ASSUME IInv, NEW v \in postedVaas, receive_message(v), UNCHANGED evmVars
  PROVE  IInv'
<1> USE DEF IInv
<1> DEFINE p == deserialize(v.payload)
           seed == ReceivedSeed(v)
<1>1. /\ v.payload.id = PAYLOAD_ID_MESSAGE
      /\ receivedAccounts' = [s \in DOMAIN receivedAccounts \cup {seed} |->
           IF s = seed THEN [hash |-> v, payload |-> p] ELSE receivedAccounts[s]]
      /\ solanaInbox' = Append(solanaInbox, Message(v.emitterAddress, v.sequence, p))
      /\ UNCHANGED <<owner, foreignEmitter, messageAccounts, closes, postedVaas, solanaSent,
                     messageFee, sequence, published, vaas, registeredEmitters, consumedMessages,
                     receivedMessages, evmSent, evmInbox>>
  BY DEF receive_message, Deserializable, coreVars, evmVars, evmStorage
<1>2. NetworkInv'
  BY <1>1, QuietKeepsNetwork
<1>3. v \in Bodies /\ v \in published
  BY DEF TypeOK
<1>4. p \in Payloads
  BY <1>1, <1>3, CarriedPayload DEF NetworkInv
<1>5. seed \in ReceivedSeeds
  <2>1. /\ v.emitterAddress \in Emitters
        /\ v.emitterChain = ChainOf(v.emitterAddress)
        /\ v.sequence \in Nat
        /\ v.sequence < sequence[v.emitterAddress]
    BY <1>3 DEF Bodies, NetworkInv
  <2>2. v.sequence \in 0 .. MaxSequence[v.emitterAddress] - 1
    BY <2>1, MaxSequenceAssumption DEF TypeOK
  <2> QED
    BY <2>1, <2>2 DEF ReceivedSeeds, ReceivedSeed
<1>6. Message(v.emitterAddress, v.sequence, p) \in Messages
  BY <1>3, <1>4 DEF Message, Messages, Bodies
<1>7. /\ DOMAIN receivedAccounts' \subseteq ReceivedSeeds
      /\ receivedAccounts' \in
           [DOMAIN receivedAccounts' -> [hash : postedVaas', payload : Payloads]]
  BY <1>1, <1>4, <1>5 DEF TypeOK
<1>8. solanaInbox' \in Seq(Messages)
  BY <1>1, <1>6 DEF TypeOK
<1> QED
  BY <1>1, <1>2, <1>7, <1>8 DEF TypeOK, EvmInboxInv, Carried

(* Registering, posting and closing on Solana touch no message.            *)
LEMMA SolanaOtherStep ==
  ASSUME IInv,
         \/ \E u \in Users, ch \in Chains, a \in Candidates : register_emitter(u, ch, a)
         \/ \E v \in vaas : post_vaa(v)
         \/ \E u \in Users, seed \in ReceivedSeeds : close_received(u, seed),
         UNCHANGED evmVars
  PROVE  IInv'
<1> USE DEF IInv
<1>1. UNCHANGED <<owner, messageAccounts, solanaSent, solanaInbox, messageFee, sequence, published, vaas,
                  registeredEmitters, consumedMessages, receivedMessages, evmSent, evmInbox>>
  BY DEF register_emitter, post_vaa, close_received, coreVars, solanaAccounts,
         evmVars, evmStorage
<1>2. NetworkInv' /\ EvmInboxInv'
  BY <1>1, QuietKeepsNetwork DEF EvmInboxInv, Carried
<1>3. CASE \E u \in Users, ch \in Chains, a \in Candidates : register_emitter(u, ch, a)
  <2>1. PICK ch \in Chains, a \in Candidates :
          /\ foreignEmitter' = [foreignEmitter EXCEPT ![ch] = a]
          /\ UNCHANGED <<receivedAccounts, closes, postedVaas>>
    BY <1>3 DEF register_emitter
  <2> QED
    BY <1>1, <1>2, <2>1, CandidatesAssumption DEF TypeOK
<1>4. CASE \E v \in vaas : post_vaa(v)
  <2>1. PICK v \in vaas :
          /\ postedVaas' = postedVaas \cup {v}
          /\ UNCHANGED <<foreignEmitter, receivedAccounts, closes>>
    BY <1>4 DEF post_vaa, solanaAccounts
  <2> QED
    BY <1>1, <1>2, <2>1 DEF TypeOK
<1>5. CASE \E u \in Users, seed \in ReceivedSeeds : close_received(u, seed)
  <2>1. PICK seed \in ReceivedSeeds :
          /\ closes[seed] < MaxCloses
          /\ receivedAccounts' = Restrict(receivedAccounts, DOMAIN receivedAccounts \ {seed})
          /\ closes' = [closes EXCEPT ![seed] = @ + 1]
          /\ UNCHANGED <<foreignEmitter, postedVaas>>
    BY <1>5 DEF close_received
  <2>2. closes' \in [ReceivedSeeds -> 0 .. MaxCloses]
    BY <2>1, MaxClosesAssumption DEF TypeOK
  <2>3. /\ DOMAIN receivedAccounts' \subseteq ReceivedSeeds
        /\ receivedAccounts' \in
             [DOMAIN receivedAccounts' -> [hash : postedVaas', payload : Payloads]]
    BY <2>1 DEF Restrict, TypeOK
  <2> QED
    BY <1>1, <1>2, <2>1, <2>2, <2>3 DEF TypeOK
<1> QED
  BY <1>3, <1>4, <1>5

(* A signature adds to the VAAs what was published already.                *)
LEMMA GuardianKeepsIInv ==
  ASSUME IInv, GuardianStep
  PROVE  IInv'
<1>1. /\ vaas \subseteq vaas'
      /\ vaas' \subseteq published
      /\ messageFee' \in Fees
      /\ UNCHANGED <<sequence, published, registeredEmitters, consumedMessages,
                     receivedMessages, evmSent, evmInbox, owner, foreignEmitter,
                     messageAccounts, postedVaas, receivedAccounts, closes,
                     solanaSent, solanaInbox>>
  BY DEF GuardianStep, Sign, SetMessageFee, evmVars, evmStorage, solanaVars, solanaAccounts, IInv, TypeOK
<1>2. NetworkInv'
  BY <1>1, QuietKeepsNetwork DEF IInv
<1>3. consumedMessages' \in [EvmContracts -> SUBSET vaas']
  BY <1>1 DEF IInv, TypeOK
<1> QED
  BY <1>1, <1>2, <1>3 DEF IInv, TypeOK, EvmInboxInv, Carried

-----------------------------------------------------------------------------
(* IInv is inductive.                                                      *)
LEMMA NextKeepsIInv == IInv /\ [Next]_vars => IInv'
<1> SUFFICES ASSUME IInv, [Next]_vars
             PROVE  IInv'
  OBVIOUS
<1>1. CASE EvmStep
  BY <1>1, SendMessageStep, ReceiveMessageStep, RegisterEmitterStep DEF EvmStep
<1>2. CASE SolanaStep
  BY <1>2, InitializeStep, SolanaSendStep, SolanaReceiveStep, SolanaOtherStep DEF SolanaStep
<1>3. CASE GuardianStep
  BY <1>3, GuardianKeepsIInv
<1>4. CASE UNCHANGED vars
  BY <1>4 DEF IInv, TypeOK, NetworkInv, EvmInboxInv, Carried, sent, Message, vars, coreVars,
              evmVars, evmStorage, solanaVars, solanaAccounts
<1> QED
  BY <1>1, <1>2, <1>3, <1>4 DEF Next

(* The inductive invariant holds in every reachable state.                  *)
THEOREM SafetyInvariant == Spec => []IInv
BY InitIInv, NextKeepsIInv, PTL DEF Spec

(* Every variable of the two programs and of the network keeps its type.    *)
THEOREM TypeCorrect == Spec => []TypeOK
<1>1. IInv => TypeOK
  BY DEF IInv
<1> QED
  BY <1>1, SafetyInvariant, PTL

(* A sequence number names one message and no content is lost or mixed on   *)
(* the network.                                                             *)
THEOREM NetworkIntegrity == Spec => []NetworkInv
<1>1. IInv => NetworkInv
  BY DEF IInv
<1> QED
  BY <1>1, SafetyInvariant, PTL

-----------------------------------------------------------------------------
(* Refinement.  A step that sends is a Send of the channel, because the     *)
(* number it uses has never been used.                                      *)
LEMMA SendIsSend ==
  ASSUME IInv, NEW a \in Emitters, NEW p,
         sent' = sent \cup {Message(a, sequence[a], p)}
  PROVE  \E m \in sent' : /\ sent' = sent \cup {m}
                         /\ \A m2 \in sent : ~EvmChannel!SameSlot(m, m2)
<1> DEFINE m == Message(a, sequence[a], p)
<1>1. m.emitter = a /\ m.sequence = sequence[a]
  BY DEF Message
<1>2. \A m2 \in sent : m2.sequence < sequence[m2.emitter] /\ m2.sequence \in Nat
  BY DEF IInv, NetworkInv, TypeOK, Messages, sent
<1>3. sequence[a] \in Nat
  BY DEF IInv, TypeOK
<1>4. \A m2 \in sent : ~EvmChannel!SameSlot(m, m2)
  BY <1>1, <1>2, <1>3 DEF EvmChannel!SameSlot
<1> QED
  BY <1>4

(* The sends of the two programs, seen together.                            *)
LEMMA NextSends ==
  ASSUME IInv, Next, sent' # sent
  PROVE  /\ \E a \in Emitters, p \in Payloads : sent' = sent \cup {Message(a, sequence[a], p)}
         /\ UNCHANGED <<registeredEmitters, evmInbox, foreignEmitter, solanaInbox>>
<1>1. CASE EvmStep
  <2>1. PICK c \in EvmContracts, p \in Payloads, value \in Fees : sendMessage(c, p, value)
    BY <1>1 DEF EvmStep, receiveMessage, registerEmitter, sent, solanaVars
  <2> QED
    BY <1>1, <2>1 DEF EvmStep, sendMessage, evmStorage, sent, solanaVars, solanaAccounts, Emitters
<1>2. CASE SolanaStep
  <2>1. PICK seed \in 1 .. MaxSequence[SolanaEmitter], p \in Payloads : send_message(seed, p)
    BY <1>2 DEF SolanaStep, initialize, register_emitter, post_vaa, receive_message,
                close_received, sent, evmVars
  <2> QED
    BY <1>2, <2>1 DEF SolanaStep, send_message, sent, evmVars, evmStorage, Emitters
<1>3. CASE GuardianStep
  BY <1>3 DEF GuardianStep, Sign, SetMessageFee, sent, evmVars, solanaVars
<1> QED
  BY <1>1, <1>2, <1>3 DEF Next

(* A body that was published by a trusted emitter carries a sent message.   *)
LEMMA DeliverableWasSent ==
  ASSUME IInv, NEW m \in published, m.payload.id = PAYLOAD_ID_MESSAGE
  PROVE  /\ Carried(m) \in sent
         /\ Carried(m) = Message(m.emitterAddress, m.sequence, deserialize(m.payload))
         /\ Carried(m).emitter = m.emitterAddress
         /\ m.emitterChain = ChainOf(m.emitterAddress)
         /\ m.emitterAddress \in Emitters
BY CarriedPayload DEF IInv, NetworkInv, TypeOK, Carried, Message, Bodies

(* What receiveMessage accepts was sent, is trusted, was not taken before. *)
LEMMA EvmDeliverIsDeliver ==
  ASSUME IInv, NEW c \in EvmContracts, NEW vm \in vaas, receiveMessage(c, vm),
         sent' = sent
  PROVE  EvmChannel!Deliver(c, Carried(vm)) /\ Carried(vm) \in sent
<1>1. /\ registeredEmitters[c][vm.emitterChain] = vm.emitterAddress
      /\ vm \notin consumedMessages[c]
      /\ vm.payload.id = PAYLOAD_ID_MESSAGE
      /\ evmInbox' = [evmInbox EXCEPT ![c] = Append(@, Carried(vm))]
      /\ UNCHANGED registeredEmitters
  BY DEF receiveMessage, verifyEmitter, isMessageConsumed, Decodable, Carried
<1>2. vm \in published
  BY DEF IInv, TypeOK
<1>3. Carried(vm).emitter \in TrustedBy(registeredEmitters[c])
  BY <1>1, <1>2, DeliverableWasSent DEF TrustedBy
<1>4. Carried(vm) \notin {evmInbox[c][i] : i \in DOMAIN evmInbox[c]}
  <2> SUFFICES ASSUME NEW i \in DOMAIN evmInbox[c], evmInbox[c][i] = Carried(vm)
               PROVE  FALSE
    OBVIOUS
  <2>1. PICK h \in consumedMessages[c] : Carried(h) = Carried(vm)
    BY DEF IInv, EvmInboxInv
  <2>2. h \in published
    BY DEF IInv, TypeOK
  <2>3. h.emitterAddress = vm.emitterAddress /\ h.sequence = vm.sequence
    BY <2>1 DEF Carried, Message
  <2> QED
    BY <1>1, <1>2, <2>2, <2>3 DEF IInv, NetworkInv
<1>5. Carried(vm) \in sent
  BY <1>1, <1>2, DeliverableWasSent
<1> QED
  BY <1>1, <1>3, <1>4, <1>5 DEF EvmChannel!Deliver, EvmChannel!Taken

(* Every step of an EVM contract is one of its channel, or a stutter.      *)
LEMMA EvmStepRefines ==
  IInv /\ [Next]_vars => [EvmChannel!Next]_(EvmChannel!vars)
<1> SUFFICES ASSUME IInv, [Next]_vars
             PROVE  EvmChannel!Next \/ UNCHANGED EvmChannel!vars
  BY DEF EvmChannel!Next
<1>1. CASE Next /\ sent' # sent
  <2>1. /\ \E m \in sent' : /\ sent' = sent \cup {m}
                           /\ \A m2 \in sent : ~EvmChannel!SameSlot(m, m2)
        /\ UNCHANGED <<registeredEmitters, evmInbox>>
    BY <1>1, NextSends, SendIsSend
  <2> QED
    BY <2>1 DEF EvmChannel!Next, EvmChannel!Send
<1>2. CASE Next /\ sent' = sent
  <2>1. CASE EvmStep
    <3>1. CASE \E c \in EvmContracts, p \in Payloads, value \in Fees : sendMessage(c, p, value)
      BY <1>2, <3>1 DEF sendMessage, evmStorage, EvmChannel!vars
    <3>2. ASSUME NEW c \in EvmContracts, NEW vm \in vaas, receiveMessage(c, vm)
          PROVE  EvmChannel!Next
      <4>1. EvmChannel!Deliver(c, Carried(vm)) /\ Carried(vm) \in sent
        BY <1>2, <3>2, EvmDeliverIsDeliver
      <4> QED
        BY <4>1 DEF EvmChannel!Next
    <3>3. ASSUME NEW c \in EvmContracts, NEW u \in Users, NEW ch \in Chains,
                 NEW a \in Candidates, registerEmitter(c, u, ch, a)
          PROVE  EvmChannel!Next
      <4>1. /\ registeredEmitters' = [registeredEmitters EXCEPT ![c][ch] = a]
            /\ evmInbox' = evmInbox
        BY <3>3 DEF registerEmitter
      <4>2. \A d \in EvmContracts : d # c => registeredEmitters'[d] = registeredEmitters[d]
        BY <4>1 DEF IInv, TypeOK
      <4>3. EvmChannel!Trust(c)
        BY <1>2, <4>1, <4>2 DEF EvmChannel!Trust, TrustedBy
      <4> QED
        BY <4>3 DEF EvmChannel!Next
    <3> QED
      BY <2>1, <3>1, <3>2, <3>3 DEF EvmStep
  <2>2. CASE SolanaStep \/ GuardianStep
    BY <1>2, <2>2 DEF SolanaStep, GuardianStep, evmVars, evmStorage, EvmChannel!vars
  <2> QED
    BY <1>2, <2>1, <2>2 DEF Next
<1>3. CASE UNCHANGED vars
  BY <1>3 DEF vars, evmVars, evmStorage, solanaVars, sent, EvmChannel!vars
<1> QED
  BY <1>1, <1>2, <1>3

(* Every EVM contract, for any number of contracts, messages and            *)
(* registrations, is an at-most-once receiver of what was sent to it.       *)
THEOREM EvmRefinement == Spec => EvmImplementsChannel
<1>1. Init => EvmChannel!Init
  BY EmittersAssumption
     DEF Init, CoreInit, EvmInit, SolanaInit, EvmChannel!Init, sent, TrustedBy, ChainOf,
         Chains, Emitters
<1> QED
  BY <1>1, SafetyInvariant, EvmStepRefines, PTL
     DEF Spec, EvmImplementsChannel, EvmChannel!Spec

(* No two places of a contract's inbox hold the same number of a sender.   *)
EvmReceivesOnce ==
  \A c \in EvmContracts : \A i, j \in DOMAIN evmInbox[c] :
    /\ evmInbox[c][i].emitter = evmInbox[c][j].emitter
    /\ evmInbox[c][i].sequence = evmInbox[c][j].sequence
    => i = j

(* A contract takes each number of the Solana program at most once, for    *)
(* ever: signed again, presented again, by anyone, after the emitter was   *)
(* replaced and put back.  Unlike Solana it keeps no record it can delete. *)
THEOREM EvmAtMostOnce == Spec => []EvmReceivesOnce
<1>1. Init => EvmReceivesOnce
  BY DEF Init, EvmInit, EvmReceivesOnce
<1>2. ASSUME IInv, EvmReceivesOnce, [Next]_vars
      PROVE  EvmReceivesOnce'
  <2>1. ASSUME NEW c \in EvmContracts, NEW vm \in vaas, receiveMessage(c, vm)
        PROVE  EvmReceivesOnce'
    <3>1. /\ vm.payload.id = PAYLOAD_ID_MESSAGE /\ vm \notin consumedMessages[c]
          /\ evmInbox' = [evmInbox EXCEPT ![c] = Append(@, Carried(vm))]
      BY <2>1 DEF receiveMessage, isMessageConsumed, Decodable, Carried
    <3>2. ASSUME NEW i \in DOMAIN evmInbox[c],
                 evmInbox[c][i].emitter = Carried(vm).emitter,
                 evmInbox[c][i].sequence = Carried(vm).sequence
          PROVE  FALSE
      <4>1. PICK h \in consumedMessages[c] : evmInbox[c][i] = Carried(h)
        BY <1>2 DEF IInv, EvmInboxInv
      <4>2. h \in published /\ vm \in published
        BY <1>2 DEF IInv, TypeOK
      <4>3. h.emitterAddress = vm.emitterAddress /\ h.sequence = vm.sequence
        BY <3>2, <4>1 DEF Carried, Message
      <4> QED
        BY <1>2, <3>1, <4>2, <4>3 DEF IInv, NetworkInv
    <3>3. evmInbox \in [EvmContracts -> Seq(Messages)]
      BY <1>2 DEF IInv, TypeOK
    <3>4. /\ evmInbox'[c] = Append(evmInbox[c], Carried(vm))
          /\ \A d \in EvmContracts : d # c => evmInbox'[d] = evmInbox[d]
      BY <3>1, <3>3
    <3>5. \A k \in DOMAIN evmInbox'[c] :
            \/ k \in DOMAIN evmInbox[c] /\ evmInbox'[c][k] = evmInbox[c][k]
            \/ k = Len(evmInbox[c]) + 1 /\ evmInbox'[c][k] = Carried(vm)
      BY <3>3, <3>4
    <3>6. ASSUME NEW i \in DOMAIN evmInbox'[c], NEW j \in DOMAIN evmInbox'[c],
                 evmInbox'[c][i].emitter = evmInbox'[c][j].emitter,
                 evmInbox'[c][i].sequence = evmInbox'[c][j].sequence
          PROVE  i = j
      <4>1. CASE i \in DOMAIN evmInbox[c] /\ j \in DOMAIN evmInbox[c]
        <5>1. evmInbox'[c][i] = evmInbox[c][i] /\ evmInbox'[c][j] = evmInbox[c][j]
          BY <3>3, <3>4, <4>1
        <5> QED
          BY <1>2, <3>6, <4>1, <5>1, Zenon DEF EvmReceivesOnce
      <4>2. CASE i \notin DOMAIN evmInbox[c] \/ j \notin DOMAIN evmInbox[c]
        BY <3>2, <3>5, <3>6, <4>2
      <4> QED
        BY <4>1, <4>2
    <3>7. \A d \in EvmContracts : d # c => evmInbox'[d] = evmInbox[d]
      BY <3>4
    <3>8. ASSUME NEW d \in EvmContracts, NEW i \in DOMAIN evmInbox'[d], NEW j \in DOMAIN evmInbox'[d],
                 evmInbox'[d][i].emitter = evmInbox'[d][j].emitter,
                 evmInbox'[d][i].sequence = evmInbox'[d][j].sequence
          PROVE  i = j
      <4>1. CASE d = c
        BY <3>6, <3>8, <4>1, Zenon
      <4>2. CASE d # c
        BY <1>2, <3>7, <3>8, <4>2, Zenon DEF EvmReceivesOnce
      <4> QED
        BY <4>1, <4>2
    <3> QED
      BY <3>8, Zenon DEF EvmReceivesOnce
  <2>2. CASE UNCHANGED evmInbox
    BY <1>2, <2>2 DEF EvmReceivesOnce
  <2>3. (\E c \in EvmContracts : \E vm \in vaas : receiveMessage(c, vm)) \/ UNCHANGED evmInbox
    BY <1>2 DEF Next, EvmStep, SolanaStep, GuardianStep, sendMessage, registerEmitter, vars,
                evmVars, evmStorage
  <2> QED
    BY <2>1, <2>2, <2>3
<1> QED
  BY <1>1, <1>2, SafetyInvariant, PTL DEF Spec

-----------------------------------------------------------------------------
(* The same for the Solana program.  What a deployment never closes, its    *)
(* Received accounts remember.                                              *)
LEMMA NextKeepsSolanaInbox == IInv /\ SolanaInboxInv /\ [Next]_vars => SolanaInboxInv'
<1> SUFFICES ASSUME IInv, SolanaInboxInv, [Next]_vars
             PROVE  SolanaInboxInv'
  OBVIOUS
<1> DEFINE Seed(m) == <<ChainOf(m.emitter), m.sequence>>
<1> USE DEF IInv
<1>1. ASSUME NEW v \in postedVaas, receive_message(v)
      PROVE  SolanaInboxInv'
  <2>1. /\ DOMAIN receivedAccounts' = DOMAIN receivedAccounts \cup {ReceivedSeed(v)}
        /\ solanaInbox' = Append(solanaInbox, Carried(v))
        /\ closes' = closes
    <3>1. v \in published /\ v.payload.id = PAYLOAD_ID_MESSAGE
      BY <1>1 DEF receive_message, Deserializable, TypeOK
    <3> QED
      BY <1>1, <3>1, DeliverableWasSent DEF receive_message
  <2>2. Seed(Carried(v)) = ReceivedSeed(v)
    <3>1. v \in published
      BY DEF TypeOK
    <3> QED
      BY <3>1 DEF ReceivedSeed, Carried, Message, NetworkInv
  <2>3. solanaInbox \in Seq(Messages)
    BY DEF TypeOK
  <2>4. \A i \in DOMAIN solanaInbox' :
          \/ i \in DOMAIN solanaInbox /\ solanaInbox'[i] = solanaInbox[i]
          \/ solanaInbox'[i] = Carried(v)
    BY <2>1, <2>3
  <2>5. ASSUME NEW i \in DOMAIN solanaInbox', closes[Seed(solanaInbox'[i])] = 0
        PROVE  Seed(solanaInbox'[i]) \in DOMAIN receivedAccounts'
    BY <2>1, <2>2, <2>4, <2>5 DEF SolanaInboxInv
  <2> QED
    BY <2>1, <2>5 DEF SolanaInboxInv
<1>2. ASSUME NEW u \in Users, NEW seed \in ReceivedSeeds, close_received(u, seed)
      PROVE  SolanaInboxInv'
  <2>1. /\ DOMAIN receivedAccounts' = DOMAIN receivedAccounts \ {seed}
        /\ closes' = [closes EXCEPT ![seed] = @ + 1]
        /\ solanaInbox' = solanaInbox
    BY <1>2 DEF close_received, Restrict
  <2>2. closes'[seed] # 0
    BY <2>1, MaxClosesAssumption DEF TypeOK
  <2>3. \A s : s # seed => closes'[s] = closes[s]
    BY <2>1 DEF TypeOK
  <2> QED
    BY <2>1, <2>2, <2>3 DEF SolanaInboxInv
<1>3. CASE EvmStep \/ GuardianStep
  BY <1>3 DEF EvmStep, GuardianStep, solanaVars, solanaAccounts, SolanaInboxInv
<1>4. CASE SolanaStep
  <2>1. CASE \/ \E u \in Users : initialize(u)
             \/ \E u \in Users, ch \in Chains, a \in Candidates : register_emitter(u, ch, a)
             \/ \E seed \in 1 .. MaxSequence[SolanaEmitter], p \in Payloads :
                  send_message(seed, p)
             \/ \E v \in vaas : post_vaa(v)
    <3>1. UNCHANGED <<receivedAccounts, closes, solanaInbox>>
      BY <2>1 DEF initialize, register_emitter, send_message, post_vaa, solanaAccounts
    <3> QED
      BY <3>1 DEF SolanaInboxInv
  <2> QED
    BY <1>1, <1>2, <1>4, <2>1 DEF SolanaStep
<1>5. CASE UNCHANGED vars
  BY <1>5 DEF vars, solanaVars, solanaAccounts, SolanaInboxInv
<1> QED
  BY <1>3, <1>4, <1>5 DEF Next

(* A number the program received and whose account was never closed still  *)
(* has its Received account: what stops receive_message from taking it     *)
(* again is forgotten by close_received only.                              *)
THEOREM SolanaInboxRemembered == Spec => []SolanaInboxInv
<1>1. Init => SolanaInboxInv
  BY DEF Init, SolanaInit, SolanaInboxInv
<1> QED
  BY <1>1, SafetyInvariant, NextKeepsSolanaInbox, PTL DEF Spec

(* With nothing closed, Solana takes steps of its channel, or stutters.    *)
LEMMA SolanaStepRefines ==
  ASSUME MaxCloses = 0
  PROVE  IInv /\ SolanaInboxInv /\ [Next]_vars => [SolanaChannel!Next]_(SolanaChannel!vars)
<1> SUFFICES ASSUME IInv, SolanaInboxInv, [Next]_vars
             PROVE  SolanaChannel!Next \/ UNCHANGED SolanaChannel!vars
  BY DEF SolanaChannel!Next
<1>1. CASE Next /\ sent' # sent
  <2>1. /\ \E m \in sent' : /\ sent' = sent \cup {m}
                           /\ \A m2 \in sent : ~EvmChannel!SameSlot(m, m2)
        /\ UNCHANGED <<foreignEmitter, solanaInbox>>
    BY <1>1, NextSends, SendIsSend
  <2> QED
    BY <2>1 DEF SolanaChannel!Next, SolanaChannel!Send, SolanaChannel!SameSlot,
                EvmChannel!SameSlot
<1>2. CASE Next /\ sent' = sent
  <2>1. ASSUME NEW v \in postedVaas, receive_message(v)
        PROVE  SolanaChannel!Next
    <3>1. /\ foreignEmitter[v.emitterChain] = v.emitterAddress
          /\ ReceivedSeed(v) \notin DOMAIN receivedAccounts
          /\ v.payload.id = PAYLOAD_ID_MESSAGE
          /\ v \in published
          /\ UNCHANGED foreignEmitter
      BY <2>1 DEF receive_message, ReceiveMessageAccounts, verify, Deserializable, IInv, TypeOK
    <3>2. solanaInbox' = Append(solanaInbox, Carried(v))
      BY <2>1, <3>1, DeliverableWasSent DEF receive_message
    <3>3. Carried(v).emitter \in TrustedBy(foreignEmitter) /\ Carried(v) \in sent
      BY <3>1, DeliverableWasSent DEF TrustedBy
    <3>4. Carried(v) \notin {solanaInbox[i] : i \in DOMAIN solanaInbox}
      <4> SUFFICES ASSUME NEW i \in DOMAIN solanaInbox, solanaInbox[i] = Carried(v)
                   PROVE  FALSE
        OBVIOUS
      <4>1. <<ChainOf(solanaInbox[i].emitter), solanaInbox[i].sequence>> = ReceivedSeed(v)
        BY <3>1 DEF Carried, Message, ReceivedSeed, IInv, NetworkInv
      <4>2. ReceivedSeed(v) \in ReceivedSeeds
        <5>1. /\ v.emitterAddress \in Emitters
              /\ v.emitterChain = ChainOf(v.emitterAddress)
              /\ v.sequence \in Nat
              /\ v.sequence < sequence[v.emitterAddress]
          BY <3>1 DEF Bodies, NetworkInv, IInv, TypeOK
        <5>2. v.sequence \in 0 .. MaxSequence[v.emitterAddress] - 1
          BY <5>1, MaxSequenceAssumption DEF IInv, TypeOK
        <5> QED
          BY <5>1, <5>2 DEF ReceivedSeeds, ReceivedSeed
      <4>3. closes[ReceivedSeed(v)] = 0
        BY <4>2 DEF IInv, TypeOK
      <4> QED
        BY <3>1, <4>1, <4>3 DEF SolanaInboxInv
    <3>5. SolanaChannel!Deliver(SolanaEmitter, Carried(v))
      BY <1>2, <3>1, <3>2, <3>3, <3>4 DEF SolanaChannel!Deliver, SolanaChannel!Taken
    <3> QED
      BY <3>3, <3>5 DEF SolanaChannel!Next
  <2>2. ASSUME NEW u \in Users, NEW ch \in Chains, NEW a \in Candidates,
               register_emitter(u, ch, a)
        PROVE  SolanaChannel!Next
    <3>1. UNCHANGED solanaInbox
      BY <2>2 DEF register_emitter
    <3>2. SolanaChannel!Trust(SolanaEmitter)
      BY <1>2, <3>1 DEF SolanaChannel!Trust
    <3> QED
      BY <3>2 DEF SolanaChannel!Next
  <2>3. CASE \/ EvmStep
             \/ GuardianStep
             \/ \E u \in Users : initialize(u)
             \/ \E seed \in 1 .. MaxSequence[SolanaEmitter], p \in Payloads :
                  send_message(seed, p)
             \/ \E v \in vaas : post_vaa(v)
             \/ \E u \in Users, seed \in ReceivedSeeds : close_received(u, seed)
    <3>1. UNCHANGED <<foreignEmitter, solanaInbox>>
      BY <2>3 DEF EvmStep, GuardianStep, initialize, send_message, post_vaa, close_received,
                  solanaVars, solanaAccounts
    <3> QED
      BY <1>2, <3>1 DEF SolanaChannel!vars
  <2> QED
    BY <1>2, <2>1, <2>2, <2>3 DEF Next, SolanaStep
<1>3. CASE UNCHANGED vars
  BY <1>3 DEF vars, evmVars, solanaVars, solanaAccounts, sent, SolanaChannel!vars
<1> QED
  BY <1>1, <1>2, <1>3

(* The Solana program is an at-most-once receiver of what was sent to it,   *)
(* in a deployment whose owner closes no Received account.                  *)
THEOREM SolanaRefinement ==
  ASSUME MaxCloses = 0
  PROVE  Spec => SolanaImplementsChannel
<1>1. Init => SolanaChannel!Init
  BY EmittersAssumption
     DEF Init, CoreInit, EvmInit, SolanaInit, SolanaChannel!Init, sent, TrustedBy, ChainOf,
         Chains, Emitters
<1>2. IInv /\ SolanaInboxInv /\ [Next]_vars => [SolanaChannel!Next]_(SolanaChannel!vars)
  BY SolanaStepRefines
<1> QED
  BY <1>1, <1>2, SafetyInvariant, SolanaInboxRemembered, PTL
     DEF Spec, SolanaImplementsChannel, SolanaChannel!Spec

-----------------------------------------------------------------------------
(* The "sent" accounts of the Solana program and the sequence tracker.      *)
TrackerInv ==
  /\ MessageAccountsFollowTracker
  /\ owner = NoUser => sequence[SolanaEmitter] = 0

(* Posting a message moves the tracker past the account it creates.        *)
LEMMA PostKeepsTracker ==
  ASSUME IInv, MessageAccountsFollowTracker, NEW w, post_message(next_value, w)
  PROVE  MessageAccountsFollowTracker'
<1> DEFINE n == sequence[SolanaEmitter]
<1>1. n \in Nat /\ SolanaEmitter \in Emitters
  BY DEF IInv, TypeOK, Emitters
<1>2. /\ sequence'[SolanaEmitter] = n + 1
      /\ messageAccounts' = [s \in DOMAIN messageAccounts \cup {n + 1} |->
           IF s = n + 1 THEN Body(SolanaEmitter, n, w) ELSE messageAccounts[s]]
  BY <1>1 DEF post_message, Publish, next_value, IInv, TypeOK
<1>3. DOMAIN messageAccounts' = 1 .. sequence'[SolanaEmitter]
  BY <1>1, <1>2 DEF MessageAccountsFollowTracker
<1>4. ASSUME NEW s \in DOMAIN messageAccounts'
      PROVE  /\ messageAccounts'[s].emitterAddress = SolanaEmitter
             /\ messageAccounts'[s].sequence = s - 1
  <2>1. CASE s = n + 1
    BY <1>1, <1>2, <2>1 DEF Body
  <2>2. CASE s # n + 1
    BY <1>2, <1>4, <2>2 DEF MessageAccountsFollowTracker
  <2> QED
    BY <2>1, <2>2
<1> QED
  BY <1>3, <1>4 DEF MessageAccountsFollowTracker

(* TrackerInv is inductive, given IInv.                                    *)
LEMMA NextKeepsTracker == IInv /\ TrackerInv /\ [Next]_vars => TrackerInv'
<1> SUFFICES ASSUME IInv, TrackerInv, [Next]_vars
             PROVE  TrackerInv'
  OBVIOUS
<1> USE DEF TrackerInv
<1>1. ASSUME NEW u \in Users, initialize(u)
      PROVE  TrackerInv'
  <2>1. next_value = INITIAL_SEQUENCE
    BY <1>1 DEF initialize, next_value, INITIAL_SEQUENCE
  <2>2. MessageAccountsFollowTracker'
    BY <1>1, <2>1, PostKeepsTracker DEF initialize
  <2> QED
    BY <1>1, <2>2, UsersAssumption DEF initialize
<1>2. ASSUME NEW seed, NEW p \in Payloads, send_message(seed, p)
      PROVE  TrackerInv'
  BY <1>2, PostKeepsTracker DEF send_message, SendMessageAccounts
<1>3. CASE EvmStep
  <2>1. UNCHANGED <<owner, messageAccounts>>
    BY <1>3 DEF EvmStep, solanaVars, solanaAccounts
  <2>2. sequence'[SolanaEmitter] = sequence[SolanaEmitter]
    <3>1. CASE \E c \in EvmContracts, p \in Payloads, value \in Fees : sendMessage(c, p, value)
      BY <3>1, EmittersAssumption DEF sendMessage, Publish, IInv, TypeOK
    <3> QED
      BY <1>3, <3>1 DEF EvmStep, receiveMessage, registerEmitter, coreVars
  <2> QED
    BY <2>1, <2>2 DEF MessageAccountsFollowTracker
<1>4. CASE \/ \E u \in Users, ch \in Chains, a \in Candidates : register_emitter(u, ch, a)
           \/ \E v \in vaas : post_vaa(v)
           \/ \E v \in postedVaas : receive_message(v)
           \/ \E u \in Users, seed \in ReceivedSeeds : close_received(u, seed)
           \/ GuardianStep
           \/ UNCHANGED vars
  <2>1. UNCHANGED <<owner, messageAccounts, sequence>>
    BY <1>4 DEF register_emitter, post_vaa, receive_message, close_received, GuardianStep, Sign, SetMessageFee,
                vars, solanaVars, solanaAccounts, coreVars
  <2> QED
    BY <2>1 DEF MessageAccountsFollowTracker
<1> QED
  BY <1>1, <1>2, <1>3, <1>4 DEF Next, SolanaStep

(* The address derived from next_value() is free whenever a send needs it,  *)
(* and the account at seed n holds the message of sequence n - 1.           *)
THEOREM TrackerCorrect == Spec => []MessageAccountsFollowTracker
<1>1. Init => TrackerInv
  BY DEF Init, SolanaInit, CoreInit, TrackerInv, MessageAccountsFollowTracker, Emitters
<1>2. TrackerInv => MessageAccountsFollowTracker
  BY DEF TrackerInv
<1> QED
  BY <1>1, <1>2, SafetyInvariant, NextKeepsTracker, PTL DEF Spec
=============================================================================
