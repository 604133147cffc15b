------------------------- MODULE MessengerStoreProofs -------------------------
(***************************************************************************)
(* What the two programs store and serve to readers is what was sent, for  *)
(* any values of the constants.                                            *)
(***************************************************************************)
EXTENDS MessengerClaims, MessengerProofs, FiniteSetTheorems

(* Neither side ever registers an emitter of its own chain, so what it     *)
(* receives was sent by the other.                                         *)
SidesInv ==
  /\ \A m \in evmSent : m.emitter \in EvmContracts
  /\ \A m \in solanaSent : m.emitter = SolanaEmitter
  /\ \A c \in EvmContracts : registeredEmitters[c][EvmChain] = NoEmitter
  /\ foreignEmitter[CHAIN_ID_SOLANA] = NoEmitter

(* Nothing is registered or sent at first.                                 *)
LEMMA InitSides == Init => SidesInv
BY DEF Init, EvmInit, SolanaInit, SidesInv, Chains

(* registerEmitter and register_emitter refuse the own chain.              *)
LEMMA NextKeepsSides == IInv /\ SidesInv /\ [Next]_vars => SidesInv'
<1> SUFFICES ASSUME IInv, SidesInv, [Next]_vars
             PROVE  SidesInv'
  OBVIOUS
<1> USE DEF SidesInv
<1>1. ASSUME NEW c \in EvmContracts, NEW p \in Payloads, NEW value \in Fees,
             sendMessage(c, p, value), UNCHANGED solanaVars
      PROVE  SidesInv'
  BY <1>1 DEF sendMessage, Message, evmStorage, solanaVars, solanaAccounts
<1>2. ASSUME NEW c \in EvmContracts, NEW u, NEW ch, NEW a,
             registerEmitter(c, u, ch, a), UNCHANGED solanaVars
      PROVE  SidesInv'
  <2>1. /\ ch # EvmChain
        /\ registeredEmitters' = [registeredEmitters EXCEPT ![c][ch] = a]
        /\ UNCHANGED <<evmSent, solanaSent, foreignEmitter>>
    BY <1>2 DEF registerEmitter, solanaVars, solanaAccounts
  <2>2. \A d \in EvmContracts :
          registeredEmitters'[d][EvmChain] = registeredEmitters[d][EvmChain]
    BY <2>1 DEF IInv, TypeOK, Chains
  <2> QED
    BY <2>1, <2>2
<1>3. ASSUME NEW seed, NEW p \in Payloads, send_message(seed, p), UNCHANGED evmVars
      PROVE  SidesInv'
  BY <1>3 DEF send_message, Message, post_message, Publish, evmVars, evmStorage
<1>4. ASSUME NEW u, NEW ch, NEW a, register_emitter(u, ch, a), UNCHANGED evmVars
      PROVE  SidesInv'
  BY <1>4 DEF register_emitter, evmVars, evmStorage, IInv, TypeOK, Chains
<1>5. CASE /\ \E c \in EvmContracts : \E vm \in vaas : receiveMessage(c, vm)
           /\ UNCHANGED solanaVars
  BY <1>5 DEF receiveMessage, solanaVars, solanaAccounts
<1>6. CASE /\ \/ \E u \in Users : initialize(u)
              \/ \E v \in vaas : post_vaa(v)
              \/ \E v \in postedVaas : receive_message(v)
              \/ \E u \in Users, seed \in ReceivedSeeds : close_received(u, seed)
           /\ UNCHANGED evmVars
  BY <1>6 DEF initialize, post_vaa, receive_message, close_received, solanaAccounts,
              evmVars, evmStorage
<1>7. CASE GuardianStep \/ UNCHANGED vars
  BY <1>7 DEF GuardianStep, vars, evmVars, evmStorage, solanaVars, solanaAccounts
<1> QED
  BY <1>1, <1>2, <1>3, <1>4, <1>5, <1>6, <1>7 DEF Next, EvmStep, SolanaStep
-----------------------------------------------------------------------------
(* A VAA a contract's checks let through carries a message of the Solana   *)
(* program.                                                                *)
LEMMA AcceptedByEvm ==
  ASSUME IInv, SidesInv, NEW c \in EvmContracts, NEW vm \in vaas,
         verifyEmitter(c, vm), Decodable(vm.payload)
  PROVE  Message(vm.emitterAddress, vm.sequence, decodeMessage(vm.payload)) \in solanaSent
<1>1. vm \in published
  BY DEF IInv, TypeOK
<1>2. Carried(vm) \in sent /\ vm.emitterChain = ChainOf(vm.emitterAddress)
      /\ Carried(vm).emitter = vm.emitterAddress /\ vm.emitterAddress \in Emitters
  BY <1>1, DeliverableWasSent DEF Decodable
<1>3. vm.emitterAddress = SolanaEmitter
  BY <1>2, EmittersAssumption DEF verifyEmitter, SidesInv, ChainOf, Emitters
<1> QED
  BY <1>2, <1>3, EmittersAssumption DEF SidesInv, sent, Carried

(* The same for the Solana program.                                        *)
LEMMA AcceptedBySolana ==
  ASSUME IInv, SidesInv, NEW v \in postedVaas, verify(v), Deserializable(v.payload)
  PROVE  Message(v.emitterAddress, v.sequence, deserialize(v.payload)) \in evmSent
<1>1. v \in published
  BY DEF IInv, TypeOK
<1>2. /\ Carried(v) \in sent
      /\ Carried(v) = Message(v.emitterAddress, v.sequence, deserialize(v.payload))
      /\ v.emitterChain = ChainOf(v.emitterAddress)
      /\ Carried(v).emitter = v.emitterAddress /\ v.emitterAddress \in Emitters
  BY <1>1, DeliverableWasSent DEF Deserializable
<1>3. v.emitterAddress # SolanaEmitter
  BY <1>2, EmittersAssumption DEF verify, SidesInv, ChainOf, Emitters
<1> QED
  BY <1>2, <1>3 DEF SidesInv, sent

(* Only the two receptions and the close touch what is stored.             *)
LEMMA NextKeepsStores ==
  IInv /\ SidesInv /\ StoredPayloadsWereSent /\ [Next]_vars => StoredPayloadsWereSent'
<1> SUFFICES ASSUME IInv, SidesInv, StoredPayloadsWereSent, [Next]_vars
             PROVE  StoredPayloadsWereSent'
  OBVIOUS
<1>1. ASSUME NEW c \in EvmContracts, NEW vm \in vaas, receiveMessage(c, vm),
             UNCHANGED solanaVars
      PROVE  StoredPayloadsWereSent'
  <2>1. UNCHANGED <<evmSent, solanaSent, receivedAccounts>>
    BY <1>1 DEF receiveMessage, solanaVars, solanaAccounts
  <2>2. receivedMessages' = [receivedMessages EXCEPT ![c] =
          [h \in DOMAIN receivedMessages[c] \cup {vm} |->
             IF h = vm THEN decodeMessage(vm.payload) ELSE receivedMessages[c][h]]]
    BY <1>1 DEF receiveMessage, consumeMessage
  <2>3. c \in DOMAIN receivedMessages
    BY DEF IInv, TypeOK
  <2>4. ASSUME NEW d \in EvmContracts, NEW h \in DOMAIN receivedMessages'[d]
        PROVE  Message(h.emitterAddress, h.sequence, receivedMessages'[d][h]) \in solanaSent
    <3>1. CASE d = c /\ h = vm
      <4>1. receivedMessages'[d][h] = decodeMessage(vm.payload)
        BY <2>2, <2>3, <3>1
      <4> QED
        BY <1>1, <3>1, <4>1, AcceptedByEvm DEF receiveMessage
    <3>2. CASE ~(d = c /\ h = vm)
      <4>1. h \in DOMAIN receivedMessages[d] /\ receivedMessages'[d][h] = receivedMessages[d][h]
        BY <2>2, <2>3, <2>4, <3>2 DEF IInv, TypeOK
      <4> QED
        BY <4>1 DEF StoredPayloadsWereSent
    <3> QED
      BY <3>1, <3>2
  <2> QED
    BY <2>1, <2>4 DEF StoredPayloadsWereSent
<1>2. ASSUME NEW v \in postedVaas, receive_message(v), UNCHANGED evmVars
      PROVE  StoredPayloadsWereSent'
  <2>1. UNCHANGED <<evmSent, solanaSent, receivedMessages>>
    BY <1>2 DEF receive_message, evmVars, evmStorage
  <2>2. /\ verify(v) /\ Deserializable(v.payload)
        /\ receivedAccounts' = [s \in DOMAIN receivedAccounts \cup {ReceivedSeed(v)} |->
             IF s = ReceivedSeed(v)
             THEN [hash |-> v, payload |-> deserialize(v.payload)]
             ELSE receivedAccounts[s]]
    BY <1>2 DEF receive_message, ReceiveMessageAccounts
  <2>3. ASSUME NEW s \in DOMAIN receivedAccounts'
        PROVE  LET r == receivedAccounts'[s] IN
                 /\ s = ReceivedSeed(r.hash)
                 /\ Message(r.hash.emitterAddress, r.hash.sequence, r.payload) \in evmSent
    <3>1. CASE s = ReceivedSeed(v)
      BY <2>2, <3>1, AcceptedBySolana
    <3>2. CASE s # ReceivedSeed(v)
      BY <2>2, <2>3, <3>2 DEF StoredPayloadsWereSent
    <3> QED
      BY <3>1, <3>2
  <2> QED
    BY <2>1, <2>3 DEF StoredPayloadsWereSent, ReceivedSeed
<1>3. ASSUME NEW u, NEW seed, close_received(u, seed), UNCHANGED evmVars
      PROVE  StoredPayloadsWereSent'
  <2>1. /\ UNCHANGED <<evmSent, solanaSent, receivedMessages>>
        /\ DOMAIN receivedAccounts' = DOMAIN receivedAccounts \ {seed}
        /\ \A s \in DOMAIN receivedAccounts' : receivedAccounts'[s] = receivedAccounts[s]
    BY <1>3 DEF close_received, Restrict, evmVars, evmStorage
  <2> QED
    BY <2>1 DEF StoredPayloadsWereSent, ReceivedSeed
<1>4. CASE \/ /\ \/ \E c \in EvmContracts, p \in Payloads, value \in Fees :
                      sendMessage(c, p, value)
                 \/ \E c \in EvmContracts, u \in Users, ch \in Chains, a \in Candidates :
                      registerEmitter(c, u, ch, a)
              /\ UNCHANGED solanaVars
           \/ /\ \/ \E u \in Users : initialize(u)
                 \/ \E u \in Users, ch \in Chains, a \in Candidates : register_emitter(u, ch, a)
                 \/ \E seed \in 1 .. MaxSequence[SolanaEmitter], p \in Payloads :
                      send_message(seed, p)
                 \/ \E v \in vaas : post_vaa(v)
              /\ UNCHANGED evmVars
           \/ GuardianStep
           \/ UNCHANGED vars
  <2>1. /\ evmSent \subseteq evmSent' /\ solanaSent \subseteq solanaSent'
        /\ UNCHANGED <<receivedMessages, receivedAccounts>>
    BY <1>4 DEF sendMessage, registerEmitter, initialize, register_emitter, send_message,
                post_vaa, GuardianStep, vars, evmVars, evmStorage, solanaVars, solanaAccounts
  <2> QED
    BY <2>1 DEF StoredPayloadsWereSent, ReceivedSeed
<1> QED
  BY <1>1, <1>2, <1>3, <1>4 DEF Next, EvmStep, SolanaStep

(* Whatever getReceivedMessage or a Received account returns, on either    *)
(* chain and through any re-registration, redeployment or close, is what a *)
(* caller of the other side passed to its send under that number.          *)
THEOREM StoredIntegrity == Spec => []StoredPayloadsWereSent
<1>1. Init => StoredPayloadsWereSent
  BY DEF Init, EvmInit, SolanaInit, StoredPayloadsWereSent
<1> QED
  BY <1>1, InitSides, SafetyInvariant, NextKeepsSides, NextKeepsStores, PTL DEF Spec
-----------------------------------------------------------------------------
(* Receptions of a chain and number.                                       *)
Seed(m) == <<ChainOf(m.emitter), m.sequence>>
Receptions(seed) == {i \in DOMAIN solanaInbox : Seed(solanaInbox[i]) = seed}

(* The receptions of a seed can be counted.                                *)
LEMMA ReceptionsFinite ==
  ASSUME IInv, NEW seed
  PROVE  IsFiniteSet(Receptions(seed)) /\ Cardinality(Receptions(seed)) \in Nat
<1>1. solanaInbox \in Seq(Messages)
  BY DEF IInv, TypeOK
<1>2. IsFiniteSet(1 .. Len(solanaInbox)) /\ DOMAIN solanaInbox = 1 .. Len(solanaInbox)
  BY <1>1, FS_Interval
<1>3. IsFiniteSet(Receptions(seed))
  BY <1>2, FS_Subset DEF Receptions
<1> QED
  BY <1>3, FS_CardinalityType

(* A reception counts for its own number and for no other.                 *)
LEMMA OneMoreReception ==
  ASSUME IInv, NEW m \in Messages, solanaInbox' = Append(solanaInbox, m), NEW seed
  PROVE  Cardinality(Receptions(seed)')
           = Cardinality(Receptions(seed)) + (IF seed = Seed(m) THEN 1 ELSE 0)
<1> DEFINE n == Len(solanaInbox) + 1
<1>1. solanaInbox \in Seq(Messages)
  BY DEF IInv, TypeOK
<1>2. /\ DOMAIN solanaInbox' = DOMAIN solanaInbox \cup {n}
      /\ n \notin DOMAIN solanaInbox
      /\ solanaInbox'[n] = m
      /\ \A i \in DOMAIN solanaInbox : solanaInbox'[i] = solanaInbox[i]
  BY <1>1
<1>3. Receptions(seed)' = {i \in DOMAIN solanaInbox' : Seed(solanaInbox'[i]) = seed}
  BY DEF Receptions, Seed
<1> HIDE DEF n
<1>4. CASE seed = Seed(m)
  <2>1. Receptions(seed)' = Receptions(seed) \cup {n} /\ n \notin Receptions(seed)
    BY <1>2, <1>3, <1>4 DEF Receptions
  <2> QED
    BY <1>4, <2>1, ReceptionsFinite, FS_AddElement
<1>5. CASE seed # Seed(m)
  <2>1. Receptions(seed)' = Receptions(seed)
    BY <1>2, <1>3, <1>5 DEF Receptions
  <2> QED
    BY <1>5, <2>1, ReceptionsFinite
<1> QED
  BY <1>4, <1>5

(* A reception takes a free account; a close frees one and is counted.     *)
LEMMA NextKeepsDeliveries ==
  IInv /\ DeliveriesMatchCloses /\ [Next]_vars => DeliveriesMatchCloses'
<1> DEFINE Kept(seed) == IF seed \in DOMAIN receivedAccounts THEN 1 ELSE 0
<1> SUFFICES ASSUME IInv, DeliveriesMatchCloses, [Next]_vars
             PROVE  DeliveriesMatchCloses'
  OBVIOUS
<1>0. /\ \A seed \in ReceivedSeeds : Cardinality(Receptions(seed)) = closes[seed] + Kept(seed)
      /\ \A seed \in ReceivedSeeds : closes[seed] \in Nat
  <2>1. \A seed \in ReceivedSeeds : closes[seed] \in Nat
    BY MaxClosesAssumption DEF IInv, TypeOK
  <2> QED
    BY <2>1 DEF DeliveriesMatchCloses, Receptions, Seed
<1>1. SUFFICES ASSUME NEW seed \in ReceivedSeeds
               PROVE  Cardinality(Receptions(seed)') = closes'[seed] + Kept(seed)'
  BY DEF DeliveriesMatchCloses, Receptions, Seed
<1>2. ASSUME NEW v \in postedVaas, receive_message(v)
      PROVE  Cardinality(Receptions(seed)') = closes'[seed] + Kept(seed)'
  <2>1. /\ DOMAIN receivedAccounts' = DOMAIN receivedAccounts \cup {ReceivedSeed(v)}
        /\ ReceivedSeed(v) \notin DOMAIN receivedAccounts
        /\ closes' = closes
    BY <1>2 DEF receive_message, ReceiveMessageAccounts
  <2>2. v \in published /\ v \in Bodies /\ v.payload.id = PAYLOAD_ID_MESSAGE
    BY <1>2 DEF receive_message, Deserializable, IInv, TypeOK
  <2>3. solanaInbox' = Append(solanaInbox, Carried(v))
    BY <1>2, <2>2, DeliverableWasSent DEF receive_message
  <2>4. Carried(v) \in Messages /\ Seed(Carried(v)) = ReceivedSeed(v)
    <3>1. Carried(v) \in Messages
      BY <2>2, CarriedPayload DEF Carried, Message, Messages, Bodies
    <3> QED
      BY <2>2, <3>1 DEF Seed, ReceivedSeed, Carried, Message, IInv, NetworkInv
  <2>5. Cardinality(Receptions(seed)')
          = Cardinality(Receptions(seed)) + (IF seed = ReceivedSeed(v) THEN 1 ELSE 0)
    BY <2>3, <2>4, OneMoreReception
  <2> QED
    BY <1>0, <2>1, <2>5
<1>3. ASSUME NEW u \in Users, NEW s \in ReceivedSeeds, close_received(u, s)
      PROVE  Cardinality(Receptions(seed)') = closes'[seed] + Kept(seed)'
  <2>1. /\ DOMAIN receivedAccounts' = DOMAIN receivedAccounts \ {s}
        /\ s \in DOMAIN receivedAccounts
        /\ closes' = [closes EXCEPT ![s] = @ + 1]
        /\ solanaInbox' = solanaInbox
    BY <1>3 DEF close_received, Restrict
  <2>2. Receptions(seed)' = Receptions(seed)
    BY <2>1 DEF Receptions, Seed
  <2>3. closes'[seed] = IF seed = s THEN closes[s] + 1 ELSE closes[seed]
    BY <2>1 DEF IInv, TypeOK
  <2> QED
    BY <1>0, <2>1, <2>2, <2>3
<1>4. CASE \/ EvmStep \/ GuardianStep \/ UNCHANGED vars
           \/ \E u \in Users : initialize(u)
           \/ \E u \in Users, ch \in Chains, a \in Candidates : register_emitter(u, ch, a)
           \/ \E s \in 1 .. MaxSequence[SolanaEmitter], p \in Payloads : send_message(s, p)
           \/ \E v \in vaas : post_vaa(v)
  <2>1. UNCHANGED <<receivedAccounts, closes, solanaInbox>>
    BY <1>4 DEF EvmStep, GuardianStep, initialize, register_emitter, send_message, post_vaa,
                vars, solanaVars, solanaAccounts
  <2> QED
    BY <1>0, <2>1 DEF Receptions, Seed
<1> QED
  BY <1>2, <1>3, <1>4 DEF Next, SolanaStep

(* The program receives a number again only after the owner closed the     *)
(* account of the previous time, whatever was registered, signed twice or  *)
(* presented in between.                                                   *)
THEOREM DeliveriesCounted == Spec => []DeliveriesMatchCloses
<1>1. Init => DeliveriesMatchCloses
  BY FS_EmptySet DEF Init, SolanaInit, DeliveriesMatchCloses
<1> QED
  BY <1>1, SafetyInvariant, NextKeepsDeliveries, PTL DEF Spec
-----------------------------------------------------------------------------
(* What the program received was sent by a contract, and every reception   *)
(* an account records is one of those it received.                         *)
ReceivedInv ==
  /\ \A i \in DOMAIN solanaInbox : solanaInbox[i] \in evmSent
  /\ \A s \in DOMAIN receivedAccounts :
       \E i \in DOMAIN solanaInbox : solanaInbox[i] = Carried(receivedAccounts[s].hash)

(* Only receive_message receives, and it writes the account and the inbox. *)
LEMMA NextKeepsReceived ==
  IInv /\ SidesInv /\ ReceivedInv /\ [Next]_vars => ReceivedInv'
<1> SUFFICES ASSUME IInv, SidesInv, ReceivedInv, [Next]_vars
             PROVE  ReceivedInv'
  OBVIOUS
<1> DEFINE n == Len(solanaInbox) + 1
<1>1. ASSUME NEW v \in postedVaas, receive_message(v), UNCHANGED evmVars
      PROVE  ReceivedInv'
  <2>1. /\ evmSent' = evmSent /\ Carried(v) \in evmSent
        /\ solanaInbox' = Append(solanaInbox, Carried(v))
    <3>1. v \in published /\ verify(v) /\ Deserializable(v.payload)
      BY <1>1 DEF receive_message, ReceiveMessageAccounts, IInv, TypeOK
    <3>2. Carried(v) = Message(v.emitterAddress, v.sequence, deserialize(v.payload))
      BY <3>1, DeliverableWasSent DEF Deserializable
    <3> QED
      BY <1>1, <3>1, <3>2, AcceptedBySolana DEF receive_message, evmVars
  <2>2. /\ DOMAIN receivedAccounts' = DOMAIN receivedAccounts \cup {ReceivedSeed(v)}
        /\ receivedAccounts'[ReceivedSeed(v)].hash = v
        /\ \A s \in DOMAIN receivedAccounts :
             s # ReceivedSeed(v) => receivedAccounts'[s] = receivedAccounts[s]
    BY <1>1 DEF receive_message
  <2>3. /\ DOMAIN solanaInbox' = DOMAIN solanaInbox \cup {n}
        /\ solanaInbox'[n] = Carried(v)
        /\ \A i \in DOMAIN solanaInbox : solanaInbox'[i] = solanaInbox[i]
    BY <2>1 DEF IInv, TypeOK
  <2> HIDE DEF n
  <2> QED
    BY <2>1, <2>2, <2>3 DEF ReceivedInv, Carried, Message
<1>2. ASSUME NEW u, NEW seed, close_received(u, seed), UNCHANGED evmVars
      PROVE  ReceivedInv'
  <2>1. /\ UNCHANGED <<evmSent, solanaInbox>>
        /\ DOMAIN receivedAccounts' \subseteq DOMAIN receivedAccounts
        /\ \A s \in DOMAIN receivedAccounts' : receivedAccounts'[s] = receivedAccounts[s]
    BY <1>2 DEF close_received, Restrict, evmVars
  <2> QED
    BY <2>1 DEF ReceivedInv, Carried, Message
<1>3. CASE \/ EvmStep \/ GuardianStep \/ UNCHANGED vars
           \/ /\ \/ \E u \in Users : initialize(u)
                 \/ \E u \in Users, ch \in Chains, a \in Candidates : register_emitter(u, ch, a)
                 \/ \E s \in 1 .. MaxSequence[SolanaEmitter], p \in Payloads : send_message(s, p)
                 \/ \E v \in vaas : post_vaa(v)
              /\ UNCHANGED evmVars
  <2>1. evmSent \subseteq evmSent' /\ UNCHANGED <<receivedAccounts, solanaInbox>>
    BY <1>3 DEF EvmStep, sendMessage, receiveMessage, registerEmitter, GuardianStep, initialize,
                register_emitter, send_message, post_vaa, vars, evmVars, evmStorage,
                solanaVars, solanaAccounts
  <2> QED
    BY <2>1 DEF ReceivedInv, Carried, Message
<1> QED
  BY <1>1, <1>2, <1>3 DEF Next, SolanaStep

(* What the Solana program received was sent, whatever was closed since.   *)
LEMMA ReceivedInvariant ==
  Spec => [](IInv /\ SidesInv /\ ReceivedInv /\ StoredPayloadsWereSent
             /\ DeliveriesMatchCloses)
<1>1. Init => ReceivedInv
  BY DEF Init, SolanaInit, ReceivedInv
<1> QED
  BY <1>1, InitSides, SafetyInvariant, NextKeepsSides, NextKeepsReceived, StoredIntegrity,
     DeliveriesCounted, PTL DEF Spec

(* In a deployment whose owner closes no Received account the Solana       *)
(* program receives no message twice, as its tests say.  The claim's       *)
(* counterexample needs close_received, and nothing else will do.          *)
THEOREM WithoutClosesReceivedOnce ==
  ASSUME MaxCloses = 0
  PROVE  Spec => []ReceivedOnce
<1>1. ASSUME IInv, SidesInv, ReceivedInv, DeliveriesMatchCloses
      PROVE  ReceivedOnce
  <2> SUFFICES ASSUME NEW i \in DOMAIN solanaInbox
               PROVE  Cardinality(Occurrences(solanaInbox[i])) = 1
    BY DEF ReceivedOnce
  <2> DEFINE m == solanaInbox[i]
             seed == Seed(m)
  <2>1. seed \in ReceivedSeeds
    <3>1. /\ m.emitter \in Emitters /\ m.sequence \in Nat
          /\ m.sequence < sequence[m.emitter]
      BY <1>1 DEF ReceivedInv, SidesInv, Emitters, IInv, NetworkInv, TypeOK, sent, Messages
    <3>2. m.sequence \in 0 .. MaxSequence[m.emitter] - 1
      BY <1>1, <3>1, MaxSequenceAssumption DEF IInv, TypeOK
    <3> QED
      BY <3>1, <3>2 DEF Seed, ReceivedSeeds
  <2>2. Cardinality(Receptions(seed)) \in {0, 1}
    <3>1. closes[seed] = 0
      BY <1>1, <2>1 DEF IInv, TypeOK
    <3>2. Cardinality(Receptions(seed))
            = closes[seed] + (IF seed \in DOMAIN receivedAccounts THEN 1 ELSE 0)
      BY <1>1, <2>1 DEF DeliveriesMatchCloses, Receptions, Seed
    <3> QED
      BY <3>1, <3>2
  <2>3. IsFiniteSet(Receptions(seed)) /\ i \in Receptions(seed)
    BY <1>1, ReceptionsFinite DEF Receptions
  <2>4. PICK j : Receptions(seed) = {j}
    <3>1. Cardinality(Receptions(seed)) # 0
      BY <2>3, FS_EmptySet
    <3> QED
      BY <2>2, <2>3, <3>1, FS_Singleton
  <2>5. Occurrences(m) \subseteq Receptions(seed) /\ i \in Occurrences(m)
    BY DEF Occurrences, Receptions
  <2>6. Occurrences(m) = {i}
    BY <2>3, <2>4, <2>5
  <2> QED
    BY <2>6, FS_Singleton
<1> QED
  BY <1>1, ReceivedInvariant, PTL

(* With one EVM contract, never replaced by another, a posted message of   *)
(* the emitter registered finds its Received account free unless it was    *)
(* received already: the number of a chain names one message.  The claim's *)
(* counterexample needs a second deployment on the chain.                  *)
THEOREM OneDeploymentReceivable ==
  ASSUME NEW c, EvmContracts = {c}
  PROVE  Spec => []RegisteredEmitterReceivable
<1>1. ASSUME IInv, SidesInv, ReceivedInv, StoredPayloadsWereSent
      PROVE  RegisteredEmitterReceivable
  <2> SUFFICES ASSUME NEW v \in postedVaas, verify(v), Deserializable(v.payload),
                      ReceivedSeed(v) \in DOMAIN receivedAccounts
               PROVE  Occurrences(Carried(v)) # {}
    BY DEF RegisteredEmitterReceivable
  <2> DEFINE h == receivedAccounts[ReceivedSeed(v)].hash
  <2>1. /\ ReceivedSeed(v) = ReceivedSeed(h)
        /\ h.emitterAddress = c
    <3>1. Message(h.emitterAddress, h.sequence, receivedAccounts[ReceivedSeed(v)].payload)
            \in evmSent
      BY <1>1 DEF StoredPayloadsWereSent
    <3> QED
      BY <1>1, <3>1 DEF StoredPayloadsWereSent, SidesInv, Message
  <2>2. v.emitterAddress = c
    BY <1>1, AcceptedBySolana DEF SidesInv, Message
  <2>3. v \in published /\ h \in published
    BY <1>1 DEF IInv, TypeOK
  <2>4. h = v
    BY <1>1, <2>1, <2>2, <2>3 DEF ReceivedSeed, IInv, NetworkInv
  <2> QED
    BY <1>1, <2>4 DEF ReceivedInv, Occurrences
<1> QED
  BY <1>1, ReceivedInvariant, PTL
-----------------------------------------------------------------------------
(* A message with an honest header reads on EVM, whatever its length, and  *)
(* on Solana exactly up to the limit of the program.                       *)
ReadableUpToLimit ==
  /\ \A m \in published : m.payload.id = PAYLOAD_ID_MESSAGE =>
       /\ Decodable(m.payload)
       /\ Deserializable(m.payload) <=> m.payload.body.length <= MESSAGE_MAX_LENGTH
  /\ \A i \in DOMAIN solanaInbox : solanaInbox[i].payload.length <= MESSAGE_MAX_LENGTH

(* Whatever the Solana program sends the contracts can decode, and what a  *)
(* contract sends the program reads up to and including 1024 bytes: a      *)
(* longer one, which the contract accepts and charges for, is received     *)
(* neither now nor later, under no registration and after no close.        *)
THEOREM ReadableExactly == Spec => []ReadableUpToLimit
<1> DEFINE Short == \A i \in DOMAIN solanaInbox :
                      solanaInbox[i].payload.length <= MESSAGE_MAX_LENGTH
<1>1. Init => Short
  BY DEF Init, SolanaInit
<1>2. ASSUME IInv, Short, [Next]_vars
      PROVE  Short'
  <2>1. ASSUME NEW v \in postedVaas, receive_message(v)
        PROVE  Short'
    <3>1. /\ solanaInbox' = Append(solanaInbox,
               Message(v.emitterAddress, v.sequence, deserialize(v.payload)))
          /\ deserialize(v.payload).length <= MESSAGE_MAX_LENGTH
      BY <2>1 DEF receive_message, Deserializable, deserialize
    <3>2. solanaInbox \in Seq(Messages)
      BY <1>2 DEF IInv, TypeOK
    <3>3. \A i \in DOMAIN solanaInbox' :
            \/ i \in DOMAIN solanaInbox /\ solanaInbox'[i] = solanaInbox[i]
            \/ solanaInbox'[i] = Message(v.emitterAddress, v.sequence, deserialize(v.payload))
      BY <3>1, <3>2
    <3> QED
      BY <1>2, <3>1, <3>3 DEF Message
  <2>2. CASE UNCHANGED solanaInbox
    BY <1>2, <2>2
  <2>3. \/ \E v \in postedVaas : receive_message(v)
        \/ UNCHANGED solanaInbox
    BY <1>2 DEF Next, EvmStep, SolanaStep, GuardianStep, initialize, register_emitter,
                send_message, post_vaa, close_received, vars, solanaVars
  <2> QED
    BY <2>1, <2>2, <2>3
<1>3. ASSUME IInv, NEW m \in published, m.payload.id = PAYLOAD_ID_MESSAGE
      PROVE  /\ Decodable(m.payload)
             /\ Deserializable(m.payload) <=> m.payload.body.length <= MESSAGE_MAX_LENGTH
  <2>1. m.payload.length = m.payload.body.length
    BY <1>3 DEF IInv, NetworkInv
  <2>2. m.payload.body.length \in Nat
    BY <1>3, CarriedPayload, PayloadsAssumption DEF IInv, TypeOK
  <2> QED
    BY <1>3, <2>1, <2>2 DEF Decodable, Deserializable
<1>4. IInv /\ Short => ReadableUpToLimit
  BY <1>3 DEF ReadableUpToLimit
<1> HIDE DEF Short
<1> QED
  BY <1>1, <1>2, <1>4, SafetyInvariant, PTL DEF Spec
=============================================================================
