------------------------ MODULE MessengerClientProofs ------------------------
(***************************************************************************)
(* Proofs about the client scripts, for any number of runs that race,      *)
(* stop and are finished by hand, beside any other users.                  *)
(***************************************************************************)
EXTENDS MessengerClient, MessengerStoreProofs

(* What was sent was published. *)
SentInv ==
  \A m \in sent : \E b \in published : b.payload.id = PAYLOAD_ID_MESSAGE /\ Carried(b) = m

(* A message sent stays published, and sending is publishing.              *)
LEMMA NextKeepsSent == IInv /\ SentInv /\ [Next]_vars => SentInv'
<1> SUFFICES ASSUME IInv, SentInv, [Next]_vars
             PROVE  SentInv'
  OBVIOUS
<1>1. ASSUME NEW a, NEW p \in Payloads, Publish(a, encodeMessage(p)),
             sent' = sent \cup {Message(a, sequence[a], p)}
      PROVE  SentInv'
  <2> DEFINE new == Body(a, sequence[a], encodeMessage(p))
  <2>1. published' = published \cup {new}
    BY <1>1 DEF Publish
  <2>2. new.payload.id = PAYLOAD_ID_MESSAGE /\ Carried(new) = Message(a, sequence[a], p)
    BY WireFacts DEF Body, Carried, decodeMessage
  <2> HIDE DEF new
  <2> QED
    BY <1>1, <2>1, <2>2 DEF SentInv, Carried
<1>2. CASE sent' = sent /\ published \subseteq published'
  BY <1>2 DEF SentInv, Carried
<1>3. CASE EvmStep
  <2>1. ASSUME NEW c \in EvmContracts, NEW p \in Payloads, NEW value, sendMessage(c, p, value)
        PROVE  SentInv'
    <3>1. sent' = sent \cup {Message(c, sequence[c], p)}
      BY <1>3, <2>1 DEF EvmStep, sendMessage, sent, solanaVars
    <3> QED
      BY <1>1, <2>1, <3>1 DEF sendMessage
  <2>2. CASE \/ \E c \in EvmContracts : \E vm \in vaas : receiveMessage(c, vm)
             \/ \E c \in EvmContracts, u \in Users, ch \in Chains, a \in Candidates :
                  registerEmitter(c, u, ch, a)
    BY <1>2, <1>3, <2>2 DEF EvmStep, receiveMessage, registerEmitter, coreVars, sent, solanaVars
  <2> QED
    BY <1>3, <2>1, <2>2 DEF EvmStep
<1>4. CASE SolanaStep
  <2>1. ASSUME NEW seed, NEW p \in Payloads, send_message(seed, p)
        PROVE  SentInv'
    <3>1. sent' = sent \cup {Message(SolanaEmitter, sequence[SolanaEmitter], p)}
      BY <1>4, <2>1 DEF SolanaStep, send_message, sent, evmVars
    <3> QED
      BY <1>1, <2>1, <3>1, WireFacts DEF send_message, post_message
  <2>2. CASE \E u \in Users : initialize(u)
    BY <1>2, <1>4, <2>2 DEF SolanaStep, initialize, post_message, Publish, sent, evmVars
  <2>3. CASE \/ \E u \in Users, ch \in Chains, a \in Candidates : register_emitter(u, ch, a)
             \/ \E v \in vaas : post_vaa(v)
             \/ \E v \in postedVaas : receive_message(v)
             \/ \E u \in Users, seed \in ReceivedSeeds : close_received(u, seed)
    BY <1>2, <1>4, <2>3 DEF SolanaStep, register_emitter, post_vaa, receive_message,
       close_received, coreVars, sent, evmVars
  <2> QED
    BY <1>4, <2>1, <2>2, <2>3 DEF SolanaStep
<1>5. CASE GuardianStep \/ UNCHANGED vars
  BY <1>2, <1>5 DEF GuardianStep, Sign, SetMessageFee, vars, coreVars, sent, evmVars, solanaVars
<1> QED
  BY <1>3, <1>4, <1>5 DEF Next

(* A signed body under the number of a message sent is that message.       *)
LEMMA SignedIsSent ==
  ASSUME IInv, SentInv, NEW v \in vaas, NEW m \in sent,
         v.emitterAddress = m.emitter, v.sequence = m.sequence
  PROVE  v.payload.id = PAYLOAD_ID_MESSAGE /\ Carried(v) = m
<1>1. PICK b \in published : b.payload.id = PAYLOAD_ID_MESSAGE /\ Carried(b) = m
  BY DEF SentInv
<1>2. v \in published /\ b.emitterAddress = m.emitter /\ b.sequence = m.sequence
  BY <1>1 DEF IInv, TypeOK, Carried, Message
<1>3. v = b
  BY <1>2 DEF IInv, NetworkInv
<1> QED
  BY <1>1, <1>3

(* Nothing that was signed, sent or received is ever taken back.           *)
LEMMA NextGrows ==
  ASSUME IInv, [Next]_vars, NEW c \in EvmContracts
  PROVE  /\ vaas \subseteq vaas' /\ sent \subseteq sent'
         /\ \A i \in DOMAIN evmInbox[c] : i \in DOMAIN evmInbox'[c] /\ evmInbox'[c][i] = evmInbox[c][i]
         /\ \A i \in DOMAIN solanaInbox :
              i \in DOMAIN solanaInbox' /\ solanaInbox'[i] = solanaInbox[i]
<1> USE DEF sent
<1>1. evmInbox \in [EvmContracts -> Seq(Messages)] /\ solanaInbox \in Seq(Messages)
  BY DEF IInv, TypeOK
<1>2. ASSUME NEW d \in EvmContracts, NEW vm \in vaas, receiveMessage(d, vm), UNCHANGED solanaVars
      PROVE  /\ UNCHANGED <<vaas, sent, solanaInbox>>
             /\ \A i \in DOMAIN evmInbox[c] :
                  i \in DOMAIN evmInbox'[c] /\ evmInbox'[c][i] = evmInbox[c][i]
  BY <1>1, <1>2 DEF receiveMessage, coreVars, solanaVars
<1>3. ASSUME NEW v \in postedVaas, receive_message(v), UNCHANGED evmVars
      PROVE  /\ UNCHANGED <<vaas, sent, evmInbox>>
             /\ \A i \in DOMAIN solanaInbox :
                  i \in DOMAIN solanaInbox' /\ solanaInbox'[i] = solanaInbox[i]
  BY <1>1, <1>3 DEF receive_message, coreVars, evmVars
<1>4. CASE EvmStep
  BY <1>2, <1>4 DEF EvmStep, sendMessage, registerEmitter, Publish, coreVars, evmStorage, solanaVars
<1>5. CASE SolanaStep
  BY <1>3, <1>5 DEF SolanaStep, initialize, register_emitter, send_message, post_vaa, close_received,
     post_message, Publish, coreVars, evmVars
<1>6. CASE GuardianStep \/ UNCHANGED vars
  BY <1>6 DEF GuardianStep, Sign, SetMessageFee, vars, coreVars, evmVars, solanaVars
<1> QED
  BY <1>4, <1>5, <1>6 DEF Next

-----------------------------------------------------------------------------
(* The message a run sent, once its transaction landed. *)
OwnMessage(c) == Message(EmitterOf(c), ReturnedSequence(c), PayloadOf(c))

InboxOf(c) == IF c \in SolanaSenders THEN evmInbox[Contract] ELSE solanaInbox

(* The run knows the number of its message. *)
Told(c) == tx[c] = "landed" /\ returned[c] = ReturnedSequence(c)

(* The run holds a signed body under that number. *)
Holds(c) ==
  /\ Told(c)
  /\ held[c] \in vaas
  /\ held[c].emitterAddress = EmitterOf(c)
  /\ held[c].sequence = returned[c]

(* What a run's locals say of the chains, at each await.                   *)
RunInv(c) ==
  /\ pc[c] = "start" => tx[c] = "none"
  /\ tx[c] = "pending" =>
       read[c] \in Nat /\ (c \in EvmSenders => read[c] \in Fees \cup {0})
  /\ tx[c] = "landed" => OwnMessage(c) \in sent /\ ReturnedSequence(c) \in Nat
  /\ pc[c] \in {"waiting", "posting", "redeeming", "done"} \/ returned[c] # Nothing => Told(c)
  /\ pc[c] \in {"posting", "redeeming"} \/ held[c] # Nothing => Holds(c)
  /\ pc[c] = "done" => \E i \in DOMAIN InboxOf(c) : OwnMessage(c) = InboxOf(c)[i]

CInv == SentInv /\ ClientsTypeOK /\ \A c \in Clients : RunInv(c)

Labels == {"start", "sending", "waiting", "posting", "redeeming", "stopped", "done"}

(* Only one run's locals change in a step of that run.                     *)
RestUnchanged(c) ==
  /\ pc' = [pc EXCEPT ![c] = pc'[c]]
  /\ read' = [read EXCEPT ![c] = read'[c]]
  /\ tx' = [tx EXCEPT ![c] = tx'[c]]
  /\ logged' = [logged EXCEPT ![c] = logged'[c]]
  /\ returned' = [returned EXCEPT ![c] = returned'[c]]
  /\ held' = [held EXCEPT ![c] = held'[c]]

(* Before any run the locals are unassigned.                               *)
LEMMA InitCInv == ClientsInit => CInv
BY DEF ClientsInit, ClientInit, Init, CoreInit, EvmInit, SolanaInit, CInv, SentInv, sent,
   ClientsTypeOK, RunInv, Told, Holds

-----------------------------------------------------------------------------
(* A run's step is a call anyone could have made, or none.                 *)
LEMMA ClientStepRefines ==
  ASSUME IInv, CInv, NEW c \in Clients, ClientStep(c)
  PROVE  [Next]_vars
<1>1. Contract \in EvmContracts /\ PayloadOf(c) \in Payloads /\ RunInv(c)
  BY ContractAssumption, ClientsAssumption DEF CInv
<1>2. CASE SolanaSendLands(c)
  <2>1. sequence[SolanaEmitter] \in Nat /\ MaxSequence[SolanaEmitter] \in Nat
    BY MaxSequenceAssumption DEF IInv, TypeOK, Emitters
  <2>2. read[c] + 1 \in 1 .. MaxSequence[SolanaEmitter]
    BY <1>2, <2>1 DEF SolanaSendLands, send_message, SendMessageAccounts, next_value,
       post_message, Publish
  <2> QED
    BY <1>1, <1>2, <2>2 DEF SolanaSendLands, Next, SolanaStep
<1>3. CASE EvmSendLands(c)
  <2>1. messageFee \in Fees /\ messageFee \in Nat
    BY FeesAssumption DEF IInv, TypeOK
  <2>2. read[c] >= messageFee /\ read[c] \in Fees \cup {0}
    BY <1>1, <1>3 DEF EvmSendLands, sendMessage, RunInv
  <2>3. read[c] \in Fees
    BY <2>1, <2>2
  <2> QED
    BY <1>1, <1>3, <2>3 DEF EvmSendLands, Next, EvmStep
<1>4. CASE RedeemEvm(c)
  BY <1>1, <1>4 DEF RedeemEvm, receiveMessage, Next, EvmStep
<1>5. CASE PostVaa(c)
  <2>1. CASE post_vaa(held[c]) /\ UNCHANGED evmVars
    BY <2>1 DEF post_vaa, Next, SolanaStep
  <2>2. CASE UNCHANGED <<coreVars, solanaVars, evmVars>>
    BY <2>2 DEF vars
  <2> QED
    BY <1>5, <2>1, <2>2 DEF PostVaa
<1>6. CASE RedeemSolana(c)
  BY <1>6 DEF RedeemSolana, receive_message, ReceiveMessageAccounts, Next, SolanaStep
<1>7. CASE UNCHANGED vars
  BY <1>7
<1> QED
  BY <1>2, <1>3, <1>4, <1>5, <1>6, <1>7 DEF ClientStep, ReadTracker, ReadFee, SendReverts,
     SendConfirmed, SendFails, FetchVaa, WaitTimesOut, RedeemFails, Interrupt, RedeemByHand,
     redeem_on_evm, redeem_on_solana, FetchByHand

(* What goes on beside the runs is what Messenger lets anyone do.          *)
LEMMA OthersRefine == Others => Next
<1> SUFFICES ASSUME Others PROVE Next
  OBVIOUS
<1> USE ContractAssumption
<1>1. CASE GuardianStep
  BY <1>1 DEF Next
<1>2. CASE /\ \/ \E vm \in vaas : receiveMessage(Contract, vm)
              \/ \E u \in Users, ch \in Chains, a \in Candidates :
                   registerEmitter(Contract, u, ch, a)
           /\ UNCHANGED solanaVars
  BY <1>2 DEF Next, EvmStep
<1>3. CASE /\ \/ \E u \in Users : initialize(u)
              \/ \E u \in Users, ch \in Chains, a \in Candidates : register_emitter(u, ch, a)
              \/ \E v \in vaas : post_vaa(v)
              \/ \E v \in postedVaas : receive_message(v)
           /\ UNCHANGED evmVars
  BY <1>3 DEF Next, SolanaStep
<1> QED
  BY <1>1, <1>2, <1>3 DEF Others

(* Every step of runs and others is a messenger step or a stutter.         *)
LEMMA ClientsNextRefines == IInv /\ CInv /\ [ClientsNext]_allVars => [Next]_vars
BY ClientStepRefines, OthersRefine DEF ClientsNext, allVars

-----------------------------------------------------------------------------
(* What holds of a run goes on holding while its locals stay as they are.  *)
LEMMA RunStays ==
  ASSUME IInv, [Next]_vars, NEW c \in Clients, RunInv(c),
         pc'[c] = pc[c], read'[c] = read[c], tx'[c] = tx[c], logged'[c] = logged[c],
         returned'[c] = returned[c], held'[c] = held[c]
  PROVE  RunInv(c)'
<1> USE ContractAssumption
<1>1. ReturnedSequence(c)' = ReturnedSequence(c)
  BY DEF ReturnedSequence
<1>2. OwnMessage(c)' = OwnMessage(c) /\ (Told(c)' <=> Told(c))
  BY <1>1 DEF OwnMessage, Message, Told
<1>3. vaas \subseteq vaas' /\ sent \subseteq sent'
  BY NextGrows
<1>4. Holds(c) => Holds(c)'
  BY <1>2, <1>3 DEF Holds
<1>5. \A i \in DOMAIN InboxOf(c) :
        i \in DOMAIN InboxOf(c)' /\ InboxOf(c)'[i] = InboxOf(c)[i]
  BY NextGrows DEF InboxOf
<1>6. (\E i \in DOMAIN InboxOf(c) : OwnMessage(c) = InboxOf(c)[i]) =>
        \E i \in DOMAIN InboxOf(c)' : OwnMessage(c)' = InboxOf(c)'[i]
  BY <1>2, <1>5
<1>7. /\ pc[c] = "start" => tx[c] = "none"
      /\ tx[c] = "pending" =>
           read[c] \in Nat /\ (c \in EvmSenders => read[c] \in Fees \cup {0})
      /\ tx[c] = "landed" => OwnMessage(c) \in sent /\ ReturnedSequence(c) \in Nat
      /\ pc[c] \in {"waiting", "posting", "redeeming", "done"} \/ returned[c] # Nothing => Told(c)
      /\ pc[c] \in {"posting", "redeeming"} \/ held[c] # Nothing => Holds(c)
      /\ pc[c] = "done" => \E i \in DOMAIN InboxOf(c) : OwnMessage(c) = InboxOf(c)[i]
  BY DEF RunInv
<1> QED
  BY <1>1, <1>2, <1>3, <1>4, <1>6, <1>7 DEF RunInv

(* The send: read, then landed or reverted, then confirmed or given up.    *)
LEMMA SendKeepsRun ==
  ASSUME IInv, CInv, [Next]_vars, NEW c \in Clients,
         \/ ReadTracker(c) \/ ReadFee(c) \/ SolanaSendLands(c) \/ EvmSendLands(c)
         \/ SendReverts(c) \/ SendConfirmed(c) \/ SendFails(c)
  PROVE  RunInv(c)' /\ RestUnchanged(c) /\ pc'[c] \in Labels
         /\ read'[c] \in Nat \cup {Nothing} /\ logged'[c] \in Nat \cup {Nothing}
         /\ returned'[c] \in Nat \cup {Nothing} /\ held'[c] \in vaas' \cup {Nothing}
         /\ tx'[c] \in {"none", "pending", "reverted", "landed"}
<1> USE ContractAssumption
<1>1. RunInv(c) /\ ClientsTypeOK
  BY DEF CInv
<1>2. /\ messageFee \in Nat /\ messageFee \in Fees
      /\ \A a \in Emitters : sequence[a] \in Nat
  BY FeesAssumption DEF IInv, TypeOK
<1>3. vaas \subseteq vaas' /\ sent \subseteq sent'
  BY NextGrows
<1>4. CASE ReadTracker(c)
  BY <1>1, <1>2, <1>3, <1>4, ClientsAssumption
     DEF ReadTracker, Goto, RunInv, Told, Holds, ClientsTypeOK, RestUnchanged, Labels, Emitters
<1>5. CASE ReadFee(c)
  BY <1>1, <1>2, <1>3, <1>5
     DEF ReadFee, Goto, RunInv, Told, Holds, ClientsTypeOK, RestUnchanged, Labels
<1>6. CASE SolanaSendLands(c)
  <2>1. read[c] \in Nat /\ read[c] + 1 = sequence[SolanaEmitter] + 1
    BY <1>1, <1>6 DEF SolanaSendLands, RunInv, send_message, SendMessageAccounts, next_value
  <2>2. read[c] = sequence[SolanaEmitter]
    BY <1>2, <2>1 DEF Emitters
  <2>3. Message(SolanaEmitter, read[c], PayloadOf(c)) \in sent'
    BY <1>6, <2>2 DEF SolanaSendLands, send_message, sent, evmVars
  <2> QED
    BY <1>1, <1>3, <1>6, <2>1, <2>3
       DEF SolanaSendLands, RunInv, Told, Holds, ClientsTypeOK, RestUnchanged, Labels, OwnMessage,
           EmitterOf, ReturnedSequence
<1>7. CASE EvmSendLands(c)
  <2>1. Message(Contract, sequence[Contract], PayloadOf(c)) \in sent'
    BY <1>7 DEF EvmSendLands, sendMessage, sent, solanaVars
  <2>2. c \notin SolanaSenders
    BY <1>7, ClientsAssumption DEF EvmSendLands
  <2>3. logged'[c] = sequence[Contract] /\ sequence[Contract] \in Nat
    BY <1>1, <1>2, <1>7 DEF EvmSendLands, ClientsTypeOK, Emitters
  <2> QED
    BY <1>1, <1>3, <1>7, <2>1, <2>2, <2>3
       DEF EvmSendLands, RunInv, Told, Holds, ClientsTypeOK, RestUnchanged, Labels, OwnMessage,
           EmitterOf, ReturnedSequence
<1>8. CASE SendReverts(c)
  BY <1>1, <1>3, <1>8 DEF SendReverts, RunInv, Told, Holds, ClientsTypeOK, RestUnchanged, Labels
<1>9. CASE SendConfirmed(c)
  <2>1. RunInv(c)'
    BY <1>1, <1>3, <1>9
       DEF SendConfirmed, Goto, RunInv, Told, Holds, ClientsTypeOK, OwnMessage, Message,
           ReturnedSequence
  <2> QED
    BY <1>1, <1>3, <1>9, <2>1
       DEF SendConfirmed, Goto, RunInv, Told, ClientsTypeOK, RestUnchanged, Labels
<1>10. CASE SendFails(c)
  <2>1. RunInv(c)'
    BY <1>1, <1>3, <1>10
       DEF SendFails, Goto, RunInv, Told, Holds, ClientsTypeOK, OwnMessage, Message,
           ReturnedSequence
  <2> QED
    BY <1>1, <1>3, <1>10, <2>1
       DEF SendFails, Goto, ClientsTypeOK, RestUnchanged, Labels
<1> QED
  BY <1>4, <1>5, <1>6, <1>7, <1>8, <1>9, <1>10

(* A run that holds a VAA holds its own message.                           *)
LEMMA HeldIsOwn ==
  ASSUME IInv, CInv, NEW c \in Clients, Holds(c)
  PROVE  /\ held[c].payload.id = PAYLOAD_ID_MESSAGE
         /\ Carried(held[c]) = OwnMessage(c)
         /\ held[c] \in Bodies
         /\ held[c].payload.length = held[c].payload.body.length
<1>1. OwnMessage(c) \in sent /\ RunInv(c)
  BY DEF CInv, RunInv, Holds, Told
<1>2. held[c].emitterAddress = OwnMessage(c).emitter /\ held[c].sequence = OwnMessage(c).sequence
  BY DEF Holds, Told, OwnMessage, Message
<1>3. held[c] \in vaas
  BY DEF Holds
<1>4. held[c].payload.id = PAYLOAD_ID_MESSAGE /\ Carried(held[c]) = OwnMessage(c)
  BY <1>1, <1>2, <1>3, SignedIsSent DEF CInv
<1> QED
  BY <1>3, <1>4 DEF IInv, TypeOK, NetworkInv

(* The wait and the redemption, by the run or by hand.                     *)
LEMMA RedeemKeepsRun ==
  ASSUME IInv, CInv, [Next]_vars, NEW c \in Clients,
         \/ FetchVaa(c) \/ WaitTimesOut(c) \/ RedeemEvm(c) \/ PostVaa(c) \/ RedeemSolana(c)
         \/ RedeemFails(c) \/ Interrupt(c) \/ RedeemByHand(c)
  PROVE  RunInv(c)' /\ RestUnchanged(c) /\ pc'[c] \in Labels
         /\ held'[c] \in vaas' \cup {Nothing}
         /\ UNCHANGED <<read, tx, logged, returned>>
<1> USE ContractAssumption
<1>1. RunInv(c) /\ ClientsTypeOK
  BY DEF CInv
<1>2. vaas \subseteq vaas' /\ sent \subseteq sent'
  BY NextGrows
<1>3. /\ UNCHANGED <<read, tx, logged, returned>>
      /\ \E label \in Labels : Goto(c, label)
      /\ held' = [held EXCEPT ![c] = held'[c]]
  BY <1>1 DEF FetchVaa, WaitTimesOut, RedeemEvm, PostVaa, RedeemSolana, RedeemFails, Interrupt,
     RedeemByHand, redeem_on_evm, redeem_on_solana, FetchByHand, Goto, Labels, ClientsTypeOK
<1>4. RestUnchanged(c) /\ pc'[c] \in Labels
  BY <1>1, <1>3 DEF RestUnchanged, Goto, ClientsTypeOK
<1>5. /\ ReturnedSequence(c)' = ReturnedSequence(c)
      /\ OwnMessage(c)' = OwnMessage(c)
      /\ Told(c)' <=> Told(c)
  BY <1>3 DEF ReturnedSequence, OwnMessage, Message, Told
<1>6. CASE FetchVaa(c) \/ RedeemByHand(c)
  <2>1. /\ held'[c] \in vaas
        /\ held'[c].emitterAddress = EmitterOf(c)
        /\ held'[c].sequence = returned[c]
        /\ pc'[c] \in {"posting", "redeeming"}
    BY <1>1, <1>6 DEF FetchVaa, RedeemByHand, redeem_on_evm, redeem_on_solana, FetchByHand,
       SignedVaas, Goto, ClientsTypeOK
  <2>2. Told(c)
    BY <1>1, <1>6 DEF RunInv, FetchVaa, RedeemByHand, redeem_on_evm, redeem_on_solana, FetchByHand
  <2>3. Holds(c)'
    BY <1>2, <1>3, <1>5, <2>1, <2>2 DEF Holds
  <2> QED
    BY <1>1, <1>2, <1>3, <1>4, <1>5, <2>1, <2>2, <2>3 DEF RunInv, Told
<1>7. ASSUME UNCHANGED held
      PROVE  (Holds(c) => Holds(c)') /\ held'[c] \in vaas' \cup {Nothing}
  BY <1>1, <1>2, <1>3, <1>5, <1>7 DEF Holds, ClientsTypeOK
<1>8. CASE PostVaa(c)
  <2>1. UNCHANGED held /\ pc[c] = "posting" /\ pc'[c] = "redeeming"
    BY <1>1, <1>8 DEF PostVaa, Goto, ClientsTypeOK
  <2> QED
    BY <1>1, <1>2, <1>3, <1>4, <1>5, <1>7, <2>1 DEF RunInv, Told
<1>9. CASE WaitTimesOut(c) \/ RedeemFails(c) \/ Interrupt(c)
  <2>1. UNCHANGED held /\ pc'[c] = "stopped"
    BY <1>1, <1>9 DEF WaitTimesOut, RedeemFails, Interrupt, Goto, ClientsTypeOK
  <2> QED
    BY <1>1, <1>2, <1>3, <1>4, <1>5, <1>7, <2>1 DEF RunInv, Told
<1>10. CASE RedeemEvm(c) \/ RedeemSolana(c)
  <2>1. UNCHANGED held /\ pc[c] = "redeeming" /\ pc'[c] = "done" /\ Holds(c)
    BY <1>1, <1>10 DEF RedeemEvm, RedeemSolana, Goto, ClientsTypeOK, RunInv
  <2>2. /\ Carried(held[c]) = OwnMessage(c)
        /\ deserialize(held[c].payload) = decodeMessage(held[c].payload)
    BY <2>1, HeldIsOwn, CarriedPayload
  <2>3. \E i \in DOMAIN InboxOf(c)' : OwnMessage(c) = InboxOf(c)'[i]
    <3>1. CASE RedeemEvm(c)
      <4>1. InboxOf(c)' = Append(evmInbox[Contract], OwnMessage(c))
        BY <2>2, <3>1 DEF RedeemEvm, receiveMessage, InboxOf, Carried, IInv, TypeOK
      <4>2. evmInbox[Contract] \in Seq(Messages)
        BY DEF IInv, TypeOK
      <4> DEFINE n == Len(evmInbox[Contract]) + 1
      <4>3. n \in DOMAIN InboxOf(c)' /\ InboxOf(c)'[n] = OwnMessage(c)
        BY <4>1, <4>2
      <4> QED
        BY <4>3
    <3>2. CASE RedeemSolana(c)
      <4>1. InboxOf(c)' = Append(solanaInbox, OwnMessage(c))
        BY <2>2, <3>2, ClientsAssumption
           DEF RedeemSolana, receive_message, InboxOf, Carried
      <4>2. solanaInbox \in Seq(Messages)
        BY DEF IInv, TypeOK
      <4> DEFINE n == Len(solanaInbox) + 1
      <4>3. n \in DOMAIN InboxOf(c)' /\ InboxOf(c)'[n] = OwnMessage(c)
        BY <4>1, <4>2
      <4> QED
        BY <4>3
    <3> QED
      BY <1>10, <3>1, <3>2
  <2> QED
    BY <1>1, <1>2, <1>3, <1>4, <1>5, <1>7, <2>1, <2>3 DEF RunInv, Told, Holds
<1> QED
  BY <1>3, <1>4, <1>6, <1>7, <1>8, <1>9, <1>10

(* A step of one run keeps its own invariant and leaves the others' alone. *)
LEMMA ClientStepKeepsCInv ==
  ASSUME IInv, CInv, [Next]_vars, NEW c \in Clients, ClientStep(c)
  PROVE  CInv'
<1>1. /\ RunInv(c)' /\ RestUnchanged(c) /\ pc'[c] \in Labels
      /\ read'[c] \in Nat \cup {Nothing} /\ logged'[c] \in Nat \cup {Nothing}
      /\ returned'[c] \in Nat \cup {Nothing} /\ held'[c] \in vaas' \cup {Nothing}
      /\ tx'[c] \in {"none", "pending", "reverted", "landed"}
  <2>1. CASE \/ ReadTracker(c) \/ ReadFee(c) \/ SolanaSendLands(c) \/ EvmSendLands(c)
             \/ SendReverts(c) \/ SendConfirmed(c) \/ SendFails(c)
    BY <2>1, SendKeepsRun
  <2>2. CASE \/ FetchVaa(c) \/ WaitTimesOut(c) \/ RedeemEvm(c) \/ PostVaa(c)
             \/ RedeemSolana(c) \/ RedeemFails(c) \/ Interrupt(c) \/ RedeemByHand(c)
    BY <2>2, RedeemKeepsRun DEF CInv, ClientsTypeOK
  <2> QED
    BY <2>1, <2>2 DEF ClientStep
<1>2. ClientsTypeOK /\ vaas \subseteq vaas'
  BY NextGrows, ContractAssumption DEF CInv
<1>3. ClientsTypeOK'
  BY <1>1, <1>2 DEF ClientsTypeOK, RestUnchanged, Labels
<1>4. ASSUME NEW d \in Clients, d # c
      PROVE  RunInv(d)'
  <2>1. /\ pc'[d] = pc[d] /\ read'[d] = read[d] /\ tx'[d] = tx[d]
        /\ logged'[d] = logged[d] /\ returned'[d] = returned[d] /\ held'[d] = held[d]
    BY <1>1, <1>2, <1>4 DEF ClientsTypeOK, RestUnchanged
  <2> QED
    BY <2>1, RunStays DEF CInv
<1> QED
  BY <1>1, <1>3, <1>4, NextKeepsSent DEF CInv

(* The client invariant is inductive, given that of the messenger.         *)
LEMMA NextKeepsCInv == IInv /\ CInv /\ [ClientsNext]_allVars => CInv'
<1> SUFFICES ASSUME IInv, CInv, [ClientsNext]_allVars
             PROVE  CInv'
  OBVIOUS
<1>1. [Next]_vars
  BY ClientsNextRefines
<1>2. CASE \E c \in Clients : ClientStep(c)
  BY <1>1, <1>2, ClientStepKeepsCInv
<1>3. CASE UNCHANGED clientVars
  <2>1. \A c \in Clients : RunInv(c)'
    BY <1>1, <1>3, RunStays DEF clientVars, CInv
  <2>2. ClientsTypeOK'
    BY <1>1, <1>3, NextGrows, ContractAssumption DEF clientVars, CInv, ClientsTypeOK
  <2> QED
    BY <1>1, <2>1, <2>2, NextKeepsSent DEF CInv
<1> QED
  BY <1>2, <1>3 DEF ClientsNext, Others, allVars

-----------------------------------------------------------------------------
(* Whatever the runs do, stale reads, late transactions and redemptions by *)
(* hand included, is something the messenger allows.                       *)
THEOREM ClientsImplementMessenger == ClientsSpec => Spec /\ []CInv
<1>1. ClientsInit => Init /\ IInv /\ CInv
  BY InitIInv, InitCInv DEF ClientsInit
<1>2. IInv /\ CInv /\ [ClientsNext]_allVars => [Next]_vars /\ IInv' /\ CInv'
  BY ClientsNextRefines, NextKeepsIInv, NextKeepsCInv
<1> QED
  BY <1>1, <1>2, PTL DEF ClientsSpec, Spec

(* The locals of every run have their types, and a VAA held is signed.     *)
THEOREM ClientsTypes == ClientsSpec => []ClientsTypeOK
<1>1. CInv => ClientsTypeOK
  BY DEF CInv
<1> QED
  BY <1>1, ClientsImplementMessenger, PTL

(* However many senders race for the tracker, and whatever they read, the  *)
(* VAA a run fetches by the number it was told is the VAA of its message.  *)
THEOREM FetchedOwn == ClientsSpec => []FetchedIsOwn
<1>1. IInv /\ CInv => FetchedIsOwn
  <2> SUFFICES ASSUME IInv, CInv, NEW c \in Clients, held[c] # Nothing
               PROVE  Carried(held[c]).payload = PayloadOf(c)
    BY DEF FetchedIsOwn
  <2>1. Holds(c)
    BY DEF CInv, RunInv
  <2>2. OwnMessage(c).payload = PayloadOf(c)
    BY DEF OwnMessage, Message
  <2> QED
    BY <2>1, <2>2, HeldIsOwn
<1> QED
  BY <1>1, ClientsImplementMessenger, SafetyInvariant, PTL

(* A number a run was told is the number of a message it sent, and a run   *)
(* that ends well has delivered that message to the other side.            *)
THEOREM DoneDelivered == ClientsSpec => []DoneMeansDelivered
<1>1. CInv => DoneMeansDelivered
  <2> SUFFICES ASSUME CInv, NEW c \in Clients
               PROVE  LET m == Message(EmitterOf(c), returned[c], PayloadOf(c)) IN
                        /\ returned[c] # Nothing => m \in sent
                        /\ pc[c] = "done" => \E i \in DOMAIN InboxOf(c) : m = InboxOf(c)[i]
    BY DEF DoneMeansDelivered, InboxOf
  <2>1. Told(c) => Message(EmitterOf(c), returned[c], PayloadOf(c)) = OwnMessage(c)
    BY DEF Told, OwnMessage
  <2>2. RunInv(c)
    BY DEF CInv
  <2> QED
    BY <2>1, <2>2 DEF RunInv, Told
<1> QED
  BY <1>1, ClientsImplementMessenger, PTL
-----------------------------------------------------------------------------
(* What users see through the scripts and the library is what was sent,    *)
(* and what the program receives again was closed in between: stale reads, *)
(* late transactions and redemptions by hand change nothing of that.       *)
THEOREM ClientsKeepMessages ==
  ClientsSpec => [](StoredPayloadsWereSent /\ DeliveriesMatchCloses)
<1> QED
  BY ClientsImplementMessenger, StoredIntegrity, DeliveriesCounted, PTL
=============================================================================
