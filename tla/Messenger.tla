------------------------------ MODULE Messenger ------------------------------
(***************************************************************************)
(* The messenger as deployed: the EVM contracts and the Solana program,    *)
(* joined by the Wormhole core.  Anyone may carry a signed VAA to either   *)
(* side, which is why delivery is unordered and may be attempted again.    *)
(***************************************************************************)
EXTENDS EvmMessenger, SolanaMessenger, FiniteSets

CONSTANT Candidates  \* the addresses the owners register, right or wrong

ASSUME CandidatesAssumption == Candidates \subseteq Emitters

vars == <<coreVars, evmVars, solanaVars>>

Init == CoreInit /\ EvmInit /\ SolanaInit

EvmStep ==
  /\ \/ \E c \in EvmContracts, p \in Payloads, value \in Fees :
          sendMessage(c, p, value)
     \/ \E c \in EvmContracts : \E vm \in vaas : receiveMessage(c, vm)
     \/ \E c \in EvmContracts, u \in Users, ch \in Chains, a \in Candidates :
          registerEmitter(c, u, ch, a)
  /\ UNCHANGED solanaVars

SolanaStep ==
  /\ \/ \E u \in Users : initialize(u)
     \/ \E u \in Users, ch \in Chains, a \in Candidates : register_emitter(u, ch, a)
     \/ \E seed \in 1 .. MaxSequence[SolanaEmitter], p \in Payloads : send_message(seed, p)
     \/ \E v \in vaas : post_vaa(v)
     \/ \E v \in postedVaas : receive_message(v)
     \/ \E u \in Users, seed \in ReceivedSeeds : close_received(u, seed)
  /\ UNCHANGED evmVars

GuardianStep ==
  /\ \/ \E m \in published : Sign(m)
     \/ \E fee \in Fees : SetMessageFee(fee)
  /\ UNCHANGED <<evmVars, solanaVars>>

Next == EvmStep \/ SolanaStep \/ GuardianStep

Spec == Init /\ [][Next]_vars

-----------------------------------------------------------------------------
Wires == {encodeMessage(p) : p \in Payloads} \cup {AliveMessage}
Bodies == [emitterChain : Chains, emitterAddress : Emitters,
           sequence : Nat, payload : Wires]
Messages == [emitter : Emitters, sequence : Nat, payload : Payloads]

TypeOK ==
  /\ messageFee \in Fees
  /\ sequence \in [Emitters -> Nat]
  /\ \A a \in Emitters : sequence[a] <= MaxSequence[a]
  /\ published \subseteq Bodies
  /\ vaas \subseteq published
  /\ registeredEmitters \in [EvmContracts -> [Chains -> Emitters \cup {NoEmitter}]]
  /\ consumedMessages \in [EvmContracts -> SUBSET vaas]
  /\ DOMAIN receivedMessages = EvmContracts
  /\ receivedMessages = [c \in EvmContracts |-> receivedMessages[c]]
  /\ \A c \in EvmContracts :
       receivedMessages[c] \in [consumedMessages[c] -> Payloads]
  /\ evmSent \subseteq Messages
  /\ evmInbox \in [EvmContracts -> Seq(Messages)]
  /\ owner \in Users \cup {NoUser}
  /\ foreignEmitter \in [Chains -> Emitters \cup {NoEmitter}]
  /\ messageAccounts \in [DOMAIN messageAccounts -> published]
  /\ postedVaas \subseteq vaas
  /\ DOMAIN receivedAccounts \subseteq ReceivedSeeds
  /\ receivedAccounts \in
       [DOMAIN receivedAccounts -> [hash : postedVaas, payload : Payloads]]
  /\ closes \in [ReceivedSeeds -> 0 .. MaxCloses]
  /\ solanaSent \subseteq Messages
  /\ solanaInbox \in Seq(Messages)

sent == evmSent \cup solanaSent

(* The message a body carries, once decoded. *)
Carried(m) == Message(m.emitterAddress, m.sequence, decodeMessage(m.payload))

(* What the network carries.  A number is used once per emitter and lies   *)
(* below the emitter's counter, and a body with a message in it is exactly *)
(* what a caller passed to send under that number, with an honest length.  *)
NetworkInv ==
  /\ \A m \in published :
       /\ m.emitterChain = ChainOf(m.emitterAddress)
       /\ m.sequence < sequence[m.emitterAddress]
       /\ m.payload.id = PAYLOAD_ID_MESSAGE =>
            /\ Carried(m) \in sent
            /\ m.payload.length = m.payload.body.length
  /\ \A m1, m2 \in published :
       m1.emitterAddress = m2.emitterAddress /\ m1.sequence = m2.sequence => m1 = m2
  /\ \A m \in sent : m.sequence < sequence[m.emitter]

(* A contract's inbox is the trace of its consumed hashes.                 *)
EvmInboxInv ==
  \A c \in EvmContracts :
    /\ \A h \in consumedMessages[c] : h.payload.id = PAYLOAD_ID_MESSAGE
    /\ \A i \in DOMAIN evmInbox[c] : \E h \in consumedMessages[c] : evmInbox[c][i] = Carried(h)

(* A number the Solana program received, and whose account was never       *)
(* closed, still has its account.                                          *)
SolanaInboxInv ==
  \A i \in DOMAIN solanaInbox :
    LET seed == <<ChainOf(solanaInbox[i].emitter), solanaInbox[i].sequence>> IN
      closes[seed] = 0 => seed \in DOMAIN receivedAccounts

(* Whatever a program serves to readers, on either chain, is what a caller *)
(* of the other program passed to its send, under the same sequence number *)
(* and to the byte: both codecs, the guardians and the stores in between   *)
(* neither lose nor mix anything (getReceivedMessage, Received account).   *)
StoredPayloadsWereSent ==
  /\ \A c \in EvmContracts : \A h \in DOMAIN receivedMessages[c] :
       Message(h.emitterAddress, h.sequence, receivedMessages[c][h]) \in solanaSent
  /\ \A s \in DOMAIN receivedAccounts :
       LET r == receivedAccounts[s] IN
         /\ s = ReceivedSeed(r.hash)
         /\ Message(r.hash.emitterAddress, r.hash.sequence, r.payload) \in evmSent

(* The "sent" accounts and the tracker stay in step: the account of seed n *)
(* holds the message of sequence n - 1, and the next seed is always free,  *)
(* so no send can be blocked by an account an earlier one left behind.     *)
MessageAccountsFollowTracker ==
  /\ DOMAIN messageAccounts = 1 .. sequence[SolanaEmitter]
  /\ \A seed \in DOMAIN messageAccounts :
       /\ messageAccounts[seed].emitterAddress = SolanaEmitter
       /\ messageAccounts[seed].sequence = seed - 1

(* On Solana a chain and sequence number are received again only after the *)
(* owner closed the account that recorded the previous time.               *)
DeliveriesMatchCloses ==
  \A seed \in ReceivedSeeds :
    Cardinality({i \in DOMAIN solanaInbox :
                   <<ChainOf(solanaInbox[i].emitter), solanaInbox[i].sequence>> = seed})
      = closes[seed] + (IF seed \in DOMAIN receivedAccounts THEN 1 ELSE 0)

-----------------------------------------------------------------------------
(* The senders a registration table trusts. *)
TrustedBy(table) == {a \in Emitters : table[ChainOf(a)] = a}

EvmChannel == INSTANCE Channel WITH
  Receivers <- EvmContracts,
  sent      <- sent,
  trusted   <- [c \in EvmContracts |-> TrustedBy(registeredEmitters[c])],
  inbox     <- evmInbox

SolanaChannel == INSTANCE Channel WITH
  Receivers <- {SolanaEmitter},
  sent      <- sent,
  trusted   <- [r \in {SolanaEmitter} |-> TrustedBy(foreignEmitter)],
  inbox     <- [r \in {SolanaEmitter} |-> solanaInbox]

(* Every EVM contract is a receiver that takes each message at most once,  *)
(* unaltered, and only from the emitter registered at that moment, through *)
(* any order of signing, delivery, repetition and re-registration.         *)
EvmImplementsChannel == EvmChannel!Spec

(* So is the Solana program as long as nothing is closed.                  *)
SolanaImplementsChannel == SolanaChannel!Spec
=============================================================================
