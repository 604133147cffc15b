--------------------------- MODULE MessengerClient ---------------------------
(***************************************************************************)
(* The client scripts on top of the deployed messenger: a run of           *)
(* test-solana-to-evm or test-evm-to-solana reads what it needs from the   *)
(* chain, submits its send, waits for it to be confirmed, polls for the    *)
(* VAA and redeems it on the other side.  Runs are concurrent, what they   *)
(* read may be stale when their transaction lands, they give up on a       *)
(* deadline, are interrupted, and are finished by hand with redeem-on-*.   *)
(***************************************************************************)
EXTENDS Messenger

CONSTANTS
  SolanaSenders,  \* runs of test-solana-to-evm
  EvmSenders,     \* runs of test-evm-to-solana
  Contract,       \* the configured EVM contract (EVM_MESSENGER_ADDRESS)
  Nothing         \* a local not assigned yet

Clients == SolanaSenders \cup EvmSenders
PayloadOf(c) == [data |-> c, length |-> 1]

ASSUME ClientsAssumption ==
  /\ SolanaSenders \cap EvmSenders = {}
  /\ \A c \in Clients : PayloadOf(c) \in Payloads
ASSUME ContractAssumption == Contract \in EvmContracts

VARIABLES
  pc,        \* where each run is
  read,      \* the tracker value or the fee it read before sending
  tx,        \* its send: none, pending, reverted or landed
  logged,    \* the sequence number in the logs of its EVM send
  returned,  \* what sendMessage returned and the script printed
  held       \* the VAA waitForVAA returned

clientVars == <<pc, read, tx, logged, returned, held>>
allVars == <<vars, clientVars>>

ClientInit ==
  /\ pc = [c \in Clients |-> "start"]
  /\ read = [c \in Clients |-> Nothing]
  /\ tx = [c \in Clients |-> "none"]
  /\ logged = [c \in Clients |-> Nothing]
  /\ returned = [c \in Clients |-> Nothing]
  /\ held = [c \in Clients |-> Nothing]

Goto(c, label) == pc' = [pc EXCEPT ![c] = label]

EmitterOf(c) == IF c \in SolanaSenders THEN SolanaEmitter ELSE Contract

-----------------------------------------------------------------------------
(* Solana sendMessage: fetches the config, reads the tracker and derives   *)
(* the address of the message account from the value read plus one.        *)
ReadTracker(c) ==
  /\ c \in SolanaSenders
  /\ pc[c] = "start"
  /\ owner # NoUser
  /\ read' = [read EXCEPT ![c] = sequence[SolanaEmitter]]
  /\ tx' = [tx EXCEPT ![c] = "pending"]
  /\ Goto(c, "sending")
  /\ UNCHANGED <<vars, logged, returned, held>>

(* EVM sendMessage: reads the fee, or falls back on 0 when the call fails, *)
(* and pays exactly that.                                                  *)
ReadFee(c) ==
  /\ c \in EvmSenders
  /\ pc[c] = "start"
  /\ \E fee \in {messageFee, 0} : read' = [read EXCEPT ![c] = fee]
  /\ tx' = [tx EXCEPT ![c] = "pending"]
  /\ Goto(c, "sending")
  /\ UNCHANGED <<vars, logged, returned, held>>

(* The transaction executes, whether its sender still waits or not.        *)
SolanaSendLands(c) ==
  /\ c \in SolanaSenders
  /\ tx[c] = "pending"
  /\ send_message(read[c] + 1, PayloadOf(c))
  /\ tx' = [tx EXCEPT ![c] = "landed"]
  /\ UNCHANGED <<evmVars, pc, read, logged, returned, held>>

EvmSendLands(c) ==
  /\ c \in EvmSenders
  /\ tx[c] = "pending"
  /\ sendMessage(Contract, PayloadOf(c), read[c])
  /\ tx' = [tx EXCEPT ![c] = "landed"]
  /\ logged' = [logged EXCEPT ![c] = sequence[Contract]]
  /\ UNCHANGED <<solanaVars, pc, read, returned, held>>

(* Or fails: the account is not the one the program derives any more, or   *)
(* the fee went up.                                                        *)
SendReverts(c) ==
  /\ tx[c] = "pending"
  /\ IF c \in SolanaSenders THEN ~SendMessageAccounts(read[c] + 1)
                            ELSE read[c] < messageFee
  /\ tx' = [tx EXCEPT ![c] = "reverted"]
  /\ UNCHANGED <<vars, pc, read, logged, returned, held>>

(* Mutant: the Solana client reads the tracker again once confirmed.       *)
ReturnedFromTracker(c) ==
  IF c \in SolanaSenders THEN sequence[SolanaEmitter] - 1 ELSE logged[c]

(* What sendMessage returns: Solana's client the value it had read, the    *)
(* EVM's the number in the receipt.                                        *)
ReturnedSequence(c) == IF c \in SolanaSenders THEN read[c] ELSE logged[c]

SendConfirmed(c) ==
  /\ pc[c] = "sending"
  /\ tx[c] = "landed"
  /\ returned' = [returned EXCEPT ![c] = ReturnedSequence(c)]
  /\ Goto(c, "waiting")
  /\ UNCHANGED <<vars, read, tx, logged, held>>

(* sendMessage throws: reverted, or not confirmed by the deadline, in      *)
(* which case the transaction may still be pending.                        *)
SendFails(c) ==
  /\ pc[c] = "sending"
  /\ tx[c] \in {"pending", "reverted", "landed"}
  /\ Goto(c, "stopped")
  /\ UNCHANGED <<vars, read, tx, logged, returned, held>>

-----------------------------------------------------------------------------
(* Mutant: what is published counts as signed. *)
PublishedMessages(c) ==
  {v \in published : v.emitterAddress = EmitterOf(c) /\ v.sequence = returned[c]}

(* waitForVAA polls by emitter and sequence number.                        *)
SignedVaas(c) ==
  {v \in vaas : v.emitterAddress = EmitterOf(c) /\ v.sequence = returned[c]}

FetchVaa(c) ==
  /\ pc[c] = "waiting"
  /\ \E v \in SignedVaas(c) : held' = [held EXCEPT ![c] = v]
  /\ Goto(c, IF c \in SolanaSenders THEN "redeeming" ELSE "posting")
  /\ UNCHANGED <<vars, read, tx, logged, returned>>

(* Mutant: polling has no deadline. *)
WaitNeverTimesOut(c) ==
  /\ FALSE
  /\ UNCHANGED allVars

WaitTimesOut(c) ==
  /\ pc[c] = "waiting"
  /\ Goto(c, "stopped")
  /\ UNCHANGED <<vars, read, tx, logged, returned, held>>

RedeemEvm(c) ==
  /\ c \in SolanaSenders
  /\ pc[c] = "redeeming"
  /\ receiveMessage(Contract, held[c])
  /\ Goto(c, "done")
  /\ UNCHANGED <<solanaVars, read, tx, logged, returned, held>>

(* Mutant: posting a VAA that is already there is an error. *)
PostVaaOnce(c) ==
  /\ pc[c] = "posting"
  /\ post_vaa(held[c])
  /\ Goto(c, "redeeming")
  /\ UNCHANGED <<evmVars, read, tx, logged, returned, held>>

(* postVaaWithRetry; a VAA that is posted already is left as it is.        *)
PostVaa(c) ==
  /\ pc[c] = "posting"
  /\ \/ post_vaa(held[c])
     \/ held[c] \in postedVaas /\ UNCHANGED <<coreVars, solanaVars>>
  /\ Goto(c, "redeeming")
  /\ UNCHANGED <<evmVars, read, tx, logged, returned, held>>

RedeemSolana(c) ==
  /\ c \in EvmSenders
  /\ pc[c] = "redeeming"
  /\ receive_message(held[c])
  /\ Goto(c, "done")
  /\ UNCHANGED <<evmVars, read, tx, logged, returned, held>>

Redeemable(c) ==
  IF c \in SolanaSenders
  THEN verifyEmitter(Contract, held[c]) /\ ~isMessageConsumed(Contract, held[c])
  ELSE ReceiveMessageAccounts(held[c])

(* Mutant: a failed redemption is taken for one that was not needed. *)
RedeemFailsQuietly(c) ==
  /\ pc[c] = "redeeming"
  /\ ~Redeemable(c)
  /\ Goto(c, "done")
  /\ UNCHANGED <<vars, read, tx, logged, returned, held>>

(* The redeeming transaction fails: not registered, or already received.   *)
RedeemFails(c) ==
  /\ pc[c] = "redeeming"
  /\ ~Redeemable(c)
  /\ Goto(c, "stopped")
  /\ UNCHANGED <<vars, read, tx, logged, returned, held>>

(* Ctrl+C, a rate limit, a network error: the process ends where it is.    *)
Interrupt(c) ==
  /\ pc[c] \in {"waiting", "posting", "redeeming"}
  /\ Goto(c, "stopped")
  /\ UNCHANGED <<vars, read, tx, logged, returned, held>>

(* A redeem script started by hand with the number the run printed: one    *)
(* look for the VAA, then the same redemption.                             *)
FetchByHand(c) ==
  /\ pc[c] = "stopped"
  /\ returned[c] # Nothing
  /\ \E v \in SignedVaas(c) : held' = [held EXCEPT ![c] = v]
  /\ UNCHANGED <<vars, read, tx, logged, returned>>

redeem_on_evm(c) == c \in SolanaSenders /\ FetchByHand(c) /\ Goto(c, "redeeming")
redeem_on_solana(c) == c \in EvmSenders /\ FetchByHand(c) /\ Goto(c, "posting")

RedeemByHand(c) == redeem_on_evm(c) \/ redeem_on_solana(c)

ClientStep(c) ==
  \/ ReadTracker(c) \/ ReadFee(c)
  \/ SolanaSendLands(c) \/ EvmSendLands(c) \/ SendReverts(c)
  \/ SendConfirmed(c) \/ SendFails(c)
  \/ FetchVaa(c) \/ WaitTimesOut(c)
  \/ RedeemEvm(c) \/ PostVaa(c) \/ RedeemSolana(c) \/ RedeemFails(c)
  \/ Interrupt(c) \/ RedeemByHand(c)

-----------------------------------------------------------------------------
(* Around the runs: the owners set the system up and change registrations, *)
(* guardians sign, the fee moves, others redeem what is public.            *)
Others ==
  /\ \/ GuardianStep
     \/ /\ \/ \E vm \in vaas : receiveMessage(Contract, vm)
           \/ \E u \in Users, ch \in Chains, a \in Candidates :
                registerEmitter(Contract, u, ch, a)
        /\ UNCHANGED solanaVars
     \/ /\ \/ \E u \in Users : initialize(u)
           \/ \E u \in Users, ch \in Chains, a \in Candidates : register_emitter(u, ch, a)
           \/ \E v \in vaas : post_vaa(v)
           \/ \E v \in postedVaas : receive_message(v)
        /\ UNCHANGED evmVars
  /\ UNCHANGED clientVars

ClientsInit == Init /\ ClientInit
ClientsNext == Others \/ \E c \in Clients : ClientStep(c)
ClientsSpec == ClientsInit /\ [][ClientsNext]_allVars

(* Every await of a run resolves or rejects, except that of the receipt of *)
(* a redemption on EVM: tx.wait() has no deadline.                         *)
RunsProgress ==
  /\ \A c \in Clients :
       /\ WF_allVars(SendConfirmed(c) \/ SendFails(c))
       /\ WF_allVars(FetchVaa(c) \/ WaitTimesOut(c))
       /\ WF_allVars(PostVaa(c))
  /\ \A c \in EvmSenders : WF_allVars(RedeemSolana(c) \/ RedeemFails(c))

(* A redemption sent to the EVM chain is mined in the end. *)
EvmMines == \A c \in SolanaSenders : WF_allVars(RedeemEvm(c) \/ RedeemFails(c))

(* A user who wants the message through starts the redemption again after  *)
(* every interruption, and one attempt in the end is not interrupted; the  *)
(* guardians sign what they observe.                                       *)
UserPersists ==
  /\ \A a \in Emitters : \A n \in 0 .. MaxSequence[a] - 1 :
       WF_allVars(/\ \E m \in published :
                       m.emitterAddress = a /\ m.sequence = n /\ Sign(m)
                  /\ UNCHANGED <<evmVars, solanaVars, clientVars>>)
  /\ \A c \in Clients :
       /\ SF_allVars(RedeemByHand(c))
       /\ SF_allVars(PostVaa(c))
       /\ SF_allVars(RedeemEvm(c))
       /\ SF_allVars(RedeemSolana(c))

FairClientsSpec == ClientsSpec /\ RunsProgress

-----------------------------------------------------------------------------
ClientsTypeOK ==
  /\ pc \in [Clients -> {"start", "sending", "waiting", "posting", "redeeming",
                         "stopped", "done"}]
  /\ read \in [Clients -> Nat \cup {Nothing}]
  /\ tx \in [Clients -> {"none", "pending", "reverted", "landed"}]
  /\ logged \in [Clients -> Nat \cup {Nothing}]
  /\ returned \in [Clients -> Nat \cup {Nothing}]
  /\ held \in [Clients -> vaas \cup {Nothing}]

(* A run that fetched a VAA by the number sendMessage returned holds its   *)
(* own message, however many senders race: a run whose tracker value was   *)
(* stale cannot land, so a number returned is a number earned.             *)
FetchedIsOwn ==
  \A c \in Clients : held[c] # Nothing => Carried(held[c]).payload = PayloadOf(c)

(* A run that ended well delivered its message; one that sent nothing      *)
(* never claims a number.                                                  *)
DoneMeansDelivered ==
  \A c \in Clients :
    LET m == Message(EmitterOf(c), returned[c], PayloadOf(c)) IN
      /\ returned[c] # Nothing => m \in sent
      /\ pc[c] = "done" =>
           \E i \in DOMAIN (IF c \in SolanaSenders THEN evmInbox[Contract] ELSE solanaInbox) :
             m = (IF c \in SolanaSenders THEN evmInbox[Contract] ELSE solanaInbox)[i]

(* No run hangs in an await, even when nothing is ever signed and no send  *)
(* is ever mined: the one await that may never settle is that of the       *)
(* receipt of a redemption on EVM.                                         *)
RunsEnd ==
  /\ \A c \in Clients : pc[c] = "sending" ~>
       \/ pc[c] \in {"stopped", "done"}
       \/ c \in SolanaSenders /\ pc[c] = "redeeming"
  /\ EvmMines => \A c \in Clients : pc[c] = "sending" ~> pc[c] \in {"stopped", "done"}

(* A message whose number the user knows gets through, as long as the      *)
(* registrations settle, wherever its runs were interrupted: between the   *)
(* posting of the VAA and its reception too, and whoever posted it.        *)
KnownMessagesGetThrough ==
  UserPersists =>
    /\ <>[](registeredEmitters[Contract][CHAIN_ID_SOLANA] = SolanaEmitter) =>
         \A c \in SolanaSenders :
           returned[c] # Nothing ~>
             \E i \in DOMAIN evmInbox[Contract] : evmInbox[Contract][i].payload = PayloadOf(c)
    /\ <>[](foreignEmitter[EvmChain] = Contract) =>
         \A c \in EvmSenders :
           returned[c] # Nothing ~>
             \E i \in DOMAIN solanaInbox : solanaInbox[i].payload = PayloadOf(c)
=============================================================================
