----------------------------- MODULE BridgeClient -----------------------------
(***************************************************************************)
(* The bridge's users and its operator.  A user runs test-solana-to-evm    *)
(* and redeem-on-evm, or test-evm-to-solana, or calls the client library:  *)
(* reads the chain, submits a transaction that may land late or fail, and  *)
(* polls for the VAA under the number it was given.  The operator runs     *)
(* initialize-solana and setup-bridges, whose registrations land one after *)
(* the other, and runs them again.  Everyone else signs, posts, redeems    *)
(* and sends through the Token Bridge that all of them share.              *)
(***************************************************************************)
EXTENDS Bridge

CONSTANTS
  SolanaSenders, EvmSenders,  \* runs that send from either chain
  LibraryUsers,               \* those that call the library, not a script
  SolanaUser, EvmUser,        \* the wallets of all of them
  TokenOf,                    \* run -> the token it sends
  ClientAmount,
  Operator,                   \* the operator's Solana wallet
  Nothing,                    \* a local not assigned yet
  MaxRuns                     \* bound on the runs that start

Clients == SolanaSenders \cup EvmSenders

ASSUME ClientAssumption ==
  /\ SolanaSenders \cap EvmSenders = {}
  /\ LibraryUsers \subseteq Clients
  /\ {SolanaUser, Operator} \subseteq SolanaUsers /\ {EvmUser, EvmBridgeOwner} \subseteq EvmUsers
  /\ {SolanaUser, EvmUser} \subseteq Recipients /\ LowBytes[EvmUser] = EvmUser
  /\ TokenOf \in [Clients -> Tokens]
  /\ ClientAmount \in Nat /\ FitsU64(ClientAmount)
  /\ MaxRuns \in Nat

(* What the scripts pass is among what callers of Bridge pass. *)
ASSUME ScriptsAssumption ==
  /\ {SolanaTokenBridge, SolanaProgram} \subseteq Registrations[CHAIN_ID_SOLANA]
  /\ EvmBridge \in Registrations[EvmChain]
  /\ <<100, 10000>> \in RelayerFees
  /\ ClientAmount \in Amounts

VARIABLES
  pc,        \* where each run is
  read,      \* the tracker value or the fee it read before sending
  tx,        \* its send: none, pending, reverted or landed
  own,       \* the transfer its send published (in the receipt's logs on EVM)
  returned,  \* the sequence number the user was given
  polled,    \* the emitter it waits under
  held,      \* the VAA the user fetched
  approved,  \* runs whose token allows the contract to take from their user
  setup      \* "evm": setup-bridges is between its two registrations

clientVars == <<pc, read, tx, own, returned, polled, held, approved>>
allVars == <<vars, clientVars, setup>>

ClientInit ==
  /\ Init
  /\ pc = [c \in Clients |-> "start"]
  /\ read = [c \in Clients |-> Nothing]
  /\ tx = [c \in Clients |-> "none"]
  /\ own = [c \in Clients |-> Nothing]
  /\ returned = [c \in Clients |-> Nothing]
  /\ polled = [c \in Clients |-> Nothing]
  /\ held = [c \in Clients |-> Nothing]
  /\ approved = {}
  /\ setup = "idle"

Goto(c, label) == pc' = [pc EXCEPT ![c] = label]
Starts(c) == pc[c] = "start" /\ Cardinality({d \in Clients : pc[d] # "start"}) < MaxRuns
UserOf(c) == IF c \in SolanaSenders THEN SolanaUser ELSE EvmUser
RecipientOf(c) == IF c \in SolanaSenders THEN EvmUser ELSE SolanaUser
SourceOf(c) == IF c \in SolanaSenders THEN CHAIN_ID_SOLANA ELSE EvmChain
Affords(c) == ClientAmount <= balance[UserOf(c)][TokenOf[c]]

Quiet == UNCHANGED <<vars, setup>>

-----------------------------------------------------------------------------
(* The builder of the library and the script read the Token Bridge's       *)
(* tracker and derive the message account from the next number; the script *)
(* then checks the balance.                                                *)
ReadTracker(c) ==
  /\ c \in SolanaSenders
  /\ Starts(c)
  /\ c \in LibraryUsers \/ Affords(c)
  /\ read' = [read EXCEPT ![c] = tbSequence[CHAIN_ID_SOLANA]]
  /\ tx' = [tx EXCEPT ![c] = "pending"]
  /\ Goto(c, "sending")
  /\ Quiet /\ UNCHANGED <<own, returned, polled, held, approved>>

(* The scripts refuse to start what the balance does not cover. *)
InsufficientBalance(c) ==
  /\ c \notin LibraryUsers
  /\ Starts(c)
  /\ ~Affords(c)
  /\ Goto(c, "stopped")
  /\ Quiet /\ UNCHANGED <<read, tx, own, returned, polled, held, approved>>

CheckBalance(c) ==
  /\ c \in EvmSenders
  /\ Starts(c)
  /\ c \in LibraryUsers \/ Affords(c)
  /\ Goto(c, "checked")
  /\ Quiet /\ UNCHANGED <<read, tx, own, returned, polled, held, approved>>

(* The script approves without limit when the allowance falls short; the   *)
(* library leaves that to its caller.                                      *)
Approve(c) ==
  /\ pc[c] = "checked"
  /\ c \notin approved
  /\ approved' = approved \cup {c}
  /\ Quiet /\ UNCHANGED <<pc, read, tx, own, returned, polled, held>>

(* getWormholeFee, then the send is submitted with exactly that value.     *)
ReadFee(c) ==
  /\ pc[c] = "checked"
  /\ c \in LibraryUsers \cup approved
  /\ read' = [read EXCEPT ![c] = messageFee]
  /\ tx' = [tx EXCEPT ![c] = "pending"]
  /\ Goto(c, "sending")
  /\ Quiet /\ UNCHANGED <<own, returned, polled, held, approved>>

-----------------------------------------------------------------------------
(* The message account the builder derives.  *)
MessageSeed(c) == read[c] + 1

(* The transaction executes, whether its sender still waits or not. *)
Landed(c) ==
  /\ tx' = [tx EXCEPT ![c] = "landed"]
  /\ own' = [own EXCEPT ![c] = CHOOSE m \in transfers' : m \notin transfers]
  /\ UNCHANGED <<pc, read, returned, polled, held, approved, setup>>

(* The script always builds the native send. *)
SolanaSendLands(c) ==
  /\ c \in SolanaSenders
  /\ tx[c] = "pending"
  /\ \/ send_native_tokens_with_payload(SolanaUser, MessageSeed(c), TokenOf[c], ClientAmount,
                                         EvmUser, EvmChain)
     \/ /\ c \in LibraryUsers
        /\ send_wrapped_tokens_with_payload(SolanaUser, MessageSeed(c), TokenOf[c], ClientAmount,
                                            EvmUser, EvmChain)
  /\ UNCHANGED evmVars
  /\ Landed(c)

EvmSendLands(c) ==
  /\ c \in EvmSenders \cap approved
  /\ tx[c] = "pending"
  /\ sendTokensWithPayload(EvmUser, TokenOf[c], ClientAmount, CHAIN_ID_SOLANA, SolanaUser, read[c])
  /\ UNCHANGED solanaVars
  /\ Landed(c)

(* Or fails: another transfer took the number, the fee went up, nothing is *)
(* registered, nothing was approved, the balance is gone, or the script    *)
(* was given a token that is not Solana's.                                 *)
SendReverts(c) ==
  /\ tx[c] = "pending"
  /\ \/ ~Affords(c)
     \/ c \in SolanaSenders /\ ~SendAccounts(MessageSeed(c), EvmChain)
     \/ c \in SolanaSenders \ LibraryUsers /\ HomeChain[TokenOf[c]] # CHAIN_ID_SOLANA
     \/ c \in EvmSenders /\ ( \/ c \notin approved
                              \/ read[c] < messageFee
                              \/ registeredEmitters[CHAIN_ID_SOLANA] = Nobody )
  /\ tx' = [tx EXCEPT ![c] = "reverted"]
  /\ Quiet /\ UNCHANGED <<pc, read, own, returned, polled, held, approved>>

(* Mutant: the script reads the tracker again, as the library does.        *)
PrintedTrackerAfter(c) ==
  IF c \in SolanaSenders THEN tbSequence[CHAIN_ID_SOLANA] ELSE own[c].sequence

(* What the user is told: the script from Solana prints the tracker value  *)
(* it had read; the EVM side finds the number in the receipt.              *)
PrintedSequence(c) == IF c \in SolanaSenders THEN read[c] ELSE own[c].sequence

(* The emitters a user polls under.  redeem-on-evm and SolanaClient's      *)
(* getEmitterAddress name the Token Bridge; test-evm-to-solana and         *)
(* EvmClient's getEmitterAddress name the bridge contract; waitForVAA      *)
(* takes the address as an argument.                                       *)
PolledEmitters(c) ==
  IF c \in SolanaSenders THEN {SolanaTokenBridge}
  ELSE {EvmBridge} \cup (IF c \in LibraryUsers THEN {EvmTokenBridge} ELSE {})

StartWaiting(c) ==
  /\ \E emitter \in PolledEmitters(c) : polled' = [polled EXCEPT ![c] = emitter]
  /\ Goto(c, "waiting")

SendConfirmed(c) ==
  /\ pc[c] = "sending"
  /\ tx[c] = "landed"
  /\ c \in EvmSenders \/ c \notin LibraryUsers
  /\ returned' = [returned EXCEPT ![c] = PrintedSequence(c)]
  /\ IF c \in EvmSenders THEN StartWaiting(c) ELSE Goto(c, "stopped") /\ UNCHANGED polled
  /\ Quiet /\ UNCHANGED <<read, tx, own, held, approved>>

(* sendNativeTokens and sendWrappedTokens read the tracker once more, when *)
(* the send is confirmed, and return that.                                 *)
ReadTrackerAfter(c) ==
  /\ c \in SolanaSenders \cap LibraryUsers
  /\ pc[c] = "sending"
  /\ tx[c] = "landed"
  /\ returned' = [returned EXCEPT ![c] = tbSequence[CHAIN_ID_SOLANA]]
  /\ StartWaiting(c)
  /\ Quiet /\ UNCHANGED <<read, tx, own, held, approved>>

(* The call throws: reverted or, on Solana only, not confirmed by the      *)
(* deadline, in which case it may still land.  tx.wait() has no deadline.  *)
SendFails(c) ==
  /\ pc[c] = "sending"
  /\ tx[c] = "reverted" \/ (c \in SolanaSenders /\ tx[c] = "pending")
  /\ Goto(c, "stopped")
  /\ Quiet /\ UNCHANGED <<read, tx, own, returned, polled, held, approved>>

-----------------------------------------------------------------------------
(* Mutant: what is published counts as signed. *)
PublishedVaas(c) ==
  {v \in transfers :
     v.chain = SourceOf(c) /\ v.emitter = polled[c] /\ v.sequence = returned[c]}

SignedVaas(c) ==
  {v \in signed : v.chain = SourceOf(c) /\ v.emitter = polled[c] /\ v.sequence = returned[c]}

FetchVaa(c) ==
  /\ pc[c] = "waiting"
  /\ \E v \in SignedVaas(c) : held' = [held EXCEPT ![c] = v]
  /\ Goto(c, IF c \in EvmSenders THEN "ensuring" ELSE "redeeming")
  /\ Quiet /\ UNCHANGED <<read, tx, own, returned, polled, approved>>

(* Mutant: the loop has no deadline. *)
WaitNeverTimesOut(c) ==
  /\ FALSE
  /\ UNCHANGED allVars

(* redeem-on-evm asks once a turn of its loop and looks at the clock in    *)
(* between.  The library and test-evm-to-solana await one call that asks   *)
(* until it is answered, so their clock is never looked at again.          *)
WaitTimesOut(c) ==
  /\ c \in SolanaSenders \ LibraryUsers
  /\ pc[c] = "waiting"
  /\ Goto(c, "stopped")
  /\ Quiet /\ UNCHANGED <<read, tx, own, returned, polled, held, approved>>

(* redeemTokens, redeem-on-evm. *)
RedeemEvm(c) ==
  /\ c \in SolanaSenders
  /\ pc[c] = "redeeming"
  /\ redeemTokensWithPayload(held[c])
  /\ Goto(c, "done")
  /\ UNCHANGED <<solanaVars, read, tx, own, returned, polled, held, approved, setup>>

(* Mutant: the account is looked up and not created. *)
EnsureTokenAccountNot(c) ==
  /\ pc[c] = "ensuring"
  /\ Goto(c, "redeeming")
  /\ Quiet /\ UNCHANGED <<read, tx, own, returned, polled, held, approved>>

(* ensureTokenAccount creates what is missing; the script does not call it.*)
ensureTokenAccount(c) ==
  /\ pc[c] = "ensuring"
  /\ IF c \in LibraryUsers /\ <<SolanaUser, held[c].token>> \notin tokenAccounts
     THEN CreateTokenAccount(SolanaUser, held[c].token) ELSE UNCHANGED tbVars
  /\ Goto(c, "redeeming")
  /\ UNCHANGED <<evmVars, solanaVars, read, tx, own, returned, polled, held, approved, setup>>

(* The instruction follows the token's home chain.  Neither the script nor *)
(* the library posts the VAA: whoever did so made this possible.           *)
RedeemSolana(c) ==
  /\ c \in EvmSenders
  /\ pc[c] = "redeeming"
  /\ IF HomeChain[held[c].token] = CHAIN_ID_SOLANA
     THEN redeem_native_transfer_with_payload(SolanaUser, SolanaUser, held[c])
     ELSE redeem_wrapped_transfer_with_payload(SolanaUser, SolanaUser, held[c])
  /\ Goto(c, "done")
  /\ UNCHANGED <<evmVars, read, tx, own, returned, polled, held, approved, setup>>

(* The accounts the builder names are there and pass.                      *)
Redeemable(c) ==
  /\ held[c] \notin completed
  /\ IF c \in SolanaSenders THEN verifyEmitter(held[c]) /\ held[c].to = EvmBridge
                            ELSE RedeemAccounts(SolanaUser, SolanaUser, held[c])

(* Not registered, not posted, no token account, or redeemed by another.   *)
RedeemFails(c) ==
  /\ pc[c] = "redeeming"
  /\ ~Redeemable(c)
  /\ Goto(c, "stopped")
  /\ Quiet /\ UNCHANGED <<read, tx, own, returned, polled, held, approved>>

(* The process is killed, or a call rejects. *)
Interrupt(c) ==
  /\ pc[c] \in {"checked", "sending", "waiting", "ensuring", "redeeming"}
  /\ Goto(c, "stopped")
  /\ Quiet /\ UNCHANGED <<read, tx, own, returned, polled, held, approved>>

(* redeem-on-evm <sequence>, and a library user's next attempt.  Nothing   *)
(* redeems on Solana what test-evm-to-solana left behind.                  *)
RedeemByHand(c) ==
  /\ c \in SolanaSenders \cup LibraryUsers
  /\ pc[c] = "stopped"
  /\ returned[c] # Nothing
  /\ StartWaiting(c)
  /\ Quiet /\ UNCHANGED <<read, tx, own, returned, held, approved>>

ClientStep(c) ==
  \/ ReadTracker(c) \/ InsufficientBalance(c) \/ CheckBalance(c) \/ Approve(c) \/ ReadFee(c)
  \/ SolanaSendLands(c) \/ EvmSendLands(c) \/ SendReverts(c)
  \/ SendConfirmed(c) \/ ReadTrackerAfter(c) \/ SendFails(c)
  \/ FetchVaa(c) \/ WaitTimesOut(c)
  \/ RedeemEvm(c) \/ ensureTokenAccount(c) \/ RedeemSolana(c) \/ RedeemFails(c)
  \/ Interrupt(c) \/ RedeemByHand(c)

-----------------------------------------------------------------------------
(* initialize-solana: a fee of 100/10000, no look at what exists already.  *)
InitializeSolana == initialize(Operator, 100, 10000) /\ UNCHANGED <<evmVars, setup>>

(* setup-bridges registers the Solana Token Bridge's emitter on EVM and    *)
(* waits for that, then registers the contract on Solana.                  *)
SetupEvm ==
  /\ setup = "idle"
  /\ registerEmitter(EvmBridgeOwner, CHAIN_ID_SOLANA, SolanaTokenBridge)
  /\ setup' = "evm"
  /\ UNCHANGED solanaVars

SetupSolana ==
  /\ setup = "evm"
  /\ register_foreign_contract(Operator, EvmChain, EvmBridge)
  /\ setup' = "idle"
  /\ UNCHANGED evmVars

(* It throws, or is interrupted, with half of the work done. *)
SetupStops ==
  /\ setup = "evm"
  /\ setup' = "idle"
  /\ UNCHANGED vars

(* EvmClient.registerEmitter: the program, which transfers to Solana need. *)
RegisterProgram ==
  /\ registerEmitter(EvmBridgeOwner, CHAIN_ID_SOLANA, SolanaProgram)
  /\ UNCHANGED <<solanaVars, setup>>

(* SolanaClient.registerForeignContract, without a setup around it.        *)
registerForeignContract ==
  /\ register_foreign_contract(Operator, EvmChain, EvmBridge)
  /\ UNCHANGED <<evmVars, setup>>

OperatorStep ==
  \/ InitializeSolana \/ SetupEvm \/ SetupSolana \/ SetupStops
  \/ RegisterProgram \/ registerForeignContract

(* Guardians, the fee, those who post VAAs, and other users. *)
OtherUsers ==
  \/ \E fee \in Fees : SetMessageFee(fee) /\ UNCHANGED solanaVars
  \/ /\ \/ \E m \in transfers : SignTransfer(m)
        \/ \E m \in signed : PostTransfer(m)
        \/ \E u \in SolanaUsers, amount \in OtherAmounts, t \in Tokens :
             OtherTransfer(u, t, amount, EvmUser)
     /\ UNCHANGED <<evmVars, solanaVars>>
  \/ \E vm \in signed : redeemTokensWithPayload(vm) /\ UNCHANGED solanaVars
  \/ /\ \E payer \in SolanaUsers, vaa \in posted :
          redeem_wrapped_transfer_with_payload(payer, vaa.recipient, vaa)
     /\ UNCHANGED evmVars

ClientNext ==
  \/ \E c \in Clients : ClientStep(c)
  \/ (OperatorStep /\ UNCHANGED clientVars)
  \/ (OtherUsers /\ UNCHANGED <<clientVars, setup>>)

ClientSpec == ClientInit /\ [][ClientNext]_allVars

-----------------------------------------------------------------------------
(* Every await of a run settles, except that of an EVM receipt and that of *)
(* a VAA nobody signs.                                                     *)
RunsProgress ==
  \A c \in Clients :
    /\ WF_allVars(ReadFee(c))
    /\ WF_allVars(SendConfirmed(c) \/ ReadTrackerAfter(c) \/ SendFails(c))
    /\ WF_allVars(FetchVaa(c) \/ WaitTimesOut(c))
    /\ WF_allVars(ensureTokenAccount(c))
    /\ WF_allVars(c \in EvmSenders /\ (RedeemSolana(c) \/ RedeemFails(c)))

FairClientSpec == ClientSpec /\ RunsProgress

(* What a run has sent to the EVM chain is mined in the end: the approval  *)
(* and the send of one, the redemption of the other.                       *)
EvmMines(c) ==
  WF_allVars(\/ c \in EvmSenders /\ (Approve(c) \/ EvmSendLands(c) \/ SendReverts(c))
             \/ c \in SolanaSenders /\ (RedeemEvm(c) \/ RedeemFails(c)))

(* An attempt to redeem ends because the VAA is not there to be found or   *)
(* the redemption is refused, and for no other reason.                     *)
EndsForCause(c) ==
  pc[c] \in {"waiting", "ensuring", "redeeming"} /\ pc'[c] = "stopped" =>
    \/ pc[c] = "waiting" /\ SignedVaas(c) = {}
    \/ pc[c] = "redeeming" /\ ~Redeemable(c)

(* Guardians sign and somebody posts.                                      *)
OthersServe ==
  \A ch \in Chains : \A n \in 0 .. MaxTransfers[ch] - 1 :
    /\ WF_allVars(/\ \E m \in transfers : m.chain = ch /\ m.sequence = n /\ SignTransfer(m)
                  /\ UNCHANGED <<evmVars, solanaVars, clientVars, setup>>)
    /\ WF_allVars(/\ \E m \in signed : m.chain = ch /\ m.sequence = n /\ PostTransfer(m)
                  /\ UNCHANGED <<evmVars, solanaVars, clientVars, setup>>)

(* A user who wants the transfer through tries again, by and by under the  *)
(* Token Bridge's address, breaks off a wait that finds nothing, and is    *)
(* interrupted or impatient otherwise finitely often only.                 *)
UserPersists(c) ==
  /\ SF_allVars(RedeemByHand(c) /\ polled'[c] = TokenBridgeOf(SourceOf(c)))
  /\ WF_allVars(pc[c] = "waiting" /\ SignedVaas(c) = {} /\ Interrupt(c))
  /\ <>[][EndsForCause(c)]_allVars

-----------------------------------------------------------------------------
(* What a run holds is signed, came from the chain it sent from, and bears *)
(* the number its user was given.                                          *)
BridgeClientTypeOK ==
  /\ pc \in [Clients -> {"start", "checked", "sending", "waiting", "ensuring", "redeeming",
                         "stopped", "done"}]
  /\ read \in [Clients -> Nat \cup {Nothing}]
  /\ tx \in [Clients -> {"none", "pending", "reverted", "landed"}]
  /\ own \in [Clients -> transfers \cup {Nothing}]
  /\ returned \in [Clients -> Nat \cup {Nothing}]
  /\ polled \in [Clients -> {SolanaTokenBridge, EvmTokenBridge, EvmBridge, Nothing}]
  /\ \A c \in Clients : pc[c] = "waiting" => polled[c] \in PolledEmitters(c)
  /\ held \in [Clients -> signed \cup {Nothing}]
  /\ approved \subseteq EvmSenders
  /\ setup \in {"idle", "evm"}

(* The runs that were told the number of their transfer: all but those who *)
(* sent from Solana through the library.                                   *)
Informed == Clients \ (SolanaSenders \cap LibraryUsers)

(* The tracker read before a send from Solana is the number of the         *)
(* client's own transfer, whatever others send through the same Token      *)
(* Bridge meanwhile: the message account's seed lets no transaction built  *)
(* on a stale read land.                                                   *)
TrackerBeforeNamesTransfer ==
  \A c \in SolanaSenders : own[c] # Nothing => own[c].sequence = read[c]

(* A user never redeems another's transfer for the user's own: what is     *)
(* fetched under the number the user was given is the transfer the run     *)
(* sent, and a run that ends well saw it paid in full to the recipient.    *)
OwnTransferRedeemed ==
  \A c \in Informed :
    /\ held[c] # Nothing => held[c] = own[c]
    /\ pc[c] = "done" =>
         [transfer |-> own[c], recipient |-> RecipientOf(c), toRedeemer |-> 0,
          toRecipient |-> Payout(own[c].toChain, own[c])] \in evmPayouts \cup solanaPayouts

(* The wait that nothing answers: under the wrong emitter, for a number    *)
(* that was never published, or that the guardians never sign.             *)
Unanswered(c) ==
  pc[c] = "waiting" /\ c \notin SolanaSenders \ LibraryUsers /\ SignedVaas(c) = {}

(* A run whose EVM transactions are mined ends, unless it is one of those  *)
(* that poll without a deadline and is never answered: no other await      *)
(* hangs, whatever reverts, is stale, or was redeemed by somebody else.    *)
RunsEnd ==
  \A c \in Clients :
    EvmMines(c) => (pc[c] # "start" ~> (pc[c] \in {"stopped", "done"} \/ []Unanswered(c)))

PaidOut(c) == \E p \in evmPayouts \cup solanaPayouts : p.transfer = own[c]

(* A transfer whose number its user knows is paid in the end, once the     *)
(* registrations that redemption needs settle, wherever runs and setups    *)
(* were interrupted.  To Solana it also had to name the program, and only  *)
(* a library user can go on.                                               *)
TransfersGetThrough ==
  /\ \A c \in SolanaSenders \ LibraryUsers :
       /\ OthersServe /\ UserPersists(c) /\ EvmMines(c)
       /\ <>[](registeredEmitters[CHAIN_ID_SOLANA] = SolanaTokenBridge)
       => (returned[c] # Nothing ~> PaidOut(c))
  /\ \A c \in EvmSenders \cap LibraryUsers :
       /\ OthersServe /\ UserPersists(c)
       /\ <>[](foreignContract[EvmChain] = EvmBridge)
       => (returned[c] # Nothing /\ own[c].to = SolanaProgram ~> PaidOut(c))

-----------------------------------------------------------------------------
(* Two claims the code does not keep.  solana-client.ts of the messenger,  *)
(* lines 154-155: "VAA will have currentSequence", the tracker's value     *)
(* before the send; the bridge library returns the value after it as the   *)
(* transfer's sequence.                                                    *)
ReturnedSequenceNamesTransfer ==
  \A c \in Clients : returned[c] # Nothing => returned[c] = own[c].sequence

(* client/README.md:36-38, of test-evm-to-solana: "Wait for VAA", "Redeem  *)
(* on Solana".  A run that waits, its transfer signed, polls for it.       *)
WaitFindsOwnTransfer ==
  \A c \in EvmSenders \ LibraryUsers :
    pc[c] = "waiting" /\ own[c] \in signed => own[c] \in SignedVaas(c)
=============================================================================
