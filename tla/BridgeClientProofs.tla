-------------------------- MODULE BridgeClientProofs --------------------------
(***************************************************************************)
(* Proofs about the bridge's scripts and the callers of its library, for   *)
(* any number of runs, tokens, other users and registrations.              *)
(***************************************************************************)
EXTENDS BridgeClient, BridgeProofs

Labels == {"start", "checked", "sending", "waiting", "ensuring", "redeeming", "stopped", "done"}

TargetOf(c) == IF c \in SolanaSenders THEN EvmChain ELSE CHAIN_ID_SOLANA

(* The transfer that went out when the run's transaction landed: under the *)
(* tracker value the run had read, if it came from Solana.                 *)
SentOwn(c) ==
  /\ tx[c] = "landed"
  /\ own[c] \in transfers
  /\ own[c].chain = SourceOf(c) /\ own[c].toChain = TargetOf(c)
  /\ own[c].recipient = RecipientOf(c)
  /\ c \in SolanaSenders => own[c].sequence = read[c]

Told(c) == SentOwn(c) /\ (c \in Informed => returned[c] = own[c].sequence)

Holds(c) == Told(c) /\ held[c] \in signed /\ (c \in Informed => held[c] = own[c])

OwnPayout(c) ==
  [transfer |-> own[c], recipient |-> RecipientOf(c), toRedeemer |-> 0,
   toRecipient |-> Payout(own[c].toChain, own[c])]

(* What a run's locals say of the chains, at each await.                   *)
RunInv(c) ==
  /\ pc[c] \in {"start", "checked"} => tx[c] = "none"
  /\ pc[c] = "checked" => c \in EvmSenders
  /\ tx[c] = "pending" => read[c] \in (IF c \in SolanaSenders THEN Nat ELSE Fees)
  /\ tx[c] = "landed" \/ own[c] # Nothing => SentOwn(c)
  /\ pc[c] \in {"waiting", "ensuring", "redeeming", "done"} \/ returned[c] # Nothing => Told(c)
  /\ pc[c] \in {"ensuring", "redeeming", "done"} \/ held[c] # Nothing => Holds(c)
  /\ pc[c] = "done" /\ c \in Informed => OwnPayout(c) \in evmPayouts \cup solanaPayouts

CInv ==
  /\ tokenAccounts \subseteq SolanaUsers \X Tokens
  /\ BridgeClientTypeOK
  /\ \A c \in Clients : RunInv(c)

(* Before any run the locals are unassigned and nobody is told anything.   *)
LEMMA InitCInv == ClientInit => CInv
BY TokensAssumption
   DEF ClientInit, Init, TbInit, CInv, BridgeClientTypeOK, RunInv, SentOwn, Told, Holds

-----------------------------------------------------------------------------
(* Who the scripts act for, and with what. *)
LEMMA Scripted ==
  /\ SolanaUser \in SolanaUsers /\ Operator \in SolanaUsers
  /\ EvmUser \in EvmUsers /\ EvmBridgeOwner \in EvmUsers
  /\ SolanaUser \in Recipients /\ EvmUser \in Recipients
  /\ ClientAmount \in Amounts /\ ClientAmount \in Nat
  /\ TokenOf \in [Clients -> Tokens]
  /\ SolanaTokenBridge \in Registrations[CHAIN_ID_SOLANA]
  /\ SolanaProgram \in Registrations[CHAIN_ID_SOLANA]
  /\ EvmBridge \in Registrations[EvmChain]
  /\ CHAIN_ID_SOLANA \in Chains /\ EvmChain \in Chains
BY ClientAssumption, ScriptsAssumption, Parties

(* Sends from Solana, as Bridge has them. *)
LEMMA SendsRefine ==
  ASSUME NEW u \in SolanaUsers, NEW seed \in 1 .. MaxTransfers[CHAIN_ID_SOLANA],
         NEW t \in Tokens, NEW amount \in Amounts, NEW r \in Recipients, NEW ch \in Chains,
         \/ send_native_tokens_with_payload(u, seed, t, amount, r, ch)
         \/ send_wrapped_tokens_with_payload(u, seed, t, amount, r, ch),
         UNCHANGED evmVars
  PROVE  Next
BY DEF Next, SolanaStep, SolanaSteps

(* A run's redemption is one the bridge offers to anyone.                  *)
LEMMA RedeemsRefine ==
  ASSUME NEW payer \in SolanaUsers, NEW recipient \in SolanaUsers, NEW vaa \in signed,
         \/ redeem_native_transfer_with_payload(payer, recipient, vaa)
         \/ redeem_wrapped_transfer_with_payload(payer, recipient, vaa),
         UNCHANGED evmVars
  PROVE  Next
BY DEF Next, SolanaStep, SolanaSteps

(* A run's step is a call anyone could have made, or none.                 *)
LEMMA ClientStepRefines ==
  ASSUME BInv, CInv, NEW c \in Clients, ClientStep(c)
  PROVE  [Next]_vars
<1>1. RunInv(c) /\ TokenOf[c] \in Tokens
  BY Scripted DEF CInv
<1>2. CASE SolanaSendLands(c)
  <2>1. tbSequence[CHAIN_ID_SOLANA] \in Nat /\ MaxTransfers[CHAIN_ID_SOLANA] \in Nat
    BY TokensAssumption, Scripted DEF BInv, BridgeTypeOK
  <2>2. MessageSeed(c) \in 1 .. MaxTransfers[CHAIN_ID_SOLANA]
    <3>1. /\ MessageSeed(c) = tbSequence[CHAIN_ID_SOLANA] + 1
          /\ tbSequence[CHAIN_ID_SOLANA] < MaxTransfers[CHAIN_ID_SOLANA]
      BY <1>2 DEF SolanaSendLands, send_native_tokens_with_payload,
         send_wrapped_tokens_with_payload, SendNativeAccounts, SendWrappedAccounts, SendAccounts,
         Send, TbTransfer, Transfer
    <3> QED
      BY <2>1, <3>1
  <2>3. /\ \/ send_native_tokens_with_payload(SolanaUser, MessageSeed(c), TokenOf[c],
                                              ClientAmount, EvmUser, EvmChain)
           \/ send_wrapped_tokens_with_payload(SolanaUser, MessageSeed(c), TokenOf[c],
                                               ClientAmount, EvmUser, EvmChain)
        /\ UNCHANGED evmVars
    BY <1>2 DEF SolanaSendLands
  <2> QED
    BY <1>1, <2>2, <2>3, Scripted, SendsRefine
<1>3. CASE EvmSendLands(c)
  <2>1. read[c] \in Fees
    BY <1>1, <1>3, ClientAssumption DEF EvmSendLands, RunInv
  <2> QED
    BY <1>1, <1>3, <2>1, Scripted DEF EvmSendLands, Next, EvmStep
<1>4. CASE RedeemEvm(c)
  <2>1. held[c] \in signed
    BY <1>1, <1>4 DEF RedeemEvm, RunInv, Holds
  <2> QED
    BY <1>4, <2>1 DEF RedeemEvm, Next, EvmStep
<1>5. CASE ensureTokenAccount(c)
  <2>1. held[c].token \in Tokens
    BY <1>1, <1>5 DEF ensureTokenAccount, RunInv, Holds, BInv, BridgeTypeOK, TransfersInv
  <2>2. CASE CreateTokenAccount(SolanaUser, held[c].token) /\ UNCHANGED <<evmVars, solanaVars>>
    BY <2>1, <2>2, Scripted DEF Next, OtherStep
  <2>3. CASE UNCHANGED <<tbVars, evmVars, solanaVars>>
    BY <2>3 DEF vars
  <2> QED
    BY <1>5, <2>2, <2>3 DEF ensureTokenAccount
<1>6. CASE RedeemSolana(c)
  <2>1. held[c] \in signed
    BY <1>1, <1>6 DEF RedeemSolana, RunInv, Holds
  <2> QED
    BY <1>6, <2>1, Scripted, RedeemsRefine DEF RedeemSolana
<1>7. CASE UNCHANGED vars
  BY <1>7
<1> QED
  BY <1>2, <1>3, <1>4, <1>5, <1>6, <1>7 DEF ClientStep, Quiet, ReadTracker, InsufficientBalance,
     CheckBalance, Approve, ReadFee, SendReverts, SendConfirmed, ReadTrackerAfter, SendFails,
     FetchVaa, WaitTimesOut, RedeemFails, Interrupt, RedeemByHand

(* Each of the operator's calls is a call some caller of Bridge may make.  *)
LEMMA OperatorStepRefines == OperatorStep => [Next]_vars
<1> SUFFICES ASSUME OperatorStep PROVE [Next]_vars
  OBVIOUS
<1> USE Scripted
<1>1. CASE /\ \E a \in {SolanaTokenBridge, SolanaProgram} :
                registerEmitter(EvmBridgeOwner, CHAIN_ID_SOLANA, a)
           /\ UNCHANGED solanaVars
  BY <1>1 DEF Next, EvmStep
<1>2. CASE register_foreign_contract(Operator, EvmChain, EvmBridge) /\ UNCHANGED evmVars
  BY <1>2 DEF Next, SolanaStep, SolanaSteps
<1>3. CASE initialize(Operator, 100, 10000) /\ UNCHANGED evmVars
  <2> DEFINE f == <<100, 10000>>
  <2>1. f \in RelayerFees /\ initialize(Operator, f[1], f[2])
    BY <1>3, ScriptsAssumption
  <2> HIDE DEF f
  <2> QED
    BY <1>3, <2>1 DEF Next, SolanaStep, SolanaSteps
<1> QED
  BY <1>1, <1>2, <1>3 DEF OperatorStep, InitializeSolana, SetupEvm, SetupSolana, SetupStops,
     RegisterProgram, registerForeignContract

(* What others do beside the runs is what Bridge lets them do.             *)
LEMMA OtherUsersRefine ==
  ASSUME BInv, CInv, OtherUsers
  PROVE  Next
<1>1. CASE \/ \E fee \in Fees : SetMessageFee(fee) /\ UNCHANGED solanaVars
           \/ /\ \/ \E m \in transfers : SignTransfer(m)
                 \/ \E m \in signed : PostTransfer(m)
              /\ UNCHANGED <<evmVars, solanaVars>>
  BY <1>1 DEF Next, OtherStep
<1>2. CASE /\ \E u \in SolanaUsers, amount \in OtherAmounts, t \in Tokens :
                OtherTransfer(u, t, amount, EvmUser)
           /\ UNCHANGED <<evmVars, solanaVars>>
  BY <1>2, Scripted DEF Next, OtherStep, Users
<1>3. CASE \E vm \in signed : redeemTokensWithPayload(vm) /\ UNCHANGED solanaVars
  BY <1>3 DEF Next, EvmStep
<1>4. ASSUME NEW payer \in SolanaUsers, NEW vaa \in posted,
             redeem_wrapped_transfer_with_payload(payer, vaa.recipient, vaa), UNCHANGED evmVars
      PROVE  Next
  <2>1. vaa \in signed
    BY DEF BInv, BridgeTypeOK
  <2>2. <<vaa.recipient, vaa.token>> \in tokenAccounts
    BY <1>4 DEF redeem_wrapped_transfer_with_payload, RedeemWrappedAccounts, RedeemAccounts
  <2>3. vaa.recipient \in SolanaUsers
    BY <2>2 DEF CInv
  <2> QED
    BY <1>4, <2>1, <2>3, RedeemsRefine
<1> QED
  BY <1>1, <1>2, <1>3, <1>4 DEF OtherUsers

(* Every step of runs, operator and others is a bridge step or a stutter.  *)
LEMMA ClientNextRefines == BInv /\ CInv /\ [ClientNext]_allVars => [Next]_vars
BY ClientStepRefines, OperatorStepRefines, OtherUsersRefine DEF ClientNext, allVars

-----------------------------------------------------------------------------
(* Nothing published, signed or paid is ever taken back.                   *)
LEMMA NextGrows ==
  ASSUME BInv, [Next]_vars
  PROVE  /\ transfers \subseteq transfers' /\ signed \subseteq signed'
         /\ evmPayouts \cup solanaPayouts \subseteq (evmPayouts \cup solanaPayouts)'
         /\ tokenAccounts \subseteq SolanaUsers \X Tokens =>
              tokenAccounts' \subseteq SolanaUsers \X Tokens
<1>1. transfers \subseteq transfers'
      /\ evmPayouts \cup solanaPayouts \subseteq (evmPayouts \cup solanaPayouts)'
  BY NextKinds DEF Sending, Enters, Paying, Pays, Arranging
<1>2. /\ signed \subseteq signed'
      /\ tokenAccounts \subseteq SolanaUsers \X Tokens =>
           tokenAccounts' \subseteq SolanaUsers \X Tokens
  <2>1. CASE EvmStep
    <3>1. CASE \E u \in EvmUsers, t \in Tokens, amount \in Amounts, ch \in Chains,
                  r \in Recipients, value \in Fees :
                 sendTokensWithPayload(u, t, amount, ch, r, value)
      BY <3>1 DEF sendTokensWithPayload, TbTransfer
    <3>2. CASE \E vm \in signed : redeemTokensWithPayload(vm)
      BY <3>2 DEF redeemTokensWithPayload, TbComplete
    <3>3. CASE \/ \E caller \in EvmUsers, ch \in Chains : \E a \in Registrations[ch] :
                    registerEmitter(caller, ch, a)
               \/ \E caller \in EvmUsers, f \in EvmRelayerFees :
                    updateRelayerFee(caller, f[1], f[2])
      BY <3>3 DEF registerEmitter, updateRelayerFee, tbVars
    <3> QED
      BY <2>1, <3>1, <3>2, <3>3, Zenon DEF EvmStep
  <2>2. CASE SolanaStep
    <3>1. CASE \E u \in SolanaUsers, seed \in 1..MaxTransfers[CHAIN_ID_SOLANA], t \in Tokens,
                  amount \in Amounts, r \in Recipients, ch \in Chains :
                 \/ send_native_tokens_with_payload(u, seed, t, amount, r, ch)
                 \/ send_wrapped_tokens_with_payload(u, seed, t, amount, r, ch)
      BY <3>1 DEF send_native_tokens_with_payload, send_wrapped_tokens_with_payload, Send,
         TbTransfer
    <3>2. CASE \E payer, recipient \in SolanaUsers, vaa \in signed :
                 \/ redeem_native_transfer_with_payload(payer, recipient, vaa)
                 \/ redeem_wrapped_transfer_with_payload(payer, recipient, vaa)
      BY <3>2 DEF redeem_native_transfer_with_payload, redeem_wrapped_transfer_with_payload,
         Redeem, TbComplete
    <3>3. CASE \/ \E caller \in SolanaUsers, f \in RelayerFees : initialize(caller, f[1], f[2])
               \/ \E caller \in SolanaUsers, ch \in Chains : \E a \in Registrations[ch] :
                    register_foreign_contract(caller, ch, a)
               \/ \E owner \in SolanaUsers, f \in RelayerFees :
                    update_relayer_fee(owner, f[1], f[2])
      BY <3>3 DEF initialize, register_foreign_contract, update_relayer_fee, tbVars
    <3> QED
      BY <2>2, <3>1, <3>2, <3>3, Zenon DEF SolanaStep, SolanaSteps
  <2>3. CASE OtherStep
    <3>1. CASE \E u \in Users, t \in Tokens, amount \in OtherAmounts, r \in Recipients :
                 OtherTransfer(u, t, amount, r)
      BY <3>1 DEF OtherTransfer, TbTransfer
    <3>2. CASE \E m \in transfers : SignTransfer(m)
      BY <3>2 DEF SignTransfer
    <3>3. CASE \E m \in signed : PostTransfer(m)
      BY <3>3 DEF PostTransfer
    <3>4. CASE \E u \in SolanaUsers, t \in Tokens : CreateTokenAccount(u, t)
      BY <3>4 DEF CreateTokenAccount
    <3>5. CASE \E fee \in Fees : SetMessageFee(fee) /\ UNCHANGED solanaVars
      BY <3>5 DEF SetMessageFee, tbVars
    <3> QED
      BY <2>3, <3>1, <3>2, <3>3, <3>4, <3>5, Zenon DEF OtherStep
  <2>4. CASE UNCHANGED vars
    BY <2>4 DEF vars, tbVars
  <2> QED
    BY <2>1, <2>2, <2>3, <2>4, Zenon DEF Next
<1> QED
  BY <1>1, <1>2

(* What holds of a run goes on holding while its locals stay as they are.  *)
LEMMA RunStays ==
  ASSUME BInv, [Next]_vars, NEW c \in Clients, RunInv(c),
         pc'[c] = pc[c], read'[c] = read[c], tx'[c] = tx[c], own'[c] = own[c],
         returned'[c] = returned[c], held'[c] = held[c]
  PROVE  RunInv(c)'
<1>1. transfers \subseteq transfers' /\ signed \subseteq signed'
      /\ evmPayouts \cup solanaPayouts \subseteq (evmPayouts \cup solanaPayouts)'
  BY NextGrows
<1>2. OwnPayout(c)' = OwnPayout(c)
  BY DEF OwnPayout, Payout, UnitOn, LocalDecimals, RecipientOf
<1>3. SentOwn(c) => SentOwn(c)'
  BY <1>1 DEF SentOwn, SourceOf, TargetOf, RecipientOf
<1>4. Told(c) => Told(c)'
  BY <1>3 DEF Told, Informed
<1>5. Holds(c) => Holds(c)'
  BY <1>1, <1>4 DEF Holds, Informed
<1> QED
  BY <1>1, <1>2, <1>3, <1>4, <1>5 DEF RunInv, Informed

(* Only one run's locals change in a step of that run.                     *)
RestUnchanged(c) ==
  /\ pc' = [pc EXCEPT ![c] = pc'[c]] /\ read' = [read EXCEPT ![c] = read'[c]]
  /\ tx' = [tx EXCEPT ![c] = tx'[c]] /\ own' = [own EXCEPT ![c] = own'[c]]
  /\ returned' = [returned EXCEPT ![c] = returned'[c]]
  /\ held' = [held EXCEPT ![c] = held'[c]]

PolledTyped(c) ==
  /\ polled' = [polled EXCEPT ![c] = polled'[c]]
  /\ polled'[c] \in {SolanaTokenBridge, EvmTokenBridge, EvmBridge, Nothing}
  /\ pc'[c] = "waiting" => polled'[c] \in PolledEmitters(c)

LocalsTyped(c) ==
  /\ pc'[c] \in Labels /\ PolledTyped(c)
  /\ read'[c] \in Nat \cup {Nothing} /\ tx'[c] \in {"none", "pending", "reverted", "landed"}
  /\ own'[c] \in transfers' \cup {Nothing} /\ returned'[c] \in Nat \cup {Nothing}
  /\ held'[c] \in signed' \cup {Nothing} /\ approved' \subseteq EvmSenders

(* A run that begins to wait polls under an address it may have been given,*)
(* and keeps to it.                                                        *)
LEMMA PollingKept ==
  ASSUME BridgeClientTypeOK, NEW c \in Clients,
         \/ StartWaiting(c)
         \/ UNCHANGED polled /\ (pc'[c] # "waiting" \/ pc'[c] = pc[c])
  PROVE  PolledTyped(c) /\ (StartWaiting(c) => pc' = [pc EXCEPT ![c] = "waiting"])
<1>1. CASE StartWaiting(c)
  <2>1. PICK emitter \in PolledEmitters(c) : polled' = [polled EXCEPT ![c] = emitter]
    BY <1>1 DEF StartWaiting
  <2> QED
    BY <1>1, <2>1 DEF StartWaiting, Goto, PolledEmitters, PolledTyped, BridgeClientTypeOK
<1>2. CASE UNCHANGED polled /\ (pc'[c] # "waiting" \/ pc'[c] = pc[c]) /\ ~StartWaiting(c)
  BY <1>2 DEF PolledTyped, BridgeClientTypeOK
<1> QED
  BY <1>1, <1>2

-----------------------------------------------------------------------------
(* The transaction that lands publishes the transfer the run calls its own.*)
LEMMA NewTransfer ==
  ASSUME BInv, NEW m, TbTransfer(m), m.chain \in Chains, m.sequence = tbSequence[m.chain]
  PROVE  m \in transfers' /\ (CHOOSE x \in transfers' : x \notin transfers) = m
<1>1. transfers' = transfers \cup {m}
  BY DEF TbTransfer
<1>2. m \notin transfers
  BY DEF BInv, TransfersInv, BridgeTypeOK
<1> QED
  BY <1>1, <1>2

(* A send that lands makes the transfer it published the run's own.        *)
LEMMA LandedKeepsRun ==
  ASSUME BInv, CInv, [Next]_vars, NEW c \in Clients, SolanaSendLands(c) \/ EvmSendLands(c)
  PROVE  RunInv(c)' /\ RestUnchanged(c) /\ LocalsTyped(c) /\ setup' = setup
<1> USE Scripted
<1>1. RunInv(c) /\ BridgeClientTypeOK
  BY DEF CInv
<1>2. transfers \subseteq transfers' /\ signed \subseteq signed'
  BY NextGrows
<1>3. /\ tx[c] = "pending" /\ tx' = [tx EXCEPT ![c] = "landed"]
      /\ own' = [own EXCEPT ![c] = CHOOSE m \in transfers' : m \notin transfers]
      /\ UNCHANGED <<pc, read, returned, polled, held, approved, setup>>
  BY DEF SolanaSendLands, EvmSendLands, Landed
<1>4. \E m : /\ TbTransfer(m) /\ m.sequence = tbSequence[m.chain]
             /\ m.chain = SourceOf(c) /\ m.toChain = TargetOf(c) /\ m.recipient = RecipientOf(c)
             /\ c \in SolanaSenders => m.sequence = read[c]
  <2>1. CASE SolanaSendLands(c)
    <3>1. \E moved : Send(SolanaUser, TokenOf[c], moved, EvmUser, EvmChain)
      BY <2>1 DEF SolanaSendLands, send_native_tokens_with_payload,
         send_wrapped_tokens_with_payload
    <3>2. read[c] + 1 = tbSequence[CHAIN_ID_SOLANA] + 1
      BY <2>1 DEF SolanaSendLands, send_native_tokens_with_payload,
         send_wrapped_tokens_with_payload, SendNativeAccounts, SendWrappedAccounts,
         SendAccounts, MessageSeed
    <3>3. read[c] = tbSequence[CHAIN_ID_SOLANA]
      <4>1. read[c] \in Nat /\ tbSequence[CHAIN_ID_SOLANA] \in Nat
        BY <1>1, <1>3, <2>1 DEF RunInv, SolanaSendLands, BInv, BridgeTypeOK
      <4> QED
        BY <3>2, <4>1
    <3> QED
      BY <2>1, <3>1, <3>3 DEF Send, Transfer, SourceOf, TargetOf, RecipientOf, SolanaSendLands
  <2>2. CASE EvmSendLands(c)
    <3>1. c \notin SolanaSenders
      BY <2>2, ClientAssumption DEF EvmSendLands
    <3> QED
      BY <2>2, <3>1 DEF EvmSendLands, sendTokensWithPayload, Transfer, SourceOf, TargetOf,
         RecipientOf
  <2> QED
    BY <2>1, <2>2
<1>5. /\ own'[c] \in transfers' /\ tx'[c] = "landed"
      /\ own'[c].chain = SourceOf(c) /\ own'[c].toChain = TargetOf(c)
      /\ own'[c].recipient = RecipientOf(c)
      /\ c \in SolanaSenders => own'[c].sequence = read'[c]
  BY <1>1, <1>3, <1>4, NewTransfer DEF BridgeClientTypeOK, SourceOf
<1>6. SentOwn(c)'
  BY <1>5 DEF SentOwn, SourceOf, TargetOf, RecipientOf
<1>7. ~Told(c) /\ ~Holds(c) /\ pc[c] \notin {"start", "checked"}
  BY <1>1, <1>3 DEF Told, Holds, SentOwn, RunInv
<1>8. RunInv(c)'
  BY <1>1, <1>3, <1>5, <1>6, <1>7 DEF RunInv
<1>9. RestUnchanged(c) /\ LocalsTyped(c)
  BY <1>1, <1>2, <1>3, <1>5, PollingKept
     DEF RestUnchanged, LocalsTyped, BridgeClientTypeOK, Labels
<1> QED
  BY <1>3, <1>8, <1>9

-----------------------------------------------------------------------------
(* The other steps around the send: what is read, and what is told. *)
LEMMA SendKeepsRun ==
  ASSUME BInv, CInv, NEW c \in Clients,
         \/ ReadTracker(c) \/ InsufficientBalance(c) \/ CheckBalance(c) \/ Approve(c)
         \/ ReadFee(c) \/ SendReverts(c) \/ SendConfirmed(c) \/ ReadTrackerAfter(c)
         \/ SendFails(c)
  PROVE  RunInv(c)' /\ RestUnchanged(c) /\ LocalsTyped(c) /\ setup' = setup
<1>1. RunInv(c) /\ BridgeClientTypeOK
  BY DEF CInv
<1>2. UNCHANGED vars /\ setup' = setup /\ own' = own /\ held' = held
  BY DEF ReadTracker, InsufficientBalance, CheckBalance, Approve, ReadFee, SendReverts,
     SendConfirmed, ReadTrackerAfter, SendFails, Quiet
<1>3. UNCHANGED <<transfers, signed, evmPayouts, solanaPayouts>>
  BY <1>2 DEF vars, tbVars, evmVars, solanaVars
<1>4. /\ messageFee \in Fees /\ messageFee \in Nat /\ tbSequence[CHAIN_ID_SOLANA] \in Nat
      /\ \A m \in transfers : m.sequence \in Nat
  BY FeesAssumption, Scripted DEF BInv, BridgeTypeOK, TransfersInv
<1>8. PolledTyped(c) /\ (StartWaiting(c) => pc' = [pc EXCEPT ![c] = "waiting"])
  <2>1. \/ StartWaiting(c)
        \/ UNCHANGED polled /\ (pc'[c] # "waiting" \/ pc'[c] = pc[c])
    BY <1>1 DEF ReadTracker, InsufficientBalance, CheckBalance, Approve, ReadFee, SendReverts,
       SendConfirmed, ReadTrackerAfter, SendFails, Goto, BridgeClientTypeOK
  <2> QED
    BY <1>1, <2>1, PollingKept
<1>5. CASE ReadTracker(c) \/ ReadFee(c)
  <2>1. /\ pc[c] \in {"start", "checked"} /\ pc'[c] = "sending" /\ tx'[c] = "pending"
        /\ UNCHANGED <<returned, approved>>
        /\ tx' = [tx EXCEPT ![c] = tx'[c]] /\ pc' = [pc EXCEPT ![c] = pc'[c]]
        /\ read' = [read EXCEPT ![c] = read'[c]]
    BY <1>1, <1>5 DEF ReadTracker, ReadFee, Starts, Goto, BridgeClientTypeOK
  <2>2. read'[c] \in (IF c \in SolanaSenders THEN Nat ELSE Fees) /\ read'[c] \in Nat
    <3>1. CASE ReadTracker(c)
      BY <1>1, <1>4, <3>1 DEF ReadTracker, BridgeClientTypeOK
    <3>2. CASE ReadFee(c)
      <4>1. c \notin SolanaSenders
        BY <1>1, <3>2, ClientAssumption DEF ReadFee, RunInv
      <4> QED
        BY <1>1, <1>4, <3>2, <4>1 DEF ReadFee, BridgeClientTypeOK
    <3> QED
      BY <1>5, <3>1, <3>2
  <2>3. own[c] = Nothing /\ returned[c] = Nothing /\ held[c] = Nothing
    BY <1>1, <2>1 DEF RunInv, SentOwn, Told, Holds
  <2>4. RunInv(c)'
    BY <1>2, <2>1, <2>2, <2>3 DEF RunInv
  <2> QED
    BY <1>1, <1>2, <1>3, <1>8, <2>1, <2>2, <2>4
       DEF BridgeClientTypeOK, RestUnchanged, LocalsTyped, Labels
<1>6. CASE InsufficientBalance(c) \/ CheckBalance(c) \/ Approve(c) \/ SendReverts(c)
  <2>1. /\ UNCHANGED <<read, returned>>
        /\ tx[c] # "landed" /\ tx'[c] # "landed" /\ ~Told(c) /\ ~SentOwn(c) /\ ~Holds(c)
        /\ pc[c] \in {"start", "checked"} \/ pc'[c] = pc[c]
        /\ tx' = [tx EXCEPT ![c] = tx'[c]] /\ pc' = [pc EXCEPT ![c] = pc'[c]]
        /\ approved' \subseteq EvmSenders
    BY <1>1, <1>6 DEF InsufficientBalance, CheckBalance, Approve, SendReverts, Starts, Goto,
       RunInv, SentOwn, Told, Holds, BridgeClientTypeOK
  <2>2. /\ pc'[c] \in Labels /\ tx'[c] \in {"none", "pending", "reverted", "landed"}
        /\ pc'[c] \in {"start", "checked"} => tx'[c] = "none"
        /\ pc'[c] = "checked" => c \in EvmSenders
        /\ tx'[c] = "pending" => tx[c] = "pending"
        /\ pc'[c] \notin {"waiting", "ensuring", "redeeming", "done"} \/ pc'[c] = pc[c]
    BY <1>1, <1>6 DEF InsufficientBalance, CheckBalance, Approve, SendReverts, Starts, Goto,
       RunInv, BridgeClientTypeOK, Labels
  <2> QED
    BY <1>1, <1>2, <1>3, <1>8, <2>1, <2>2
       DEF RunInv, BridgeClientTypeOK, RestUnchanged, LocalsTyped
<1>7. CASE SendConfirmed(c) \/ ReadTrackerAfter(c) \/ SendFails(c)
  <2>1. /\ UNCHANGED <<read, tx, approved>>
        /\ pc[c] = "sending" /\ pc'[c] \in {"waiting", "stopped"}
        /\ pc' = [pc EXCEPT ![c] = pc'[c]] /\ returned' = [returned EXCEPT ![c] = returned'[c]]
    BY <1>1, <1>7, <1>8 DEF SendConfirmed, ReadTrackerAfter, SendFails, Goto, BridgeClientTypeOK
  <2>2. SentOwn(c)' <=> SentOwn(c)
    BY <1>2, <1>3, <2>1 DEF SentOwn, SourceOf, TargetOf, RecipientOf
  <2>3. \/ SentOwn(c) /\ (c \in Informed => returned'[c] = own[c].sequence)
           /\ returned'[c] \in Nat
        \/ UNCHANGED returned /\ pc'[c] = "stopped"
    BY <1>1, <1>4, <1>7, <2>1 DEF SendConfirmed, ReadTrackerAfter, SendFails, RunInv, SentOwn,
       Informed, PrintedSequence, BridgeClientTypeOK, Goto
  <2>4. Holds(c) => Holds(c)'
    BY <1>2, <1>3, <2>2, <2>3 DEF Holds, Told, Informed
  <2>5. pc'[c] = "waiting" \/ returned'[c] # Nothing => Told(c)'
    BY <1>1, <1>2, <2>2, <2>3 DEF RunInv, Told, Informed
  <2>6. RunInv(c)'
    BY <1>1, <1>2, <2>1, <2>2, <2>4, <2>5 DEF RunInv
  <2> QED
    BY <1>1, <1>2, <1>3, <1>8, <2>1, <2>3, <2>6
       DEF BridgeClientTypeOK, RestUnchanged, LocalsTyped, Labels
<1> QED
  BY <1>2, <1>5, <1>6, <1>7

(* The wait and the redemption, and attempts after them. *)
LEMMA RedeemKeepsRun ==
  ASSUME BInv, CInv, [Next]_vars, NEW c \in Clients,
         \/ FetchVaa(c) \/ WaitTimesOut(c) \/ RedeemEvm(c) \/ ensureTokenAccount(c)
         \/ RedeemSolana(c) \/ RedeemFails(c) \/ Interrupt(c) \/ RedeemByHand(c)
  PROVE  RunInv(c)' /\ RestUnchanged(c) /\ LocalsTyped(c) /\ setup' = setup
<1>1. RunInv(c) /\ BridgeClientTypeOK
  BY DEF CInv
<1>2. /\ UNCHANGED <<read, tx, own, returned, approved, setup>>
      /\ \E label \in Labels \ {"start", "checked"} : Goto(c, label)
      /\ held' = [held EXCEPT ![c] = held'[c]]
      /\ pc[c] # "start"
      /\ \/ StartWaiting(c)
         \/ UNCHANGED polled /\ (pc'[c] # "waiting" \/ pc'[c] = pc[c])
  BY <1>1 DEF FetchVaa, WaitTimesOut, RedeemEvm, ensureTokenAccount, RedeemSolana, RedeemFails,
     Interrupt, RedeemByHand, StartWaiting, Quiet, Goto, Labels, BridgeClientTypeOK
<1>3. transfers \subseteq transfers' /\ signed \subseteq signed'
      /\ evmPayouts \cup solanaPayouts \subseteq (evmPayouts \cup solanaPayouts)'
  BY NextGrows
<1>4. SentOwn(c) => SentOwn(c)'
  BY <1>2, <1>3 DEF SentOwn, SourceOf, TargetOf, RecipientOf
<1>5. Told(c) => Told(c)'
  BY <1>2, <1>4 DEF Told, Informed
<1>6. UNCHANGED held => (Holds(c) => Holds(c)') /\ held'[c] \in signed' \cup {Nothing}
  BY <1>1, <1>2, <1>3, <1>5 DEF Holds, Informed, BridgeClientTypeOK
<1>7. pc' = [pc EXCEPT ![c] = pc'[c]] /\ pc'[c] \in Labels \ {"start", "checked"}
  BY <1>1, <1>2 DEF Goto, BridgeClientTypeOK
<1>8. ASSUME held'[c] \in signed' \cup {Nothing}
      PROVE  RestUnchanged(c) /\ LocalsTyped(c) /\ setup' = setup
  BY <1>1, <1>2, <1>3, <1>7, <1>8, PollingKept DEF RestUnchanged, LocalsTyped, BridgeClientTypeOK
<1>9. CASE FetchVaa(c)
  <2>1. /\ held'[c] \in signed /\ held'[c].chain = SourceOf(c) /\ held'[c].sequence = returned[c]
        /\ pc[c] = "waiting" /\ pc'[c] \in {"ensuring", "redeeming"}
    BY <1>1, <1>9 DEF FetchVaa, SignedVaas, Goto, BridgeClientTypeOK
  <2>2. Told(c) /\ held'[c] \in transfers
    BY <1>1, <2>1 DEF RunInv, BInv, BridgeTypeOK
  <2>3. c \in Informed => held'[c] = own[c]
    BY <2>1, <2>2 DEF Told, SentOwn, BInv, TransfersInv
  <2>4. Holds(c)'
    BY <1>2, <1>3, <1>5, <2>1, <2>2, <2>3 DEF Holds, Informed
  <2>5. RunInv(c)'
    BY <1>1, <1>2, <1>4, <1>5, <2>1, <2>2, <2>4 DEF RunInv
  <2> QED
    BY <1>3, <1>8, <2>1, <2>5
<1>10. CASE WaitTimesOut(c) \/ RedeemFails(c) \/ Interrupt(c)
  <2>1. UNCHANGED held /\ pc'[c] = "stopped"
    BY <1>1, <1>10 DEF WaitTimesOut, RedeemFails, Interrupt, Goto, BridgeClientTypeOK
  <2>2. RunInv(c)'
    BY <1>1, <1>2, <1>4, <1>5, <1>6, <2>1 DEF RunInv
  <2> QED
    BY <1>6, <1>8, <2>1, <2>2
<1>11. CASE RedeemByHand(c)
  <2>1. UNCHANGED held /\ pc'[c] = "waiting" /\ Told(c)
    BY <1>1, <1>11 DEF RedeemByHand, StartWaiting, Goto, BridgeClientTypeOK, RunInv
  <2>2. RunInv(c)'
    BY <1>1, <1>2, <1>4, <1>5, <1>6, <2>1 DEF RunInv
  <2> QED
    BY <1>6, <1>8, <2>1, <2>2
<1>12. CASE ensureTokenAccount(c)
  <2>1. UNCHANGED held /\ pc'[c] = "redeeming" /\ pc[c] = "ensuring" /\ Told(c) /\ Holds(c)
    BY <1>1, <1>12 DEF ensureTokenAccount, Goto, BridgeClientTypeOK, RunInv, Holds
  <2>2. RunInv(c)'
    BY <1>1, <1>2, <1>4, <1>5, <1>6, <2>1 DEF RunInv
  <2> QED
    BY <1>6, <1>8, <2>1, <2>2
<1>13. CASE RedeemEvm(c) \/ RedeemSolana(c)
  <2>1. UNCHANGED held /\ pc[c] = "redeeming" /\ Told(c) /\ Holds(c)
    BY <1>1, <1>13 DEF RedeemEvm, RedeemSolana, RunInv, Holds
  <2>2. ASSUME c \in Informed
        PROVE  OwnPayout(c)' \in (evmPayouts \cup solanaPayouts)'
    <3>1. /\ held[c] = own[c] /\ own[c].recipient = RecipientOf(c)
          /\ own[c].toChain = TargetOf(c)
          /\ own[c].amount \in Nat /\ own[c].token \in Tokens
      BY <2>1, <2>2 DEF Holds, Told, SentOwn, BInv, TransfersInv
    <3>2. OwnPayout(c)' = OwnPayout(c)
      BY <1>2 DEF OwnPayout, Payout, UnitOn, LocalDecimals, RecipientOf
    <3>3. CASE RedeemEvm(c)
      <4>1. /\ RecipientOf(c) = EvmUser /\ TargetOf(c) = EvmChain
            /\ truncateAddress(own[c].recipient) = EvmUser
        BY <3>1, <3>3, ClientAssumption DEF RedeemEvm, RecipientOf, TargetOf, truncateAddress
      <4>2. denormalizeAmount(own[c].amount, LocalDecimals(EvmChain, own[c].token))
              = Payout(EvmChain, own[c])
        BY <3>1, Worth, Scripted
      <4>3. redeemTokensWithPayload(own[c])
        BY <3>1, <3>3 DEF RedeemEvm
      <4>4. [transfer |-> own[c], recipient |-> EvmUser,
             toRecipient |-> Payout(EvmChain, own[c]), toRedeemer |-> 0] \in evmPayouts'
        BY <4>1, <4>2, <4>3 DEF redeemTokensWithPayload
      <4> QED
        BY <3>1, <3>2, <4>1, <4>4 DEF OwnPayout
    <3>4. CASE RedeemSolana(c)
      <4>1. RecipientOf(c) = SolanaUser /\ TargetOf(c) = CHAIN_ID_SOLANA
        BY <3>4, ClientAssumption DEF RedeemSolana, RecipientOf, TargetOf
      <4>2. Redeem(SolanaUser, SolanaUser, own[c])
        BY <3>1, <3>4 DEF RedeemSolana, redeem_native_transfer_with_payload,
           redeem_wrapped_transfer_with_payload
      <4>3. RedeemedAmount(own[c]) = Payout(CHAIN_ID_SOLANA, own[c])
        BY <4>2 DEF Redeem, RedeemFunds
      <4>4. Payout(CHAIN_ID_SOLANA, own[c]) \in Nat
        BY <3>1, Worth, Scripted
      <4>5. [transfer |-> own[c], recipient |-> SolanaUser,
             toRecipient |-> RedeemedAmount(own[c]) - 0, toRedeemer |-> 0] \in solanaPayouts'
        BY <4>2 DEF Redeem, RelayerPart
      <4>6. RedeemedAmount(own[c]) - 0 = Payout(CHAIN_ID_SOLANA, own[c])
        BY <4>3, <4>4
      <4> QED
        BY <3>1, <3>2, <4>1, <4>5, <4>6 DEF OwnPayout
    <3> QED
      BY <1>13, <3>3, <3>4
  <2>3. RunInv(c)'
    BY <1>1, <1>2, <1>4, <1>5, <1>6, <1>7, <2>1, <2>2 DEF RunInv, Informed
  <2> QED
    BY <1>6, <1>8, <2>1, <2>3
<1> QED
  BY <1>9, <1>10, <1>11, <1>12, <1>13

(* A step of one run keeps its own invariant and leaves the others' alone. *)
LEMMA ClientStepKeepsCInv ==
  ASSUME BInv, CInv, [Next]_vars, NEW c \in Clients, ClientStep(c)
  PROVE  CInv'
<1>1. RunInv(c)' /\ RestUnchanged(c) /\ LocalsTyped(c) /\ setup' = setup
  BY LandedKeepsRun, SendKeepsRun, RedeemKeepsRun, Zenon DEF ClientStep
<1>2. /\ BridgeClientTypeOK
      /\ transfers \subseteq transfers' /\ signed \subseteq signed'
      /\ tokenAccounts' \subseteq SolanaUsers \X Tokens
  BY NextGrows DEF CInv
<1>3. BridgeClientTypeOK'
  <2>1. polled' = [polled EXCEPT ![c] = polled'[c]]
    BY <1>1 DEF LocalsTyped, PolledTyped
  <2> QED
    BY <1>1, <1>2, <2>1 DEF BridgeClientTypeOK, RestUnchanged, LocalsTyped, PolledTyped, Labels
<1>4. ASSUME NEW d \in Clients, d # c
      PROVE  RunInv(d)'
  <2>1. /\ pc'[d] = pc[d] /\ read'[d] = read[d] /\ tx'[d] = tx[d]
        /\ own'[d] = own[d] /\ returned'[d] = returned[d] /\ held'[d] = held[d]
    BY <1>1, <1>2, <1>4 DEF BridgeClientTypeOK, RestUnchanged
  <2> QED
    BY <2>1, RunStays DEF CInv
<1> QED
  BY <1>1, <1>2, <1>3, <1>4 DEF CInv

(* The client invariant is inductive, given that of the bridge.            *)
LEMMA NextKeepsCInv == BInv /\ CInv /\ [ClientNext]_allVars => CInv'
<1> SUFFICES ASSUME BInv, CInv, [ClientNext]_allVars
             PROVE  CInv'
  OBVIOUS
<1>1. [Next]_vars
  BY ClientNextRefines
<1>2. CASE \E c \in Clients : ClientStep(c)
  BY <1>1, <1>2, ClientStepKeepsCInv
<1>3. CASE UNCHANGED clientVars /\ setup' \in {"idle", "evm"}
  <2>1. \A c \in Clients : RunInv(c)'
    BY <1>1, <1>3, RunStays DEF clientVars, CInv
  <2>2. BridgeClientTypeOK' /\ tokenAccounts' \subseteq SolanaUsers \X Tokens
    BY <1>1, <1>3, NextGrows DEF clientVars, CInv, BridgeClientTypeOK
  <2> QED
    BY <2>1, <2>2 DEF CInv
<1>4. ASSUME OperatorStep \/ setup' = setup
      PROVE  setup' \in {"idle", "evm"}
  BY <1>4 DEF OperatorStep, InitializeSolana, SetupEvm, SetupSolana, SetupStops, RegisterProgram,
     registerForeignContract, CInv, BridgeClientTypeOK
<1> QED
  BY <1>2, <1>3, <1>4 DEF ClientNext, allVars

-----------------------------------------------------------------------------
(* Whatever the runs, the operator and the others do, wherever they stop,  *)
(* is something Bridge allows: what is proved of Bridge holds here.        *)
THEOREM ClientsImplementBridge == ClientSpec => Spec /\ [](BInv /\ CInv)
<1>1. ClientInit => Init /\ BInv /\ CInv
  BY InitBInv, InitCInv DEF ClientInit
<1>2. BInv /\ CInv /\ [ClientNext]_allVars => [Next]_vars /\ BInv' /\ CInv'
  BY ClientNextRefines, NextKinds, NextKeepsCInv
<1> QED
  BY <1>1, <1>2, PTL DEF ClientSpec, Spec

(* The locals of every run have their types, and a VAA held is signed.     *)
THEOREM BridgeClientTypes == ClientSpec => []BridgeClientTypeOK
<1> QED
  BY ClientsImplementBridge, PTL DEF CInv

(* No send built on a stale tracker lands, however many senders share the  *)
(* Token Bridge: the value read before is the number of one's own.         *)
THEOREM TrackerBeforeNames == ClientSpec => []TrackerBeforeNamesTransfer
<1>1. CInv => TrackerBeforeNamesTransfer
  BY DEF CInv, RunInv, SentOwn, TrackerBeforeNamesTransfer, Clients
<1> QED
  BY <1>1, ClientsImplementBridge, PTL

(* A user who was told a number redeems that very transfer, and a run that *)
(* ended well saw it paid in full, whoever else sends and redeems.         *)
THEOREM OwnRedeemed == ClientSpec => []OwnTransferRedeemed
<1>1. CInv => OwnTransferRedeemed
  BY DEF CInv, RunInv, Holds, OwnPayout, OwnTransferRedeemed, Informed
<1> QED
  BY <1>1, ClientsImplementBridge, PTL
-----------------------------------------------------------------------------
(* The two claims BridgeClient records, and how far they are off.          *)

(* The printed numbers are right: as long as nobody sends from Solana      *)
(* through the library, every number a user is given names the transfer.   *)
THEOREM ScriptsNameTransfers ==
  ASSUME SolanaSenders \cap LibraryUsers = {}
  PROVE  ClientSpec => []ReturnedSequenceNamesTransfer
<1>1. CInv => ReturnedSequenceNamesTransfer
  BY DEF CInv, RunInv, Told, Informed, ReturnedSequenceNamesTransfer
<1> QED
  BY <1>1, ClientsImplementBridge, PTL

(* A caller of waitForVAA who names the Token Bridge finds the transfer,   *)
(* once it is signed: the fault is in the emitter the script polls under.  *)
THEOREM LibraryFindsTransfer ==
  ClientSpec => [](\A c \in EvmSenders :
                     pc[c] = "waiting" /\ polled[c] = EvmTokenBridge /\ own[c] \in signed =>
                       own[c] \in SignedVaas(c))
<1> DEFINE Finds ==
      \A c \in EvmSenders :
        pc[c] = "waiting" /\ polled[c] = EvmTokenBridge /\ own[c] \in signed =>
          own[c] \in SignedVaas(c)
<1>1. BInv /\ CInv => Finds
  <2> SUFFICES ASSUME BInv, CInv, NEW c \in EvmSenders, pc[c] = "waiting",
                      polled[c] = EvmTokenBridge, own[c] \in signed
               PROVE  own[c] \in SignedVaas(c)
    OBVIOUS
  <2>1. c \in Clients /\ c \notin SolanaSenders
    BY ClientAssumption DEF Clients
  <2>2. own[c] \in transfers /\ own[c].chain = EvmChain /\ own[c].sequence = returned[c]
    BY <2>1 DEF CInv, RunInv, Told, SentOwn, SourceOf, Informed
  <2>3. own[c].emitter = EvmTokenBridge
    BY <2>2 DEF BInv, TransfersInv, TokenBridgeOf
  <2> QED
    BY <2>1, <2>2, <2>3 DEF SignedVaas, SourceOf
<1> HIDE DEF Finds
<1>2. ClientSpec => []Finds
  BY <1>1, ClientsImplementBridge, PTL
<1> QED
  BY <1>2 DEF Finds

(* What the two faults make of a run.  A number the library returned is    *)
(* past that of the transfer, so what is fetched under it is another's;    *)
(* and under the contract's address there is nothing to fetch.             *)
FaultInv(c) ==
  /\ c \in SolanaSenders \cap LibraryUsers =>
       /\ pc[c] \in {"start", "checked", "sending"} => returned[c] = Nothing /\ held[c] = Nothing
       /\ pc[c] = "waiting" \/ returned[c] # Nothing => own[c].sequence < returned[c]
       /\ held[c] # Nothing => held[c] # own[c]
  /\ c \in EvmSenders \ LibraryUsers =>
       /\ pc[c] \notin {"ensuring", "redeeming", "done"}
       /\ held[c] = Nothing

(* A run's own step keeps what the faults make of it.                      *)
LEMMA StepKeepsFault ==
  ASSUME BInv, CInv, [Next]_vars, NEW c \in Clients, ClientStep(c), FaultInv(c)
  PROVE  FaultInv(c)'
<1> USE DEF FaultInv
<1>1. RunInv(c) /\ BridgeClientTypeOK /\ ~(c \in SolanaSenders /\ c \in EvmSenders)
  BY ClientAssumption DEF CInv
<1>2. CASE SolanaSendLands(c) \/ EvmSendLands(c)
  <2>1. UNCHANGED <<pc, returned, held>> /\ tx[c] = "pending"
    BY <1>2 DEF SolanaSendLands, EvmSendLands, Landed
  <2>2. held[c] = Nothing /\ returned[c] = Nothing /\ pc[c] # "waiting"
    BY <1>1, <2>1 DEF RunInv, Holds, Told, SentOwn
  <2> QED
    BY <2>1, <2>2
<1>3. CASE FetchVaa(c)
  <2>1. PICK v \in signed : /\ v.chain = SourceOf(c) /\ v.emitter \in PolledEmitters(c)
                            /\ v.sequence = returned[c] /\ held'[c] = v
    BY <1>1, <1>3 DEF FetchVaa, SignedVaas, BridgeClientTypeOK
  <2>2. UNCHANGED <<own, returned>> /\ pc[c] = "waiting" /\ pc'[c] \in {"ensuring", "redeeming"}
    BY <1>1, <1>3 DEF FetchVaa, Goto, BridgeClientTypeOK
  <2>3. v \in transfers /\ own[c] \in transfers
    BY <1>1, <2>2 DEF BInv, BridgeTypeOK, RunInv, Told, SentOwn
  <2>4. ~(c \in EvmSenders \ LibraryUsers)
    <3> SUFFICES ASSUME c \in EvmSenders \ LibraryUsers PROVE FALSE
      OBVIOUS
    <3>1. v.emitter = EvmBridge /\ v.chain = EvmChain
      BY <1>1, <2>1 DEF PolledEmitters, SourceOf
    <3>2. v.emitter = EvmTokenBridge
      BY <2>3, <3>1 DEF BInv, TransfersInv, TokenBridgeOf
    <3> QED
      BY <3>1, <3>2, AddressesAssumption
  <2>5. own[c].sequence < returned[c] => held'[c] # own[c]
    <3>1. own[c].sequence \in Nat
      BY <2>3 DEF BInv, TransfersInv
    <3> QED
      BY <2>1, <3>1
  <2> QED
    BY <2>2, <2>4, <2>5
<1>4. CASE ReadTrackerAfter(c)
  <2>1. /\ UNCHANGED <<own, held>> /\ returned'[c] = tbSequence[CHAIN_ID_SOLANA]
        /\ pc[c] = "sending" /\ pc'[c] = "waiting" /\ tx[c] = "landed"
        /\ c \in SolanaSenders
    BY <1>1, <1>4 DEF ReadTrackerAfter, StartWaiting, Goto, BridgeClientTypeOK
  <2>2. own[c].sequence < tbSequence[CHAIN_ID_SOLANA]
    BY <1>1, <2>1 DEF RunInv, SentOwn, SourceOf, BInv, TransfersInv
  <2> QED
    BY <1>1, <2>1, <2>2
<1>5. CASE SendConfirmed(c)
  <2>1. /\ UNCHANGED held /\ pc'[c] \in {"waiting", "stopped"}
        /\ c \notin SolanaSenders \cap LibraryUsers
    BY <1>1, <1>5 DEF SendConfirmed, StartWaiting, Goto, BridgeClientTypeOK
  <2> QED
    BY <2>1
<1>6. CASE \/ ReadTracker(c) \/ InsufficientBalance(c) \/ CheckBalance(c) \/ Approve(c)
           \/ ReadFee(c) \/ SendReverts(c) \/ SendFails(c) \/ WaitTimesOut(c)
           \/ RedeemEvm(c) \/ ensureTokenAccount(c) \/ RedeemSolana(c) \/ RedeemFails(c)
           \/ Interrupt(c) \/ RedeemByHand(c)
  <2>1. UNCHANGED <<own, returned, held>>
    BY <1>6 DEF ReadTracker, InsufficientBalance, CheckBalance, Approve, ReadFee, SendReverts,
       SendFails, WaitTimesOut, RedeemEvm, ensureTokenAccount, RedeemSolana, RedeemFails,
       Interrupt, RedeemByHand
  <2>2. /\ pc'[c] \in {"start", "checked", "sending"} => pc[c] \in {"start", "checked", "sending"}
        /\ pc'[c] = "waiting" => returned[c] # Nothing
        /\ pc'[c] \in {"ensuring", "redeeming", "done"} => pc[c] \in {"ensuring", "redeeming"}
     \/ pc'[c] = pc[c]
    BY <1>1, <1>6 DEF ReadTracker, InsufficientBalance, CheckBalance, Approve, ReadFee,
       SendReverts, SendFails, WaitTimesOut, RedeemEvm, ensureTokenAccount, RedeemSolana,
       RedeemFails, Interrupt, RedeemByHand, StartWaiting, Starts, Goto, BridgeClientTypeOK
  <2> QED
    BY <2>1, <2>2
<1> QED
  BY <1>2, <1>3, <1>4, <1>5, <1>6 DEF ClientStep

(* And no other run's step, nor the operator's, has a part in it.          *)
LEMMA FaultsInvariant == ClientSpec => []\A c \in Clients : FaultInv(c)
<1> DEFINE Faults == \A c \in Clients : FaultInv(c)
<1>1. ClientInit => Faults
  BY ClientAssumption DEF ClientInit, FaultInv
<1>2. ASSUME BInv, CInv, Faults, [ClientNext]_allVars
      PROVE  Faults'
  <2>1. [Next]_vars
    BY <1>2, ClientNextRefines
  <2> SUFFICES ASSUME NEW d \in Clients PROVE FaultInv(d)'
    OBVIOUS
  <2>2. ASSUME /\ pc'[d] = pc[d] /\ own'[d] = own[d]
               /\ returned'[d] = returned[d] /\ held'[d] = held[d]
        PROVE  FaultInv(d)'
    BY <1>2, <2>2 DEF FaultInv
  <2>3. ASSUME NEW c \in Clients, ClientStep(c)
        PROVE  FaultInv(d)'
    <3>1. CASE c = d
      BY <1>2, <2>1, <2>3, <3>1, StepKeepsFault
    <3>2. CASE c # d
      <4>1. RestUnchanged(c)
        BY <1>2, <2>1, <2>3, LandedKeepsRun, SendKeepsRun, RedeemKeepsRun, Zenon DEF ClientStep
      <4> QED
        BY <1>2, <2>2, <3>2, <4>1 DEF RestUnchanged, CInv, BridgeClientTypeOK
    <3> QED
      BY <3>1, <3>2
  <2>4. CASE UNCHANGED clientVars
    BY <2>2, <2>4 DEF clientVars
  <2> QED
    BY <1>2, <2>3, <2>4 DEF ClientNext, allVars
<1> HIDE DEF Faults
<1>3. ClientSpec => []Faults
  BY <1>1, <1>2, ClientsImplementBridge, PTL DEF ClientSpec
<1> QED
  BY <1>3 DEF Faults

(* sendNativeTokens and sendWrappedTokens never return the number of the   *)
(* transfer they sent, whoever else uses the Token Bridge or not: it is    *)
(* always a later one, and a user who fetches and redeems under it is      *)
(* never redeeming that transfer.                                          *)
THEOREM LibraryNamesAnother ==
  ClientSpec => [](\A c \in SolanaSenders \cap LibraryUsers :
                     /\ returned[c] # Nothing => own[c].sequence < returned[c]
                     /\ held[c] # Nothing => held[c] # own[c])
<1> DEFINE Another == \A c \in SolanaSenders \cap LibraryUsers :
                        /\ returned[c] # Nothing => own[c].sequence < returned[c]
                        /\ held[c] # Nothing => held[c] # own[c]
           Faults  == \A c \in Clients : FaultInv(c)
<1>1. Faults => Another
  BY DEF FaultInv, Clients
<1> HIDE DEF Another
<1>2. ClientSpec => []Faults
  BY FaultsInvariant
<1> HIDE DEF Faults
<1>3. ClientSpec => []Another
  BY <1>1, <1>2, PTL
<1> QED
  BY <1>3 DEF Another

(* test-evm-to-solana polls under an address that publishes nothing: in no *)
(* execution does a run of it fetch a VAA, redeem, or end well.            *)
THEOREM ScriptFromEvmNeverRedeems ==
  ClientSpec => [](\A c \in EvmSenders \ LibraryUsers :
                     held[c] = Nothing /\ pc[c] \notin {"ensuring", "redeeming", "done"})
<1> DEFINE Idle   == \A c \in EvmSenders \ LibraryUsers :
                       held[c] = Nothing /\ pc[c] \notin {"ensuring", "redeeming", "done"}
           Faults == \A c \in Clients : FaultInv(c)
<1>1. Faults => Idle
  BY DEF FaultInv, Clients
<1> HIDE DEF Idle
<1>2. ClientSpec => []Faults
  BY FaultsInvariant
<1> HIDE DEF Faults
<1>3. ClientSpec => []Idle
  BY <1>1, <1>2, PTL
<1> QED
  BY <1>3 DEF Idle
-----------------------------------------------------------------------------
(* No token of either chain is lost or made, every transfer to a recipient *)
(* who can be paid is worth what it takes to pay in full, and the bridge   *)
(* is still a Transfers, with the users, their wrong numbers and stale     *)
(* reads, and the operator's half-finished setups in it.                   *)
THEOREM ClientsKeepTokens ==
  ClientSpec => [](Accounted /\ RedemptionSucceeds) /\ BridgeImplementsTransfers
<1> QED
  BY ClientsImplementBridge, AccountsBalance, RedeemableInFull, BridgeRefinement, PTL
=============================================================================
