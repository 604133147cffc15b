------------------------ MODULE MessengerOperatorProofs ------------------------
(***************************************************************************)
(* Proofs about the operator's scripts, for any number of deployments,     *)
(* users and messages, and however often scripts stop and start again.     *)
(***************************************************************************)
EXTENDS MessengerOperator, MessengerStoreProofs

OperatorNext == OperatorStep \/ Traffic

-----------------------------------------------------------------------------
(* A script's step is a call that any caller could have made, or touches   *)
(* neither program.                                                        *)
LEMMA OperatorStepRefines == OperatorStep => Next \/ UNCHANGED vars
<1> SUFFICES ASSUME OperatorStep PROVE Next \/ UNCHANGED vars
  OBVIOUS
<1>1. ASSUME NEW u \in Users, CheckConfig(u) \/ SendInitialize(u)
      PROVE  Next \/ UNCHANGED vars
  <2>1. CASE UNCHANGED vars
    BY <2>1
  <2>2. CASE initialize(u) /\ UNCHANGED evmVars
    BY <2>2 DEF Next, SolanaStep
  <2>3. CASE UNCHANGED <<coreVars, solanaVars, evmVars>>
    BY <2>3 DEF vars
  <2> QED
    BY <1>1, <2>1, <2>2, <2>3 DEF CheckConfig, SendInitialize
<1>2. ASSUME NEW c \in EvmContracts, SetupEvm(c)
      PROVE  Next
  <2>1. EvmOwner \in Users /\ SolanaEmitter \in Candidates /\ CHAIN_ID_SOLANA \in Chains
    BY OperatorAssumption DEF Emitters, Chains
  <2>2. registerEmitter(c, EvmOwner, CHAIN_ID_SOLANA, SolanaEmitter) /\ UNCHANGED solanaVars
    BY <1>2 DEF SetupEvm
  <2> QED
    BY <2>1, <2>2 DEF Next, EvmStep
<1>3. ASSUME NEW c \in EvmContracts,
             SetupSolana(c) \/ SetupDone(c) \/ SetupStops(c) \/ LateLands(c)
      PROVE  Next \/ UNCHANGED vars
  <2>1. Wallet \in Users /\ c \in Candidates /\ EvmChain \in Chains
    BY OperatorAssumption DEF Emitters, Chains
  <2>2. CASE register_emitter(Wallet, EvmChain, c) /\ UNCHANGED evmVars
    BY <2>1, <2>2 DEF Next, SolanaStep
  <2>3. CASE UNCHANGED vars
    BY <2>3
  <2> QED
    BY <1>3, <2>2, <2>3 DEF SetupSolana, SetupDone, SetupStops, LateLands
<1>4. ASSUME NEW seed \in ReceivedSeeds, CheckReceived(seed) \/ SendClose(seed)
      PROVE  Next \/ UNCHANGED vars
  <2>1. CASE close_received(Wallet, seed) /\ UNCHANGED evmVars
    BY <2>1, OperatorAssumption DEF Next, SolanaStep
  <2>2. CASE UNCHANGED <<coreVars, solanaVars, evmVars>>
    BY <2>2 DEF vars
  <2> QED
    BY <1>4, <2>1, <2>2 DEF CheckReceived, SendClose, vars
<1> QED
  BY <1>1, <1>2, <1>3, <1>4 DEF OperatorStep

(* The traffic beside the scripts is made of messenger steps.              *)
LEMMA TrafficRefines == Traffic => Next
<1> SUFFICES ASSUME Traffic PROVE Next
  OBVIOUS
<1>1. CASE /\ \/ \E seed \in 1 .. MaxSequence[SolanaEmitter], p \in Payloads :
                   send_message(seed, p)
              \/ \E v \in vaas : v.emitterChain = EvmChain /\ post_vaa(v)
              \/ \E v \in postedVaas : receive_message(v)
           /\ UNCHANGED evmVars
  BY <1>1 DEF Next, SolanaStep
<1>2. CASE /\ \/ \E c \in EvmContracts, p \in Payloads, value \in Fees :
                   sendMessage(c, p, value)
              \/ \E c \in EvmContracts, vm \in vaas : receiveMessage(c, vm)
           /\ UNCHANGED solanaVars
  BY <1>2 DEF Next, EvmStep
<1>3. CASE (\E m \in published : Sign(m)) /\ UNCHANGED <<evmVars, solanaVars>>
  BY <1>3 DEF Next, GuardianStep
<1> QED
  BY <1>1, <1>2, <1>3 DEF Traffic

(* Every step of the operator's scripts is a messenger step or a stutter.  *)
LEMMA OperatorNextRefines == [OperatorNext]_allVars => [Next]_vars
BY OperatorStepRefines, TrafficRefines DEF OperatorNext, allVars

(* Whatever the scripts do, in whatever order and wherever they stop, is   *)
(* something the messenger allows: every safety property of Messenger      *)
(* holds of the operated one.                                              *)
THEOREM OperatorImplementsMessenger == OperatorSpec => Spec
<1>1. OperatorInit => Init
  BY DEF OperatorInit
<1> QED
  BY <1>1, OperatorNextRefines, PTL DEF OperatorSpec, Spec, OperatorNext

-----------------------------------------------------------------------------
(* What setups rely on: a contract of which a setup is under way or done,  *)
(* or whose registration may still land, listens to the program; and what  *)
(* was submitted or landed was the operator's to submit.                   *)
SetupInv ==
  /\ TrustIsMutual
  /\ job \in [EvmContracts -> {"idle", "evm", "submitted", "done"}]
  /\ late \subseteq EvmContracts
  /\ \A c \in EvmContracts :
       job[c] # "idle" \/ c \in late => registeredEmitters[c][CHAIN_ID_SOLANA] = SolanaEmitter
  /\ \A c \in EvmContracts : job[c] \in {"submitted", "done"} \/ c \in late => owner = Wallet
  /\ \A c \in EvmContracts : job[c] = "done" => foreignEmitter[EvmChain] \in EvmContracts

(* Nothing is registered and no setup has begun at first.                  *)
LEMMA InitSetup == OperatorInit => SetupInv
BY EmittersAssumption, ChainAssumption
   DEF OperatorInit, Init, SolanaInit, SetupInv, TrustIsMutual, Chains

(* The registration on Solana, whether its script sees it land or not, is  *)
(* all that changes whom the program listens to.                           *)
LEMMA RegistrationStep ==
  ASSUME IInv, SetupInv, NEW c \in EvmContracts, SetupDone(c) \/ LateLands(c)
  PROVE  SetupInv'
<1>1. /\ job[c] = "submitted" \/ c \in late
      /\ job' = job \/ job' = [job EXCEPT ![c] = "done"]
      /\ late' \subseteq late
      /\ UNCHANGED <<registeredEmitters, owner>>
      /\ foreignEmitter' = [foreignEmitter EXCEPT ![EvmChain] = c]
  BY DEF SetupDone, LateLands, register_emitter, evmVars, evmStorage
<1>2. foreignEmitter'[EvmChain] = c
  BY <1>1 DEF IInv, TypeOK, Chains
<1>3. registeredEmitters[c][CHAIN_ID_SOLANA] = SolanaEmitter /\ owner = Wallet
  BY <1>1 DEF SetupInv
<1>4. TrustIsMutual'
  BY <1>1, <1>2, <1>3 DEF TrustIsMutual
<1>5. job' \in [EvmContracts -> {"idle", "evm", "submitted", "done"}]
      /\ \A d \in EvmContracts : d # c => job'[d] = job[d]
  BY <1>1 DEF SetupInv
<1>6. \A d \in EvmContracts :
        job'[d] # "idle" \/ d \in late' =>
          registeredEmitters'[d][CHAIN_ID_SOLANA] = SolanaEmitter
  BY <1>1, <1>3, <1>5 DEF SetupInv
<1> QED
  BY <1>1, <1>2, <1>3, <1>4, <1>5, <1>6 DEF SetupInv

(* The first registration never takes back what another setup made.        *)
LEMMA SetupEvmStep ==
  ASSUME IInv, SetupInv, NEW c \in EvmContracts, SetupEvm(c)
  PROVE  SetupInv'
<1>1. /\ registeredEmitters' = [registeredEmitters EXCEPT ![c][CHAIN_ID_SOLANA] = SolanaEmitter]
      /\ job' = [job EXCEPT ![c] = "evm"]
      /\ UNCHANGED <<foreignEmitter, owner, late>>
  BY DEF SetupEvm, registerEmitter, solanaVars, solanaAccounts
<1>2. /\ registeredEmitters'[c][CHAIN_ID_SOLANA] = SolanaEmitter
      /\ \A d \in EvmContracts : d # c => registeredEmitters'[d] = registeredEmitters[d]
  BY <1>1 DEF IInv, TypeOK, Chains
<1> QED
  BY <1>1, <1>2 DEF SetupInv, TrustIsMutual

(* The other steps of a setup move it alone: what it submitted it could    *)
(* submit, and what may land late it had submitted.                        *)
LEMMA SetupMoves ==
  ASSUME IInv, SetupInv, NEW c \in EvmContracts, SetupSolana(c) \/ SetupStops(c)
  PROVE  SetupInv'
<1>1. UNCHANGED <<registeredEmitters, foreignEmitter, owner>>
  BY DEF SetupSolana, SetupStops, vars, evmVars, evmStorage, solanaVars, solanaAccounts
<1>2. CASE SetupSolana(c)
  BY <1>1, <1>2 DEF SetupSolana, SetupInv, TrustIsMutual
<1>3. CASE SetupStops(c)
  BY <1>1, <1>3 DEF SetupStops, SetupInv, TrustIsMutual
<1> QED
  BY <1>2, <1>3

(* Nobody takes the config over once the operator owns it.                 *)
LEMMA OthersKeepSetup ==
  ASSUME IInv, SetupInv,
         \/ \E u \in Users : CheckConfig(u) \/ SendInitialize(u)
         \/ \E seed \in ReceivedSeeds : CheckReceived(seed) \/ SendClose(seed)
         \/ Traffic
         \/ UNCHANGED allVars
  PROVE  SetupInv'
<1>1. UNCHANGED <<job, late, registeredEmitters, foreignEmitter>>
      /\ (owner # NoUser => owner' = owner)
  <2>1. CASE \E u \in Users : CheckConfig(u) \/ SendInitialize(u)
    BY <2>1 DEF CheckConfig, SendInitialize, initialize, vars, evmVars, evmStorage,
                solanaVars, solanaAccounts
  <2>2. CASE \E seed \in ReceivedSeeds : CheckReceived(seed) \/ SendClose(seed)
    BY <2>2 DEF CheckReceived, SendClose, close_received, vars, evmVars, evmStorage,
                solanaVars, solanaAccounts
  <2>3. CASE Traffic
    BY <2>3 DEF Traffic, operatorVars, send_message, post_vaa, receive_message, sendMessage,
                receiveMessage, evmVars, evmStorage, solanaVars, solanaAccounts
  <2>4. CASE UNCHANGED allVars
    BY <2>4 DEF allVars, operatorVars, vars, evmVars, evmStorage, solanaVars, solanaAccounts
  <2> QED
    BY <2>1, <2>2, <2>3, <2>4
<1>2. Wallet # NoUser
  BY OperatorAssumption, UsersAssumption
<1> QED
  BY <1>1, <1>2 DEF SetupInv, TrustIsMutual

(* A stopped or repeated setup leaves no contract trusted one-sidedly.     *)
LEMMA NextKeepsSetup == IInv /\ SetupInv /\ [OperatorNext]_allVars => SetupInv'
BY OthersKeepSetup, SetupEvmStep, SetupMoves, RegistrationStep DEF OperatorNext, OperatorStep

(* What the operator's setups rely on holds in every reachable state.      *)
LEMMA SetupsInvariant == OperatorSpec => []SetupInv
<1> QED
  BY OperatorImplementsMessenger, SafetyInvariant, InitSetup, NextKeepsSetup, PTL
     DEF OperatorSpec, OperatorNext

(* However many setups run side by side, stop, land late or run again, the *)
(* program never listens to a contract that does not listen to it.         *)
THEOREM MutualTrust == OperatorSpec => []TrustIsMutual
<1>1. SetupInv => TrustIsMutual
  BY DEF SetupInv
<1> QED
  BY <1>1, SetupsInvariant, PTL

(* A setup that ended well stays good: the config is the operator's for    *)
(* good, whoever else was about to initialize it, the contract goes on     *)
(* listening to the program, and the program to some deployment, whatever  *)
(* registrations of stopped setups land after it.                          *)
THEOREM DoneSetupsLast == OperatorSpec => []DoneSetupsHold
<1>1. SetupInv => DoneSetupsHold
  BY DEF SetupInv, DoneSetupsHold
<1> QED
  BY <1>1, SetupsInvariant, PTL
-----------------------------------------------------------------------------
(* close-received frees a number that may be received again at once: still *)
(* each reception is paid for with one close, however often the scripts    *)
(* look, stop and run again.                                               *)
THEOREM OperatorDeliveries == OperatorSpec => []DeliveriesMatchCloses
<1> QED
  BY OperatorImplementsMessenger, DeliveriesCounted, PTL
=============================================================================
