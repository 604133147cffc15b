---------------------------- MODULE MessengerOperator ----------------------------
(***************************************************************************)
(* The operator's scripts, while messages already flow: initialize-solana, *)
(* which looks at the config account before it sends; setup-messengers for *)
(* a contract, which registers the Solana emitter there, waits, and then   *)
(* registers the contract on Solana; close-received, which looks at the    *)
(* account before it closes it.  A script may stop in or between two       *)
(* awaits, what it sent may land after that, and it may be run again;      *)
(* scripts for two deployments may run side by side.                       *)
(***************************************************************************)
EXTENDS MessengerLiveness

CONSTANTS
  Wallet,     \* the operator's Solana key pair
  MaxTraffic  \* bound on the messages users send in all

ASSUME OperatorAssumption ==
  /\ {Wallet, EvmOwner} \subseteq Users
  /\ Emitters \subseteq Candidates
  /\ MaxTraffic \in Nat

VARIABLES
  initializing,  \* users whose initialize-solana found no config account
  job,           \* contract -> where setup-messengers for it is
  late,          \* contracts whose registration may land after its script stopped
  closing        \* seeds of the accounts close-received has found

operatorVars == <<initializing, job, late, closing>>
allVars == <<vars, operatorVars>>

OperatorInit ==
  /\ Init
  /\ initializing = {}
  /\ job = [c \in EvmContracts |-> "idle"]
  /\ late = {}
  /\ closing = {}

(* initialize-solana returns at once when the config account exists.       *)
CheckConfig(u) ==
  /\ owner = NoUser
  /\ u \notin initializing
  /\ initializing' = initializing \cup {u}
  /\ UNCHANGED <<vars, job, late, closing>>

(* The transaction: it fails when another user's came first.               *)
SendInitialize(u) ==
  /\ u \in initializing
  /\ initialize(u) \/ (owner # NoUser /\ UNCHANGED <<coreVars, solanaVars>>)
  /\ initializing' = initializing \ {u}
  /\ UNCHANGED <<evmVars, job, late, closing>>

-----------------------------------------------------------------------------
(* Mutant: registering again what a stopped run registered fails.          *)
SetupEvmOnce(c) ==
  /\ job[c] \in {"idle", "done"}
  /\ registeredEmitters[c][CHAIN_ID_SOLANA] = NoEmitter
  /\ registerEmitter(c, EvmOwner, CHAIN_ID_SOLANA, SolanaEmitter)
  /\ job' = [job EXCEPT ![c] = "evm"]
  /\ UNCHANGED <<solanaVars, initializing, late, closing>>

(* Run for the first time, after a stop, or once more.  Landing and        *)
(* receipt are one step: a registration repeated on EVM changes nothing.   *)
SetupEvm(c) ==
  /\ job[c] \in {"idle", "done"}
  /\ registerEmitter(c, EvmOwner, CHAIN_ID_SOLANA, SolanaEmitter)
  /\ job' = [job EXCEPT ![c] = "evm"]
  /\ UNCHANGED <<solanaVars, initializing, late, closing>>

(* Mutant: the registration on Solana does not wait for that on EVM.       *)
SetupSolanaEager(c) ==
  /\ job[c] \in {"idle", "evm", "done"}
  /\ owner = Wallet
  /\ job' = [job EXCEPT ![c] = "submitted"]
  /\ UNCHANGED <<vars, initializing, late, closing>>

(* rpc() simulates the registration, which is refused without a config or  *)
(* under another owner, and submits it.                                    *)
SetupSolana(c) ==
  /\ job[c] = "evm"
  /\ owner = Wallet
  /\ job' = [job EXCEPT ![c] = "submitted"]
  /\ UNCHANGED <<vars, initializing, late, closing>>

(* The registration lands, and its script sees that.  The script would     *)
(* also take "already in use" for this, which init_if_needed never answers.*)
SetupDone(c) ==
  /\ job[c] = "submitted"
  /\ register_emitter(Wallet, EvmChain, c)
  /\ job' = [job EXCEPT ![c] = "done"]
  /\ UNCHANGED <<evmVars, initializing, late, closing>>

(* The registration is refused or not confirmed in time, the IDL file is   *)
(* missing, or the process is killed.                                      *)
SetupStops(c) ==
  /\ job[c] \in {"evm", "submitted"}
  /\ job' = [job EXCEPT ![c] = "idle"]
  /\ late' = IF job[c] = "submitted" THEN late \cup {c} ELSE late
  /\ UNCHANGED <<vars, initializing, closing>>

(* What was submitted lands all the same, at once or when the next run is  *)
(* under way (one for each contract), or it never does.                    *)
LateLands(c) ==
  /\ c \in late
  /\ register_emitter(Wallet, EvmChain, c)
  /\ late' = late \ {c}
  /\ UNCHANGED <<evmVars, initializing, job, closing>>

-----------------------------------------------------------------------------
(* close-received <chain> <sequence> returns when there is no account; with *)
(* --all it lists what there is.                                           *)
CheckReceived(seed) ==
  /\ seed \in DOMAIN receivedAccounts \ closing
  /\ closes[seed] < MaxCloses
  /\ closing' = closing \cup {seed}
  /\ UNCHANGED <<vars, initializing, job, late>>

(* The transaction: it fails for any wallet but the owner's.               *)
SendClose(seed) ==
  /\ seed \in closing
  /\ IF owner = Wallet THEN close_received(Wallet, seed) ELSE UNCHANGED <<coreVars, solanaVars>>
  /\ closing' = closing \ {seed}
  /\ UNCHANGED <<evmVars, initializing, job, late>>

OperatorStep ==
  \/ \E u \in Users : CheckConfig(u) \/ SendInitialize(u)
  \/ \E c \in EvmContracts :
       \/ SetupEvm(c) \/ SetupSolana(c) \/ SetupDone(c) \/ SetupStops(c) \/ LateLands(c)
  \/ \E seed \in ReceivedSeeds : CheckReceived(seed) \/ SendClose(seed)

(* What users, guardians and redeemers do meanwhile.                       *)
Traffic ==
  /\ \/ /\ \/ /\ Cardinality(sent) < MaxTraffic
              /\ \E seed \in 1 .. MaxSequence[SolanaEmitter], p \in Payloads : send_message(seed, p)
           \/ \E v \in vaas : v.emitterChain = EvmChain /\ post_vaa(v)
           \/ \E v \in postedVaas : receive_message(v)
        /\ UNCHANGED evmVars
     \/ /\ \/ /\ Cardinality(sent) < MaxTraffic
              /\ \E c \in EvmContracts, p \in Payloads, value \in Fees : sendMessage(c, p, value)
           \/ \E c \in EvmContracts, vm \in vaas : receiveMessage(c, vm)
           \/ (\E m \in published : Sign(m)) /\ UNCHANGED evmVars
        /\ UNCHANGED solanaVars
  /\ UNCHANGED operatorVars

OperatorSpec == OperatorInit /\ [][OperatorStep \/ Traffic]_allVars

(* What is sent to EVM is mined, calls to Solana settle, and the operator  *)
(* runs what has not ended well again.  Guardians sign what the program    *)
(* publishes, and somebody presents it to every contract.                  *)
FairOperatorSpec ==
  /\ OperatorSpec
  /\ \A c \in EvmContracts :
       /\ WF_allVars(\/ job[c] = "idle" /\ SetupEvm(c)
                     \/ SetupSolana(c) \/ SetupDone(c) \/ SetupStops(c))
       /\ \A n \in 0 .. MaxSequence[SolanaEmitter] - 1 :
            WF_allVars(UNCHANGED operatorVars /\ RedeemOnEvm(c, SolanaEmitter, n))
  /\ \A n \in 0 .. MaxSequence[SolanaEmitter] - 1 :
       WF_allVars(UNCHANGED operatorVars /\ GuardiansSign(SolanaEmitter, n))

-----------------------------------------------------------------------------
(* Trust is never one-sided towards Solana: a contract the program listens *)
(* to listens to the program, wherever setups stopped, however often they  *)
(* were run and for whichever deployments.  What the program's users take  *)
(* to be a connection works in both directions.                            *)
TrustIsMutual ==
  \A c \in EvmContracts :
    foreignEmitter[EvmChain] = c => registeredEmitters[c][CHAIN_ID_SOLANA] = SolanaEmitter

(* What a setup that ended well relies on lasts: the operator is still the *)
(* owner, although others had found no config either, the contract still   *)
(* listens to the program, and the program to a contract, if to the other  *)
(* deployment's, whose registration may have landed later than it should.  *)
DoneSetupsHold ==
  \A c \in EvmContracts :
    job[c] = "done" =>
      /\ owner = Wallet
      /\ registeredEmitters[c][CHAIN_ID_SOLANA] = SolanaEmitter
      /\ foreignEmitter[EvmChain] \in EvmContracts

(* A contract whose setup is no longer stopped halfway ends up connected   *)
(* with a program the operator initialized: what earlier attempts left     *)
(* behind on either chain does not make the next one fail.                 *)
SetupConnects ==
  <>[](owner = Wallet) =>
    \A c \in EvmContracts : <>[][~SetupStops(c)]_allVars => <>(job[c] = "done")
=============================================================================
