\* Setups for two deployments, with the first messages on their way.
SPECIFICATION FairOperatorSpec
CONSTANTS
  evmOld = evmOld
  evmNew = evmNew
  solana = solana
  alice = alice
  bob = bob
  NoEmitter = NoEmitter
  NoUser = NoUser
  ProgramId = ProgramId
  EvmContracts <- MCContracts
  SolanaEmitter <- solana
  Users = {alice, bob}
  EvmOwner <- alice
  Wallet <- alice
  EvmChain = 30
  Fees = {0}
  Payloads <- MCPayloads
  MaxSequence <- MCThreeFromSolana
  MaxCloses = 1
  MaxTraffic = 2
  Candidates <- MCCandidates
INVARIANTS
  TrustIsMutual
  DoneSetupsHold
PROPERTIES
  SetupConnects
  SolanaMessagesReachEvm
