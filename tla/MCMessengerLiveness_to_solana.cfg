\* EVM to Solana: two deployments that share a chain id, re-registration, nothing closed.
SPECIFICATION FairSpec
CONSTANTS
  evmOld = evmOld
  evmNew = evmNew
  solana = solana
  alice = alice
  NoEmitter = NoEmitter
  NoUser = NoUser
  ProgramId = ProgramId
  EvmContracts <- MCContracts
  SolanaEmitter <- solana
  Users <- MCUsers
  EvmOwner <- alice
  EvmChain = 30
  Fees = {0}
  Payloads <- MCPayloads
  MaxSequence <- MCToSolana
  MaxCloses = 0
  Candidates <- MCContractCandidates
INVARIANT StoredPayloadsWereSent
PROPERTIES
  SolanaImplementsChannel
  EvmMessagesReachSolana
