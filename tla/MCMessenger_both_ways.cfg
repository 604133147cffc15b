\* Both ways: payloads at every length limit, racing sends, a changing fee, closed accounts.
SPECIFICATION Spec
CONSTANTS
  evmOld = evmOld
  evmNew = evmNew
  solana = solana
  alice = alice
  bob = bob
  NoEmitter = NoEmitter
  NoUser = NoUser
  ProgramId = ProgramId
  EvmContracts <- MCOneContract
  SolanaEmitter <- solana
  Users <- MCUsers
  EvmOwner <- alice
  EvmChain = 30
  Fees = {1, 2}
  Payloads <- MCBoundaryPayloads
  MaxSequence <- MCLimits
  MaxCloses = 1
  Candidates <- MCBothCandidates
INVARIANTS
  TypeOK
  NetworkInv
  DeliveriesMatchCloses
  StoredPayloadsWereSent
  MessageAccountsFollowTracker
PROPERTY EvmImplementsChannel
