\* The claim that nothing is received twice.
SPECIFICATION Spec
CONSTANTS
  evmOld = evmOld
  evmNew = evmNew
  solana = solana
  alice = alice
  bob = bob
  NoEmitter = NoEmitter
  NoUser = NoUser
  ProgramId = ProgramId
  EvmContracts <- MCOneContract
  SolanaEmitter <- solana
  Users <- MCOneUser
  EvmOwner <- alice
  EvmChain = 30
  Fees = {0}
  Payloads <- MCOnePayload
  MaxSequence <- MCBothWays
  MaxCloses = 1
  Candidates <- MCBothCandidates
INVARIANT ReceivedOnce
