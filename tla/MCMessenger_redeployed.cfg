\* The claim that messages of the registered emitter can be received.
SPECIFICATION Spec
CONSTANTS
  evmOld = evmOld
  evmNew = evmNew
  solana = solana
  alice = alice
  bob = bob
  NoEmitter = NoEmitter
  NoUser = NoUser
  ProgramId = ProgramId
  EvmContracts <- MCContracts
  SolanaEmitter <- solana
  Users <- MCOneUser
  EvmOwner <- alice
  EvmChain = 30
  Fees = {0}
  Payloads <- MCOnePayload
  MaxSequence <- MCToSolana
  MaxCloses = 0
  Candidates <- MCCandidates
INVARIANT RegisteredEmitterReceivable
