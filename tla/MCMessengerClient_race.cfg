\* Two Solana senders race for the tracker, beside an EVM sender and a changing fee.
SPECIFICATION ClientsSpec
CONSTANTS
  evm = evm
  solana = solana
  alice = alice
  s1 = s1
  s2 = s2
  e1 = e1
  NoEmitter = NoEmitter
  NoUser = NoUser
  ProgramId = ProgramId
  Nothing = Nothing
  EvmContracts <- MCContracts
  SolanaEmitter <- solana
  Users <- MCUsers
  EvmOwner <- alice
  EvmChain = 30
  Fees = {0, 1}
  Payloads <- MCPayloads
  MaxSequence <- MCThree
  MaxCloses = 0
  Candidates <- MCContracts
  SolanaSenders <- MCTwoSolana
  EvmSenders <- MCOneEvm
  Contract <- evm
INVARIANTS
  ClientsTypeOK
  FetchedIsOwn
