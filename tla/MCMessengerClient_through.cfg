\* One sender each way: runs end, and what a persistent user redeems gets through.
SPECIFICATION FairClientsSpec
CONSTANTS
  evm = evm
  solana = solana
  alice = alice
  s1 = s1
  s2 = s2
  e1 = e1
  NoEmitter = NoEmitter
  NoUser = NoUser
  ProgramId = ProgramId
  Nothing = Nothing
  EvmContracts <- MCContracts
  SolanaEmitter <- solana
  Users <- MCUsers
  EvmOwner <- alice
  EvmChain = 30
  Fees = {1}
  Payloads <- MCPayloads
  MaxSequence <- MCBothWays
  MaxCloses = 0
  Candidates <- MCCandidates
  SolanaSenders <- MCOneSolana
  EvmSenders <- MCOneEvm
  Contract <- evm
INVARIANT DoneMeansDelivered
PROPERTIES
  RunsEnd
  KnownMessagesGetThrough
