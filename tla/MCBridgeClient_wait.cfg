\* The emitter test-evm-to-solana waits for.
SPECIFICATION ClientSpec
CONSTANTS
  MaxU64 = 5000
  ue = ue
  alice = alice
  solToken = solToken
  evmToken = evmToken
  sScript = sScript
  sLibrary = sLibrary
  eScript = eScript
  eLibrary = eLibrary
  Tokens <- MCTokens
  HomeChain <- MCHomeChain
  Decimals <- MCDecimals
  InitialBalance = 45
  InitialAccounts <- MCAccounts
  EvmUsers = {ue}
  SolanaUsers = {alice}
  EvmBridge = EvmBridge
  SolanaProgram = SolanaProgram
  RedeemerConfig = RedeemerConfig
  EvmTokenBridge = EvmTokenBridge
  SolanaTokenBridge = SolanaTokenBridge
  Nobody = Nobody
  EvmChain = 30
  Amounts = {35}
  OtherAmounts = {1}
  MaxTransfers <- MCTwoToEvm
  EvmBridgeOwner = ue
  Fees = {0, 1}
  LowBytes <- MCLowBytes
  Registrations <- MCRegistrations
  RelayerFees <- MCRelayerFees
  EvmRelayerFees = {}
  SolanaSenders <- MCSolanaSenders
  EvmSenders <- MCEvmSenders
  LibraryUsers <- MCLibraryUsers
  SolanaUser <- alice
  EvmUser <- ue
  TokenOf <- MCTokenOf
  ClientAmount = 35
  Operator <- alice
  Nothing = Nothing
  MaxRuns = 1
INVARIANT WaitFindsOwnTransfer
