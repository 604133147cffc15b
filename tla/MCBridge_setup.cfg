\* The registrations of setup-bridges, then a transfer from EVM to Solana.
SPECIFICATION Spec
CONSTANTS
  MaxU64 = 200
  ue = ue
  alice = alice
  bob = bob
  solToken = solToken
  evmToken = evmToken
  Tokens <- MCEvmToken
  HomeChain <- MCHomeChain
  Decimals <- MCDecimals
  InitialBalance = 50
  InitialAccounts <- MCAccounts
  EvmUsers = {ue}
  SolanaUsers = {alice, bob}
  EvmBridge = EvmBridge
  SolanaProgram = SolanaProgram
  RedeemerConfig = RedeemerConfig
  EvmTokenBridge = EvmTokenBridge
  SolanaTokenBridge = SolanaTokenBridge
  Nobody = Nobody
  EvmChain = 30
  Amounts = {5, 35}
  OtherAmounts = {1}
  MaxTransfers <- MCOneEach
  EvmBridgeOwner = ue
  Fees = {1}
  LowBytes <- MCLowBytes
  Registrations <- MCSetup
  RelayerFees <- MCFees
  EvmRelayerFees <- MCEvmFees
INVARIANT SentTransfersRedeemable
