\* A token native to each chain, both of 9 decimals, there and back.  Twenty times a fee of nine leaves u64.
SPECIFICATION Spec
CONSTANTS
  MaxU64 = 150
  ue = ue
  alice = alice
  bob = bob
  solToken = solToken
  evmToken = evmToken
  Tokens <- MCBothTokens
  HomeChain <- MCHomeChain
  Decimals <- MCDecimals
  InitialBalance = 50
  InitialAccounts <- MCSomeAccounts
  EvmUsers = {ue}
  SolanaUsers = {alice, bob}
  EvmBridge = EvmBridge
  SolanaProgram = SolanaProgram
  RedeemerConfig = RedeemerConfig
  EvmTokenBridge = EvmTokenBridge
  SolanaTokenBridge = SolanaTokenBridge
  Nobody = Nobody
  EvmChain = 30
  Amounts = {2, 35}
  OtherAmounts = {2}
  MaxTransfers <- MCOneEach
  EvmBridgeOwner = ue
  Fees = {0, 1}
  LowBytes <- MCLowBytes
  Registrations <- MCRegistrations
  RelayerFees <- MCFees
  EvmRelayerFees <- MCEvmFees
INVARIANTS
  BridgeTypeOK
  Accounted
  ContractHoldsOnlyWhatIsStuck
  RedemptionSucceeds
PROPERTY BridgeImplementsTransfers
