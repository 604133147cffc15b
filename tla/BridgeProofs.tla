----------------------------- MODULE BridgeProofs -----------------------------
(***************************************************************************)
(* Proofs about Bridge, for any tokens, decimals, amounts, fees, users,    *)
(* registrations and numbers of transfers.                                 *)
(***************************************************************************)
EXTENDS BridgeClaims, TokenAmountsProofs, SumProofs

(* What the Token Bridges publish.  A number is used once per chain and    *)
(* lies below the chain's counter.                                         *)
TransfersInv ==
  /\ \A m \in transfers :
       /\ m.chain \in Chains /\ m.token \in Tokens
       /\ m.amount \in Nat /\ m.recipient \in Recipients
       /\ m.sequence \in Nat /\ m.sequence < tbSequence[m.chain]
       /\ m.emitter = TokenBridgeOf(m.chain) /\ FitsU64(m.amount)
  /\ \A m1, m2 \in transfers :
       m1.chain = m2.chain /\ m1.sequence = m2.sequence => m1 = m2

(* What was paid was completed first; the fees of the config are numbers.  *)
PayoutsInv ==
  /\ evmPayouts \cup solanaPayouts \subseteq
       [transfer : completed, recipient : Holders, toRecipient : Nat, toRedeemer : Nat]
  /\ relayer \in [fee : Nat, precision : Nat]
  /\ evmRelayer \in [fee : Nat, precision : Nat]

BInv == BridgeTypeOK /\ TransfersInv /\ PayoutsInv

-----------------------------------------------------------------------------
(* Units of a token on either chain.                                       *)
LEMMA Units ==
  ASSUME NEW ch \in Chains, NEW t \in Tokens
  PROVE  /\ UnitOn(ch, t) = amount_adjustment(LocalDecimals(ch, t))
         /\ UnitOn(ch, t) \in Nat \ {0}
<1>1. UnitOn(ch, t) = amount_adjustment(LocalDecimals(ch, t))
  BY DEF UnitOn, amount_adjustment
<1>2. LocalDecimals(ch, t) \in {Decimals[t], MAX_WRAPPED_ASSET_DECIMALS}
  BY DEF LocalDecimals
<1>3. amount_adjustment(MAX_WRAPPED_ASSET_DECIMALS) = 1
  BY DEF amount_adjustment, MAX_WRAPPED_ASSET_DECIMALS
<1>4. amount_adjustment(Decimals[t]) \in Nat \ {0}
  BY TokensAssumption
<1> QED
  BY <1>1, <1>2, <1>3, <1>4

(* A transfer is worth a number of raw units, and on EVM the contract      *)
(* computes the one the Token Bridge pays.                                 *)
LEMMA Worth ==
  ASSUME NEW m, m.amount \in Nat, m.token \in Tokens, NEW ch \in Chains
  PROVE  /\ Payout(ch, m) \in Nat
         /\ denormalizeAmount(m.amount, LocalDecimals(EvmChain, m.token)) = Payout(EvmChain, m)
<1>1. \A a, b \in Nat : a * b \in Nat
  BY SMT
<1>2. Payout(ch, m) \in Nat
  BY <1>1, Units DEF Payout
<1>3. m.amount * 1 = m.amount
  BY SMT
<1>4. denormalizeAmount(m.amount, LocalDecimals(EvmChain, m.token)) = Payout(EvmChain, m)
  BY <1>3 DEF denormalizeAmount, Payout, UnitOn, MAX_WRAPPED_ASSET_DECIMALS
<1> QED
  BY <1>2, <1>4

(* What amounts are worth at home adds up, and is the same wherever a      *)
(* transfer's amount is paid out.                                          *)
LEMMA HomeValues ==
  ASSUME NEW ch \in Chains, NEW t \in Tokens
  PROVE  /\ HomeValue(ch, t, 0) = 0
         /\ \A n \in Nat : HomeValue(ch, t, n) \in Nat
         /\ \A n1, n2 \in Nat :
              HomeValue(ch, t, n1 + n2) = HomeValue(ch, t, n1) + HomeValue(ch, t, n2)
         /\ \A n \in Nat :
              HomeValue(ch, t, n * UnitOn(ch, t)) = n * UnitOn(HomeChain[t], t)
<1> DEFINE k == UnitOn(HomeChain[t], t)
<1>1. HomeChain[t] \in Chains /\ k \in Nat
  BY Units, TokensAssumption
<1>2. HomeChain[t] # ch => UnitOn(ch, t) = 1
  BY TokensAssumption DEF UnitOn, LocalDecimals, MAX_WRAPPED_ASSET_DECIMALS
<1> HIDE DEF k
<1>3. /\ 0 * k = 0
      /\ \A n \in Nat : n * k \in Nat /\ n * 1 = n
      /\ \A n1, n2 \in Nat : (n1 + n2) * k = n1 * k + n2 * k
  BY <1>1, SMT
<1>4. CASE ch = HomeChain[t]
  BY <1>4 DEF HomeValue
<1>5. CASE ch # HomeChain[t]
  <2>1. \A n : HomeValue(ch, t, n) = n * k
    BY <1>5 DEF HomeValue, k
  <2>2. \A n \in Nat : HomeValue(ch, t, n * UnitOn(ch, t)) = n * k
    BY <1>2, <1>3, <1>5, <2>1
  <2>3. \A n1, n2 \in Nat :
          HomeValue(ch, t, n1 + n2) = HomeValue(ch, t, n1) + HomeValue(ch, t, n2)
    BY <1>3, <2>1
  <2>4. HomeValue(ch, t, 0) = 0 /\ \A n \in Nat : HomeValue(ch, t, n) \in Nat
    BY <1>3, <2>1, Zenon
  <2> QED
    BY <2>2, <2>3, <2>4, Zenon DEF k
<1> QED
  BY <1>4, <1>5

(* Who is who. *)
LEMMA Parties ==
  /\ EvmUsers \subseteq Holders /\ SolanaUsers \subseteq Holders /\ EvmBridge \in Holders
  /\ Users \subseteq Holders /\ ChainOfHolder(EvmBridge) = EvmChain
  /\ EvmBridge \notin EvmUsers /\ EvmBridge \notin SolanaUsers
  /\ CHAIN_ID_SOLANA \in Chains /\ EvmChain \in Chains /\ EvmChain # CHAIN_ID_SOLANA
BY AddressesAssumption, TokensAssumption DEF Holders, Users, Chains, ChainOfHolder

(* Nothing sent, paid or kept at first.                                    *)
LEMMA InitBInv == Init => BInv
<1> SUFFICES ASSUME Init PROVE BInv
  OBVIOUS
<1> USE Parties DEF Init, TbInit, EvmInit, SolanaInit
<1>1. BridgeTypeOK
  <2>1. balance \in [Holders -> [Tokens -> Nat]]
    BY TokensAssumption
  <2> QED
    BY <2>1 DEF BridgeTypeOK
<1> QED
  BY <1>1 DEF BInv, TransfersInv, PayoutsInv

-----------------------------------------------------------------------------
(* The Token Bridge's part of the steps: publishing, and completing.       *)
LEMMA PublishKeeps ==
  ASSUME BInv, NEW m, TbTransfer(m), m.chain \in Chains, m.sequence = tbSequence[m.chain],
         m.emitter = TokenBridgeOf(m.chain), m.token \in Tokens, m.amount \in Nat,
         m.recipient \in Recipients
  PROVE  /\ tbSequence' \in [Chains -> Nat]
         /\ TransfersInv'
         /\ signed' \subseteq transfers' /\ completed' \subseteq signed' /\ posted' \subseteq signed'
         /\ UNCHANGED <<signed, posted, completed>>
         /\ transfers' = transfers \cup {m}
         /\ \A m2 \in transfers : ~(m2.chain = m.chain /\ m2.sequence = m.sequence)
<1> USE DEF BInv, BridgeTypeOK, TransfersInv
<1>1. /\ transfers' = transfers \cup {m}
      /\ tbSequence' = [tbSequence EXCEPT ![m.chain] = @ + 1]
      /\ UNCHANGED <<signed, posted, completed>> /\ FitsU64(m.amount)
  BY DEF TbTransfer
<1>2. \A m2 \in transfers : ~(m2.chain = m.chain /\ m2.sequence = m.sequence)
  OBVIOUS
<1>3. \A ch \in Chains : tbSequence[ch] \in Nat /\ tbSequence'[ch] \in Nat
                         /\ tbSequence[ch] <= tbSequence'[ch]
  BY <1>1
<1>4. tbSequence[m.chain] < tbSequence'[m.chain]
  BY <1>1
<1>5. \A m2 \in transfers' :
        /\ m2.chain \in Chains /\ m2.token \in Tokens
        /\ m2.amount \in Nat /\ m2.recipient \in Recipients
        /\ m2.sequence \in Nat /\ m2.sequence < tbSequence'[m2.chain]
        /\ m2.emitter = TokenBridgeOf(m2.chain) /\ FitsU64(m2.amount)
  BY <1>1, <1>3, <1>4
<1>6. \A m1, m2 \in transfers' :
        m1.chain = m2.chain /\ m1.sequence = m2.sequence => m1 = m2
  BY <1>1, <1>2
<1> QED
  BY <1>1, <1>2, <1>3, <1>5, <1>6

(* What the Token Bridge completes was signed and not completed before.    *)
LEMMA CompleteKeeps ==
  ASSUME BInv, NEW m, NEW ch, NEW redeemers, TbComplete(m, ch, redeemers)
  PROVE  /\ tbSequence' = tbSequence /\ transfers' = transfers /\ TransfersInv'
         /\ signed' \subseteq transfers' /\ completed' \subseteq signed' /\ posted' \subseteq signed'
         /\ completed' = completed \cup {m}
         /\ m \in signed /\ m \in transfers /\ m \notin completed
         /\ posted' = posted /\ m.toChain = ch /\ m.to \in redeemers
BY DEF BInv, BridgeTypeOK, TransfersInv, TbComplete

(* A credit adds to the balances of one token. *)
LEMMA CreditKeeps ==
  ASSUME BInv, NEW t \in Tokens, NEW gain \in [Holders -> Nat], Credit(t, gain)
  PROVE  /\ balance' \in [Holders -> [Tokens -> Nat]]
         /\ \A h \in Holders, t2 \in Tokens : balance'[h][t2] =
              IF t2 = t THEN balance[h][t2] + gain[h] ELSE balance[h][t2]
<1>1. /\ balance \in [Holders -> [Tokens -> Nat]]
      /\ balance' = [h \in Holders |-> [balance[h] EXCEPT ![t] = @ + gain[h]]]
  BY DEF BInv, BridgeTypeOK, Credit
<1>2. \A h \in Holders : balance'[h] \in [Tokens -> Nat]
  BY <1>1
<1>3. \A h \in Holders, t2 \in Tokens : balance'[h][t2] =
        IF t2 = t THEN balance[h][t2] + gain[h] ELSE balance[h][t2]
  BY <1>1
<1> QED
  BY <1>1, <1>2, <1>3

-----------------------------------------------------------------------------
(* What a step that sends does: one transfer, under a number not used      *)
(* before, worth what it takes from one user less what it leaves to the    *)
(* contract as dust.                                                       *)
Enters(m, u, taken, left) ==
  /\ transfers' = transfers \cup {m}
  /\ \A m2 \in transfers : ~(m2.chain = m.chain /\ m2.sequence = m.sequence)
  /\ m.token \in Tokens
  /\ m.from = EvmBridge =>
       /\ m.chain = EvmChain /\ m.toChain \in Chains
       /\ m.to = registeredEmitters[m.toChain] /\ m.to # Nobody
  /\ taken <= balance[u][m.token]
  /\ \A h \in Holders, t \in Tokens : balance'[h][t] =
       IF t # m.token THEN balance[h][t]
       ELSE IF h = u THEN balance[h][t] - taken
       ELSE IF h = EvmBridge THEN balance[h][t] + left ELSE balance[h][t]
  /\ \A t \in Tokens : dust'[t] = IF t = m.token THEN dust[t] + left ELSE dust[t]
  /\ HomeValue(ChainOfHolder(u), m.token, taken)
       = m.amount * UnitOn(HomeChain[m.token], m.token) + HomeValue(EvmChain, m.token, left)

Sending ==
  /\ UNCHANGED <<evmPayouts, solanaPayouts, completed, posted, registeredEmitters>>
  /\ \E m : \E u \in Users, taken, left \in Nat : Enters(m, u, taken, left)

(* Steps that send.                                                        *)
LEMMA SendEvmStep ==
  ASSUME BInv, NEW u \in EvmUsers, NEW t \in Tokens, NEW amount \in Amounts, NEW ch \in Chains,
         NEW r \in Recipients, NEW value, sendTokensWithPayload(u, t, amount, ch, r, value),
         UNCHANGED solanaVars
  PROVE  BInv' /\ Sending
<1> DEFINE d       == LocalDecimals(EvmChain, t)
           bridged == truncate_amount(amount, d)
           m       == Transfer(EvmChain, t, normalize_amount(amount, d),
                               registeredEmitters[ch], ch, EvmBridge, r)
<1>1. amount \in Nat /\ amount_adjustment(d) \in Nat \ {0}
  BY Units, Parties, TokensAssumption
<1>2. bridged \in Nat /\ bridged <= amount /\ normalize_amount(amount, d) \in Nat
  BY <1>1, TruncationBounds, Division DEF normalize_amount
<1>2a. bridged = m.amount * UnitOn(EvmChain, t) /\ m.token = t
  BY Units, Parties DEF truncate_amount, denormalize_amount, Transfer
<1>3. /\ TbTransfer(m)
      /\ amount <= balance[u][t] /\ registeredEmitters[ch] # Nobody
      /\ balance' = [balance EXCEPT ![u][t] = @ - amount,
                                    ![EvmBridge][t] = @ + (amount - bridged)]
      /\ dust' = [dust EXCEPT ![t] = @ + (amount - bridged)]
      /\ UNCHANGED <<registeredEmitters, redeemedTransfers, evmRelayer, messageFee, evmPayouts>>
  BY DEF sendTokensWithPayload, evmStorage
<1>4. UNCHANGED <<bridgeOwner, relayer, foreignContract, solanaPayouts>>
  BY DEF solanaVars, solanaAccounts
<1> HIDE DEF d, bridged
<1>5. /\ m.chain \in Chains /\ m.sequence = tbSequence[m.chain] /\ m.token \in Tokens
      /\ m.amount \in Nat /\ m.recipient \in Recipients /\ m.emitter = TokenBridgeOf(m.chain)
  BY <1>2, Parties DEF Transfer
<1> HIDE DEF m
<1>6. /\ tbSequence' \in [Chains -> Nat]
      /\ TransfersInv'
      /\ signed' \subseteq transfers' /\ completed' \subseteq signed' /\ posted' \subseteq signed'
      /\ UNCHANGED <<signed, posted, completed>>
      /\ transfers' = transfers \cup {m}
      /\ \A m2 \in transfers : ~(m2.chain = m.chain /\ m2.sequence = m.sequence)
  BY <1>3, <1>5, PublishKeeps
<1>7. /\ balance' \in [Holders -> [Tokens -> Nat]]
      /\ dust' \in [Tokens -> Nat]
      /\ amount - bridged \in Nat
      /\ \A h \in Holders, t2 \in Tokens : balance'[h][t2] =
           IF t2 # t THEN balance[h][t2]
           ELSE IF h = u THEN balance[h][t2] - amount
           ELSE IF h = EvmBridge THEN balance[h][t2] + (amount - bridged) ELSE balance[h][t2]
      /\ \A t2 \in Tokens : dust'[t2] = IF t2 = t THEN dust[t2] + (amount - bridged) ELSE dust[t2]
  <2>1. balance \in [Holders -> [Tokens -> Nat]] /\ dust \in [Tokens -> Nat]
    BY DEF BInv, BridgeTypeOK
  <2>2. u \in Holders /\ EvmBridge \in Holders /\ u # EvmBridge
    BY Parties
  <2>3. amount - bridged \in Nat /\ balance[u][t] - amount \in Nat
    BY <1>1, <1>2, <1>3, <2>1, <2>2
  <2> DEFINE x   == amount - bridged
             low == [balance[u] EXCEPT ![t] = @ - amount]
             row == [balance[EvmBridge] EXCEPT ![t] = @ + x]
  <2>4. balance' = [h \in Holders |-> IF h = EvmBridge THEN row ELSE IF h = u THEN low ELSE balance[h]]
    BY <1>3, <2>1, <2>2
  <2>5. dust' = [dust EXCEPT ![t] = @ + x]
    BY <1>3
  <2>6. x \in Nat
    BY <2>3
  <2>6a. \A t2 \in Tokens : dust'[t2] = IF t2 = t THEN dust[t2] + x ELSE dust[t2]
    BY <2>1, <2>5
  <2> HIDE DEF x
  <2>7. /\ row \in [Tokens -> Nat] /\ dust' \in [Tokens -> Nat]
        /\ \A t2 \in Tokens :
             row[t2] = IF t2 = t THEN balance[EvmBridge][t2] + x ELSE balance[EvmBridge][t2]
    BY <2>1, <2>2, <2>5, <2>6
  <2>8. /\ low \in [Tokens -> Nat]
        /\ \A t2 \in Tokens : low[t2] = IF t2 = t THEN balance[u][t2] - amount ELSE balance[u][t2]
    BY <2>1, <2>2, <2>3
  <2> HIDE DEF low, row
  <2>9. balance' \in [Holders -> [Tokens -> Nat]]
    BY <2>1, <2>2, <2>4, <2>7, <2>8
  <2>10. \A h \in Holders, t2 \in Tokens : balance'[h][t2] =
           IF t2 # t THEN balance[h][t2]
           ELSE IF h = u THEN balance[h][t2] - amount
           ELSE IF h = EvmBridge THEN balance[h][t2] + x ELSE balance[h][t2]
    BY <2>2, <2>4, <2>7, <2>8
  <2> QED
    BY <2>3, <2>6a, <2>7, <2>9, <2>10 DEF x
<1>8. BridgeTypeOK' /\ PayoutsInv'
  BY <1>3, <1>4, <1>6, <1>7 DEF BInv, BridgeTypeOK, PayoutsInv
<1>9. HomeValue(ChainOfHolder(u), t, amount)
        = m.amount * UnitOn(HomeChain[t], t) + HomeValue(EvmChain, t, amount - bridged)
  <2>1. ChainOfHolder(u) = EvmChain /\ u \in Users
    BY AddressesAssumption DEF ChainOfHolder, Users
  <2>2. amount = bridged + (amount - bridged)
    BY <1>1, <1>2
  <2>3. HomeValue(EvmChain, t, amount)
          = HomeValue(EvmChain, t, bridged) + HomeValue(EvmChain, t, amount - bridged)
    BY <1>2, <1>7, <2>2, HomeValues, Parties
  <2>4. HomeValue(EvmChain, t, bridged) = m.amount * UnitOn(HomeChain[t], t)
    BY <1>2a, <1>5, HomeValues, Parties
  <2> QED
    BY <2>1, <2>3, <2>4
<1>10. Sending
  <2>1. u \in Users
    BY DEF Users
  <2>2. /\ m.token = t /\ amount <= balance[u][t]
        /\ m.chain = EvmChain /\ m.toChain \in Chains
        /\ m.to = registeredEmitters[m.toChain] /\ m.to # Nobody
    BY <1>2a, <1>3 DEF Transfer, m
  <2>3. Enters(m, u, amount, amount - bridged)
    BY <1>6, <1>7, <1>9, <2>2, Zenon DEF Enters
  <2>4. UNCHANGED <<evmPayouts, solanaPayouts, completed, posted, registeredEmitters>>
    BY <1>3, <1>4, <1>6
  <2> QED
    BY <1>1, <1>7, <2>1, <2>3, <2>4 DEF Sending
<1> QED
  BY <1>6, <1>7, <1>8, <1>10 DEF BInv

(* The program's sends and the transfers that bypass the bridge take       *)
(* tokens from one user.                                                   *)
LEMMA SpendStep ==
  ASSUME BInv, NEW u \in Users, NEW t \in Tokens, NEW moved \in Nat, NEW m,
         moved <= balance[u][t], TbTransfer(m),
         m.chain \in Chains, m.sequence = tbSequence[m.chain],
         m.emitter = TokenBridgeOf(m.chain), m.token = t, m.amount \in Nat,
         m.recipient \in Recipients, m.from # EvmBridge,
         moved = m.amount * UnitOn(ChainOfHolder(u), t),
         balance' = [balance EXCEPT ![u][t] = @ - moved],
         UNCHANGED <<solanaVars, evmVars>>
  PROVE  BInv' /\ Sending
<1>1. UNCHANGED <<registeredEmitters, redeemedTransfers, evmRelayer, messageFee, dust,
                  evmPayouts, bridgeOwner, relayer, foreignContract, solanaPayouts>>
  BY DEF solanaVars, solanaAccounts, evmVars, evmStorage
<1>2. /\ tbSequence' \in [Chains -> Nat]
      /\ TransfersInv'
      /\ signed' \subseteq transfers' /\ completed' \subseteq signed' /\ posted' \subseteq signed'
      /\ UNCHANGED <<signed, posted, completed>>
      /\ transfers' = transfers \cup {m}
      /\ \A m2 \in transfers : ~(m2.chain = m.chain /\ m2.sequence = m.sequence)
  BY PublishKeeps
<1>3. /\ balance' \in [Holders -> [Tokens -> Nat]]
      /\ \A h \in Holders, t2 \in Tokens : balance'[h][t2] =
           IF t2 # t THEN balance[h][t2]
           ELSE IF h = u THEN balance[h][t2] - moved
           ELSE IF h = EvmBridge THEN balance[h][t2] + 0 ELSE balance[h][t2]
  <2>1. u \in Holders /\ u # EvmBridge /\ balance \in [Holders -> [Tokens -> Nat]]
    BY Parties DEF Users, Holders, BInv, BridgeTypeOK
  <2>2. balance[u][t] - moved \in Nat
    BY <2>1
  <2>3. balance' \in [Holders -> [Tokens -> Nat]]
    BY <2>1, <2>2
  <2>4. \A h \in Holders, t2 \in Tokens :
          /\ balance[h][t2] \in Nat
          /\ balance'[h][t2] = IF h = u /\ t2 = t THEN balance[h][t2] - moved ELSE balance[h][t2]
    BY <2>1
  <2> QED
    BY <2>3, <2>4
<1>4. BridgeTypeOK' /\ PayoutsInv'
  BY <1>1, <1>2, <1>3 DEF BInv, BridgeTypeOK, PayoutsInv
<1>5. HomeValue(ChainOfHolder(u), t, moved)
        = m.amount * UnitOn(HomeChain[t], t) + HomeValue(EvmChain, t, 0)
  <2>1. ChainOfHolder(u) \in Chains
    BY Parties DEF ChainOfHolder
  <2>2. /\ HomeValue(ChainOfHolder(u), t, moved) = m.amount * UnitOn(HomeChain[t], t)
        /\ HomeValue(ChainOfHolder(u), t, moved) \in Nat
        /\ HomeValue(EvmChain, t, 0) = 0
    BY <2>1, HomeValues, Parties
  <2> QED
    BY <2>2
<1>6. \A t2 \in Tokens : dust'[t2] = IF t2 = t THEN dust[t2] + 0 ELSE dust[t2]
  BY <1>1 DEF BInv, BridgeTypeOK
<1>7. Enters(m, u, moved, 0)
  BY <1>2, <1>3, <1>5, <1>6 DEF Enters
<1>8. Sending
  BY <1>1, <1>2, <1>7 DEF Sending
<1> QED
  BY <1>2, <1>4, <1>8 DEF BInv

(* A send from Solana takes from the user what the transfer is worth: a    *)
(* native amount was truncated before, a wrapped one has no more decimals. *)
LEMMA NothingLeft ==
  ASSUME NEW t \in Tokens, NEW amount \in Nat, NEW moved \in Nat,
         \/ /\ HomeChain[t] = CHAIN_ID_SOLANA
            /\ moved = truncate_amount(amount, Decimals[t])
         \/ HomeChain[t] # CHAIN_ID_SOLANA
  PROVE  moved = (moved \div UnitOn(CHAIN_ID_SOLANA, t)) * UnitOn(CHAIN_ID_SOLANA, t)
<1>1. CASE /\ HomeChain[t] = CHAIN_ID_SOLANA
           /\ moved = truncate_amount(amount, Decimals[t])
  <2>1. LocalDecimals(CHAIN_ID_SOLANA, t) = Decimals[t]
    BY <1>1 DEF LocalDecimals
  <2>2. amount_adjustment(Decimals[t]) \in Nat \ {0}
    BY TokensAssumption
  <2>3. truncate_amount(moved, Decimals[t]) = moved
    BY <1>1, <2>2, TruncationKeepsWireAmount
  <2>4. UnitOn(CHAIN_ID_SOLANA, t) = amount_adjustment(Decimals[t])
    BY <2>1, Units, Parties
  <2> QED
    BY <2>3, <2>4 DEF truncate_amount, denormalize_amount, normalize_amount
<1>2. CASE HomeChain[t] # CHAIN_ID_SOLANA
  <2>1. UnitOn(CHAIN_ID_SOLANA, t) = 1
    BY <1>2, TokensAssumption DEF UnitOn, LocalDecimals, MAX_WRAPPED_ASSET_DECIMALS
  <2>2. (moved \div 1) * 1 = moved
    BY SMT
  <2> QED
    BY <2>1, <2>2
<1> QED
  BY <1>1, <1>2

(* A send from Solana publishes one transfer under the next number.        *)
LEMMA SendSolanaStep ==
  ASSUME BInv, NEW u \in SolanaUsers, NEW t \in Tokens, NEW moved \in Nat,
         moved = (moved \div UnitOn(CHAIN_ID_SOLANA, t)) * UnitOn(CHAIN_ID_SOLANA, t),
         NEW r \in Recipients, NEW ch, Send(u, t, moved, r, ch), UNCHANGED evmVars
  PROVE  BInv' /\ Sending
<1> DEFINE m == Transfer(CHAIN_ID_SOLANA, t, moved \div UnitOn(CHAIN_ID_SOLANA, t),
                         foreignContract[ch], ch, SolanaProgram, r)
<1>1. moved \div UnitOn(CHAIN_ID_SOLANA, t) \in Nat
  BY Units, Parties, Division
<1>2. /\ m.chain \in Chains /\ m.sequence = tbSequence[m.chain] /\ m.token \in Tokens
      /\ m.amount \in Nat /\ m.recipient \in Recipients /\ m.emitter = TokenBridgeOf(m.chain)
  BY <1>1, Parties DEF Transfer
<1>3. /\ moved <= balance[u][t] /\ TbTransfer(m)
      /\ balance' = [balance EXCEPT ![u][t] = @ - moved]
      /\ UNCHANGED <<solanaVars, evmVars>>
  BY DEF Send
<1>4. /\ u \in Users /\ m.token = t /\ m.from # EvmBridge
      /\ moved = m.amount * UnitOn(ChainOfHolder(u), t)
  BY AddressesAssumption DEF Users, ChainOfHolder, Transfer
<1> HIDE DEF m
<1> QED
  BY <1>2, <1>3, <1>4, SpendStep

(* So does a transfer that somebody sends without the program.             *)
LEMMA OtherTransferStep ==
  ASSUME BInv, NEW u \in Users, NEW t \in Tokens, NEW amount \in OtherAmounts,
         NEW r \in Recipients, OtherTransfer(u, t, amount, r), UNCHANGED <<evmVars, solanaVars>>
  PROVE  BInv' /\ Sending
<1> DEFINE chain   == ChainOfHolder(u)
           toChain == CHOOSE c \in Chains : c # chain
           to      == IF toChain = EvmChain THEN EvmBridge ELSE SolanaProgram
           m       == Transfer(chain, t, amount, to, toChain, u, r)
           moved   == amount * UnitOn(chain, t)
<1>1. chain \in Chains /\ amount \in Nat
  BY Parties, BridgeAssumption DEF ChainOfHolder
<1>2. moved \in Nat
  <2>1. \A a, b \in Nat : a * b \in Nat
    BY SMT
  <2> QED
    BY <1>1, <2>1, Units
<1>3. /\ moved <= balance[u][t] /\ TbTransfer(m)
      /\ balance' = [balance EXCEPT ![u][t] = @ - moved]
  BY DEF OtherTransfer
<1> HIDE DEF chain, to, toChain, moved
<1>4. /\ m.chain \in Chains /\ m.sequence = tbSequence[m.chain] /\ m.token \in Tokens
      /\ m.amount \in Nat /\ m.recipient \in Recipients /\ m.emitter = TokenBridgeOf(m.chain)
  BY <1>1 DEF Transfer
<1>5. /\ m.token = t /\ m.amount = amount /\ m.from # EvmBridge
      /\ moved = m.amount * UnitOn(ChainOfHolder(u), t)
  BY AddressesAssumption DEF Transfer, moved, chain
<1> HIDE DEF m
<1> QED
  BY <1>2, <1>3, <1>4, <1>5, SpendStep

-----------------------------------------------------------------------------
(* What a step that pays does: one completed transfer, one payment, to the *)
(* recipient it names, in full and not all of it to the redeemer.          *)
Pays(vm, p, redeemer) ==
  /\ evmPayouts' \cup solanaPayouts' = evmPayouts \cup solanaPayouts \cup {p}
  /\ p.recipient = AbstractTransfer(vm).recipient
  /\ p.toRecipient + p.toRedeemer = Payout(vm.toChain, vm)
  /\ Payout(vm.toChain, vm) > 0 => p.toRecipient > 0
  /\ vm.toChain = ChainOfHolder(redeemer) /\ vm.toChain = ChainOfHolder(p.recipient)
  /\ redeemer = EvmBridge => p.toRedeemer = 0
  /\ \A h \in Holders, t \in Tokens : balance'[h][t] =
       IF t = vm.token THEN balance[h][t] + ((IF h = redeemer THEN p.toRedeemer ELSE 0)
                                             + (IF h = p.recipient THEN p.toRecipient ELSE 0))
       ELSE balance[h][t]

Paying(vm) ==
  /\ completed' = completed \cup {vm} /\ UNCHANGED <<dust, posted, registeredEmitters>>
  /\ vm.toChain = CHAIN_ID_SOLANA => vm.to \in {SolanaProgram, RedeemerConfig}
  /\ \E p \in [transfer : {vm}, recipient : Holders, toRecipient : Nat, toRedeemer : Nat],
        redeemer \in Holders : Pays(vm, p, redeemer)

(* A redemption on EVM pays out all it received, to a user or to itself:   *)
(* the dust is as before.                                                  *)
LEMMA RedeemEvmStep ==
  ASSUME BInv, NEW vm \in signed, redeemTokensWithPayload(vm), UNCHANGED solanaVars
  PROVE  BInv' /\ transfers' = transfers /\ vm \in transfers \ completed /\ Paying(vm)
<1> DEFINE recipient == truncateAddress(vm.recipient)
           received  == Payout(EvmChain, vm)
           amount    == denormalizeAmount(vm.amount, LocalDecimals(EvmChain, vm.token))
           gain      == [h \in Holders |-> (IF h = EvmBridge THEN received - amount ELSE 0)
                                           + (IF h = recipient THEN amount ELSE 0)]
           p         == [transfer |-> vm, recipient |-> recipient,
                         toRecipient |-> amount, toRedeemer |-> 0]
<1>1. /\ TbComplete(vm, EvmChain, {EvmBridge})
      /\ recipient # Nobody
      /\ Credit(vm.token, gain)
      /\ redeemedTransfers' = redeemedTransfers \cup {vm}
      /\ evmPayouts' = evmPayouts \cup {p}
      /\ UNCHANGED <<registeredEmitters, evmRelayer, messageFee, dust>>
  BY DEF redeemTokensWithPayload
<1>2. UNCHANGED <<bridgeOwner, relayer, foreignContract, solanaPayouts>>
  BY DEF solanaVars, solanaAccounts
<1>3. /\ tbSequence' = tbSequence /\ transfers' = transfers /\ TransfersInv'
      /\ signed' \subseteq transfers' /\ completed' \subseteq signed' /\ posted' \subseteq signed'
      /\ completed' = completed \cup {vm}
      /\ vm \in transfers /\ vm \notin completed
      /\ posted' = posted /\ vm.toChain # CHAIN_ID_SOLANA
  BY <1>1, CompleteKeeps, Parties
<1>4. vm.token \in Tokens /\ vm.amount \in Nat /\ vm.recipient \in Recipients
  BY <1>3 DEF BInv, TransfersInv
<1>5. received \in Nat /\ amount = received /\ vm.toChain = EvmChain
  BY <1>1, <1>4, Worth, Parties DEF TbComplete
<1>6. recipient \in EvmUsers \cup {EvmBridge}
  BY <1>1, <1>4, LowBytesAssumption DEF Recipients, truncateAddress
<1>7. AbstractTransfer(vm).recipient = recipient
  BY <1>5 DEF AbstractTransfer
<1> HIDE DEF recipient, received, amount
<1>8. /\ gain \in [Holders -> Nat]
      /\ \A h \in Holders : gain[h] = (IF h = recipient THEN p.toRedeemer ELSE 0)
                                       + (IF h = p.recipient THEN p.toRecipient ELSE 0)
  BY <1>5
<1> HIDE DEF gain
<1>9. /\ balance' \in [Holders -> [Tokens -> Nat]]
      /\ \A h \in Holders, t \in Tokens : balance'[h][t] =
           IF t = vm.token THEN balance[h][t] + gain[h] ELSE balance[h][t]
  BY <1>1, <1>4, <1>8, CreditKeeps
<1>10. p \in [transfer : {vm}, recipient : Holders, toRecipient : Nat, toRedeemer : Nat]
  BY <1>5, <1>6, Parties
<1>11. BridgeTypeOK'
  BY <1>1, <1>2, <1>3, <1>9 DEF BInv, BridgeTypeOK
<1>12. PayoutsInv'
  BY <1>1, <1>2, <1>3, <1>10 DEF BInv, PayoutsInv
<1>13. Paying(vm)
  <2>1. p.recipient = recipient /\ p.toRecipient = amount /\ p.toRedeemer = 0
    OBVIOUS
  <2>2. p.toRecipient + p.toRedeemer = Payout(vm.toChain, vm)
    BY <1>5, <2>1 DEF received
  <2>3. Payout(vm.toChain, vm) > 0 => p.toRecipient > 0
    BY <1>5, <2>1 DEF received
  <2>4. evmPayouts' \cup solanaPayouts' = evmPayouts \cup solanaPayouts \cup {p}
    BY <1>1, <1>2
  <2>5. recipient \in Holders /\ vm.toChain = ChainOfHolder(recipient)
    BY <1>5, <1>6, Parties, AddressesAssumption DEF ChainOfHolder
  <2> HIDE DEF p
  <2>6. \A h \in Holders, t \in Tokens : balance'[h][t] =
          IF t = vm.token THEN balance[h][t] + ((IF h = recipient THEN p.toRedeemer ELSE 0)
                                                + (IF h = p.recipient THEN p.toRecipient ELSE 0))
          ELSE balance[h][t]
    BY <1>8, <1>9
  <2>7. Pays(vm, p, recipient)
    BY <1>7, <2>1, <2>2, <2>3, <2>4, <2>5, <2>6 DEF Pays
  <2> QED
    BY <1>1, <1>3, <1>10, <2>5, <2>7 DEF Paying
<1> QED
  BY <1>3, <1>11, <1>12, <1>13 DEF BInv

(* A redemption on Solana pays in full and leaves the contract alone.      *)
LEMMA RedeemSolanaStep ==
  ASSUME BInv, NEW payer \in SolanaUsers, NEW recipient \in SolanaUsers, NEW vaa \in signed,
         RedeemAccounts(payer, recipient, vaa), Redeem(payer, recipient, vaa),
         UNCHANGED evmVars
  PROVE  BInv' /\ transfers' = transfers /\ vaa \in transfers \ completed /\ Paying(vaa)
<1> DEFINE amount == RedeemedAmount(vaa)
           kept   == RelayerPart(payer, recipient, amount)
           gain   == [h \in Holders |-> (IF h = payer THEN kept ELSE 0)
                                        + (IF h = recipient THEN amount - kept ELSE 0)]
           p      == [transfer |-> vaa, recipient |-> recipient,
                      toRecipient |-> amount - kept, toRedeemer |-> kept]
<1>1. /\ TbComplete(vaa, CHAIN_ID_SOLANA, {SolanaProgram, RedeemerConfig})
      /\ RedeemFunds(payer, recipient, vaa)
      /\ Credit(vaa.token, gain)
      /\ solanaPayouts' = solanaPayouts \cup {p}
      /\ UNCHANGED <<bridgeOwner, relayer, foreignContract>>
  BY DEF Redeem, solanaAccounts
<1>2. UNCHANGED <<registeredEmitters, redeemedTransfers, evmRelayer, messageFee, dust, evmPayouts>>
  BY DEF evmVars, evmStorage
<1>3. /\ tbSequence' = tbSequence /\ transfers' = transfers /\ TransfersInv'
      /\ signed' \subseteq transfers' /\ completed' \subseteq signed' /\ posted' \subseteq signed'
      /\ completed' = completed \cup {vaa}
      /\ vaa \in transfers /\ vaa \notin completed
      /\ posted' = posted /\ vaa.to \in {SolanaProgram, RedeemerConfig}
  BY <1>1, CompleteKeeps
<1>4. vaa.token \in Tokens /\ vaa.amount \in Nat
  BY <1>3 DEF BInv, TransfersInv
<1>5. /\ vaa.toChain = CHAIN_ID_SOLANA /\ vaa.recipient = recipient
      /\ amount \in Nat /\ amount = Payout(vaa.toChain, vaa)
  <2>1. Payout(CHAIN_ID_SOLANA, vaa) \in Nat
    BY <1>4, Worth, Parties
  <2> QED
    BY <1>1, <2>1 DEF TbComplete, RedeemAccounts, RecipientMatches, RedeemFunds
<1>6. relayer.fee \in Nat /\ relayer.precision \in Nat /\ relayer.fee < relayer.precision
  BY DEF BInv, BridgeTypeOK, PayoutsInv, RedeemAccounts
<1> HIDE DEF amount
<1>7. kept \in Nat /\ kept <= amount /\ (amount > 0 => kept < amount)
  BY <1>5, <1>6, RelayerLeavesPart DEF RelayerPart
<1>8. AbstractTransfer(vaa).recipient = recipient
  BY <1>5, Parties DEF AbstractTransfer
<1> HIDE DEF kept
<1>9. /\ gain \in [Holders -> Nat]
      /\ \A h \in Holders : gain[h] = (IF h = payer THEN p.toRedeemer ELSE 0)
                                       + (IF h = p.recipient THEN p.toRecipient ELSE 0)
  BY <1>5, <1>7
<1> HIDE DEF gain
<1>10. /\ balance' \in [Holders -> [Tokens -> Nat]]
       /\ \A h \in Holders, t \in Tokens : balance'[h][t] =
            IF t = vaa.token THEN balance[h][t] + gain[h] ELSE balance[h][t]
  BY <1>1, <1>4, <1>9, CreditKeeps
<1>11. p \in [transfer : {vaa}, recipient : Holders, toRecipient : Nat, toRedeemer : Nat]
  BY <1>5, <1>7, Parties
<1>12. BridgeTypeOK'
  BY <1>1, <1>2, <1>3, <1>10 DEF BInv, BridgeTypeOK
<1>13. PayoutsInv'
  BY <1>1, <1>2, <1>3, <1>11 DEF BInv, PayoutsInv
<1>14. Paying(vaa)
  <2>1. p.recipient = recipient /\ p.toRecipient = amount - kept /\ p.toRedeemer = kept
    OBVIOUS
  <2>2. p.toRecipient + p.toRedeemer = Payout(vaa.toChain, vaa)
    BY <1>5, <1>7, <2>1
  <2>3. Payout(vaa.toChain, vaa) > 0 => p.toRecipient > 0
    BY <1>5, <1>7, <2>1
  <2>4. evmPayouts' \cup solanaPayouts' = evmPayouts \cup solanaPayouts \cup {p}
    BY <1>1, <1>2
  <2>5. /\ payer \in Holders /\ payer # EvmBridge
        /\ vaa.toChain = ChainOfHolder(payer) /\ vaa.toChain = ChainOfHolder(recipient)
    BY <1>5, Parties DEF ChainOfHolder
  <2> HIDE DEF p
  <2>6. \A h \in Holders, t \in Tokens : balance'[h][t] =
          IF t = vaa.token THEN balance[h][t] + ((IF h = payer THEN p.toRedeemer ELSE 0)
                                                 + (IF h = p.recipient THEN p.toRecipient ELSE 0))
          ELSE balance[h][t]
    BY <1>9, <1>10
  <2>7. Pays(vaa, p, payer)
    BY <1>8, <2>1, <2>2, <2>3, <2>4, <2>5, <2>6 DEF Pays
  <2> QED
    BY <1>2, <1>3, <1>11, <2>5, <2>7 DEF Paying
<1> QED
  BY <1>3, <1>12, <1>13, <1>14 DEF BInv

-----------------------------------------------------------------------------
(* Steps that neither send nor pay: registrations, fees, signatures,       *)
(* posted VAAs, token accounts.                                            *)
QuietStep ==
  \/ /\ \/ \E caller \in EvmUsers, ch \in Chains : \E a \in Registrations[ch] :
             registerEmitter(caller, ch, a)
        \/ \E caller \in EvmUsers, f \in EvmRelayerFees : updateRelayerFee(caller, f[1], f[2])
        \/ \E fee \in Fees : SetMessageFee(fee)
     /\ UNCHANGED solanaVars
  \/ /\ \/ \E caller \in SolanaUsers, f \in RelayerFees : initialize(caller, f[1], f[2])
        \/ \E caller \in SolanaUsers, ch \in Chains : \E a \in Registrations[ch] :
             register_foreign_contract(caller, ch, a)
        \/ \E owner \in SolanaUsers, f \in RelayerFees : update_relayer_fee(owner, f[1], f[2])
     /\ UNCHANGED evmVars
  \/ /\ \/ \E m \in transfers : SignTransfer(m)
        \/ \E m \in signed : PostTransfer(m)
        \/ \E u \in SolanaUsers, t \in Tokens : CreateTokenAccount(u, t)
     /\ UNCHANGED <<evmVars, solanaVars>>

(* They may register an address the owner may register, and post what is   *)
(* bound for Solana.                                                       *)
Arranging ==
  /\ UNCHANGED <<transfers, completed, balance, dust, evmPayouts, solanaPayouts>>
  /\ \/ UNCHANGED registeredEmitters
     \/ \E ch \in Chains : \E a \in Registrations[ch] :
          registeredEmitters' = [registeredEmitters EXCEPT ![ch] = a]
  /\ \A m \in posted' \ posted : m \in transfers /\ m.toChain = CHAIN_ID_SOLANA

(* Registrations, fees, signatures and postings neither send nor pay.      *)
LEMMA QuietKeepsBInv ==
  ASSUME BInv, QuietStep
  PROVE  BInv' /\ Arranging
<1> USE DEF BInv, TransfersInv, PayoutsInv, tbVars, evmVars, evmStorage,
            solanaVars, solanaAccounts, Arranging
<1>1. ASSUME NEW caller, NEW ch \in Chains, NEW a \in Registrations[ch],
             registerEmitter(caller, ch, a), UNCHANGED solanaVars
      PROVE  BInv' /\ Arranging
  <2>1. registeredEmitters' \in [Chains -> Addresses \cup {Nobody}]
    BY <1>1, BridgeAssumption DEF registerEmitter, BridgeTypeOK
  <2> QED
    BY <1>1, <2>1 DEF registerEmitter, BridgeTypeOK
<1>2. ASSUME NEW caller, NEW f \in EvmRelayerFees, updateRelayerFee(caller, f[1], f[2]),
             UNCHANGED solanaVars
      PROVE  BInv' /\ Arranging
  <2>1. f[1] \in Nat /\ f[2] \in Nat
    BY BridgeAssumption
  <2> QED
    BY <1>2, <2>1 DEF updateRelayerFee, BridgeTypeOK
<1>3. ASSUME NEW fee \in Fees, SetMessageFee(fee), UNCHANGED solanaVars
      PROVE  BInv' /\ Arranging
  BY <1>3 DEF SetMessageFee, BridgeTypeOK
<1>4. ASSUME NEW caller \in SolanaUsers, NEW f \in RelayerFees,
             initialize(caller, f[1], f[2]) \/ update_relayer_fee(caller, f[1], f[2]),
             UNCHANGED evmVars
      PROVE  BInv' /\ Arranging
  <2>1. f[1] \in Nat /\ f[2] \in Nat
    BY BridgeAssumption
  <2>2. relayer' = [fee |-> f[1], precision |-> f[2]] /\ f[1] < f[2]
    BY <1>4 DEF initialize, update_relayer_fee, ValidRelayerFee
  <2> QED
    BY <1>4, <2>1, <2>2 DEF initialize, update_relayer_fee, BridgeTypeOK
<1>5. ASSUME NEW caller, NEW ch \in Chains, NEW a \in Registrations[ch],
             register_foreign_contract(caller, ch, a), UNCHANGED evmVars
      PROVE  BInv' /\ Arranging
  <2>1. foreignContract' \in [Chains -> Addresses \cup {Nobody}]
    BY <1>5, BridgeAssumption DEF register_foreign_contract, BridgeTypeOK
  <2> QED
    BY <1>5, <2>1 DEF register_foreign_contract, BridgeTypeOK
<1>6. CASE /\ \/ \E m \in transfers : SignTransfer(m)
              \/ \E m \in signed : PostTransfer(m)
              \/ \E u \in SolanaUsers, t \in Tokens : CreateTokenAccount(u, t)
           /\ UNCHANGED <<evmVars, solanaVars>>
  <2>1. /\ signed' \subseteq transfers' /\ completed' \subseteq signed' /\ posted' \subseteq signed'
        /\ UNCHANGED <<transfers, tbSequence, completed, balance>>
        /\ \A m \in posted' \ posted : m \in transfers /\ m.toChain = CHAIN_ID_SOLANA
    BY <1>6 DEF SignTransfer, PostTransfer, CreateTokenAccount, BridgeTypeOK
  <2> QED
    BY <1>6, <2>1 DEF BridgeTypeOK
<1> QED
  BY <1>1, <1>2, <1>3, <1>4, <1>5, <1>6 DEF QuietStep

-----------------------------------------------------------------------------
(* Every step sends one transfer, pays one, or does neither.               *)
LEMMA NextKinds ==
  ASSUME BInv, [Next]_vars
  PROVE  /\ BInv'
         /\ \/ Sending
            \/ \E vm \in transfers \ completed : transfers' = transfers /\ Paying(vm)
            \/ Arranging
<1> DEFINE Kinds == \/ Sending
                    \/ \E vm \in transfers \ completed : transfers' = transfers /\ Paying(vm)
                    \/ Arranging
<1>1. ASSUME NEW u \in EvmUsers, NEW t \in Tokens, NEW amount \in Amounts, NEW ch \in Chains,
             NEW r \in Recipients, NEW value, sendTokensWithPayload(u, t, amount, ch, r, value),
             UNCHANGED solanaVars
      PROVE  BInv' /\ Kinds
  BY <1>1, SendEvmStep
<1>2. ASSUME NEW vm \in signed, redeemTokensWithPayload(vm), UNCHANGED solanaVars
      PROVE  BInv' /\ Kinds
  BY <1>2, RedeemEvmStep
<1>3. ASSUME NEW u \in SolanaUsers, NEW seed, NEW t \in Tokens, NEW amount \in Amounts,
             NEW r \in Recipients, NEW ch,
             \/ send_native_tokens_with_payload(u, seed, t, amount, r, ch)
             \/ send_wrapped_tokens_with_payload(u, seed, t, amount, r, ch),
             UNCHANGED evmVars
      PROVE  BInv' /\ Kinds
  <2>1. amount \in Nat /\ truncate_amount(amount, Decimals[t]) \in Nat
    BY TokensAssumption, TruncationBounds
  <2>2. PICK moved \in Nat : /\ Send(u, t, moved, r, ch)
                              /\ \/ /\ HomeChain[t] = CHAIN_ID_SOLANA
                                    /\ moved = truncate_amount(amount, Decimals[t])
                                 \/ HomeChain[t] # CHAIN_ID_SOLANA
    BY <1>3, <2>1 DEF send_native_tokens_with_payload, send_wrapped_tokens_with_payload,
                      SendNativeAccounts, SendWrappedAccounts
  <2>3. moved = (moved \div UnitOn(CHAIN_ID_SOLANA, t)) * UnitOn(CHAIN_ID_SOLANA, t)
    BY <2>1, <2>2, NothingLeft
  <2> QED
    BY <1>3, <2>2, <2>3, SendSolanaStep
<1>4. ASSUME NEW payer \in SolanaUsers, NEW recipient \in SolanaUsers, NEW vaa \in signed,
             \/ redeem_native_transfer_with_payload(payer, recipient, vaa)
             \/ redeem_wrapped_transfer_with_payload(payer, recipient, vaa),
             UNCHANGED evmVars
      PROVE  BInv' /\ Kinds
  <2>1. RedeemAccounts(payer, recipient, vaa) /\ Redeem(payer, recipient, vaa)
    BY <1>4 DEF redeem_native_transfer_with_payload, redeem_wrapped_transfer_with_payload,
                RedeemNativeAccounts, RedeemWrappedAccounts
  <2> QED
    BY <1>4, <2>1, RedeemSolanaStep
<1>5. ASSUME NEW u \in Users, NEW t \in Tokens, NEW amount \in OtherAmounts, NEW r \in Recipients,
             OtherTransfer(u, t, amount, r), UNCHANGED <<evmVars, solanaVars>>
      PROVE  BInv' /\ Kinds
  BY <1>5, OtherTransferStep
<1>6. CASE QuietStep
  BY <1>6, QuietKeepsBInv
<1>7. CASE UNCHANGED vars
  BY <1>7 DEF vars, tbVars, evmVars, evmStorage, solanaVars, solanaAccounts, Arranging, BInv,
              BridgeTypeOK, TransfersInv, PayoutsInv
<1>8. CASE EvmStep
  <2>1. CASE /\ \E u \in EvmUsers, t \in Tokens, amount \in Amounts, ch \in Chains,
                   r \in Recipients, value \in Fees :
                  sendTokensWithPayload(u, t, amount, ch, r, value)
             /\ UNCHANGED solanaVars
    BY <1>1, <2>1
  <2>2. CASE (\E vm \in signed : redeemTokensWithPayload(vm)) /\ UNCHANGED solanaVars
    BY <1>2, <2>2
  <2>3. CASE /\ \/ \E caller \in EvmUsers, ch \in Chains : \E a \in Registrations[ch] :
                     registerEmitter(caller, ch, a)
                \/ \E caller \in EvmUsers, f \in EvmRelayerFees :
                     updateRelayerFee(caller, f[1], f[2])
             /\ UNCHANGED solanaVars
    <3>1. QuietStep
      BY <2>3, Zenon DEF QuietStep
    <3> QED
      BY <1>6, <3>1
  <2> QED
    BY <1>8, <2>1, <2>2, <2>3, Zenon DEF EvmStep, Kinds
<1>9. CASE SolanaStep
  <2>1. CASE /\ \E u \in SolanaUsers, seed \in 1..MaxTransfers[CHAIN_ID_SOLANA], t \in Tokens,
                   amount \in Amounts, r \in Recipients, ch \in Chains :
                  \/ send_native_tokens_with_payload(u, seed, t, amount, r, ch)
                  \/ send_wrapped_tokens_with_payload(u, seed, t, amount, r, ch)
             /\ UNCHANGED evmVars
    BY <1>3, <2>1
  <2>2. CASE /\ \E payer, recipient \in SolanaUsers, vaa \in signed :
                  \/ redeem_native_transfer_with_payload(payer, recipient, vaa)
                  \/ redeem_wrapped_transfer_with_payload(payer, recipient, vaa)
             /\ UNCHANGED evmVars
    BY <1>4, <2>2
  <2>3. CASE /\ \/ \E caller \in SolanaUsers, f \in RelayerFees : initialize(caller, f[1], f[2])
                \/ \E caller \in SolanaUsers, ch \in Chains : \E a \in Registrations[ch] :
                     register_foreign_contract(caller, ch, a)
                \/ \E owner \in SolanaUsers, f \in RelayerFees :
                     update_relayer_fee(owner, f[1], f[2])
             /\ UNCHANGED evmVars
    <3>1. QuietStep
      BY <2>3, Zenon DEF QuietStep
    <3> QED
      BY <1>6, <3>1
  <2> QED
    BY <1>9, <2>1, <2>2, <2>3, Zenon DEF SolanaStep, SolanaSteps, Kinds
<1>10. CASE OtherStep
  <2>1. CASE /\ \E u \in Users, t \in Tokens, amount \in OtherAmounts, r \in Recipients :
                  OtherTransfer(u, t, amount, r)
             /\ UNCHANGED <<evmVars, solanaVars>>
    BY <1>5, <2>1
  <2>2. CASE \/ (\E fee \in Fees : SetMessageFee(fee)) /\ UNCHANGED solanaVars
             \/ /\ \/ \E m \in transfers : SignTransfer(m)
                   \/ \E m \in signed : PostTransfer(m)
                   \/ \E u \in SolanaUsers, t \in Tokens : CreateTokenAccount(u, t)
                /\ UNCHANGED <<evmVars, solanaVars>>
    <3>1. QuietStep
      BY <2>2, Zenon DEF QuietStep
    <3> QED
      BY <1>6, <3>1
  <2> QED
    BY <1>10, <2>1, <2>2, Zenon DEF OtherStep, Kinds
<1> QED
  BY <1>7, <1>8, <1>9, <1>10, Zenon DEF Next, Kinds

(* The strengthened invariant: what was paid was completed first, and      *)
(* numbers are unique.                                                     *)
THEOREM BridgeInvariant == Spec => []BInv
<1> QED
  BY InitBInv, NextKinds, PTL DEF Spec

(* The bridge's states are well formed, on whatever it is registered and   *)
(* whatever fees the owners choose: a config that exists always leaves the *)
(* recipient a part of the transfer.                                       *)
THEOREM BridgeTypes == Spec => []BridgeTypeOK
<1> QED
  BY BridgeInvariant, PTL DEF BInv

-----------------------------------------------------------------------------
(* A step that publishes a transfer is Enter in the abstract bridge.       *)
LEMMA SendingEnters == Sending => Promise!Next
<1> SUFFICES ASSUME Sending PROVE Promise!Enter
  BY DEF Promise!Next
<1>1. PICK m : /\ transfers' = transfers \cup {m}
               /\ \A m2 \in transfers : ~(m2.chain = m.chain /\ m2.sequence = m.sequence)
  BY DEF Sending, Enters
<1> DEFINE entered == {AbstractTransfer(x) : x \in transfers}
<1>2. {AbstractTransfer(x) : x \in transfers'} = entered \cup {AbstractTransfer(m)}
  BY <1>1
<1>3. \A m2 \in entered : ~(m2.chain = AbstractTransfer(m).chain
                            /\ m2.sequence = AbstractTransfer(m).sequence)
  BY <1>1 DEF AbstractTransfer
<1>4. (evmPayouts \cup solanaPayouts)' = evmPayouts \cup solanaPayouts
  BY DEF Sending
<1>5. entered' = entered \cup {AbstractTransfer(m)} /\ AbstractTransfer(m) \in entered'
  BY <1>1, <1>2 DEF AbstractTransfer, Payout, UnitOn, LocalDecimals, truncateAddress
<1> QED
  BY <1>3, <1>4, <1>5 DEF Promise!Enter, Promise!SameTransfer

(* A redemption is Pay: not paid before, in full, to whom it names.        *)
LEMMA PayingPays ==
  ASSUME BInv, NEW vm \in transfers \ completed, transfers' = transfers, Paying(vm)
  PROVE  Promise!Next
<1> DEFINE Abs(p)  == [p EXCEPT !.transfer = AbstractTransfer(@)]
           old     == evmPayouts \cup solanaPayouts
           entered == {AbstractTransfer(x) : x \in transfers}
           m       == AbstractTransfer(vm)
<1>1. PICK p \in [transfer : {vm}, recipient : Holders, toRecipient : Nat, toRedeemer : Nat] :
        /\ evmPayouts' \cup solanaPayouts' = old \cup {p}
        /\ p.recipient = m.recipient
        /\ p.toRecipient + p.toRedeemer = Payout(vm.toChain, vm)
        /\ Payout(vm.toChain, vm) > 0 => p.toRecipient > 0
  BY DEF Paying, Pays
<1>2. /\ Abs(p).transfer = m /\ Abs(p).recipient = p.recipient
      /\ Abs(p).toRecipient = p.toRecipient /\ Abs(p).toRedeemer = p.toRedeemer
  BY <1>1
<1>3. m.worth = Payout(vm.toChain, vm) /\ m.chain = vm.chain /\ m.sequence = vm.sequence
  BY DEF AbstractTransfer
<1>4. m \in entered /\ entered' = entered
  BY DEF AbstractTransfer, Payout, UnitOn, LocalDecimals, truncateAddress
<1>5. \A q \in old : /\ Abs(q).transfer = AbstractTransfer(q.transfer)
                     /\ q.transfer \in transfers /\ q.transfer # vm
  BY DEF BInv, PayoutsInv, BridgeTypeOK
<1>6. \A q \in old : ~(Abs(q).transfer.chain = m.chain /\ Abs(q).transfer.sequence = m.sequence)
  BY <1>3, <1>5 DEF BInv, TransfersInv, AbstractTransfer
<1> HIDE DEF m
<1>7. {Abs(q) : q \in evmPayouts' \cup solanaPayouts'} = {Abs(q) : q \in old} \cup {Abs(p)}
  BY <1>1
<1>8. Promise!Pay(m)
  <2> DEFINE payouts == {Abs(q) : q \in old}
  <2>1. payouts' = payouts \cup {Abs(p)} /\ Abs(p) \in payouts'
    BY <1>7 DEF AbstractTransfer, Payout, UnitOn, LocalDecimals, truncateAddress
  <2>2. \A q \in payouts : ~(q.transfer.chain = m.chain /\ q.transfer.sequence = m.sequence)
    BY <1>6
  <2>3. /\ Abs(p).transfer = m /\ Abs(p).recipient = m.recipient
        /\ Abs(p).toRecipient + Abs(p).toRedeemer = m.worth
        /\ m.worth > 0 => Abs(p).toRecipient > 0
    BY <1>1, <1>2, <1>3
  <2>4. \E q \in payouts' : /\ payouts' = payouts \cup {q}
                            /\ q.transfer = m
                            /\ q.recipient = m.recipient
                            /\ q.toRecipient + q.toRedeemer = m.worth
                            /\ m.worth > 0 => q.toRecipient > 0
    <3> HIDE DEF Abs, payouts
    <3> QED
      BY <2>1, <2>3
  <2> QED
    BY <1>4, <2>2, <2>4 DEF Promise!Pay, Promise!SameTransfer
<1> QED
  BY <1>4, <1>8 DEF Promise!Next

(* What neither sends nor pays is a stutter of the abstract bridge.        *)
LEMMA QuietStutters ==
  Arranging => UNCHANGED Promise!vars
BY DEF Arranging, Promise!vars, AbstractTransfer, Payout, UnitOn, LocalDecimals, truncateAddress

(* What the bridge promises its users, for any interleaving of the two     *)
(* programs, the Token Bridge and everybody else who uses it: each         *)
(* transfer is paid at most once, in full, to the recipient it names.      *)
THEOREM BridgeRefinement == Spec => BridgeImplementsTransfers
<1>1. Init => Promise!Init
  BY DEF Init, TbInit, EvmInit, SolanaInit, Promise!Init
<1>2. BInv /\ [Next]_vars => [Promise!Next]_(Promise!vars)
  BY NextKinds, SendingEnters, PayingPays, QuietStutters
<1> QED
  BY <1>1, <1>2, BridgeInvariant, PTL DEF Spec, BridgeImplementsTransfers, Promise!Spec

(* Payments and completed transfers, one for one.                          *)
PaidInv ==
  LET payouts == evmPayouts \cup solanaPayouts IN
    /\ \A m \in completed : \E p \in payouts : p.transfer = m
    /\ \A p, q \in payouts : p.transfer = q.transfer => p = q
    /\ \A p \in payouts :
         p.toRecipient + p.toRedeemer = Payout(p.transfer.toChain, p.transfer)

(* The Token Bridge completes a transfer exactly when its recipient is     *)
(* paid, on either chain and whoever presents it: no transfer is used up   *)
(* and not paid, none is paid twice, and the parts always make the whole.  *)
THEOREM CompletedIsPaid == Spec => []PaidInv
<1>1. Init => PaidInv
  BY DEF Init, TbInit, EvmInit, SolanaInit, PaidInv
<1>2. ASSUME BInv, PaidInv, [Next]_vars
      PROVE  PaidInv'
  <2>1. ASSUME NEW vm \in transfers \ completed, transfers' = transfers, Paying(vm)
        PROVE  PaidInv'
    <3>1. PICK p \in [transfer : {vm}, recipient : Holders, toRecipient : Nat, toRedeemer : Nat] :
            /\ evmPayouts' \cup solanaPayouts' = evmPayouts \cup solanaPayouts \cup {p}
            /\ p.toRecipient + p.toRedeemer = Payout(vm.toChain, vm)
      BY <2>1 DEF Paying, Pays
    <3>2. completed' = completed \cup {vm} /\ p.transfer = vm
      BY <2>1 DEF Paying
    <3>3. \A q \in evmPayouts \cup solanaPayouts : q.transfer # vm
      BY <1>2 DEF BInv, PayoutsInv
    <3> QED
      BY <1>2, <3>1, <3>2, <3>3 DEF PaidInv, Payout, UnitOn, LocalDecimals
  <2>2. CASE UNCHANGED <<evmPayouts, solanaPayouts, completed>>
    BY <1>2, <2>2 DEF PaidInv, Payout, UnitOn, LocalDecimals
  <2> QED
    BY <1>2, <2>1, <2>2, NextKinds DEF Sending, Arranging
<1> QED
  BY <1>1, <1>2, BridgeInvariant, PTL DEF Spec

-----------------------------------------------------------------------------
(* The accounts.  The transfers are finitely many, so what is in flight    *)
(* has a sum.                                                              *)
AccountsInv == Accounted /\ IsFiniteSet(transfers)

TravellingOf(t) == {m \in InFlight : m.token = t}
WireValue(t, m) == m.amount * UnitOn(HomeChain[t], t)

(* What anyone holds and what a transfer carries are numbers.              *)
LEMMA AccountTypes ==
  ASSUME BInv, IsFiniteSet(transfers), NEW t \in Tokens
  PROVE  /\ IsFiniteSet(Holders) /\ IsFiniteSet(TravellingOf(t))
         /\ \A h \in Holders : /\ balance[h][t] \in Nat
                               /\ ChainOfHolder(h) \in Chains
                               /\ HomeValue(ChainOfHolder(h), t, balance[h][t]) \in Nat
         /\ \A m \in TravellingOf(t) : WireValue(t, m) \in Nat
         /\ SumFunction(Held(t)) = SumFunctionOnSet(Held(t), Holders)
         /\ SumFunction(Travelling(t)) = SumFunctionOnSet(Travelling(t), TravellingOf(t))
<1>1. IsFiniteSet(Holders) /\ IsFiniteSet(TravellingOf(t))
  BY SupplyAssumption, FS_Subset, FS_AddElement DEF TravellingOf, InFlight, Holders
<1>2. ASSUME NEW h \in Holders
      PROVE  /\ balance[h][t] \in Nat
             /\ ChainOfHolder(h) \in Chains
             /\ HomeValue(ChainOfHolder(h), t, balance[h][t]) \in Nat
  <2>1. balance[h][t] \in Nat /\ ChainOfHolder(h) \in Chains
    BY Parties DEF BInv, BridgeTypeOK, ChainOfHolder
  <2> QED
    BY <2>1, HomeValues
<1>3. ASSUME NEW m \in TravellingOf(t) PROVE WireValue(t, m) \in Nat
  <2>1. m.amount \in Nat /\ UnitOn(HomeChain[t], t) \in Nat
    BY Units, TokensAssumption DEF BInv, TransfersInv, TravellingOf, InFlight
  <2>2. \A a, b \in Nat : a * b \in Nat
    BY SMT
  <2> QED
    BY <2>1, <2>2 DEF WireValue
<1>4. DOMAIN Held(t) = Holders /\ DOMAIN Travelling(t) = TravellingOf(t)
  BY DEF Held, Travelling, TravellingOf
<1> QED
  BY <1>1, <1>2, <1>3, <1>4 DEF SumFunction

(* At first the users of the token's own chain hold all there is.          *)
LEMMA InitAccounts == Init => AccountsInv
<1> SUFFICES ASSUME Init PROVE AccountsInv
  OBVIOUS
<1>1. IsFiniteSet(transfers) /\ transfers = {} /\ BInv
  BY FS_EmptySet, InitBInv DEF Init, TbInit
<1>2. ASSUME NEW t \in Tokens
      PROVE  SumFunction(Held(t)) + SumFunction(Travelling(t)) = Supply(t)
  <2> DEFINE home == {u \in Users : ChainOfHolder(u) = HomeChain[t]}
  <2>1. /\ IsFiniteSet(Holders)
        /\ SumFunction(Held(t)) = SumFunctionOnSet(Held(t), Holders)
        /\ SumFunction(Travelling(t)) = SumFunctionOnSet(Travelling(t), TravellingOf(t))
    BY <1>1, AccountTypes
  <2>2. SumFunction(Travelling(t)) = 0
    <3>1. TravellingOf(t) = {}
      BY <1>1 DEF TravellingOf, InFlight
    <3> QED
      BY <2>1, <3>1, SumEmpty
  <2>4. \A h \in Holders : Held(t)[h] = IF h \in home THEN InitialBalance ELSE 0
    <3>1. ASSUME NEW h \in Holders
          PROVE  HomeValue(ChainOfHolder(h), t, balance[h][t])
                   = IF h \in home THEN InitialBalance ELSE 0
      <4>1. balance[h][t] = IF h \in home THEN InitialBalance ELSE 0
        BY DEF Init, TbInit
      <4>2. ChainOfHolder(h) \in Chains
        BY Parties DEF ChainOfHolder
      <4>3. CASE h \in home
        BY <4>1, <4>3 DEF HomeValue
      <4>4. CASE h \notin home
        BY <4>1, <4>2, <4>4, HomeValues
      <4> QED
        BY <4>3, <4>4
    <3> QED
      BY <3>1 DEF Held
  <2>5. /\ SumFunctionOnSet(Held(t), Holders) = InitialBalance * Cardinality(Holders \cap home)
        /\ Cardinality(Holders \cap home) \in Nat
    <3> HIDE DEF home
    <3> QED
      BY <2>1, <2>4, TokensAssumption, SumOfEqual
  <2>6. Holders \cap home = home /\ Supply(t) = InitialBalance * Cardinality(home)
    BY Parties DEF Supply
  <2> HIDE DEF home
  <2>7. \A n \in Nat : InitialBalance * n \in Nat
    BY TokensAssumption, SMT
  <2>8. Supply(t) \in Nat /\ SumFunction(Held(t)) = Supply(t)
    BY <2>1, <2>5, <2>6, <2>7
  <2> QED
    BY <2>2, <2>8
<1> QED
  BY <1>1, <1>2 DEF AccountsInv, Accounted

(* What a transfer is worth moves from a user's account to the way; what   *)
(* truncation cut off moves to the contract's.                             *)
LEMMA SendingAccounts ==
  ASSUME BInv, BInv', AccountsInv, Sending
  PROVE  AccountsInv'
<1>1. PICK m : \E u \in Users, taken, left \in Nat : Enters(m, u, taken, left)
  BY DEF Sending
<1>2. PICK u \in Users, taken \in Nat, left \in Nat : Enters(m, u, taken, left)
  BY <1>1
<1>3. /\ transfers' = transfers \cup {m} /\ completed' = completed
      /\ m \notin transfers /\ m \notin completed /\ m.token \in Tokens
      /\ IsFiniteSet(transfers')
  <2>1. transfers' = transfers \cup {m} /\ m \notin transfers /\ m.token \in Tokens
    BY <1>2 DEF Enters
  <2>2. completed' = completed /\ completed \subseteq transfers
    BY DEF Sending, BInv, BridgeTypeOK
  <2> QED
    BY <2>1, <2>2, FS_AddElement DEF AccountsInv
<1>4. ASSUME NEW t \in Tokens, t # m.token
      PROVE  /\ SumFunction(Held(t)') = SumFunction(Held(t))
             /\ SumFunction(Travelling(t)') = SumFunction(Travelling(t))
  <2>1. \A h \in Holders : balance'[h][t] = balance[h][t]
    BY <1>2, <1>4 DEF Enters
  <2>2. Held(t)' = Held(t)
    BY <2>1 DEF Held
  <2>3. TravellingOf(t)' = TravellingOf(t)
    BY <1>3, <1>4 DEF TravellingOf, InFlight
  <2>4. Travelling(t)' = Travelling(t)
    BY <2>3 DEF Travelling, TravellingOf
  <2> QED
    BY <2>2, <2>4
<1>5. ASSUME NEW t \in Tokens, t = m.token
      PROVE  SumFunction(Held(t)') + SumFunction(Travelling(t)')
               = SumFunction(Held(t)) + SumFunction(Travelling(t))
  <2> DEFINE spent == HomeValue(ChainOfHolder(u), t, taken)
             kept  == HomeValue(EvmChain, t, left)
  <2>1. /\ IsFiniteSet(Holders) /\ IsFiniteSet(TravellingOf(t))
        /\ \A h \in Holders : /\ balance[h][t] \in Nat /\ ChainOfHolder(h) \in Chains
                              /\ HomeValue(ChainOfHolder(h), t, balance[h][t]) \in Nat
        /\ \A m2 \in TravellingOf(t) : WireValue(t, m2) \in Nat
        /\ SumFunction(Held(t)) = SumFunctionOnSet(Held(t), Holders)
        /\ SumFunction(Travelling(t)) = SumFunctionOnSet(Travelling(t), TravellingOf(t))
    BY AccountTypes DEF AccountsInv
  <2>2. spent \in Nat /\ kept \in Nat /\ spent = WireValue(t, m) + kept
    BY <1>2, <1>5, <2>1, HomeValues, Parties DEF Enters, WireValue
  <2>3. /\ taken <= balance[u][t] /\ u \in Holders /\ EvmBridge \in Holders /\ u # EvmBridge
        /\ \A h \in Holders : balance'[h][t] =
             IF h = u THEN balance[h][t] - taken
             ELSE IF h = EvmBridge THEN balance[h][t] + left ELSE balance[h][t]
    BY <1>2, <1>5, Parties DEF Enters, Users
  <2>4. \A n1, n2 \in Nat, ch \in Chains :
          /\ HomeValue(ch, t, n1) \in Nat
          /\ HomeValue(ch, t, n1 + n2) = HomeValue(ch, t, n1) + HomeValue(ch, t, n2)
    BY HomeValues, Zenon
  <2>5. /\ SumFunction(Held(t)) + kept = SumFunction(Held(t)') + spent
        /\ SumFunction(Held(t)') \in Nat /\ SumFunction(Held(t)) \in Nat
    <3> DEFINE f == Held(t)
               g == Held(t)'
               low == [h \in Holders |-> IF h = u THEN g[h] ELSE f[h]]
    <3>1. \A h \in Holders : /\ f[h] = HomeValue(ChainOfHolder(h), t, balance[h][t])
                             /\ g[h] = HomeValue(ChainOfHolder(h), t, balance'[h][t])
                             /\ f[h] \in Nat
      BY <2>1 DEF Held
    <3>2. g[u] \in Nat /\ f[u] = g[u] + spent
      <4>1. balance'[u][t] \in Nat /\ balance[u][t] = balance'[u][t] + taken
        BY <2>1, <2>3
      <4>2. /\ f[u] = HomeValue(ChainOfHolder(u), t, balance'[u][t] + taken)
            /\ g[u] = HomeValue(ChainOfHolder(u), t, balance'[u][t])
            /\ ChainOfHolder(u) \in Chains
        BY <2>1, <2>3, <3>1, <4>1
      <4>3. \A n \in Nat, ch \in Chains :
              /\ HomeValue(ch, t, n) \in Nat
              /\ HomeValue(ch, t, n + taken) = HomeValue(ch, t, n) + HomeValue(ch, t, taken)
        BY <2>4
      <4> HIDE DEF f, g
      <4> QED
        BY <4>1, <4>2, <4>3, Zenon
    <3>3. g[EvmBridge] = f[EvmBridge] + kept
      <4>1. balance'[EvmBridge][t] = balance[EvmBridge][t] + left
        BY <2>3
      <4>2. /\ f[EvmBridge] = HomeValue(EvmChain, t, balance[EvmBridge][t])
            /\ g[EvmBridge] = HomeValue(EvmChain, t, balance[EvmBridge][t] + left)
            /\ EvmChain \in Chains /\ balance[EvmBridge][t] \in Nat
        BY <2>1, <2>3, <3>1, <4>1, Parties
      <4>3. \A n \in Nat, ch \in Chains :
              HomeValue(ch, t, n + left) = HomeValue(ch, t, n) + HomeValue(ch, t, left)
        BY <2>4
      <4> HIDE DEF f, g
      <4> QED
        BY <4>2, <4>3, Zenon
    <3>4. \A h \in Holders \ {u, EvmBridge} : g[h] = f[h]
      BY <2>3, <3>1
    <3>5. SumFunction(g) = SumFunctionOnSet(g, Holders)
      BY DEF Held, SumFunction
    <3> HIDE DEF f, g, spent, kept
    <3>6. Gains(low, f, Holders, u, spent) /\ Gains(low, g, Holders, EvmBridge, kept)
      BY <2>3, <3>1, <3>2, <3>3, <3>4 DEF Gains
    <3> HIDE DEF low
    <3>7. /\ SumFunctionOnSet(f, Holders) = SumFunctionOnSet(low, Holders) + spent
          /\ SumFunctionOnSet(low, Holders) \in Nat
      BY <2>1, <2>2, <2>3, <3>6, SumGain
    <3>8. SumFunctionOnSet(g, Holders) = SumFunctionOnSet(low, Holders) + kept
      BY <2>1, <2>2, <2>3, <3>6, SumGain
    <3>9. SumFunction(f) = SumFunctionOnSet(f, Holders)
      BY <2>1 DEF f
    <3>10. SumFunction(f) + kept = SumFunction(g) + spent
           /\ SumFunction(f) \in Nat /\ SumFunction(g) \in Nat
      BY <2>2, <3>5, <3>7, <3>8, <3>9
    <3> QED
      BY <3>10, Zenon DEF f, g
  <2>6. /\ SumFunction(Travelling(t)') = SumFunction(Travelling(t)) + WireValue(t, m)
        /\ SumFunction(Travelling(t)) \in Nat /\ WireValue(t, m) \in Nat
    <3>1. /\ TravellingOf(t)' = TravellingOf(t) \cup {m} /\ m \notin TravellingOf(t)
          /\ m \in transfers'
      BY <1>3, <1>5 DEF TravellingOf, InFlight
    <3>2. /\ SumFunction(Travelling(t)') = SumFunctionOnSet(Travelling(t)', TravellingOf(t)')
          /\ \A m2 \in TravellingOf(t)' : Travelling(t)'[m2] = WireValue(t, m2)
          /\ \A m2 \in TravellingOf(t) : Travelling(t)[m2] = WireValue(t, m2)
      BY DEF Travelling, TravellingOf, SumFunction, WireValue
    <3>3. WireValue(t, m) \in Nat
      <4>1. m.amount \in Nat /\ UnitOn(HomeChain[t], t) \in Nat
        BY <3>1, Units, TokensAssumption DEF BInv, TransfersInv
      <4>2. \A a, b \in Nat : a * b \in Nat
        BY SMT
      <4> QED
        BY <4>1, <4>2 DEF WireValue
    <3>4. PICK f, g : f = Travelling(t) /\ g = Travelling(t)'
      OBVIOUS
    <3>5. /\ \A m2 \in TravellingOf(t) : f[m2] = g[m2] /\ f[m2] \in Nat
          /\ \A m2 \in TravellingOf(t) \cup {m} : g[m2] \in Nat
          /\ g[m] = WireValue(t, m)
      BY <2>1, <3>1, <3>2, <3>3, <3>4
    <3>6. SumFunctionOnSet(g, TravellingOf(t) \cup {m}) = SumFunctionOnSet(g, TravellingOf(t)) + g[m]
      BY <2>1, <3>1, <3>5, SumAdd
    <3>7. /\ SumFunctionOnSet(g, TravellingOf(t)) = SumFunctionOnSet(f, TravellingOf(t))
          /\ SumFunctionOnSet(f, TravellingOf(t)) \in Nat
      BY <2>1, <3>5, SumSame, SumNat
    <3> QED
      BY <2>1, <3>1, <3>2, <3>3, <3>4, <3>5, <3>6, <3>7
  <2> HIDE DEF spent, kept
  <2> QED
    BY <2>2, <2>5, <2>6
<1>6. \A t \in Tokens : Supply(t)' = Supply(t)
  BY DEF Supply
<1>7. ASSUME NEW t \in Tokens
      PROVE  (SumFunction(Held(t)) + SumFunction(Travelling(t)))' = Supply(t)
  <2>1. SumFunction(Held(t)') + SumFunction(Travelling(t)')
          = SumFunction(Held(t)) + SumFunction(Travelling(t))
    BY <1>4, <1>5
  <2> QED
    BY <2>1 DEF AccountsInv, Accounted
<1> QED
  BY <1>3, <1>6, <1>7 DEF AccountsInv, Accounted

(* What a transfer is worth moves from the way to the accounts of the      *)
(* recipient and of the one who redeems.                                   *)
LEMMA PayingAccounts ==
  ASSUME BInv, AccountsInv, NEW vm \in transfers \ completed, transfers' = transfers, Paying(vm)
  PROVE  AccountsInv'
<1>1. completed' = completed \cup {vm}
  BY DEF Paying
<1>2. PICK p \in [transfer : {vm}, recipient : Holders, toRecipient : Nat, toRedeemer : Nat],
           redeemer \in Holders : Pays(vm, p, redeemer)
  BY DEF Paying
<1> DEFINE t == vm.token
<1>3. t \in Tokens /\ vm.amount \in Nat /\ IsFiniteSet(transfers)
  BY DEF BInv, TransfersInv, AccountsInv
<1>4. /\ IsFiniteSet(Holders) /\ IsFiniteSet(TravellingOf(t))
      /\ \A u \in Holders : /\ balance[u][t] \in Nat /\ ChainOfHolder(u) \in Chains
                          /\ HomeValue(ChainOfHolder(u), t, balance[u][t]) \in Nat
      /\ \A m \in TravellingOf(t) : WireValue(t, m) \in Nat
      /\ SumFunction(Held(t)) = SumFunctionOnSet(Held(t), Holders)
      /\ SumFunction(Travelling(t)) = SumFunctionOnSet(Travelling(t), TravellingOf(t))
  BY <1>3, AccountTypes
<1>5. ASSUME NEW t2 \in Tokens, t2 # t
      PROVE  /\ SumFunction(Held(t2)') = SumFunction(Held(t2))
             /\ SumFunction(Travelling(t2)') = SumFunction(Travelling(t2))
  <2>1. \A u \in Holders : balance'[u][t2] = balance[u][t2]
    BY <1>2, <1>5 DEF Pays
  <2>2. Held(t2)' = Held(t2)
    BY <2>1 DEF Held
  <2>3. TravellingOf(t2)' = TravellingOf(t2)
    BY <1>1, <1>5 DEF TravellingOf, InFlight
  <2>4. Travelling(t2)' = Travelling(t2)
    BY <2>3 DEF Travelling, TravellingOf
  <2> QED
    BY <2>2, <2>4
<1>6. /\ SumFunction(Travelling(t)) = SumFunction(Travelling(t)') + WireValue(t, vm)
      /\ SumFunction(Travelling(t)') \in Nat /\ WireValue(t, vm) \in Nat
  <2>1. vm \in TravellingOf(t) /\ TravellingOf(t)' = TravellingOf(t) \ {vm}
    BY <1>1 DEF TravellingOf, InFlight
  <2>2. /\ SumFunction(Travelling(t)') = SumFunctionOnSet(Travelling(t)', TravellingOf(t)')
        /\ \A m \in TravellingOf(t)' : Travelling(t)'[m] = WireValue(t, m)
        /\ \A m \in TravellingOf(t) : Travelling(t)[m] = WireValue(t, m)
    BY DEF Travelling, TravellingOf, SumFunction, WireValue
  <2>3. PICK f, g : f = Travelling(t) /\ g = Travelling(t)'
    OBVIOUS
  <2>4. /\ \A m \in TravellingOf(t) : f[m] \in Nat
        /\ \A m \in TravellingOf(t) \ {vm} : f[m] = g[m]
        /\ f[vm] = WireValue(t, vm) /\ WireValue(t, vm) \in Nat
    BY <1>4, <2>1, <2>2, <2>3
  <2>5. /\ SumFunctionOnSet(f, TravellingOf(t)) = f[vm] + SumFunctionOnSet(f, TravellingOf(t) \ {vm})
        /\ SumFunctionOnSet(f, TravellingOf(t) \ {vm}) \in Nat
    BY <1>4, <2>1, <2>4, SumRemove
  <2>6. SumFunctionOnSet(f, TravellingOf(t) \ {vm}) = SumFunctionOnSet(g, TravellingOf(t) \ {vm})
    <3>1. IsFiniteSet(TravellingOf(t) \ {vm})
      BY <1>4, FS_Subset
    <3> QED
      BY <2>4, <3>1, SumSame
  <2> QED
    BY <1>4, <2>1, <2>2, <2>3, <2>4, <2>5, <2>6
<1>7. /\ SumFunction(Held(t)') = SumFunction(Held(t)) + WireValue(t, vm)
      /\ SumFunction(Held(t)) \in Nat
  <2> DEFINE chain == vm.toChain
             kept  == HomeValue(chain, t, p.toRedeemer)
             paid  == HomeValue(chain, t, p.toRecipient)
  <2>1. /\ p.toRedeemer \in Nat /\ p.toRecipient \in Nat /\ p.recipient \in Holders
        /\ chain = ChainOfHolder(redeemer) /\ chain = ChainOfHolder(p.recipient)
        /\ p.toRecipient + p.toRedeemer = vm.amount * UnitOn(chain, t)
    BY <1>2 DEF Pays, Payout
  <2>2. chain \in Chains
    BY <1>4, <2>1
  <2>3. kept \in Nat /\ paid \in Nat /\ kept + paid = WireValue(t, vm)
    <3>1. HomeValue(chain, t, p.toRecipient + p.toRedeemer) = paid + kept /\ kept \in Nat /\ paid \in Nat
      BY <1>3, <2>1, <2>2, HomeValues, Zenon
    <3>2. HomeValue(chain, t, vm.amount * UnitOn(chain, t)) = WireValue(t, vm)
      BY <1>3, <2>2, HomeValues, Zenon DEF WireValue
    <3> QED
      BY <2>1, <3>1, <3>2
  <2>4. ASSUME NEW u \in Holders
        PROVE  /\ Held(t)[u] \in Nat
               /\ Held(t)'[u] = Held(t)[u] + ((IF u = redeemer THEN kept ELSE 0)
                                              + (IF u = p.recipient THEN paid ELSE 0))
    <3> DEFINE gain == (IF u = redeemer THEN p.toRedeemer ELSE 0)
                       + (IF u = p.recipient THEN p.toRecipient ELSE 0)
               own  == ChainOfHolder(u)
    <3>1. /\ Held(t)[u] = HomeValue(own, t, balance[u][t])
          /\ Held(t)'[u] = HomeValue(own, t, balance'[u][t])
      BY DEF Held
    <3>2. balance'[u][t] = balance[u][t] + gain
      BY <1>2, <1>3 DEF Pays
    <3>3. own \in Chains /\ balance[u][t] \in Nat /\ gain \in Nat
      BY <1>4, <2>1
    <3>4. HomeValue(own, t, gain) = (IF u = redeemer THEN kept ELSE 0)
                                    + (IF u = p.recipient THEN paid ELSE 0)
      <4> DEFINE x == IF u = redeemer THEN p.toRedeemer ELSE 0
                 y == IF u = p.recipient THEN p.toRecipient ELSE 0
      <4>1. x \in Nat /\ y \in Nat /\ gain = x + y
        BY <2>1
      <4>2. /\ HomeValue(own, t, x) = IF u = redeemer THEN kept ELSE 0
            /\ HomeValue(own, t, y) = IF u = p.recipient THEN paid ELSE 0
        <5>1. HomeValue(own, t, 0) = 0
          BY <1>3, <3>3, HomeValues, Zenon
        <5>2. HomeValue(own, t, x) = IF u = redeemer THEN kept ELSE 0
          BY <2>1, <5>1
        <5>3. HomeValue(own, t, y) = IF u = p.recipient THEN paid ELSE 0
          BY <2>1, <5>1
        <5> QED
          BY <5>2, <5>3
      <4> HIDE DEF x, y, gain
      <4>3. HomeValue(own, t, x + y) = HomeValue(own, t, x) + HomeValue(own, t, y)
        <5>1. x \in Nat /\ y \in Nat /\ t \in Tokens /\ own \in Chains
          BY <1>3, <3>3, <4>1
        <5> HIDE DEF t, own
        <5> QED
          BY <5>1, HomeValues, Zenon
      <4> QED
        BY <4>1, <4>2, <4>3
    <3> HIDE DEF gain
    <3>5. HomeValue(own, t, balance[u][t] + gain) = HomeValue(own, t, balance[u][t]) + HomeValue(own, t, gain)
      BY <1>3, <3>3, HomeValues, Zenon
    <3> QED
      BY <1>4, <3>1, <3>2, <3>4, <3>5
  <2>5. SumFunction(Held(t)') = SumFunctionOnSet(Held(t)', Holders)
    BY DEF Held, SumFunction
  <2>6. PICK f, g : f = Held(t) /\ g = Held(t)'
    OBVIOUS
  <2> HIDE DEF kept, paid
  <2>7. \A u \in Holders : /\ f[u] \in Nat
                         /\ g[u] = f[u] + ((IF u = redeemer THEN kept ELSE 0)
                                           + (IF u = p.recipient THEN paid ELSE 0))
    BY <2>4, <2>6, Zenon
  <2>8. /\ SumFunctionOnSet(g, Holders) = SumFunctionOnSet(f, Holders) + (kept + paid)
        /\ SumFunctionOnSet(f, Holders) \in Nat
    <3>1. TwoGains(f, g, Holders, redeemer, kept, p.recipient, paid)
      BY <2>7, Zenon DEF TwoGains
    <3>2. IsFiniteSet(Holders) /\ kept \in Nat /\ paid \in Nat /\ p.recipient \in Holders
      BY <1>4, <2>1, <2>3
    <3> QED
      BY <3>1, <3>2, SumTwoGains
  <2> QED
    BY <1>4, <2>3, <2>5, <2>6, <2>8
<1>8. ASSUME NEW t2 \in Tokens
      PROVE  (SumFunction(Held(t2)) + SumFunction(Travelling(t2)))' = Supply(t2)
  <2>1. SumFunction(Held(t2)') + SumFunction(Travelling(t2)')
          = SumFunction(Held(t2)) + SumFunction(Travelling(t2))
    <3> HIDE DEF t
    <3>1. CASE t2 = t
      BY <1>4, <1>6, <1>7, <3>1
    <3>2. CASE t2 # t
      BY <1>5, <3>2
    <3> QED
      BY <3>1, <3>2
  <2> QED
    BY <2>1 DEF AccountsInv, Accounted
<1>9. \A t2 \in Tokens : Supply(t2)' = Supply(t2)
  BY DEF Supply
<1> QED
  BY <1>3, <1>8, <1>9 DEF AccountsInv, Accounted

(* What neither sends nor pays changes no account.                         *)
LEMMA QuietAccounts ==
  ASSUME AccountsInv, Arranging
  PROVE  AccountsInv'
BY DEF AccountsInv, Accounted, Arranging, Held, Travelling, InFlight, HomeValue, Supply

LEMMA AccountsHold == Spec => []AccountsInv
<1>1. BInv /\ BInv' /\ AccountsInv /\ [Next]_vars => AccountsInv'
  BY NextKinds, SendingAccounts, PayingAccounts, QuietAccounts
<1> QED
  BY <1>1, InitAccounts, BridgeInvariant, PTL DEF Spec

(* The accounts balance in every state: whatever is sent, redeemed, taken  *)
(* as a fee or cut off, by whomever and in whatever order, no raw unit of  *)
(* a token is made or lost between the two chains.                         *)
THEOREM AccountsBalance == Spec => []Accounted
<1> QED
  BY AccountsHold, PTL DEF AccountsInv

(* What the contract was left with and paid itself.  The payments are      *)
(* finitely many, so they have a sum.                                      *)
KeptInv == ContractHoldsOnlyWhatIsStuck /\ IsFiniteSet(evmPayouts \cup solanaPayouts)

KeptOf(t) ==
  {p \in evmPayouts \cup solanaPayouts : p.recipient = EvmBridge /\ p.transfer.token = t}

(* What the contract paid itself is a number. *)
LEMMA KeptTypes ==
  ASSUME BInv, IsFiniteSet(evmPayouts \cup solanaPayouts), NEW t \in Tokens
  PROVE  /\ IsFiniteSet(KeptOf(t))
         /\ \A p \in KeptOf(t) : p.toRecipient \in Nat /\ Kept(t)[p] = p.toRecipient
         /\ SumFunction(Kept(t)) = SumFunctionOnSet(Kept(t), KeptOf(t))
<1>1. IsFiniteSet(KeptOf(t))
  BY FS_Subset DEF KeptOf
<1>2. \A p \in KeptOf(t) : p.toRecipient \in Nat /\ Kept(t)[p] = p.toRecipient
  BY DEF KeptOf, Kept, BInv, PayoutsInv
<1>3. DOMAIN Kept(t) = KeptOf(t)
  BY DEF KeptOf, Kept
<1> QED
  BY <1>1, <1>2, <1>3 DEF SumFunction

(* A payment to a user leaves the contract as it was; one to the contract  *)
(* raises its balance by what it adds to the sum.                          *)
LEMMA PayingKept ==
  ASSUME BInv, KeptInv, NEW vm \in transfers \ completed, Paying(vm)
  PROVE  KeptInv'
<1>1. PICK p \in [transfer : {vm}, recipient : Holders, toRecipient : Nat, toRedeemer : Nat],
           redeemer \in Holders : Pays(vm, p, redeemer)
  BY DEF Paying
<1>2. /\ (evmPayouts \cup solanaPayouts)' = evmPayouts \cup solanaPayouts \cup {p}
      /\ p \notin evmPayouts \cup solanaPayouts
      /\ dust' = dust /\ vm.token \in Tokens /\ p.toRecipient \in Nat /\ p.transfer = vm
  BY <1>1 DEF Pays, Paying, BInv, PayoutsInv, TransfersInv
<1>3. IsFiniteSet(evmPayouts \cup solanaPayouts)'
  BY <1>2, FS_AddElement DEF KeptInv
<1>4. \A t \in Tokens : balance'[EvmBridge][t] =
        balance[EvmBridge][t] + (IF t = vm.token /\ p.recipient = EvmBridge THEN p.toRecipient ELSE 0)
  <2>1. \A t \in Tokens : balance[EvmBridge][t] \in Nat
    BY Parties DEF BInv, BridgeTypeOK
  <2> QED
    BY <1>1, <1>2, <2>1, Parties DEF Pays
<1>5. ASSUME NEW t \in Tokens
      PROVE  /\ SumFunction(Kept(t)') = SumFunction(Kept(t))
                  + (IF t = vm.token /\ p.recipient = EvmBridge THEN p.toRecipient ELSE 0)
             /\ SumFunction(Kept(t)) \in Nat
  <2>1. /\ IsFiniteSet(KeptOf(t))
        /\ \A q \in KeptOf(t) : q.toRecipient \in Nat /\ Kept(t)[q] = q.toRecipient
        /\ SumFunction(Kept(t)) = SumFunctionOnSet(Kept(t), KeptOf(t))
    BY KeptTypes DEF KeptInv
  <2>2. SumFunction(Kept(t)) \in Nat
    BY <2>1, SumNat
  <2>3. CASE t = vm.token /\ p.recipient = EvmBridge
    <3>1. KeptOf(t)' = KeptOf(t) \cup {p} /\ p \notin KeptOf(t)
      BY <1>2, <2>3 DEF KeptOf
    <3>2. /\ SumFunction(Kept(t)') = SumFunctionOnSet(Kept(t)', KeptOf(t)')
          /\ \A q \in KeptOf(t)' : Kept(t)'[q] = q.toRecipient
      BY DEF Kept, KeptOf, SumFunction
    <3>3. PICK f, g : f = Kept(t) /\ g = Kept(t)'
      OBVIOUS
    <3>4. /\ \A q \in KeptOf(t) : f[q] = g[q]
          /\ \A q \in KeptOf(t) \cup {p} : g[q] \in Nat
          /\ g[p] = p.toRecipient
      BY <1>2, <2>1, <3>1, <3>2, <3>3
    <3>5. SumFunctionOnSet(g, KeptOf(t) \cup {p}) = SumFunctionOnSet(g, KeptOf(t)) + g[p]
      BY <2>1, <3>1, <3>4, SumAdd
    <3>6. SumFunctionOnSet(f, KeptOf(t)) = SumFunctionOnSet(g, KeptOf(t))
      BY <2>1, <3>4, SumSame
    <3> QED
      BY <2>1, <2>2, <2>3, <3>1, <3>2, <3>3, <3>4, <3>5, <3>6
  <2>4. CASE ~(t = vm.token /\ p.recipient = EvmBridge)
    <3>1. KeptOf(t)' = KeptOf(t)
      BY <1>2, <2>4 DEF KeptOf
    <3>2. Kept(t)' = Kept(t)
      BY <3>1 DEF Kept, KeptOf
    <3> QED
      BY <2>2, <2>4, <3>2
  <2> QED
    BY <2>3, <2>4
<1>6. \A t \in Tokens : dust[t] \in Nat /\ balance[EvmBridge][t] = dust[t] + SumFunction(Kept(t))
  BY DEF KeptInv, ContractHoldsOnlyWhatIsStuck, BInv, BridgeTypeOK
<1>7. \A t \in Tokens : balance'[EvmBridge][t] = dust'[t] + SumFunction(Kept(t)')
  BY <1>2, <1>4, <1>5, <1>6
<1> QED
  BY <1>3, <1>7 DEF KeptInv, ContractHoldsOnlyWhatIsStuck

(* What truncation left in the EVM contract and what was addressed to it   *)
(* stays there: no redemption is ever paid out of it, and every redemption *)
(* for another recipient passes on all it received.                        *)
THEOREM ContractKeepsItsOwn == Spec => []ContractHoldsOnlyWhatIsStuck
<1>1. Init => KeptInv
  <2> SUFFICES ASSUME Init PROVE KeptInv
    OBVIOUS
  <2>1. evmPayouts \cup solanaPayouts = {} /\ BInv
    BY InitBInv DEF Init, EvmInit, SolanaInit
  <2>2. IsFiniteSet(evmPayouts \cup solanaPayouts)
    BY <2>1, FS_EmptySet
  <2>3. \A t \in Tokens : SumFunction(Kept(t)) = 0
    <3>1. \A t \in Tokens : KeptOf(t) = {}
      BY <2>1 DEF KeptOf
    <3> QED
      BY <2>1, <2>2, <3>1, KeptTypes, SumEmpty
  <2>4. \A t \in Tokens : balance[EvmBridge][t] = 0 /\ dust[t] = 0
    BY Parties, AddressesAssumption DEF Init, TbInit, EvmInit
  <2> QED
    BY <2>2, <2>3, <2>4 DEF KeptInv, ContractHoldsOnlyWhatIsStuck
<1>2. ASSUME BInv, KeptInv, [Next]_vars
      PROVE  KeptInv'
  <2>1. CASE Sending
    <3>1. PICK m : \E u \in Users, taken, left \in Nat : Enters(m, u, taken, left)
      BY <2>1 DEF Sending
    <3>2. PICK u \in Users, taken \in Nat, left \in Nat : Enters(m, u, taken, left)
      BY <3>1
    <3>3. /\ (evmPayouts \cup solanaPayouts)' = evmPayouts \cup solanaPayouts
          /\ \A t \in Tokens : Kept(t)' = Kept(t)
      BY <2>1 DEF Sending, Kept
    <3>4. \A t \in Tokens :
            /\ balance'[EvmBridge][t] =
                 IF t = m.token THEN balance[EvmBridge][t] + left ELSE balance[EvmBridge][t]
            /\ dust'[t] = IF t = m.token THEN dust[t] + left ELSE dust[t]
      BY <3>2, Parties DEF Enters, Users
    <3>5. \A t \in Tokens : /\ dust[t] \in Nat /\ SumFunction(Kept(t)) \in Nat
                            /\ balance[EvmBridge][t] = dust[t] + SumFunction(Kept(t))
      <4>1. \A t \in Tokens : SumFunction(Kept(t)) \in Nat
        BY <1>2, KeptTypes, SumNat DEF KeptInv
      <4> QED
        BY <1>2, <4>1 DEF KeptInv, ContractHoldsOnlyWhatIsStuck, BInv, BridgeTypeOK
    <3>6. \A t \in Tokens : balance'[EvmBridge][t] = dust'[t] + SumFunction(Kept(t)')
      BY <3>3, <3>4, <3>5
    <3> QED
      BY <1>2, <3>3, <3>6 DEF KeptInv, ContractHoldsOnlyWhatIsStuck
  <2>2. ASSUME NEW vm \in transfers \ completed, Paying(vm)
        PROVE  KeptInv'
    BY <1>2, <2>2, PayingKept
  <2>3. CASE Arranging
    BY <1>2, <2>3 DEF KeptInv, ContractHoldsOnlyWhatIsStuck, Kept, Arranging
  <2> QED
    BY <1>2, <2>1, <2>2, <2>3, NextKinds
<1> QED
  BY <1>1, <1>2, BridgeInvariant, PTL DEF Spec, KeptInv

-----------------------------------------------------------------------------
(* The amount of a transfer in flight fits u64 on Solana: of a token       *)
(* native there because it is part of the supply, of another because it is *)
(* what travelled.                                                         *)
LEMMA AmountsFit ==
  ASSUME BInv, AccountsInv, NEW m \in InFlight
  PROVE  FitsU64(RedeemedAmount(m)) /\ Payout(CHAIN_ID_SOLANA, m) = RedeemedAmount(m)
<1> DEFINE t == m.token
           k == UnitOn(HomeChain[t], t)
<1>1. t \in Tokens /\ m.amount \in Nat /\ FitsU64(m.amount) /\ IsFiniteSet(transfers)
  BY DEF BInv, TransfersInv, InFlight, AccountsInv
<1>2. k \in Nat \ {0} /\ MaxU64 \in Nat
  BY <1>1, Units, TokensAssumption, MaxU64Assumption
<1>3. m.amount * k \in Nat /\ m.amount * k <= Supply(t) /\ Supply(t) \in Nat
  <2>1. /\ IsFiniteSet(Holders) /\ IsFiniteSet(TravellingOf(t))
        /\ \A h \in Holders : HomeValue(ChainOfHolder(h), t, balance[h][t]) \in Nat
        /\ \A x \in TravellingOf(t) : WireValue(t, x) \in Nat
        /\ SumFunction(Held(t)) = SumFunctionOnSet(Held(t), Holders)
        /\ SumFunction(Travelling(t)) = SumFunctionOnSet(Travelling(t), TravellingOf(t))
    BY <1>1, AccountTypes
  <2>2. SumFunction(Held(t)) \in Nat
    <3>1. \A h \in Holders : Held(t)[h] \in Nat
      BY <2>1 DEF Held
    <3> QED
      BY <2>1, <3>1, SumNat
  <2>3. /\ WireValue(t, m) <= SumFunction(Travelling(t))
        /\ WireValue(t, m) \in Nat /\ SumFunction(Travelling(t)) \in Nat
    <3>1. m \in TravellingOf(t)
      BY DEF TravellingOf
    <3>2. \A x \in TravellingOf(t) : Travelling(t)[x] = WireValue(t, x) /\ WireValue(t, x) \in Nat
      BY <2>1 DEF Travelling, TravellingOf, WireValue
    <3>3. Travelling(t)[m] <= SumFunctionOnSet(Travelling(t), TravellingOf(t))
      BY <2>1, <3>1, <3>2, SumBounds
    <3>4. SumFunctionOnSet(Travelling(t), TravellingOf(t)) \in Nat
      BY <2>1, <3>2, SumNat
    <3> QED
      BY <2>1, <3>1, <3>2, <3>3, <3>4
  <2>4. SumFunction(Held(t)) + SumFunction(Travelling(t)) = Supply(t)
    BY <1>1 DEF AccountsInv, Accounted
  <2>5. WireValue(t, m) <= Supply(t) /\ Supply(t) \in Nat
    BY <2>1, <2>2, <2>3, <2>4
  <2> QED
    BY <2>3, <2>5 DEF WireValue
<1> HIDE DEF k
<1>4. CASE HomeChain[t] = CHAIN_ID_SOLANA
  <2>1. LocalDecimals(CHAIN_ID_SOLANA, t) = Decimals[t]
    BY <1>4 DEF LocalDecimals
  <2>2. k = amount_adjustment(Decimals[t]) /\ k = UnitOn(CHAIN_ID_SOLANA, t)
    BY <1>1, <1>4, <2>1, Units, Parties DEF k
  <2>3. RedeemedAmount(m) = m.amount * k
    BY <1>4, <2>2 DEF RedeemedAmount, denormalize_amount
  <2>4. Supply(t) <= MaxU64
    BY <1>1, <1>4, SupplyAssumption DEF FitsU64
  <2>5. m.amount * k <= MaxU64
    BY <1>2, <1>3, <2>4
  <2> QED
    BY <2>2, <2>3, <2>5 DEF FitsU64, Payout
<1>5. CASE HomeChain[t] # CHAIN_ID_SOLANA
  <2>1. RedeemedAmount(m) = m.amount
    BY <1>5 DEF RedeemedAmount
  <2>2. UnitOn(CHAIN_ID_SOLANA, t) = 1
    BY <1>1, <1>5, TokensAssumption DEF UnitOn, LocalDecimals, MAX_WRAPPED_ASSET_DECIMALS
  <2>3. m.amount * 1 = m.amount
    BY <1>1
  <2> QED
    BY <1>1, <2>1, <2>2, <2>3 DEF Payout
<1> QED
  BY <1>4, <1>5

(* No transfer is stuck over its amount: what the receiving side computes  *)
(* is what the Token Bridge pays it, on Solana it fits u64, and the        *)
(* contract has not marked as redeemed what is still to be completed.      *)
THEOREM RedeemableInFull == Spec => []RedemptionSucceeds
<1>1. ASSUME BInv, AccountsInv, NEW m \in signed \ completed
      PROVE  /\ RedeemFunds(m.recipient, m.recipient, m)
             /\ ~isTransferRedeemed(m)
             /\ denormalizeAmount(m.amount, LocalDecimals(EvmChain, m.token)) = Payout(EvmChain, m)
  <2>1. m \in InFlight /\ m.token \in Tokens /\ m.amount \in Nat
    BY <1>1 DEF BInv, BridgeTypeOK, TransfersInv, InFlight
  <2>2. RedeemFunds(m.recipient, m.recipient, m)
    BY <1>1, <2>1, AmountsFit DEF RedeemFunds
  <2>3. ~isTransferRedeemed(m)
    BY <1>1 DEF isTransferRedeemed, BInv, BridgeTypeOK
  <2> QED
    BY <2>1, <2>2, <2>3, Worth, Parties
<1>2. BInv /\ AccountsInv => RedemptionSucceeds
  BY <1>1 DEF RedemptionSucceeds
<1> QED
  BY <1>2, BridgeInvariant, AccountsHold, PTL

-----------------------------------------------------------------------------
(* Where the contract's transfers to Solana go: to an address the owner    *)
(* registered for Solana, whenever it was registered.                      *)
AddressedInv ==
  /\ registeredEmitters[CHAIN_ID_SOLANA] \in Registrations[CHAIN_ID_SOLANA] \cup {Nobody}
  /\ \A m \in transfers : m.from = EvmBridge =>
       /\ m.chain = EvmChain
       /\ m.toChain = CHAIN_ID_SOLANA => m.to \in Registrations[CHAIN_ID_SOLANA]
  /\ \A m \in posted : m.toChain = CHAIN_ID_SOLANA
  /\ \A m \in completed : m.toChain = CHAIN_ID_SOLANA => m.to \in {SolanaProgram, RedeemerConfig}

LEMMA AddressedInvariant == Spec => []AddressedInv
<1>1. Init => AddressedInv
  BY Parties DEF Init, TbInit, EvmInit, AddressedInv
<1>2. ASSUME BInv, AddressedInv, [Next]_vars
      PROVE  AddressedInv'
  <2>1. CASE Sending
    <3>1. PICK m : \E u \in Users, taken, left \in Nat : Enters(m, u, taken, left)
      BY <2>1 DEF Sending
    <3>2. /\ transfers' = transfers \cup {m}
          /\ m.from = EvmBridge => /\ m.chain = EvmChain /\ m.to # Nobody
                                   /\ m.to = registeredEmitters[m.toChain]
      BY <3>1 DEF Enters
    <3>3. UNCHANGED <<completed, posted, registeredEmitters>>
      BY <2>1 DEF Sending
    <3> QED
      BY <1>2, <3>2, <3>3 DEF AddressedInv
  <2>2. ASSUME NEW vm \in transfers \ completed, transfers' = transfers, Paying(vm)
        PROVE  AddressedInv'
    BY <1>2, <2>2 DEF Paying, AddressedInv
  <2>3. CASE Arranging
    <3>1. registeredEmitters'[CHAIN_ID_SOLANA] \in Registrations[CHAIN_ID_SOLANA] \cup {Nobody}
      BY <1>2, <2>3, Parties DEF Arranging, AddressedInv, BInv, BridgeTypeOK
    <3>2. UNCHANGED <<transfers, completed>> /\ \A m \in posted' \ posted : m.toChain = CHAIN_ID_SOLANA
      BY <2>3 DEF Arranging
    <3> QED
      BY <1>2, <3>1, <3>2 DEF AddressedInv
  <2> QED
    BY <1>2, <2>1, <2>2, <2>3, NextKinds
<1> QED
  BY <1>1, <1>2, BridgeInvariant, PTL DEF Spec

(* The claim BridgeClaims records holds if only the program (or its config *)
(* account) is ever registered for Solana: a posted transfer of the        *)
(* contract to a user with a token account then passes the program's       *)
(* checks.                                                                 *)
THEOREM RegisteredProgramRedeems ==
  ASSUME Registrations[CHAIN_ID_SOLANA] \subseteq {SolanaProgram, RedeemerConfig}
  PROVE  Spec => []SentTransfersRedeemable
<1>1. ASSUME BInv, AddressedInv, NEW m \in posted, m.from = EvmBridge,
             <<m.recipient, m.token>> \in tokenAccounts, bridgeOwner # Nobody,
             foreignContract[EvmChain] = EvmBridge
      PROVE  RedeemAccounts(m.recipient, m.recipient, m)
  <2>1. m \in transfers
    BY <1>1 DEF BInv, BridgeTypeOK
  <2>2. m.chain = EvmChain /\ m.toChain = CHAIN_ID_SOLANA
    BY <1>1, <2>1 DEF AddressedInv
  <2>3. m.to \in {SolanaProgram, RedeemerConfig}
    BY <1>1, <2>1, <2>2 DEF AddressedInv
  <2>4. {m.recipient, m.recipient} \X {m.token} \subseteq tokenAccounts
    <3>1. \A x, y : <<x, y>> \in tokenAccounts => {x, x} \X {y} \subseteq tokenAccounts
      OBVIOUS
    <3> QED
      BY <1>1, <3>1, Zenon
  <2> QED
    BY <1>1, <2>2, <2>3, <2>4, Zenon DEF RedeemAccounts, verify, RecipientMatches
<1>2. BInv /\ AddressedInv => SentTransfersRedeemable
  BY <1>1, Zenon DEF SentTransfersRedeemable
<1> QED
  BY <1>2, BridgeInvariant, AddressedInvariant, PTL

(* A transfer of the contract that must be redeemed by the program.        *)
SentToSolana(m) == m.from = EvmBridge /\ m.toChain = CHAIN_ID_SOLANA

(* What setup-bridges registers for Solana, the Token Bridge's emitter, is *)
(* no address the program takes transfers for: whatever else happens, and  *)
(* whoever tries, no transfer the contract sends to Solana passes the      *)
(* program's checks, and none is ever completed.                           *)
THEOREM SetupStrandsTransfers ==
  ASSUME Registrations[CHAIN_ID_SOLANA] = {SolanaTokenBridge}
  PROVE  Spec => [](\A m \in transfers : SentToSolana(m) =>
                      /\ m \notin completed
                      /\ \A payer, recipient \in SolanaUsers : ~RedeemAccounts(payer, recipient, m))
<1> DEFINE Stranded == \A m \in transfers : SentToSolana(m) =>
                         /\ m \notin completed
                         /\ \A payer, recipient \in SolanaUsers : ~RedeemAccounts(payer, recipient, m)
<1>1. ASSUME AddressedInv, NEW m \in transfers, SentToSolana(m)
      PROVE  /\ m \notin completed
             /\ \A payer, recipient \in SolanaUsers : ~RedeemAccounts(payer, recipient, m)
  <2>1. m.to = SolanaTokenBridge /\ m.to \notin {SolanaProgram, RedeemerConfig}
    BY <1>1, AddressesAssumption DEF AddressedInv, SentToSolana
  <2>2. m \notin completed
    BY <1>1, <2>1 DEF AddressedInv, SentToSolana
  <2> QED
    BY <2>1, <2>2 DEF RedeemAccounts
<1>2. AddressedInv => Stranded
  BY <1>1
<1> HIDE DEF Stranded
<1>3. Spec => []Stranded
  BY <1>2, AddressedInvariant, PTL
<1> QED
  BY <1>3 DEF Stranded
=============================================================================
