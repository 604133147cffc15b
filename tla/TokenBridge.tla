----------------------------- MODULE TokenBridge -----------------------------
(***************************************************************************)
(* Wormhole's Token Bridge and the ledgers of the two chains, as the       *)
(* CrossChainBridge contract and program use them: external, all of it.    *)
(* A token is native to one chain and represented on the other by a        *)
(* wrapped token of at most 8 decimals.  A transfer takes tokens from its  *)
(* sender (locked or burned), travels as a signed message and gives them   *)
(* to whoever completes it (unlocked or minted), once.                     *)
(***************************************************************************)
EXTENDS TokenAmounts, FiniteSets

CONSTANTS
  Tokens,            \* tokens both chains know
  HomeChain,         \* token -> the chain it is native to
  Decimals,          \* token -> decimals on its home chain
  InitialBalance,    \* what each user of the home chain starts with
  InitialAccounts,   \* pairs <<Solana user, token>> with a token account
  EvmUsers, SolanaUsers,
  EvmBridge,         \* address of the CrossChainBridge contract
  SolanaProgram,     \* id of the cross-chain-bridge program
  RedeemerConfig,    \* address of its redeemer config account
  EvmTokenBridge, SolanaTokenBridge,  \* the Token Bridges' emitters
  Nobody,            \* the zero address, and an unset owner
  EvmChain,
  Amounts,           \* raw amounts callers pass
  MaxTransfers       \* chain -> bound on the transfers that leave it

CHAIN_ID_SOLANA == 1
Chains == {CHAIN_ID_SOLANA, EvmChain}
Users == EvmUsers \cup SolanaUsers
Holders == Users \cup {EvmBridge}
Addresses == Holders \cup {SolanaProgram, RedeemerConfig, EvmTokenBridge, SolanaTokenBridge}

ASSUME TokensAssumption ==
  /\ EvmChain \in Nat \ {0, CHAIN_ID_SOLANA}
  /\ HomeChain \in [Tokens -> Chains]
  /\ Decimals \in [Tokens -> Nat]
  /\ \A t \in Tokens : amount_adjustment(Decimals[t]) \in Nat \ {0}
  /\ Amounts \subseteq Nat
  /\ InitialBalance \in Nat
  /\ InitialAccounts \subseteq SolanaUsers \X Tokens
  /\ MaxTransfers \in [Chains -> Nat]
ASSUME AddressesAssumption ==
  /\ EvmUsers \cap SolanaUsers = {}
  /\ Nobody \notin Addresses
  /\ EvmBridge \notin Users \cup {SolanaProgram, RedeemerConfig, EvmTokenBridge,
                                  SolanaTokenBridge}
  /\ SolanaTokenBridge \notin {SolanaProgram, RedeemerConfig}

VARIABLES
  tbSequence,  \* chain -> number of the Token Bridge's next message
  transfers,   \* messages published by the Token Bridges
  signed,      \* those the guardians signed
  posted,      \* signed ones the core bridge holds in accounts on Solana
  completed,   \* those completed by the Token Bridge of their target
  balance,     \* holder -> token -> raw amount on the holder's chain
  tokenAccounts \* associated token accounts that exist on Solana

tbVars == <<tbSequence, transfers, signed, posted, completed, balance, tokenAccounts>>

TokenBridgeOf(chain) == IF chain = EvmChain THEN EvmTokenBridge ELSE SolanaTokenBridge
ChainOfHolder(h) == IF h \in SolanaUsers THEN CHAIN_ID_SOLANA ELSE EvmChain

LocalDecimals(chain, t) ==
  IF HomeChain[t] = chain \/ Decimals[t] < MAX_WRAPPED_ASSET_DECIMALS
  THEN Decimals[t] ELSE MAX_WRAPPED_ASSET_DECIMALS

(* Raw units of the chain in one unit of a transfer's amount.              *)
UnitOn(chain, t) ==
  IF LocalDecimals(chain, t) > MAX_WRAPPED_ASSET_DECIMALS
  THEN 10 ^ (LocalDecimals(chain, t) - MAX_WRAPPED_ASSET_DECIMALS) ELSE 1

Payout(chain, m) == m.amount * UnitOn(chain, m.token)

TbInit ==
  /\ tbSequence = [ch \in Chains |-> 0]
  /\ transfers = {}
  /\ signed = {}
  /\ posted = {}
  /\ completed = {}
  /\ tokenAccounts = InitialAccounts
  /\ balance = [h \in Holders |-> [t \in Tokens |->
       IF h \in Users /\ ChainOfHolder(h) = HomeChain[t] THEN InitialBalance ELSE 0]]

Transfer(chain, t, amount, to, toChain, from, recipient) ==
  [chain |-> chain, emitter |-> TokenBridgeOf(chain), sequence |-> tbSequence[chain],
   token |-> t, amount |-> amount, to |-> to, toChain |-> toChain, from |-> from,
   recipient |-> recipient]

(* transfer with payload: publishes; the caller states where the tokens    *)
(* come from by changing balance.  Amounts travel as numbers of 64 bits,   *)
(* and the Token Bridge refuses to let out more.                           *)
TbTransfer(m) ==
  /\ FitsU64(m.amount)
  /\ tbSequence[m.chain] < MaxTransfers[m.chain]
  /\ transfers' = transfers \cup {m}
  /\ tbSequence' = [tbSequence EXCEPT ![m.chain] = @ + 1]
  /\ UNCHANGED <<signed, posted, completed, tokenAccounts>>

(* complete transfer with payload: a message of the other Token Bridge,    *)
(* bound for this chain, presented by the address it names, once.          *)
TbComplete(m, chain, redeemers) ==
  /\ m \in signed \ completed
  /\ m.chain # chain /\ m.emitter = TokenBridgeOf(m.chain)
  /\ m.toChain = chain
  /\ m.to \in redeemers
  /\ completed' = completed \cup {m}
  /\ UNCHANGED <<tbSequence, transfers, signed, posted, tokenAccounts>>

Credit(t, gain) ==
  balance' = [h \in Holders |-> [balance[h] EXCEPT ![t] = @ + gain[h]]]

SignTransfer(m) ==
  /\ m \in transfers \ signed
  /\ signed' = signed \cup {m}
  /\ UNCHANGED <<tbSequence, transfers, posted, completed, balance, tokenAccounts>>

(* The core bridge on Solana verifies a signed transfer and keeps it in an *)
(* account; one bound elsewhere may be posted too and is of no use there.  *)
PostTransfer(m) ==
  /\ m \in signed \ posted
  /\ m.toChain = CHAIN_ID_SOLANA
  /\ posted' = posted \cup {m}
  /\ UNCHANGED <<tbSequence, transfers, signed, completed, balance, tokenAccounts>>

(* Anyone may create a user's associated token account.                    *)
CreateTokenAccount(u, t) ==
  /\ <<u, t>> \notin tokenAccounts
  /\ tokenAccounts' = tokenAccounts \cup {<<u, t>>}
  /\ UNCHANGED <<tbSequence, transfers, signed, posted, completed, balance>>

(* A user of the Token Bridge who does not go through CrossChainBridge of  *)
(* the user's chain, and addresses that of the other.                      *)
OtherTransfer(u, t, amount, recipient) ==
  LET chain   == ChainOfHolder(u)
      toChain == CHOOSE ch \in Chains : ch # chain
      to      == IF toChain = EvmChain THEN EvmBridge ELSE SolanaProgram IN
    /\ amount * UnitOn(chain, t) <= balance[u][t]
    /\ TbTransfer(Transfer(chain, t, amount, to, toChain, u, recipient))
    /\ balance' = [balance EXCEPT ![u][t] = @ - amount * UnitOn(chain, t)]
=============================================================================
