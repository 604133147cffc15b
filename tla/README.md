# Cross-chain SDK: specifications

TLA+ modules of the cross-chain messenger and the cross-chain token bridge, the
TLC models that check them on small instances, and proofs, checked by TLAPS, of
what matters most for every value of the constants.

Paths below are relative to the repository (`src/...` in `PROJECT.json`).

## The system

Two applications on top of Wormhole join an EVM chain (Base, Wormhole chain 30)
and Solana (chain 1).

| Component | State it keeps | Operations |
|---|---|---|
| `evm/src/CrossChainMessenger` | registered emitter per chain; hashes consumed; payload per hash; owner | `sendMessage`, `receiveMessage`, `registerEmitter` |
| `solana/programs/cross-chain-messenger` | config (owner, Wormhole accounts); foreign emitter per chain; one `Received` account per (chain, sequence) | `initialize`, `register_emitter`, `send_message`, `receive_message`, `close_received` |
| `evm/src/CrossChainBridge` | registered emitter per chain; hashes redeemed; relayer fee (unused); tokens | `sendTokensWithPayload`, `redeemTokensWithPayload`, `registerEmitter`, `updateRelayerFee` |
| `solana/programs/cross-chain-bridge` | sender and redeemer config (owner, relayer fee); foreign contract per chain; a temporary token account within each instruction | `initialize`, `register_foreign_contract`, `update_relayer_fee`, `send_native/wrapped_tokens_with_payload`, `redeem_native/wrapped_transfer_with_payload` |
| `solana/modules/wormhole-anchor-sdk` | none; reads the core's sequence tracker and posted VAAs | account types, calls into Wormhole, amount normalisation |
| `client/src`, `client/scripts` | none that lasts; local variables across awaits | send, wait for confirmation, poll for the VAA, redeem; setup, initialise, close |
| `solana/ts/sdk` | none | builds instructions; reads the tracker to derive a message account |
| Wormhole core, Token Bridge (external) | sequence numbers, published and signed messages, claims, balances | `publishMessage`/`post_message`, guardians' signatures, `post_vaa`, transfers with payload |

How they interact: a program **calls** the Wormhole core (or the Token Bridge)
of its own chain to publish; the guardians **sign** what they observe; a VAA is
public and **anyone** may carry it to the other chain, in any order, at any
time, any number of times. No relayer is part of the system: delivery happens
because somebody runs a script. Owners change registrations and fees while
messages are in flight. The clients read the chain (tracker, fee), and what they
read may be stale when their transaction executes.

What is hard to test here: two senders that read one tracker; messages that
overtake each other; re-registration and redeployment with messages under way; a
`Received` account closed, or keyed by too little; a payload at the limit of one
side and beyond the limit of the other; amounts that the wire cannot express;
a relayer fee that moves or overflows; a recipient that is the contract itself; a run
interrupted between two of its transactions; a setup that stops with one of its two
registrations made, or whose second one lands after it was given up; a wait under the
wrong emitter, and a wait whose deadline is never looked at. `PROJECT.json` lists each of these at its line, under
`hazards`, with the properties that would catch it.

## Modules

```
MessengerWire   WormholeCore                 TokenAmounts
      \          /      \                         |
   EvmMessenger    SolanaMessenger           TokenBridge (external)
          \          /                        /          \
           Messenger  ---implements--->  EvmBridge    SolanaBridge
          /    |    \        Channel           \          /
MessengerClient | MessengerLiveness             Bridge ---implements---> Transfers
                |         |                    /      \
     MessengerClaims  MessengerOperator   BridgeClient  BridgeClaims

Proofs:  MessengerProofs         about Messenger
         MessengerStoreProofs    about Messenger and MessengerClaims, on top of MessengerProofs
         MessengerClientProofs   about MessengerClient, on top of MessengerStoreProofs
         MessengerOperatorProofs about MessengerOperator, on top of MessengerStoreProofs
         TokenAmountsProofs      about TokenAmounts
         SumProofs               about sums over finite sets (the library's SumFunction)
         BridgeProofs            about Bridge and BridgeClaims, on top of the last two
         BridgeClientProofs      about BridgeClient, on top of BridgeProofs
```

`MC*.tla` give the constants their values for TLC; each `.cfg` is one run.

### Messenger

* **WormholeCore** - external. Per emitter a counter, the messages published, the
  messages signed. The hash of a VAA identifies its body, so a VAA, its body and
  its hash are one value. A VAA is never removed: replay is always possible.
* **MessengerWire** - both codecs. A payload is a token for its content and its
  length in bytes; the two-byte length field is the length modulo 65536. The two
  readers differ: `decodeMessage` on EVM wants the length field to cover the rest
  exactly; `deserialize_reader` on Solana reads as many bytes as it says, at most
  1024.
* **EvmMessenger** - `CrossChainMessenger.sol`. Storage is indexed by contract,
  since a redeployment leaves the old contract alive under the same chain id. A
  `require` is a conjunct; a transaction that reverts is a step that is not taken.
* **SolanaMessenger** - the program. `XxxAccounts` operators are the constraints
  Anchor checks before a handler runs (`init`, `has_one`, seeds, `address`), the
  lower-case operators the instructions. `solanaInbox` and `closes` are history.
* **Messenger** - both, joined; the invariants; `EvmChannel` and `SolanaChannel`,
  the refinement mappings to **Channel**, the abstract promise: a receiver takes a
  message as its sender sent it, from a sender it trusts at that moment, never
  twice. Loss, delay and overtaking are allowed.
* **MessengerLiveness** - delivery, under the fairness discussed below.
* **MessengerClient** - runs of `test-solana-to-evm` and `test-evm-to-solana` and
  the `redeem-on-*` scripts. Each await is a control point; a transaction lives on
  its own (`tx`), so it can land after its sender stopped waiting. `returned` is
  what `sendMessage` returned and the script printed.
* **MessengerOperator** - `initialize-solana`, `setup-messengers` and
  `close-received`, each with the look at the chain that precedes its transaction,
  while the users' messages flow. Two wallets race for `initialize`; a setup stops
  between its registrations, is run again, and runs for two deployments at once.
  The registration on Solana is submitted, lands and is seen to land in steps of their
  own: one whose script stopped meanwhile is in `late` and may land later, when another
  setup is under way or done. The script also takes an error "already in use" for
  success; the program never answers it, since the account is `init_if_needed`.
* **MessengerClaims** - two expectations found in the tests that the program does
  not meet (see Findings).

### Bridge

* **TokenAmounts** - `token_bridge/utils.rs` and `compute_relayer_amount`: wire
  amounts have at most 8 decimals; u64 arithmetic aborts on overflow
  (`overflow-checks = true` in `solana/Cargo.toml`).
* **TokenBridge** - external: transfers, claims and the ledgers of both chains.
  Other users bridge through it too (`OtherTransfer`), with messages under the
  same emitter and to the same contracts. Those are assumed to carry a payload of
  the bridge's format, so that the programs have to tell by their own checks. It lets
  nothing out above 64 bits: `TokenBridgeTransferWithPayload` of the anchor SDK reads the
  amount as a u64 (`token_bridge/message.rs`).
* **EvmBridge**, **SolanaBridge** - the contract and the program. `dust` is a
  history variable of what truncation left in the contract. A native redemption
  and a wrapped one share `Redeem`, as the two handlers share their text. The
  temporary token account is created and closed in one instruction and closing
  needs it empty: that is the conjunct `Payout = amount` of `RedeemFunds`.
* **Bridge** - both, joined, and `Promise`, the refinement mapping to
  **Transfers**: a transfer that entered is paid at most once, in full, to the
  recipient its sender named; a redeemer may keep a part, never all.
* **BridgeClient** - users and operator of the bridge. A run is a script
  (`test-solana-to-evm` with `redeem-on-evm`, or `test-evm-to-solana`) or a caller of
  the client library (`LibraryUsers`), and the two differ where the code does: the
  library does not check the balance or approve, returns another number after a send
  from Solana, creates a missing token account, and lets its user choose the emitter
  to poll under and try again. The operator runs `initialize-solana` and
  `setup-bridges`, which may stop halfway, and uses the library's registrations.
* **BridgeClaims** - what `setup-bridges` and the README promise and the code does
  not do. Two more such claims are at the end of **BridgeClient**.

## Properties and what they guard

| Property | Says | Would break if |
|---|---|---|
| `NetworkInv` | one number, one message, with an honest length | a length above 16 bits were let through |
| `StoredPayloadsWereSent` | what a program serves to readers is what a caller of the other passed to send, under that number | a codec shifted, cut or mixed a payload |
| `MessageAccountsFollowTracker` | message accounts and tracker stay in step; the next seed is free | a send could leave an account behind |
| `DeliveriesMatchCloses` | one reception, plus one per account closed | `Received` were `init_if_needed` |
| `EvmImplementsChannel`, `SolanaImplementsChannel` | the promise of `Channel` | emitter checked by chain only; hash not marked |
| `SolanaMessagesReachEvm`, `EvmMessagesReachSolana` | what can be delivered is, in any order | replay protection by a nonce; an off-by-one at 1024 bytes |
| `TrustIsMutual` | the program listens to no contract that does not listen to it | a setup did not wait for its first registration |
| `DoneSetupsHold` | what a setup that ended well relies on lasts: owner, both registrations | the config were `init_if_needed`, so that a second initialize took it over |
| `SetupConnects` | a setup repeated after a stop ends well | a registration could not be made twice |
| `FetchedIsOwn`, `DoneMeansDelivered` | racing runs never take each other's VAA; ending well means delivered | the number were read after the send |
| `RunsEnd`, of either client | no await hangs, but for a receipt on EVM and, in the bridge, a wait without a deadline | a loop's deadline were lost |
| `KnownMessagesGetThrough` | an interrupted run can be finished by hand | posting a posted VAA were an error |
| `Accounted`, `ContractHoldsOnlyWhatIsStuck` | no token is made or lost; the contract keeps its dust, what is addressed to itself, and nothing else | an amount were (de)normalised differently in two places |
| `RedemptionSucceeds` | no transfer is stuck over its amount | the program's sum differed from the Token Bridge's |
| `BridgeImplementsTransfers` | the promise of `Transfers` | the recipient went unchecked; the fee could be the whole |
| `TrackerBeforeNamesTransfer` | the tracker read before a send is its number | the message account's seed went unchecked |
| `OwnTransferRedeemed` | what a user redeems under the number told is the user's own transfer, paid in full | the number were read after the send; a failed redemption passed for one |
| `TransfersGetThrough` | a transfer whose number is known is paid in the end | a missing token account were not created |

Every module that composes a system has one type invariant (`TypeOK`,
`ClientsTypeOK`, `BridgeTypeOK`, `BridgeClientTypeOK`). `BridgeTypeOK` also says that a
fee in force is below its precision, and the clients' that what a run holds is
signed. A definition headed `Mutant:` is not part of the model: it is a plausible
bug in the definition that follows it, and `mutants` in `PROJECT.json` says which
property catches it.

## Runs

States are distinct states on the instances given. All bounds are constants:
`MaxSequence` and `MaxTransfers` (messages per emitter), `MaxTraffic` (messages users
send in all, in `operator`), `MaxCloses`, `MaxRuns`, `MaxU64`.

| Run | States | What happens on it |
|---|---|---|
| `both_ways` | 394,818 | Payloads of 0, 1, 1024, 1025, 65534, 65535 and 65537 bytes, so each limit has a value on either side and one beyond the 16 bits; two users, so that an owner check can fail; two fees; three Solana messages (the first is the Alive message, so two sends can race), one EVM message, one close. |
| `to_solana` | 47,178 | Two EVM deployments with one chain id, the old one with two messages and the new with one, so numbers collide; payloads of 1 and 1024 bytes; no closes. |
| `operator` | 55,376 | Two deployments set up side by side, each with at most one registration that lands late, two wallets that can initialize (the other one's success makes every setup fail), two messages of users in all: both from Solana, so that one can be overtaken, or one from EVM that is received and closed. |
| `client_race` | 876,284 | Two Solana runs against one tracker, one EVM run, fees 0 and 1 so that a fee read can be too low. |
| `client_through` | 22,512 | One run each way; deadlines, interruptions, redemption by hand. |
| `two_tokens` | 191,216 | A token of 9 decimals native to each chain, one transfer each way, through the contract and the program or past them. 35 loses 5 to truncation, 2 truncates to nothing where the token is native and is what can return where it is wrapped. 20 raw units times a fee of 9 exceed `MaxU64` = 150, so a relayer's redemption aborts and the recipient's own must not. Fees 0/1 and 9/10, and 1/1, which must be refused. A message fee that moves, a token account that is missing, VAAs posted late, both registrations for Solana, and a recipient on EVM that is a user, the contract itself, or cuts to the zero address. |
| `bridge_through` | 90,472 | One run of four kinds (script or library, from either chain) beside the operator, other redeemers and others' transfers, so that the tracker and the fee a run read can be stale; two transfers from Solana, one from EVM. |
| `received_once`, `redeployed`, `setup`, `tracker_after`, `wait` | | Each refutes one claim (see Findings). |

Why the bounds are enough: the interesting interactions are between two messages
of one emitter, or of two emitters with one number, and between a message and one
change of registration or fee, and each of them is there in some instance. What
one transfer each way leaves open (two transfers of one chain under way) the
proofs close: they hold for any number. 9 decimals (an adjustment of 10) behave as
18 do and keep the amounts small. `MaxRuns` = 1 in the bridge's client runs is no
loss against a race, since `OtherUsers` move tracker, fee and registrations at any
point of a run. Every run checks deadlock: owners can register again at any time, so
a state with nothing left to deliver is not one.

## Fairness

Safety runs assume none. `MessengerLiveness!Fairness` is weak fairness, per
message, of the guardians' signature, of posting a VAA on Solana and of redeeming
on either side. The code contains no relayer; this is the operator who keeps
running the redeem scripts, and without one nothing is ever delivered. Sends,
registrations and closes are never forced. Both delivery properties are
conditional on a registration that settles, which is up to the owner.

`FairOperatorSpec` has the scripts' calls settle and the operator run again whatever
has not ended well. `setup-messengers` awaits `evmTx.wait()`, which has no deadline, so
this assumes that what the operator sends to EVM is mined. Nobody has to initialize. A
setup may still be stopped each time: `SetupConnects` has as hypothesis that it is not
stopped for ever, and that the operator won the race to initialize. A registration that
landed late may put the program back to another deployment, so what lasts after a setup
is `DoneSetupsHold` and not a connection to that very contract. The messages' fairness is
that of `MessengerLiveness`.

`RunsProgress`, of both client modules, is weak fairness of those awaits of a run that
settle whatever the chains do: calls to Solana, which are confirmed, refused or given up
by a deadline, reads, and polling loops that look at the clock. Two kinds of await do
not settle by themselves, and `RunsEnd` says that there are no others:

* The receipt of a transaction on EVM. Of the messenger's client only the redemption
  (`evm-client.ts:122`) awaits `tx.wait()` without a deadline; its send passes one to
  `waitForTransaction`. So a run of the messenger ends, or hangs in a redemption on EVM
  unless `EvmMines`. The bridge's approval, send and redemption all await `tx.wait()`:
  `EvmMines(c)` is weak fairness of what run `c` has sent to EVM, which `RunsEnd` and, for
  redemptions on EVM, `TransfersGetThrough` have as a hypothesis.
* A VAA nobody signs, or that does not exist under the emitter polled, where the wait has
  no deadline: `waitForVAA` of the bridge library and of `test-evm-to-solana` checks its
  clock between calls of the SDK's `getSignedVAAWithRetry`, which without
  `retryAttempts` asks for ever within one call. `Unanswered(c)` is that state, and a
  run ends or stays in it. `redeem-on-evm` and the messenger's clients fetch once a turn
  and do time out. A wait that is interrupted ends too, but nothing forces that.

`UserPersists` is the hypothesis of `KnownMessagesGetThrough` and of
`TransfersGetThrough`, not part of the specification: guardians sign, and a user who
knows the number tries again. For the messenger it is strong fairness of the
redemption by hand and of its steps (one attempt in the end is not interrupted).
For the bridge, whose runs have more steps, it says that the user starts again, by and by
under the Token Bridge's address, breaks off a wait that finds nothing, and that other
interruptions and impatient timeouts stop: from some moment on an attempt ends only for
a cause (`EndsForCause`). `OthersServe` adds that guardians sign and that somebody posts
the VAA on Solana, which no code of the bridge client does. A
message whose number nobody learned (confirmation timed out) is outside both
properties: the scripts have no way to find it. So is a transfer to Solana sent by
the script, which offers no second attempt, or made under the registration of
`setup-bridges`.

## Findings

* `received_once` - `close_received` removes the only record of a reception, and
  the same VAA can be received again; a test is named "should fail to receive same
  message twice". `WithoutClosesReceivedOnce` proves that nothing else leads
  to it.
* `redeployed` - the `Received` account is keyed by chain and sequence, not by
  emitter. After a redeployment, messages of the registered emitter cannot be
  received where the old deployment's messages hold the account.
  `OneDeploymentReceivable` proves that it takes a second deployment.
* `setup` - `setup-bridges` registers the Token Bridge's emitter for Solana on the
  EVM contract, whose registry is also where it takes the *target* of a transfer
  from; the program refuses transfers that do not name it. The two uses conflict:
  with the program registered, EVM to Solana works and `verifyEmitter` refuses
  Solana to EVM. The runs let the owner register either value at any time.
  `SetupStrandsTransfers` proves that under the script's registration no transfer of the
  contract to Solana is ever completed, `RegisteredProgramRedeems` that with the program
  registered each one posted, to a user with a token account, passes its checks while the
  contract is registered there.
* `tracker_after` - `sendNativeTokens` of the bridge library returns the tracker
  read after the send as the transfer's sequence number. `LibraryNamesAnother` proves
  that this is never the transfer's number, `ScriptsNameTransfers` that the scripts, which
  read it before, are right.
* `wait` - `test-evm-to-solana` of the bridge waits for the VAA under the bridge
  contract's address, although the Token Bridge emits it: the wait finds nothing, and does
  not time out either, as the SDK's call it awaits retries for ever
  (`ScriptFromEvmNeverRedeems`). A wait under the Token Bridge's address finds the
  transfer (`LibraryFindsTransfer`).

Met while reading, and not stated as a run: the empty Solana payload is accepted,
where a placeholder test is named "should fail with empty payload"
(`solana/tests/cross-chain-messenger.ts:217`); an EVM transfer that truncates to
zero is sent; `01_cross_chain_bridge.ts:89` expects finality 0 where `initialize`
stores `Finalized`; `getRegisteredForeignContract` of the bridge library
(`client/src/cross-chain-bridge/solana-client.ts:277`) slices the account's bytes at
offsets that are not those of its layout, and nothing calls it; the EVM contract's
relayer fee is stored and never read; `update_relayer_fee` compares the owner
account with the config's by `has_one` and does not require its signature, which
`SolanaBridge` models as it is written.

## Proofs

All of them hold for any contracts, users, tokens, payloads, amounts,
registrations and bounds, from the assumptions named in the modules that declare
the constants.

**Messenger** (`EmittersAssumption`, `ChainAssumption`, `FeesAssumption`,
`PayloadsAssumption`, `CandidatesAssumption`, `UsersAssumption`,
`MaxSequenceAssumption`, `MaxClosesAssumption`). `MessengerProofs`:

* `SafetyInvariant`: `IInv == TypeOK /\ NetworkInv /\ EvmInboxInv` is inductive.
  `TypeOK` alone is not enough for anything of interest: that a payload decodes to
  what was sent needs `NetworkInv` (the length field is honest and a number is
  used once), and that a contract takes nothing twice needs `EvmInboxInv` (its
  inbox is the trace of its consumed hashes). `TypeCorrect` and `NetworkIntegrity`
  follow.
* `EvmRefinement`: `Spec => EvmImplementsChannel`. A `receiveMessage` is a
  `Deliver`: were the message taken before, a consumed hash would carry it, hence
  (numbers are unique) be the same VAA, which `isMessageConsumed` refuses.
  `EvmAtMostOnce` says what a contract's inbox holds: no emitter and number twice.
* `SolanaInboxRemembered`: a number received and never closed still has its
  account. `SolanaRefinement`: with `MaxCloses = 0` the program implements the
  same channel. The hypothesis is needed: `received_once` is the counterexample.
* `TrackerCorrect`: `MessageAccountsFollowTracker`, strengthened by "nothing is
  published before `initialize`" (`TrackerInv`).

`MessengerStoreProofs`:

* `StoredIntegrity`, `[]StoredPayloadsWereSent`. It needs `IInv` (a consumed or
  posted VAA carries a message that was sent) and `SidesInv`: neither side ever has
  an emitter registered for its own chain, so what a side accepts was sent by the
  *other* side.
* `DeliveriesCounted`, `[]DeliveriesMatchCloses`. The formula is inductive given
  `IInv`; the work is in counting: a reception adds one index to the finite set of
  receptions of its seed (`ReceptionsFinite`) and leaves those of every other.
* `WithoutClosesReceivedOnce` and `OneDeploymentReceivable` delimit two findings: with
  `MaxCloses = 0`, respectively a single EVM contract, the claims of `MessengerClaims`
  hold. The invariant is `ReceivedInv`: what the program received was sent by a
  contract, and what an account records is one of the receptions.
* `ReadableExactly`: what either side publishes decodes on EVM; Solana deserializes
  exactly the payloads up to 1024 bytes and never receives a longer one, so a longer
  message, which the contract accepts, is lost for good.

`MessengerOperatorProofs` and `MessengerClientProofs` first prove that every step
of the scripts is a step of `Messenger` or a stutter (`OperatorImplementsMessenger`,
`ClientsImplementMessenger`), so that all of the above holds of them too, whatever
the scripts do. Then:

* `MutualTrust` and `DoneSetupsLast`, from `SetupInv`: where a setup is past its first
  registration, or one of a stopped script may still land, the first registration is in
  place; where the second was submitted the operator is the owner, for good; where it
  was seen to land the program listens to one of the contracts, and to nothing else
  after. `OperatorDeliveries`: receptions are counted by
  closes also when the operator's look at an account is stale by the time it is closed.
* `ClientsTypes`, `FetchedOwn`, `DoneDelivered`, from `CInv`. For each run it relates
  the tracker value read, the transaction, the number told and the VAA held: a
  number told is the number of a message with the run's payload that was sent
  (`Told`), what is held is signed under that number (`Holds`), hence, a number being
  used once, is the run's own (`OwnMessage`). `SentInv` says that what was sent stays
  published. `ClientsKeepMessages`: what is stored was sent, and receptions are counted
  by closes, with the clients on top.

**Bridge** (`TokensAssumption`, `AddressesAssumption`, `LowBytesAssumption`,
`FeesAssumption`, `MaxU64Assumption`, `BridgeAssumption`, `SupplyAssumption`).
`SupplyAssumption` says that the users are finitely many and that the supply of a token
native to Solana fits 64 bits, which is how an SPL mint counts it; tokens native to EVM
may have any supply. `TokenAmountsProofs` proves
what the amounts rest on: truncation loses less than one unit of the wire and
nothing the wire would carry (`TruncationBounds`, `TruncationKeepsWireAmount`), and a
fee below the precision leaves the recipient a part of any positive amount
(`RelayerLeavesPart`). `BridgeProofs`:

* `BInv == BridgeTypeOK /\ TransfersInv /\ PayoutsInv` is inductive; `BridgeTypes`
  follows. `TransfersInv`: a number is used once per chain, under the Token Bridge's
  emitter, with an amount within 64 bits; `PayoutsInv`: a payout is of a completed
  transfer. `LowBytesAssumption` leaves a recipient's low bytes free: they may be a
  user's, the contract's own, or nobody's.
* `ContractKeepsItsOwn`: `[]ContractHoldsOnlyWhatIsStuck`, from `KeptInv`, which adds
  that the payouts are finitely many. A payment to a user passes on all the contract
  received; one to the contract adds to what it keeps exactly its own amount.
* `BridgeRefinement`: `Spec => BridgeImplementsTransfers`. Every step sends, pays or
  does neither (`NextKinds`). That a payment was not made before is where
  `PayoutsInv` and the Token Bridge's claims meet; that the redeemer's part is not
  the whole is `RelayerLeavesPart`.
* `CompletedIsPaid`: completed transfers and payments are one for one, and the parts of a
  payment make the whole. The promise of `Transfers` forbids paying twice;
  this adds that no transfer is used up without being paid.
* `AccountsBalance`: `[]Accounted`. Its invariant `AccountsInv` adds that the transfers
  are finitely many. Each kind of step of `NextKinds` is an entry in the books:
  `Sending` moves an amount from a holding to the way and the rest to the contract, `Paying`
  moves it from the way to the recipient and the redeemer, `Arranging` moves nothing.
  That a sum changes by what one entry of it changes is `SumProofs`: the library's
  `SumFunctionOnSet` is a fold with an order of its own choice, and the lemmas show that
  the order does not matter. The induction is over a *set* of the subsets for which a
  statement holds (`SubsetInduction`), since no prover here instantiates an operator.
* `RedeemableInFull`: `[]RedemptionSucceeds`. That the payout of a transfer to Solana fits
  64 bits (`AmountsFit`) is where `AccountsBalance` and `SupplyAssumption` meet: what is
  in flight is part of the supply.
* `RegisteredProgramRedeems` and `SetupStrandsTransfers` delimit the finding `setup`, from
  `AddressedInv`: a transfer of the contract is addressed to what was registered when it
  was sent, and is completed only by whom it is addressed to.

`BridgeClientProofs` (also `ClientAssumption`, `ScriptsAssumption`: what the scripts
pass is among what callers of `Bridge` pass):

* `ClientsImplementBridge`: scripts, library, operator and others behave as `Bridge`
  allows, so every safety property of `Bridge` holds of them.
* `BridgeClientTypes`, `TrackerBeforeNames`, `OwnRedeemed`, from its `CInv`: a landed
  send used the tracker value its run had read (`SentOwn`), a number told to an
  informed user names the run's own transfer (`Told`), so does what is held
  (`Holds`), and a run that is done has its payout recorded (`OwnPayout`). "Informed"
  excludes exactly the runs of the finding `tracker_after`.
* `ClientsKeepTokens`: accounts, redemption and the promise of `Transfers` hold with all
  of these users on top.
* `ScriptsNameTransfers`, `LibraryFindsTransfer`, `LibraryNamesAnother` and
  `ScriptFromEvmNeverRedeems` delimit the findings `tracker_after` and `wait`. The last
  two rest on `FaultInv`, about the runs that `CInv` leaves out: a library send from
  Solana is told a number past its transfer's, which stays so as numbers only grow; the
  script from EVM polls under an address that publishes nothing.

In every proof module preservation has a lemma per action or kind of action, and
what several actions share is a lemma of its own (`PublishKeepsNetwork`,
`QuietKeepsNetwork`, `WireFacts`; `CompleteKeeps`, `Units`; `LandedKeepsRun`).

**Only model-checked.** Liveness (`SolanaMessagesReachEvm`, `EvmMessagesReachSolana`,
`SetupConnects`, `RunsEnd`, `KnownMessagesGetThrough`, `TransfersGetThrough`): the
prover treats neither fairness nor ENABLED here. Every safety property that a passing
run checks is also a theorem.

## Not modelled

* Ether and lamports: what a caller pays beyond the fee stays in the EVM contract,
  whose code never reads its balance; rent.
* ERC-20 tokens that take a fee on transfer or return no boolean.
* Signature verification, guardian sets, consistency levels: the guardians sign
  what was published, eventually or never. Parts of the `wormhole-anchor-sdk` that
  neither program uses (attestations, batch VAAs, plain transfers).
* Read-only getters and scripts, printing, the listing of `close-received --all`,
  and the byte offsets of `getRegisteredForeignContract`: the modules keep accounts
  as records.
* Derivation of addresses and serialisation in `solana/ts/sdk`, but for the message
  account, whose seed is the point of several properties.
* The redeeming transaction of a client is one step, which fails or succeeds in it,
  or on EVM is never taken. Sends, and the operator's registration on Solana, have a life
  of their own between submission and landing; its registration on EVM is one step,
  since a repetition of it changes nothing.
* `sendWrappedTokens` of the library is a branch of `SolanaSendLands`, which the runs'
  tokens (each user sends the token native to the own chain) do not take; the script has
  no such branch. The program's wrapped send is exercised by `two_tokens`, and the
  proofs cover both.
* Deployment, configuration, display, tests (`not_modelled` in `PROJECT.json`): a
  constructor is `Init`; the others change no state of the system.
