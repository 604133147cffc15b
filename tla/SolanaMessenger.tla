--------------------------- MODULE SolanaMessenger ---------------------------
(***************************************************************************)
(* The cross-chain-messenger program.  An account at a program-derived     *)
(* address is a point of a partial function from the seeds that vary: it   *)
(* exists when the seeds are in the domain, and `init` demands it is not.  *)
(* A failing constraint or handler aborts the whole transaction, so each   *)
(* instruction is one action whose guards are its accounts' constraints    *)
(* and its handler's checks.                                               *)
(***************************************************************************)
EXTENDS WormholeCore, MessengerWire, Sequences, Functions

CONSTANTS
  NoUser,     \* owner before the config account exists
  MaxCloses   \* bound on close_received per account address

ASSUME UsersAssumption == NoUser \notin Users
ASSUME MaxClosesAssumption == MaxCloses \in Nat

VARIABLES
  owner,            \* config.owner; NoUser while the config does not exist
  foreignEmitter,   \* chain -> registered emitter; NoEmitter: no account
  messageAccounts,  \* seed of a "sent" account -> the message it holds
  postedVaas,       \* VAAs the core bridge holds in accounts on Solana
  receivedAccounts, \* <<emitter chain, sequence>> -> [hash, payload]
  closes,           \* <<emitter chain, sequence>> -> times closed (history)
  solanaSent,       \* messages passed to send_message (history)
  solanaInbox       \* messages received, in order (history)

solanaAccounts == <<owner, foreignEmitter, messageAccounts, receivedAccounts, closes>>
solanaVars == <<solanaAccounts, postedVaas, solanaSent, solanaInbox>>

INITIAL_SEQUENCE == 1
ReceivedSeeds ==
  UNION {{ChainOf(a)} \X (0 .. MaxSequence[a] - 1) : a \in Emitters}

(* SequenceTracker::next_value, from which the message account's address   *)
(* is derived.                                                             *)
next_value == sequence[SolanaEmitter] + 1

SolanaInit ==
  /\ owner = NoUser
  /\ foreignEmitter = [ch \in Chains |-> NoEmitter]
  /\ messageAccounts = [s \in {} |-> s]
  /\ postedVaas = {}
  /\ receivedAccounts = [s \in {} |-> s]
  /\ closes = [s \in ReceivedSeeds |-> 0]
  /\ solanaSent = {}
  /\ solanaInbox = <<>>

(* wormhole::post_message writes the emitter's next message into an        *)
(* account that must not exist yet, at the address of the given seed.      *)
post_message(seed, wire) ==
  /\ seed \notin DOMAIN messageAccounts
  /\ Publish(SolanaEmitter, wire)
  /\ messageAccounts' = [s \in DOMAIN messageAccounts \cup {seed} |->
       IF s = seed THEN Body(SolanaEmitter, sequence[SolanaEmitter], wire)
                   ELSE messageAccounts[s]]

(* Mutant: init_if_needed on the config, its owner written every time.     *)
InitializeAgain(caller) ==
  /\ owner' = caller
  /\ IF owner = NoUser THEN post_message(INITIAL_SEQUENCE, AliveMessage)
                       ELSE UNCHANGED <<messageAccounts, coreVars>>
  /\ UNCHANGED <<foreignEmitter, receivedAccounts, closes, postedVaas,
                 solanaSent, solanaInbox>>

(* initialize: `init` on the config lets it run once; its signer becomes   *)
(* the owner; the Alive message creates the sequence tracker.              *)
initialize(caller) ==
  /\ owner = NoUser
  /\ owner' = caller
  /\ post_message(INITIAL_SEQUENCE, AliveMessage)
  /\ UNCHANGED <<foreignEmitter, receivedAccounts, closes, postedVaas,
                 solanaSent, solanaInbox>>

(* register_emitter: owner only (has_one); init_if_needed, so it creates   *)
(* or overwrites the chain's account.                                      *)
register_emitter(caller, chain, a) ==
  /\ owner # NoUser
  /\ caller = owner
  /\ chain \notin {0, CHAIN_ID_SOLANA}
  /\ a # NoEmitter
  /\ foreignEmitter' = [foreignEmitter EXCEPT ![chain] = a]
  /\ UNCHANGED <<owner, messageAccounts, receivedAccounts, closes, postedVaas,
                 solanaSent, solanaInbox, coreVars>>

(* Mutant: the address of the message account is left to the caller. *)
SendMessageAccountsAnySeed(seed) == owner # NoUser

(* The accounts of SendMessage: the config exists, and the message account *)
(* the caller passed is the one derived from next_value().                 *)
SendMessageAccounts(seed) ==
  /\ owner # NoUser
  /\ seed = next_value

(* send_message: up to 1024 bytes, none included. *)
send_message(seed, p) ==
  /\ SendMessageAccounts(seed)
  /\ Serializable(p)
  /\ post_message(seed, serialize(p))
  /\ solanaSent' = solanaSent \cup {Message(SolanaEmitter, sequence[SolanaEmitter], p)}
  /\ UNCHANGED <<owner, foreignEmitter, receivedAccounts, closes, postedVaas, solanaInbox>>

(* The core bridge verifies a VAA and keeps it in an account (external). *)
post_vaa(vaa) ==
  /\ vaa \in vaas \ postedVaas
  /\ postedVaas' = postedVaas \cup {vaa}
  /\ UNCHANGED <<solanaAccounts, solanaSent, solanaInbox, coreVars>>

ReceivedSeed(vaa) == <<vaa.emitterChain, vaa.sequence>>

(* Mutant: an emitter is registered for the chain, whichever it is. *)
verifyChain(vaa) == foreignEmitter[vaa.emitterChain] # NoEmitter

(* ForeignEmitter::verify, on the account of the VAA's chain. *)
verify(vaa) == foreignEmitter[vaa.emitterChain] = vaa.emitterAddress

(* Mutant: init_if_needed on the Received account. *)
ReceiveMessageAccountsReinit(vaa) ==
  /\ owner # NoUser
  /\ vaa \in postedVaas
  /\ verify(vaa)

(* The accounts of ReceiveMessage: a posted VAA whose payload              *)
(* deserializes, its chain's registered emitter, and an address for the    *)
(* Received account, derived from chain and sequence, that is still free.  *)
ReceiveMessageAccounts(vaa) ==
  /\ owner # NoUser
  /\ vaa \in postedVaas
  /\ verify(vaa)
  /\ ReceivedSeed(vaa) \notin DOMAIN receivedAccounts

(* receive_message: keeps the hash and the payload in the Received account.*)
receive_message(vaa) ==
  /\ ReceiveMessageAccounts(vaa)
  /\ Deserializable(vaa.payload)
  /\ receivedAccounts' = [s \in DOMAIN receivedAccounts \cup {ReceivedSeed(vaa)} |->
       IF s = ReceivedSeed(vaa)
       THEN [hash |-> vaa, payload |-> deserialize(vaa.payload)]
       ELSE receivedAccounts[s]]
  /\ solanaInbox' = Append(solanaInbox,
       Message(vaa.emitterAddress, vaa.sequence, deserialize(vaa.payload)))
  /\ UNCHANGED <<owner, foreignEmitter, messageAccounts, closes, postedVaas,
                 solanaSent, coreVars>>

(* close_received: owner only; frees the address of the account. *)
close_received(caller, seed) ==
  /\ owner # NoUser
  /\ caller = owner
  /\ seed \in DOMAIN receivedAccounts
  /\ closes[seed] < MaxCloses
  /\ receivedAccounts' = Restrict(receivedAccounts, DOMAIN receivedAccounts \ {seed})
  /\ closes' = [closes EXCEPT ![seed] = @ + 1]
  /\ UNCHANGED <<owner, foreignEmitter, messageAccounts, postedVaas,
                 solanaSent, solanaInbox, coreVars>>
=============================================================================
