------------------------- MODULE MessengerLiveness -------------------------
(***************************************************************************)
(* Delivery of what was sent.  Neither program delivers anything by itself *)
(* and no relayer is part of the system: somebody has to run the redeem    *)
(* scripts.  The fairness below is that of guardians who sign what they    *)
(* observe and of an operator who keeps presenting every VAA to both       *)
(* sides.  Senders, registrations and closes are never forced.             *)
(***************************************************************************)
EXTENDS Messenger

(* The steps that concern the message of one emitter under one number.     *)
Numbered(a, n, m) == m.emitterAddress = a /\ m.sequence = n

GuardiansSign(a, n) ==
  /\ \E m \in published : Numbered(a, n, m) /\ Sign(m)
  /\ UNCHANGED <<evmVars, solanaVars>>

RedeemOnEvm(c, a, n) ==
  /\ \E vm \in vaas : Numbered(a, n, vm) /\ receiveMessage(c, vm)
  /\ UNCHANGED solanaVars

PostOnSolana(a, n) ==
  /\ \E v \in vaas : Numbered(a, n, v) /\ post_vaa(v)
  /\ UNCHANGED evmVars

RedeemOnSolana(a, n) ==
  /\ \E v \in postedVaas : Numbered(a, n, v) /\ receive_message(v)
  /\ UNCHANGED evmVars

Fairness ==
  \A a \in Emitters : \A n \in 0 .. MaxSequence[a] - 1 :
    /\ WF_vars(GuardiansSign(a, n))
    /\ WF_vars(PostOnSolana(a, n))
    /\ WF_vars(RedeemOnSolana(a, n))
    /\ \A c \in EvmContracts : WF_vars(RedeemOnEvm(c, a, n))

FairSpec == Spec /\ Fairness

-----------------------------------------------------------------------------
Took(inbox, a, n) ==
  \E i \in DOMAIN inbox : inbox[i].emitter = a /\ inbox[i].sequence = n

SentBy(a, n) == \E m \in sent : m.emitter = a /\ m.sequence = n

(* A contract whose registration of the Solana program settles receives    *)
(* every message the program ever sent, the ones sent before it registered *)
(* and the ones other messages overtook included: receiveMessage keys what *)
(* it consumed by hash, so no message ever shuts another one out.          *)
SolanaMessagesReachEvm ==
  \A c \in EvmContracts :
    <>[](registeredEmitters[c][CHAIN_ID_SOLANA] = SolanaEmitter) =>
      \A n \in 0 .. MaxSequence[SolanaEmitter] - 1 :
        SentBy(SolanaEmitter, n) ~> Took(evmInbox[c], SolanaEmitter, n)

(* The Solana program receives every message of a contract that its owner  *)
(* registers for good and that was the first of its chain, provided the    *)
(* payload fits: the Received account is keyed by chain and sequence, so   *)
(* nothing of the same contract shuts it out.                              *)
EvmMessagesReachSolana ==
  \A c \in EvmContracts :
    /\ [](foreignEmitter[EvmChain] \in {NoEmitter, c})
    /\ <>[](foreignEmitter[EvmChain] = c)
    => \A n \in 0 .. MaxSequence[c] - 1 :
         (\E m \in sent : /\ m.emitter = c /\ m.sequence = n
                          /\ m.payload.length <= MESSAGE_MAX_LENGTH)
           ~> Took(solanaInbox, c, n)
=============================================================================
