--------------------------- MODULE MessengerClaims ---------------------------
(***************************************************************************)
(* What the repository's documents, comments and tests say of the          *)
(* messenger and its code does not do.  Each claim is checked alone and    *)
(* TLC shows an execution that breaks it; Messenger states what does hold. *)
(***************************************************************************)
EXTENDS Messenger

Occurrences(m) == {i \in DOMAIN solanaInbox : solanaInbox[i] = m}

(* "should fail to receive same message twice", solana/tests/              *)
(* cross-chain-messenger.ts:270.  The only record of a reception is the    *)
(* Received account, which close_received removes to recover its rent.     *)
ReceivedOnce ==
  \A i \in DOMAIN solanaInbox : Cardinality(Occurrences(solanaInbox[i])) = 1

(* "should receive and verify message from registered emitter", solana/    *)
(* tests/cross-chain-messenger.ts:231: a posted message of the emitter     *)
(* registered now, in a form the program reads and not received before,    *)
(* finds the address of its Received account free.  That address names the *)
(* chain and the number, and not the emitter, so a message of an earlier   *)
(* deployment occupies it.                                                 *)
RegisteredEmitterReceivable ==
  \A v \in postedVaas :
    /\ verify(v)
    /\ Deserializable(v.payload)
    /\ Occurrences(Carried(v)) = {}
    => ReceivedSeed(v) \notin DOMAIN receivedAccounts
=============================================================================
