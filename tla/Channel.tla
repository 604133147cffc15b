------------------------------- MODULE Channel -------------------------------
(***************************************************************************)
(* What the messenger promises, whatever happens in between: a receiver    *)
(* takes a message only as its sender sent it, only from a sender it       *)
(* trusts at that moment, and never twice.  Messages may be lost, delayed  *)
(* or overtake each other.                                                 *)
(***************************************************************************)
EXTENDS Sequences

CONSTANT Receivers

VARIABLES
  sent,     \* messages handed to the channel: records with emitter and sequence
  trusted,  \* receiver -> the senders it currently accepts
  inbox     \* receiver -> the messages it took, in order

vars == <<sent, trusted, inbox>>

Taken(r) == {inbox[r][i] : i \in DOMAIN inbox[r]}

SameSlot(m1, m2) == m1.emitter = m2.emitter /\ m1.sequence = m2.sequence

Init ==
  /\ sent = {}
  /\ trusted = [r \in Receivers |-> {}]
  /\ inbox = [r \in Receivers |-> <<>>]

(* One message enters, under a number its sender has not used. *)
Send ==
  /\ \E m \in sent' :
       /\ sent' = sent \cup {m}
       /\ \A m2 \in sent : ~SameSlot(m, m2)
  /\ UNCHANGED <<trusted, inbox>>

(* A receiver revises whom it trusts. *)
Trust(r) ==
  /\ trusted' = [trusted EXCEPT ![r] = trusted'[r]]
  /\ UNCHANGED <<sent, inbox>>

Deliver(r, m) ==
  /\ m.emitter \in trusted[r]
  /\ m \notin Taken(r)
  /\ inbox' = [inbox EXCEPT ![r] = Append(@, m)]
  /\ UNCHANGED <<sent, trusted>>

Next ==
  \/ Send
  \/ \E r \in Receivers : Trust(r)
  \/ \E r \in Receivers : \E m \in sent : Deliver(r, m)

Spec == Init /\ [][Next]_vars
=============================================================================
