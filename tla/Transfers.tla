------------------------------ MODULE Transfers ------------------------------
(***************************************************************************)
(* What the bridge promises: a transfer that entered is paid at most once, *)
(* in full, to the recipient its sender named, whoever redeems it; the     *)
(* redeemer may keep a part for the service, never all of it.              *)
(***************************************************************************)
EXTENDS Naturals

VARIABLES
  entered,  \* transfers: [chain, sequence, recipient, worth]
  payouts   \* payments: [transfer, recipient, toRecipient, toRedeemer]

vars == <<entered, payouts>>

SameTransfer(m1, m2) == m1.chain = m2.chain /\ m1.sequence = m2.sequence

Init == entered = {} /\ payouts = {}

Enter ==
  /\ \E m \in entered' :
       /\ entered' = entered \cup {m}
       /\ \A m2 \in entered : ~SameTransfer(m, m2)
  /\ UNCHANGED payouts

Pay(m) ==
  /\ \A p \in payouts : ~SameTransfer(p.transfer, m)
  /\ \E p \in payouts' :
       /\ payouts' = payouts \cup {p}
       /\ p.transfer = m
       /\ p.recipient = m.recipient
       /\ p.toRecipient + p.toRedeemer = m.worth
       /\ m.worth > 0 => p.toRecipient > 0
  /\ UNCHANGED entered

Next == Enter \/ \E m \in entered : Pay(m)

Spec == Init /\ [][Next]_vars
=============================================================================
