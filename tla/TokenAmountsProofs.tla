-------------------------- MODULE TokenAmountsProofs --------------------------
(***************************************************************************)
(* What the bridge's amounts rest on, for every amount, fee and number of  *)
(* decimals.                                                               *)
(***************************************************************************)
EXTENDS TokenAmounts, Integers, TLAPS

(* Division as both chains do it: rounded down. *)
LEMMA Division ==
  ASSUME NEW a \in Nat, NEW d \in Nat \ {0}
  PROVE  /\ a \div d \in Nat
         /\ d * (a \div d) <= a
         /\ a < d * (a \div d) + d
PROOF
<1>1. a \div d \in Int /\ a % d \in 0..(d - 1)
  BY SMT
<1>2. a = d * (a \div d) + (a % d)
  BY SMT
<1>3. a \div d >= 0
  BY SMT
<1> QED BY <1>1, <1>2, <1>3, SMT

(* A quotient is determined by the interval its multiple lies in. *)
LEMMA QuotientUnique ==
  ASSUME NEW d \in Nat \ {0}, NEW q \in Nat, NEW p \in Nat,
         d * p < d * q + d, d * q < d * p + d
  PROVE  p = q
PROOF
<1>1. ASSUME NEW x \in Nat, NEW y \in Nat, x < y
      PROVE  d * x + d <= d * y
  <2>1. d * (y - x) >= d
    BY <1>1, SMT
  <2>2. d * y = d * x + d * (y - x)
    BY <1>1, SMT
  <2> QED BY <2>1, <2>2, SMT
<1>2. ~(p < q) /\ ~(q < p)
  BY <1>1, SMT
<1> QED BY <1>2, SMT

(* truncate_amount never moves more than it was given and leaves less than *)
(* one unit of the transfer's amount behind: the dust of one send.         *)
THEOREM TruncationBounds ==
  ASSUME NEW amount \in Nat, NEW decimals,
         amount_adjustment(decimals) \in Nat \ {0}
  PROVE  /\ truncate_amount(amount, decimals) \in Nat
         /\ truncate_amount(amount, decimals) <= amount
         /\ amount - truncate_amount(amount, decimals) < amount_adjustment(decimals)
PROOF
<1> DEFINE d == amount_adjustment(decimals)
           q == amount \div d
<1>1. /\ q \in Nat
      /\ d * q <= amount
      /\ amount < d * q + d
  BY Division
<1>2. truncate_amount(amount, decimals) = q * d
  BY DEF truncate_amount, denormalize_amount, normalize_amount
<1>3. q * d = d * q /\ d * q \in Nat
  BY <1>1, SMT
<1> HIDE DEF d, q
<1>4. d \in Nat
  BY DEF d
<1>5. q * d \in Nat /\ q * d <= amount /\ amount - q * d < d
  BY <1>1, <1>3, <1>4, SMT
<1> QED BY <1>2, <1>5 DEF d

(* What is moved is worth on the other side exactly what it was worth      *)
(* here: truncating does not change the amount on the wire, so no raw unit *)
(* beyond the dust is lost between two chains.                             *)
THEOREM TruncationKeepsWireAmount ==
  ASSUME NEW amount \in Nat, NEW decimals,
         amount_adjustment(decimals) \in Nat \ {0}
  PROVE  /\ normalize_amount(truncate_amount(amount, decimals), decimals)
              = normalize_amount(amount, decimals)
         /\ truncate_amount(truncate_amount(amount, decimals), decimals)
              = truncate_amount(amount, decimals)
PROOF
<1> DEFINE d == amount_adjustment(decimals)
           q == amount \div d
           p == (q * d) \div d
<1>1. q \in Nat
  BY Division
<1>2. q * d \in Nat /\ q * d = d * q
  BY <1>1, SMT
<1>3. /\ p \in Nat
      /\ d * p <= q * d
      /\ q * d < d * p + d
  BY <1>2, Division
<1>4. p = q
  <2> HIDE DEF p, q, d
  <2>0. d \in Nat \ {0}
    BY DEF d
  <2>1. d * p < d * q + d /\ d * q < d * p + d
    <3>1. d * p \in Nat /\ d * q \in Nat
      BY <1>1, <1>3, <2>0, SMT
    <3> QED BY <1>2, <1>3, <2>0, <3>1, SMT
  <2> QED BY <1>1, <1>3, <2>0, <2>1, QuotientUnique
<1> QED BY <1>4 DEF truncate_amount, denormalize_amount, normalize_amount

(* A relayer fee below its precision, which is what both programs require  *)
(* whenever they store one, takes part of a transfer and never all of it.  *)
THEOREM RelayerLeavesPart ==
  ASSUME NEW amount \in Nat, NEW fee \in Nat, NEW precision \in Nat, fee < precision
  PROVE  /\ compute_relayer_amount(amount, fee, precision) \in Nat
         /\ compute_relayer_amount(amount, fee, precision) <= amount
         /\ amount > 0 => compute_relayer_amount(amount, fee, precision) < amount
PROOF
<1> DEFINE k == (amount * fee) \div precision
<1>1. amount * fee \in Nat /\ precision \in Nat \ {0}
  BY SMT
<1>2. k \in Nat /\ precision * k <= amount * fee
  BY <1>1, Division
<1> HIDE DEF k
<1>3. CASE amount = 0
  <2>1. precision * k <= 0
    BY <1>2, <1>3, SMT
  <2>2. k = 0
    <3>1. ASSUME k > 0 PROVE precision * k > 0
      BY <1>1, <1>2, <3>1, SMT
    <3> QED BY <1>2, <2>1, <3>1, SMT
  <2> QED BY <1>3, <2>2 DEF compute_relayer_amount, k
<1>4. CASE amount > 0
  <2>1. amount * fee < precision * amount
    BY <1>4, SMT
  <2>2. precision * k < precision * amount
    <3>1. precision * k \in Nat /\ precision * amount \in Nat
      BY <1>1, <1>2, SMT
    <3> QED BY <1>1, <1>2, <2>1, <3>1, SMT
  <2>3. k < amount
    <3>1. ASSUME k >= amount PROVE precision * k >= precision * amount
      BY <1>1, <1>2, <3>1, SMT
    <3>2. precision * k \in Nat /\ precision * amount \in Nat
      BY <1>1, <1>2, SMT
    <3> QED BY <1>2, <2>2, <3>1, <3>2, SMT
  <2> QED BY <1>2, <2>3, SMT DEF compute_relayer_amount, k
<1> QED BY <1>3, <1>4, SMT
=============================================================================
