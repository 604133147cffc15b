---------------------------- MODULE TokenAmounts ----------------------------
(***************************************************************************)
(* Token amounts as the bridge computes them.  What crosses the Token      *)
(* Bridge has at most 8 decimals; Solana's arithmetic is that of u64 with  *)
(* overflow checks, so a result beyond MaxU64 aborts the transaction.      *)
(***************************************************************************)
EXTENDS Naturals

CONSTANT MaxU64  \* largest u64, scaled down for model checking

ASSUME MaxU64Assumption == MaxU64 \in Nat

MAX_WRAPPED_ASSET_DECIMALS == 8

FitsU64(n) == n <= MaxU64

amount_adjustment(decimals) ==
  IF decimals > MAX_WRAPPED_ASSET_DECIMALS
  THEN 10 ^ (decimals - MAX_WRAPPED_ASSET_DECIMALS)
  ELSE 1

normalize_amount(amount, decimals) == amount \div amount_adjustment(decimals)

(* Mutant: the shift forgotten. *)
denormalize_nothing(amount, decimals) == amount

denormalize_amount(amount, decimals) == amount * amount_adjustment(decimals)

(* Mutant: the whole amount handed on. *)
truncate_nothing(amount, decimals) == amount

truncate_amount(amount, decimals) ==
  denormalize_amount(normalize_amount(amount, decimals), decimals)

(* compute_relayer_amount multiplies before it divides, in u64.            *)
RelayerProductFits(amount, relayer_fee) == FitsU64(amount * relayer_fee)
compute_relayer_amount(amount, relayer_fee, precision) ==
  (amount * relayer_fee) \div precision
=============================================================================
