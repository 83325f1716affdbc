---------------------------- MODULE TokenAmounts ----------------------------
(***************************************************************************)
(* The amounts of both cores: unsigned integers of one fixed width.        *)
(***************************************************************************)
EXTENDS Naturals

CONSTANT MaxAmount      \* stands for u128::MAX

ASSUME MaxAmountAssumption == MaxAmount \in Nat

Amounts == 0 .. MaxAmount
=============================================================================
