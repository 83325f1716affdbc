--------------------------- MODULE FungibleLedger ---------------------------
(***************************************************************************)
(* What the fungible-token core promises: a State { total_supply,          *)
(* balances } changed only by transfers between distinct accounts, mints   *)
(* and burns, each guarded by the preconditions of the core's preservation *)
(* lemmas, keeps its balances adding up to its supply.                     *)
(*                                                                         *)
(* A ledger account is whatever can hold token units: a contract that      *)
(* keeps tokens in flight maps its messages onto accounts too.             *)
(***************************************************************************)
EXTENDS FungibleCore

CONSTANT Accounts       \* the account identifiers (type parameter A)

ASSUME AccountsAssumption == IsFiniteSet(Accounts)

VARIABLES balances,      \* State::balances, absent entries read as 0
          total_supply   \* State::total_supply

vars == <<balances, total_supply>>

-----------------------------------------------------------------------------
Init ==
    /\ balances \in [Accounts -> Amounts]
    /\ total_supply = sum_balances(balances)
    /\ total_supply <= MaxAmount

Transfer(from, to, amount) ==
    /\ from # to
    /\ transfer_balances_ok(balances[from], balances[to], amount)
    /\ balances' = state_after_transfer(balances, from, to, amount)
    /\ UNCHANGED total_supply

Mint(to, amount) ==
    /\ total_supply + amount <= MaxAmount
    /\ balances' = state_after_mint(balances, to, amount)
    /\ total_supply' = total_supply + amount

Burn(from, amount) ==
    /\ balances[from] >= amount
    /\ balances' = state_after_burn(balances, from, amount)
    /\ total_supply' = total_supply - amount

Next ==
    \/ \E from, to \in Accounts, amount \in Amounts : Transfer(from, to, amount)
    \/ \E to \in Accounts, amount \in Amounts : Mint(to, amount)
    \/ \E from \in Accounts, amount \in Amounts : Burn(from, amount)

Spec == Init /\ [][Next]_vars

-----------------------------------------------------------------------------
(* Properties.                                                             *)

\* The balances and the supply stay values a u128 can hold.
TypeOK ==
    /\ balances \in [Accounts -> Amounts]
    /\ total_supply \in Amounts

\* State::invariant: the balances add up to the declared supply after any
\* sequence of transfers, mints and burns.
Conservation == sum_balances(balances) = total_supply

\* Two holders together never own more than the supply, so a transfer the
\* sender can pay for is never refused by transfer_balances for overflow.
TransferNeverOverflows ==
    \A from, to \in Accounts, amount \in Amounts :
        from # to /\ balances[from] >= amount
            => transfer_balances_ok(balances[from], balances[to], amount)
=============================================================================
