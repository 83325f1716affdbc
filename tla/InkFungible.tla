------------------------------ MODULE InkFungible ------------------------------
(***************************************************************************)
(* The ink! fungible contract (fungible_application_examples/ink): the     *)
(* constructor and the messages transfer, mint and burn.  A message that   *)
(* returns an error writes nothing, and mint and burn are open to every    *)
(* caller.                                                                 *)
(*                                                                         *)
(* The contract stores the core's State and nothing else: it shares the    *)
(* variables and the invariants of FungibleLedger, whose specification it  *)
(* implements.  An account that is not in the mapping holds 0.             *)
(***************************************************************************)
EXTENDS FungibleLedger

VARIABLES constructed,   \* the constructor has run
          env_caller     \* history: self.env().caller() of the last call

InkVars == <<balances, total_supply, constructed, env_caller>>

balance_of(account) == balances[account]

-----------------------------------------------------------------------------
InkInit ==
    /\ balances = [a \in Accounts |-> 0]
    /\ total_supply = 0
    /\ constructed = FALSE
    /\ env_caller \in Accounts

new(caller, supply) ==
    /\ ~constructed
    /\ balances' = insert(balances, caller, supply)
    /\ total_supply' = supply
    /\ constructed' = TRUE

\* Mutant: the sender may be the receiver; the second write remains.
transfer_ok_to_self(caller, to, value) ==
    transfer_balances_ok(balance_of(caller), balance_of(to), value)

\* verified_transfer_step returns Ok.
transfer_ok(caller, to, value) ==
    /\ caller # to
    /\ transfer_balances_ok(balance_of(caller), balance_of(to), value)

\* Mutant: the two results of transfer_balances are stored the wrong way round.
transfer_swapping_results(caller, to, value) ==
    /\ transfer_ok(caller, to, value)
    /\ balances' = insert(insert(balances, caller, balance_of(to) + value),
                          to, balance_of(caller) - value)
    /\ UNCHANGED <<total_supply, constructed>>

transfer(caller, to, value) ==
    /\ constructed
    /\ \/ /\ transfer_ok(caller, to, value)
          /\ balances' = state_after_transfer(balances, caller, to, value)
       \/ /\ ~transfer_ok(caller, to, value)
          /\ UNCHANGED balances
    /\ UNCHANGED <<total_supply, constructed>>

\* Mutant: the supply is not checked.
verified_mint_step_ok_balance_only(to_balance, amount) ==
    to_balance + amount <= MaxAmount

verified_mint_step_ok(to_balance, amount) ==
    /\ total_supply + amount <= MaxAmount
    /\ to_balance + amount <= MaxAmount

mint(to, amount) ==
    /\ constructed
    /\ \/ /\ verified_mint_step_ok(balance_of(to), amount)
          /\ total_supply' = total_supply + amount
          /\ balances' = state_after_mint(balances, to, amount)
       \/ /\ ~verified_mint_step_ok(balance_of(to), amount)
          /\ UNCHANGED <<total_supply, balances>>
    /\ UNCHANGED constructed

verified_burn_step_ok(from_balance, amount) ==
    /\ from_balance >= amount
    /\ total_supply >= amount

burn(caller, amount) ==
    /\ constructed
    /\ \/ /\ verified_burn_step_ok(balance_of(caller), amount)
          /\ total_supply' = total_supply - amount
          /\ balances' = state_after_burn(balances, caller, amount)
       \/ /\ ~verified_burn_step_ok(balance_of(caller), amount)
          /\ UNCHANGED <<total_supply, balances>>
    /\ UNCHANGED constructed

InkNext ==
    \E caller \in Accounts, amount \in Amounts :
       /\ env_caller' = caller
       /\ \/ new(caller, amount)
          \/ \E to \in Accounts : transfer(caller, to, amount)
          \/ \E to \in Accounts : mint(to, amount)
          \/ burn(caller, amount)

InkSpec == InkInit /\ [][InkNext]_InkVars

-----------------------------------------------------------------------------
(* Properties.                                                             *)

\* Every call is a step of the abstract ledger; the constructor is its first
\* mint.
LedgerSpec == Spec
=============================================================================
