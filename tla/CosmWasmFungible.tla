-------------------------- MODULE CosmWasmFungible --------------------------
(***************************************************************************)
(* The CosmWasm fungible token (fungible_application_examples/cosmwasm):   *)
(* instantiate and the eight execute messages of the cw20 surface over the *)
(* four storage items.  The chain rolls back a message that returns an     *)
(* error, so only the successful ones are steps.                           *)
(***************************************************************************)
EXTENDS FungibleCore

CONSTANTS Addrs,         \* validated addresses
          Nobody         \* None

ASSUME AddrsAssumption == IsFiniteSet(Addrs) /\ Nobody \notin Addrs

VARIABLES balances,      \* BALANCES
          total_supply,  \* TOTAL_SUPPLY
          allowances,    \* ALLOWANCES, keyed by owner and spender
          minter,        \* MINTER, Nobody before instantiate
          sender         \* history: info.sender of the last message

vars == <<balances, total_supply, allowances, minter, sender>>

balance_of(a) == balance_at(balances, a)

\* allowance_at, the query of an allowance.
allowance_of(owner, spender) == balance_at(allowances, <<owner, spender>>)

set_allowance(owner, spender, amount) ==
    allowances' = insert(allowances, <<owner, spender>>, amount)

-----------------------------------------------------------------------------
\* The storage of a contract that is not instantiated yet.
Init ==
    /\ balances = [a \in {} |-> 0]
    /\ total_supply = 0
    /\ allowances = [p \in {} |-> 0]
    /\ minter = Nobody
    /\ sender = Nobody

\* The chain instantiates a contract once, and runs nothing before it.
instantiated == minter # Nobody

instantiate(owner, new_minter, supply) ==
    /\ ~instantiated
    /\ total_supply' = supply
    /\ balances' = insert(balances, owner, supply)
    /\ minter' = new_minter
    /\ sender' = owner
    /\ UNCHANGED allowances

\* Mutant: a transfer to oneself is let through.
move_without_distinctness(from, receiver, amount) ==
    /\ transfer_balances_ok(balance_of(from), balance_of(receiver), amount)
    /\ balances' = state_after_transfer(balances, from, receiver, amount)

\* The balances verified_transfer writes, for verified_transfer_from too.
move(from, receiver, amount) ==
    /\ from # receiver
    /\ transfer_balances_ok(balance_of(from), balance_of(receiver), amount)
    /\ balances' = state_after_transfer(balances, from, receiver, amount)

verified_transfer(who, receiver, amount) ==
    /\ move(who, receiver, amount)
    /\ UNCHANGED <<total_supply, allowances, minter>>

verified_approve(owner, spender, amount) ==
    /\ set_allowance(owner, spender, amount)
    /\ UNCHANGED <<balances, total_supply, minter>>

\* Mutant: the allowance of the recipient is used up, not the spender's.
verified_transfer_from_charging_recipient(spender, owner, recipient, amount) ==
    /\ allowance_of(owner, recipient) >= amount
    /\ move(owner, recipient, amount)
    /\ set_allowance(owner, recipient, allowance_of(owner, recipient) - amount)
    /\ UNCHANGED <<total_supply, minter>>

\* The allowance is read before the transfer and written after it.
verified_transfer_from(spender, owner, recipient, amount) ==
    /\ allowance_of(owner, spender) >= amount
    /\ move(owner, recipient, amount)
    /\ set_allowance(owner, spender, allowance_of(owner, spender) - amount)
    /\ UNCHANGED <<total_supply, minter>>

verified_mint(caller, to, amount) ==
    /\ minter = caller
    /\ total_supply + amount <= MaxAmount
    /\ balance_of(to) + amount <= MaxAmount
    /\ total_supply' = total_supply + amount
    /\ balances' = state_after_mint(balances, to, amount)
    /\ UNCHANGED <<allowances, minter>>

verified_burn(from, amount) ==
    /\ balance_of(from) >= amount
    /\ total_supply >= amount
    /\ total_supply' = total_supply - amount
    /\ balances' = state_after_burn(balances, from, amount)
    /\ UNCHANGED <<allowances, minter>>

\* Mutant: the sum is not checked against the width of the allowance.
verified_increase_allowance_unchecked(owner, spender, amount) ==
    /\ set_allowance(owner, spender, allowance_of(owner, spender) + amount)
    /\ UNCHANGED <<balances, total_supply, minter>>

verified_increase_allowance(owner, spender, amount) ==
    /\ allowance_of(owner, spender) + amount <= MaxAmount
    /\ set_allowance(owner, spender, allowance_of(owner, spender) + amount)
    /\ UNCHANGED <<balances, total_supply, minter>>

verified_decrease_allowance(owner, spender, amount) ==
    /\ set_allowance(owner, spender,
                     IF allowance_of(owner, spender) >= amount
                     THEN allowance_of(owner, spender) - amount ELSE 0)
    /\ UNCHANGED <<balances, total_supply, minter>>

verified_update_minter(caller, new_minter) ==
    /\ minter = caller
    /\ minter' = new_minter
    /\ UNCHANGED <<balances, total_supply, allowances>>

execute(who) ==
    /\ instantiated
    /\ sender' = who
    /\ \/ \E other \in Addrs, amount \in Amounts :
             \/ verified_transfer(who, other, amount)
             \/ verified_approve(who, other, amount)
             \/ verified_mint(who, other, amount)
             \/ verified_increase_allowance(who, other, amount)
             \/ verified_decrease_allowance(who, other, amount)
       \/ \E owner, recipient \in Addrs, amount \in Amounts :
             verified_transfer_from(who, owner, recipient, amount)
       \/ \E amount \in Amounts : verified_burn(who, amount)
       \/ \E new_minter \in Addrs : verified_update_minter(who, new_minter)

Next ==
    \/ \E owner, new_minter \in Addrs, supply \in Amounts :
          instantiate(owner, new_minter, supply)
    \/ \E who \in Addrs : execute(who)

Spec == Init /\ [][Next]_vars

-----------------------------------------------------------------------------
(* Properties.                                                             *)

\* Everything stored fits a u128, whatever messages come in whatever order.
TypeOK ==
    /\ is_map(balances, Addrs, Amounts)
    /\ total_supply \in Amounts
    /\ is_map(allowances, Addrs \X Addrs, Amounts)
    /\ minter \in Addrs \cup {Nobody}
    /\ sender \in Addrs \cup {Nobody}

\* An account only loses tokens in a message it sent, or in one of a spender
\* whose allowance shrinks by exactly as much; allowances only grow in a
\* message of the owner; the supply only grows, and the minter only changes,
\* in a message of the minter.
Authorized ==
    [][/\ \A a \in Addrs :
             balance_of(a)' < balance_of(a) =>
                \/ sender' = a
                \/ /\ sender' \in Addrs
                   /\ allowance_of(a, sender')
                        = balance_at(allowances', <<a, sender'>>)
                             + (balance_of(a) - balance_of(a)')
       /\ \A owner, spender \in Addrs :
             allowance_of(owner, spender)' > allowance_of(owner, spender) =>
                sender' = owner
       /\ instantiated /\ (total_supply' > total_supply \/ minter' # minter) =>
             sender' = minter]_vars

\* Every message is a step of the abstract ledger or leaves the ledger alone;
\* instantiate is its first mint.
Ledger == INSTANCE FungibleLedger WITH
             Accounts <- Addrs,
             balances <- [a \in Addrs |-> balance_of(a)]
LedgerSpec == Ledger!Spec
=============================================================================
