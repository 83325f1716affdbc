----------------------------- MODULE IcFungible -----------------------------
(***************************************************************************)
(* The Internet Computer fungible canister                                 *)
(* (fungible_application_examples/ic): init and the eight update methods   *)
(* over one State in the canister's heap.                                  *)
(*                                                                         *)
(* An update that returns Err is committed like any other: nothing undoes  *)
(* what it wrote, so both of its outcomes are steps.  The heap is all the  *)
(* canister has: the code declares no upgrade hooks, and an upgrade starts *)
(* again from State::default() without running init.                       *)
(***************************************************************************)
EXTENDS FungibleCore

CONSTANTS Principals,
          Nobody         \* None

ASSUME PrincipalsAssumption == IsFiniteSet(Principals) /\ Nobody \notin Principals

VARIABLES balances,      \* State::balances
          total_supply,  \* State::total_supply
          allowances,    \* State::allowances, keyed by owner and spender
          minter,        \* State::minter
          installed,     \* init has run
          upgraded,      \* history: the canister was upgraded since
          caller         \* history: the caller of the last update method

state == <<balances, total_supply, allowances, minter>>
vars == <<state, installed, upgraded, caller>>

balance_of(account) == balance_at(balances, account)
allowance_of(owner, spender) == balance_at(allowances, <<owner, spender>>)

save_allowance(owner, spender, v) ==
    allowances' = insert(allowances, <<owner, spender>>, v)

\* Mutant: a canister without a minter lets everybody mint.
is_minter_when_unset(who) == minter \in {who, Nobody}

is_minter(who) == minter = who

-----------------------------------------------------------------------------
NoEntries == [key \in {} |-> 0]

Init ==
    /\ balances = NoEntries
    /\ total_supply = 0
    /\ allowances = NoEntries
    /\ minter = Nobody
    /\ installed = FALSE
    /\ upgraded = FALSE
    /\ caller = Nobody

\* The method init, which the IC runs once, when it installs the canister.
init(owner, supply, new_minter) ==
    /\ ~installed
    /\ total_supply' = supply
    /\ balances' = insert(balances, owner, supply)
    /\ minter' = IF new_minter = Nobody THEN owner ELSE new_minter
    /\ installed' = TRUE
    /\ UNCHANGED <<allowances, upgraded, caller>>

verified_transfer(who, receiver, amount) ==
    LET ok == /\ who # receiver
              /\ transfer_balances_ok(balance_of(who), balance_of(receiver), amount)
    IN  \/ /\ ok
           /\ balances' = state_after_transfer(balances, who, receiver, amount)
           /\ UNCHANGED <<total_supply, allowances, minter>>
        \/ ~ok /\ UNCHANGED state

verified_approve(who, spender, amount) ==
    /\ save_allowance(who, spender, amount)
    /\ UNCHANGED <<balances, total_supply, minter>>

\* Mutant: the allowance is used up before the balances are looked at.
verified_transfer_from_charging_first(who, owner, recipient, amount) ==
    LET allowed == owner # recipient /\ allowance_of(owner, who) >= amount
        ok == transfer_balances_ok(balance_of(owner), balance_of(recipient), amount)
    IN  \/ /\ allowed
           /\ save_allowance(owner, who, allowance_of(owner, who) - amount)
           /\ balances' = IF ok
                          THEN state_after_transfer(balances, owner, recipient, amount)
                          ELSE balances
           /\ UNCHANGED <<total_supply, minter>>
        \/ ~allowed /\ UNCHANGED state

\* The caller is the spender.
verified_transfer_from(who, owner, recipient, amount) ==
    LET ok == /\ owner # recipient
              /\ allowance_of(owner, who) >= amount
              /\ transfer_balances_ok(balance_of(owner), balance_of(recipient), amount)
    IN  \/ /\ ok
           /\ balances' = state_after_transfer(balances, owner, recipient, amount)
           /\ save_allowance(owner, who, allowance_of(owner, who) - amount)
           /\ UNCHANGED <<total_supply, minter>>
        \/ ~ok /\ UNCHANGED state

verified_mint(who, to, amount) ==
    LET ok == /\ is_minter(who)
              /\ total_supply + amount <= MaxAmount
              /\ balance_of(to) + amount <= MaxAmount
    IN  \/ /\ ok
           /\ total_supply' = total_supply + amount
           /\ balances' = state_after_mint(balances, to, amount)
           /\ UNCHANGED <<allowances, minter>>
        \/ ~ok /\ UNCHANGED state

\* Mutant: the supply is reduced before the balance is looked at.
verified_burn_supply_first(who, amount) ==
    LET ok == balance_of(who) >= amount
    IN  /\ total_supply' = IF total_supply >= amount THEN total_supply - amount
                           ELSE total_supply
        /\ balances' = IF ok THEN state_after_burn(balances, who, amount) ELSE balances
        /\ UNCHANGED <<allowances, minter>>

verified_burn(who, amount) ==
    LET ok == balance_of(who) >= amount /\ total_supply >= amount
    IN  \/ /\ ok
           /\ total_supply' = total_supply - amount
           /\ balances' = state_after_burn(balances, who, amount)
           /\ UNCHANGED <<allowances, minter>>
        \/ ~ok /\ UNCHANGED state

\* Mutant: the sum is not checked against the width of the allowance.
verified_increase_allowance_unchecked(who, spender, amount) ==
    /\ save_allowance(who, spender, allowance_of(who, spender) + amount)
    /\ UNCHANGED <<balances, total_supply, minter>>

verified_increase_allowance(who, spender, amount) ==
    LET ok == allowance_of(who, spender) + amount <= MaxAmount
    IN  \/ /\ ok
           /\ save_allowance(who, spender, allowance_of(who, spender) + amount)
           /\ UNCHANGED <<balances, total_supply, minter>>
        \/ ~ok /\ UNCHANGED state

verified_decrease_allowance(who, spender, amount) ==
    /\ save_allowance(who, spender,
                      IF allowance_of(who, spender) >= amount
                      THEN allowance_of(who, spender) - amount ELSE 0)
    /\ UNCHANGED <<balances, total_supply, minter>>

verified_update_minter(who, new_minter) ==
    \/ /\ is_minter(who)
       /\ minter' = new_minter
       /\ UNCHANGED <<balances, total_supply, allowances>>
    \/ ~is_minter(who) /\ UNCHANGED state

update(who) ==
    /\ installed
    /\ caller' = who
    /\ \/ \E other \in Principals, amount \in Amounts :
             \/ verified_transfer(who, other, amount)
             \/ verified_approve(who, other, amount)
             \/ verified_mint(who, other, amount)
             \/ verified_increase_allowance(who, other, amount)
             \/ verified_decrease_allowance(who, other, amount)
       \/ \E owner, recipient \in Principals, amount \in Amounts :
             verified_transfer_from(who, owner, recipient, amount)
       \/ \E amount \in Amounts : verified_burn(who, amount)
       \/ \E new_minter \in Principals : verified_update_minter(who, new_minter)
    /\ UNCHANGED <<installed, upgraded>>

\* The controller installs a new version of the code.
Upgrade ==
    /\ installed
    /\ balances' = NoEntries
    /\ total_supply' = 0
    /\ allowances' = NoEntries
    /\ minter' = Nobody
    /\ upgraded' = TRUE
    /\ caller' = Nobody
    /\ UNCHANGED installed

Next ==
    \/ \E owner \in Principals, supply \in Amounts,
          new_minter \in Principals \cup {Nobody} : init(owner, supply, new_minter)
    \/ \E who \in Principals : update(who)
    \/ Upgrade

Spec == Init /\ [][Next]_vars

-----------------------------------------------------------------------------
(* Properties.                                                             *)

\* Everything in the heap fits its type, whatever calls come in what order.
TypeOK ==
    /\ is_map(balances, Principals, Amounts)
    /\ total_supply \in Amounts
    /\ is_map(allowances, Principals \X Principals, Amounts)
    /\ minter \in Principals \cup {Nobody}
    /\ installed \in BOOLEAN /\ upgraded \in BOOLEAN
    /\ caller \in Principals \cup {Nobody}

\* Book balance equals supply after every update, also after one that
\* returned an error half way and after an upgrade.
Conservation ==
    sum_balances([p \in Principals |-> balance_of(p)]) = total_supply

\* An allowance of another's tokens shrinks only by what its spender moved
\* out of the owner's account, in a call of the owner, or in an upgrade.
AllowanceBuysTokens ==
    [][\A owner, spender \in Principals :
          /\ caller' \notin {owner, Nobody}
          /\ allowance_of(owner, spender)' < allowance_of(owner, spender)
          => /\ caller' = spender
             /\ allowance_of(owner, spender) - allowance_of(owner, spender)'
                  = balance_of(owner) - balance_of(owner)']_vars

\* The upgraded canister has lost every token, and nobody can ever issue
\* tokens or appoint a minter again.
LostByUpgrade ==
    upgraded => /\ total_supply = 0
                /\ minter = Nobody
                /\ \A p \in Principals : balance_of(p) = 0
=============================================================================
