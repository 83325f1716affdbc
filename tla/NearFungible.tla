---------------------------- MODULE NearFungible ----------------------------
(***************************************************************************)
(* The NEAR fungible contract (fungible_application_examples/near): the    *)
(* initialiser new and the method transfer.  A method that panics rolls    *)
(* its writes back, so every error is an answer that changes nothing.      *)
(***************************************************************************)
EXTENDS FungibleCore

CONSTANTS Accounts,
          NoState        \* the contract's storage before new

VARIABLE contract        \* Fungible { total_supply, balances: LookupMap }

-----------------------------------------------------------------------------
Init == contract = NoState

\* #[init] panics when the contract already has a state.
new(owner, total_supply) ==
    /\ contract = NoState
    /\ contract' = [total_supply |-> total_supply,
                    balances |-> insert([a \in {} |-> 0], owner, total_supply)]

\* PanicOnDefault: without a state there is nothing to read.
balance_of(account) == balance_at(contract.balances, account)

apply_transfer_ok(sender, receiver, amount) ==
    transfer_balances_ok(balance_of(sender), balance_of(receiver), amount)

apply_transfer(sender, receiver, amount) ==
    contract' = [contract EXCEPT
        !.balances = state_after_transfer(@, sender, receiver, amount)]

verified_transfer(predecessor, receiver, amount) ==
    /\ contract # NoState
    /\ \/ /\ predecessor # receiver
          /\ apply_transfer_ok(predecessor, receiver, amount)
          /\ apply_transfer(predecessor, receiver, amount)
       \/ /\ \/ predecessor = receiver
             \/ ~apply_transfer_ok(predecessor, receiver, amount)
          /\ UNCHANGED contract

Next ==
    \E caller, account \in Accounts, amount \in Amounts :
       \/ new(account, amount)
       \/ verified_transfer(caller, account, amount)

Spec == Init /\ [][Next]_contract
=============================================================================
