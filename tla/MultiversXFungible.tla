------------------------- MODULE MultiversXFungible -------------------------
(***************************************************************************)
(* The MultiversX fungible contract (fungible_application_examples/        *)
(* multiversx): init and the endpoint transfer.  Amounts are BigUints, and *)
(* verified_transfer_big, unlike transfer_balances, does not compare a sum *)
(* with any width.                                                         *)
(*                                                                         *)
(* A mapper that holds 0 and one that was never set read the same.         *)
(***************************************************************************)
EXTENDS FungibleCore

CONSTANTS Accounts,
          MaxSupply      \* the largest supply deployed; a BigUint has no bound

VARIABLES balances_mapper,       \* balances(account)
          total_supply_mapper,   \* total_supply()
          deployed               \* init has run

vars == <<balances_mapper, total_supply_mapper, deployed>>

BigUints == 0 .. MaxSupply

-----------------------------------------------------------------------------
Init ==
    /\ balances_mapper = [a \in Accounts |-> 0]
    /\ total_supply_mapper = 0
    /\ deployed = FALSE

\* The protocol runs #[init] once, in the transaction that deploys the code.
init(caller, total_supply) ==
    /\ ~deployed
    /\ total_supply_mapper' = total_supply
    /\ balances_mapper' = insert(balances_mapper, caller, total_supply)
    /\ deployed' = TRUE

\* Mutant: the receiver's balance is cut to a u128, as the other chains hold it.
verified_transfer_big_narrow(from_balance, to_balance, amount) ==
    [ok |-> from_balance >= amount,
     from_next |-> from_balance - amount,
     to_next |-> (to_balance + amount) % (MaxAmount + 1)]

\* Ok((from_next, to_next)), or Err.
verified_transfer_big(from_balance, to_balance, amount) ==
    [ok |-> from_balance >= amount,
     from_next |-> from_balance - amount,
     to_next |-> to_balance + amount]

\* The two sets are made from what was read before either; require! and
\* sc_panic! undo the transaction.
transfer(caller, to, amount) ==
    LET next == verified_transfer_big(balances_mapper[caller],
                                      balances_mapper[to], amount)
    IN  /\ deployed
        /\ \/ /\ caller # to
              /\ next.ok
              /\ balances_mapper' = insert(insert(balances_mapper, caller, next.from_next),
                                           to, next.to_next)
           \/ /\ caller = to \/ ~next.ok
              /\ UNCHANGED balances_mapper
        /\ UNCHANGED <<total_supply_mapper, deployed>>

Next ==
    \E caller, to \in Accounts, amount \in BigUints :
       \/ init(caller, amount)
       \/ transfer(caller, to, amount)

Spec == Init /\ [][Next]_vars
=============================================================================
