-------------------------- MODULE MultiversXVesting --------------------------
(***************************************************************************)
(* The MultiversX vesting contract (vesting_application_examples/          *)
(* multiversx): init, the endpoint claim and the two time-dependent views, *)
(* over six storage mappers.                                               *)
(*                                                                         *)
(* verified_claim_step works on a copy of the stored claimed, and the      *)
(* endpoint stores the copy only when something was released.              *)
(***************************************************************************)
EXTENDS VestingCore

CONSTANTS Accounts,
          NoGrant            \* the mappers before init

VARIABLES storage,           \* the six mappers
          block_timestamp    \* get_block_timestamp(), in seconds

vars == <<storage, block_timestamp>>

-----------------------------------------------------------------------------
Init ==
    /\ storage = NoGrant
    /\ block_timestamp \in Times

\* The protocol runs #[init] once, in the transaction that deploys the code.
init(beneficiary, params) ==
    /\ storage = NoGrant
    /\ well_formed(params)
    /\ storage' = [beneficiary |-> beneficiary, params |-> params, claimed |-> 0]
    /\ UNCHANGED block_timestamp

schedule_ok == compute_vested_ok(storage.params, block_timestamp)

\* verified_claim_step returns Ok.
verified_claim_step_ok(caller) == caller = storage.beneficiary /\ schedule_ok

amount == compute_claim(storage.params, block_timestamp, storage.claimed)

\* sc_panic! undoes the transaction.
claim(caller) ==
    /\ storage # NoGrant
    /\ \/ /\ verified_claim_step_ok(caller)
          /\ amount > 0
          /\ storage' = [storage EXCEPT !.claimed = @ + amount]
       \/ /\ ~verified_claim_step_ok(caller) \/ amount = 0
          /\ UNCHANGED storage
    /\ UNCHANGED block_timestamp

unwrap_or_0(value) == IF schedule_ok THEN value ELSE 0

vested_now == unwrap_or_0(compute_vested(storage.params, block_timestamp))
claimable_now == unwrap_or_0(amount)

NextBlock ==
    /\ block_timestamp' \in Times
    /\ block_timestamp' > block_timestamp
    /\ UNCHANGED storage

Next ==
    \/ \E beneficiary \in Accounts, params \in Params : init(beneficiary, params)
    \/ \E caller \in Accounts : claim(caller)
    \/ NextBlock

Spec == Init /\ [][Next]_vars
=============================================================================
