----------------------------- MODULE NearVesting -----------------------------
(***************************************************************************)
(* The NEAR vesting contract (vesting_application_examples/near): new,     *)
(* claim and the two time-dependent views.  The chain's clock counts       *)
(* nanoseconds, the schedule milliseconds, and every method reads the      *)
(* clock through block_timestamp_ms, which rounds it down.                 *)
(***************************************************************************)
EXTENDS VestingCore

CONSTANTS Accounts,
          NoGrant,               \* the contract's storage before new
          NanosPerMilli          \* stands for 1_000_000

VARIABLES vesting,               \* Vesting
          block_timestamp        \* env::block_timestamp(), in nanoseconds

vars == <<vesting, block_timestamp>>

-----------------------------------------------------------------------------
\* Mutant: the milliseconds are rounded to the nearest.
block_timestamp_ms_rounded ==
    (block_timestamp + NanosPerMilli \div 2) \div NanosPerMilli

block_timestamp_ms == block_timestamp \div NanosPerMilli

Init ==
    /\ vesting = NoGrant
    /\ block_timestamp \in Times

\* #[init] panics when the contract already has a state; new panics when the
\* schedule is not well formed.
new(beneficiary, params) ==
    /\ vesting = NoGrant
    /\ well_formed(params)
    /\ vesting' = [beneficiary |-> beneficiary, params |-> params, claimed |-> 0]
    /\ UNCHANGED block_timestamp

\* The views, where they do not panic.
view_ok == compute_vested_ok(vesting.params, block_timestamp_ms)
vested_now == compute_vested(vesting.params, block_timestamp_ms)
claimable_now == compute_claim(vesting.params, block_timestamp_ms, vesting.claimed)

\* verified_claim returns: it panics for any other caller, and where
\* compute_claim does not fit.
verified_claim_ok(predecessor) ==
    /\ predecessor = vesting.beneficiary
    /\ view_ok

\* A panic undoes the call.
claim(predecessor) ==
    /\ vesting # NoGrant
    /\ \/ /\ verified_claim_ok(predecessor)
          /\ vesting' = [vesting EXCEPT !.claimed = @ + claimable_now]
       \/ /\ ~verified_claim_ok(predecessor)
          /\ UNCHANGED vesting
    /\ UNCHANGED block_timestamp

NextBlock ==
    /\ block_timestamp' \in Times
    /\ block_timestamp' > block_timestamp
    /\ UNCHANGED vesting

Next ==
    \/ \E beneficiary \in Accounts, params \in Params : new(beneficiary, params)
    \/ \E predecessor \in Accounts : claim(predecessor)
    \/ NextBlock

Spec == Init /\ [][Next]_vars
=============================================================================
