---------------------------- MODULE LineraVesting ----------------------------
(***************************************************************************)
(* The claim step of the Linera vesting crate                              *)
(* (vesting_application_examples/linera_alternate).  The crate has no      *)
(* contract around the step: as its comments describe it, the contract     *)
(* keeps the schedule and the claimed amount and forwards the signer of    *)
(* the operation, which may have none, and the system time.                *)
(***************************************************************************)
EXTENDS VestingCore

CONSTANTS Accounts,      \* the AccountOwners
          Nobody,        \* authenticated_signer() of an operation nobody signed
          NoGrant        \* the contract's state before it is instantiated

VARIABLES stored,        \* beneficiary, params and claimed
          system_time    \* in microseconds

vars == <<stored, system_time>>

-----------------------------------------------------------------------------
Init ==
    /\ stored = NoGrant
    /\ system_time \in Times

instantiate(beneficiary, params) ==
    /\ stored = NoGrant
    /\ well_formed(params)
    /\ stored' = [beneficiary |-> beneficiary, params |-> params, claimed |-> 0]
    /\ UNCHANGED system_time

\* Mutant: only a signer who is somebody else is refused.
verified_claim_step_ok_unsigned(caller) ==
    /\ caller \in {Nobody, stored.beneficiary}
    /\ compute_vested_ok(stored.params, system_time)

\* verified_claim_step returns Ok: the caller is Some(beneficiary), and
\* compute_claim fits.
verified_claim_step_ok(caller) ==
    /\ caller # Nobody
    /\ caller = stored.beneficiary
    /\ compute_vested_ok(stored.params, system_time)

verified_claim_step(caller) ==
    /\ stored # NoGrant
    /\ \/ /\ verified_claim_step_ok(caller)
          /\ stored' = [stored EXCEPT
                !.claimed = @ + compute_claim(stored.params, system_time, @)]
       \/ /\ ~verified_claim_step_ok(caller)
          /\ UNCHANGED stored
    /\ UNCHANGED system_time

NextBlock ==
    /\ system_time' \in Times
    /\ system_time' > system_time
    /\ UNCHANGED stored

Next ==
    \/ \E beneficiary \in Accounts, params \in Params :
          instantiate(beneficiary, params)
    \/ \E caller \in Accounts \cup {Nobody} : verified_claim_step(caller)
    \/ NextBlock

Spec == Init /\ [][Next]_vars
=============================================================================
