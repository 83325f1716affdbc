------------------------------ MODULE InkVesting ------------------------------
(***************************************************************************)
(* The ink! vesting contract (vesting_application_examples/ink): the       *)
(* constructor, the message claim with its Claimed event, and the two      *)
(* messages that read the schedule and answer 0 where it overflows.        *)
(*                                                                         *)
(* The storage of the contract is the core's State: it shares the          *)
(* variables and the invariants of VestingGrant, whose specification it    *)
(* implements.                                                             *)
(***************************************************************************)
EXTENDS VestingGrant

VARIABLE Claimed         \* history: the amounts of all Claimed events, added up

InkVars == <<grant, now, Claimed>>

-----------------------------------------------------------------------------
InkInit ==
    /\ Init
    /\ Claimed = 0

\* A constructor that panics creates nothing.
new(beneficiary, params) ==
    /\ grant = NoGrant
    /\ well_formed(params)
    /\ grant' = [beneficiary |-> beneficiary, params |-> params, claimed |-> 0]
    /\ UNCHANGED <<now, Claimed>>

\* verified_claim_step returns Ok: neither Unauthorized nor ArithOverflow.
verified_claim_step_ok(caller) ==
    /\ caller = grant.beneficiary
    /\ compute_vested_ok(grant.params, now)

claim(caller) ==
    LET amount == compute_claim(grant.params, now, grant.claimed)
    IN  /\ grant # NoGrant
        /\ \/ /\ verified_claim_step_ok(caller)
              /\ grant' = [grant EXCEPT !.claimed = @ + amount]
              /\ Claimed' = Claimed + amount
           \/ /\ ~verified_claim_step_ok(caller)
              /\ UNCHANGED <<grant, Claimed>>
        /\ UNCHANGED now

NextBlock ==
    /\ now' \in Times
    /\ now' > now
    /\ UNCHANGED <<grant, Claimed>>

unwrap_or_0(value) ==
    IF compute_vested_ok(grant.params, now) THEN value ELSE 0

vested_now == unwrap_or_0(compute_vested(grant.params, now))
claimable_now ==
    unwrap_or_0(compute_claim(grant.params, now, grant.claimed))

InkNext ==
    \/ \E beneficiary \in Accounts, params \in Params : new(beneficiary, params)
    \/ \E caller \in Accounts : claim(caller)
    \/ NextBlock

InkSpec == InkInit /\ [][InkNext]_InkVars

-----------------------------------------------------------------------------
(* Properties.                                                             *)

\* The messages promise no more than the schedule: what was claimed and what
\* claimable_now offers have vested, also where an answer is 0 for an overflow.
ViewsArePrudent ==
    grant # NoGrant =>
        /\ grant.claimed + claimable_now <= vested_at(grant.params, now)
        /\ vested_now <= vested_at(grant.params, now)

\* The contract implements the abstract grant.
GrantSpec == Spec
=============================================================================
