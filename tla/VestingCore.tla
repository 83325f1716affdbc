----------------------------- MODULE VestingCore -----------------------------
(***************************************************************************)
(* The chain-agnostic linear-with-cliff vesting core shared by every       *)
(* per-chain crate (vesting_application_examples/core): the schedule as    *)
(* the core specifies it, and the checked arithmetic the contracts run.    *)
(***************************************************************************)
EXTENDS TokenAmounts, Integers

CONSTANT MaxTime         \* stands for u64::MAX

ASSUME MaxTimeAssumption == MaxTime \in Nat

Times == 0 .. MaxTime

Params == [start : Times, cliff_duration : Times, vest_duration : Times,
           total : Amounts]

well_formed(p) ==
    /\ p.vest_duration > 0
    /\ p.cliff_duration <= p.vest_duration

-----------------------------------------------------------------------------
(* The schedule.  The sums of times are over the integers: they may exceed *)
(* MaxTime.                                                                *)

vested_at(p, t) ==
    IF t < p.start + p.cliff_duration THEN 0
    ELSE IF t >= p.start + p.vest_duration THEN p.total
    ELSE (p.total * (t - p.start)) \div p.vest_duration

\* claimed of state_after_claim, for a State with these params and claimed.
claimed_after_claim(p, claimed, t) ==
    IF vested_at(p, t) > claimed THEN vested_at(p, t) ELSE claimed

claimable_at(p, claimed, t) == claimed_after_claim(p, claimed, t) - claimed

-----------------------------------------------------------------------------
(* The arithmetic the contracts run.  It never adds two times, and it      *)
(* reports a product that does not fit a u128 instead of wrapping it.      *)

\* t is past the cliff and before the end: the branch that multiplies.
in_linear_branch(p, t) ==
    /\ t >= p.start
    /\ t - p.start >= p.cliff_duration
    /\ t - p.start < p.vest_duration

\* Mutant: the product is formed, and checked, before the end is looked at.
compute_vested_ok_multiplying_first(p, t) ==
    t >= p.start => p.total * (t - p.start) <= MaxAmount

\* compute_vested returns Ok.
compute_vested_ok(p, t) ==
    in_linear_branch(p, t) => p.total * (t - p.start) <= MaxAmount

\* Mutant: nothing is held back until the cliff.
compute_vested_without_cliff(p, t) ==
    IF t < p.start THEN 0
    ELSE IF t - p.start >= p.vest_duration THEN p.total
    ELSE (p.total * (t - p.start)) \div p.vest_duration

\* The value compute_vested returns when it returns Ok.
compute_vested(p, t) ==
    IF t < p.start THEN 0
    ELSE IF t - p.start < p.cliff_duration THEN 0
    ELSE IF t - p.start >= p.vest_duration THEN p.total
    ELSE (p.total * (t - p.start)) \div p.vest_duration

\* Mutant: what was claimed before is not taken off.
compute_claim_forgetting(p, t, claimed) == compute_vested(p, t)

\* The value compute_claim returns when compute_vested returns Ok.
compute_claim(p, t, claimed) ==
    IF compute_vested(p, t) >= claimed THEN compute_vested(p, t) - claimed ELSE 0
=============================================================================
