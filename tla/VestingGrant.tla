---------------------------- MODULE VestingGrant ----------------------------
(***************************************************************************)
(* What the vesting core promises: one grant, created once, of which the   *)
(* beneficiary takes at any time whatever the schedule has vested and was  *)
(* not taken before.  A per-chain contract may also refuse a claim.        *)
(***************************************************************************)
EXTENDS VestingCore

CONSTANTS Accounts,      \* beneficiary identifiers (type parameter A)
          NoGrant        \* the value of grant before it is created

VARIABLES grant,         \* State { beneficiary, params, claimed }
          now            \* the chain's clock, in the unit of the schedule

vars == <<grant, now>>

State == [beneficiary : Accounts, params : Params, claimed : Amounts]

ASSUME NoGrantAssumption == NoGrant \notin State

Init ==
    /\ grant = NoGrant
    /\ now \in Times

\* The constructors check well_formed and start with nothing claimed.
Create(beneficiary, params) ==
    /\ grant = NoGrant
    /\ well_formed(params)
    /\ grant' = [beneficiary |-> beneficiary, params |-> params, claimed |-> 0]
    /\ UNCHANGED now

\* state_after_claim.
Claim ==
    /\ grant # NoGrant
    /\ grant' = [grant EXCEPT !.claimed =
                    claimed_after_claim(grant.params, grant.claimed, now)]
    /\ UNCHANGED now

\* Time is the chain's, and never runs backwards.
Advance ==
    /\ now' \in Times
    /\ now' > now
    /\ UNCHANGED grant

Next ==
    \/ \E beneficiary \in Accounts, params \in Params : Create(beneficiary, params)
    \/ Claim
    \/ Advance

Spec == Init /\ [][Next]_vars

-----------------------------------------------------------------------------
(* Properties.                                                             *)

TypeOK ==
    /\ grant \in State \cup {NoGrant}
    /\ now \in Times

\* Whenever claims are made, what was released never exceeds what the schedule
\* has vested by now, hence never the total; the cast of the new claimed
\* amount to u128 loses nothing.
WithinSchedule ==
    grant # NoGrant =>
        /\ well_formed(grant.params)
        /\ grant.claimed <= vested_at(grant.params, now)
        /\ vested_at(grant.params, now) <= grant.params.total

\* Nothing leaves the grant before the cliff.
CliffHolds ==
    grant # NoGrant /\ grant.claimed > 0 =>
        now >= grant.params.start + grant.params.cliff_duration

\* A grant is never replaced, and what was released is never taken back.
Irrevocable ==
    [][grant # NoGrant =>
          /\ grant' # NoGrant
          /\ grant'.beneficiary = grant.beneficiary
          /\ grant'.params = grant.params
          /\ grant'.claimed >= grant.claimed]_vars
=============================================================================
