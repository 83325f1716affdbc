----------------------------- MODULE GearVesting -----------------------------
(***************************************************************************)
(* The Gear vesting program (vesting_application_examples/gear): init and  *)
(* the actions of handle.  The views are messages too, and their replies   *)
(* arrive after other messages and blocks: what a reply announced must     *)
(* still be there for a later claim.                                       *)
(*                                                                         *)
(* A panic, also the one of expect on the result of msg::reply, undoes     *)
(* the whole message.                                                      *)
(***************************************************************************)
EXTENDS VestingCore, FiniteSetsExt

CONSTANTS Accounts,          \* the ActorIds
          NoGrant            \* None

VARIABLES program,           \* STATE: Option<Vesting>
          block_timestamp,   \* exec::block_timestamp(), in milliseconds
          replied,           \* history: the amounts of all Claimed replies, added up
          announced          \* history: the most the other replies let a client
                             \* count on: what is claimed and what is claimable

vars == <<program, block_timestamp, replied, announced>>

-----------------------------------------------------------------------------
Init ==
    /\ program = NoGrant
    /\ block_timestamp \in Times
    /\ replied = 0
    /\ announced = 0

\* The Gear runtime runs init once, before any handle.
init(beneficiary, params) ==
    /\ program = NoGrant
    /\ well_formed(params)
    /\ program' = [beneficiary |-> beneficiary, params |-> params, claimed |-> 0]
    /\ UNCHANGED <<block_timestamp, replied, announced>>

\* compute_vested and compute_claim return Ok.
schedule_ok == compute_vested_ok(program.params, block_timestamp)

claimable == compute_claim(program.params, block_timestamp, program.claimed)

\* apply_claim returns Ok: neither Unauthorized nor ArithOverflow.
apply_claim_ok(sender) == sender = program.beneficiary /\ schedule_ok

\* Action::Claim, answered with Event::Claimed.
handle_Claim(source) ==
    /\ program # NoGrant
    /\ \/ /\ apply_claim_ok(source)
          /\ program' = [program EXCEPT !.claimed = @ + claimable]
          /\ replied' = replied + claimable
       \/ /\ ~apply_claim_ok(source)
          /\ UNCHANGED <<program, replied>>
    /\ UNCHANGED <<block_timestamp, announced>>

\* Mutant: ClaimableNow does not take off what was claimed before.
handle_queries_forgetting ==
    /\ program # NoGrant
    /\ schedule_ok
    /\ announced' = Max({announced, program.claimed
                            + compute_vested(program.params, block_timestamp)})
    /\ UNCHANGED <<program, block_timestamp, replied>>

\* Action::VestedNow, Action::ClaimableNow and Action::Claimed, for whoever
\* asks.  The first two panic where the schedule overflows.  BeneficiaryQuery
\* announces no amount.
handle_queries ==
    /\ program # NoGrant
    /\ \E amount \in {program.claimed} \cup
            (IF schedule_ok
             THEN {compute_vested(program.params, block_timestamp),
                   program.claimed + claimable}
             ELSE {}) :
          announced' = Max({announced, amount})
    /\ UNCHANGED <<program, block_timestamp, replied>>

NextBlock ==
    /\ block_timestamp' \in Times
    /\ block_timestamp' > block_timestamp
    /\ UNCHANGED <<program, replied, announced>>

Next ==
    \/ \E beneficiary \in Accounts, params \in Params : init(beneficiary, params)
    \/ \E source \in Accounts : handle_Claim(source)
    \/ handle_queries
    \/ NextBlock

Spec == Init /\ [][Next]_vars

-----------------------------------------------------------------------------
(* Properties.                                                             *)

\* However many claims and blocks lie between a reply and a claim, a claim that
\* is answered leaves the beneficiary with no less than any reply announced.
PromisesKept ==
    [][\A source \in Accounts :
          program # NoGrant /\ apply_claim_ok(source) /\ handle_Claim(source)
              => program'.claimed >= announced]_vars
=============================================================================
