--------------------------- MODULE VestingTargets ---------------------------
(***************************************************************************)
(* One grant deployed six times: as an ink!, a NEAR, a Gear, a MultiversX  *)
(* and a Linera contract and as an Internet Computer canister.  All get    *)
(* the same schedule and then the same calls at the same times; the        *)
(* canister may also be upgraded.  Each contract answers every call, a     *)
(* refusal included, so driving them together leaves none of them a        *)
(* behaviour less.                                                         *)
(*                                                                         *)
(* There is one clock, now_ns.  The canister's schedule counts its ticks.  *)
(* The other schedules count a coarser unit of NanosPerMilli ticks: the    *)
(* NEAR contract divides the clock itself, the other chains hand out the   *)
(* divided time now.                                                       *)
(***************************************************************************)
EXTENDS InkVesting

CONSTANTS Nobody,        \* None: a canister without beneficiary, a caller without signature
          NanosPerMilli  \* ticks of the fine clock in one of the coarse clock

\* Nobody is neither a principal nor a grant.
ASSUME NobodyAssumption == Nobody \notin Accounts /\ Nobody \notin State
ASSUME NanosPerMilliAssumption == NanosPerMilli \in Nat \ {0}

VARIABLES heap, now_ns, installed, paid, upgraded,   \* see IcVesting
          near,                                      \* see NearVesting
          program, replied, announced,               \* see GearVesting
          storage,                                   \* see MultiversXVesting
          stored                                     \* see LineraVesting

Ic == INSTANCE IcVesting WITH Principals <- Accounts
Near == INSTANCE NearVesting WITH vesting <- near, block_timestamp <- now_ns
Gear == INSTANCE GearVesting WITH block_timestamp <- now
MultiversX == INSTANCE MultiversXVesting WITH block_timestamp <- now
Linera == INSTANCE LineraVesting WITH system_time <- now

ink == <<grant, Claimed>>
ic == <<heap, installed, paid, upgraded>>
coarse == <<ink, near, program, replied, announced, storage, stored>>
clocks == <<now, now_ns>>

\* The schedule in ticks of the fine clock.
in_nanos(p) == [p EXCEPT !.start = NanosPerMilli * @,
                         !.cliff_duration = NanosPerMilli * @,
                         !.vest_duration = NanosPerMilli * @]

\* The schedules both clocks can express.
SharedParams == {p \in Params : in_nanos(p) \in Params}

-----------------------------------------------------------------------------
TargetsInit ==
    /\ Ic!Init
    /\ InkInit
    /\ now = Near!block_timestamp_ms
    /\ Near!Init
    /\ Gear!Init
    /\ MultiversX!Init
    /\ Linera!Init

Deploy(beneficiary, params) ==
    /\ new(beneficiary, params)
    /\ Near!new(beneficiary, params)
    /\ Gear!init(beneficiary, params)
    /\ MultiversX!init(beneficiary, params)
    /\ Linera!instantiate(beneficiary, params)
    /\ Ic!init(beneficiary, in_nanos(params))

ClaimAll(caller) ==
    /\ claim(caller)
    /\ Near!claim(caller)
    /\ Gear!handle_Claim(caller)
    /\ MultiversX!claim(caller)
    /\ Linera!verified_claim_step(caller)
    /\ Ic!claim(caller)

ClaimUnsigned ==
    /\ Linera!verified_claim_step(Nobody)
    /\ UNCHANGED <<ink, near, program, replied, announced, storage, ic, clocks>>

AskGear ==
    /\ Gear!handle_queries
    /\ UNCHANGED <<ink, near, storage, stored, ic, clocks>>

Tick ==
    /\ Ic!Tick
    /\ now' = now_ns' \div NanosPerMilli
    /\ UNCHANGED coarse

UpgradeCanister == Ic!Upgrade /\ UNCHANGED <<coarse, now>>

TargetsNext ==
    \/ \E beneficiary \in Accounts, params \in SharedParams :
          Deploy(beneficiary, params)
    \/ \E caller \in Accounts : ClaimAll(caller)
    \/ ClaimUnsigned
    \/ AskGear
    \/ Tick
    \/ UpgradeCanister

TargetsSpec == TargetsInit /\ [][TargetsNext]_<<coarse, ic, clocks>>

-----------------------------------------------------------------------------
(* Properties.                                                             *)

\* The canister's heap is well formed or the default, and on both, so also
\* after an upgrade, its queries answer what a claim would find and divide by
\* no zero duration.
IcSafe == Ic!TypeOK /\ Ic!QueriesAgree

\* The canister implements the abstract grant until it is upgraded, and pays
\* nothing afterwards.
IcGrantUntilUpgrade == Ic!GrantUntilUpgrade

\* The chain makes no difference: contracts whose clocks show the same time hold
\* the same grant and answer the same, whoever called or signed, also where
\* the product overflows; events and replies add up to what was claimed.
TargetsAgree ==
    grant # NoGrant =>
        /\ \A other \in {near, program, storage, stored} : other = grant
        /\ {Claimed, replied} = {grant.claimed}
        /\ <<MultiversX!vested_now, MultiversX!claimable_now>>
              = <<vested_now, claimable_now>>
        /\ Near!view_ok =>
              <<Near!vested_now, Near!claimable_now>> = <<vested_now, claimable_now>>

\* A finer clock only makes the difference of one tick of the coarser one: a
\* contract that rounds the time down releases nothing that has not vested on
\* the finer clock, and the canister nothing that will not have vested at
\* the next coarse tick.
ClocksAgree ==
    grant # NoGrant /\ ~upgraded =>
        /\ heap.beneficiary = grant.beneficiary
        /\ near.claimed <= vested_at(heap.params, now_ns)
        /\ heap.claimed <= vested_at(grant.params, now + 1)
        /\ \A p \in Accounts :
              paid[p] = IF p = grant.beneficiary THEN heap.claimed ELSE 0

\* Gear: what a reply announced is still there for every later claim.
PromisesKept == Gear!PromisesKept
=============================================================================
