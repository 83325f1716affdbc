--------------------------- MODULE CosmWasmVesting ---------------------------
(***************************************************************************)
(* The CosmWasm vesting contract (vesting_application_examples/cosmwasm):  *)
(* instantiate, execute(Claim) and the queries, over the six storage items *)
(* and the block time.  An instantiation that returns an error is no step: *)
(* nothing exists after it either.                                         *)
(***************************************************************************)
EXTENDS VestingCore

CONSTANTS Addrs,         \* validated addresses
          NanosPerMs,    \* 1_000_000 in the code
          MaxNanos,      \* the last block time; u64::MAX in the code
          NoStorage      \* the storage before instantiate

ASSUME NanosPerMsAssumption == NanosPerMs \in Nat \ {0}
ASSUME MaxNanosAssumption == MaxNanos \in Nat /\ MaxNanos \div NanosPerMs <= MaxTime

VARIABLES storage,       \* BENEFICIARY, START, CLIFF_DURATION, ..., CLAIMED
          block_time     \* env.block.time, in nanoseconds

vars == <<storage, block_time>>

Storage == [beneficiary : Addrs, start : Times, cliff_duration : Times,
            vest_duration : Times, total : Amounts, claimed : Amounts]

ASSUME NoStorageAssumption == NoStorage \notin Storage

now_ms == block_time \div NanosPerMs

ax_has_beneficiary == storage # NoStorage

params_of(s) == [start |-> s.start, cliff_duration |-> s.cliff_duration,
                 vest_duration |-> s.vest_duration, total |-> s.total]

-----------------------------------------------------------------------------
Init ==
    /\ storage = NoStorage
    /\ block_time \in 0 .. MaxNanos

verified_instantiate(beneficiary, start, cliff_duration, vest_duration, total) ==
    storage' = [beneficiary |-> beneficiary, start |-> start,
                cliff_duration |-> cliff_duration, vest_duration |-> vest_duration,
                total |-> total, claimed |-> 0]

instantiate(beneficiary, start, cliff_duration, vest_duration, total) ==
    /\ vest_duration # 0
    /\ cliff_duration <= vest_duration
    /\ ~ax_has_beneficiary
    /\ verified_instantiate(beneficiary, start, cliff_duration, vest_duration, total)
    /\ UNCHANGED block_time

\* verified_claim returns Ok: neither Unauthorized nor ArithOverflow.
verified_claim_ok(sender, t) ==
    /\ sender = storage.beneficiary
    /\ compute_vested_ok(params_of(storage), t)

\* An error, and a claim that finds nothing to release, leave the storage alone.
verified_claim(sender, t) ==
    \/ /\ verified_claim_ok(sender, t)
       /\ storage' = [storage EXCEPT !.claimed =
                         @ + compute_claim(params_of(storage), t, @)]
    \/ /\ ~verified_claim_ok(sender, t)
       /\ UNCHANGED storage

execute(sender) ==
    /\ ax_has_beneficiary
    /\ verified_claim(sender, now_ms)
    /\ UNCHANGED block_time

\* The chain makes blocks; their time only grows.
NextBlock ==
    /\ block_time' \in 0 .. MaxNanos
    /\ block_time' > block_time
    /\ UNCHANGED storage

\* The queries, where they answer at all.
VestedNow == compute_vested(params_of(storage), now_ms)
ClaimableNow == compute_claim(params_of(storage), now_ms, storage.claimed)

Next ==
    \/ \E beneficiary \in Addrs, start, cliff_duration, vest_duration \in Times,
          total \in Amounts :
          instantiate(beneficiary, start, cliff_duration, vest_duration, total)
    \/ \E sender \in Addrs : execute(sender)
    \/ NextBlock

Spec == Init /\ [][Next]_vars

\* Blocks keep coming, and the beneficiary keeps claiming.
Fairness ==
    /\ WF_vars(NextBlock)
    /\ \A a \in Addrs : WF_vars(ax_has_beneficiary /\ storage.beneficiary = a /\ execute(a))

FairSpec == Spec /\ Fairness

-----------------------------------------------------------------------------
(* Properties.                                                             *)

\* vesting_ready, once instantiated: the invariant the verified helpers
\* require and that the entry points trust without checking it.
vesting_ready ==
    /\ storage \in Storage
    /\ well_formed(params_of(storage))
    /\ storage.claimed <= storage.total

TypeOK ==
    /\ block_time \in 0 .. MaxNanos
    /\ ax_has_beneficiary => vesting_ready

\* The queries agree with what a claim would do: as long as the schedule can
\* be computed, everything claimed has vested, so ClaimableNow is exactly the
\* difference and compute_claim never has to clamp it.
QueriesAgree ==
    ax_has_beneficiary /\ compute_vested_ok(params_of(storage), now_ms) =>
        storage.claimed + ClaimableNow = VestedNow

\* A grant exists whose end the block time can reach.
EndsInTime ==
    /\ ax_has_beneficiary
    /\ storage.start + storage.vest_duration <= MaxNanos \div NanosPerMs

\* A grant whose end the block time can reach is released in full, even when
\* the product of the schedule overflows and claims fail for a while.
FullyReleased ==
    EndsInTime ~> (ax_has_beneficiary /\ storage.claimed = storage.total)

\* The contract implements the abstract grant, with the block time in
\* milliseconds for its clock.
Grant == INSTANCE VestingGrant WITH
            Accounts <- Addrs, NoGrant <- NoStorage, now <- now_ms,
            grant <- IF ax_has_beneficiary
                     THEN [beneficiary |-> storage.beneficiary,
                           params |-> params_of(storage),
                           claimed |-> storage.claimed]
                     ELSE NoStorage
GrantSpec == Grant!Spec

\* What VestingGrant assumes of NoGrant.
ASSUME NoGrantAssumption == NoStorage \notin Grant!State
=============================================================================
