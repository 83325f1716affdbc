------------------------ MODULE VestingTargetsProofs ------------------------
(***************************************************************************)
(* One grant on six chains: for every schedule, every width of amounts and *)
(* times and every ratio of the two clocks, the ink! contract implements   *)
(* the abstract grant, the contracts on the same clock agree with it       *)
(* exactly, and those on the finer clock up to one coarse tick.            *)
(***************************************************************************)
EXTENDS VestingTargets, CoreProofs

-----------------------------------------------------------------------------
(* The grant.                                                              *)

\* The three invariants the run checks, which are inductive together: the
\* claimed amount fits its type because it stays within the schedule.
IInv ==
    /\ TypeOK
    /\ WithinSchedule
    /\ CliffHolds

LEMMA InitIInv == Init => IInv
  BY DEF Init, IInv, TypeOK, WithinSchedule, CliffHolds

LEMMA StepIInv == IInv /\ [Next]_vars => IInv'
<1> SUFFICES ASSUME IInv, [Next]_vars PROVE IInv'
  OBVIOUS
<1> USE MaxAmountAssumption, MaxTimeAssumption
<1>1. ASSUME NEW beneficiary \in Accounts, NEW params \in Params,
             Create(beneficiary, params)
      PROVE  IInv'
  <2>1. /\ well_formed(params)
        /\ grant' = [beneficiary |-> beneficiary, params |-> params, claimed |-> 0]
        /\ now' = now /\ now \in Nat /\ now \in Times
    BY <1>1 DEF Create, IInv, TypeOK, Times
  <2>2. /\ vested_at(params, now) \in Nat
        /\ vested_at(params, now) <= params.total
    BY <2>1, VestedBounded
  <2>3. TypeOK'
    BY <2>1 DEF TypeOK, State, Amounts
  <2>4. WithinSchedule'
    BY <2>1, <2>2 DEF WithinSchedule
  <2>5. CliffHolds'
    BY <2>1 DEF CliffHolds
  <2> QED BY <2>3, <2>4, <2>5 DEF IInv
<1>2. CASE Claim
  <2> DEFINE p == grant.params
  <2>1. /\ grant \in State /\ now \in Nat /\ now' = now /\ now \in Times
        /\ p \in Params /\ well_formed(p)
        /\ grant.claimed \in Amounts
        /\ grant.claimed <= vested_at(p, now)
        /\ grant # NoGrant
    BY <1>2 DEF Claim, IInv, TypeOK, WithinSchedule, State, Times
  <2>2. grant' = [grant EXCEPT !.claimed = vested_at(p, now)]
    BY <1>2, <2>1, ClaimReachesVested DEF Claim
  <2>3. /\ vested_at(p, now) \in Nat
        /\ vested_at(p, now) <= p.total
        /\ p.total <= MaxAmount
        /\ p.total \in Nat
    BY <2>1, VestedBounded, ScheduleParts
  <2>4. grant'.params = p /\ grant'.claimed = vested_at(p, now)
    BY <2>1, <2>2 DEF State
  <2>5. TypeOK'
    BY <2>1, <2>2, <2>3 DEF TypeOK, State, Amounts
  <2>6. WithinSchedule'
    BY <2>1, <2>3, <2>4 DEF WithinSchedule
  <2>7. CliffHolds'
    <3>1. vested_at(p, now) > 0 => now >= p.start + p.cliff_duration
      BY <2>1, ScheduleParts DEF vested_at
    <3> QED BY <2>1, <2>4, <3>1 DEF CliffHolds
  <2> QED BY <2>5, <2>6, <2>7 DEF IInv
<1>3. CASE Advance
  <2>1. /\ now \in Nat /\ now' \in Nat /\ now < now' /\ now' \in Times
        /\ grant' = grant
    BY <1>3 DEF Advance, IInv, TypeOK, Times
  <2>2. TypeOK'
    BY <2>1 DEF IInv, TypeOK
  <2>3. ASSUME grant # NoGrant PROVE WithinSchedule' /\ CliffHolds'
    <3> DEFINE p == grant.params
    <3>1. /\ p \in Params /\ well_formed(p) /\ grant.claimed \in Nat
          /\ grant.claimed <= vested_at(p, now)
          /\ grant.claimed > 0 => now >= p.start + p.cliff_duration
      BY <2>3 DEF IInv, TypeOK, WithinSchedule, CliffHolds, State, Amounts
    <3>2. /\ vested_at(p, now) <= vested_at(p, now')
          /\ vested_at(p, now) \in Nat /\ vested_at(p, now') \in Nat
          /\ vested_at(p, now') <= p.total
      BY <2>1, <3>1, VestedMonotonic, VestedBounded
    <3>3. p.start \in Nat /\ p.cliff_duration \in Nat
      BY <3>1, ScheduleParts
    <3>4. WithinSchedule'
      BY <2>1, <3>1, <3>2 DEF WithinSchedule
    <3>5. CliffHolds'
      BY <2>1, <3>1, <3>3 DEF CliffHolds
    <3> QED BY <3>4, <3>5
  <2>4. ASSUME grant = NoGrant PROVE WithinSchedule' /\ CliffHolds'
    BY <2>1, <2>4 DEF WithinSchedule, CliffHolds
  <2> QED BY <2>2, <2>3, <2>4 DEF IInv
<1>4. CASE UNCHANGED vars
  BY <1>4 DEF vars, IInv, TypeOK, WithinSchedule, CliffHolds
<1> QED BY <1>1, <1>2, <1>3, <1>4 DEF Next

LEMMA InvariantIInv == Spec => []IInv
  BY InitIInv, StepIInv, PTL DEF Spec

\* The claimed amount, computed over the integers, always fits the u128 it is
\* cast to, and the parties and the schedule keep their types.
THEOREM TypeCorrect == Spec => []TypeOK
<1>1. IInv => TypeOK
  BY DEF IInv
<1> QED BY <1>1, InvariantIInv, PTL

\* Whenever claims are made, what was released stays within the schedule.
THEOREM ReleasesWithinSchedule == Spec => []WithinSchedule
<1>1. IInv => WithinSchedule
  BY DEF IInv
<1> QED BY <1>1, InvariantIInv, PTL

\* Nothing is released before the cliff.
THEOREM CliffIsHeld == Spec => []CliffHolds
<1>1. IInv => CliffHolds
  BY DEF IInv
<1> QED BY <1>1, InvariantIInv, PTL

\* No step replaces the grant or takes back what was released.
LEMMA GrantKept ==
    ASSUME IInv, [Next]_vars, grant # NoGrant
    PROVE  /\ grant' # NoGrant
           /\ grant'.beneficiary = grant.beneficiary
           /\ grant'.params = grant.params
           /\ grant'.claimed >= grant.claimed
<1> USE MaxAmountAssumption, MaxTimeAssumption
<1>1. grant \in State /\ grant.claimed \in Nat
  BY DEF IInv, TypeOK, State, Amounts
<1>2. CASE Claim
  <2> DEFINE p == grant.params
  <2>1. /\ p \in Params /\ well_formed(p) /\ now \in Nat
        /\ grant.claimed \in Amounts
        /\ grant.claimed <= vested_at(p, now)
    BY DEF IInv, TypeOK, WithinSchedule, State, Times
  <2>2. /\ vested_at(p, now) \in Nat
        /\ vested_at(p, now) <= p.total
        /\ p.total <= MaxAmount
        /\ p.total \in Nat
    BY <2>1, VestedBounded, ScheduleParts
  <2>3. grant' = [grant EXCEPT !.claimed = vested_at(p, now)]
    BY <1>2, <2>1, ClaimReachesVested DEF Claim
  <2>4. grant' \in State
    BY <1>1, <2>2, <2>3 DEF State, Amounts
  <2> QED BY <1>1, <2>1, <2>3, <2>4, NoGrantAssumption DEF State
<1>3. CASE Advance
  BY <1>1, <1>3 DEF Advance
<1>4. CASE UNCHANGED vars
  BY <1>1, <1>4 DEF vars
<1> QED BY <1>2, <1>3, <1>4 DEF Next, Create

\* A grant, once created, stays and its releases are final.
THEOREM GrantIsIrrevocable == Spec => Irrevocable
<1>1. IInv /\ [Next]_vars =>
         [grant # NoGrant => /\ grant' # NoGrant
                             /\ grant'.beneficiary = grant.beneficiary
                             /\ grant'.params = grant.params
                             /\ grant'.claimed >= grant.claimed]_vars
  BY GrantKept
<1> QED BY <1>1, InvariantIInv, PTL DEF Spec, Irrevocable

-----------------------------------------------------------------------------
(* The contracts that read the coarse clock.                               *)

\* All five store the grant, and tell exactly what was claimed.
SameGrant ==
    /\ near = grant /\ program = grant /\ storage = grant /\ stored = grant
    /\ Claimed = IF grant = NoGrant THEN 0 ELSE grant.claimed
    /\ replied = Claimed

\* NEAR finds the time the others are given.
SameTime == now = now_ns \div NanosPerMilli /\ now_ns \in Times

\* No reply of the Gear program announced more than what has vested.
NotOverAnnounced ==
    /\ announced \in Nat
    /\ announced > 0 => grant # NoGrant /\ announced <= vested_at(grant.params, now)

CoarseInv == IInv /\ SameGrant /\ SameTime /\ NotOverAnnounced

LEMMA InitCoarseInv == TargetsInit => CoarseInv
<1> SUFFICES ASSUME TargetsInit PROVE CoarseInv
  OBVIOUS
<1>1. IInv
  BY InitIInv DEF TargetsInit, InkInit
<1>2. SameGrant
  BY DEF TargetsInit, InkInit, Init, Near!Init, Gear!Init, MultiversX!Init, Linera!Init,
         SameGrant
<1>3. SameTime
  BY DEF TargetsInit, Ic!Init, Ic!Times, Times, Near!block_timestamp_ms, SameTime
<1>4. NotOverAnnounced
  BY DEF TargetsInit, Gear!Init, NotOverAnnounced
<1> QED BY <1>1, <1>2, <1>3, <1>4 DEF CoarseInv

\* What a grant in a state of the invariant is.
LEMMA GrantParts ==
    ASSUME IInv, grant # NoGrant
    PROVE  /\ grant = [beneficiary |-> grant.beneficiary, params |-> grant.params,
                       claimed |-> grant.claimed]
           /\ grant.beneficiary \in Accounts
           /\ grant.params \in Params /\ well_formed(grant.params)
           /\ grant.claimed \in Nat /\ now \in Nat
           /\ grant.claimed <= vested_at(grant.params, now)
           /\ vested_at(grant.params, now) \in Nat
           /\ compute_vested(grant.params, now) = vested_at(grant.params, now)
<1>1. /\ grant \in State /\ now \in Nat /\ well_formed(grant.params)
      /\ grant.claimed <= vested_at(grant.params, now)
  BY MaxTimeAssumption DEF IInv, TypeOK, WithinSchedule, Times
<1>2. /\ grant = [beneficiary |-> grant.beneficiary, params |-> grant.params,
                  claimed |-> grant.claimed]
      /\ grant.beneficiary \in Accounts /\ grant.params \in Params
      /\ grant.claimed \in Nat
  BY <1>1, MaxAmountAssumption DEF State, Amounts
<1> QED BY <1>1, <1>2, VestedBounded, ComputeVestedExact

\* The arithmetic the contracts share finds what the schedule still owes.
LEMMA ClaimFindsRest ==
    ASSUME IInv, grant # NoGrant
    PROVE  /\ compute_claim(grant.params, now, grant.claimed) \in Nat
           /\ grant.claimed + compute_claim(grant.params, now, grant.claimed)
                 = vested_at(grant.params, now)
           /\ claimed_after_claim(grant.params, grant.claimed, now)
                 = vested_at(grant.params, now)
BY GrantParts DEF compute_claim, claimed_after_claim

-----------------------------------------------------------------------------
(* Steps of the ink! contract.                                             *)

\* The constructor.
LEMMA InkNewStep ==
    ASSUME NEW beneficiary \in Accounts, NEW params \in Params, new(beneficiary, params)
    PROVE  [Next]_vars
BY DEF new, Next, Create

\* A claim the contract answers is the core's claim step.
LEMMA InkClaimStep ==
    ASSUME IInv, NEW caller \in Accounts, claim(caller)
    PROVE  [Next]_vars
<1>1. CASE verified_claim_step_ok(caller)
  <2>1. /\ grant # NoGrant
        /\ grant' = [grant EXCEPT !.claimed =
                        grant.claimed + compute_claim(grant.params, now, grant.claimed)]
        /\ now' = now
    BY <1>1 DEF claim
  <2>2. grant' = [grant EXCEPT !.claimed =
                     claimed_after_claim(grant.params, grant.claimed, now)]
    BY <2>1, ClaimFindsRest
  <2> QED BY <2>1, <2>2 DEF Next, Claim
<1>2. CASE ~verified_claim_step_ok(caller)
  BY <1>2 DEF claim, vars
<1> QED BY <1>1, <1>2

\* Rounding a time down to a coarser unit gives a time, and keeps the order.
LEMMA Coarser ==
    ASSUME NEW k \in Nat \ {0}, NEW t \in Nat, NEW u \in Nat, t <= u, u <= MaxTime
    PROVE  /\ t \div k \in Times /\ u \div k \in Times
           /\ t \div k <= u \div k
<1> USE MaxTimeAssumption
<1>1. t \div k <= u \div k
  BY DivMonotonic
<1>2. /\ t \div k \in Nat /\ u \div k \in Nat
      /\ k * (u \div k) <= u
  BY Quotient
<1>3. u \div k <= k * (u \div k)
  <2> DEFINE q == u \div k
  <2>1. q \in Nat
    BY <1>2
  <2> HIDE DEF q
  <2>2. q * 1 <= q * k
    BY <2>1, TimesMonotonic
  <2>3. q <= k * q
    BY <2>1, <2>2
  <2> QED BY <2>3 DEF q
<1>4. k * (u \div k) \in Nat
  BY <1>2, TimesNat
<1> QED BY <1>1, <1>2, <1>3, <1>4 DEF Times

\* Time, which the finer clock brings in ticks.
LEMMA CoarseTime ==
    ASSUME SameTime, Tick
    PROVE  /\ now \in Times /\ now' \in Times /\ now' >= now
           /\ SameTime'
           /\ now_ns \in Nat /\ now_ns' \in Nat /\ now_ns' > now_ns
<1>1. now_ns' \in Times /\ now_ns' > now_ns /\ now' = now_ns' \div NanosPerMilli
  BY DEF Tick, Ic!Tick, Ic!Times, Times
<1>2. now_ns \in Nat /\ now_ns' \in Nat /\ now_ns' <= MaxTime /\ now_ns <= now_ns'
  BY <1>1, MaxTimeAssumption DEF SameTime, Times
<1> DEFINE coarse_now == now_ns \div NanosPerMilli
           coarse_next == now_ns' \div NanosPerMilli
<1>3. coarse_now \in Times /\ coarse_next \in Times /\ coarse_now <= coarse_next
  BY <1>2, Coarser, NanosPerMilliAssumption
<1>4. now = coarse_now /\ now' = coarse_next
  BY <1>1 DEF SameTime
<1> HIDE DEF coarse_now, coarse_next
<1>5. now \in Times /\ now' \in Times /\ now' >= now
  BY <1>3, <1>4, MaxTimeAssumption DEF Times
<1> QED BY <1>1, <1>2, <1>5 DEF SameTime

-----------------------------------------------------------------------------
(* Every step keeps what the coarse contracts store.                       *)

LEMMA DeployCoarse ==
    ASSUME CoarseInv, NEW beneficiary \in Accounts, NEW params \in SharedParams,
           Deploy(beneficiary, params)
    PROVE  CoarseInv' /\ [Next]_vars
<1>0. params \in Params
  BY DEF SharedParams
<1>1. [Next]_vars
  BY <1>0, InkNewStep DEF Deploy
<1>2. IInv'
  BY <1>1, StepIInv DEF CoarseInv
<1>3. /\ grant = NoGrant
      /\ grant' = [beneficiary |-> beneficiary, params |-> params, claimed |-> 0]
      /\ near' = grant' /\ program' = grant' /\ storage' = grant' /\ stored' = grant'
      /\ UNCHANGED <<Claimed, replied, announced, now, now_ns>>
  BY DEF Deploy, new, Near!new, Gear!init, MultiversX!init, Linera!instantiate
<1>4. SameGrant'
  BY <1>3 DEF CoarseInv, SameGrant
<1>5. SameTime' /\ NotOverAnnounced'
  BY <1>3 DEF CoarseInv, SameTime, NotOverAnnounced
<1> QED BY <1>1, <1>2, <1>4, <1>5 DEF CoarseInv

\* The crates call one and the same core.
LEMMA SameCore ==
    ASSUME NEW p, NEW t, NEW c
    PROVE  /\ Near!compute_vested_ok(p, t) = compute_vested_ok(p, t)
           /\ Gear!compute_vested_ok(p, t) = compute_vested_ok(p, t)
           /\ MultiversX!compute_vested_ok(p, t) = compute_vested_ok(p, t)
           /\ Linera!compute_vested_ok(p, t) = compute_vested_ok(p, t)
           /\ Ic!compute_vested_ok(p, t) = compute_vested_ok(p, t)
           /\ Near!compute_vested(p, t) = compute_vested(p, t)
           /\ Gear!compute_vested(p, t) = compute_vested(p, t)
           /\ MultiversX!compute_vested(p, t) = compute_vested(p, t)
           /\ Ic!compute_vested(p, t) = compute_vested(p, t)
           /\ Near!compute_claim(p, t, c) = compute_claim(p, t, c)
           /\ Gear!compute_claim(p, t, c) = compute_claim(p, t, c)
           /\ MultiversX!compute_claim(p, t, c) = compute_claim(p, t, c)
           /\ Linera!compute_claim(p, t, c) = compute_claim(p, t, c)
           /\ Ic!compute_claim(p, t, c) = compute_claim(p, t, c)
BY DEF compute_vested_ok, in_linear_branch, compute_vested, compute_claim,
       Near!compute_vested_ok, Near!in_linear_branch, Near!compute_vested, Near!compute_claim,
       Gear!compute_vested_ok, Gear!in_linear_branch, Gear!compute_vested, Gear!compute_claim,
       MultiversX!compute_vested_ok, MultiversX!in_linear_branch,
       MultiversX!compute_vested, MultiversX!compute_claim,
       Linera!compute_vested_ok, Linera!in_linear_branch,
       Linera!compute_vested, Linera!compute_claim,
       Ic!compute_vested_ok, Ic!in_linear_branch, Ic!compute_vested, Ic!compute_claim

LEMMA ClaimCoarse ==
    ASSUME CoarseInv, NEW caller \in Accounts, ClaimAll(caller)
    PROVE  CoarseInv' /\ [Next]_vars /\ grant # NoGrant
<1>0. /\ IInv /\ grant # NoGrant
      /\ near = grant /\ program = grant /\ storage = grant /\ stored = grant
      /\ now = Near!block_timestamp_ms
      /\ UNCHANGED <<announced, now, now_ns>>
  BY DEF CoarseInv, SameGrant, SameTime, Near!block_timestamp_ms,
         ClaimAll, claim, Near!claim, Gear!handle_Claim
<1>1. [Next]_vars
  BY <1>0, InkClaimStep DEF ClaimAll
<1>2. IInv'
  BY <1>0, <1>1, StepIInv
<1> DEFINE amount == compute_claim(grant.params, now, grant.claimed)
           paid_out == [grant EXCEPT !.claimed = grant.claimed + amount]
           accepted == caller = grant.beneficiary /\ compute_vested_ok(grant.params, now)
<1>3. amount \in Nat /\ (amount = 0 => paid_out = grant)
  BY <1>0, GrantParts, ClaimFindsRest
<1>4. grant' = IF accepted THEN paid_out ELSE grant
  BY DEF ClaimAll, claim, verified_claim_step_ok
<1>5. near' = IF accepted THEN paid_out ELSE grant
  BY <1>0, SameCore DEF ClaimAll, Near!claim, Near!verified_claim_ok, Near!view_ok, Near!claimable_now
<1>6. program' = IF accepted THEN paid_out ELSE grant
  BY <1>0, SameCore DEF ClaimAll, Gear!handle_Claim, Gear!apply_claim_ok, Gear!schedule_ok,
                        Gear!claimable
<1>7. storage' = IF accepted THEN paid_out ELSE grant
  BY <1>0, <1>3, SameCore DEF ClaimAll, MultiversX!claim, MultiversX!verified_claim_step_ok,
                              MultiversX!schedule_ok, MultiversX!amount
<1>8. stored' = IF accepted THEN paid_out ELSE grant
  BY <1>0, SameCore, NobodyAssumption
     DEF ClaimAll, Linera!verified_claim_step, Linera!verified_claim_step_ok
<1>9. /\ Claimed' = IF accepted THEN Claimed + amount ELSE Claimed
      /\ replied' = IF accepted THEN replied + amount ELSE replied
  BY <1>0, SameCore DEF ClaimAll, claim, verified_claim_step_ok, Gear!handle_Claim,
                        Gear!apply_claim_ok, Gear!schedule_ok, Gear!claimable
<1>10. /\ grant' # NoGrant /\ grant'.params = grant.params
       /\ grant'.claimed = IF accepted THEN grant.claimed + amount ELSE grant.claimed
  <2>1. CASE accepted
    <3>1. grant' = [beneficiary |-> grant.beneficiary, params |-> grant.params,
                    claimed |-> grant.claimed + amount]
      BY <1>0, <1>4, <2>1, GrantParts
    <3>2. grant' \in State
      <4>1. grant.claimed + amount \in Amounts
        BY <1>0, GrantParts, ClaimFindsRest, VestedBounded, ScheduleParts,
           MaxAmountAssumption DEF Amounts
      <4> QED BY <1>0, <3>1, <4>1, GrantParts DEF State
    <3> QED BY <2>1, <3>1, <3>2, NoGrantAssumption
  <2>2. CASE ~accepted
    BY <1>0, <1>4, <2>2
  <2> QED BY <2>1, <2>2
<1>11. SameGrant'
  <2>1. Claimed = grant.claimed /\ replied = Claimed
    BY <1>0 DEF CoarseInv, SameGrant
  <2> QED BY <1>4, <1>5, <1>6, <1>7, <1>8, <1>9, <1>10, <2>1 DEF SameGrant
<1>12. SameTime' /\ NotOverAnnounced'
  BY <1>0, <1>10 DEF CoarseInv, SameTime, NotOverAnnounced
<1> QED BY <1>0, <1>1, <1>2, <1>11, <1>12 DEF CoarseInv

\* Without a signer nothing is released.
LEMMA UnsignedCoarse ==
    ASSUME CoarseInv, ClaimUnsigned
    PROVE  CoarseInv' /\ UNCHANGED <<coarse, clocks>>
<1>1. UNCHANGED <<ink, near, program, replied, announced, storage, ic, clocks>>
  BY DEF ClaimUnsigned
<1>2. stored' = stored
  BY DEF ClaimUnsigned, Linera!verified_claim_step, Linera!verified_claim_step_ok
<1>3. CoarseInv'
  BY <1>1, <1>2 DEF ink, clocks, CoarseInv, IInv, TypeOK, WithinSchedule, CliffHolds,
                    SameGrant, SameTime, NotOverAnnounced
<1> QED BY <1>1, <1>2, <1>3 DEF coarse

\* A reply to a query announces at most what has vested.
LEMMA AskGearCoarse ==
    ASSUME CoarseInv, AskGear
    PROVE  CoarseInv' /\ UNCHANGED <<ink, clocks, near>>
<1>1. UNCHANGED <<ink, near, program, replied, storage, stored, ic, clocks>>
  BY DEF AskGear, Gear!handle_queries
<1>2. /\ IInv /\ grant # NoGrant /\ program = grant
      /\ announced \in Nat
      /\ announced > 0 => announced <= vested_at(grant.params, now)
  BY DEF AskGear, Gear!handle_queries, CoarseInv, SameGrant, NotOverAnnounced
<1>3. PICK n \in {program.claimed} \cup
                    (IF Gear!schedule_ok
                     THEN {Gear!compute_vested(program.params, now),
                           program.claimed + Gear!claimable}
                     ELSE {}) :
         announced' = Gear!Max({announced, n})
  BY DEF AskGear, Gear!handle_queries
<1>4. n \in Nat /\ n <= vested_at(grant.params, now)
  BY <1>2, <1>3, SameCore, GrantParts, ClaimFindsRest DEF Gear!claimable
<1>5. announced' \in {announced, n}
  BY <1>2, <1>3, <1>4 DEF Gear!Max
<1>6. NotOverAnnounced'
  BY <1>1, <1>2, <1>4, <1>5 DEF NotOverAnnounced, ink, clocks
<1>7. IInv' /\ SameGrant' /\ SameTime'
  BY <1>1 DEF ink, clocks, CoarseInv, IInv, TypeOK, WithinSchedule, CliffHolds,
              SameGrant, SameTime
<1> QED BY <1>1, <1>6, <1>7 DEF CoarseInv

LEMMA TickCoarse ==
    ASSUME CoarseInv, Tick
    PROVE  CoarseInv' /\ [Next]_vars
<1>1. /\ now \in Times /\ now' \in Times /\ now' >= now /\ SameTime'
      /\ UNCHANGED <<grant, Claimed, near, program, replied, announced, storage, stored>>
  BY CoarseTime DEF CoarseInv, Tick, coarse, ink
<1>2. [Next]_vars
  <2>1. CASE now' > now
    BY <1>1, <2>1 DEF Next, Advance
  <2>2. CASE ~(now' > now)
    <3>1. now' = now
      BY <1>1, <2>2, MaxTimeAssumption DEF Times
    <3> QED BY <1>1, <3>1 DEF vars
  <2> QED BY <2>1, <2>2
<1>3. IInv'
  BY <1>2, StepIInv DEF CoarseInv
<1>4. SameGrant'
  BY <1>1 DEF CoarseInv, SameGrant
<1>5. NotOverAnnounced'
  <2>1. CASE grant = NoGrant
    BY <1>1, <2>1 DEF CoarseInv, NotOverAnnounced
  <2>2. CASE grant # NoGrant
    <3>1. /\ grant.params \in Params /\ well_formed(grant.params)
          /\ now \in Nat /\ now' \in Nat
      BY <1>1, <2>2, GrantParts, MaxTimeAssumption DEF CoarseInv, Times
    <3>2. /\ vested_at(grant.params, now) <= vested_at(grant.params, now')
          /\ vested_at(grant.params, now) \in Nat
          /\ vested_at(grant.params, now') \in Nat
      BY <1>1, <3>1, VestedMonotonic, VestedBounded
    <3> QED BY <1>1, <2>2, <3>2 DEF CoarseInv, NotOverAnnounced
  <2> QED BY <2>1, <2>2
<1> QED BY <1>1, <1>2, <1>3, <1>4, <1>5 DEF CoarseInv

\* An upgrade of the canister is not noticed elsewhere.
LEMMA UpgradeCoarse ==
    ASSUME CoarseInv, UpgradeCanister
    PROVE  CoarseInv' /\ UNCHANGED <<coarse, clocks>>
<1>1. UNCHANGED <<coarse, now, now_ns>>
  BY DEF UpgradeCanister, Ic!Upgrade
<1>2. CoarseInv'
  BY <1>1 DEF coarse, ink, CoarseInv, IInv, TypeOK, WithinSchedule, CliffHolds,
              SameGrant, SameTime, NotOverAnnounced
<1> QED BY <1>1, <1>2 DEF clocks

-----------------------------------------------------------------------------
(* Theorems about the contracts that read the coarse clock.                *)

targets_vars == <<coarse, ic, clocks>>

LEMMA StepCoarseInv == CoarseInv /\ [TargetsNext]_targets_vars => CoarseInv' /\ [Next]_vars
<1> SUFFICES ASSUME CoarseInv, [TargetsNext]_targets_vars PROVE CoarseInv' /\ [Next]_vars
  OBVIOUS
<1>1. ASSUME NEW beneficiary \in Accounts, NEW params \in SharedParams,
             Deploy(beneficiary, params)
      PROVE  CoarseInv' /\ [Next]_vars
  BY <1>1, DeployCoarse
<1>2. ASSUME NEW caller \in Accounts, ClaimAll(caller)
      PROVE  CoarseInv' /\ [Next]_vars
  BY <1>2, ClaimCoarse
<1>3. CASE ClaimUnsigned
  BY <1>3, UnsignedCoarse DEF coarse, clocks, ink, vars
<1>4. CASE AskGear
  BY <1>4, AskGearCoarse DEF clocks, ink, vars
<1>5. CASE Tick
  BY <1>5, TickCoarse
<1>6. CASE UpgradeCanister
  BY <1>6, UpgradeCoarse DEF coarse, clocks, ink, vars
<1>7. CASE UNCHANGED targets_vars
  BY <1>7 DEF targets_vars, coarse, clocks, ink, vars, CoarseInv, IInv, TypeOK,
              WithinSchedule, CliffHolds, SameGrant, SameTime, NotOverAnnounced
<1> QED BY <1>1, <1>2, <1>3, <1>4, <1>5, <1>6, <1>7 DEF TargetsNext

LEMMA InvariantCoarseInv == TargetsSpec => []CoarseInv
BY InitCoarseInv, StepCoarseInv, PTL DEF TargetsSpec, targets_vars

\* What the ink! contract stores always fits its type: no claim and no tick of
\* the divided clock leaves the range of a u128 or a u64.
THEOREM TypeCorrectOnTargets == TargetsSpec => []TypeOK
<1>1. CoarseInv => TypeOK
  BY DEF CoarseInv, IInv
<1> QED BY <1>1, InvariantCoarseInv, PTL

\* No claim on the coarse clock releases more than what has vested by then, and
\* so never more than the total.
THEOREM ReleasesWithinScheduleOnTargets == TargetsSpec => []WithinSchedule
<1>1. CoarseInv => WithinSchedule
  BY DEF CoarseInv, IInv
<1> QED BY <1>1, InvariantCoarseInv, PTL

\* Every call of the ink! contract is a step of the abstract grant.
THEOREM InkImplementsGrant == TargetsSpec => GrantSpec
<1>1. TargetsInit => Init
  BY DEF TargetsInit, InkInit
<1> QED BY <1>1, StepCoarseInv, InvariantCoarseInv, PTL
        DEF TargetsSpec, targets_vars, GrantSpec, Spec

\* The views of the ink! contract promise nothing that has not vested, also
\* where an overflow makes them answer 0.
THEOREM ViewsNeverOverstate == TargetsSpec => []ViewsArePrudent
<1>1. CoarseInv => ViewsArePrudent
  <2> SUFFICES ASSUME IInv, grant # NoGrant
               PROVE  /\ grant.claimed + claimable_now <= vested_at(grant.params, now)
                      /\ vested_now <= vested_at(grant.params, now)
    BY DEF CoarseInv, ViewsArePrudent
  <2>1. CASE compute_vested_ok(grant.params, now)
    BY <2>1, GrantParts, ClaimFindsRest DEF claimable_now, vested_now, unwrap_or_0
  <2>2. CASE ~compute_vested_ok(grant.params, now)
    BY <2>2, GrantParts DEF claimable_now, vested_now, unwrap_or_0
  <2> QED BY <2>1, <2>2
<1> QED BY <1>1, InvariantCoarseInv, PTL

\* Contracts on the same clock hold the same grant and answer the same, and
\* events and replies add up to what was claimed.
THEOREM TargetsHoldSameGrant == TargetsSpec => []TargetsAgree
<1>1. CoarseInv => TargetsAgree
  <2> SUFFICES ASSUME CoarseInv, grant # NoGrant
               PROVE  /\ \A other \in {near, program, storage, stored} : other = grant
                      /\ {Claimed, replied} = {grant.claimed}
                      /\ <<MultiversX!vested_now, MultiversX!claimable_now>>
                            = <<vested_now, claimable_now>>
                      /\ Near!view_ok => <<Near!vested_now, Near!claimable_now>>
                                            = <<vested_now, claimable_now>>
    BY DEF TargetsAgree
  <2>1. /\ near = grant /\ program = grant /\ storage = grant /\ stored = grant
        /\ Claimed = grant.claimed /\ replied = grant.claimed
        /\ now = Near!block_timestamp_ms
    BY DEF CoarseInv, SameGrant, SameTime, Near!block_timestamp_ms
  <2>2. /\ MultiversX!vested_now = vested_now
        /\ MultiversX!claimable_now = claimable_now
    BY <2>1, SameCore DEF MultiversX!vested_now, MultiversX!claimable_now,
                          MultiversX!unwrap_or_0, MultiversX!schedule_ok, MultiversX!amount,
                          vested_now, claimable_now, unwrap_or_0
  <2>3. Near!view_ok => Near!vested_now = vested_now /\ Near!claimable_now = claimable_now
    BY <2>1, SameCore DEF Near!view_ok, Near!vested_now, Near!claimable_now,
                          vested_now, claimable_now, unwrap_or_0
  <2> QED BY <2>1, <2>2, <2>3
<1> QED BY <1>1, InvariantCoarseInv, PTL

\* A claim the Gear program answers leaves the beneficiary with no less than
\* any earlier reply announced.
THEOREM AnnouncementsAreKept == TargetsSpec => PromisesKept
<1>1. CoarseInv =>
         \A source \in Accounts :
            program # NoGrant /\ Gear!apply_claim_ok(source) /\ Gear!handle_Claim(source)
               => program'.claimed >= announced
  <2> SUFFICES ASSUME CoarseInv, NEW source \in Accounts, program # NoGrant,
                      Gear!apply_claim_ok(source), Gear!handle_Claim(source)
               PROVE  program'.claimed >= announced
    OBVIOUS
  <2>1. /\ IInv /\ grant # NoGrant /\ program = grant
        /\ announced \in Nat
        /\ announced > 0 => announced <= vested_at(grant.params, now)
    BY DEF CoarseInv, SameGrant, NotOverAnnounced
  <2>2. program' = [grant EXCEPT !.claimed =
                       grant.claimed + compute_claim(grant.params, now, grant.claimed)]
    BY <2>1, SameCore DEF Gear!handle_Claim, Gear!claimable
  <2>3. program'.claimed = vested_at(grant.params, now)
    BY <2>1, <2>2, GrantParts, ClaimFindsRest
  <2> QED BY <2>1, <2>3, GrantParts
<1> QED BY <1>1, InvariantCoarseInv, PTL DEF PromisesKept, Gear!PromisesKept

-----------------------------------------------------------------------------
(* The schedule on the finer clock.                                        *)

\* A quotient does not change when both sides are scaled.
LEMMA ScaledQuotient ==
    ASSUME NEW k \in Nat \ {0}, NEW d \in Nat \ {0}, NEW n \in Nat
    PROVE  (k * n) \div (k * d) = n \div d
<1> DEFINE q == n \div d
           r == (k * n) \div (k * d)
<1>1. q \in Nat /\ d * q <= n /\ n < d * q + d
  BY Quotient
<1>2. k * n \in Nat /\ k * d \in Nat \ {0}
  <2>1. k * n \in Nat /\ k * d \in Nat /\ k * 1 <= k * d
    BY TimesNat, TimesMonotonic
  <2> QED BY <2>1
<1>3. r \in Nat /\ (k * d) * r <= k * n /\ k * n < (k * d) * r + k * d
  BY <1>2, Quotient
<1> HIDE DEF q, r
<1>4. (k * d) * r = k * (d * r) /\ (k * d) * r + k * d = k * (d * r + d)
  BY <1>1, <1>3
<1>5. d * r \in Nat /\ d * q \in Nat
  BY <1>1, <1>3, TimesNat
<1>6. d * r <= n
  <2>1. SUFFICES ASSUME n + 1 <= d * r PROVE FALSE
    BY <1>5
  <2>2. k * (n + 1) <= k * (d * r)
    BY <1>5, <2>1, TimesMonotonic
  <2>3. k * (n + 1) = k * n + k
    OBVIOUS
  <2>4. k * (d * r) \in Nat
    BY <1>5, TimesNat
  <2> QED BY <1>2, <1>3, <1>4, <2>2, <2>3, <2>4
<1>7. n < d * r + d
  <2>1. SUFFICES ASSUME d * r + d <= n PROVE FALSE
    BY <1>5
  <2>2. k * (d * r + d) <= k * n
    BY <1>5, <2>1, TimesMonotonic
  <2>3. k * (d * r + d) \in Nat
    BY <1>5, TimesNat
  <2> QED BY <1>2, <1>3, <1>4, <2>2, <2>3
<1>8. q <= r
  <2>1. SUFFICES ASSUME r + 1 <= q PROVE FALSE
    BY <1>1, <1>3
  <2>2. d * (r + 1) <= d * q /\ d * (r + 1) = d * r + d
    BY <1>1, <1>3, <2>1, TimesMonotonic
  <2> QED BY <1>1, <1>5, <1>7, <2>2
<1>9. r <= q
  <2>1. SUFFICES ASSUME q + 1 <= r PROVE FALSE
    BY <1>1, <1>3
  <2>2. d * (q + 1) <= d * r /\ d * (q + 1) = d * q + d
    BY <1>1, <1>3, <2>1, TimesMonotonic
  <2> QED BY <1>1, <1>5, <1>6, <2>2
<1>10. q = r
  BY <1>1, <1>3, <1>8, <1>9
<1> QED BY <1>10 DEF q, r

\* Scaling by a positive number keeps the order, both ways.
LEMMA ScaledOrder ==
    ASSUME NEW k \in Nat \ {0}, NEW a \in Nat, NEW b \in Nat
    PROVE  /\ k * a \in Nat /\ k * b \in Nat
           /\ (k * a < k * b) <=> (a < b)
<1>1. k * a \in Nat /\ k * b \in Nat
  BY TimesNat
<1>2. ASSUME a < b PROVE k * a < k * b
  <2>1. k * (a + 1) <= k * b /\ k * (a + 1) = k * a + k
    BY <1>2, TimesMonotonic
  <2> QED BY <1>1, <2>1
<1>3. ASSUME b <= a PROVE k * b <= k * a
  BY <1>3, TimesMonotonic
<1> QED BY <1>1, <1>2, <1>3

\* At a tick of the coarse clock, the schedule says the same on both.
LEMMA ScaledSchedule ==
    ASSUME NEW p \in Params, well_formed(p), NEW t \in Nat
    PROVE  vested_at(in_nanos(p), NanosPerMilli * t) = vested_at(p, t)
<1> DEFINE k == NanosPerMilli
           P == in_nanos(p)
<1>1. /\ k \in Nat \ {0}
      /\ p.start \in Nat /\ p.cliff_duration \in Nat
      /\ p.vest_duration \in Nat \ {0} /\ p.total \in Nat
  BY ScheduleParts, NanosPerMilliAssumption
<1>2. /\ P.start = k * p.start /\ P.cliff_duration = k * p.cliff_duration
      /\ P.vest_duration = k * p.vest_duration /\ P.total = p.total
  BY DEF in_nanos, Params
<1> HIDE DEF k, P
<1>3. /\ P.start + P.cliff_duration = k * (p.start + p.cliff_duration)
      /\ P.start + P.vest_duration = k * (p.start + p.vest_duration)
  BY <1>1, <1>2
<1>4. /\ k * t < P.start + P.cliff_duration <=> t < p.start + p.cliff_duration
      /\ k * t < P.start + P.vest_duration <=> t < p.start + p.vest_duration
  BY <1>1, <1>3, ScaledOrder
<1>5. /\ k * t \in Nat /\ P.start + P.vest_duration \in Nat
      /\ P.start + P.cliff_duration \in Nat
  BY <1>1, <1>3, TimesNat
<1>6. vested_at(P, k * t) = vested_at(p, t)
  <2>1. CASE t < p.start + p.cliff_duration
    BY <1>4, <2>1 DEF vested_at
  <2>2. CASE ~(t < p.start + p.cliff_duration) /\ t >= p.start + p.vest_duration
    BY <1>1, <1>2, <1>4, <1>5, <2>2 DEF vested_at
  <2>3. CASE ~(t < p.start + p.cliff_duration) /\ t < p.start + p.vest_duration
    <3>1. t - p.start \in Nat
      BY <1>1, <2>3
    <3>2. p.total * (t - p.start) \in Nat
      BY <1>1, <3>1, TimesNat
    <3>3. P.total * (k * t - P.start) = k * (p.total * (t - p.start))
      <4>1. k * t - k * p.start = k * (t - p.start)
        BY <1>1
      <4> QED BY <1>1, <1>2, <3>1, <4>1
    <3>4. (P.total * (k * t - P.start)) \div P.vest_duration
             = (p.total * (t - p.start)) \div p.vest_duration
      BY <1>1, <1>2, <3>2, <3>3, ScaledQuotient
    <3> QED BY <1>1, <1>4, <1>5, <2>3, <3>4 DEF vested_at
  <2> QED BY <1>1, <2>1, <2>2, <2>3
<1> QED BY <1>6 DEF k, P

-----------------------------------------------------------------------------
(* The canister.                                                           *)

\* Until it is upgraded, the canister holds the grant in ticks of the finer
\* clock and paid its beneficiary what it counts as claimed; an upgraded one
\* holds the default.
CanisterInv ==
    /\ Ic!TypeOK
    /\ installed <=> grant # NoGrant
    /\ ~installed \/ upgraded => heap = Ic!default
    /\ upgraded => installed
    /\ ~installed => \A p \in Accounts : paid[p] = 0
    /\ installed /\ ~upgraded =>
          /\ heap.beneficiary = grant.beneficiary
          /\ heap.params = in_nanos(grant.params)
          /\ heap.params \in Params /\ well_formed(heap.params)
          /\ heap.claimed <= vested_at(heap.params, now_ns)
          /\ \A p \in Accounts :
                paid[p] = IF p = grant.beneficiary THEN heap.claimed ELSE 0

\* The canister's copies of the core's types.
LEMMA CanisterTypes ==
    /\ Ic!Params = Params /\ Ic!Amounts = Amounts /\ Ic!Times = Times
    /\ \A p : Ic!well_formed(p) <=> well_formed(p)
BY DEF Ic!Params, Params, Ic!Amounts, Amounts, Ic!Times, Times,
       Ic!well_formed, well_formed

\* The default heap.
LEMMA DefaultHeap ==
    /\ Ic!default \in Ic!VestingState
    /\ Ic!default.beneficiary = Nobody
    /\ Ic!default.claimed = 0
    /\ \A t \in Nat : ~Ic!in_linear_branch(Ic!default.params, t)
<1>1. 0 \in Times /\ 0 \in Amounts
  BY MaxTimeAssumption, MaxAmountAssumption DEF Times, Amounts
<1>2. Ic!default \in Ic!VestingState
  BY <1>1, CanisterTypes DEF Ic!default, Ic!VestingState, Params
<1>3. ASSUME NEW t \in Nat PROVE ~Ic!in_linear_branch(Ic!default.params, t)
  BY DEF Ic!default, Ic!in_linear_branch
<1> QED BY <1>2, <1>3 DEF Ic!default

\* What the heap of a canister in use holds.
LEMMA HeapParts ==
    ASSUME CoarseInv, CanisterInv, installed, ~upgraded
    PROVE  /\ heap = [beneficiary |-> heap.beneficiary, params |-> heap.params,
                      claimed |-> heap.claimed]
           /\ grant # NoGrant /\ heap.beneficiary \in Accounts
           /\ heap.params \in Params /\ well_formed(heap.params)
           /\ heap.claimed \in Nat /\ now_ns \in Nat
           /\ heap.claimed <= vested_at(heap.params, now_ns)
           /\ vested_at(heap.params, now_ns) \in Amounts
           /\ compute_vested(heap.params, now_ns) = vested_at(heap.params, now_ns)
<1>1. /\ heap \in Ic!VestingState /\ grant # NoGrant
      /\ heap.beneficiary = grant.beneficiary
      /\ heap.params \in Params /\ well_formed(heap.params)
      /\ heap.claimed <= vested_at(heap.params, now_ns)
      /\ now_ns \in Nat
  BY CanisterTypes, MaxTimeAssumption DEF CanisterInv, Ic!TypeOK, Times
<1>2. /\ heap = [beneficiary |-> heap.beneficiary, params |-> heap.params,
                 claimed |-> heap.claimed]
      /\ heap.claimed \in Nat
  BY <1>1, CanisterTypes, MaxAmountAssumption DEF Ic!VestingState, Amounts
<1>3. vested_at(heap.params, now_ns) \in Amounts
  BY <1>1, VestedBounded, ScheduleParts, MaxAmountAssumption DEF Amounts
<1> QED BY <1>1, <1>2, <1>3, GrantParts, ComputeVestedExact DEF CoarseInv

\* The amount of a claim is what the schedule still owes on the finer clock.
LEMMA HeapOwesRest ==
    ASSUME CoarseInv, CanisterInv, installed, ~upgraded
    PROVE  /\ Ic!amount \in Nat
           /\ heap.claimed + Ic!amount = vested_at(heap.params, now_ns)
BY HeapParts, SameCore, MaxAmountAssumption DEF Ic!amount, compute_claim, Amounts

LEMMA InitCanisterInv == TargetsInit => CanisterInv
<1> SUFFICES ASSUME TargetsInit PROVE CanisterInv
  OBVIOUS
<1>1. /\ heap = Ic!default /\ now_ns \in Ic!Times /\ installed = FALSE /\ upgraded = FALSE
      /\ paid = [p \in Accounts |-> 0] /\ grant = NoGrant
  BY DEF TargetsInit, Ic!Init, InkInit, Init
<1>2. 0 \in Ic!Amounts
  BY CanisterTypes, MaxAmountAssumption DEF Amounts
<1> QED BY <1>1, <1>2, DefaultHeap DEF CanisterInv, Ic!TypeOK

LEMMA DeployCanister ==
    ASSUME CanisterInv, NEW beneficiary \in Accounts, NEW params \in SharedParams,
           CoarseInv, CoarseInv', Deploy(beneficiary, params)
    PROVE  CanisterInv'
<1> DEFINE scaled == in_nanos(params)
<1>1. /\ scaled \in Params /\ well_formed(scaled)
      /\ ~installed /\ ~upgraded /\ installed' /\ ~upgraded'
      /\ heap' = [beneficiary |-> beneficiary, params |-> scaled, claimed |-> 0]
      /\ UNCHANGED <<now_ns, paid>>
  BY CanisterTypes DEF Deploy, Ic!init, SharedParams, CanisterInv, Ic!TypeOK
<1>2. grant' = [beneficiary |-> beneficiary, params |-> params, claimed |-> 0]
  BY DEF Deploy, new
<1>3. grant' # NoGrant
  <2>1. 0 \in Amounts /\ params \in Params
    BY MaxAmountAssumption DEF Amounts, SharedParams
  <2> QED BY <1>2, <2>1, NoGrantAssumption DEF State
<1>4. now_ns \in Nat /\ vested_at(scaled, now_ns) \in Nat
  <2>1. now_ns \in Nat
    BY MaxTimeAssumption DEF CoarseInv, SameTime, Times
  <2> QED BY <1>1, <2>1, VestedBounded
<1> HIDE DEF scaled
<1>5. Ic!TypeOK'
  <2>1. heap' \in Ic!VestingState
    BY <1>1, CanisterTypes, MaxAmountAssumption DEF Ic!VestingState, Amounts
  <2>2. Ic!well_formed(heap'.params)
    BY <1>1, CanisterTypes
  <2> QED BY <1>1, <2>1, <2>2, CanisterTypes DEF CanisterInv, Ic!TypeOK, Deploy, Ic!init
<1>6. \A p \in Accounts : paid'[p] = 0
  BY <1>1 DEF CanisterInv
<1>7. heap'.params = in_nanos(grant'.params)
  BY <1>1, <1>2 DEF scaled
<1> QED BY <1>1, <1>2, <1>3, <1>4, <1>5, <1>6, <1>7 DEF CanisterInv

\* The beneficiary of the grant is the canister's, and a claim anybody else
\* makes, or one that comes too late, changes nothing.
LEMMA ClaimCanister ==
    ASSUME CanisterInv, NEW caller \in Accounts, CoarseInv, CoarseInv', ClaimAll(caller)
    PROVE  /\ CanisterInv'
           /\ upgraded => UNCHANGED <<heap, paid>>
           /\ ~upgraded => \/ UNCHANGED heap
                           \/ heap' = [heap EXCEPT !.claimed = heap.claimed + Ic!amount]
<1>1. Ic!claim(caller) /\ [Next]_vars /\ grant # NoGrant
  BY ClaimCoarse DEF ClaimAll
<1>2. /\ grant' # NoGrant /\ grant'.beneficiary = grant.beneficiary
      /\ grant'.params = grant.params
  BY <1>1, GrantKept DEF CoarseInv
<1>3. /\ installed /\ UNCHANGED <<now_ns, installed, upgraded>>
  BY <1>1 DEF Ic!claim
<1>4. CASE UNCHANGED <<heap, paid>>
  BY <1>1, <1>2, <1>3, <1>4 DEF CanisterInv, Ic!TypeOK
<1>5. CASE ~UNCHANGED <<heap, paid>>
  <2>1. /\ heap.beneficiary # Nobody /\ caller = heap.beneficiary
        /\ heap' = [heap EXCEPT !.claimed = heap.claimed + Ic!amount]
        /\ paid' = [paid EXCEPT ![caller] = paid[caller] + Ic!amount]
    BY <1>1, <1>5 DEF Ic!claim, Ic!verified_claim_ok
  <2>2. ~upgraded
    BY <2>1, DefaultHeap DEF CanisterInv
  <2> DEFINE all == vested_at(heap.params, now_ns)
  <2>3. /\ heap' = [beneficiary |-> heap.beneficiary, params |-> heap.params, claimed |-> all]
        /\ all \in Amounts /\ heap.beneficiary \in Accounts
        /\ heap.params \in Params /\ well_formed(heap.params)
    BY <1>3, <2>1, <2>2, HeapParts, HeapOwesRest
  <2>4. /\ heap.beneficiary = grant.beneficiary
        /\ heap.params = in_nanos(grant.params)
        /\ paid \in [Accounts -> Amounts]
        /\ \A p \in Accounts : paid[p] = IF p = grant.beneficiary THEN heap.claimed ELSE 0
    BY <1>3, <2>2, CanisterTypes DEF CanisterInv, Ic!TypeOK
  <2>5. paid' = [paid EXCEPT ![caller] = all]
    BY <1>3, <2>1, <2>2, <2>4, HeapOwesRest
  <2>6. all \in Nat
    BY <2>3, MaxAmountAssumption DEF Amounts
  <2> HIDE DEF all
  <2>7. Ic!TypeOK'
    <3>1. heap' \in Ic!VestingState
      BY <2>3, CanisterTypes DEF Ic!VestingState
    <3>2. paid' \in [Accounts -> Ic!Amounts]
      BY <2>3, <2>4, <2>5, CanisterTypes
    <3>3. Ic!well_formed(heap'.params)
      BY <2>3, CanisterTypes
    <3> QED BY <1>3, <3>1, <3>2, <3>3 DEF CanisterInv, Ic!TypeOK
  <2>8. heap'.claimed = all /\ heap'.claimed <= vested_at(heap'.params, now_ns')
    BY <1>3, <2>3, <2>6 DEF all
  <2>9. \A p \in Accounts :
           paid'[p] = IF p = grant'.beneficiary THEN heap'.claimed ELSE 0
    BY <1>2, <2>1, <2>4, <2>5, <2>8
  <2>10. CanisterInv'
    BY <1>2, <1>3, <2>2, <2>3, <2>4, <2>7, <2>8, <2>9 DEF CanisterInv
  <2> QED BY <2>1, <2>2, <2>10
<1> QED BY <1>4, <1>5

\* Time brings the canister no further than the schedule.
LEMMA TickCanister ==
    ASSUME CanisterInv, CoarseInv, Tick
    PROVE  CanisterInv'
<1>1. /\ UNCHANGED <<heap, installed, paid, upgraded, grant>>
      /\ now_ns \in Nat /\ now_ns' \in Nat /\ now_ns <= now_ns'
      /\ now_ns' \in Ic!Times
  BY CoarseTime DEF CoarseInv, Tick, Ic!Tick, coarse, ink
<1>2. Ic!TypeOK'
  BY <1>1 DEF CanisterInv, Ic!TypeOK
<1>3. CASE installed /\ ~upgraded
  <2>1. /\ heap.params \in Params /\ well_formed(heap.params) /\ heap.claimed \in Nat
        /\ heap.claimed <= vested_at(heap.params, now_ns)
    BY <1>3, HeapParts
  <2>2. /\ vested_at(heap.params, now_ns) <= vested_at(heap.params, now_ns')
        /\ vested_at(heap.params, now_ns) \in Nat
        /\ vested_at(heap.params, now_ns') \in Nat
    BY <1>1, <2>1, VestedMonotonic, VestedBounded
  <2>3. heap.claimed <= vested_at(heap.params, now_ns')
    BY <2>1, <2>2
  <2> QED BY <1>1, <1>2, <1>3, <2>3 DEF CanisterInv
<1>4. CASE ~installed \/ upgraded
  BY <1>1, <1>2, <1>4 DEF CanisterInv
<1> QED BY <1>3, <1>4

LEMMA UpgradeCanisterStep ==
    ASSUME CanisterInv, UpgradeCanister
    PROVE  CanisterInv' /\ upgraded'
<1>1. /\ heap' = Ic!default /\ upgraded' = TRUE /\ installed
      /\ UNCHANGED <<now_ns, installed, paid, grant>>
  BY DEF UpgradeCanister, Ic!Upgrade, coarse, ink
<1>2. Ic!TypeOK'
  BY <1>1, DefaultHeap DEF CanisterInv, Ic!TypeOK
<1> QED BY <1>1, <1>2 DEF CanisterInv

BothInv == CoarseInv /\ CanisterInv

\* The canister takes no part in the other steps.
LEMMA CanisterIdle ==
    ASSUME CanisterInv, UNCHANGED <<ic, now_ns, grant>>
    PROVE  CanisterInv'
BY DEF ic, CanisterInv, Ic!TypeOK

LEMMA StepBothInv == BothInv /\ [TargetsNext]_targets_vars => BothInv'
<1> SUFFICES ASSUME CoarseInv, CanisterInv, [TargetsNext]_targets_vars
             PROVE  CanisterInv'
  BY StepCoarseInv DEF BothInv
<1>0. CoarseInv'
  BY StepCoarseInv
<1>1. ASSUME NEW beneficiary \in Accounts, NEW params \in SharedParams,
             Deploy(beneficiary, params)
      PROVE  CanisterInv'
  BY <1>0, <1>1, DeployCanister
<1>2. ASSUME NEW caller \in Accounts, ClaimAll(caller)
      PROVE  CanisterInv'
  BY <1>0, <1>2, ClaimCanister
<1>3. CASE ClaimUnsigned
  BY <1>3, CanisterIdle DEF ClaimUnsigned, clocks, ink
<1>4. CASE AskGear
  BY <1>4, CanisterIdle DEF AskGear, clocks, ink
<1>5. CASE Tick
  BY <1>5, TickCanister
<1>6. CASE UpgradeCanister
  BY <1>6, UpgradeCanisterStep
<1>7. CASE UNCHANGED targets_vars
  BY <1>7, CanisterIdle DEF targets_vars, coarse, clocks, ink
<1> QED BY <1>1, <1>2, <1>3, <1>4, <1>5, <1>6, <1>7 DEF TargetsNext

LEMMA InvariantBothInv == TargetsSpec => []BothInv
<1>1. TargetsInit => BothInv
  BY InitCoarseInv, InitCanisterInv DEF BothInv
<1> QED BY <1>1, StepBothInv, PTL DEF TargetsSpec, targets_vars

\* Whatever happened to the canister, its queries never divide by a zero duration
\* and answer what a claim would find.
THEOREM CanisterQueriesAreSafe == TargetsSpec => []IcSafe
<1>1. BothInv => IcSafe
  <2> SUFFICES ASSUME CoarseInv, CanisterInv PROVE Ic!QueriesAgree
    BY DEF BothInv, IcSafe, CanisterInv
  <2>1. now_ns \in Nat
    BY MaxTimeAssumption DEF CoarseInv, SameTime, Times
  <2>2. CASE installed /\ ~upgraded
    <3>1. heap.params.vest_duration > 0
      BY <2>2, HeapParts DEF well_formed
    <3>2. heap.claimed + Ic!claimable_now = Ic!vested_now
      BY <2>2, HeapParts, HeapOwesRest, SameCore DEF Ic!claimable_now, Ic!vested_now
    <3> QED BY <3>1, <3>2 DEF Ic!QueriesAgree
  <2>3. CASE ~installed \/ upgraded
    <3>1. heap = Ic!default
      BY <2>3 DEF CanisterInv
    <3>2. ~Ic!in_linear_branch(heap.params, now_ns)
      BY <2>1, <3>1, DefaultHeap
    <3>3. Ic!compute_vested(heap.params, now_ns) = 0
      BY <2>1, <3>1 DEF Ic!default, Ic!compute_vested
    <3>4. Ic!claimable_now = 0 /\ Ic!vested_now = 0 /\ heap.claimed = 0
      BY <3>1, <3>3, DefaultHeap
         DEF Ic!claimable_now, Ic!vested_now, Ic!amount, Ic!compute_claim
    <3> QED BY <3>2, <3>4 DEF Ic!QueriesAgree
  <2> QED BY <2>2, <2>3
<1> QED BY <1>1, InvariantBothInv, PTL

\* The canister's clock is ahead of the coarse one by less than a coarse tick, so
\* neither side has released what the other's next tick would not.
THEOREM ClocksDifferByOneTick == TargetsSpec => []ClocksAgree
<1>1. BothInv => ClocksAgree
  <2> SUFFICES ASSUME CoarseInv, CanisterInv, grant # NoGrant, ~upgraded
               PROVE  /\ heap.beneficiary = grant.beneficiary
                      /\ near.claimed <= vested_at(heap.params, now_ns)
                      /\ heap.claimed <= vested_at(grant.params, now + 1)
                      /\ \A p \in Accounts :
                            paid[p] = IF p = grant.beneficiary THEN heap.claimed ELSE 0
    BY DEF BothInv, ClocksAgree
  <2> DEFINE k == NanosPerMilli
             P == in_nanos(grant.params)
  <2>1. /\ installed /\ heap.params = P
        /\ heap.beneficiary = grant.beneficiary
        /\ \A p \in Accounts :
              paid[p] = IF p = grant.beneficiary THEN heap.claimed ELSE 0
    BY DEF CanisterInv
  <2>2. /\ P \in Params /\ well_formed(P) /\ now_ns \in Nat
        /\ heap.claimed \in Nat /\ heap.claimed <= vested_at(P, now_ns)
    BY <2>1, HeapParts
  <2>3. /\ IInv /\ near = grant /\ now = now_ns \div k
    BY DEF CoarseInv, SameGrant, SameTime
  <2>4. /\ grant.params \in Params /\ well_formed(grant.params) /\ now \in Nat
        /\ grant.claimed \in Nat /\ grant.claimed <= vested_at(grant.params, now)
    BY <2>3, GrantParts
  <2>5. k \in Nat \ {0}
    BY NanosPerMilliAssumption
  <2>6. /\ vested_at(P, k * now) = vested_at(grant.params, now)
        /\ vested_at(P, k * (now + 1)) = vested_at(grant.params, now + 1)
    BY <2>4, ScaledSchedule
  <2> HIDE DEF k, P
  <2>7. /\ k * now \in Nat /\ k * (now + 1) \in Nat
        /\ k * now <= now_ns /\ now_ns <= k * (now + 1)
    <3>1. k * now <= now_ns /\ now_ns < k * now + k
      BY <2>2, <2>3, <2>5, Quotient
    <3>2. k * (now + 1) = k * now + k /\ k * now \in Nat
      BY <2>4, <2>5, TimesNat
    <3> QED BY <2>2, <2>5, <3>1, <3>2
  <2>8. /\ vested_at(P, k * now) <= vested_at(P, now_ns)
        /\ vested_at(P, now_ns) <= vested_at(P, k * (now + 1))
    BY <2>2, <2>7, VestedMonotonic
  <2>9. /\ vested_at(P, k * now) \in Nat /\ vested_at(P, now_ns) \in Nat
        /\ vested_at(P, k * (now + 1)) \in Nat
    BY <2>2, <2>7, VestedBounded
  <2>10. grant.claimed <= vested_at(P, now_ns)
    BY <2>4, <2>6, <2>8, <2>9
  <2>11. heap.claimed <= vested_at(grant.params, now + 1)
    BY <2>2, <2>6, <2>8, <2>9
  <2> QED BY <2>1, <2>3, <2>10, <2>11
<1> QED BY <1>1, InvariantBothInv, PTL

-----------------------------------------------------------------------------
(* The canister and the abstract grant.                                    *)

CanisterStep == IF upgraded THEN UNCHANGED paid
                ELSE upgraded' \/ [Ic!Grant!Next]_<<heap, now_ns>>

LEMMA CanisterInitRefines == TargetsInit => Ic!Grant!Init
BY DefaultHeap, CanisterTypes
   DEF TargetsInit, Ic!Init, Ic!Grant!Init, Ic!Grant!Times, Ic!Times

LEMMA DeployRefines ==
    ASSUME CanisterInv, NEW beneficiary \in Accounts, NEW params \in SharedParams,
           Deploy(beneficiary, params)
    PROVE  Ic!Grant!Next
<1> DEFINE scaled == in_nanos(params)
<1>1. /\ scaled \in Params /\ Ic!init(beneficiary, scaled) /\ ~installed
  BY DEF Deploy, SharedParams, Ic!init
<1> HIDE DEF scaled
<1>2. heap.beneficiary = Nobody
  BY <1>1, DefaultHeap DEF CanisterInv
<1>3. /\ heap' = [beneficiary |-> beneficiary, params |-> scaled, claimed |-> 0]
      /\ heap'.beneficiary # Nobody /\ now_ns' = now_ns
      /\ Ic!well_formed(scaled)
  BY <1>1, NobodyAssumption DEF Ic!init
<1>4. Ic!Grant!Create(beneficiary, scaled)
  BY <1>2, <1>3 DEF Ic!Grant!Create, Ic!Grant!well_formed, Ic!well_formed
<1>5. scaled \in Ic!Grant!Params
  BY <1>1 DEF Ic!Grant!Params, Params, Ic!Grant!Times, Times, Ic!Grant!Amounts, Amounts
<1> QED BY <1>4, <1>5 DEF Ic!Grant!Next

\* A claim takes everything vested.
LEMMA ClaimRefines ==
    ASSUME CanisterInv, CoarseInv, installed, ~upgraded,
           heap' = [heap EXCEPT !.claimed = heap.claimed + Ic!amount], now_ns' = now_ns
    PROVE  Ic!Grant!Next
<1>1. /\ heap.beneficiary \in Accounts /\ heap.claimed \in Nat
      /\ heap.claimed <= vested_at(heap.params, now_ns)
      /\ vested_at(heap.params, now_ns) \in Nat
      /\ heap.claimed + Ic!amount = vested_at(heap.params, now_ns)
      /\ heap = [beneficiary |-> heap.beneficiary, params |-> heap.params,
                 claimed |-> heap.claimed]
  BY HeapParts, HeapOwesRest, MaxAmountAssumption DEF Amounts
<1>2. heap.beneficiary # Nobody /\ heap'.beneficiary # Nobody
  BY <1>1, NobodyAssumption
<1>3. Ic!Grant!vested_at(heap.params, now_ns) = vested_at(heap.params, now_ns)
  BY DEF Ic!Grant!vested_at, vested_at
<1>4. Ic!Grant!claimed_after_claim(heap.params, heap.claimed, now_ns)
         = heap.claimed + Ic!amount
  BY <1>1, <1>3 DEF Ic!Grant!claimed_after_claim
<1>5. Ic!Grant!Claim
  <2>1. heap \in State
    BY <1>1, HeapParts, MaxAmountAssumption DEF State, Amounts
  <2>2. heap # Nobody
    BY <2>1, NobodyAssumption
  <2> QED BY <1>2, <1>4, <2>2 DEF Ic!Grant!Claim
<1> QED BY <1>5 DEF Ic!Grant!Next
LEMMA TickRefines ==
    ASSUME CoarseInv, Tick
    PROVE  Ic!Grant!Next
<1>1. /\ UNCHANGED heap /\ now_ns' \in Ic!Times /\ now_ns' > now_ns
  BY DEF Tick, Ic!Tick
<1>2. Ic!Grant!Advance
  BY <1>1 DEF Ic!Grant!Advance, Ic!Grant!Times, Ic!Times
<1> QED BY <1>2 DEF Ic!Grant!Next

LEMMA CanisterStepRefines ==
    BothInv /\ [TargetsNext]_targets_vars => CanisterStep
<1> SUFFICES ASSUME CoarseInv, CanisterInv, [TargetsNext]_targets_vars
             PROVE  CanisterStep
  BY DEF BothInv
<1>0. CoarseInv'
  BY StepCoarseInv
<1>1. ASSUME NEW beneficiary \in Accounts, NEW params \in SharedParams,
             Deploy(beneficiary, params)
      PROVE  CanisterStep
  BY <1>1, DeployRefines DEF CanisterStep, Deploy, Ic!init
<1>2. ASSUME NEW caller \in Accounts, ClaimAll(caller)
      PROVE  CanisterStep
  <2>1. installed /\ now_ns' = now_ns
    BY <1>2 DEF ClaimAll, Ic!claim
  <2>2. CASE upgraded
    BY <1>0, <1>2, <2>2, ClaimCanister DEF CanisterStep
  <2>3. CASE ~upgraded
    <3>1. \/ UNCHANGED heap
          \/ heap' = [heap EXCEPT !.claimed = heap.claimed + Ic!amount]
      BY <1>0, <1>2, <2>3, ClaimCanister
    <3>2. UNCHANGED heap \/ Ic!Grant!Next
      BY <2>1, <2>3, <3>1, ClaimRefines
    <3> QED BY <2>1, <2>3, <3>2 DEF CanisterStep
  <2> QED BY <2>2, <2>3
<1>3. CASE ClaimUnsigned \/ AskGear \/ UNCHANGED targets_vars
  BY <1>3 DEF CanisterStep, ClaimUnsigned, AskGear, targets_vars, ic, clocks
<1>4. CASE Tick
  BY <1>4, TickRefines DEF CanisterStep, Tick, Ic!Tick
<1>5. CASE UpgradeCanister
  BY <1>5, UpgradeCanisterStep DEF CanisterStep, UpgradeCanister, Ic!Upgrade
<1> QED BY <1>1, <1>2, <1>3, <1>4, <1>5 DEF TargetsNext

\* Until it is upgraded, every call of the canister is a step of the abstract
\* grant on its own, finer clock; afterwards no call pays anything out.
THEOREM CanisterImplementsGrantUntilUpgrade == TargetsSpec => IcGrantUntilUpgrade
<1>1. BothInv /\ [TargetsNext]_targets_vars =>
         [IF upgraded THEN UNCHANGED paid
          ELSE upgraded' \/ [Ic!Grant!Next]_<<heap, now_ns>>]_Ic!vars
  BY CanisterStepRefines DEF CanisterStep
<1> QED BY <1>1, CanisterInitRefines, InvariantBothInv, PTL
        DEF TargetsSpec, targets_vars, IcGrantUntilUpgrade, Ic!GrantUntilUpgrade
=============================================================================
