-------------------- MODULE CosmWasmSolanaVestingProofs --------------------
(***************************************************************************)
(* Two vesting contracts that convert a clock of the chain, for every      *)
(* width of amounts and times: the CosmWasm contract truncates nanoseconds *)
(* and keeps vesting_ready, the Solana program clamps a signed timestamp   *)
(* and keeps every vesting account well formed.  Each implements the       *)
(* abstract grant.                                                         *)
(***************************************************************************)
EXTENDS CosmWasmVesting, SolanaVesting, CoreProofs

\* The clock in milliseconds is a time, and follows the block time.
LEMMA ClockType == ASSUME NEW n \in 0 .. MaxNanos
                   PROVE  n \div NanosPerMs \in Times
<1>1. /\ n \in Nat /\ MaxNanos \in Nat /\ n <= MaxNanos
      /\ NanosPerMs \in Nat \ {0}
  BY NanosPerMsAssumption, MaxNanosAssumption
<1>2. n \div NanosPerMs \in Nat /\ MaxNanos \div NanosPerMs \in Nat
  BY <1>1, Quotient
<1>3. n \div NanosPerMs <= MaxNanos \div NanosPerMs
  BY <1>1, DivMonotonic
<1> QED BY <1>2, <1>3, MaxNanosAssumption, MaxTimeAssumption DEF Times

LEMMA ClockMonotonic == ASSUME NEW m \in 0 .. MaxNanos, NEW n \in 0 .. MaxNanos, m <= n
                        PROVE  m \div NanosPerMs <= n \div NanosPerMs
  BY DivMonotonic, NanosPerMsAssumption, MaxNanosAssumption

\* The parameters read back from a stored grant.
LEMMA StoredParams == ASSUME NEW s \in Storage
                      PROVE  /\ params_of(s) \in Params
                             /\ params_of(s).total = s.total
  BY DEF Storage, params_of, Params

\* A successful claim adds up to the amount the specification gives, and to at
\* most the total.
LEMMA ClaimAddsUp ==
  ASSUME NEW p \in Params, well_formed(p), NEW t \in Times, NEW claimed \in Amounts,
         claimed <= p.total
  PROVE  /\ claimed + compute_claim(p, t, claimed) = claimed_after_claim(p, claimed, t)
         /\ claimed_after_claim(p, claimed, t) \in Amounts
         /\ claimed_after_claim(p, claimed, t) <= p.total
<1>1. t \in Nat /\ claimed \in Nat
  BY MaxTimeAssumption, MaxAmountAssumption DEF Times, Amounts
<1>2. /\ compute_vested(p, t) = vested_at(p, t)
      /\ vested_at(p, t) \in Nat
      /\ vested_at(p, t) <= p.total
      /\ p.total \in Nat
      /\ p.total <= MaxAmount
  BY <1>1, ComputeVestedExact, VestedBounded, ScheduleParts
<1> QED BY <1>1, <1>2, MaxAmountAssumption
       DEF compute_claim, claimed_after_claim, Amounts

-----------------------------------------------------------------------------
(* vesting_ready is inductive.                                             *)

LEMMA InitTypeOK == Init => TypeOK
  BY DEF Init, TypeOK, ax_has_beneficiary

\* What a successful execute does to the storage.
LEMMA ExecuteStores ==
  ASSUME TypeOK, ax_has_beneficiary, NEW sender \in Addrs,
         verified_claim_ok(sender, now_ms), verified_claim(sender, now_ms)
  PROVE  /\ storage' = [storage EXCEPT !.claimed =
                          claimed_after_claim(params_of(storage), @, now_ms)]
         /\ storage' \in Storage
         /\ storage'.claimed <= storage.total
         /\ storage'.claimed = claimed_after_claim(params_of(storage), storage.claimed, now_ms)
         /\ params_of(storage') = params_of(storage)
         /\ storage'.beneficiary = storage.beneficiary
<1> DEFINE after == claimed_after_claim(params_of(storage), storage.claimed, now_ms)
<1>1. /\ storage \in Storage
      /\ well_formed(params_of(storage))
      /\ storage.claimed \in Amounts
      /\ storage.claimed <= storage.total
      /\ now_ms \in Times
  BY ClockType DEF TypeOK, vesting_ready, Storage, now_ms
<1>2. /\ params_of(storage) \in Params
      /\ params_of(storage).total = storage.total
  BY <1>1, StoredParams
<1>3. /\ storage.claimed + compute_claim(params_of(storage), now_ms, storage.claimed) = after
      /\ after \in Amounts
      /\ after <= storage.total
  BY <1>1, <1>2, ClaimAddsUp
<1>4. storage' = [storage EXCEPT !.claimed = after]
  BY <1>3 DEF verified_claim
<1>5. /\ storage' \in Storage
      /\ storage'.claimed = after
      /\ storage'.beneficiary = storage.beneficiary
      /\ params_of(storage') = params_of(storage)
  BY <1>1, <1>3, <1>4 DEF Storage, params_of
<1> QED BY <1>3, <1>4, <1>5

LEMMA StepTypeOK == TypeOK /\ [Next]_vars => TypeOK'
<1> SUFFICES ASSUME TypeOK, [Next]_vars PROVE TypeOK'
  OBVIOUS
<1>1. ASSUME NEW beneficiary \in Addrs, NEW start \in Times,
             NEW cliff_duration \in Times, NEW vest_duration \in Times,
             NEW total \in Amounts,
             instantiate(beneficiary, start, cliff_duration, vest_duration, total)
      PROVE  TypeOK'
  <2>1. /\ storage' = [beneficiary |-> beneficiary, start |-> start,
                       cliff_duration |-> cliff_duration,
                       vest_duration |-> vest_duration, total |-> total, claimed |-> 0]
        /\ vest_duration # 0 /\ cliff_duration <= vest_duration
        /\ block_time' = block_time
    BY <1>1 DEF instantiate, verified_instantiate
  <2>2. /\ storage' \in Storage
        /\ storage'.claimed <= storage'.total
    BY <2>1, MaxAmountAssumption DEF Storage, Amounts
  <2>3. well_formed(params_of(storage'))
    BY <2>1, MaxTimeAssumption DEF well_formed, params_of, Times
  <2> QED BY <2>1, <2>2, <2>3 DEF TypeOK, vesting_ready
<1>2. ASSUME NEW sender \in Addrs, execute(sender)
      PROVE  TypeOK'
  <2>1. CASE verified_claim_ok(sender, now_ms)
    <3>1. /\ storage' \in Storage
          /\ storage'.claimed <= storage.total
          /\ params_of(storage') = params_of(storage)
          /\ block_time' = block_time
      BY <1>2, <2>1, ExecuteStores DEF execute
    <3>2. well_formed(params_of(storage)) /\ storage \in Storage
      BY <1>2 DEF execute, TypeOK, vesting_ready
    <3>3. storage'.total = storage.total
      BY <3>1, <3>2, StoredParams
    <3> QED BY <3>1, <3>2, <3>3 DEF TypeOK, vesting_ready
  <2>2. CASE ~verified_claim_ok(sender, now_ms)
    BY <1>2, <2>2 DEF execute, verified_claim, TypeOK, vesting_ready,
                      ax_has_beneficiary
  <2> QED BY <2>1, <2>2
<1>3. CASE NextBlock
  BY <1>3 DEF NextBlock, TypeOK, vesting_ready, ax_has_beneficiary
<1>4. CASE UNCHANGED vars
  BY <1>4 DEF vars, TypeOK, vesting_ready, ax_has_beneficiary
<1> QED BY <1>1, <1>2, <1>3, <1>4 DEF Next

LEMMA InvariantTypeOK == Spec => []TypeOK
  BY InitTypeOK, StepTypeOK, PTL DEF Spec

\* vesting_ready holds in every state after instantiate: the precondition the
\* entry points take for granted when they call the verified helpers.
THEOREM TypeCorrect == Spec => []TypeOK
  BY InvariantTypeOK

-----------------------------------------------------------------------------
(* Nothing is claimed before it has vested.                                *)

\* The strengthening QueriesAgree needs: compute_claim's clamp at zero would
\* hide a claimed amount above the vested one.
ClaimedHasVested ==
    ax_has_beneficiary => storage.claimed <= vested_at(params_of(storage), now_ms)

LEMMA StepClaimedHasVested ==
  TypeOK /\ TypeOK' /\ ClaimedHasVested /\ [Next]_vars => ClaimedHasVested'
<1> SUFFICES ASSUME TypeOK, TypeOK', ClaimedHasVested, [Next]_vars,
                    ax_has_beneficiary'
             PROVE  storage'.claimed <= vested_at(params_of(storage'), now_ms')
  BY DEF ClaimedHasVested
<1> USE MaxTimeAssumption
<1>1. /\ storage' \in Storage
      /\ params_of(storage') \in Params
      /\ well_formed(params_of(storage'))
      /\ now_ms \in Nat /\ now_ms' \in Nat
  BY StoredParams, ClockType DEF TypeOK, vesting_ready, now_ms, Times
<1>2. /\ vested_at(params_of(storage'), now_ms') \in Nat
      /\ vested_at(params_of(storage'), now_ms) \in Nat
  BY <1>1, VestedBounded
<1>3. ASSUME NEW beneficiary \in Addrs, NEW start \in Times,
             NEW cliff_duration \in Times, NEW vest_duration \in Times,
             NEW total \in Amounts,
             instantiate(beneficiary, start, cliff_duration, vest_duration, total)
      PROVE  storage'.claimed <= vested_at(params_of(storage'), now_ms')
  <2>1. storage'.claimed = 0
    BY <1>3 DEF instantiate, verified_instantiate
  <2> QED BY <1>2, <2>1
<1>4. ASSUME NEW sender \in Addrs, execute(sender)
      PROVE  storage'.claimed <= vested_at(params_of(storage'), now_ms')
  <2>1. ax_has_beneficiary /\ now_ms' = now_ms
    BY <1>4 DEF execute, now_ms
  <2>2. storage.claimed <= vested_at(params_of(storage), now_ms)
    BY <2>1 DEF ClaimedHasVested
  <2>3. CASE verified_claim_ok(sender, now_ms)
    <3>1. /\ storage'.claimed =
               claimed_after_claim(params_of(storage), storage.claimed, now_ms)
          /\ params_of(storage') = params_of(storage)
      BY <1>4, <2>1, <2>3, ExecuteStores DEF execute
    <3>2. /\ params_of(storage) \in Params /\ well_formed(params_of(storage))
          /\ storage.claimed \in Amounts
      BY <2>1, StoredParams DEF TypeOK, vesting_ready, Storage
    <3>3. storage'.claimed = vested_at(params_of(storage), now_ms)
      BY <1>1, <2>2, <3>1, <3>2, ClaimReachesVested
    <3> QED BY <1>2, <2>1, <3>1, <3>3
  <2>4. CASE ~verified_claim_ok(sender, now_ms)
    <3>1. storage' = storage
      BY <1>4, <2>4 DEF execute, verified_claim
    <3> QED BY <2>1, <2>2, <3>1
  <2> QED BY <2>3, <2>4
<1>5. ASSUME storage' = storage, now_ms <= now_ms'
      PROVE  storage'.claimed <= vested_at(params_of(storage'), now_ms')
  <2>1. storage.claimed <= vested_at(params_of(storage), now_ms)
    BY <1>5 DEF ClaimedHasVested, ax_has_beneficiary
  <2>2. vested_at(params_of(storage'), now_ms) <= vested_at(params_of(storage'), now_ms')
    BY <1>1, <1>5, VestedMonotonic
  <2>3. storage'.claimed \in Nat
    BY <1>1, MaxAmountAssumption DEF Storage, Amounts
  <2> QED BY <1>2, <1>5, <2>1, <2>2, <2>3
<1>6. CASE NextBlock
  <2>1. /\ block_time \in 0 .. MaxNanos /\ block_time' \in 0 .. MaxNanos
        /\ block_time <= block_time'
        /\ storage' = storage
    BY <1>6, MaxNanosAssumption DEF NextBlock, TypeOK
  <2>2. now_ms <= now_ms'
    BY <2>1, ClockMonotonic DEF now_ms
  <2> QED BY <1>5, <2>1, <2>2
<1>7. CASE UNCHANGED vars
  BY <1>1, <1>5, <1>7 DEF vars, now_ms
<1> QED BY <1>3, <1>4, <1>6, <1>7 DEF Next

LEMMA InvariantClaimedHasVested == Spec => [](TypeOK /\ ClaimedHasVested)
<1>1. Init => TypeOK /\ ClaimedHasVested
  BY InitTypeOK DEF Init, ClaimedHasVested, ax_has_beneficiary
<1>2. TypeOK /\ ClaimedHasVested /\ [Next]_vars => (TypeOK /\ ClaimedHasVested)'
  BY StepTypeOK, StepClaimedHasVested
<1> QED BY <1>1, <1>2, PTL DEF Spec

\* What the queries answer and what was claimed always add up.
THEOREM QueriesAddUp == Spec => []QueriesAgree
<1>1. TypeOK /\ ClaimedHasVested => QueriesAgree
  <2> SUFFICES ASSUME TypeOK, ClaimedHasVested, ax_has_beneficiary
               PROVE  storage.claimed + ClaimableNow = VestedNow
    BY DEF QueriesAgree
  <2> DEFINE p == params_of(storage)
  <2>1. /\ p \in Params /\ well_formed(p)
        /\ now_ms \in Nat
        /\ storage.claimed \in Nat
        /\ storage.claimed <= vested_at(p, now_ms)
    BY StoredParams, ClockType, MaxTimeAssumption, MaxAmountAssumption
       DEF TypeOK, vesting_ready, ClaimedHasVested, Storage, now_ms, Times, Amounts
  <2>2. /\ compute_vested(p, now_ms) = vested_at(p, now_ms)
        /\ vested_at(p, now_ms) \in Nat
    BY <2>1, ComputeVestedExact, VestedBounded
  <2> QED BY <2>1, <2>2 DEF VestedNow, ClaimableNow, compute_claim
<1> QED BY <1>1, InvariantClaimedHasVested, PTL

-----------------------------------------------------------------------------
(* The contract implements the grant.                                      *)

\* The grant the storage stands for.
grant_of == IF ax_has_beneficiary
            THEN [beneficiary |-> storage.beneficiary,
                  params |-> params_of(storage),
                  claimed |-> storage.claimed]
            ELSE NoStorage

\* The operators of the core, as the instance of VestingGrant sees them.
LEMMA SameCore ==
  /\ Grant!Times = Times
  /\ Grant!Amounts = Amounts
  /\ Grant!Params = Params
  /\ \A p : Grant!well_formed(p) = well_formed(p)
  /\ \A p, claimed, t :
         Grant!claimed_after_claim(p, claimed, t) = claimed_after_claim(p, claimed, t)
  BY DEF Grant!Times, Grant!Amounts, Grant!Params, Grant!well_formed,
         Grant!claimed_after_claim, Grant!vested_at,
         Times, Amounts, Params, well_formed, claimed_after_claim, vested_at

\* A storage that holds a grant does not stand for the absence of one.
LEMMA GrantExists == ASSUME TypeOK, ax_has_beneficiary
                     PROVE  grant_of # NoStorage
  BY StoredParams, SameCore, NoGrantAssumption
     DEF grant_of, TypeOK, vesting_ready, Storage, Grant!State

\* Every instantiate creates the grant, every successful claim is a claim of
\* the grant, a block that starts a new millisecond advances its clock, and
\* anything else leaves the grant alone.
THEOREM ImplementsGrant == Spec => GrantSpec
<1>1. Init => Grant!Init
  <2> SUFFICES ASSUME Init PROVE Grant!Init
    OBVIOUS
  <2>1. now_ms \in Times /\ ~ax_has_beneficiary
    BY ClockType DEF Init, ax_has_beneficiary, now_ms
  <2> QED BY <2>1, SameCore DEF Grant!Init
<1>2. TypeOK /\ TypeOK' /\ [Next]_vars => [Grant!Next]_(Grant!vars)
  <2> SUFFICES ASSUME TypeOK, TypeOK', [Next]_vars
               PROVE  Grant!Next \/ (grant_of' = grant_of /\ now_ms' = now_ms)
    BY DEF Grant!vars, grant_of
  <2>1. ASSUME NEW beneficiary \in Addrs, NEW start \in Times,
               NEW cliff_duration \in Times, NEW vest_duration \in Times,
               NEW total \in Amounts,
               instantiate(beneficiary, start, cliff_duration, vest_duration, total)
        PROVE  Grant!Next
    <3> DEFINE p == [start |-> start, cliff_duration |-> cliff_duration,
                     vest_duration |-> vest_duration, total |-> total]
    <3>1. /\ storage' = [beneficiary |-> beneficiary, start |-> start,
                         cliff_duration |-> cliff_duration,
                         vest_duration |-> vest_duration, total |-> total, claimed |-> 0]
          /\ ~ax_has_beneficiary
          /\ now_ms' = now_ms
      BY <2>1 DEF instantiate, verified_instantiate, now_ms
    <3>2. storage' \in Storage
      BY <3>1, MaxAmountAssumption DEF Storage, Amounts
    <3>3. ax_has_beneficiary'
      BY <3>2, NoStorageAssumption DEF ax_has_beneficiary
    <3>4. /\ p \in Params
          /\ well_formed(p)
      BY <2>1, MaxTimeAssumption DEF instantiate, Params, well_formed, Times
    <3>5. /\ grant_of = NoStorage
          /\ grant_of' = [beneficiary |-> beneficiary, params |-> p, claimed |-> 0]
      BY <3>1, <3>3 DEF grant_of, params_of
    <3>6. Grant!Create(beneficiary, p)
      BY <3>1, <3>4, <3>5, SameCore DEF Grant!Create, grant_of
    <3> QED BY <2>1, <3>4, <3>6, SameCore DEF Grant!Next
  <2>2. ASSUME NEW sender \in Addrs, execute(sender)
        PROVE  Grant!Next \/ (grant_of' = grant_of /\ now_ms' = now_ms)
    <3>1. ax_has_beneficiary /\ now_ms' = now_ms
      BY <2>2 DEF execute, now_ms
    <3>2. CASE ~verified_claim_ok(sender, now_ms)
      <4>1. storage' = storage
        BY <2>2, <3>2 DEF execute, verified_claim
      <4> QED BY <3>1, <4>1 DEF grant_of, ax_has_beneficiary
    <3>3. CASE verified_claim_ok(sender, now_ms)
      <4>1. /\ storage' \in Storage
            /\ storage'.claimed =
                 claimed_after_claim(params_of(storage), storage.claimed, now_ms)
            /\ params_of(storage') = params_of(storage)
            /\ storage'.beneficiary = storage.beneficiary
        BY <2>2, <3>1, <3>3, ExecuteStores DEF execute
      <4>2. ax_has_beneficiary'
        BY <4>1, NoStorageAssumption DEF ax_has_beneficiary
      <4>3. grant_of = [beneficiary |-> storage.beneficiary,
                        params |-> params_of(storage),
                        claimed |-> storage.claimed]
        BY <3>1 DEF grant_of
      <4>4. grant_of' = [grant_of EXCEPT !.claimed =
                claimed_after_claim(grant_of.params, grant_of.claimed, now_ms)]
        BY <4>1, <4>2, <4>3 DEF grant_of
      <4>5. grant_of # NoStorage
        BY <3>1, GrantExists
      <4>6. Grant!Claim
        BY <3>1, <4>4, <4>5, SameCore DEF Grant!Claim, grant_of
      <4> QED BY <4>6 DEF Grant!Next
    <3> QED BY <3>2, <3>3
  <2>3. CASE NextBlock
    <3>1. /\ block_time \in 0 .. MaxNanos /\ block_time' \in 0 .. MaxNanos
          /\ block_time <= block_time'
          /\ storage' = storage
      BY <2>3, MaxNanosAssumption DEF NextBlock, TypeOK
    <3>2. /\ now_ms <= now_ms'
          /\ now_ms \in Times /\ now_ms' \in Times
      BY <3>1, ClockMonotonic, ClockType DEF now_ms
    <3>3. grant_of' = grant_of
      BY <3>1 DEF grant_of, ax_has_beneficiary
    <3>4. CASE now_ms < now_ms'
      BY <3>2, <3>3, <3>4, SameCore DEF Grant!Next, Grant!Advance, grant_of
    <3>5. CASE now_ms = now_ms'
      BY <3>3, <3>5
    <3> QED BY <3>2, <3>4, <3>5, MaxTimeAssumption DEF Times
  <2>4. CASE UNCHANGED vars
    BY <2>4 DEF vars, grant_of, ax_has_beneficiary, now_ms
  <2> QED BY <2>1, <2>2, <2>3, <2>4 DEF Next
<1> QED BY <1>1, <1>2, InvariantTypeOK, PTL DEF Spec, GrantSpec, Grant!Spec

-----------------------------------------------------------------------------
(* The Solana program.                                                     *)

\* The state of one vesting account.
AccountOK(acc) ==
    /\ acc \in VestingAccount
    /\ IF acc.initialized
       THEN well_formed(acc.params) /\ acc.claimed <= acc.params.total
       ELSE acc = zeroed

\* The types, account by account.
LEMMA SolanaTypes ==
  SolanaTypeOK <=> /\ vesting \in [Accounts -> VestingAccount]
                   /\ \A a \in Accounts : AccountOK(vesting[a])
                   /\ unix_timestamp \in Timestamps
                   /\ signer \in Keys \cup {DefaultKey}
  BY DEF SolanaTypeOK, AccountOK

\* The same after a step.
LEMMA SolanaTypesNext ==
  SolanaTypeOK' <=> /\ vesting' \in [Accounts -> VestingAccount]
                    /\ \A a \in Accounts : AccountOK(vesting'[a])
                    /\ unix_timestamp' \in Timestamps
                    /\ signer' \in Keys \cup {DefaultKey}
  BY DEF SolanaTypeOK, AccountOK

\* The clock of the program: the timestamp, clamped at the epoch.
LEMMA SolanaClock ==
    ASSUME unix_timestamp \in Timestamps
    PROVE  /\ read_now_secs \in Times
           /\ read_now_secs \in Nat
           /\ unix_timestamp > 0 => read_now_secs = unix_timestamp
           /\ ~(unix_timestamp > 0) => read_now_secs = 0
  BY MaxTimeAssumption, SecsBeforeAssumption DEF read_now_secs, Timestamps, Times

\* Fields of an account.
LEMMA AccountParts ==
    ASSUME NEW acc, AccountOK(acc)
    PROVE  /\ acc.initialized \in BOOLEAN
           /\ acc.beneficiary \in Keys \cup {DefaultKey}
           /\ acc.params \in Params
           /\ acc.claimed \in Amounts /\ acc.claimed \in Nat
           /\ acc.initialized => /\ well_formed(acc.params)
                                 /\ acc.claimed <= acc.params.total
  BY MaxAmountAssumption DEF AccountOK, VestingAccount, Amounts

\* A new account is well formed.
LEMMA ZeroedOK == AccountOK(zeroed)
<1>1. [start |-> 0, cliff_duration |-> 0, vest_duration |-> 0, total |-> 0] \in Params
  BY MaxAmountAssumption, MaxTimeAssumption DEF Params, Times, Amounts
<1>2. 0 \in Amounts
  BY MaxAmountAssumption DEF Amounts
<1> QED BY <1>1, <1>2 DEF AccountOK, zeroed, VestingAccount

\* What Init leaves in an account.
LEMMA AppliedOK ==
    ASSUME NEW beneficiary \in Keys, NEW params \in Params, well_formed(params)
    PROVE  AccountOK(apply_init_vesting(beneficiary, params))
<1>1. 0 \in Amounts /\ 0 <= params.total
  BY MaxAmountAssumption DEF Params, Amounts
<1> QED BY <1>1 DEF AccountOK, apply_init_vesting, VestingAccount

\* What a claim leaves in one.
LEMMA ClaimedOK ==
    ASSUME NEW acc, AccountOK(acc), acc.initialized, NEW t \in Times
    PROVE  /\ acc.claimed + compute_claim(acc.params, t, acc.claimed)
                = claimed_after_claim(acc.params, acc.claimed, t)
           /\ AccountOK([acc EXCEPT !.claimed =
                            claimed_after_claim(acc.params, acc.claimed, t)])
<1>1. /\ acc.params \in Params /\ well_formed(acc.params)
      /\ acc.claimed \in Amounts /\ acc.claimed <= acc.params.total
  BY AccountParts
<1> DEFINE after == claimed_after_claim(acc.params, acc.claimed, t)
<1>2. /\ acc.claimed + compute_claim(acc.params, t, acc.claimed) = after
      /\ after \in Amounts /\ after <= acc.params.total
  BY <1>1, ClaimAddsUp
<1> HIDE DEF after
<1>3. AccountOK([acc EXCEPT !.claimed = after])
  BY <1>1, <1>2 DEF AccountOK, VestingAccount
<1> QED BY <1>2, <1>3 DEF after

-----------------------------------------------------------------------------
(* What the instructions do.                                               *)

\* The clock the instructions read.
now_secs == read_now_secs

\* Init of account a, ClaimedOn its Claim; and the clock alone.
Initialized(a) ==
    \E beneficiary \in Keys : \E params \in Params :
       /\ well_formed(params)
       /\ ~vesting[a].initialized
       /\ vesting' = [vesting EXCEPT ![a] = apply_init_vesting(beneficiary, params)]
       /\ unix_timestamp' = unix_timestamp

\* vesting[a] after a claim.
claimed_on(acc) ==
    [acc EXCEPT !.claimed = claimed_after_claim(acc.params, acc.claimed, now_secs)]

ClaimedOn(a) ==
    /\ vesting[a].initialized
    /\ signer' = vesting[a].beneficiary
    /\ vesting' = [vesting EXCEPT ![a] = claimed_on(vesting[a])]
    /\ unix_timestamp' = unix_timestamp

TimePasses ==
    /\ vesting' = vesting
    /\ unix_timestamp <= unix_timestamp'

\* What any step does.
SolanaEffect ==
    \/ \E a \in Accounts : Initialized(a) \/ ClaimedOn(a)
    \/ TimePasses

\* One account written.
LEMMA WriteAccount ==
    ASSUME SolanaTypeOK, NEW a \in Accounts, NEW acc, AccountOK(acc),
           vesting' = [vesting EXCEPT ![a] = acc], unix_timestamp' = unix_timestamp,
           signer' \in Keys
    PROVE  SolanaTypeOK'
<1>1. acc \in VestingAccount
  BY DEF AccountOK
<1>2. /\ vesting' \in [Accounts -> VestingAccount]
      /\ \A b \in Accounts : AccountOK(vesting'[b])
  BY <1>1, SolanaTypes
<1> QED BY <1>2, SolanaTypes, SolanaTypesNext

\* Init and Claim.
LEMMA SolanaInits ==
    ASSUME SolanaTypeOK, NEW who \in Keys, NEW a \in Accounts,
           NEW beneficiary \in Keys, NEW params \in Params,
           verified_init_instruction(who, a, beneficiary, params)
    PROVE  SolanaTypeOK' /\ Initialized(a)
<1>1. /\ well_formed(params)
      /\ ~vesting[a].initialized
      /\ vesting' = [vesting EXCEPT ![a] = apply_init_vesting(beneficiary, params)]
      /\ unix_timestamp' = unix_timestamp
      /\ signer' = who
  BY DEF verified_init_instruction
<1>2. AccountOK(apply_init_vesting(beneficiary, params))
  BY <1>1, AppliedOK
<1>3. Initialized(a)
  BY <1>1 DEF Initialized
<1> QED BY <1>1, <1>2, <1>3, WriteAccount

LEMMA SolanaClaims ==
    ASSUME SolanaTypeOK, NEW who \in Keys, NEW a \in Accounts,
           verified_claim_instruction(who, a)
    PROVE  SolanaTypeOK' /\ ClaimedOn(a)
<1>1. /\ vesting \in [Accounts -> VestingAccount]
      /\ AccountOK(vesting[a])
      /\ now_secs \in Times
  BY SolanaTypes, SolanaClock DEF now_secs
<1>2. /\ vesting[a].initialized
      /\ who = vesting[a].beneficiary /\ signer' = who
      /\ vesting' = [vesting EXCEPT ![a].claimed =
                        @ + compute_claim(vesting[a].params, now_secs, @)]
      /\ unix_timestamp' = unix_timestamp
  BY DEF verified_claim_instruction, apply_claim_ok, now_secs
<1>3. /\ vesting[a].claimed + compute_claim(vesting[a].params, now_secs, vesting[a].claimed)
           = claimed_after_claim(vesting[a].params, vesting[a].claimed, now_secs)
      /\ AccountOK(claimed_on(vesting[a]))
  BY <1>1, <1>2, ClaimedOK DEF claimed_on
<1>4. vesting' = [vesting EXCEPT ![a] = claimed_on(vesting[a])]
  BY <1>1, <1>2, <1>3 DEF claimed_on
<1>5. SolanaTypeOK'
  BY <1>2, <1>3, <1>4, WriteAccount
<1> QED BY <1>2, <1>4, <1>5 DEF ClaimedOn

\* Every step keeps the types and has one of the three effects.
LEMMA SolanaStep ==
    ASSUME SolanaTypeOK, [SolanaNext]_solana_vars
    PROVE  SolanaTypeOK' /\ SolanaEffect
<1>1. ASSUME NEW who \in Keys, NEW a \in Accounts,
             NEW beneficiary \in Keys, NEW params \in Params,
             verified_init_instruction(who, a, beneficiary, params)
      PROVE  SolanaTypeOK' /\ SolanaEffect
  BY <1>1, SolanaInits DEF SolanaEffect
<1>2. ASSUME NEW who \in Keys, NEW a \in Accounts,
             verified_claim_instruction(who, a)
      PROVE  SolanaTypeOK' /\ SolanaEffect
  BY <1>2, SolanaClaims DEF SolanaEffect
<1>3. ASSUME vesting' = vesting, signer' = signer, unix_timestamp <= unix_timestamp',
             unix_timestamp' \in Timestamps
      PROVE  SolanaTypeOK' /\ SolanaEffect
  BY <1>3, SolanaTypes, SolanaTypesNext DEF SolanaEffect, TimePasses
<1>4. CASE NextSlot
  <2>1. /\ vesting' = vesting /\ signer' = signer
        /\ unix_timestamp' \in Timestamps
        /\ unix_timestamp' >= unix_timestamp
    BY <1>4 DEF NextSlot
  <2>2. unix_timestamp \in Int /\ unix_timestamp' \in Int
    BY <2>1, SolanaTypes, MaxTimeAssumption, SecsBeforeAssumption DEF Timestamps
  <2> QED BY <1>3, <2>1, <2>2
<1>5. CASE UNCHANGED solana_vars
  <2>1. unix_timestamp \in Timestamps /\ unix_timestamp <= unix_timestamp
    BY SolanaTypes, MaxTimeAssumption, SecsBeforeAssumption DEF Timestamps
  <2> QED BY <1>3, <1>5, <2>1 DEF solana_vars
<1> QED BY <1>1, <1>2, <1>4, <1>5 DEF SolanaNext, process_instruction

LEMMA SolanaInitTypes == SolanaInit => SolanaTypeOK
<1> SUFFICES ASSUME SolanaInit PROVE SolanaTypeOK
  OBVIOUS
<1>1. AccountOK(zeroed) /\ zeroed \in VestingAccount
  BY ZeroedOK DEF AccountOK
<1> QED BY <1>1, SolanaTypes DEF SolanaInit

LEMMA SolanaInvariant == SolanaSpec => []SolanaTypeOK
<1>1. SolanaTypeOK /\ [SolanaNext]_solana_vars => SolanaTypeOK'
  BY SolanaStep
<1> QED BY <1>1, SolanaInitTypes, PTL DEF SolanaSpec

\* What every claim checks again always holds: an initialized account is well
\* formed and has released at most its total, and any other is all zero.
THEOREM SolanaTypesCorrect == SolanaSpec => []SolanaTypeOK
  BY SolanaInvariant, PTL

-----------------------------------------------------------------------------
(* Releases.                                                               *)

\* Nothing has vested at time zero, nor before the cliff.
LEMMA VestedIsDue ==
    ASSUME NEW p \in Params, well_formed(p), NEW t \in Nat, vested_at(p, t) > 0
    PROVE  t > 0 /\ t >= p.start + p.cliff_duration
<1>1. /\ p.start \in Nat /\ p.cliff_duration \in Nat
      /\ p.vest_duration \in Nat \ {0} /\ p.total \in Nat
  BY ScheduleParts
<1>2. t >= p.start + p.cliff_duration
  BY <1>1 DEF vested_at
<1>3. CASE t = 0
  <2>1. p.start = 0 /\ t - p.start = 0
    BY <1>1, <1>2, <1>3
  <2>2. t < p.start + p.vest_duration
    BY <1>1, <1>3, <2>1
  <2>3. vested_at(p, t) = (p.total * 0) \div p.vest_duration
    BY <1>1, <1>2, <2>1, <2>2 DEF vested_at
  <2>4. p.total * 0 = 0 * p.vest_duration
    BY <1>1
  <2>5. vested_at(p, t) = 0
    BY <1>1, <2>3, <2>4, DivExact
  <2> QED BY <2>5
<1> QED BY <1>2, <1>3

\* Tokens leave a vesting account only in a claim its beneficiary signed, past
\* its cliff and past the epoch: a negative timestamp releases nothing.
THEOREM SolanaReleasesDue == SolanaSpec => ReleasesAreDue
<1> DEFINE Due(a) ==
              /\ signer' = vesting[a].beneficiary
              /\ unix_timestamp > 0
              /\ unix_timestamp >= vesting[a].params.start
                                      + vesting[a].params.cliff_duration
<1>1. SolanaTypeOK /\ [SolanaNext]_solana_vars
         => [\A a \in Accounts :
                vesting'[a].claimed > vesting[a].claimed => Due(a)]_solana_vars
  <2> SUFFICES ASSUME SolanaTypeOK, [SolanaNext]_solana_vars,
                      NEW b \in Accounts,
                      vesting'[b].claimed > vesting[b].claimed
               PROVE  Due(b)
    OBVIOUS
  <2>1. /\ vesting \in [Accounts -> VestingAccount]
        /\ AccountOK(vesting[b])
        /\ vesting[b].claimed \in Nat
    BY SolanaTypes, AccountParts
  <2>2. ASSUME NEW a \in Accounts, Initialized(a)
        PROVE  FALSE
    <3>1. a = b => vesting'[b].claimed = 0
      BY <2>1, <2>2 DEF Initialized, apply_init_vesting
    <3>2. a # b => vesting'[b] = vesting[b]
      BY <2>1, <2>2 DEF Initialized
    <3> QED BY <2>1, <3>1, <3>2
  <2>3. ASSUME NEW a \in Accounts, ClaimedOn(a)
        PROVE  Due(b)
    <3>1. a = b
      BY <2>1, <2>3 DEF ClaimedOn
    <3>2. vesting[b].initialized /\ signer' = vesting[b].beneficiary
      BY <2>3, <3>1 DEF ClaimedOn
    <3>3. vesting'[b].claimed
            = claimed_after_claim(vesting[b].params, vesting[b].claimed, now_secs)
      BY <2>1, <2>3, <3>1 DEF ClaimedOn, claimed_on, VestingAccount
    <3>4. /\ vesting[b].params \in Params /\ well_formed(vesting[b].params)
          /\ now_secs \in Nat
          /\ unix_timestamp > 0 => now_secs = unix_timestamp
          /\ ~(unix_timestamp > 0) => now_secs = 0
      BY <2>1, <3>2, AccountParts, SolanaTypes, SolanaClock DEF now_secs
    <3>5. vested_at(vesting[b].params, now_secs) > 0
      <4>1. vested_at(vesting[b].params, now_secs) \in Nat
        BY <3>4, VestedBounded
      <4> QED BY <2>1, <3>3, <4>1 DEF claimed_after_claim
    <3>6. now_secs > 0 /\ now_secs >= vesting[b].params.start
                                        + vesting[b].params.cliff_duration
      BY <3>4, <3>5, VestedIsDue
    <3> QED BY <3>2, <3>4, <3>6
  <2>4. CASE TimePasses
    BY <2>1, <2>4 DEF TimePasses
  <2> QED BY <2>2, <2>3, <2>4, SolanaStep DEF SolanaEffect
<1> QED BY <1>1, SolanaInvariant, PTL DEF SolanaSpec, ReleasesAreDue

-----------------------------------------------------------------------------
(* Every vesting account implements the grant.                             *)

\* The grant an account holds.
grant_in(acc) ==
    IF acc.initialized
    THEN [beneficiary |-> acc.beneficiary, params |-> acc.params, claimed |-> acc.claimed]
    ELSE zeroed

\* A zeroed account is no grant: it also says that it is not initialized.
LEMMA ZeroedIsNoGrant ==
    ASSUME NEW b, NEW p, NEW c
    PROVE  [beneficiary |-> b, params |-> p, claimed |-> c] # zeroed
<1>1. "initialized" \in DOMAIN zeroed
  BY DEF zeroed
<1>2. "initialized" \notin DOMAIN [beneficiary |-> b, params |-> p, claimed |-> c]
  OBVIOUS
<1> QED BY <1>1, <1>2

\* The operators of the core, as the grant of an account sees them.
LEMMA GrantCore ==
    ASSUME NEW a
    PROVE  /\ GrantOf(a)!Times = Times
           /\ GrantOf(a)!Params = Params
           /\ \A p : GrantOf(a)!well_formed(p) <=> well_formed(p)
           /\ \A p, claimed, t : GrantOf(a)!claimed_after_claim(p, claimed, t)
                                    = claimed_after_claim(p, claimed, t)
  BY DEF GrantOf!Times, Times, GrantOf!Amounts, Amounts,
         GrantOf!Params, Params, GrantOf!well_formed, well_formed,
         GrantOf!vested_at, vested_at,
         GrantOf!claimed_after_claim, claimed_after_claim

\* What the steps of the grant of an account are, in terms of the account.
LEMMA GrantSteps ==
    ASSUME NEW a
    PROVE  /\ GrantOf(a)!Init <=> grant_in(vesting[a]) = zeroed /\ now_secs \in Times
           /\ UNCHANGED GrantOf(a)!vars
                <=> grant_in(vesting[a])' = grant_in(vesting[a]) /\ now_secs' = now_secs
           /\ \A b, p : GrantOf(a)!Create(b, p)
                <=> /\ grant_in(vesting[a]) = zeroed
                    /\ well_formed(p)
                    /\ grant_in(vesting[a])' = [beneficiary |-> b, params |-> p, claimed |-> 0]
                    /\ now_secs' = now_secs
           /\ GrantOf(a)!Claim
                <=> /\ grant_in(vesting[a]) # zeroed
                    /\ grant_in(vesting[a])' =
                         [grant_in(vesting[a]) EXCEPT !.claimed =
                            claimed_after_claim(grant_in(vesting[a]).params,
                                                grant_in(vesting[a]).claimed, now_secs)]
                    /\ now_secs' = now_secs
           /\ GrantOf(a)!Advance
                <=> /\ now_secs' \in Times /\ now_secs' > now_secs
                    /\ grant_in(vesting[a])' = grant_in(vesting[a])
<1>1. /\ GrantOf(a)!Times = Times
      /\ \A p : GrantOf(a)!well_formed(p) <=> well_formed(p)
      /\ \A p, claimed, t : GrantOf(a)!claimed_after_claim(p, claimed, t)
                               = claimed_after_claim(p, claimed, t)
  BY GrantCore
<1>2. GrantOf(a)!Init <=> grant_in(vesting[a]) = zeroed /\ now_secs \in Times
  BY <1>1 DEF GrantOf!Init, grant_in, now_secs
<1>3. UNCHANGED GrantOf(a)!vars
        <=> grant_in(vesting[a])' = grant_in(vesting[a]) /\ now_secs' = now_secs
  BY DEF GrantOf!vars, grant_in, now_secs
<1>4. \A b, p : GrantOf(a)!Create(b, p)
        <=> /\ grant_in(vesting[a]) = zeroed
            /\ well_formed(p)
            /\ grant_in(vesting[a])' = [beneficiary |-> b, params |-> p, claimed |-> 0]
            /\ now_secs' = now_secs
  BY <1>1 DEF GrantOf!Create, grant_in, now_secs
<1>5. GrantOf(a)!Claim
        <=> /\ grant_in(vesting[a]) # zeroed
            /\ grant_in(vesting[a])' =
                 [grant_in(vesting[a]) EXCEPT !.claimed =
                    claimed_after_claim(grant_in(vesting[a]).params,
                                        grant_in(vesting[a]).claimed, now_secs)]
            /\ now_secs' = now_secs
  BY <1>1 DEF GrantOf!Claim, grant_in, now_secs
<1>6. GrantOf(a)!Advance
        <=> /\ now_secs' \in Times /\ now_secs' > now_secs
            /\ grant_in(vesting[a])' = grant_in(vesting[a])
  BY <1>1 DEF GrantOf!Advance, grant_in, now_secs
<1> QED BY <1>2, <1>3, <1>4, <1>5, <1>6

\* The clock of the program follows the timestamp.
LEMMA ClampMonotonic ==
    ASSUME SolanaTypeOK, SolanaTypeOK',
           unix_timestamp <= unix_timestamp'
    PROVE  /\ now_secs \in Times /\ now_secs' \in Times
           /\ now_secs' > now_secs \/ now_secs' = now_secs
<1>1. /\ unix_timestamp \in Timestamps
      /\ unix_timestamp' \in Timestamps
  BY SolanaTypes, SolanaTypesNext
<1>2. /\ now_secs = IF unix_timestamp > 0 THEN unix_timestamp ELSE 0
      /\ now_secs' = IF unix_timestamp' > 0 THEN unix_timestamp' ELSE 0
  BY DEF now_secs, read_now_secs
<1> QED BY <1>1, <1>2, MaxTimeAssumption, SecsBeforeAssumption DEF Timestamps, Times

\* A step that leaves an account alone leaves its grant alone, or is the clock.
LEMMA OthersWait ==
    ASSUME SolanaTypeOK, SolanaTypeOK', NEW a,
           vesting'[a] = vesting[a], unix_timestamp <= unix_timestamp'
    PROVE  GrantOf(a)!Next \/ UNCHANGED GrantOf(a)!vars
<1>1. grant_in(vesting[a])' = grant_in(vesting[a])
  BY DEF grant_in
<1>2. CASE now_secs' > now_secs
  <2>1. GrantOf(a)!Advance
    BY <1>1, <1>2, ClampMonotonic, GrantSteps
  <2> QED BY <2>1 DEF GrantOf!Next
<1>3. CASE now_secs' = now_secs
  BY <1>1, <1>3, GrantSteps
<1> QED BY <1>2, <1>3, ClampMonotonic

\* Every step is one of the grant of each account, or leaves it alone.
LEMMA EffectOnGrant ==
    ASSUME SolanaTypeOK, SolanaTypeOK', SolanaEffect,
           NEW a \in Accounts
    PROVE  GrantOf(a)!Next \/ UNCHANGED GrantOf(a)!vars
<1>1. /\ vesting \in [Accounts -> VestingAccount]
      /\ AccountOK(vesting[a])
      /\ unix_timestamp \in Int
  BY SolanaTypes, MaxTimeAssumption, SecsBeforeAssumption DEF Timestamps
<1>2. CASE TimePasses
  BY <1>2, OthersWait DEF TimePasses
<1>3. ASSUME NEW b \in Accounts, b # a, Initialized(b) \/ ClaimedOn(b)
      PROVE  GrantOf(a)!Next \/ UNCHANGED GrantOf(a)!vars
  <2>1. vesting'[a] = vesting[a] /\ unix_timestamp <= unix_timestamp'
    BY <1>1, <1>3 DEF Initialized, ClaimedOn
  <2> QED BY <2>1, OthersWait
<1>4. ASSUME NEW beneficiary \in Keys, NEW params \in Params,
             well_formed(params), ~vesting[a].initialized,
             vesting' = [vesting EXCEPT ![a] = apply_init_vesting(beneficiary, params)],
             unix_timestamp' = unix_timestamp
      PROVE  GrantOf(a)!Next
  <2>1. vesting'[a] = apply_init_vesting(beneficiary, params)
    BY <1>1, <1>4
  <2>2. grant_in(vesting[a])' = [beneficiary |-> beneficiary, params |-> params, claimed |-> 0]
    BY <2>1 DEF grant_in, apply_init_vesting
  <2>3. grant_in(vesting[a]) = zeroed
    BY <1>4 DEF grant_in
  <2>4. now_secs' = now_secs
    BY <1>4 DEF now_secs, read_now_secs
  <2>5. GrantOf(a)!Create(beneficiary, params)
    BY <1>4, <2>2, <2>3, <2>4, GrantSteps
  <2> QED BY <2>5, GrantCore DEF GrantOf!Next
<1>5. CASE ClaimedOn(a)
  <2>1. /\ vesting[a].initialized
        /\ vesting'[a] = claimed_on(vesting[a])
        /\ unix_timestamp' = unix_timestamp
    BY <1>1, <1>5 DEF ClaimedOn
  <2>2. grant_in(vesting[a])
          = [beneficiary |-> vesting[a].beneficiary, params |-> vesting[a].params,
             claimed |-> vesting[a].claimed]
    BY <2>1 DEF grant_in
  <2>3. /\ vesting'[a].initialized
        /\ vesting'[a].beneficiary = vesting[a].beneficiary
        /\ vesting'[a].params = vesting[a].params
        /\ vesting'[a].claimed
             = claimed_after_claim(vesting[a].params, vesting[a].claimed, now_secs)
    BY <1>1, <2>1 DEF claimed_on, VestingAccount
  <2>4. grant_in(vesting[a])'
          = [beneficiary |-> vesting[a].beneficiary, params |-> vesting[a].params,
             claimed |-> claimed_after_claim(vesting[a].params, vesting[a].claimed, now_secs)]
    BY <2>3 DEF grant_in
  <2>5. grant_in(vesting[a])' =
          [grant_in(vesting[a]) EXCEPT !.claimed =
             claimed_after_claim(grant_in(vesting[a]).params,
                                 grant_in(vesting[a]).claimed, now_secs)]
    BY <2>2, <2>4
  <2>6. grant_in(vesting[a]) # zeroed
    BY <2>2, ZeroedIsNoGrant
  <2>7. now_secs' = now_secs
    BY <2>1 DEF now_secs, read_now_secs
  <2>8. GrantOf(a)!Claim
    BY <2>5, <2>6, <2>7, GrantSteps
  <2> QED BY <2>8 DEF GrantOf!Next
<1> QED BY <1>2, <1>3, <1>4, <1>5 DEF SolanaEffect, Initialized

\* Every vesting account implements the abstract grant on the clamped clock:
\* Init creates its grant, a claim is a claim of its grant, and instructions
\* on other accounts leave it alone.
THEOREM SolanaImplementsGrants == SolanaSpec => GrantsSpec
<1>1. SolanaInit => \A a \in Accounts : GrantOf(a)!Init
  <2> SUFFICES ASSUME SolanaInit, NEW a \in Accounts
               PROVE  GrantOf(a)!Init
    OBVIOUS
  <2>1. vesting[a] = zeroed
    BY DEF SolanaInit
  <2>2. grant_in(vesting[a]) = zeroed
    BY <2>1 DEF grant_in, zeroed
  <2>3. now_secs \in Times
    BY SolanaClock DEF SolanaInit, now_secs
  <2> QED BY <2>2, <2>3, GrantSteps
<1>2. SolanaTypeOK /\ [SolanaNext]_solana_vars
        => [\A a \in Accounts :
              [GrantOf(a)!Next]_(GrantOf(a)!vars)]_solana_vars
  <2> SUFFICES ASSUME SolanaTypeOK, [SolanaNext]_solana_vars,
                      NEW a \in Accounts
               PROVE  GrantOf(a)!Next \/ UNCHANGED GrantOf(a)!vars
    OBVIOUS
  <2>1. SolanaTypeOK' /\ SolanaEffect
    BY SolanaStep
  <2> QED BY <2>1, EffectOnGrant
<1> QED BY <1>1, <1>2, SolanaInvariant, PTL DEF SolanaSpec, GrantsSpec
=============================================================================
