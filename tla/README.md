# Verification of the Verus contract examples

The repository holds the same two programs written for eight smart-contract
platforms: a fungible token (`fungible_application_examples/`) and a
linear-with-cliff vesting grant (`vesting_application_examples/`). Each program
has a chain-agnostic core, verified in Verus one function at a time, and a thin
contract per chain that the Verus proofs cover only in part: entry points,
storage, dispatch, the clock, and everything several calls do one after another
are outside them. That is what is modelled here: histories of calls, messages,
upgrades and ticks of the clock, and whether the per-chain programs implement
what the cores promise.

## The system

| component | state | operations | hard behaviour | correct when |
|---|---|---|---|---|
| Fungible core | balances, total supply | transfer, mint, burn (pure updates) | width of an amount, distinct parties | balances add up to the supply; a transfer is refused only when it must be |
| Linera fungible | accounts and allowances of every microchain; messages in transit | Approve, Transfer, TransferFrom, Claim; messages Credit, Withdraw | messages overtake each other, are rejected and bounce; credits saturate; blocks roll back | tokens of all chains and messages are conserved, spending is authorized, a bounced credit goes back to its payer, no message is stuck |
| CosmWasm fungible | balances, allowances, supply, minter | instantiate and eight messages | two storage items written per message, allowances without a bound, handover of the minter role | every message is a ledger step; only those entitled change anything |
| IC fungible | the same, in the canister's heap | init and eight update methods; upgrade | an update that returns an error is committed; the heap does not survive an upgrade | supply and balances agree at all times, allowances are used up only by moving tokens |
| Solana fungible | mint and token accounts, each an encoded buffer of fixed size | seven instructions over accounts the caller names | accounts named twice or belonging to another mint, lengths of encodings, no owner before initialization | ledger steps only, spending authorized, accounts stay readable |
| ink! fungible | balances, supply | constructor, transfer, mint, burn | both balances are read before either is written | ledger steps only; only the caller pays |
| NEAR fungible | balances, supply | new, transfer | errors are panics that roll back | the same balances as the other chains |
| Gear fungible | `STATE`, an option of balances and supply | init; handle: Transfer, BalanceOf | other programs see nothing but the replies | the same, and the replies tell the same balances |
| MultiversX fungible | storage mappers | init, transfer | amounts have no width | the same, and any supply is conserved |
| Vesting core | beneficiary, schedule, claimed | claim | rounding, overflow of the product, sums of times wider than a time | released amounts follow the schedule and are never taken back |
| CosmWasm vesting | six storage items | instantiate, claim, queries | clock in nanoseconds, entry points outside the proofs | implements the core's grant; released in full in the end |
| IC vesting | VestingState in the heap | init, claim, queries; upgrade | a schedule in nanoseconds; an upgrade leaves an all-zero schedule no init accepts | implements the grant until upgraded, pays nothing after |
| Solana vesting | vesting accounts (encoded buffers) | Init, Claim | signed clock, second Init, checks repeated at each claim | implements the grant; only the beneficiary releases, and only when it is due |
| ink! vesting | six storage fields, events | constructor, claim, views | views answer 0 on overflow | implements the grant; events and views are truthful |
| NEAR vesting | Vesting | new, claim, views | the clock counts nanoseconds, the schedule milliseconds; views panic on overflow | the same grant as the other chains, and nothing early on the finer clock |
| Gear vesting | `STATE`, an option of Vesting | init; handle: Claim and four queries | a query is a message whose reply arrives after other claims and blocks | the same grant; what a reply announced stays claimable |
| MultiversX vesting | six storage mappers | init, claim, views | views answer 0 on overflow | the same grant and the same views |
| Linera vesting step | what its caller stores | verified_claim_step | an operation may have no signer | the same grant; nothing without a signer |

Interaction. Contracts call their core as a library, so a contract's step
contains the core's computation. The instances of the Linera contract interact
with one another through messages; every other contract is sequential and meets
the outside world in the order of the calls, in the clock, and in the lifecycle
of its platform (creation, upgrade, account buffers).

## Modules

| module | models | abstract specification it implements |
|---|---|---|
| `TokenAmounts` | the amounts of both cores: their width and its assumption | |
| `FungibleCore` | the core's arithmetic and map updates, as operators | |
| `FungibleLedger` | the core's `State`, its invariant and its three updates | (it is the abstract specification) |
| `LineraFungible`, `MCLineraFungible` | `linera_alternate`: contract, state, messages | `FungibleLedger`, over accounts of all chains and messages in transit |
| `CosmWasmFungible`, `MCCosmWasmFungible` | `cosmwasm` | `FungibleLedger` |
| `IcFungible`, `MCIcFungible` | `ic` | `FungibleLedger`, until upgraded |
| `SolanaFungible` | `solana` | `FungibleLedger`, all mints together |
| `InkFungible` | `ink`; extends `FungibleLedger`, whose variables it shares | `FungibleLedger` |
| `NearFungible`, `GearFungible`, `MultiversXFungible` | `near`, `gear`, `multiversx` | compared with `InkFungible` |
| `FungibleTargets` | composes the four modules above: one token on four chains | |
| `VestingCore` | the schedule (`vested_at`) and the checked arithmetic (`compute_vested`, `compute_claim`), as operators | |
| `VestingGrant` | the core's `State` and `state_after_claim` with a clock | (it is the abstract specification) |
| `CosmWasmVesting`, `SolanaVesting`, `IcVesting` | the vesting contracts of these chains | `VestingGrant` |
| `InkVesting` | the ink! vesting contract; extends `VestingGrant`, whose variables it shares | `VestingGrant` |
| `NearVesting`, `GearVesting`, `MultiversXVesting`, `LineraVesting` | the vesting contracts of these chains (of Linera, the claim step) | compared with `InkVesting` |
| `VestingTargets` | composes `InkVesting`, the four modules above and `IcVesting`: one grant on six chains | |
| `CoreProofs` | lemmas about the operators of the two cores | |
| `*Proofs` | theorems about the modules they extend | |

Two modules extend their abstract specification instead of instantiating it:
the ink! contracts store exactly the core's `State`, so the abstract variables
are theirs, the abstract invariants are checked of them directly, and the
refinement `LedgerSpec`, `GrantSpec` is the abstract `Spec` itself.
Composition. `FungibleTargets` and `VestingTargets` give several contracts the
same constructor arguments and the same calls. Each contract answers every
call with a step, a refusal included, so this restricts none of them: every
behaviour of one is part of a behaviour of the composition, and what the
composition shows of one contract it shows of that contract alone. Steps only
one contract can take (a mint of the ink! contract, a supply only MultiversX
can hold, a query message of Gear, a claim without a signer, an upgrade of the
canister) are steps of the composition too. Deploying the same program to
several chains is what the repository is about; that the thin contracts do not
differ is stated by `BalancesAgree` and `TargetsAgree`, and it makes what is
shown of the ink! contract against the abstract specification true of the
others. Two contracts agree when their clocks show the same time. The unit of a
schedule is the contract's own (milliseconds for ink!, NEAR and Gear, seconds
for MultiversX, microseconds for the Linera step, nanoseconds for the canister); the
composition reads one coarse clock for all but two of them. NEAR divides the
fine clock itself and the canister counts in it, and `ClocksAgree` bounds the
difference the unit makes by one coarse tick.

Names of actions and variables are those of the code. A handler is one action:
the checks that make it return an error or panic are its guards (`..._ok`
operators gather those of a helper), its writes are the primed variables. Where
a failed call is undone by the platform and leaves no trace (a CosmWasm error,
a failed Linera block, a failed Solana instruction in the vesting program), the
failure is no step, or a step that changes nothing. Where failure matters it is
explicit: IC updates commit what they wrote before an error, and
`SolanaFungible` records how an instruction ended. Operators whose comment
starts with "Mutant" are plausible wrong versions of the definition below
them; no specification uses them. They exist so that every property can be
seen to fail when the code is wrong in that way.

Data is abstracted to what the properties tell apart: addresses and keys are
model values, `MaxAmount` stands for `u128::MAX` and `MaxTime` for `u64::MAX`
(both are parameters, so widths and overflows are exact for every width), maps
are functions whose domain is the set of stored keys, and an absent key reads
as 0 as it does in the code.

### What is external

These behaviours belong to the platforms, not to the repository, and are
modelled from the way the contracts use them:

- Linera: messages wait in unordered slots; a tracked message that is rejected
  comes back as bouncing, an untracked one disappears; a bounced message is
  assumed not to be rejected again; a handler that panics fails its block.
- IC: `init` runs once, at installation. An upgrade discards the heap, and
  since the crates declare no upgrade hooks, the thread-local state starts
  again from its default. Reinstallation is a new canister and not modelled.
- Solana: a new account's buffer is zeroed and its size never changes; the
  effects of a failed instruction are undone; the clock does not run backwards
  and may start before the epoch.
- NEAR, Gear, MultiversX, ink!: a panic (`require!`, `sc_panic!`, `expect`,
  `env::panic_str`), on Gear also one after the state was written and the reply
  failed, undoes the whole call; the NEAR `LookupMap` is written back when a
  call ends well. An upgrade of a MultiversX contract does not run `init`
  again. A mapper that was never set reads as 0.
- Linera vesting: the crate holds the claim step only. The contract around it,
  which stores the grant and hands the step the signer of the operation and
  the system time, is taken from the comments of the step.
- Every chain: `instantiate` or the constructor succeeds at most once; time is
  monotonic.

## Model checking

Bounds are small, but chosen so that every branch of the code is reached:
amounts reach their maximum, products overflow, allowances are used up, messages
overtake and bounce.

| run | module | bounds | what it shows |
|---|---|---|---|
| `LineraAccounts` | `MCLineraFungible` | 2 chains, 2 owners, 1 message in transit, amounts to 2 | types (no zero entry is stored), conservation, authorization, refunds |
| `LineraMessages` | `MCLineraFungible` | the same with 2 messages and no allowances | the ledger is implemented when messages overtake each other |
| `LineraLiveness` | `LineraFungible` | amounts to 1, supply to 2: twice what one account can hold | tokens may be lost but never created; every message is delivered, refunded or discarded, also to a full account |
| `LineraOverflow` | `MCLineraFungible` | initial accounts to 4, amounts to 2 | a disagreement, below |
| `CosmWasmFungible` | `MCCosmWasmFungible` | 3 addresses, amounts to 2, two allowances at a time | types, authorization, ledger |
| `IcFungible` | `MCIcFungible` | 3 principals, amounts to 2, two allowances at a time | errors are committed without harm; upgrades lose everything consistently and for ever |
| `SolanaFungible` | `SolanaFungible` | 3 accounts, 1 other signer, 2 mints, amounts to 2, both buffer sizes | types; balances backed by supplies; all mints together implement one ledger, but for accounts a new mint overwrites; authorization; accounts stay readable |
| `SolanaApprove` | `SolanaFungible` | 2 accounts, 1 mint | a disagreement, below |
| `FungibleTargets` | `FungibleTargets` | 3 accounts, amounts to 4, supplies to 6 | ledger and conservation on ink!; the same balances on four chains, refusals included; Gear's replies tell them; supplies beyond a u128 on MultiversX; only the caller pays |
| `CosmWasmVesting` | `CosmWasmVesting` | every schedule, times to 4, amounts to 6, 2 ns per ms | grant implemented; queries agree; full release |
| `VestingTargets` | `VestingTargets` | every schedule both clocks can express, fine times to 6, amounts to 6, 2 ns per ms, 2 callers and none, upgrades | the grant is implemented (by the canister until upgraded); six contracts agree, those with another clock up to a coarse tick; releases follow the schedule; views are prudent; Gear's announcements are kept |
| `SolanaVesting` | `SolanaVesting` | every schedule, one vesting account, clock from -2 | types; grant implemented; releases only to the beneficiary's signature, past the cliff and the epoch |

Why these bounds are enough. Transfers involve two accounts, spending on behalf
of another involves three parties, and a Linera refund two chains; a third
account is the bystander whose balance must not move. Amounts to 2 or 3 already
separate zero, part of a balance, the whole of it and too much. A schedule with
times to 4 and amounts to 6 has cliffs of every length, rounding, and products
(up to 18) beyond the width of an amount. In `SolanaVesting` an instruction
touches one vesting account only, so that one account is enough; in
`SolanaFungible` instructions name several, and every combination is tried,
with a second mint so that a mint and an account that do not belong together
occur and the balances' sum passes the width of one amount.
`MaxSupply` exceeds `MaxAmount` by 2, enough for a balance and a sum that no
`u128` holds. `SharedParams` are the schedules whose times are multiples of a
coarse tick: on the others a coarse contract could not be given the schedule.
`NoAllowances` and `FewAllowances` are state constraints that
keep the number of allowances small; no property relates more than the
allowances they leave room for. Owners, chains, slots, addresses and principals
are symmetric where a run says so: no definition picks a particular one.
Deadlock is checked in every run.

### Fairness

Only two runs need any. In `LineraLiveness` every waiting message is eventually
executed or rejected: chains keep making blocks, and a block must deal with the
messages of its inbox. Nothing forces a message to be *accepted*; that a
bounced credit can always be executed is what `Delivery` depends on, and the
mutant `ExecuteCreditChecked` shows that it fails if `credit` refuses instead
of saturating. In `CosmWasmVesting` blocks keep coming and the beneficiary keeps
claiming; `FullyReleased` is about the grants whose end the clock can reach.

### Disagreements found

- `LineraOverflow`: the initial accounts are added up with saturation, so that
  accounts summing to more than `u128::MAX` are accepted, and a later credit
  that saturates destroys tokens; the README of the examples promises that the
  supply equals the sum of all balances after every operation.
- `SolanaApprove`: an account without delegate is encoded in 65 bytes and can
  only be decoded from a buffer of 65; with a delegate it needs 97, so every
  approve fails when it writes the account back. Delegation is unreachable,
  and with it `transfer_from`: `apply_transfer_from`, which does not compare
  its two accounts, is never called successfully.

Observed without a run of their own:

- Solana token accounts do not know their mint, and initializing a mint
  overwrites the balance of the account it is given, which may be in use. With
  two mints the balances therefore add up to less than what was issued:
  `Backed` states what remains true, `Overwrite` is the only step that
  `LedgerSpec` has to except.
- The state of the IC vesting canister is "set once at `init` and never
  re-initialised" according to its comment; `UpgradeCanister` re-initializes it.
- Where the product of the schedule overflows, the ink! message `vested_now`
  answers 0, less than what was claimed before; the core's comment promises an
  honest error. MultiversX has the same views (`TargetsAgree`); those of NEAR and
  Gear panic. `ViewsArePrudent` states what does hold: the views err only
  downwards.
- The comment of the Solana vesting clock says that a negative timestamp wraps
  to a large value, while the code clamps it to 0 (`ReleasesAreDue`
  holds because of the clamp; its mutant is the wrapping version).
- Solana accounts that were credited before they were ever given an owner
  belong to the default key, for which nobody can sign.
- The vesting contracts only count what is released; they transfer no tokens.

## Proofs

All theorems hold for every value of the constants, under the named
assumptions about them: finite sets of accounts, natural widths, model values
outside the sets they must be outside of.

`CoreProofs` holds the lemmas the rest is built from, most of which the cores
prove with Verus for one call. Induction over data is out of the prover's
reach, so `FungibleCore` defines the sum of a map as the cardinality of a set of
units (pairs of an account and a number up to its balance) instead of by
recursion, and what a map with one or two changed entries sums to
(`SumAfterOne`, `SumAfterTwo`), what a map of given width can sum to
(`SumBound`) and that renaming its keys changes nothing (`SumRelabelled`) follow
from the library's theorems about cardinality. For the schedule, monotonicity
and the bound by the total follow from lemmas about division, and
`ComputeVestedExact` shows that the arithmetic the contracts run, which never
adds two times, computes the specified schedule.

The abstract specifications, and the contracts that share their variables:

- `FungibleTargetsProofs`, on the ledger: `TypeCorrect`, `SupplyIsConserved`,
  `TransfersFit`. The inductive invariant is `TypeOK /\ Conservation`: types
  alone are not inductive, because that a credited balance still fits follows
  from the supply bounding it. On the four contracts: `InkImplementsLedger`,
  `SupplyOnInkConserved`, `TargetsKeepSameBalances`,
  `SupplyOnMultiversXConserved`, `CallerPays`. The invariant `TargetsInv` says
  of every contract what its storage holds in terms of MultiversX's mapper: an
  absent key and a stored zero are the same balance, and wherever the
  deployment ran, the supply fits the type and bounds every balance. That bound
  is why MultiversX, which checks no sum, refuses no transfer the others accept
  and accepts none they refuse. Conservation of MultiversX's supply needs no
  width at all.
- `VestingTargetsProofs`, on the grant: `TypeCorrect`,
  `ReleasesWithinSchedule`, `CliffIsHeld`, `GrantIsIrrevocable`. The invariant
  adds to the types that what was claimed is at most what has vested; it is
  kept by time because the schedule is monotonic. On the six contracts:
  `TypeCorrectOnTargets`, `ReleasesWithinScheduleOnTargets`,
  `InkImplementsGrant`, `ViewsNeverOverstate`, `TargetsHoldSameGrant` and
  `AnnouncementsAreKept` follow from `CoarseInv`: every contract on the coarse
  clock stores the grant, events and replies add up to what was claimed, and no
  Gear reply announced more than what had vested when it was sent. The canister
  is the harder half. `CanisterInv` says that until it is upgraded it holds the
  grant in ticks of the finer clock, and afterwards the default heap;
  `CanisterQueriesAreSafe` and `CanisterImplementsGrantUntilUpgrade` follow.
  `ClocksDifferByOneTick` also needs that a schedule scaled by any factor says
  the same at every tick of the coarse clock (`ScaledSchedule`, from lemmas
  about quotients) and that the schedule is monotonic between the ticks.

The fungible contracts:

- `LineraFungibleProofs`, for any number of chains, owners and messages in
  transit. The inductive invariant `IInv` adds to the types that every `Credit`
  in transit is tracked, so that one that is rejected comes back; it carries
  `TypeCorrect`, `RefundsGoToPayer` and `OnlyAuthorized`. For the tokens, every
  action is shown to move an amount between two *holders*, accounts of any
  chain and slots of the mail, whose balances are one map; the lemmas about sums
  then give `NeverInflates` (saturation only ever loses tokens), and
  `ConservesTokens` and `ImplementsLedger` under the hypothesis
  `MaxSupply <= MaxAmount`: the initial accounts together fit one balance.
  `LineraOverflow` shows that without it they are false. Nothing else can
  make a credit saturate, because the tokens in existence bound every balance.
- `CosmWasmFungibleProofs`: `TypeCorrect`, `OnlyAuthorized` and
  `ImplementsLedger`. Before instantiate the storage is empty, which the
  invariant records so that instantiate is the first mint of the ledger.
- `IcFungibleProofs`: `CanisterTypesCorrect`, `CanisterConserves`,
  `AllowancesBuyTokens`, `NothingOutlivesUpgrade`. Every update method, with
  its committed errors, is one of four steps of the book: tokens are moved,
  minted (which needs a minter), burnt, or left alone. The invariant adds to
  types and conservation that before `init` and after an upgrade the heap is
  empty, since `init` writes one entry and adds nothing up, and that an upgraded
  canister is installed and has no minter, so that `init` cannot run again and
  nobody can mint. `CanisterImplementsLedgerUntilUpgrade` is the refinement.
- `SolanaFungibleProofs`: the invariant adds to the types that no account has a
  delegate (`NoDelegates`), which holds because an encoding with a delegate
  does not fit the buffer an account can be decoded from. It is needed:
  `transfer_from` between two aliases of one account would inflate it.
  `AccountsStayReadable` and `OnlyAuthorized` follow. For `BalancesAreBacked` and
  `ImplementsLedger` every instruction is classified by what it does to the two
  sums, over all accounts and over all mints, where the accounts an instruction
  names may coincide or belong to other mints; the width of the ledger is
  `MaxAmount` times the number of mints.

The vesting contracts:

- `CosmWasmSolanaVestingProofs`, on CosmWasm: `TypeCorrect` (the precondition
  `vesting_ready` of the verified helpers, which the entry points trust),
  `QueriesAddUp`, and `ImplementsGrant`: every step of the contract, with its
  checked arithmetic and its truncated clock, is a step of the grant or leaves
  it unchanged. On Solana, for any number of vesting accounts:
  `SolanaTypesCorrect` (the checks every claim repeats never fail on an
  initialized account), `SolanaImplementsGrants` for each account while
  instructions name the others, and `SolanaReleasesDue`, which needs that at
  time 0 nothing has vested whatever the schedule: that is what a timestamp
  clamped at the epoch reads as. The definitions of `SolanaVesting` are named so
  that it can be extended together with `CosmWasmVesting`.

Three theorems state what no run checks: `TransfersFit`, `CliffIsHeld` (it
follows from `WithinSchedule`, which is checked) and
`CanisterImplementsLedgerUntilUpgrade`. Three more, `NoDelegates`,
`GrantIsIrrevocable` and the types of the ledger, are seen on the runs through
other properties (`StayReadable`, `GrantSpec`, `LedgerSpec`).

Model-checked only: the liveness properties `Delivery` and `FullyReleased`
(liveness under fairness is beyond the prover). Every other property of a
passing run is a theorem.

## Not modelled

- `linera_alternate/src/verified_helpers.rs` of the fungible examples: not
  called by the contract, which has its own updates in `verified_state.rs`.
- Linera's GraphQL service, and on every chain the queries that return a stored
  value as it is: they change nothing and compute nothing.
- Several Linera operations in one block: a block in the model holds one. If
  all of a block succeed, the blocks of its operations one by one are
  a behaviour with the same states; if one fails, the block is no step.
- Reverts of Linera cross-chain messages after a bounce: a bounced message is
  not rejected again (see above).
- The ghost views, bindings and axioms of the Verus layers, except where they
  hold code the contracts run (the Solana account encodings, the clocks); the
  encodings of messages, error texts, logging, build scripts, presentations.

## Plan

1. Done: the two cores and their abstract specifications; every fungible and
   every vesting contract, each against its abstract specification or against
   one that implements it.
2. Done: a theorem for every safety property and refinement a passing run
   checks.
3. Next: steps on the way to the liveness properties that need no fairness (a
   bounced credit is always accepted, a claim at the end of a schedule is never
   refused), as action and state lemmas about `LineraFungible` and
   `CosmWasmVesting`.
