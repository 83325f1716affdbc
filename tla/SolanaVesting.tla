---------------------------- MODULE SolanaVesting ----------------------------
(***************************************************************************)
(* The Solana vesting program (vesting_application_examples/solana): the   *)
(* instructions Init and Claim over vesting accounts that the caller       *)
(* names, each held Borsh-encoded in a buffer of the one length the        *)
(* program can decode, and the clock of the cluster.  The runtime undoes   *)
(* what a failed instruction wrote: it is no step.                         *)
(***************************************************************************)
EXTENDS VestingCore

CONSTANTS Accounts,      \* addresses of the vesting accounts
          Keys,          \* keys that can sign
          DefaultKey,    \* Pubkey::default(), for which nobody can sign
          SecsBefore     \* earliest timestamp is -SecsBefore; 2^63 in the code

ASSUME DefaultKeyAssumption == DefaultKey \notin Keys
ASSUME SecsBeforeAssumption == SecsBefore \in Nat

Timestamps == -SecsBefore .. MaxTime

VARIABLES vesting,       \* contents of the vesting accounts
          unix_timestamp,  \* Clock::unix_timestamp, an i64
          signer         \* history: the key that signed the last instruction

solana_vars == <<vesting, unix_timestamp, signer>>

VestingAccount ==
    [initialized : BOOLEAN, beneficiary : Keys \cup {DefaultKey},
     params : Params, claimed : Amounts]

\* Mutant: a timestamp is cast to u64 as it is, so a negative one wraps.
read_now_secs_wrapping == IF unix_timestamp >= 0 THEN unix_timestamp ELSE MaxTime

\* max(0), then a cast to u64.
read_now_secs == IF unix_timestamp > 0 THEN unix_timestamp ELSE 0

-----------------------------------------------------------------------------
\* The runtime zeroes the buffer of a new account.
zeroed ==
    [initialized |-> FALSE, beneficiary |-> DefaultKey, claimed |-> 0,
     params |-> [start |-> 0, cliff_duration |-> 0, vest_duration |-> 0, total |-> 0]]

SolanaInit ==
    /\ vesting = [a \in Accounts |-> zeroed]
    /\ unix_timestamp \in Timestamps
    /\ signer = DefaultKey

apply_init_vesting(beneficiary, params) ==
    [initialized |-> TRUE, beneficiary |-> beneficiary, params |-> params,
     claimed |-> 0]

\* Mutant: an account that is in use is initialized again.
verified_init_instruction_again(payer, a, beneficiary, params) ==
    /\ well_formed(params)
    /\ vesting' = [vesting EXCEPT ![a] = apply_init_vesting(beneficiary, params)]
    /\ signer' = payer
    /\ UNCHANGED unix_timestamp

verified_init_instruction(payer, a, beneficiary, params) ==
    /\ well_formed(params)
    /\ ~vesting[a].initialized
    /\ vesting' = [vesting EXCEPT ![a] = apply_init_vesting(beneficiary, params)]
    /\ signer' = payer
    /\ UNCHANGED unix_timestamp

\* apply_claim returns Ok: neither Unauthorized nor ArithOverflow.
apply_claim_ok(acc, signer_key) ==
    /\ signer_key = acc.beneficiary
    /\ compute_vested_ok(acc.params, read_now_secs)

\* What init established of the account is checked again on the decoded copy.
verified_claim_instruction(signer_key, a) ==
    /\ vesting[a].initialized
    /\ well_formed(vesting[a].params)
    /\ vesting[a].claimed <= vesting[a].params.total
    /\ apply_claim_ok(vesting[a], signer_key)
    /\ vesting' = [vesting EXCEPT ![a].claimed =
                      @ + compute_claim(vesting[a].params, read_now_secs, @)]
    /\ signer' = signer_key
    /\ UNCHANGED unix_timestamp

\* Several slots can have the same timestamp.
NextSlot ==
    /\ unix_timestamp' \in Timestamps
    /\ unix_timestamp' >= unix_timestamp
    /\ UNCHANGED <<vesting, signer>>

process_instruction(who) ==
    \E a \in Accounts :
       \/ \E beneficiary \in Keys, params \in Params :
             verified_init_instruction(who, a, beneficiary, params)
       \/ verified_claim_instruction(who, a)

SolanaNext ==
    \/ \E who \in Keys : process_instruction(who)
    \/ NextSlot

SolanaSpec == SolanaInit /\ [][SolanaNext]_solana_vars

-----------------------------------------------------------------------------
(* Properties.                                                             *)

\* What a claim checks again always holds: an initialized account never fails
\* these checks, and one that is not initialized is still all zero.
SolanaTypeOK ==
    /\ vesting \in [Accounts -> VestingAccount]
    /\ unix_timestamp \in Timestamps
    /\ signer \in Keys \cup {DefaultKey}
    /\ \A a \in Accounts :
          IF vesting[a].initialized
          THEN /\ well_formed(vesting[a].params)
               /\ vesting[a].claimed <= vesting[a].params.total
          ELSE vesting[a] = zeroed

\* Tokens are released only in an instruction the account's beneficiary signed,
\* and only past its cliff and past the epoch: a negative timestamp is no late
\* time.
ReleasesAreDue ==
    [][\A a \in Accounts :
          vesting'[a].claimed > vesting[a].claimed =>
             /\ signer' = vesting[a].beneficiary
             /\ unix_timestamp > 0
             /\ unix_timestamp >= vesting[a].params.start
                                     + vesting[a].params.cliff_duration]_solana_vars

\* Every vesting account implements the abstract grant, with the timestamp
\* clamped at the epoch for its clock.
GrantOf(a) == INSTANCE VestingGrant WITH
               Accounts <- Keys, NoGrant <- zeroed, now <- read_now_secs,
               grant <- IF vesting[a].initialized
                        THEN [beneficiary |-> vesting[a].beneficiary,
                              params |-> vesting[a].params,
                              claimed |-> vesting[a].claimed]
                        ELSE zeroed
GrantsSpec ==
    /\ \A a \in Accounts : GrantOf(a)!Init
    /\ [][\A a \in Accounts : [GrantOf(a)!Next]_(GrantOf(a)!vars)]_solana_vars
=============================================================================
