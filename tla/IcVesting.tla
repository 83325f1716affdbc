------------------------------ MODULE IcVesting ------------------------------
(***************************************************************************)
(* The Internet Computer vesting canister                                  *)
(* (vesting_application_examples/ic): init, claim and the time-dependent   *)
(* queries over one VestingState in the canister's heap.                   *)
(*                                                                         *)
(* The heap is all the canister has: the code declares no upgrade hooks,   *)
(* and an upgrade starts again from VestingState::default(), whose all-    *)
(* zero schedule no init would accept, without running init.               *)
(***************************************************************************)
EXTENDS VestingCore

CONSTANTS Principals,
          Nobody         \* None

VARIABLES heap,          \* VestingState
          now_ns,        \* ic_cdk::api::time()
          installed,     \* init has run
          paid,          \* history: what every caller's claims have answered with
          upgraded       \* history: the canister was upgraded

vars == <<heap, now_ns, installed, paid, upgraded>>

VestingState ==
    [beneficiary : Principals \cup {Nobody}, params : Params, claimed : Amounts]

default ==
    [beneficiary |-> Nobody, claimed |-> 0,
     params |-> [start |-> 0, cliff_duration |-> 0, vest_duration |-> 0, total |-> 0]]

-----------------------------------------------------------------------------
Init ==
    /\ heap = default
    /\ now_ns \in Times
    /\ installed = FALSE
    /\ paid = [p \in Principals |-> 0]
    /\ upgraded = FALSE

\* The method init, which the IC runs once, when it installs the canister.
init(beneficiary, params) ==
    /\ ~installed
    /\ well_formed(params)
    /\ heap' = [beneficiary |-> beneficiary, params |-> params, claimed |-> 0]
    /\ installed' = TRUE
    /\ UNCHANGED <<now_ns, paid, upgraded>>

\* verified_claim returns Ok: neither Unauthorized nor ArithOverflow.
verified_claim_ok(who) ==
    /\ who = heap.beneficiary
    /\ compute_vested_ok(heap.params, now_ns)

amount == compute_claim(heap.params, now_ns, heap.claimed)

\* An Err, here and in verified_claim, leaves the heap alone.
claim(who) ==
    /\ installed
    /\ \/ /\ heap.beneficiary # Nobody
          /\ verified_claim_ok(who)
          /\ heap' = [heap EXCEPT !.claimed = @ + amount]
          /\ paid' = [paid EXCEPT ![who] = @ + amount]
       \/ /\ heap.beneficiary = Nobody \/ ~verified_claim_ok(who)
          /\ UNCHANGED <<heap, paid>>
    /\ UNCHANGED <<now_ns, installed, upgraded>>

Tick ==
    /\ now_ns' \in Times
    /\ now_ns' > now_ns
    /\ UNCHANGED <<heap, installed, paid, upgraded>>

\* The controller installs a new version of the code.
Upgrade ==
    /\ installed
    /\ heap' = default
    /\ upgraded' = TRUE
    /\ UNCHANGED <<now_ns, installed, paid>>

\* The queries, where they do not trap.
vested_now == compute_vested(heap.params, now_ns)
claimable_now == amount

Next ==
    \/ \E beneficiary \in Principals, params \in Params : init(beneficiary, params)
    \/ \E who \in Principals : claim(who)
    \/ Tick
    \/ Upgrade

Spec == Init /\ [][Next]_vars

-----------------------------------------------------------------------------
(* Properties.                                                             *)

\* The heap is well formed or the default; the verified helpers, which
\* require a well-formed schedule, run on both.
TypeOK ==
    /\ heap \in VestingState
    /\ heap = default \/ well_formed(heap.params)
    /\ now_ns \in Times
    /\ installed \in BOOLEAN /\ upgraded \in BOOLEAN
    /\ paid \in [Principals -> Amounts]

\* On the default heap too, the queries answer what a claim would find, and
\* they never divide by a zero duration.
QueriesAgree ==
    /\ in_linear_branch(heap.params, now_ns) => heap.params.vest_duration > 0
    /\ compute_vested_ok(heap.params, now_ns) =>
          heap.claimed + claimable_now = vested_now

\* As long as the canister is not upgraded it implements the abstract grant;
\* after an upgrade nothing is ever paid out again.
Grant == INSTANCE VestingGrant WITH
            Accounts <- Principals, NoGrant <- Nobody, now <- now_ns,
            grant <- IF heap.beneficiary = Nobody THEN Nobody ELSE heap
GrantUntilUpgrade ==
    /\ Grant!Init
    /\ [][IF upgraded THEN UNCHANGED paid
          ELSE upgraded' \/ [Grant!Next]_<<heap, now_ns>>]_vars
=============================================================================
