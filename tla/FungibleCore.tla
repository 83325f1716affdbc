---------------------------- MODULE FungibleCore ----------------------------
(***************************************************************************)
(* The chain-agnostic fungible-token core shared by every per-chain crate  *)
(* (fungible_application_examples/core): the checked arithmetic of one     *)
(* transfer and the maps State<A> is made of.  FungibleLedger states what  *)
(* the core promises; the per-chain modules use these operators the way    *)
(* the per-chain crates use the core.                                      *)
(***************************************************************************)
EXTENDS TokenAmounts, FiniteSets

-----------------------------------------------------------------------------
(* Maps.  A storage map is a function whose domain is the keys present.    *)

insert(m, k, v) == [x \in DOMAIN m \cup {k} |-> IF x = k THEN v ELSE m[x]]
remove(m, k) == [x \in DOMAIN m \ {k} |-> m[x]]

\* The value of k in m, with absent entries treated as 0.
balance_at(m, k) == IF k \in DOMAIN m THEN m[k] ELSE 0

\* m maps some of the keys in K to values in V.
is_map(m, K, V) == DOMAIN m \subseteq K /\ m \in [DOMAIN m -> V]

\* The token units held in m: one element per unit, tagged with its holder.
\* Counting them is the sum of the balances, without recursion over m.
Units(m) == UNION {{a} \X (1 .. m[a]) : a \in DOMAIN m}
sum_balances(m) == Cardinality(Units(m))

-----------------------------------------------------------------------------
(* Arithmetic and state updates.                                           *)

\* transfer_balances returns Ok exactly when both checked operations do.
transfer_balances_ok(from_balance, to_balance, amount) ==
    /\ from_balance >= amount
    /\ to_balance + amount <= MaxAmount

\* Both balances are read before either is written, so with from = to the
\* second write wins.
state_after_transfer(m, from, to, amount) ==
    insert(insert(m, from, balance_at(m, from) - amount),
           to, balance_at(m, to) + amount)

state_after_mint(m, to, amount) == insert(m, to, balance_at(m, to) + amount)

state_after_burn(m, from, amount) == insert(m, from, balance_at(m, from) - amount)
=============================================================================
