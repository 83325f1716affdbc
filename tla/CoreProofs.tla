----------------------------- MODULE CoreProofs -----------------------------
(***************************************************************************)
(* What the two cores promise of their operators.                          *)
(*                                                                         *)
(* FungibleCore: what the map operators do to every entry of a map, and to *)
(* the sum of the balances.  The sum is the number of token units, so the  *)
(* proofs count finite sets instead of recursing over the map as the       *)
(* core's own lemmas do.                                                   *)
(*                                                                         *)
(* VestingCore: what the core proves about its schedule with Verus, proved *)
(* here at every width of amounts and times.                               *)
(***************************************************************************)
EXTENDS FungibleCore, VestingCore, FiniteSetTheorems, TLAPS

-----------------------------------------------------------------------------
(* Maps.                                                                   *)

\* An absent entry reads as zero, so reading a map of amounts gives an amount.
LEMMA BalanceType == ASSUME NEW K, NEW m, is_map(m, K, Amounts), NEW k
                     PROVE  balance_at(m, k) \in Amounts
  BY MaxAmountAssumption DEF is_map, balance_at, Amounts

\* insert writes one entry and leaves the others alone.
LEMMA InsertReads == ASSUME NEW m, NEW k, NEW v, NEW j
                     PROVE  balance_at(insert(m, k, v), j) =
                               IF j = k THEN v ELSE balance_at(m, j)
  BY DEF insert, balance_at

LEMMA InsertType == ASSUME NEW K, NEW V, NEW m, is_map(m, K, V), NEW k \in K, NEW v \in V
                    PROVE  is_map(insert(m, k, v), K, V)
<1> DEFINE D == DOMAIN m \cup {k}
<1>1. insert(m, k, v) = [x \in D |-> IF x = k THEN v ELSE m[x]]
  BY DEF insert
<1>2. \A x \in D : (IF x = k THEN v ELSE m[x]) \in V
  BY DEF is_map
<1>3. D \subseteq K
  BY DEF is_map
<1> QED BY <1>1, <1>2, <1>3 DEF is_map

\* remove takes one entry away and leaves the others alone.
LEMMA RemoveReads == ASSUME NEW m, NEW k, NEW j
                     PROVE  balance_at(remove(m, k), j) =
                               IF j = k THEN 0 ELSE balance_at(m, j)
  BY DEF remove, balance_at

LEMMA RemoveType == ASSUME NEW K, NEW V, NEW m, is_map(m, K, V), NEW k
                    PROVE  is_map(remove(m, k), K, V)
<1> DEFINE D == DOMAIN m \ {k}
<1>1. remove(m, k) = [x \in D |-> m[x]]
  BY DEF remove
<1>2. \A x \in D : m[x] \in V
  BY DEF is_map
<1>3. D \subseteq K
  BY DEF is_map
<1> QED BY <1>1, <1>2, <1>3 DEF is_map

\* What a transfer leaves in every entry, in a map of any keys.
LEMMA TransferReads ==
    ASSUME NEW m, NEW from, NEW to, NEW amount, from # to, NEW a
    PROVE  balance_at(state_after_transfer(m, from, to, amount), a) =
              IF a = to THEN balance_at(m, to) + amount
              ELSE IF a = from THEN balance_at(m, from) - amount
              ELSE balance_at(m, a)
<1> DEFINE m1 == insert(m, from, balance_at(m, from) - amount)
           v == balance_at(m, to) + amount
<1>1. state_after_transfer(m, from, to, amount) = insert(m1, to, v)
  BY DEF state_after_transfer
<1>2. balance_at(m1, a) = IF a = from THEN balance_at(m, from) - amount
                          ELSE balance_at(m, a)
  BY InsertReads
<1>3. balance_at(insert(m1, to, v), a) = IF a = to THEN v ELSE balance_at(m1, a)
  BY InsertReads
<1> QED BY <1>1, <1>2, <1>3

-----------------------------------------------------------------------------
(* The sum of the balances.                                                *)

\* The token units of one account of m.
UnitsOf(m, a) == {a} \X (1 .. m[a])

\* An account holds as many units as its balance.
LEMMA UnitsOfCount ==
    ASSUME NEW m, NEW a, m[a] \in Nat
    PROVE  /\ IsFiniteSet(UnitsOf(m, a))
           /\ Cardinality(UnitsOf(m, a)) = m[a]
<1>1. IsFiniteSet({a}) /\ Cardinality({a}) = 1
  BY FS_Singleton
<1>2. IsFiniteSet(1 .. m[a]) /\ Cardinality(1 .. m[a]) = m[a]
  <2>1. /\ IsFiniteSet(1 .. m[a])
        /\ Cardinality(1 .. m[a]) = IF 1 > m[a] THEN 0 ELSE m[a] - 1 + 1
    BY FS_Interval
  <2> QED BY <2>1
<1>3. /\ IsFiniteSet({a} \X (1 .. m[a]))
      /\ Cardinality({a} \X (1 .. m[a])) = Cardinality({a}) * Cardinality(1 .. m[a])
  BY <1>1, <1>2, FS_Product
<1> QED BY <1>1, <1>2, <1>3 DEF UnitsOf

\* The units of a map over a finite set of accounts can be counted.
LEMMA UnitsFinite ==
    ASSUME NEW S, IsFiniteSet(S), NEW m \in [S -> Nat]
    PROVE  /\ IsFiniteSet(Units(m))
           /\ sum_balances(m) \in Nat
<1> DEFINE Parts == {UnitsOf(m, a) : a \in S}
<1>1. IsFiniteSet(Parts)
  <2> DEFINE f == [a \in S |-> UnitsOf(m, a)]
  <2>1. f \in Surjection(S, Parts)
    BY DEF Surjection
  <2> QED BY <2>1, FS_Surjection
<1>2. \A P \in Parts : IsFiniteSet(P)
  BY UnitsOfCount
<1>3. IsFiniteSet(UNION Parts)
  BY <1>1, <1>2, FS_UNION
<1>4. Units(m) = UNION Parts
  BY DEF Units, UnitsOf
<1> QED BY <1>3, <1>4, FS_CardinalityType DEF sum_balances

\* Removing an account from a map removes exactly its units.
LEMMA SumWithout ==
    ASSUME NEW S, IsFiniteSet(S), NEW m \in [S -> Nat], NEW k \in S
    PROVE  /\ sum_balances(remove(m, k)) \in Nat
           /\ sum_balances(m) = sum_balances(remove(m, k)) + m[k]
<1> DEFINE r == remove(m, k)
<1>1. r \in [S \ {k} -> Nat]
  BY DEF remove
<1>2. IsFiniteSet(S \ {k})
  BY FS_RemoveElement
<1>3. IsFiniteSet(Units(r)) /\ sum_balances(r) \in Nat
  BY <1>1, <1>2, UnitsFinite
<1>4. IsFiniteSet(UnitsOf(m, k)) /\ Cardinality(UnitsOf(m, k)) = m[k]
  BY UnitsOfCount
<1>5. Units(m) = Units(r) \cup UnitsOf(m, k)
  BY DEF Units, UnitsOf, remove
<1>6. Units(r) \cap UnitsOf(m, k) = {}
  BY DEF Units, UnitsOf, remove
<1>7. Cardinality(Units(m))
         = Cardinality(Units(r)) + Cardinality(UnitsOf(m, k)) - Cardinality({})
  BY <1>3, <1>4, <1>5, <1>6, FS_Union
<1> QED BY <1>3, <1>4, <1>7, FS_EmptySet DEF sum_balances

\* lemma_sum_after_insert: replacing the value of a present key shifts the
\* sum by the difference.
LEMMA SumAfterInsert ==
    ASSUME NEW S, IsFiniteSet(S), NEW m \in [S -> Nat], NEW k \in S, NEW v \in Nat
    PROVE  /\ insert(m, k, v) \in [S -> Nat]
           /\ sum_balances(m) \in Nat
           /\ sum_balances(insert(m, k, v)) \in Nat
           /\ sum_balances(insert(m, k, v)) + m[k] = sum_balances(m) + v
<1> DEFINE w == insert(m, k, v)
<1>1. w \in [S -> Nat] /\ w[k] = v
  BY DEF insert
<1>2. remove(w, k) = remove(m, k)
  BY DEF insert, remove
<1>3. /\ sum_balances(remove(m, k)) \in Nat
      /\ sum_balances(m) = sum_balances(remove(m, k)) + m[k]
  BY SumWithout
<1>4. sum_balances(w) = sum_balances(remove(w, k)) + w[k]
  BY <1>1, SumWithout
<1>5. m[k] \in Nat
  OBVIOUS
<1> HIDE DEF w
<1>6. sum_balances(w) + m[k] = sum_balances(m) + v
  BY <1>1, <1>2, <1>3, <1>4, <1>5
<1>7. sum_balances(m) \in Nat /\ sum_balances(w) \in Nat
  BY <1>1, <1>2, <1>3, <1>4, <1>5
<1> QED BY <1>1, <1>6, <1>7 DEF w

\* Where only one entry differs, the sums differ by what it does.
LEMMA SumAfterOne ==
    ASSUME NEW S, IsFiniteSet(S), NEW m \in [S -> Nat], NEW n \in [S -> Nat],
           NEW k \in S, \A x \in S \ {k} : n[x] = m[x]
    PROVE  /\ sum_balances(m) \in Nat /\ sum_balances(n) \in Nat
           /\ sum_balances(n) + m[k] = sum_balances(m) + n[k]
<1>1. remove(n, k) = remove(m, k)
  BY DEF remove
<1>2. /\ sum_balances(remove(m, k)) \in Nat
      /\ sum_balances(m) = sum_balances(remove(m, k)) + m[k]
  BY SumWithout
<1>3. sum_balances(n) = sum_balances(remove(n, k)) + n[k]
  BY SumWithout
<1>4. m[k] \in Nat /\ n[k] \in Nat
  OBVIOUS
<1> QED BY <1>1, <1>2, <1>3, <1>4

\* Where only two entries differ, they differ by what these two do.
LEMMA SumAfterTwo ==
    ASSUME NEW S, IsFiniteSet(S), NEW m \in [S -> Nat], NEW n \in [S -> Nat],
           NEW a \in S, NEW b \in S, a # b,
           \A x \in S \ {a, b} : n[x] = m[x]
    PROVE  /\ sum_balances(m) \in Nat /\ sum_balances(n) \in Nat
           /\ sum_balances(n) + m[a] + m[b] = sum_balances(m) + n[a] + n[b]
<1> DEFINE half == [x \in S |-> IF x = a THEN n[a] ELSE m[x]]
<1>1. /\ half \in [S -> Nat]
      /\ \A x \in S \ {a} : half[x] = m[x]
      /\ \A x \in S \ {b} : n[x] = half[x]
      /\ half[a] = n[a] /\ half[b] = m[b]
  OBVIOUS
<1> HIDE DEF half
<1>2. /\ sum_balances(m) \in Nat /\ sum_balances(half) \in Nat
      /\ sum_balances(half) + m[a] = sum_balances(m) + half[a]
  BY <1>1, SumAfterOne
<1>3. /\ sum_balances(n) \in Nat
      /\ sum_balances(n) + half[b] = sum_balances(half) + n[b]
  BY <1>1, SumAfterOne
<1>4. /\ m[a] \in Nat /\ m[b] \in Nat /\ n[a] \in Nat /\ n[b] \in Nat
  OBVIOUS
<1> QED BY <1>1, <1>2, <1>3, <1>4

\* No two accounts together hold more than the sum.
LEMMA TwoBalancesBound ==
    ASSUME NEW S, IsFiniteSet(S), NEW m \in [S -> Nat], NEW a \in S, NEW b \in S, a # b
    PROVE  /\ m[a] <= sum_balances(m)
           /\ m[a] + m[b] <= sum_balances(m)
<1> DEFINE r == remove(m, a)
<1>1. r \in [S \ {a} -> Nat] /\ r[b] = m[b] /\ b \in S \ {a}
  BY DEF remove
<1>2. IsFiniteSet(S \ {a})
  BY FS_RemoveElement
<1>3. sum_balances(r) \in Nat /\ sum_balances(m) = sum_balances(r) + m[a]
  BY SumWithout
<1>4. /\ sum_balances(remove(r, b)) \in Nat
      /\ sum_balances(r) = sum_balances(remove(r, b)) + r[b]
  <2> HIDE DEF r
  <2> QED BY <1>1, <1>2, SumWithout
<1>5. m[a] \in Nat /\ m[b] \in Nat
  OBVIOUS
<1> HIDE DEF r
<1> QED BY <1>1, <1>3, <1>4, <1>5

\* Nor does one.
LEMMA BalanceBound ==
    ASSUME NEW S, IsFiniteSet(S), NEW m \in [S -> Nat], NEW a \in S
    PROVE  m[a] <= sum_balances(m)
<1>1. /\ sum_balances(remove(m, a)) \in Nat
      /\ sum_balances(m) = sum_balances(remove(m, a)) + m[a]
  BY SumWithout
<1>2. m[a] \in Nat
  OBVIOUS
<1> QED BY <1>1, <1>2

\* Accounts of a given width hold together at most that width each.
LEMMA SumBound ==
    ASSUME NEW S, IsFiniteSet(S), NEW width \in Nat, NEW m \in [S -> 0 .. width]
    PROVE  /\ width * Cardinality(S) \in Nat
           /\ sum_balances(m) <= width * Cardinality(S)
<1>1. IsFiniteSet(1 .. width) /\ Cardinality(1 .. width) = width
  <2>1. /\ IsFiniteSet(1 .. width)
        /\ Cardinality(1 .. width) = IF 1 > width THEN 0 ELSE width - 1 + 1
    BY FS_Interval
  <2> QED BY <2>1
<1>2. /\ IsFiniteSet(S \X (1 .. width))
      /\ Cardinality(S \X (1 .. width)) = Cardinality(S) * Cardinality(1 .. width)
  BY <1>1, FS_Product
<1>3. Units(m) \subseteq S \X (1 .. width)
  BY DEF Units
<1>4. Cardinality(Units(m)) <= Cardinality(S \X (1 .. width))
  BY <1>2, <1>3, FS_Subset
<1>5. Cardinality(S) \in Nat
  BY FS_CardinalityType
<1>6. Cardinality(S) * width = width * Cardinality(S) /\ width * Cardinality(S) \in Nat
  BY <1>5
<1> QED BY <1>1, <1>2, <1>4, <1>6 DEF sum_balances

\* The units of a map, one by one.
LEMMA UnitsMembers ==
    ASSUME NEW S, NEW m \in [S -> Nat], NEW u
    PROVE  u \in Units(m) <=> \E a \in S : \E i \in 1 .. m[a] : u = <<a, i>>
BY DEF Units

\* Where nobody holds anything, the sum is zero.
LEMMA SumOfNothing ==
    ASSUME NEW S, NEW m \in [S -> Nat], \A a \in S : m[a] = 0
    PROVE  sum_balances(m) = 0
<1>1. Units(m) = {}
  BY UnitsMembers
<1> QED BY <1>1, FS_EmptySet DEF sum_balances

\* The sum does not depend on how accounts are named: a map that holds under
\* new names what m holds, and nothing besides, has the same sum.
LEMMA SumRelabelled ==
    ASSUME NEW S, IsFiniteSet(S), NEW m \in [S -> Nat],
           NEW T, NEW n \in [T -> Nat],
           NEW f \in [S -> T],
           \A a, b \in S : f[a] = f[b] => a = b,
           \A a \in S : n[f[a]] = m[a],
           \A c \in T : n[c] # 0 => \E a \in S : c = f[a]
    PROVE  sum_balances(n) = sum_balances(m)
<1> DEFINE g == [u \in Units(m) |-> <<f[u[1]], u[2]>>]
<1>1. g \in [Units(m) -> Units(n)]
  <2> SUFFICES ASSUME NEW u \in Units(m) PROVE <<f[u[1]], u[2]>> \in Units(n)
    OBVIOUS
  <2>1. PICK a \in S : \E i \in 1 .. m[a] : u = <<a, i>>
    BY UnitsMembers
  <2>2. f[a] \in T /\ n[f[a]] = m[a]
    OBVIOUS
  <2> QED BY <2>1, <2>2, UnitsMembers
<1>2. ASSUME NEW u \in Units(m), NEW v \in Units(m), g[u] = g[v]
      PROVE  u = v
  <2>1. PICK a \in S : \E i \in 1 .. m[a] : u = <<a, i>>
    BY UnitsMembers
  <2>2. PICK b \in S : \E j \in 1 .. m[b] : v = <<b, j>>
    BY UnitsMembers
  <2>3. f[a] = f[b]
    BY <1>2, <2>1, <2>2
  <2> QED BY <1>2, <2>1, <2>2, <2>3
<1>3. ASSUME NEW w \in Units(n)
      PROVE  \E u \in Units(m) : g[u] = w
  <2>1. PICK c \in T : \E i \in 1 .. n[c] : w = <<c, i>>
    BY UnitsMembers
  <2>2. n[c] # 0
    BY <2>1
  <2>3. PICK a \in S : c = f[a]
    BY <2>2
  <2>4. PICK i \in 1 .. n[c] : w = <<c, i>>
    BY <2>1
  <2>5. <<a, i>> \in Units(m)
    BY <2>3, <2>4, UnitsMembers
  <2> QED BY <2>3, <2>4, <2>5
<1>4. g \in Bijection(Units(m), Units(n))
  <2> HIDE DEF g
  <2> QED BY <1>1, <1>2, <1>3 DEF Bijection, Injection, Surjection, IsInjective
<1>5. IsFiniteSet(Units(m))
  BY UnitsFinite
<1>6. Cardinality(Units(n)) = Cardinality(Units(m))
  BY <1>4, <1>5, FS_Bijection DEF ExistsBijection
<1> QED BY <1>6 DEF sum_balances

-----------------------------------------------------------------------------
(* The state updates of the core.                                          *)

\* lemma_transfer_preserves_invariant: a transfer between two distinct
\* accounts leaves the sum of the balances as it was.
LEMMA TransferPreservesSum ==
    ASSUME NEW S, IsFiniteSet(S), NEW m \in [S -> Nat], NEW from \in S, NEW to \in S,
           from # to, NEW amount \in Nat, m[from] >= amount
    PROVE  /\ state_after_transfer(m, from, to, amount) \in [S -> Nat]
           /\ sum_balances(state_after_transfer(m, from, to, amount)) = sum_balances(m)
<1> DEFINE m1 == insert(m, from, m[from] - amount)
           m2 == insert(m1, to, m[to] + amount)
<1>1. m[from] \in Nat /\ m[to] \in Nat /\ m[from] - amount \in Nat /\ m[to] + amount \in Nat
  OBVIOUS
<1>2. state_after_transfer(m, from, to, amount) = m2
  BY DEF state_after_transfer, balance_at
<1>3. /\ m1 \in [S -> Nat]
      /\ sum_balances(m) \in Nat
      /\ sum_balances(m1) \in Nat
      /\ sum_balances(m1) + m[from] = sum_balances(m) + (m[from] - amount)
  BY <1>1, SumAfterInsert
<1>4. m1[to] = m[to]
  BY DEF insert
<1> HIDE DEF m1
<1>5. /\ m2 \in [S -> Nat]
      /\ sum_balances(m2) \in Nat
      /\ sum_balances(m2) + m1[to] = sum_balances(m1) + (m[to] + amount)
  BY <1>1, <1>3, SumAfterInsert
<1> HIDE DEF m2
<1>6. sum_balances(m2) = sum_balances(m)
  BY <1>1, <1>3, <1>4, <1>5
<1> QED BY <1>2, <1>5, <1>6

\* lemma_self_transfer_inflates_sum: with both accounts the same, the second
\* write wins and the sum grows, which is why every chain rejects it.
LEMMA SelfTransferInflatesSum ==
    ASSUME NEW S, IsFiniteSet(S), NEW m \in [S -> Nat], NEW who \in S,
           NEW amount \in Nat, m[who] >= amount
    PROVE  sum_balances(state_after_transfer(m, who, who, amount)) = sum_balances(m) + amount
<1>1. m[who] \in Nat /\ m[who] + amount \in Nat
  OBVIOUS
<1>2. state_after_transfer(m, who, who, amount) = insert(m, who, m[who] + amount)
  BY DEF state_after_transfer, balance_at, insert
<1>3. /\ sum_balances(m) \in Nat
      /\ sum_balances(insert(m, who, m[who] + amount)) \in Nat
      /\ sum_balances(insert(m, who, m[who] + amount)) + m[who]
            = sum_balances(m) + (m[who] + amount)
  BY <1>1, SumAfterInsert
<1> QED BY <1>1, <1>2, <1>3

\* lemma_mint_preserves_invariant: a mint adds its amount to the sum.
LEMMA MintAddsToSum ==
    ASSUME NEW S, IsFiniteSet(S), NEW m \in [S -> Nat], NEW to \in S, NEW amount \in Nat
    PROVE  /\ state_after_mint(m, to, amount) \in [S -> Nat]
           /\ sum_balances(state_after_mint(m, to, amount)) = sum_balances(m) + amount
<1>1. m[to] \in Nat /\ m[to] + amount \in Nat
  OBVIOUS
<1>2. state_after_mint(m, to, amount) = insert(m, to, m[to] + amount)
  BY DEF state_after_mint, balance_at
<1>3. /\ insert(m, to, m[to] + amount) \in [S -> Nat]
      /\ sum_balances(m) \in Nat
      /\ sum_balances(insert(m, to, m[to] + amount)) \in Nat
      /\ sum_balances(insert(m, to, m[to] + amount)) + m[to]
            = sum_balances(m) + (m[to] + amount)
  BY <1>1, SumAfterInsert
<1> QED BY <1>1, <1>2, <1>3

\* lemma_burn_preserves_invariant: a burn the account can pay for takes its
\* amount from the sum.
LEMMA BurnTakesFromSum ==
    ASSUME NEW S, IsFiniteSet(S), NEW m \in [S -> Nat], NEW from \in S,
           NEW amount \in Nat, m[from] >= amount
    PROVE  /\ state_after_burn(m, from, amount) \in [S -> Nat]
           /\ sum_balances(state_after_burn(m, from, amount)) = sum_balances(m) - amount
<1>1. m[from] \in Nat /\ m[from] - amount \in Nat
  OBVIOUS
<1>2. state_after_burn(m, from, amount) = insert(m, from, m[from] - amount)
  BY DEF state_after_burn, balance_at
<1>3. /\ insert(m, from, m[from] - amount) \in [S -> Nat]
      /\ sum_balances(m) \in Nat
      /\ sum_balances(insert(m, from, m[from] - amount)) \in Nat
      /\ sum_balances(insert(m, from, m[from] - amount)) + m[from]
            = sum_balances(m) + (m[from] - amount)
  BY <1>1, SumAfterInsert
<1> QED BY <1>1, <1>2, <1>3

-----------------------------------------------------------------------------
(* Multiplication and division of naturals.                                *)

\* A product of naturals is a natural.
LEMMA TimesNat == ASSUME NEW a \in Nat, NEW b \in Nat
                  PROVE  a * b \in Nat
  OBVIOUS

\* Multiplication by a natural is monotonic.
LEMMA TimesMonotonic == ASSUME NEW d \in Nat, NEW a \in Nat, NEW b \in Nat, a <= b
                        PROVE  d * a <= d * b
<1>1. PICK k \in Nat : b = a + k
  <2>1. b - a \in Nat /\ b = a + (b - a)
    OBVIOUS
  <2> QED BY <2>1
<1>2. d * b = d * a + d * k
  BY <1>1
<1>3. d * a \in Nat /\ d * k \in Nat
  BY <1>1, TimesNat
<1> QED BY <1>2, <1>3

\* The quotient is the natural whose multiple lies within d below a.
LEMMA Quotient == ASSUME NEW a \in Nat, NEW d \in Nat \ {0}
                  PROVE  /\ a \div d \in Nat
                         /\ d * (a \div d) <= a
                         /\ a < d * (a \div d) + d
  BY SMT

\* Division by a positive natural is monotonic.
LEMMA DivMonotonic == ASSUME NEW d \in Nat \ {0}, NEW a \in Nat, NEW b \in Nat, a <= b
                      PROVE  a \div d <= b \div d
<1> DEFINE q == a \div d
           r == b \div d
<1>1. /\ q \in Nat /\ r \in Nat
      /\ d * q <= a
      /\ b < d * r + d
  BY Quotient
<1> HIDE DEF q, r
<1>2. SUFFICES ASSUME r + 1 <= q PROVE FALSE
  BY <1>1 DEF q, r
<1>3. d * (r + 1) <= d * q
  BY <1>1, <1>2, TimesMonotonic
<1>4. d * (r + 1) = d * r + d
  BY <1>1
<1>5. d * r \in Nat /\ d * q \in Nat
  BY <1>1, TimesNat
<1> QED BY <1>1, <1>3, <1>4, <1>5

\* A multiple of the divisor divides exactly.
LEMMA DivExact == ASSUME NEW d \in Nat \ {0}, NEW q \in Nat
                  PROVE  (q * d) \div d = q
  BY SMT

-----------------------------------------------------------------------------
(* The schedule.                                                           *)

\* A well-formed schedule, and the type of its parts.
LEMMA ScheduleParts == ASSUME NEW p \in Params, well_formed(p)
                       PROVE  /\ p.start \in Nat
                              /\ p.cliff_duration \in Nat
                              /\ p.vest_duration \in Nat \ {0}
                              /\ p.cliff_duration <= p.vest_duration
                              /\ p.total \in Nat
                              /\ p.total <= MaxAmount
  BY MaxAmountAssumption, MaxTimeAssumption
     DEF Params, well_formed, Amounts, Times

\* In the linear branch the vested amount is at most the total.
LEMMA LinearBounded == ASSUME NEW total \in Nat, NEW d \in Nat \ {0},
                              NEW e \in Nat, e <= d
                       PROVE  /\ (total * e) \div d \in Nat
                              /\ (total * e) \div d <= total
<1>1. /\ total * e \in Nat
      /\ total * d \in Nat
      /\ total * e <= total * d
  BY TimesNat, TimesMonotonic
<1>2. (total * e) \div d <= (total * d) \div d
  BY <1>1, DivMonotonic
<1> QED BY <1>1, <1>2, Quotient, DivExact

\* The linear branch grows with the elapsed time.
LEMMA LinearMonotonic == ASSUME NEW total \in Nat, NEW d \in Nat \ {0},
                                NEW e \in Nat, NEW f \in Nat, e <= f
                         PROVE  (total * e) \div d <= (total * f) \div d
<1>1. /\ total * e \in Nat
      /\ total * f \in Nat
      /\ total * e <= total * f
  BY TimesNat, TimesMonotonic
<1> QED BY <1>1, DivMonotonic

\* lemma_vested_bounded: the schedule never vests more than the total.
LEMMA VestedBounded == ASSUME NEW p \in Params, well_formed(p), NEW t \in Nat
                       PROVE  /\ vested_at(p, t) \in Nat
                              /\ vested_at(p, t) <= p.total
<1> USE ScheduleParts
<1>1. CASE t < p.start + p.cliff_duration
  BY <1>1 DEF vested_at
<1>2. CASE t >= p.start + p.cliff_duration /\ t >= p.start + p.vest_duration
  BY <1>2 DEF vested_at
<1>3. CASE t >= p.start + p.cliff_duration /\ t < p.start + p.vest_duration
  <2>1. t - p.start \in Nat /\ t - p.start <= p.vest_duration
    BY <1>3
  <2>2. vested_at(p, t) = (p.total * (t - p.start)) \div p.vest_duration
    BY <1>3 DEF vested_at
  <2> QED BY <2>1, <2>2, LinearBounded
<1> QED BY <1>1, <1>2, <1>3

\* lemma_vested_monotonic: what has vested never shrinks.
LEMMA VestedMonotonic == ASSUME NEW p \in Params, well_formed(p),
                                NEW t \in Nat, NEW u \in Nat, t <= u
                         PROVE  vested_at(p, t) <= vested_at(p, u)
<1> USE ScheduleParts
<1>1. CASE t < p.start + p.cliff_duration
  BY <1>1, VestedBounded DEF vested_at
<1>2. CASE t >= p.start + p.cliff_duration /\ u >= p.start + p.vest_duration
  <2>1. vested_at(p, u) = p.total
    BY <1>2 DEF vested_at
  <2> QED BY <2>1, VestedBounded
<1>3. CASE t >= p.start + p.cliff_duration /\ u < p.start + p.vest_duration
  <2>1. /\ vested_at(p, t) = (p.total * (t - p.start)) \div p.vest_duration
        /\ vested_at(p, u) = (p.total * (u - p.start)) \div p.vest_duration
    BY <1>3 DEF vested_at
  <2>2. /\ t - p.start \in Nat /\ u - p.start \in Nat
        /\ t - p.start <= u - p.start
    BY <1>3
  <2> QED BY <2>1, <2>2, LinearMonotonic
<1> QED BY <1>1, <1>2, <1>3

\* The checked arithmetic of the contracts, which subtracts the start before it
\* compares, computes the schedule of the specification.
LEMMA ComputeVestedExact == ASSUME NEW p \in Params, well_formed(p), NEW t \in Nat
                            PROVE  compute_vested(p, t) = vested_at(p, t)
  BY ScheduleParts DEF compute_vested, vested_at

\* A claim moves the claimed amount up to what has vested, and no further.
LEMMA ClaimReachesVested ==
  ASSUME NEW p \in Params, well_formed(p), NEW t \in Nat, NEW claimed \in Amounts,
         claimed <= vested_at(p, t)
  PROVE  claimed_after_claim(p, claimed, t) = vested_at(p, t)
  BY VestedBounded, MaxAmountAssumption DEF claimed_after_claim, Amounts
=============================================================================
