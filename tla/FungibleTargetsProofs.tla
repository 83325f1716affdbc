------------------------ MODULE FungibleTargetsProofs ------------------------
(***************************************************************************)
(* The abstract ledger, and one token on four chains: for every set of     *)
(* accounts and every width, the ledger conserves its supply, the ink!     *)
(* contract, which shares its variables, implements it, the MultiversX     *)
(* contract conserves any supply, all four keep the same balances, and     *)
(* tokens leave nobody but the caller.                                     *)
(***************************************************************************)
EXTENDS FungibleTargets, CoreProofs

-----------------------------------------------------------------------------
(* The ledger.  TypeOK and Conservation are inductive together; that no    *)
(* transfer overflows follows from them.                                   *)

\* The inductive invariant: TypeOK alone is not inductive, because only
\* Conservation bounds the recipient of a mint by the new supply.
IInv == TypeOK /\ Conservation

\* The supply bounds what any two accounts hold.
LEMMA BalancesBounded ==
    ASSUME IInv, NEW from \in Accounts, NEW to \in Accounts
    PROVE  /\ balances[from] <= total_supply
           /\ from # to => balances[from] + balances[to] <= total_supply
<1> USE AccountsAssumption, MaxAmountAssumption
<1>1. balances \in [Accounts -> Nat] /\ sum_balances(balances) = total_supply
  BY DEF IInv, TypeOK, Conservation, Amounts
<1>2. CASE from # to
  BY <1>1, <1>2, TwoBalancesBound
<1>3. CASE from = to
  <2>1. /\ sum_balances(remove(balances, from)) \in Nat
        /\ sum_balances(balances) = sum_balances(remove(balances, from)) + balances[from]
    BY <1>1, SumWithout
  <2>2. balances[from] \in Nat
    BY <1>1
  <2> QED BY <1>1, <1>3, <2>1, <2>2
<1> QED BY <1>2, <1>3

\* Every ledger starts with its supply handed out.
LEMMA InitIInv == Init => IInv
<1> USE MaxAmountAssumption, AccountsAssumption
<1> SUFFICES ASSUME Init PROVE IInv
  OBVIOUS
<1>1. balances \in [Accounts -> Nat]
  BY DEF Init, Amounts
<1>2. sum_balances(balances) \in Nat
  BY <1>1, UnitsFinite
<1> QED BY <1>2 DEF Init, IInv, TypeOK, Conservation, Amounts

\* Transfers, mints and burns keep the balances adding up to the supply and
\* both within a u128.
LEMMA StepIInv == IInv /\ [Next]_vars => IInv'
<1> USE MaxAmountAssumption, AccountsAssumption
<1> SUFFICES ASSUME IInv, [Next]_vars PROVE IInv'
  OBVIOUS
<1>0. /\ balances \in [Accounts -> Nat]
      /\ balances \in [Accounts -> Amounts]
      /\ total_supply \in Nat
      /\ total_supply <= MaxAmount
      /\ sum_balances(balances) = total_supply
  BY DEF IInv, TypeOK, Conservation, Amounts
<1>1. ASSUME NEW from \in Accounts, NEW to \in Accounts, NEW amount \in Amounts,
             Transfer(from, to, amount)
      PROVE  IInv'
  <2>1. amount \in Nat /\ from # to /\ balances[from] >= amount
    BY <1>1 DEF Transfer, transfer_balances_ok, Amounts
  <2>2. sum_balances(balances') = sum_balances(balances)
    BY <1>0, <1>1, <2>1, TransferPreservesSum DEF Transfer
  <2>3. balances' = [x \in Accounts |-> IF x = to THEN balances[to] + amount
                                        ELSE IF x = from THEN balances[from] - amount
                                        ELSE balances[x]]
    BY <1>0, <1>1 DEF Transfer, state_after_transfer, insert, balance_at
  <2>4. balances[to] + amount <= MaxAmount
    BY <1>1 DEF Transfer, transfer_balances_ok
  <2>5. balances' \in [Accounts -> Amounts]
    BY <1>0, <2>1, <2>3, <2>4 DEF Amounts
  <2> QED BY <1>0, <1>1, <2>2, <2>5 DEF Transfer, IInv, TypeOK, Conservation, Amounts
<1>2. ASSUME NEW to \in Accounts, NEW amount \in Amounts, Mint(to, amount)
      PROVE  IInv'
  <2>1. amount \in Nat /\ total_supply' = total_supply + amount /\ total_supply' <= MaxAmount
    BY <1>2 DEF Mint, Amounts
  <2>2. sum_balances(balances') = sum_balances(balances) + amount
    BY <1>0, <1>2, <2>1, MintAddsToSum DEF Mint
  <2>3. balances' = [x \in Accounts |-> IF x = to THEN balances[to] + amount
                                        ELSE balances[x]]
    BY <1>0, <1>2 DEF Mint, state_after_mint, insert, balance_at
  <2>4. balances[to] <= total_supply
    BY BalancesBounded
  <2>5. balances' \in [Accounts -> Amounts]
    BY <1>0, <2>1, <2>3, <2>4 DEF Amounts
  <2> QED BY <1>0, <2>1, <2>2, <2>5 DEF IInv, TypeOK, Conservation, Amounts
<1>3. ASSUME NEW from \in Accounts, NEW amount \in Amounts, Burn(from, amount)
      PROVE  IInv'
  <2>1. /\ amount \in Nat /\ balances[from] >= amount
        /\ total_supply' = total_supply - amount
    BY <1>3 DEF Burn, Amounts
  <2>2. sum_balances(balances') = sum_balances(balances) - amount
    BY <1>0, <1>3, <2>1, BurnTakesFromSum DEF Burn
  <2>3. balances' = [x \in Accounts |-> IF x = from THEN balances[from] - amount
                                        ELSE balances[x]]
    BY <1>0, <1>3 DEF Burn, state_after_burn, insert, balance_at
  <2>4. balances[from] <= total_supply
    BY BalancesBounded
  <2>5. balances' \in [Accounts -> Amounts]
    BY <1>0, <2>1, <2>3 DEF Amounts
  <2>6. balances[from] \in Nat
    BY <1>0
  <2>7. total_supply' \in Amounts
    BY <1>0, <2>1, <2>4, <2>6 DEF Amounts
  <2> QED BY <1>0, <2>1, <2>2, <2>5, <2>7 DEF IInv, TypeOK, Conservation
<1>4. CASE UNCHANGED vars
  BY <1>4 DEF vars, IInv, TypeOK, Conservation
<1> QED BY <1>1, <1>2, <1>3, <1>4 DEF Next

\* Both hold in every behaviour of the ledger.
LEMMA InvariantIInv == Spec => []IInv
BY InitIInv, StepIInv, PTL DEF Spec

\* The balances and the supply of the core's State always fit a u128.
THEOREM TypeCorrect == Spec => []TypeOK
<1>1. IInv => TypeOK
  BY DEF IInv
<1> QED BY <1>1, InvariantIInv, PTL

\* State::invariant: the balances always add up to the declared supply.
THEOREM SupplyIsConserved == Spec => []Conservation
<1>1. IInv => Conservation
  BY DEF IInv
<1> QED BY <1>1, InvariantIInv, PTL

\* transfer_balances never refuses a transfer between two accounts for
\* overflow: its second check is only ever reached with room to spare.
THEOREM TransfersFit == Spec => []TransferNeverOverflows
<1>1. IInv => TransferNeverOverflows
  <2> USE MaxAmountAssumption
  <2> SUFFICES ASSUME IInv, NEW from \in Accounts, NEW to \in Accounts,
                      NEW amount \in Amounts, from # to, balances[from] >= amount
               PROVE  transfer_balances_ok(balances[from], balances[to], amount)
    BY DEF TransferNeverOverflows
  <2>1. /\ balances[from] + balances[to] <= total_supply
        /\ balances[from] \in Nat /\ balances[to] \in Nat
        /\ total_supply \in Nat /\ total_supply <= MaxAmount /\ amount \in Nat
    BY BalancesBounded DEF IInv, TypeOK, Amounts
  <2> QED BY <2>1 DEF transfer_balances_ok
<1> QED BY <1>1, InvariantIInv, PTL

-----------------------------------------------------------------------------
(* The token on four chains.                                               *)

Zero == [a \in Accounts |-> 0]

-----------------------------------------------------------------------------
(* Maps.                                                                   *)

\* An account of a map that holds every account reads as what it holds.
LEMMA TotalReads ==
    ASSUME NEW m, DOMAIN m = Accounts, NEW a \in Accounts
    PROVE  balance_at(m, a) = m[a]
BY DEF balance_at

\* Nobody holds anything in Zero.
LEMMA ZeroSum == Zero \in [Accounts -> Nat] /\ sum_balances(Zero) = 0
<1>1. Units(Zero) = {}
  BY DEF Units, Zero
<1>2. Cardinality({}) = 0
  BY FS_EmptySet
<1> QED BY <1>1, <1>2 DEF sum_balances, Zero

\* The first tokens of a map make up its sum.
LEMMA FirstTokens ==
    ASSUME NEW who \in Accounts, NEW supply \in Nat
    PROVE  /\ insert(Zero, who, supply) \in [Accounts -> Nat]
           /\ sum_balances(insert(Zero, who, supply)) = supply
           /\ \A a \in Accounts : insert(Zero, who, supply)[a] = IF a = who THEN supply ELSE 0
<1>0. Zero \in [Accounts -> Nat] /\ IsFiniteSet(Accounts)
  BY ZeroSum, AccountsAssumption
<1>1. /\ insert(Zero, who, supply) \in [Accounts -> Nat]
      /\ sum_balances(insert(Zero, who, supply)) \in Nat
      /\ sum_balances(insert(Zero, who, supply)) + Zero[who] = sum_balances(Zero) + supply
  BY <1>0, SumAfterInsert
<1>2. Zero[who] = 0
  BY DEF Zero
<1> QED BY <1>1, <1>2, ZeroSum DEF insert, Zero

-----------------------------------------------------------------------------
(* The inductive invariant.                                                *)

\* What the ink! contract stores; before its constructor, nothing.
InkInv ==
    /\ IInv
    /\ ~constructed => balances = Zero /\ total_supply = 0

\* What the MultiversX contract stores.  It checks no sum, so that its
\* transfers are those of the others only because all it holds fits a u128.
MultiversXInv ==
    /\ balances_mapper \in [Accounts -> Nat]
    /\ total_supply_mapper \in Nat
    /\ AnySupplyConserved
    /\ ~deployed => balances_mapper = Zero
    /\ constructed => total_supply_mapper <= MaxAmount

\* What the NEAR and Gear contracts and Gear's client hold, in terms of it.
ViewsInv ==
    /\ client \in [Accounts -> Nat]
    /\ ~constructed => program = NoState /\ client = Zero
    /\ constructed =>
          /\ near = [total_supply |-> near.total_supply, balances |-> near.balances]
          /\ program = [total_supply |-> program.total_supply,
                        balances |-> program.balances]
          /\ \A a \in Accounts : /\ Near!balance_of(a) = balances_mapper[a]
                                 /\ Gear!read_balance(a) = balances_mapper[a]
                                 /\ client[a] = balances_mapper[a]
                                 /\ ~supply_changed => balances[a] = balances_mapper[a]

TargetsInv == InkInv /\ MultiversXInv /\ ViewsInv

LEMMA InitTargetsInv == TargetsInit => TargetsInv
<1> SUFFICES ASSUME TargetsInit PROVE TargetsInv
  OBVIOUS
<1> USE MaxAmountAssumption
<1>1. balances = Zero /\ total_supply = 0 /\ constructed = FALSE
  BY DEF TargetsInit, InkInit, Zero
<1>2. InkInv
  BY <1>1, ZeroSum DEF InkInv, IInv, TypeOK, Conservation, Amounts, Zero
<1>3. balances_mapper = Zero /\ total_supply_mapper = 0
  BY DEF TargetsInit, MultiversX!Init, Zero
<1>4. MultiversXInv
  BY <1>1, <1>3, ZeroSum DEF MultiversXInv, AnySupplyConserved
<1>5. client = Zero /\ program = NoState
  BY DEF TargetsInit, Gear!Init, Zero
<1>6. ViewsInv
  BY <1>1, <1>5, ZeroSum DEF ViewsInv
<1> QED BY <1>2, <1>4, <1>6 DEF TargetsInv

-----------------------------------------------------------------------------
(* The ink! contract takes steps of the ledger.                            *)

\* Every call of the ink! contract is a step of the abstract ledger or
\* leaves it unchanged.
LEMMA InkStep ==
    ASSUME InkInv, NEW caller \in Accounts, NEW to \in Accounts, NEW amount \in Amounts,
           \/ new(caller, amount)
           \/ transfer(caller, to, amount)
           \/ mint(to, amount)
           \/ burn(caller, amount)
    PROVE  /\ [Next]_vars
           /\ InkInv'
<1> USE MaxAmountAssumption
<1>0. amount \in Nat /\ amount <= MaxAmount
  BY DEF Amounts
<1>1. [Next]_vars
  <2>1. CASE new(caller, amount)
    <3>1. balances = Zero /\ total_supply = 0
      BY <2>1 DEF InkInv, new
    <3>2. state_after_mint(balances, caller, amount) = insert(balances, caller, amount)
      <4>1. balance_at(balances, caller) + amount = amount
        BY <1>0, <3>1 DEF balance_at, Zero
      <4> QED BY <4>1 DEF state_after_mint
    <3>3. Mint(caller, amount)
      BY <1>0, <2>1, <3>1, <3>2 DEF Mint, new
    <3> QED BY <3>3 DEF Next
  <2>2. CASE transfer(caller, to, amount)
    <3>1. CASE transfer_ok(caller, to, amount)
      BY <2>2, <3>1 DEF transfer, transfer_ok, balance_of, Next, Transfer
    <3>2. CASE ~transfer_ok(caller, to, amount)
      BY <2>2, <3>2 DEF transfer, vars
    <3> QED BY <3>1, <3>2
  <2>3. CASE mint(to, amount)
    <3>1. CASE verified_mint_step_ok(balance_of(to), amount)
      BY <2>3, <3>1 DEF mint, verified_mint_step_ok, balance_of, Next, Mint
    <3>2. CASE ~verified_mint_step_ok(balance_of(to), amount)
      BY <2>3, <3>2 DEF mint, vars
    <3> QED BY <3>1, <3>2
  <2>4. CASE burn(caller, amount)
    <3>1. CASE verified_burn_step_ok(balance_of(caller), amount)
      BY <2>4, <3>1 DEF burn, verified_burn_step_ok, balance_of, Next, Burn
    <3>2. CASE ~verified_burn_step_ok(balance_of(caller), amount)
      BY <2>4, <3>2 DEF burn, vars
    <3> QED BY <3>1, <3>2
  <2> QED BY <2>1, <2>2, <2>3, <2>4
<1>2. IInv'
  BY <1>1, StepIInv DEF InkInv
<1>3. constructed'
  BY DEF new, transfer, mint, burn
<1> QED BY <1>1, <1>2, <1>3 DEF InkInv

-----------------------------------------------------------------------------
(* The MultiversX contract conserves any supply.                           *)

\* A transfer the MultiversX contract accepts is one of the core's.
LEMMA MultiversXMoves ==
    ASSUME NEW caller \in Accounts, NEW to \in Accounts, NEW amount \in Nat,
           MultiversX!transfer(caller, to, amount)
    PROVE  \/ UNCHANGED balances_mapper
           \/ /\ caller # to
              /\ balances_mapper[caller] >= amount
              /\ DOMAIN balances_mapper = Accounts =>
                    balances_mapper' =
                       state_after_transfer(balances_mapper, caller, to, amount)
<1>1. CASE caller # to /\ balances_mapper[caller] >= amount
  <2>1. balances_mapper' =
           insert(insert(balances_mapper, caller, balances_mapper[caller] - amount),
                  to, balances_mapper[to] + amount)
    BY <1>1 DEF MultiversX!transfer, MultiversX!verified_transfer_big,
                MultiversX!insert, insert
  <2> QED BY <1>1, <2>1 DEF state_after_transfer, balance_at
<1>2. CASE ~(caller # to /\ balances_mapper[caller] >= amount)
  BY <1>2 DEF MultiversX!transfer, MultiversX!verified_transfer_big
<1> QED BY <1>1, <1>2

\* Its balances and supply after any of its calls.
LEMMA MultiversXStep ==
    ASSUME MultiversXInv, NEW caller \in Accounts, NEW to \in Accounts,
           NEW amount \in Nat,
           \/ MultiversX!init(caller, amount)
           \/ MultiversX!transfer(caller, to, amount)
    PROVE  /\ balances_mapper' \in [Accounts -> Nat]
           /\ total_supply_mapper' \in Nat
           /\ AnySupplyConserved'
           /\ deployed'
<1>1. CASE MultiversX!init(caller, amount)
  <2>1. balances_mapper' = insert(Zero, caller, amount)
    BY <1>1 DEF MultiversX!init, MultiversX!insert, insert, MultiversXInv
  <2> QED BY <1>1, <2>1, FirstTokens DEF MultiversX!init, AnySupplyConserved
<1>2. CASE MultiversX!transfer(caller, to, amount)
  <2>1. CASE UNCHANGED balances_mapper
    BY <1>2, <2>1 DEF MultiversX!transfer, MultiversXInv, AnySupplyConserved
  <2>2. CASE ~UNCHANGED balances_mapper
    <3>1. /\ caller # to /\ balances_mapper[caller] >= amount
          /\ balances_mapper' = state_after_transfer(balances_mapper, caller, to, amount)
      BY <1>2, <2>2, MultiversXMoves DEF MultiversXInv
    <3>2. balances_mapper \in [Accounts -> Nat] /\ IsFiniteSet(Accounts)
      BY AccountsAssumption DEF MultiversXInv
    <3>3. /\ state_after_transfer(balances_mapper, caller, to, amount) \in [Accounts -> Nat]
          /\ sum_balances(state_after_transfer(balances_mapper, caller, to, amount))
                = sum_balances(balances_mapper)
      BY <3>1, <3>2, TransferPreservesSum
    <3> QED BY <1>2, <3>1, <3>3 DEF MultiversX!transfer, MultiversXInv, AnySupplyConserved
  <2> QED BY <2>1, <2>2
<1> QED BY <1>1, <1>2

\* Where all it holds fits a u128, no check of a receiver's balance is missing.
LEMMA MultiversXFits ==
    ASSUME MultiversXInv, constructed, NEW from \in Accounts, NEW to \in Accounts,
           NEW amount \in Nat, from # to, balances_mapper[from] >= amount
    PROVE  balances_mapper[to] + amount <= MaxAmount
<1>1. balances_mapper \in [Accounts -> Nat] /\ IsFiniteSet(Accounts)
  BY AccountsAssumption DEF MultiversXInv
<1>2. balances_mapper[from] + balances_mapper[to] <= sum_balances(balances_mapper)
  BY <1>1, TwoBalancesBound
<1>3. /\ sum_balances(balances_mapper) <= MaxAmount
      /\ sum_balances(balances_mapper) \in Nat
  BY DEF MultiversXInv, AnySupplyConserved
<1>4. balances_mapper[from] \in Nat /\ balances_mapper[to] \in Nat
  BY <1>1
<1> QED BY <1>2, <1>3, <1>4, MaxAmountAssumption

-----------------------------------------------------------------------------
(* The NEAR and Gear contracts move the same tokens.                       *)

\* A balance after from pays to an amount, if the core lets it.
paid(balance(_), from, to, amount, a) ==
    IF from # to /\ transfer_balances_ok(balance(from), balance(to), amount)
    THEN IF a = to THEN balance(to) + amount
         ELSE IF a = from THEN balance(from) - amount
         ELSE balance(a)
    ELSE balance(a)

\* What the NEAR contract holds after a transfer.
LEMMA NearTransfer ==
    ASSUME near = [total_supply |-> near.total_supply, balances |-> near.balances],
           NEW caller, NEW to, NEW amount,
           Near!verified_transfer(caller, to, amount)
    PROVE  /\ near' = [total_supply |-> near'.total_supply, balances |-> near'.balances]
           /\ \A a : Near!balance_of(a)' = paid(Near!balance_of, caller, to, amount, a)
<1> DEFINE ok == /\ caller # to
                 /\ transfer_balances_ok(Near!balance_of(caller), Near!balance_of(to), amount)
<1>1. CASE ok
  <2>1. near' = [near EXCEPT !.balances = state_after_transfer(@, caller, to, amount)]
    BY <1>1 DEF Near!verified_transfer, Near!apply_transfer_ok, Near!apply_transfer,
                Near!transfer_balances_ok, transfer_balances_ok,
                Near!state_after_transfer, state_after_transfer,
                Near!insert, insert, Near!balance_at, balance_at
  <2>2. near' = [total_supply |-> near.total_supply,
                 balances |-> state_after_transfer(near.balances, caller, to, amount)]
    BY <2>1
  <2>3. ASSUME NEW a
        PROVE  Near!balance_of(a)' = IF a = to THEN Near!balance_of(to) + amount
                                     ELSE IF a = caller THEN Near!balance_of(caller) - amount
                                     ELSE Near!balance_of(a)
    BY <1>1, <2>2, TransferReads DEF Near!balance_of, Near!balance_at, balance_at
  <2> QED BY <1>1, <2>2, <2>3 DEF paid
<1>2. CASE ~ok
  BY <1>2 DEF Near!verified_transfer, Near!apply_transfer_ok,
              Near!transfer_balances_ok, transfer_balances_ok, Near!balance_of, paid
<1> QED BY <1>1, <1>2

\* What the Gear program and its client hold after a transfer.
LEMMA GearTransfer ==
    ASSUME program = [total_supply |-> program.total_supply, balances |-> program.balances],
           client \in [Accounts -> Nat],
           \A a \in Accounts : client[a] = Gear!read_balance(a),
           NEW caller \in Accounts, NEW to \in Accounts, NEW amount \in Nat,
           Gear!handle_Transfer(caller, to, amount)
    PROVE  /\ program' = [total_supply |-> program'.total_supply,
                          balances |-> program'.balances]
           /\ \A a : Gear!read_balance(a)' = paid(Gear!read_balance, caller, to, amount, a)
           /\ client' \in [Accounts -> Nat]
           /\ \A a \in Accounts : client'[a] = Gear!read_balance(a)'
<1> DEFINE ok == /\ caller # to
                 /\ transfer_balances_ok(Gear!read_balance(caller), Gear!read_balance(to), amount)
<1>1. CASE ok
  <2>1. /\ program' = [program EXCEPT !.balances = state_after_transfer(@, caller, to, amount)]
        /\ client' = [client EXCEPT ![caller] = @ - amount, ![to] = @ + amount]
    BY <1>1 DEF Gear!handle_Transfer, Gear!apply_transfer_ok, Gear!reply_Transferred,
                Gear!transfer_balances_ok, transfer_balances_ok,
                Gear!state_after_transfer, state_after_transfer,
                Gear!insert, insert, Gear!balance_at, balance_at, Gear!vars
  <2>2. program' = [total_supply |-> program.total_supply,
                    balances |-> state_after_transfer(program.balances, caller, to, amount)]
    BY <2>1
  <2>3. ASSUME NEW a
        PROVE  Gear!read_balance(a)' = IF a = to THEN Gear!read_balance(to) + amount
                                       ELSE IF a = caller
                                            THEN Gear!read_balance(caller) - amount
                                            ELSE Gear!read_balance(a)
    BY <1>1, <2>2, TransferReads DEF Gear!read_balance, Gear!balance_at, balance_at
  <2>4. client[caller] >= amount
    BY <1>1 DEF transfer_balances_ok
  <2>5. client' = [a \in Accounts |-> IF a = to THEN client[to] + amount
                                      ELSE IF a = caller THEN client[caller] - amount
                                      ELSE client[a]]
    BY <1>1, <2>1
  <2>6. client' \in [Accounts -> Nat]
    BY <2>4, <2>5
  <2> QED BY <1>1, <2>2, <2>3, <2>5, <2>6 DEF paid
<1>2. CASE ~ok
  <2>1. UNCHANGED <<program, client>>
    BY <1>2 DEF Gear!handle_Transfer, Gear!apply_transfer_ok, Gear!vars,
                Gear!transfer_balances_ok, transfer_balances_ok
  <2> QED BY <1>2, <2>1 DEF Gear!read_balance, paid
<1> QED BY <1>1, <1>2

-----------------------------------------------------------------------------
(* Every step keeps the invariant.                                         *)

\* The constructors give the caller the same supply everywhere.
LEMMA DeployStep ==
    ASSUME TargetsInv, NEW caller \in Accounts, NEW supply \in Amounts, ~deployed,
           Deploy(caller, supply)
    PROVE  TargetsInv'
<1> USE MaxAmountAssumption
<1>0. supply \in Nat /\ supply <= MaxAmount
  BY DEF Amounts
<1> DEFINE first == insert(Zero, caller, supply)
<1>1. /\ first \in [Accounts -> Nat]
      /\ \A a \in Accounts : first[a] = IF a = caller THEN supply ELSE 0
  BY <1>0, FirstTokens
<1>2. InkInv'
  BY InkStep DEF Deploy, TargetsInv
<1>3. ~constructed /\ constructed' /\ balances' = first
  BY DEF Deploy, new, TargetsInv, InkInv
<1>4. balances_mapper' = first /\ total_supply_mapper' = supply
  BY DEF Deploy, MultiversX!init, MultiversX!insert, insert, TargetsInv, MultiversXInv
<1>5. MultiversXInv'
  <2>1. /\ balances_mapper' \in [Accounts -> Nat]
        /\ total_supply_mapper' \in Nat
        /\ AnySupplyConserved'
        /\ deployed'
    BY <1>0, MultiversXStep DEF Deploy, TargetsInv
  <2> QED BY <1>0, <1>4, <2>1 DEF MultiversXInv
<1>6. /\ near' = [total_supply |-> supply, balances |-> insert([a \in {} |-> 0], caller, supply)]
      /\ program' = [total_supply |-> supply, balances |-> insert([a \in {} |-> 0], caller, supply)]
  BY DEF Deploy, Near!new, Gear!init, Near!insert, Gear!insert, insert
<1>7. ASSUME NEW a \in Accounts
      PROVE  Near!balance_of(a)' = first[a] /\ Gear!read_balance(a)' = first[a]
  BY <1>1, <1>6 DEF Near!balance_of, Near!balance_at, Gear!read_balance, Gear!balance_at, insert
<1>8. client' \in [Accounts -> Nat] /\ \A a \in Accounts : client'[a] = first[a]
  <2>1. client = Zero
    BY <1>3 DEF TargetsInv, ViewsInv
  <2>2. client' = [Zero EXCEPT ![caller] = supply]
    BY <2>1 DEF Deploy, Gear!init
  <2> QED BY <1>0, <1>1, <2>2 DEF Zero
<1>9. ViewsInv'
  BY <1>3, <1>4, <1>6, <1>7, <1>8 DEF ViewsInv
<1> QED BY <1>2, <1>5, <1>9 DEF TargetsInv

\* All contracts accept or refuse a transfer together.
LEMMA TransferAllStep ==
    ASSUME TargetsInv, NEW caller \in Accounts, NEW to \in Accounts,
           NEW amount \in Amounts, TransferAll(caller, to, amount)
    PROVE  TargetsInv'
<1> USE MaxAmountAssumption
<1>0. amount \in Nat /\ amount <= MaxAmount
  BY DEF Amounts
<1>1. constructed /\ constructed' /\ supply_changed' = supply_changed
  BY DEF TransferAll, transfer
<1>2. InkInv'
  BY InkStep DEF TransferAll, TargetsInv
<1>3. MultiversXInv'
  <2>1. /\ balances_mapper' \in [Accounts -> Nat]
        /\ total_supply_mapper' \in Nat
        /\ AnySupplyConserved'
        /\ deployed'
    BY <1>0, MultiversXStep DEF TransferAll, TargetsInv
  <2> QED BY <1>1, <2>1 DEF TransferAll, MultiversX!transfer, TargetsInv, MultiversXInv
<1> DEFINE mapper(a) == balances_mapper[a]
           accepted == caller # to /\ balances_mapper[caller] >= amount
<1>4. accepted => balances_mapper[to] + amount <= MaxAmount
  BY <1>0, <1>1, MultiversXFits DEF TargetsInv
<1>5. ASSUME NEW a \in Accounts
      PROVE  balances_mapper'[a] = paid(mapper, caller, to, amount, a)
  <2>1. CASE accepted
    <3>1. balances_mapper' =
             state_after_transfer(balances_mapper, caller, to, amount)
      BY <2>1 DEF TransferAll, MultiversX!transfer, MultiversX!verified_transfer_big,
                  MultiversX!insert, insert, state_after_transfer, balance_at,
                  TargetsInv, MultiversXInv
    <3>2. /\ DOMAIN balances_mapper = Accounts /\ DOMAIN balances_mapper' = Accounts
      BY <1>3 DEF TargetsInv, MultiversXInv
    <3> QED BY <1>4, <2>1, <3>1, <3>2, TransferReads, TotalReads
            DEF paid, transfer_balances_ok
  <2>2. CASE ~accepted
    BY <2>2 DEF TransferAll, MultiversX!transfer, MultiversX!verified_transfer_big,
                paid, transfer_balances_ok
  <2> QED BY <2>1, <2>2
<1>6. ASSUME NEW a \in Accounts, ~supply_changed
      PROVE  balances'[a] = balances_mapper'[a]
  <2>1. \A b \in Accounts : balances[b] = balances_mapper[b]
    BY <1>1, <1>6 DEF TargetsInv, ViewsInv
  <2>2. balances'[a] = paid(mapper, caller, to, amount, a)
    <3>1. CASE transfer_ok(caller, to, amount)
      <4>1. balances' = state_after_transfer(balances, caller, to, amount) /\ caller # to
        BY <3>1 DEF TransferAll, transfer, transfer_ok
      <4>2. /\ DOMAIN balances = Accounts /\ DOMAIN balances' = Accounts
        BY <1>2 DEF TargetsInv, InkInv, IInv, TypeOK
      <4> QED BY <2>1, <3>1, <4>1, <4>2, TransferReads, TotalReads
              DEF paid, transfer_ok, balance_of
    <3>2. CASE ~transfer_ok(caller, to, amount)
      BY <2>1, <3>2 DEF TransferAll, transfer, transfer_ok, balance_of, paid
    <3> QED BY <3>1, <3>2
  <2> QED BY <1>5, <2>2
<1>7. ASSUME NEW a \in Accounts
      PROVE  Near!balance_of(a)' = balances_mapper'[a]
  <2>1. /\ near = [total_supply |-> near.total_supply, balances |-> near.balances]
        /\ \A b \in Accounts : Near!balance_of(b) = balances_mapper[b]
    BY <1>1 DEF TargetsInv, ViewsInv
  <2>2. Near!balance_of(a)' = paid(Near!balance_of, caller, to, amount, a)
    BY <2>1, NearTransfer DEF TransferAll
  <2>3. paid(Near!balance_of, caller, to, amount, a) = paid(mapper, caller, to, amount, a)
    BY <2>1 DEF paid
  <2> QED BY <1>5, <2>2, <2>3
<1>8. ASSUME NEW a \in Accounts
      PROVE  Gear!read_balance(a)' = balances_mapper'[a] /\ client'[a] = balances_mapper'[a]
  <2>1. /\ program = [total_supply |-> program.total_supply, balances |-> program.balances]
        /\ client \in [Accounts -> Nat]
        /\ \A b \in Accounts : /\ Gear!read_balance(b) = balances_mapper[b]
                               /\ client[b] = Gear!read_balance(b)
    BY <1>1 DEF TargetsInv, ViewsInv
  <2>2. /\ Gear!read_balance(a)' = paid(Gear!read_balance, caller, to, amount, a)
        /\ client'[a] = Gear!read_balance(a)'
    BY <1>0, <2>1, GearTransfer DEF TransferAll
  <2>3. paid(Gear!read_balance, caller, to, amount, a) = paid(mapper, caller, to, amount, a)
    BY <2>1 DEF paid
  <2> QED BY <1>5, <2>2, <2>3
<1>9. ViewsInv'
  <2>1. near' = [total_supply |-> near'.total_supply, balances |-> near'.balances]
    BY <1>1, NearTransfer DEF TransferAll, TargetsInv, ViewsInv
  <2>2. /\ program' = [total_supply |-> program'.total_supply, balances |-> program'.balances]
        /\ client' \in [Accounts -> Nat]
    BY <1>0, <1>1, GearTransfer DEF TransferAll, TargetsInv, ViewsInv
  <2> QED BY <1>1, <1>6, <1>7, <1>8, <2>1, <2>2 DEF ViewsInv
<1> QED BY <1>2, <1>3, <1>9 DEF TargetsInv

\* A balance a client is told is the one it has.
LEMMA AskGearStep ==
    ASSUME TargetsInv, NEW account \in Accounts, AskGear(account)
    PROVE  TargetsInv' /\ UNCHANGED <<ink, near, program, client, balances_mapper>>
<1>1. constructed
  BY DEF AskGear, Gear!handle_BalanceOf, TargetsInv, ViewsInv
<1>2. client' = [client EXCEPT ![account] = client[account]]
  BY <1>1 DEF AskGear, Gear!handle_BalanceOf, TargetsInv, ViewsInv
<1>3. client' = client
  BY <1>2 DEF TargetsInv, ViewsInv
<1>4. UNCHANGED <<ink, near, program, client, supply_changed>>
  BY <1>3 DEF AskGear, Gear!handle_BalanceOf
<1>5. UNCHANGED <<balances_mapper, total_supply_mapper, deployed>>
  BY DEF AskGear
<1>6. InkInv' /\ MultiversXInv'
  BY <1>4, <1>5 DEF ink, TargetsInv, InkInv, IInv, TypeOK, Conservation,
                    MultiversXInv, AnySupplyConserved
<1>7. ViewsInv'
  BY <1>4, <1>5 DEF ink, TargetsInv, ViewsInv, Near!balance_of, Gear!read_balance
<1> QED BY <1>4, <1>5, <1>6, <1>7 DEF TargetsInv

\* A token deployed on MultiversX alone concerns no other contract.
LEMMA OnlyMultiversXStep ==
    ASSUME TargetsInv, NEW caller \in Accounts, OnlyMultiversX(caller)
    PROVE  TargetsInv' /\ UNCHANGED <<ink, near, program, client>>
<1>1. ~constructed /\ UNCHANGED <<ink, near, program, client, supply_changed>>
  BY DEF OnlyMultiversX
<1>2. PICK amount \in MultiversX!BigUints :
         \/ MultiversX!init(caller, amount)
         \/ \E to \in Accounts : MultiversX!transfer(caller, to, amount)
  BY DEF OnlyMultiversX
<1>3. PICK to \in Accounts :
         \/ MultiversX!init(caller, amount)
         \/ MultiversX!transfer(caller, to, amount)
  BY <1>2
<1>4. amount \in Nat
  BY <1>2, MaxSupplyAssumption DEF MultiversX!BigUints
<1>5. /\ balances_mapper' \in [Accounts -> Nat]
      /\ total_supply_mapper' \in Nat
      /\ AnySupplyConserved'
      /\ deployed'
  BY <1>3, <1>4, MultiversXStep DEF TargetsInv
<1>6. MultiversXInv'
  BY <1>1, <1>5 DEF MultiversXInv, ink
<1>7. InkInv' /\ ViewsInv'
  BY <1>1 DEF ink, TargetsInv, InkInv, IInv, TypeOK, Conservation, ViewsInv
<1> QED BY <1>1, <1>6, <1>7 DEF TargetsInv

\* After a mint or a burn, the ink! contract is on its own.
LEMMA MintOrBurnStep ==
    ASSUME TargetsInv, NEW caller \in Accounts, NEW amount \in Amounts,
           MintOrBurn(caller, amount)
    PROVE  TargetsInv' /\ UNCHANGED others
<1>1. PICK to \in Accounts : mint(to, amount) \/ burn(caller, amount)
  BY DEF MintOrBurn
<1>2. InkInv'
  BY <1>1, InkStep DEF TargetsInv
<1>3. constructed /\ constructed' /\ supply_changed' /\ UNCHANGED others
  BY <1>1 DEF MintOrBurn, mint, burn
<1>4. MultiversXInv'
  BY <1>3 DEF others, TargetsInv, MultiversXInv, AnySupplyConserved
<1>5. ViewsInv'
  BY <1>3 DEF others, TargetsInv, ViewsInv, Near!balance_of, Gear!read_balance
<1> QED BY <1>2, <1>3, <1>4, <1>5 DEF TargetsInv

targets_vars == <<ink, others, env_caller, supply_changed>>

LEMMA StepTargetsInv == TargetsInv /\ [TargetsNext]_targets_vars => TargetsInv'
<1> SUFFICES ASSUME TargetsInv, [TargetsNext]_targets_vars PROVE TargetsInv'
  OBVIOUS
<1>1. ASSUME NEW caller \in Accounts, NEW amount \in Amounts, ~deployed, Deploy(caller, amount)
      PROVE  TargetsInv'
  BY <1>1, DeployStep
<1>2. ASSUME NEW caller \in Accounts, NEW amount \in Amounts, NEW to \in Accounts,
             TransferAll(caller, to, amount)
      PROVE  TargetsInv'
  BY <1>2, TransferAllStep
<1>3. ASSUME NEW caller \in Accounts, NEW amount \in Amounts, MintOrBurn(caller, amount)
      PROVE  TargetsInv'
  BY <1>3, MintOrBurnStep
<1>4. ASSUME NEW caller \in Accounts, OnlyMultiversX(caller)
      PROVE  TargetsInv'
  BY <1>4, OnlyMultiversXStep
<1>5. ASSUME NEW account \in Accounts, AskGear(account)
      PROVE  TargetsInv'
  BY <1>5, AskGearStep
<1>6. CASE UNCHANGED targets_vars
  BY <1>6 DEF targets_vars, ink, others, TargetsInv, InkInv, IInv, TypeOK, Conservation,
              MultiversXInv, AnySupplyConserved, ViewsInv, Near!balance_of, Gear!read_balance
<1> QED BY <1>1, <1>2, <1>3, <1>4, <1>5, <1>6 DEF TargetsNext

LEMMA InvariantTargetsInv == TargetsSpec => []TargetsInv
BY InitTargetsInv, StepTargetsInv, PTL DEF TargetsSpec, targets_vars

-----------------------------------------------------------------------------
(* The theorems.                                                           *)

\* The ink! contract's book balance equals its supply after any sequence of
\* calls.
THEOREM SupplyOnInkConserved == TargetsSpec => []Conservation
<1>1. TargetsInv => Conservation
  BY DEF TargetsInv, InkInv, IInv
<1> QED BY <1>1, InvariantTargetsInv, PTL

\* The MultiversX contract's does too, however large the supply.
THEOREM SupplyOnMultiversXConserved == TargetsSpec => []AnySupplyConserved
<1>1. TargetsInv => AnySupplyConserved
  BY DEF TargetsInv, MultiversXInv
<1> QED BY <1>1, InvariantTargetsInv, PTL

\* The four contracts accept and refuse the same transfers, and so keep the
\* same balances, until the ink! contract is asked to mint or burn.
THEOREM TargetsKeepSameBalances == TargetsSpec => []BalancesAgree
<1>1. TargetsInv => BalancesAgree
  BY DEF TargetsInv, ViewsInv, BalancesAgree, balance_of
<1> QED BY <1>1, InvariantTargetsInv, PTL

\* Every call of the ink! contract, whatever the other contracts do meanwhile,
\* is a step of the abstract ledger; its constructor is the first mint.
THEOREM InkImplementsLedger == TargetsSpec => LedgerSpec
<1>1. TargetsInit => Init
  <2> SUFFICES ASSUME TargetsInit PROVE Init
    OBVIOUS
  <2>1. balances = Zero /\ total_supply = 0
    BY DEF TargetsInit, InkInit, Zero
  <2> QED BY <2>1, ZeroSum, MaxAmountAssumption DEF Init, Amounts, Zero
<1>2. TargetsInv /\ [TargetsNext]_targets_vars => [Next]_vars
  <2> SUFFICES ASSUME TargetsInv, [TargetsNext]_targets_vars PROVE [Next]_vars
    OBVIOUS
  <2>1. ASSUME NEW caller \in Accounts, NEW amount \in Amounts, Deploy(caller, amount)
        PROVE  [Next]_vars
    BY <2>1, InkStep DEF Deploy, TargetsInv
  <2>2. ASSUME NEW caller \in Accounts, NEW amount \in Amounts, NEW to \in Accounts,
               TransferAll(caller, to, amount)
        PROVE  [Next]_vars
    BY <2>2, InkStep DEF TransferAll, TargetsInv
  <2>3. ASSUME NEW caller \in Accounts, NEW amount \in Amounts, MintOrBurn(caller, amount)
        PROVE  [Next]_vars
    BY <2>3, InkStep DEF MintOrBurn, TargetsInv
  <2>4. ASSUME NEW caller \in Accounts, OnlyMultiversX(caller)
        PROVE  [Next]_vars
    BY <2>4 DEF OnlyMultiversX, ink, vars
  <2>5. ASSUME NEW account \in Accounts, AskGear(account)
        PROVE  [Next]_vars
    BY <2>5 DEF AskGear, ink, vars
  <2>6. CASE UNCHANGED targets_vars
    BY <2>6 DEF targets_vars, ink, vars
  <2> QED BY <2>1, <2>2, <2>3, <2>4, <2>5, <2>6 DEF TargetsNext
<1> QED BY <1>1, <1>2, InvariantTargetsInv, PTL DEF TargetsSpec, targets_vars, LedgerSpec, Spec

\* On no chain does a call take tokens from anybody but its caller.
THEOREM CallerPays == TargetsSpec => OnlyCallerPays
<1> DEFINE Loses(a) == \/ balance_of(a)' < balance_of(a)
                       \/ balances_mapper[a]' < balances_mapper[a]
                       \/ constructed /\ Near!balance_of(a)' < Near!balance_of(a)
           Pays == \A a \in Accounts : Loses(a) => a = env_caller'
<1>1. TargetsInv /\ TargetsInv' /\ [TargetsNext]_targets_vars => Pays \/ UNCHANGED <<ink, others>>
  <2> SUFFICES ASSUME TargetsInv, TargetsInv', [TargetsNext]_targets_vars,
                      ~UNCHANGED <<ink, others>>, NEW a \in Accounts, Loses(a)
               PROVE  a = env_caller'
    OBVIOUS
  <2>1. /\ balances \in [Accounts -> Nat] /\ balances_mapper \in [Accounts -> Nat]
        /\ balances' \in [Accounts -> Nat] /\ balances_mapper' \in [Accounts -> Nat]
    BY MaxAmountAssumption
       DEF TargetsInv, InkInv, IInv, TypeOK, Amounts, MultiversXInv
  <2>2. ASSUME NEW caller \in Accounts, NEW amount \in Amounts, ~deployed,
               env_caller' = caller, Deploy(caller, amount)
        PROVE  a = caller
    <3>1. ~constructed /\ balances = Zero /\ balances_mapper = Zero
      BY <2>2 DEF Deploy, new, TargetsInv, InkInv, MultiversXInv
    <3>2. balances[a] = 0 /\ balances_mapper[a] = 0
      BY <3>1 DEF Zero
    <3> QED BY <2>1, <3>1, <3>2 DEF balance_of
  <2>3. ASSUME NEW caller \in Accounts, NEW amount \in Amounts, NEW to \in Accounts,
               TransferAll(caller, to, amount), a # caller
        PROVE  FALSE
    <3>1. constructed /\ constructed'
      BY <2>3 DEF TransferAll, transfer
    <3>2. Near!balance_of(a) = balances_mapper[a] /\ Near!balance_of(a)' = balances_mapper'[a]
      BY <3>1 DEF TargetsInv, ViewsInv
    <3>3. amount \in Nat
      BY <2>3, MaxAmountAssumption DEF Amounts
    <3>4. balances'[a] >= balances[a]
      <4>1. CASE balances' = balances
        BY <2>1, <4>1
      <4>2. CASE balances' # balances
        <5>1. caller # to /\ balances' = state_after_transfer(balances, caller, to, amount)
          BY <2>3, <4>2 DEF TransferAll, transfer, transfer_ok
        <5>2. DOMAIN balances = Accounts /\ DOMAIN balances' = Accounts
          BY <2>1
        <5> QED BY <2>1, <2>3, <3>3, <5>1, <5>2, TransferReads, TotalReads
      <4> QED BY <4>1, <4>2
    <3>5. balances_mapper'[a] >= balances_mapper[a]
      <4>1. CASE balances_mapper' = balances_mapper
        BY <2>1, <4>1
      <4>2. CASE balances_mapper' # balances_mapper
        <5>1. /\ caller # to
              /\ balances_mapper' = state_after_transfer(balances_mapper, caller, to, amount)
          BY <2>1, <2>3, <3>3, <4>2, MultiversXMoves DEF TransferAll
        <5>2. DOMAIN balances_mapper = Accounts /\ DOMAIN balances_mapper' = Accounts
          BY <2>1
        <5> QED BY <2>1, <2>3, <3>3, <5>1, <5>2, TransferReads, TotalReads
      <4> QED BY <4>1, <4>2
    <3> QED BY <2>1, <3>2, <3>4, <3>5 DEF balance_of
  <2>4. ASSUME NEW caller \in Accounts, NEW amount \in Amounts, MintOrBurn(caller, amount),
               a # caller
        PROVE  FALSE
    <3>1. amount \in Nat
      BY <2>4, MaxAmountAssumption DEF Amounts
    <3>2. UNCHANGED <<near, balances_mapper>>
      BY <2>4 DEF MintOrBurn, others
    <3>3. Near!balance_of(a)' = Near!balance_of(a)
      BY <3>2 DEF Near!balance_of
    <3>4. ~(Near!balance_of(a)' < Near!balance_of(a)) \/ ~constructed
      BY <2>1, <3>2, <3>3 DEF TargetsInv, ViewsInv
    <3>5. balances'[a] >= balances[a]
      BY <2>1, <2>4, <3>1 DEF MintOrBurn, mint, burn, state_after_mint, state_after_burn,
                              insert, balance_at
    <3> QED BY <2>1, <3>2, <3>4, <3>5 DEF balance_of
  <2>5. ASSUME NEW caller \in Accounts, OnlyMultiversX(caller), a # caller
        PROVE  FALSE
    <3>1. ~constructed /\ UNCHANGED balances
      BY <2>5 DEF OnlyMultiversX, ink
    <3>2. balances_mapper'[a] >= balances_mapper[a]
      <4>1. PICK amount \in MultiversX!BigUints, to \in Accounts :
               \/ MultiversX!init(caller, amount)
               \/ MultiversX!transfer(caller, to, amount)
        BY <2>5 DEF OnlyMultiversX
      <4>2. amount \in Nat
        BY <4>1, MaxSupplyAssumption DEF MultiversX!BigUints
      <4>3. CASE MultiversX!init(caller, amount)
        BY <2>1, <2>5, <4>2, <4>3 DEF MultiversX!init, MultiversX!insert
      <4>4. CASE MultiversX!transfer(caller, to, amount)
        <5>1. \/ balances_mapper' = balances_mapper
              \/ /\ caller # to
                 /\ balances_mapper' = state_after_transfer(balances_mapper, caller, to, amount)
          BY <2>1, <4>2, <4>4, MultiversXMoves
        <5>2. DOMAIN balances_mapper = Accounts /\ DOMAIN balances_mapper' = Accounts
          BY <2>1
        <5> QED BY <2>1, <2>5, <4>2, <5>1, <5>2, TransferReads, TotalReads
      <4> QED BY <4>1, <4>3, <4>4
    <3> QED BY <2>1, <3>1, <3>2 DEF balance_of
  <2>6. ASSUME NEW account \in Accounts, AskGear(account)
        PROVE  FALSE
    BY <2>1, <2>6, AskGearStep DEF ink, balance_of, Near!balance_of, TargetsInv, ViewsInv
  <2>7. ~UNCHANGED targets_vars
    BY DEF targets_vars
  <2> QED BY <2>2, <2>3, <2>4, <2>5, <2>6, <2>7 DEF TargetsNext
<1> QED BY <1>1, InvariantTargetsInv, PTL DEF TargetsSpec, targets_vars, OnlyCallerPays
=============================================================================
