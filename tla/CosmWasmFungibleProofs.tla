----------------------- MODULE CosmWasmFungibleProofs -----------------------
(***************************************************************************)
(* The CosmWasm fungible token keeps its types, implements the abstract    *)
(* ledger, and takes nothing from anybody who did not agree to it, for     *)
(* every set of addresses and every width of amounts.                      *)
(***************************************************************************)
EXTENDS CosmWasmFungible, CoreProofs

-----------------------------------------------------------------------------
(* The types, and the empty storage before instantiate.                    *)

IInv ==
    /\ TypeOK
    /\ ~instantiated => /\ \A a \in Addrs : balance_of(a) = 0
                        /\ total_supply = 0

LEMMA InitIInv == Init => IInv
  BY MaxAmountAssumption
     DEF Init, IInv, TypeOK, is_map, Amounts, instantiated, balance_of, balance_at

\* The amounts an operation reads, whenever the types are right.
LEMMA Reads == ASSUME TypeOK
               PROVE  /\ \A a : balance_of(a) \in Amounts
                      /\ \A owner, spender : allowance_of(owner, spender) \in Amounts
                      /\ total_supply \in Amounts
  BY BalanceType DEF TypeOK, balance_of, allowance_of

\* Setting an allowance to an amount keeps the allowances well typed.
LEMMA SetAllowanceType ==
  ASSUME TypeOK, NEW owner \in Addrs, NEW spender \in Addrs, NEW amount \in Amounts,
         set_allowance(owner, spender, amount)
  PROVE  is_map(allowances', Addrs \X Addrs, Amounts)
  BY InsertType DEF TypeOK, set_allowance

\* So does moving tokens the balances.
LEMMA MoveType ==
  ASSUME TypeOK, NEW from \in Addrs, NEW receiver \in Addrs, NEW amount \in Amounts,
         move(from, receiver, amount)
  PROVE  is_map(balances', Addrs, Amounts)
<1>1. /\ balance_of(from) - amount \in Amounts
      /\ balance_of(receiver) + amount \in Amounts
  BY Reads, MaxAmountAssumption DEF move, transfer_balances_ok, Amounts
<1>2. is_map(insert(balances, from, balance_of(from) - amount), Addrs, Amounts)
  BY <1>1, InsertType DEF TypeOK
<1> QED BY <1>1, <1>2, InsertType DEF move, state_after_transfer, balance_of

\* The messages that move tokens keep the types.
LEMMA TokensStepTypeOK ==
  ASSUME TypeOK, instantiated, NEW who \in Addrs, sender' = who,
         NEW amount \in Amounts,
         \/ \E to \in Addrs : verified_transfer(who, to, amount) \/ verified_mint(who, to, amount)
         \/ \E owner, recipient \in Addrs :
               verified_transfer_from(who, owner, recipient, amount)
         \/ verified_burn(who, amount)
  PROVE  TypeOK'
<1> USE MaxAmountAssumption
<1>1. ASSUME NEW to \in Addrs, verified_transfer(who, to, amount)
      PROVE  TypeOK'
  BY <1>1, MoveType DEF verified_transfer, TypeOK, is_map
<1>2. ASSUME NEW to \in Addrs, verified_mint(who, to, amount)
      PROVE  TypeOK'
  <2>1. balance_of(to) + amount \in Amounts /\ total_supply + amount \in Amounts
    BY <1>2, Reads DEF verified_mint, Amounts
  <2>2. is_map(balances', Addrs, Amounts)
    BY <1>2, <2>1, InsertType DEF verified_mint, state_after_mint, balance_of, TypeOK
  <2> QED BY <1>2, <2>1, <2>2 DEF verified_mint, TypeOK, is_map
<1>3. ASSUME NEW owner \in Addrs, NEW recipient \in Addrs,
             verified_transfer_from(who, owner, recipient, amount)
      PROVE  TypeOK'
  <2>1. allowance_of(owner, who) - amount \in Amounts
    BY <1>3, Reads DEF verified_transfer_from, Amounts
  <2>2. is_map(balances', Addrs, Amounts)
    BY <1>3, MoveType DEF verified_transfer_from
  <2>3. is_map(allowances', Addrs \X Addrs, Amounts)
    BY <1>3, <2>1, SetAllowanceType DEF verified_transfer_from
  <2> QED BY <1>3, <2>2, <2>3 DEF verified_transfer_from, TypeOK
<1>4. CASE verified_burn(who, amount)
  <2>1. balance_of(who) - amount \in Amounts /\ total_supply - amount \in Amounts
    BY <1>4, Reads DEF verified_burn, Amounts
  <2>2. is_map(balances', Addrs, Amounts)
    BY <1>4, <2>1, InsertType DEF verified_burn, state_after_burn, balance_of, TypeOK
  <2> QED BY <1>4, <2>1, <2>2 DEF verified_burn, TypeOK, is_map
<1> QED BY <1>1, <1>2, <1>3, <1>4

\* So do the messages about allowances and the minter.
LEMMA GrantsStepTypeOK ==
  ASSUME TypeOK, instantiated, NEW who \in Addrs, sender' = who,
         NEW other \in Addrs, NEW amount \in Amounts,
         \/ verified_approve(who, other, amount)
         \/ verified_increase_allowance(who, other, amount)
         \/ verified_decrease_allowance(who, other, amount)
         \/ verified_update_minter(who, other)
  PROVE  TypeOK'
<1> USE MaxAmountAssumption
<1>1. ASSUME NEW v \in Amounts, set_allowance(who, other, v),
             UNCHANGED <<balances, total_supply, minter>>
      PROVE  TypeOK'
  BY <1>1, SetAllowanceType DEF TypeOK, is_map
<1>2. CASE verified_approve(who, other, amount)
  BY <1>1, <1>2 DEF verified_approve
<1>3. CASE verified_increase_allowance(who, other, amount)
  BY <1>1, <1>3, Reads DEF verified_increase_allowance, Amounts
<1>4. CASE verified_decrease_allowance(who, other, amount)
  <2>1. (IF allowance_of(who, other) >= amount
         THEN allowance_of(who, other) - amount ELSE 0) \in Amounts
    BY Reads DEF Amounts
  <2> QED BY <1>1, <1>4, <2>1 DEF verified_decrease_allowance
<1>5. CASE verified_update_minter(who, other)
  BY <1>5 DEF verified_update_minter, TypeOK, is_map
<1> QED BY <1>2, <1>3, <1>4, <1>5

\* No message takes the minter away.
LEMMA StaysInstantiated == ASSUME NEW who \in Addrs, execute(who)
                           PROVE  instantiated'
  BY AddrsAssumption
     DEF execute, instantiated, verified_transfer, verified_approve, verified_mint,
         verified_increase_allowance, verified_decrease_allowance,
         verified_transfer_from, verified_burn, verified_update_minter

LEMMA StepIInv == IInv /\ [Next]_vars => IInv'
<1> SUFFICES ASSUME IInv, [Next]_vars PROVE IInv'
  OBVIOUS
<1>0. TypeOK
  BY DEF IInv
<1>1. ASSUME NEW owner \in Addrs, NEW new_minter \in Addrs, NEW supply \in Amounts,
             instantiate(owner, new_minter, supply)
      PROVE  IInv'
  <2>1. is_map(balances', Addrs, Amounts)
    BY <1>0, <1>1, InsertType DEF instantiate, TypeOK
  <2>2. TypeOK'
    BY <1>0, <1>1, <2>1 DEF instantiate, TypeOK, is_map
  <2>3. instantiated'
    BY <1>1, AddrsAssumption DEF instantiate, instantiated
  <2> QED BY <2>2, <2>3 DEF IInv
<1>2. ASSUME NEW who \in Addrs, execute(who)
      PROVE  IInv'
  <2>1. TypeOK'
    BY <1>0, <1>2, TokensStepTypeOK, GrantsStepTypeOK, MaxAmountAssumption
       DEF execute, Amounts
  <2> QED BY <1>2, <2>1, StaysInstantiated DEF IInv
<1>3. CASE UNCHANGED vars
  BY <1>3 DEF vars, IInv, TypeOK, is_map, instantiated, balance_of
<1> QED BY <1>1, <1>2, <1>3 DEF Next

LEMMA InvariantIInv == Spec => []IInv
  BY InitIInv, StepIInv, PTL DEF Spec

\* Balances, supply and allowances fit a u128 after any sequence of messages.
THEOREM TypeCorrect == Spec => []TypeOK
<1>1. IInv => TypeOK
  BY DEF IInv
<1> QED BY <1>1, InvariantIInv, PTL

-----------------------------------------------------------------------------
(* The token implements the ledger.                                        *)

\* The balances of a storage map as the ledger keeps them: one per address.
ledger_of(m) == [a \in Addrs |-> balance_at(m, a)]
ledger_balances == ledger_of(balances)

\* Writing one balance before or after completing the map is the same.
LEMMA InsertCommutes == ASSUME NEW m, NEW k \in Addrs, NEW v
                        PROVE  insert(ledger_of(m), k, v) = ledger_of(insert(m, k, v))
<1>1. ledger_of(insert(m, k, v)) = [a \in Addrs |-> IF a = k THEN v ELSE balance_at(m, a)]
  BY InsertReads DEF ledger_of
<1>2. Addrs \cup {k} = Addrs
  OBVIOUS
<1>3. insert(ledger_of(m), k, v)
        = [a \in Addrs |-> IF a = k THEN v ELSE balance_at(m, a)]
  BY <1>2 DEF insert, ledger_of
<1> QED BY <1>1, <1>3

\* The operators of the core, as the instance of FungibleLedger sees them, on
\* the balances of the ledger.
LEMMA SameCore ==
  ASSUME NEW from \in Addrs, NEW to \in Addrs, NEW amount \in Amounts
  PROVE  /\ Ledger!Amounts = Amounts
         /\ ledger_balances[from] = balance_of(from)
         /\ Ledger!transfer_balances_ok(balance_of(from), balance_of(to), amount)
              = transfer_balances_ok(balance_of(from), balance_of(to), amount)
         /\ Ledger!state_after_transfer(ledger_balances, from, to, amount)
              = ledger_of(state_after_transfer(balances, from, to, amount))
         /\ Ledger!state_after_mint(ledger_balances, to, amount)
              = ledger_of(state_after_mint(balances, to, amount))
         /\ Ledger!state_after_burn(ledger_balances, from, amount)
              = ledger_of(state_after_burn(balances, from, amount))
<1>1. /\ Ledger!Amounts = Amounts
      /\ Ledger!transfer_balances_ok(balance_of(from), balance_of(to), amount)
           = transfer_balances_ok(balance_of(from), balance_of(to), amount)
  BY DEF Ledger!Amounts, Amounts, Ledger!transfer_balances_ok, transfer_balances_ok
<1>2. \A m, k, v : Ledger!insert(m, k, v) = insert(m, k, v)
  BY DEF Ledger!insert, insert
<1>3. \A k \in Addrs : /\ Ledger!balance_at(ledger_balances, k) = balance_of(k)
                       /\ ledger_balances[k] = balance_of(k)
  BY DEF Ledger!balance_at, ledger_balances, ledger_of, balance_of
<1>4. Ledger!state_after_transfer(ledger_balances, from, to, amount)
        = ledger_of(state_after_transfer(balances, from, to, amount))
  <2>1. Ledger!state_after_transfer(ledger_balances, from, to, amount)
          = insert(insert(ledger_of(balances), from, balance_of(from) - amount),
                   to, balance_of(to) + amount)
    BY <1>2, <1>3 DEF Ledger!state_after_transfer, ledger_balances
  <2> QED BY <2>1, InsertCommutes DEF state_after_transfer, balance_of
<1>5. Ledger!state_after_mint(ledger_balances, to, amount)
        = ledger_of(state_after_mint(balances, to, amount))
  <2>1. Ledger!state_after_mint(ledger_balances, to, amount)
          = insert(ledger_of(balances), to, balance_of(to) + amount)
    BY <1>2, <1>3 DEF Ledger!state_after_mint, ledger_balances
  <2> QED BY <2>1, InsertCommutes DEF state_after_mint, balance_of
<1>6. Ledger!state_after_burn(ledger_balances, from, amount)
        = ledger_of(state_after_burn(balances, from, amount))
  <2>1. Ledger!state_after_burn(ledger_balances, from, amount)
          = insert(ledger_of(balances), from, balance_of(from) - amount)
    BY <1>2, <1>3 DEF Ledger!state_after_burn, ledger_balances
  <2> QED BY <2>1, InsertCommutes DEF state_after_burn, balance_of
<1> QED BY <1>1, <1>3, <1>4, <1>5, <1>6

\* The instance's balances are ledger_balances.
LEMMA Mapping == [a \in Addrs |-> balance_of(a)] = ledger_balances
  BY DEF ledger_balances, ledger_of, balance_of

\* Moving tokens is a transfer of the ledger.
LEMMA MoveIsTransfer ==
  ASSUME NEW from \in Addrs, NEW receiver \in Addrs, NEW amount \in Amounts,
         move(from, receiver, amount), UNCHANGED total_supply
  PROVE  Ledger!Next
<1>1. ledger_balances'
         = Ledger!state_after_transfer(ledger_balances, from, receiver, amount)
  BY SameCore DEF move, ledger_balances
<1>2. Ledger!Transfer(from, receiver, amount)
  BY <1>1, SameCore DEF Ledger!Transfer, move, ledger_balances, ledger_of, balance_of
<1> QED BY <1>2, SameCore DEF Ledger!Next

\* Transfers and transfers from an allowance move tokens, mints mint, burns
\* burn; instantiate mints into an empty ledger, and nothing else touches it.
THEOREM ImplementsLedger == Spec => LedgerSpec
<1>1. Init => Ledger!Init
  <2> SUFFICES ASSUME Init PROVE Ledger!Init
    OBVIOUS
  <2>1. /\ ledger_balances = [a \in Addrs |-> 0]
        /\ total_supply = 0
    BY DEF Init, ledger_balances, ledger_of, balance_at
  <2>2. Ledger!Units(ledger_balances) = {}
    BY <2>1 DEF Ledger!Units
  <2>3. Ledger!sum_balances(ledger_balances) = 0
    BY <2>2, FS_EmptySet DEF Ledger!sum_balances, Ledger!Cardinality, Cardinality
  <2>4. ledger_balances \in [Addrs -> Ledger!Amounts] /\ total_supply <= MaxAmount
    BY <2>1, MaxAmountAssumption DEF Ledger!Amounts
  <2> QED BY <2>1, <2>3, <2>4, Mapping DEF Ledger!Init
<1>2. IInv /\ [Next]_vars => [Ledger!Next]_(Ledger!vars)
  <2> SUFFICES ASSUME IInv, [Next]_vars
               PROVE  Ledger!Next \/ UNCHANGED <<ledger_balances, total_supply>>
    BY DEF Ledger!vars, ledger_balances, ledger_of, balance_of
  <2>1. ASSUME NEW owner \in Addrs, NEW new_minter \in Addrs, NEW supply \in Amounts,
               instantiate(owner, new_minter, supply)
        PROVE  Ledger!Next
    <3>1. balance_of(owner) = 0 /\ total_supply = 0 /\ supply \in Nat /\ supply <= MaxAmount
      BY <2>1, MaxAmountAssumption DEF instantiate, IInv, Amounts
    <3>2. balances' = state_after_mint(balances, owner, supply)
      BY <2>1, <3>1 DEF instantiate, state_after_mint, balance_of
    <3>3. ledger_balances' = Ledger!state_after_mint(ledger_balances, owner, supply)
      BY <3>2, SameCore DEF ledger_balances
    <3>4. Ledger!Mint(owner, supply)
      BY <2>1, <3>1, <3>3 DEF Ledger!Mint, instantiate, ledger_balances, ledger_of, balance_of
    <3> QED BY <3>4, SameCore DEF Ledger!Next
  <2>2. ASSUME NEW who \in Addrs, execute(who)
        PROVE  Ledger!Next \/ UNCHANGED <<ledger_balances, total_supply>>
    <3>1. ASSUME NEW to \in Addrs, NEW amount \in Amounts,
                 verified_transfer(who, to, amount)
          PROVE  Ledger!Next
      BY <3>1, MoveIsTransfer DEF verified_transfer
    <3>2. ASSUME NEW owner \in Addrs, NEW recipient \in Addrs, NEW amount \in Amounts,
                 verified_transfer_from(who, owner, recipient, amount)
          PROVE  Ledger!Next
      BY <3>2, MoveIsTransfer DEF verified_transfer_from
    <3>3. ASSUME NEW to \in Addrs, NEW amount \in Amounts,
                 verified_mint(who, to, amount)
          PROVE  Ledger!Next
      <4>1. ledger_balances' = Ledger!state_after_mint(ledger_balances, to, amount)
        BY <3>3, SameCore DEF verified_mint, ledger_balances
      <4>2. Ledger!Mint(to, amount)
        BY <3>3, <4>1 DEF Ledger!Mint, verified_mint, ledger_balances, ledger_of, balance_of
      <4> QED BY <4>2, SameCore DEF Ledger!Next
    <3>4. ASSUME NEW amount \in Amounts, verified_burn(who, amount)
          PROVE  Ledger!Next
      <4>1. ledger_balances' = Ledger!state_after_burn(ledger_balances, who, amount)
        BY <3>4, SameCore DEF verified_burn, ledger_balances
      <4>2. Ledger!Burn(who, amount)
        BY <3>4, <4>1, SameCore DEF Ledger!Burn, verified_burn, ledger_balances,
                                    ledger_of, balance_of
      <4> QED BY <4>2, SameCore DEF Ledger!Next
    <3>5. ASSUME UNCHANGED <<balances, total_supply>>
          PROVE  UNCHANGED <<ledger_balances, total_supply>>
      BY <3>5 DEF ledger_balances
    <3> QED BY <2>2, <3>1, <3>2, <3>3, <3>4, <3>5
           DEF execute, verified_approve, verified_increase_allowance,
               verified_decrease_allowance, verified_update_minter
  <2>3. CASE UNCHANGED vars
    BY <2>3 DEF vars, ledger_balances
  <2> QED BY <2>1, <2>2, <2>3 DEF Next
<1> QED BY <1>1, <1>2, InvariantIInv, PTL DEF Spec, LedgerSpec, Ledger!Spec

-----------------------------------------------------------------------------
(* Nobody loses tokens without having agreed to it.                        *)

\* What a move does to each balance.
LEMMA MoveReads ==
  ASSUME TypeOK, NEW from \in Addrs, NEW receiver \in Addrs, NEW amount \in Amounts,
         move(from, receiver, amount), NEW a \in Addrs
  PROVE  /\ a = from => balance_of(a)' = balance_of(a) - amount
         /\ a # from => balance_of(a)' >= balance_of(a)
<1>1. balance_of(a)' = IF a = receiver THEN balance_of(receiver) + amount
                       ELSE IF a = from THEN balance_of(from) - amount
                       ELSE balance_of(a)
  BY InsertReads DEF move, state_after_transfer, balance_of
<1>2. /\ balance_of(a) \in Nat /\ balance_of(receiver) \in Nat
      /\ amount \in Nat /\ from # receiver
  BY Reads, MaxAmountAssumption DEF move, Amounts
<1> QED BY <1>1, <1>2

\* The three parts of Authorized, for one step.
BalancesAuthorized ==
    \A a \in Addrs :
        balance_of(a)' < balance_of(a) =>
            \/ sender' = a
            \/ /\ sender' \in Addrs
               /\ allowance_of(a, sender')
                    = balance_at(allowances', <<a, sender'>>)
                         + (balance_of(a) - balance_of(a)')

AllowancesAuthorized ==
    \A owner, spender \in Addrs :
        allowance_of(owner, spender)' > allowance_of(owner, spender) => sender' = owner

SupplyAuthorized ==
    instantiated /\ (total_supply' > total_supply \/ minter' # minter) =>
        sender' = minter

\* A message that moves tokens.
LEMMA TokensAuthorized ==
  ASSUME TypeOK, NEW who \in Addrs, sender' = who, NEW amount \in Amounts,
         \/ \E to \in Addrs : verified_transfer(who, to, amount) \/ verified_mint(who, to, amount)
         \/ \E owner, recipient \in Addrs :
               verified_transfer_from(who, owner, recipient, amount)
         \/ verified_burn(who, amount)
  PROVE  BalancesAuthorized /\ AllowancesAuthorized /\ SupplyAuthorized
<1>0. /\ amount \in Nat /\ total_supply \in Nat
      /\ \A a : balance_of(a) \in Nat
      /\ \A owner, spender : allowance_of(owner, spender) \in Nat
  BY Reads, MaxAmountAssumption DEF Amounts
<1>1. ASSUME UNCHANGED allowances
      PROVE  AllowancesAuthorized
  BY <1>0, <1>1 DEF AllowancesAuthorized, allowance_of
<1>2. ASSUME NEW to \in Addrs, verified_transfer(who, to, amount)
      PROVE  BalancesAuthorized /\ AllowancesAuthorized /\ SupplyAuthorized
  <2>1. \A a \in Addrs : a # who => balance_of(a)' >= balance_of(a)
    BY <1>2, MoveReads DEF verified_transfer
  <2>2. BalancesAuthorized
    <3> SUFFICES ASSUME NEW a \in Addrs, balance_of(a)' < balance_of(a)
                 PROVE  sender' = a
      BY DEF BalancesAuthorized
    <3>1. balance_of(a) \in Nat /\ balance_of(a)' \in Int
      BY <1>0, <1>2, MoveType, BalanceType, MaxAmountAssumption
         DEF verified_transfer, balance_of, Amounts
    <3> QED BY <2>1, <3>1
  <2> QED BY <1>0, <1>1, <1>2, <2>2 DEF verified_transfer, SupplyAuthorized
<1>3. ASSUME NEW to \in Addrs, verified_mint(who, to, amount)
      PROVE  BalancesAuthorized /\ AllowancesAuthorized /\ SupplyAuthorized
  <2>1. \A a \in Addrs : balance_of(a)' = IF a = to THEN balance_of(to) + amount
                                          ELSE balance_of(a)
    BY <1>3, InsertReads DEF verified_mint, state_after_mint, balance_of
  <2>2. \A a \in Addrs : ~(balance_of(a)' < balance_of(a))
    BY <1>0, <2>1
  <2> QED BY <1>1, <1>3, <2>2 DEF verified_mint, BalancesAuthorized, SupplyAuthorized
<1>4. ASSUME NEW owner \in Addrs, NEW recipient \in Addrs,
             verified_transfer_from(who, owner, recipient, amount)
      PROVE  BalancesAuthorized /\ AllowancesAuthorized /\ SupplyAuthorized
  <2>1. \A o, s : balance_at(allowances', <<o, s>>)
                     = IF <<o, s>> = <<owner, who>> THEN allowance_of(owner, who) - amount
                       ELSE allowance_of(o, s)
    BY <1>4, InsertReads DEF verified_transfer_from, set_allowance, allowance_of
  <2>2. \A a \in Addrs : /\ a = owner => balance_of(a)' = balance_of(a) - amount
                         /\ a # owner => balance_of(a)' >= balance_of(a)
    BY <1>4, MoveReads DEF verified_transfer_from
  <2>3. BalancesAuthorized
    <3> SUFFICES ASSUME NEW a \in Addrs, balance_of(a)' < balance_of(a)
                 PROVE  allowance_of(a, who)
                          = balance_at(allowances', <<a, who>>)
                              + (balance_of(a) - balance_of(a)')
      BY DEF BalancesAuthorized
    <3>1. balance_of(a) \in Nat /\ balance_of(a)' \in Nat
      BY <1>0, <1>4, MoveType, BalanceType, MaxAmountAssumption
         DEF verified_transfer_from, balance_of, Amounts
    <3>2. a = owner
      BY <2>2, <3>1
    <3>3. balance_at(allowances', <<a, who>>) = allowance_of(a, who) - amount
      BY <2>1, <3>2
    <3> QED BY <1>0, <2>2, <3>2, <3>3
  <2>4. AllowancesAuthorized
    <3>1. \A o, s \in Addrs : ~(allowance_of(o, s)' > allowance_of(o, s))
      <4> SUFFICES ASSUME NEW o \in Addrs, NEW s \in Addrs
                   PROVE  ~(allowance_of(o, s)' > allowance_of(o, s))
        OBVIOUS
      <4>1. allowance_of(o, s)' = balance_at(allowances', <<o, s>>)
        BY DEF allowance_of
      <4>2. allowance_of(o, s)' = allowance_of(o, s) - amount
              \/ allowance_of(o, s)' = allowance_of(o, s)
        BY <2>1, <4>1
      <4> QED BY <1>0, <4>2
    <3> QED BY <3>1 DEF AllowancesAuthorized
  <2> QED BY <1>0, <1>4, <2>3, <2>4 DEF verified_transfer_from, SupplyAuthorized
<1>5. CASE verified_burn(who, amount)
  <2>1. \A a \in Addrs : a # who => balance_of(a)' = balance_of(a)
    BY <1>5, InsertReads DEF verified_burn, state_after_burn, balance_of
  <2>2. BalancesAuthorized
    BY <1>0, <2>1 DEF BalancesAuthorized
  <2>3. SupplyAuthorized
    BY <1>0, <1>5 DEF verified_burn, SupplyAuthorized
  <2> QED BY <1>1, <1>5, <2>2, <2>3 DEF verified_burn
<1> QED BY <1>2, <1>3, <1>4, <1>5

\* A message that sets an allowance or hands over the minter.
LEMMA GrantsAuthorized ==
  ASSUME TypeOK, NEW who \in Addrs, sender' = who,
         NEW other \in Addrs, NEW amount \in Amounts,
         \/ verified_approve(who, other, amount)
         \/ verified_increase_allowance(who, other, amount)
         \/ verified_decrease_allowance(who, other, amount)
         \/ verified_update_minter(who, other)
  PROVE  BalancesAuthorized /\ AllowancesAuthorized /\ SupplyAuthorized
<1>0. /\ total_supply \in Nat
      /\ \A a : balance_of(a) \in Nat
      /\ \A owner, spender : allowance_of(owner, spender) \in Nat
  BY Reads, MaxAmountAssumption DEF Amounts
<1>1. UNCHANGED <<balances, total_supply>>
  BY DEF verified_approve, verified_increase_allowance, verified_decrease_allowance,
         verified_update_minter
<1>2. BalancesAuthorized
  BY <1>0, <1>1 DEF BalancesAuthorized, balance_of
<1>3. SupplyAuthorized
  BY <1>0, <1>1 DEF SupplyAuthorized, verified_approve, verified_increase_allowance,
                    verified_decrease_allowance, verified_update_minter
<1>4. ASSUME NEW v, set_allowance(who, other, v)
      PROVE  AllowancesAuthorized
  <2>1. \A o, s \in Addrs : o # who => allowance_of(o, s)' = allowance_of(o, s)
    BY <1>4, InsertReads DEF set_allowance, allowance_of
  <2> QED BY <1>0, <2>1 DEF AllowancesAuthorized
<1>5. ASSUME UNCHANGED allowances
      PROVE  AllowancesAuthorized
  BY <1>0, <1>5 DEF AllowancesAuthorized, allowance_of
<1> QED BY <1>2, <1>3, <1>4, <1>5
       DEF verified_approve, verified_increase_allowance,
           verified_decrease_allowance, verified_update_minter

\* Balances, allowances, the supply and the minter only change in the hands of
\* those they belong to, whatever messages are sent and whoever sends them.
THEOREM OnlyAuthorized == Spec => Authorized
<1> DEFINE A == BalancesAuthorized /\ AllowancesAuthorized /\ SupplyAuthorized
<1>1. IInv /\ [Next]_vars => [A]_vars
  <2> SUFFICES ASSUME IInv, Next PROVE A
    OBVIOUS
  <2>0. /\ TypeOK
        /\ \A a : balance_of(a) \in Nat
        /\ \A owner, spender : allowance_of(owner, spender) \in Nat
    BY Reads, MaxAmountAssumption DEF IInv, Amounts
  <2>1. ASSUME NEW owner \in Addrs, NEW new_minter \in Addrs, NEW supply \in Amounts,
               instantiate(owner, new_minter, supply)
        PROVE  A
    <3>1. \A a \in Addrs : a # owner => balance_of(a)' = balance_of(a)
      BY <2>1, InsertReads DEF instantiate, balance_of
    <3>2. BalancesAuthorized
      BY <2>0, <2>1, <3>1 DEF BalancesAuthorized, instantiate
    <3>3. AllowancesAuthorized
      BY <2>0, <2>1 DEF AllowancesAuthorized, instantiate, allowance_of
    <3> QED BY <2>1, <3>2, <3>3 DEF SupplyAuthorized, instantiate
  <2>2. ASSUME NEW who \in Addrs, execute(who)
        PROVE  A
    BY <2>0, <2>2, TokensAuthorized, GrantsAuthorized, MaxAmountAssumption
       DEF execute, Amounts
  <2> QED BY <2>1, <2>2 DEF Next
<1>2. A <=> (/\ \A a \in Addrs :
                  balance_of(a)' < balance_of(a) =>
                     \/ sender' = a
                     \/ /\ sender' \in Addrs
                        /\ allowance_of(a, sender')
                             = balance_at(allowances', <<a, sender'>>)
                                  + (balance_of(a) - balance_of(a)')
             /\ \A owner, spender \in Addrs :
                  allowance_of(owner, spender)' > allowance_of(owner, spender) =>
                     sender' = owner
             /\ instantiated /\ (total_supply' > total_supply \/ minter' # minter) =>
                  sender' = minter)
  BY DEF BalancesAuthorized, AllowancesAuthorized, SupplyAuthorized
<1> QED BY <1>1, <1>2, InvariantIInv, PTL DEF Spec, Authorized
=============================================================================
