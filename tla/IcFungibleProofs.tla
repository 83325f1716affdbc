-------------------------- MODULE IcFungibleProofs --------------------------
(***************************************************************************)
(* The Internet Computer fungible canister, whose errors are committed and *)
(* whose upgrades lose the heap, for every set of principals and every     *)
(* width of amounts: it keeps its types, conserves its supply throughout,  *)
(* and implements the abstract ledger until it is upgraded.                *)
(***************************************************************************)
EXTENDS IcFungible, CoreProofs

\* What the book of the canister says everybody holds.
Book == [p \in Principals |-> balance_at(balances, p)]

\* Minting and burning write one entry.
LEMMA CoreUpdates ==
  /\ \A m, t, a : state_after_mint(m, t, a) = insert(m, t, balance_at(m, t) + a)
  /\ \A m, f, a : state_after_burn(m, f, a) = insert(m, f, balance_at(m, f) - a)
  BY DEF state_after_mint, state_after_burn

\* The entries the canister reads.
LEMMA Reads ==
  /\ \A p : balance_of(p) = balance_at(balances, p)
  /\ \A o, s : allowance_of(o, s) = balance_at(allowances, <<o, s>>)
  BY DEF balance_of, allowance_of

-----------------------------------------------------------------------------
(* What the update methods do to the book.                                 *)

\* amount moves between two accounts, the sender having it.
Moved(from, to, amount) ==
    /\ from # to
    /\ transfer_balances_ok(Book[from], Book[to], amount)
    /\ Book' = [Book EXCEPT ![from] = @ - amount, ![to] = @ + amount]
    /\ total_supply' = total_supply
    /\ minter' = minter

\* amount is issued, which needs a minter.
Minted(to, amount) ==
    /\ minter \in Principals
    /\ total_supply + amount <= MaxAmount
    /\ Book' = [Book EXCEPT ![to] = @ + amount]
    /\ total_supply' = total_supply + amount
    /\ minter' = minter

\* amount is destroyed.
Burnt(from, amount) ==
    /\ Book[from] >= amount /\ total_supply >= amount
    /\ Book' = [Book EXCEPT ![from] = @ - amount]
    /\ total_supply' = total_supply - amount
    /\ minter' = minter

\* Nobody gains or loses tokens; only a minter hands its role over.
Kept ==
    /\ Book' = Book
    /\ total_supply' = total_supply
    /\ minter' = minter \/ minter \in Principals

BookStep ==
    \/ \E from, to \in Principals : \E amount \in Amounts : Moved(from, to, amount)
    \/ \E to \in Principals : \E amount \in Amounts : Minted(to, amount)
    \/ \E from \in Principals : \E amount \in Amounts : Burnt(from, amount)
    \/ Kept

\* An allowance is only taken from in its own TransferFrom or by its owner.
Charged(who, owner, spender) ==
    /\ who = spender
    /\ balance_at(allowances, <<owner, spender>>)
          - balance_at(allowances, <<owner, spender>>)'
       = Book[owner] - Book'[owner]

AllowancesHeld(who) ==
    \A owner, spender \in Principals :
        who # owner /\ balance_at(allowances, <<owner, spender>>)'
                          < balance_at(allowances, <<owner, spender>>)
        => Charged(who, owner, spender)

\* One allowance written, by its owner.
LEMMA SavesAllowance ==
    ASSUME TypeOK, NEW who \in Principals, NEW spender \in Principals, NEW v \in Amounts,
           save_allowance(who, spender, v)
    PROVE  /\ is_map(allowances', Principals \X Principals, Amounts)
           /\ AllowancesHeld(who)
<1>1. allowances' = insert(allowances, <<who, spender>>, v)
  BY CoreUpdates DEF save_allowance
<1>2. is_map(allowances, Principals \X Principals, Amounts)
  BY DEF TypeOK
<1>3. is_map(insert(allowances, <<who, spender>>, v), Principals \X Principals, Amounts)
  BY <1>2, InsertType
<1>4. ASSUME NEW owner \in Principals, NEW other \in Principals, who # owner
      PROVE  /\ balance_at(allowances, <<owner, other>>)'
                   = balance_at(allowances, <<owner, other>>)
             /\ balance_at(allowances, <<owner, other>>) \in Amounts
  <2>1. balance_at(insert(allowances, <<who, spender>>, v), <<owner, other>>)
           = balance_at(allowances, <<owner, other>>)
    BY <1>4, InsertReads
  <2> QED BY <1>1, <1>2, <2>1, BalanceType
<1> QED BY <1>1, <1>3, <1>4, MaxAmountAssumption DEF AllowancesHeld, Amounts

\* No allowance written.
LEMMA KeepsAllowances ==
    ASSUME TypeOK, allowances' = allowances, NEW who
    PROVE  /\ is_map(allowances', Principals \X Principals, Amounts)
           /\ AllowancesHeld(who)
<1>1. is_map(allowances, Principals \X Principals, Amounts)
  BY DEF TypeOK
<1>2. \A k : balance_at(allowances, k) \in Amounts
  BY <1>1, BalanceType
<1> QED BY <1>1, <1>2, MaxAmountAssumption DEF AllowancesHeld, Amounts

\* The book of a well typed heap.
LEMMA BookType ==
    ASSUME TypeOK
    PROVE  /\ Book \in [Principals -> Amounts]
           /\ \A p \in Principals : Book[p] = balance_at(balances, p)
  BY BalanceType DEF TypeOK, Book

\* And of the heap after a step.
LEMMA BookTypeNext == ASSUME is_map(balances', Principals, Amounts)
                      PROVE  Book' \in [Principals -> Amounts]
<1>1. Book' = [p \in Principals |-> balance_at(balances', p)]
  BY DEF Book
<1>2. \A p : balance_at(balances', p) \in Amounts
  BY BalanceType
<1> QED BY <1>1, <1>2

\* Tokens moved between two accounts.
LEMMA MovesTokens ==
    ASSUME TypeOK, NEW from \in Principals, NEW to \in Principals, NEW amount \in Amounts,
           from # to,
           transfer_balances_ok(balance_at(balances, from),
                                balance_at(balances, to), amount),
           balances' = state_after_transfer(balances, from, to, amount)
    PROVE  /\ is_map(balances', Principals, Amounts)
           /\ transfer_balances_ok(Book[from], Book[to], amount)
           /\ Book' = [Book EXCEPT ![from] = @ - amount, ![to] = @ + amount]
<1> DEFINE f == balance_at(balances, from)
           t == balance_at(balances, to)
<1>1. /\ f \in Amounts /\ t \in Amounts
      /\ Book \in [Principals -> Amounts]
      /\ Book[from] = f /\ Book[to] = t
  BY BookType
<1>2. /\ f >= amount
      /\ f - amount \in Amounts /\ t + amount \in Amounts
  BY <1>1, MaxAmountAssumption DEF transfer_balances_ok, Amounts
<1>3. is_map(balances, Principals, Amounts)
  BY DEF TypeOK
<1> HIDE DEF f, t
<1>4. is_map(insert(balances, from, f - amount), Principals, Amounts)
  BY <1>2, <1>3, InsertType
<1>5. is_map(insert(insert(balances, from, f - amount), to, t + amount), Principals, Amounts)
  BY <1>2, <1>4, InsertType
<1>6. is_map(balances', Principals, Amounts)
  BY <1>5 DEF state_after_transfer, f, t
<1>7. \A p \in Principals : balance_at(balances', p)
                          = IF p = to THEN t + amount
                            ELSE IF p = from THEN f - amount
                            ELSE balance_at(balances, p)
  BY TransferReads DEF f, t
<1>8. Book' = [p \in Principals |-> balance_at(balances', p)]
  BY DEF Book
<1>9. \A p \in Principals : Book[p] = balance_at(balances, p)
  BY BookType
<1>10. transfer_balances_ok(Book[from], Book[to], amount)
  BY <1>1 DEF f, t
<1> QED BY <1>1, <1>2, <1>6, <1>7, <1>8, <1>9, <1>10

\* The balance of one account written.
LEMMA WritesBalance ==
    ASSUME TypeOK, NEW k \in Principals, NEW v \in Amounts,
           balances' = insert(balances, k, v)
    PROVE  /\ is_map(balances', Principals, Amounts)
           /\ Book' = [Book EXCEPT ![k] = v]
<1>1. is_map(balances', Principals, Amounts)
  BY InsertType DEF TypeOK
<1>2. \A p \in Principals : balance_at(balances', p)
                          = IF p = k THEN v ELSE balance_at(balances, p)
  BY InsertReads
<1> QED BY <1>1, <1>2, BookType DEF Book

-----------------------------------------------------------------------------
(* Every update method.                                                    *)

\* What every update method of who does.
Good(who) ==
    /\ is_map(balances', Principals, Amounts)
    /\ total_supply' \in Amounts
    /\ is_map(allowances', Principals \X Principals, Amounts)
    /\ minter' \in Principals \cup {Nobody}
    /\ BookStep
    /\ AllowancesHeld(who)

\* A method that touches neither balances nor supply is a step of the book.
LEMMA BookKept ==
    ASSUME balances' = balances, total_supply' = total_supply,
           minter' = minter \/ minter \in Principals
    PROVE  BookStep
  BY DEF BookStep, Kept, Book

\* An update that returned an error wrote nothing.
LEMMA RejectsUpdate == ASSUME TypeOK, NEW who \in Principals, UNCHANGED state
                   PROVE  Good(who)
<1>1. /\ balances' = balances /\ total_supply' = total_supply
      /\ allowances' = allowances /\ minter' = minter
  BY DEF state
<1> QED BY <1>1, KeepsAllowances, BookKept DEF TypeOK, Good

\* The methods that only write an allowance of their caller.
LEMMA Approves ==
    ASSUME TypeOK, NEW who \in Principals, NEW spender \in Principals, NEW v \in Amounts,
           save_allowance(who, spender, v),
           UNCHANGED <<balances, total_supply, minter>>
    PROVE  Good(who)
  BY SavesAllowance, BookKept DEF TypeOK, Good

\* The methods that move, issue and destroy tokens.
LEMMA TransferGood ==
    ASSUME TypeOK, NEW who \in Principals, NEW receiver \in Principals, NEW amount \in Amounts,
           verified_transfer(who, receiver, amount)
    PROVE  Good(who)
<1>1. CASE UNCHANGED state
  BY <1>1, RejectsUpdate
<1>2. CASE ~UNCHANGED state
  <2>1. /\ who # receiver
        /\ transfer_balances_ok(balance_at(balances, who),
                                balance_at(balances, receiver), amount)
        /\ balances' = state_after_transfer(balances, who, receiver, amount)
        /\ UNCHANGED <<total_supply, allowances, minter>>
    BY <1>2, CoreUpdates, Reads DEF verified_transfer
  <2>2. /\ is_map(balances', Principals, Amounts)
        /\ Moved(who, receiver, amount)
    BY <2>1, MovesTokens DEF Moved
  <2>3. BookStep
    BY <2>2 DEF BookStep
  <2> QED BY <2>1, <2>2, <2>3, KeepsAllowances DEF TypeOK, Good
<1> QED BY <1>1, <1>2

LEMMA TransferFromGood ==
    ASSUME TypeOK, NEW who \in Principals, NEW owner \in Principals, NEW recipient \in Principals,
           NEW amount \in Amounts,
           verified_transfer_from(who, owner, recipient, amount)
    PROVE  Good(who)
<1>1. CASE UNCHANGED state
  BY <1>1, RejectsUpdate
<1>2. CASE ~UNCHANGED state
  <2> DEFINE allowed == balance_at(allowances, <<owner, who>>)
             after == insert(allowances, <<owner, who>>, allowed - amount)
  <2>1. /\ owner # recipient
        /\ allowed >= amount
        /\ transfer_balances_ok(balance_at(balances, owner),
                                balance_at(balances, recipient), amount)
        /\ balances' = state_after_transfer(balances, owner, recipient, amount)
        /\ allowances' = after
        /\ UNCHANGED <<total_supply, minter>>
    BY <1>2, CoreUpdates, Reads DEF verified_transfer_from, save_allowance
  <2>2. /\ is_map(balances', Principals, Amounts)
        /\ Moved(owner, recipient, amount)
    BY <2>1, MovesTokens DEF Moved
  <2>3. BookStep
    BY <2>2 DEF BookStep
  <2>4. is_map(allowances, Principals \X Principals, Amounts)
    BY DEF TypeOK
  <2>5. allowed \in Amounts /\ \A k : balance_at(allowances, k) \in Amounts
    BY <2>4, BalanceType
  <2>6. allowed - amount \in Amounts
    BY <2>1, <2>5, MaxAmountAssumption DEF Amounts
  <2>7. is_map(after, Principals \X Principals, Amounts)
    <3> HIDE DEF allowed
    <3> QED BY <2>4, <2>6, InsertType
  <2>8. \A k : balance_at(after, k) = IF k = <<owner, who>> THEN allowed - amount
                                      ELSE balance_at(allowances, k)
    BY InsertReads
  <2>9. AllowancesHeld(who)
    <3> SUFFICES ASSUME NEW o \in Principals, NEW s \in Principals, who # o,
                        balance_at(allowances, <<o, s>>)'
                           < balance_at(allowances, <<o, s>>)
                 PROVE  Charged(who, o, s)
      BY DEF AllowancesHeld
    <3>1. balance_at(allowances, <<o, s>>)' = balance_at(after, <<o, s>>)
      BY <2>1
    <3>2. <<o, s>> = <<owner, who>>
      <4> HIDE DEF after, allowed
      <4>1. balance_at(allowances, <<o, s>>) \in Nat
        BY <2>5, MaxAmountAssumption DEF Amounts
      <4> QED BY <3>1, <4>1, <2>8
    <3>3. balance_at(allowances, <<o, s>>) - balance_at(allowances, <<o, s>>)'
             = amount
      BY <3>1, <3>2, <2>5, <2>8, MaxAmountAssumption DEF Amounts
    <3>4. Book[owner] - Book'[owner] = amount
      BY <2>1, <2>2, BookType, MaxAmountAssumption DEF Moved, Amounts
    <3>5. o = owner /\ s = who
      BY <3>2
    <3> QED BY <3>3, <3>4, <3>5 DEF Charged
  <2> QED BY <2>1, <2>2, <2>3, <2>7, <2>9 DEF TypeOK, Good
<1> QED BY <1>1, <1>2

LEMMA MintGood ==
    ASSUME TypeOK, NEW who \in Principals, NEW to \in Principals, NEW amount \in Amounts,
           verified_mint(who, to, amount)
    PROVE  Good(who)
<1>1. CASE UNCHANGED state
  BY <1>1, RejectsUpdate
<1>2. CASE ~UNCHANGED state
  <2> DEFINE v == balance_at(balances, to) + amount
  <2>1. /\ minter = who
        /\ total_supply + amount <= MaxAmount
        /\ v <= MaxAmount
        /\ total_supply' = total_supply + amount
        /\ balances' = insert(balances, to, v)
        /\ UNCHANGED <<allowances, minter>>
    BY <1>2, CoreUpdates, Reads DEF verified_mint, is_minter
  <2>2. /\ v \in Amounts /\ total_supply' \in Amounts
        /\ v = Book[to] + amount
    BY <2>1, BookType, MaxAmountAssumption DEF TypeOK, Amounts
  <2>3. /\ is_map(balances', Principals, Amounts)
        /\ Book' = [Book EXCEPT ![to] = v]
    <3> HIDE DEF v
    <3> QED BY <2>1, <2>2, WritesBalance
  <2>4. Minted(to, amount)
    BY <2>1, <2>2, <2>3 DEF Minted
  <2>5. BookStep
    BY <2>4 DEF BookStep
  <2> QED BY <2>1, <2>2, <2>3, <2>5, KeepsAllowances DEF TypeOK, Good
<1> QED BY <1>1, <1>2

LEMMA BurnGood ==
    ASSUME TypeOK, NEW who \in Principals, NEW amount \in Amounts,
           verified_burn(who, amount)
    PROVE  Good(who)
<1>1. CASE UNCHANGED state
  BY <1>1, RejectsUpdate
<1>2. CASE ~UNCHANGED state
  <2> DEFINE v == balance_at(balances, who) - amount
  <2>1. /\ balance_at(balances, who) >= amount
        /\ total_supply >= amount
        /\ total_supply' = total_supply - amount
        /\ balances' = insert(balances, who, v)
        /\ UNCHANGED <<allowances, minter>>
    BY <1>2, CoreUpdates, Reads DEF verified_burn
  <2>2. /\ v \in Amounts /\ total_supply' \in Amounts
        /\ v = Book[who] - amount /\ Book[who] >= amount
    BY <2>1, BookType, MaxAmountAssumption DEF TypeOK, Amounts
  <2>3. /\ is_map(balances', Principals, Amounts)
        /\ Book' = [Book EXCEPT ![who] = v]
    <3> HIDE DEF v
    <3> QED BY <2>1, <2>2, WritesBalance
  <2>4. Burnt(who, amount)
    BY <2>1, <2>2, <2>3 DEF Burnt
  <2>5. BookStep
    BY <2>4 DEF BookStep
  <2> QED BY <2>1, <2>2, <2>3, <2>5, KeepsAllowances DEF TypeOK, Good
<1> QED BY <1>1, <1>2

\* The other methods: allowances and the minter.
LEMMA AllowancesGood ==
    ASSUME TypeOK, NEW who \in Principals, NEW spender \in Principals, NEW amount \in Amounts,
           \/ verified_approve(who, spender, amount)
           \/ verified_increase_allowance(who, spender, amount)
           \/ verified_decrease_allowance(who, spender, amount)
    PROVE  Good(who)
<1>1. allowance_of(who, spender) \in Amounts
  BY Reads, BalanceType DEF TypeOK
<1>2. CASE verified_approve(who, spender, amount)
  BY <1>2, Approves DEF verified_approve
<1>3. CASE verified_increase_allowance(who, spender, amount)
  <2>1. CASE UNCHANGED state
    BY <2>1, RejectsUpdate
  <2>2. CASE ~UNCHANGED state
    <3>1. /\ allowance_of(who, spender) + amount <= MaxAmount
          /\ save_allowance(who, spender, allowance_of(who, spender) + amount)
          /\ UNCHANGED <<balances, total_supply, minter>>
      BY <1>3, <2>2 DEF verified_increase_allowance
    <3>2. allowance_of(who, spender) + amount \in Amounts
      BY <1>1, <3>1, MaxAmountAssumption DEF Amounts
    <3> QED BY <3>1, <3>2, Approves
  <2> QED BY <2>1, <2>2
<1>4. CASE verified_decrease_allowance(who, spender, amount)
  <2> DEFINE v == IF allowance_of(who, spender) >= amount
                  THEN allowance_of(who, spender) - amount ELSE 0
  <2>1. /\ save_allowance(who, spender, v)
        /\ UNCHANGED <<balances, total_supply, minter>>
    BY <1>4 DEF verified_decrease_allowance
  <2>2. v \in Amounts
    BY <1>1, MaxAmountAssumption DEF Amounts
  <2> QED BY <2>1, <2>2, Approves
<1> QED BY <1>2, <1>3, <1>4

LEMMA MinterGood ==
    ASSUME TypeOK, NEW who \in Principals, NEW new_minter \in Principals,
           verified_update_minter(who, new_minter)
    PROVE  Good(who)
<1>1. CASE UNCHANGED state
  BY <1>1, RejectsUpdate
<1>2. CASE ~UNCHANGED state
  <2>1. /\ minter = who /\ minter' = new_minter
        /\ UNCHANGED <<balances, total_supply, allowances>>
    BY <1>2 DEF verified_update_minter, is_minter
  <2> QED BY <2>1, KeepsAllowances, BookKept DEF TypeOK, Good
<1> QED BY <1>1, <1>2

\* Every update method, with its errors.
LEMMA UpdateGood ==
    ASSUME TypeOK, NEW who \in Principals, update(who)
    PROVE  Good(who)
<1>1. CASE \E other \in Principals, amount \in Amounts :
              \/ verified_transfer(who, other, amount)
              \/ verified_approve(who, other, amount)
              \/ verified_mint(who, other, amount)
              \/ verified_increase_allowance(who, other, amount)
              \/ verified_decrease_allowance(who, other, amount)
  BY <1>1, TransferGood, AllowancesGood, MintGood
<1>2. CASE \E owner, recipient \in Principals, amount \in Amounts :
              verified_transfer_from(who, owner, recipient, amount)
  BY <1>2, TransferFromGood
<1>3. CASE \E amount \in Amounts : verified_burn(who, amount)
  BY <1>3, BurnGood
<1>4. CASE \E new_minter \in Principals : verified_update_minter(who, new_minter)
  BY <1>4, MinterGood
<1> QED BY <1>1, <1>2, <1>3, <1>4, CoreUpdates DEF update

-----------------------------------------------------------------------------
(* The invariant of the canister.                                          *)

\* Before init and after an upgrade the heap holds nothing, and an upgraded
\* canister is an installed one: init never runs on it.
IInv ==
    /\ TypeOK
    /\ sum_balances(Book) = total_supply
    /\ ~installed \/ upgraded => /\ total_supply = 0
                                 /\ \A p \in Principals : Book[p] = 0
    /\ upgraded => installed /\ minter = Nobody

\* A heap without entries.
LEMMA EmptyHeap ==
    /\ is_map(NoEntries, Principals, Amounts)
    /\ is_map(NoEntries, Principals \X Principals, Amounts)
    /\ \A k : balance_at(NoEntries, k) = 0
  BY DEF NoEntries, is_map, balance_at

\* A heap without entries keeps the invariant.
LEMMA NothingHeld ==
    ASSUME balances = NoEntries, total_supply = 0
    PROVE  /\ \A p \in Principals : Book[p] = 0
           /\ sum_balances(Book) = total_supply
<1>1. Book \in [Principals -> Nat] /\ \A p \in Principals : Book[p] = 0
  BY EmptyHeap DEF Book
<1> QED BY <1>1, SumOfNothing

\* The invariant holds at first, and every step keeps it.
LEMMA InitIInv == Init => IInv
<1> SUFFICES ASSUME Init PROVE IInv
  OBVIOUS
<1>1. /\ balances = NoEntries /\ total_supply = 0
      /\ allowances = NoEntries /\ minter = Nobody
      /\ installed = FALSE /\ upgraded = FALSE /\ caller = Nobody
  BY DEF Init
<1>2. TypeOK
  <2>1. /\ is_map(balances, Principals, Amounts)
        /\ is_map(allowances, Principals \X Principals, Amounts)
        /\ total_supply \in Amounts
    BY <1>1, EmptyHeap, MaxAmountAssumption DEF Amounts
  <2>2. installed \in BOOLEAN /\ upgraded \in BOOLEAN
    BY <1>1
  <2> QED BY <1>1, <2>1, <2>2 DEF TypeOK
<1> QED BY <1>1, <1>2, NothingHeld DEF IInv

LEMMA InitInstalls ==
    ASSUME IInv, NEW owner \in Principals, NEW supply \in Amounts,
           NEW new_minter \in Principals \cup {Nobody}, init(owner, supply, new_minter)
    PROVE  IInv'
<1>1. /\ ~installed /\ installed' = TRUE
      /\ total_supply' = supply
      /\ balances' = insert(balances, owner, supply)
      /\ minter' \in Principals
      /\ UNCHANGED <<allowances, upgraded, caller>>
  BY CoreUpdates DEF init
<1>2. /\ TypeOK /\ ~upgraded /\ total_supply = 0
      /\ \A p \in Principals : Book[p] = 0
  BY <1>1 DEF IInv
<1>3. /\ is_map(balances', Principals, Amounts)
      /\ Book' = [Book EXCEPT ![owner] = supply]
  BY <1>1, <1>2, WritesBalance
<1>4. TypeOK'
  BY <1>1, <1>2, <1>3 DEF TypeOK
<1>5. sum_balances(Book') = supply
  <2>1. /\ Book \in [Principals -> Nat] /\ Book' \in [Principals -> Nat] /\ supply \in Nat
        /\ Book'[owner] = supply /\ Book[owner] = 0
        /\ \A x \in Principals \ {owner} : Book'[x] = Book[x]
    BY <1>2, <1>3, BookType, MaxAmountAssumption DEF Amounts
  <2>2. sum_balances(Book) = 0
    BY <1>2, <2>1, SumOfNothing
  <2>3. /\ sum_balances(Book) \in Nat /\ sum_balances(Book') \in Nat
        /\ sum_balances(Book') + Book[owner] = sum_balances(Book) + Book'[owner]
    BY <2>1, PrincipalsAssumption, SumAfterOne
  <2> QED BY <2>1, <2>2, <2>3
<1> QED BY <1>1, <1>2, <1>4, <1>5 DEF IInv

\* What a step of the book does to its sum.
LEMMA BookStepSum ==
    ASSUME TypeOK, TypeOK', BookStep,
           sum_balances(Book) = total_supply
    PROVE  sum_balances(Book') = total_supply'
<1>1. /\ Book \in [Principals -> Nat] /\ Book' \in [Principals -> Nat]
      /\ \A p \in Principals : Book[p] \in Nat
      /\ Amounts \subseteq Nat
  BY BookType, BookTypeNext, MaxAmountAssumption DEF TypeOK, Amounts
<1>2. IsFiniteSet(Principals)
  BY PrincipalsAssumption
<1>3. ASSUME NEW from \in Principals, NEW to \in Principals, NEW amount \in Amounts,
             Moved(from, to, amount)
      PROVE  sum_balances(Book') = total_supply'
  <2>1. /\ from # to /\ amount \in Nat
        /\ Book'[from] = Book[from] - amount /\ Book'[to] = Book[to] + amount
        /\ \A x \in Principals \ {from, to} : Book'[x] = Book[x]
        /\ total_supply' = total_supply
    BY <1>1, <1>3 DEF Moved
  <2>2. /\ sum_balances(Book) \in Nat /\ sum_balances(Book') \in Nat
        /\ sum_balances(Book') + Book[from] + Book[to]
              = sum_balances(Book) + Book'[from] + Book'[to]
    BY <1>1, <1>2, <2>1, SumAfterTwo
  <2> QED BY <1>1, <2>1, <2>2
<1>4. ASSUME NEW k \in Principals, NEW amount \in Amounts,
             Minted(k, amount) \/ Burnt(k, amount)
      PROVE  sum_balances(Book') = total_supply'
  <2>1. /\ amount \in Nat
        /\ \A x \in Principals \ {k} : Book'[x] = Book[x]
        /\ \/ /\ Book'[k] = Book[k] + amount
              /\ total_supply' = total_supply + amount
           \/ /\ Book'[k] = Book[k] - amount
              /\ total_supply' = total_supply - amount
    BY <1>1, <1>4 DEF Minted, Burnt
  <2>2. /\ sum_balances(Book) \in Nat /\ sum_balances(Book') \in Nat
        /\ sum_balances(Book') + Book[k] = sum_balances(Book) + Book'[k]
    BY <1>1, <1>2, <2>1, SumAfterOne
  <2> QED BY <1>1, <2>1, <2>2
<1>5. CASE Kept
  BY <1>5 DEF Kept
<1> QED BY <1>3, <1>4, <1>5 DEF BookStep

\* Without a minter an empty book stays empty.
LEMMA EmptyBookStays ==
    ASSUME TypeOK, BookStep, minter = Nobody,
           total_supply = 0, \A p \in Principals : Book[p] = 0
    PROVE  /\ total_supply' = 0 /\ minter' = Nobody
           /\ \A p \in Principals : Book'[p] = 0
<1>1. Book \in [Principals -> Amounts] /\ minter \notin Principals
  BY BookType, PrincipalsAssumption
<1>2. ASSUME NEW amount \in Amounts, 0 >= amount
      PROVE  amount = 0
  BY <1>2, MaxAmountAssumption DEF Amounts
<1>3. ASSUME NEW from \in Principals, NEW to \in Principals, NEW amount \in Amounts,
             Moved(from, to, amount)
      PROVE  Book' = [Book EXCEPT ![from] = 0, ![to] = 0]
  <2>1. amount = 0
    BY <1>2, <1>3 DEF Moved, transfer_balances_ok
  <2>2. Book[from] - amount = 0 /\ Book[to] + amount = 0
    BY <2>1
  <2> QED BY <1>1, <1>3, <2>2 DEF Moved
<1>4. ASSUME NEW from \in Principals, NEW amount \in Amounts, Burnt(from, amount)
      PROVE  Book' = [Book EXCEPT ![from] = 0] /\ total_supply' = 0
  <2>1. amount = 0
    BY <1>2, <1>4 DEF Burnt
  <2>2. Book[from] - amount = 0 /\ total_supply - amount = 0
    BY <2>1
  <2> QED BY <1>1, <1>4, <2>2 DEF Burnt
<1> QED BY <1>1, <1>3, <1>4 DEF BookStep, Moved, Minted, Burnt, Kept

LEMMA NextIInv == IInv /\ [Next]_vars => IInv'
<1> SUFFICES ASSUME IInv, [Next]_vars PROVE IInv'
  OBVIOUS
<1>1. ASSUME NEW owner \in Principals, NEW supply \in Amounts,
             NEW new_minter \in Principals \cup {Nobody},
             init(owner, supply, new_minter)
      PROVE  IInv'
  BY <1>1, InitInstalls
<1>2. ASSUME NEW who \in Principals, update(who)
      PROVE  IInv'
  <2>1. /\ installed /\ installed' = installed /\ upgraded' = upgraded
        /\ caller' = who
    BY <1>2 DEF update
  <2>2. TypeOK /\ Good(who)
    BY <1>2, UpdateGood DEF IInv
  <2>3. TypeOK'
    BY <2>1, <2>2 DEF TypeOK, Good
  <2>4. sum_balances(Book') = total_supply'
    BY <2>2, <2>3, BookStepSum DEF Good, IInv
  <2>5. upgraded => /\ total_supply' = 0 /\ minter' = Nobody
                    /\ \A p \in Principals : Book'[p] = 0
    BY <2>2, EmptyBookStays DEF Good, IInv
  <2> QED BY <2>1, <2>3, <2>4, <2>5 DEF IInv
<1>3. CASE Upgrade
  <2>1. /\ balances' = NoEntries /\ total_supply' = 0
        /\ allowances' = NoEntries /\ minter' = Nobody
        /\ upgraded' = TRUE /\ caller' = Nobody
        /\ installed /\ installed' = installed
    BY <1>3 DEF Upgrade
  <2>2. TypeOK'
    BY <2>1, EmptyHeap, MaxAmountAssumption DEF TypeOK, Amounts, IInv
  <2>3. /\ \A p \in Principals : Book'[p] = 0
        /\ sum_balances(Book') = total_supply'
    <3>1. Book' \in [Principals -> Nat] /\ \A p \in Principals : Book'[p] = 0
      BY <2>1, EmptyHeap DEF Book
    <3> QED BY <2>1, <3>1, SumOfNothing
  <2> QED BY <2>1, <2>2, <2>3 DEF IInv
<1>4. CASE UNCHANGED vars
  BY <1>4 DEF TypeOK, vars, state, IInv, Book
<1> QED BY <1>1, <1>2, <1>3, <1>4, CoreUpdates DEF Next

LEMMA InvariantIInv == Spec => []IInv
  BY InitIInv, NextIInv, PTL DEF Spec

-----------------------------------------------------------------------------
(* What the canister promises.                                             *)

\* Everything in the canister's heap fits its type, before init, while it is in
\* use and after an upgrade.
THEOREM CanisterTypesCorrect == Spec => []TypeOK
<1>1. IInv => TypeOK
  BY DEF IInv
<1> QED BY <1>1, InvariantIInv, PTL

\* The balances add up to the supply in every state, also after an update that
\* returned an error and was committed, and after an upgrade.
THEOREM CanisterConserves == Spec => []Conservation
<1>1. IInv => Conservation
  BY DEF IInv, Conservation, Book, balance_of
<1> QED BY <1>1, InvariantIInv, PTL

\* Once the canister was upgraded it holds nothing, and no update ever gives
\* it a token or a minter again.
THEOREM NothingOutlivesUpgrade == Spec => []LostByUpgrade
<1>1. IInv => LostByUpgrade
  BY Reads, BookType DEF IInv, LostByUpgrade
<1> QED BY <1>1, InvariantIInv, PTL

\* An allowance shrinks only by what its spender moved out of the owner's
\* account, in a call of the owner, or in an upgrade.
THEOREM AllowancesBuyTokens == Spec => AllowanceBuysTokens
<1> DEFINE Shrinks(o, s) ==
              /\ caller' \notin {o, Nobody}
              /\ allowance_of(o, s)' < allowance_of(o, s)
           Bought(o, s) ==
              /\ caller' = s
              /\ allowance_of(o, s) - allowance_of(o, s)'
                    = balance_of(o) - balance_of(o)'
<1>1. IInv /\ [Next]_vars
         => [\A owner, spender \in Principals :
                Shrinks(owner, spender) => Bought(owner, spender)]_vars
  <2> SUFFICES ASSUME IInv, Next, NEW o \in Principals, NEW s \in Principals, Shrinks(o, s)
               PROVE  Bought(o, s)
    OBVIOUS
  <2>1. /\ allowance_of(o, s) = balance_at(allowances, <<o, s>>)
        /\ allowance_of(o, s)' = balance_at(allowances, <<o, s>>)'
        /\ balance_of(o) = Book[o] /\ balance_of(o)' = Book'[o]
        /\ balance_at(allowances, <<o, s>>) \in Nat
    <3>1. is_map(allowances, Principals \X Principals, Amounts)
      BY DEF TypeOK, IInv
    <3>2. balance_at(allowances, <<o, s>>) \in Nat
      BY <3>1, BalanceType, MaxAmountAssumption DEF Amounts
    <3> QED BY <3>2, CoreUpdates DEF allowance_of, balance_of, Book
  <2>2. ASSUME NEW owner \in Principals, NEW supply \in Amounts,
               NEW new_minter \in Principals \cup {Nobody},
               init(owner, supply, new_minter)
        PROVE  FALSE
    BY <2>1, <2>2 DEF init
  <2>3. ASSUME NEW who \in Principals, update(who)
        PROVE  Bought(o, s)
    <3>1. caller' = who
      BY <2>3 DEF update
    <3>2. AllowancesHeld(who)
      BY <2>3, UpdateGood DEF IInv, Good
    <3> QED BY <2>1, <3>1, <3>2 DEF AllowancesHeld, Charged
  <2>4. CASE Upgrade
    BY <2>4 DEF Upgrade
  <2> QED BY <2>2, <2>3, <2>4 DEF Next
<1> QED BY <1>1, InvariantIInv, PTL DEF Spec, AllowanceBuysTokens

\* The book of the canister, as the abstract ledger sees it.
Ledger == INSTANCE FungibleLedger WITH Accounts <- Principals, balances <- Book

\* The operators of the core on the book.
LEMMA LedgerOnBook ==
    ASSUME NEW from \in Principals, NEW to \in Principals, NEW amount \in Amounts, from # to,
           Book \in [Principals -> Amounts]
    PROVE  /\ Ledger!transfer_balances_ok(Book[from], Book[to], amount)
                <=> transfer_balances_ok(Book[from], Book[to], amount)
           /\ Ledger!state_after_transfer(Book, from, to, amount)
                = [Book EXCEPT ![from] = @ - amount, ![to] = @ + amount]
<1>1. Ledger!insert(Book, from, Book[from] - amount) = [Book EXCEPT ![from] = @ - amount]
  BY DEF Ledger!insert
<1>2. Ledger!insert([Book EXCEPT ![from] = @ - amount], to, Book[to] + amount)
         = [Book EXCEPT ![from] = @ - amount, ![to] = @ + amount]
  BY DEF Ledger!insert
<1> QED BY <1>1, <1>2 DEF Ledger!transfer_balances_ok, transfer_balances_ok,
                          Ledger!state_after_transfer, Ledger!balance_at

\* The same for updates of one balance.
LEMMA LedgerOnOne ==
    ASSUME NEW k \in Principals, NEW amount \in Amounts, Book \in [Principals -> Amounts]
    PROVE  /\ Ledger!Amounts = Amounts
           /\ Ledger!state_after_mint(Book, k, amount) = [Book EXCEPT ![k] = @ + amount]
           /\ Ledger!state_after_burn(Book, k, amount) = [Book EXCEPT ![k] = @ - amount]
  BY DEF Ledger!Amounts, Amounts, Ledger!insert, Ledger!balance_at,
         Ledger!state_after_mint, Ledger!state_after_burn

\* A step of the book is a step of the ledger, or leaves it alone.
LEMMA BookStepOnLedger ==
    ASSUME TypeOK, BookStep
    PROVE  Ledger!Next \/ UNCHANGED <<Book, total_supply>>
<1>1. Book \in [Principals -> Amounts]
  BY BookType
<1>2. ASSUME NEW from \in Principals, NEW to \in Principals, NEW amount \in Amounts,
             Moved(from, to, amount)
      PROVE  Ledger!Next
  <2>1. Ledger!Transfer(from, to, amount)
    BY <1>1, <1>2, LedgerOnBook DEF Moved, Ledger!Transfer
  <2> QED BY <1>1, <2>1, LedgerOnOne DEF Ledger!Next
<1>3. ASSUME NEW to \in Principals, NEW amount \in Amounts, Minted(to, amount)
      PROVE  Ledger!Next
  <2>1. Ledger!Mint(to, amount)
    BY <1>1, <1>3, LedgerOnOne DEF Minted, Ledger!Mint
  <2> QED BY <1>1, <2>1, LedgerOnOne DEF Ledger!Next
<1>4. ASSUME NEW from \in Principals, NEW amount \in Amounts, Burnt(from, amount)
      PROVE  Ledger!Next
  <2>1. Ledger!Burn(from, amount)
    BY <1>1, <1>4, LedgerOnOne DEF Burnt, Ledger!Burn
  <2> QED BY <1>1, <2>1, LedgerOnOne DEF Ledger!Next
<1> QED BY <1>2, <1>3, <1>4 DEF BookStep, Kept

\* Until it is upgraded the canister implements the abstract ledger: init
\* mints into an empty one, and an update is a transfer, a mint or a burn, or
\* leaves the book alone, as one that returned an error does.
THEOREM CanisterImplementsLedgerUntilUpgrade ==
  Spec => /\ Ledger!Init
          /\ [][~upgraded' => [Ledger!Next]_(Ledger!vars)]_vars
<1>1. Init => Ledger!Init
  <2> SUFFICES ASSUME Init PROVE Ledger!Init
    OBVIOUS
  <2>1. /\ total_supply = 0 /\ balances = NoEntries
    BY DEF Init
  <2>2. Book = [a \in Principals |-> 0]
    BY <2>1, EmptyHeap DEF Book
  <2>3. Ledger!Units(Book) = {}
    BY <2>2 DEF Ledger!Units
  <2>4. Ledger!sum_balances(Book) = 0
    BY <2>3, FS_EmptySet DEF Ledger!sum_balances, Ledger!Cardinality, Cardinality
  <2>5. Book \in [Principals -> Ledger!Amounts] /\ total_supply <= MaxAmount
    BY <2>1, <2>2, MaxAmountAssumption DEF Ledger!Amounts
  <2> QED BY <2>1, <2>4, <2>5 DEF Ledger!Init
<1>2. IInv /\ [Next]_vars
         => [~upgraded' => [Ledger!Next]_(Ledger!vars)]_vars
  <2> SUFFICES ASSUME IInv, Next, ~upgraded'
               PROVE  Ledger!Next \/ UNCHANGED <<Book, total_supply>>
    BY DEF Ledger!vars
  <2>1. ASSUME NEW owner \in Principals, NEW supply \in Amounts,
               NEW new_minter \in Principals \cup {Nobody},
               init(owner, supply, new_minter)
        PROVE  Ledger!Next
    <3>1. /\ ~installed /\ total_supply' = supply
          /\ balances' = insert(balances, owner, supply)
      BY <2>1, CoreUpdates DEF init
    <3>2. /\ TypeOK /\ total_supply = 0 /\ Book[owner] = 0
          /\ Book \in [Principals -> Amounts]
          /\ supply \in Nat /\ supply <= MaxAmount
      BY <3>1, BookType, MaxAmountAssumption DEF IInv, Amounts
    <3>3. Book' = [Book EXCEPT ![owner] = supply]
      BY <3>1, <3>2, WritesBalance
    <3>4. Ledger!Mint(owner, supply)
      <4>1. [Book EXCEPT ![owner] = @ + supply] = [Book EXCEPT ![owner] = supply]
        BY <3>2
      <4> QED BY <3>1, <3>2, <3>3, <4>1, LedgerOnOne DEF Ledger!Mint
    <3> QED BY <3>2, <3>4, LedgerOnOne DEF Ledger!Next
  <2>2. ASSUME NEW who \in Principals, update(who)
        PROVE  Ledger!Next \/ UNCHANGED <<Book, total_supply>>
    BY <2>2, UpdateGood, BookStepOnLedger DEF IInv, Good
  <2>3. CASE Upgrade
    BY <2>3 DEF Upgrade
  <2> QED BY <2>1, <2>2, <2>3, CoreUpdates DEF Next
<1> QED BY <1>1, <1>2, InvariantIInv, PTL DEF Spec
=============================================================================
