------------------------ MODULE LineraFungibleProofs ------------------------
(***************************************************************************)
(* The Linera fungible token, for any chains, owners, slots and widths:    *)
(* what is stored fits its type, no step creates tokens, accounts lose     *)
(* tokens only by authorized steps, refunds go to who paid, and unless     *)
(* the supply is too large for one account, no token is ever lost and the  *)
(* whole network implements the abstract ledger.                           *)
(***************************************************************************)
EXTENDS LineraFungible, CoreProofs

-----------------------------------------------------------------------------
(* Updates of one chain's maps.                                            *)

\* The amounts an entry may hold.
Stored == Amounts \ {0}

\* What is read from a map of stored amounts; an absent entry is zero.
LEMMA ReadsAmount == ASSUME NEW K, NEW m, is_map(m, K, Stored), NEW k
                     PROVE  balance_at(m, k) \in Amounts
  BY MaxAmountAssumption DEF is_map, balance_at, Amounts, Stored

LEMMA Saturates == ASSUME NEW x \in Amounts, NEW y \in Amounts
                   PROVE  /\ saturating_add(x, y) \in Amounts
                          /\ x <= saturating_add(x, y)
                          /\ saturating_add(x, y) <= x + y
                          /\ saturating_add(x, 0) = x
                          /\ y # 0 => saturating_add(x, y) # 0
  BY MaxAmountAssumption DEF saturating_add, Amounts

\* store writes one entry, and leaves none at zero.
LEMMA StoreEffect ==
    ASSUME NEW K, NEW m, is_map(m, K, Stored), NEW k \in K, NEW v \in Amounts
    PROVE  /\ is_map(store(m, k, v), K, Stored)
           /\ \A j : balance_at(store(m, k, v), j) = IF j = k THEN v ELSE balance_at(m, j)
<1>1. CASE v = 0
  BY <1>1, RemoveType, RemoveReads DEF store
<1>2. CASE v # 0
  <2>1. v \in Stored
    BY <1>2 DEF Stored
  <2> QED BY <1>2, <2>1, InsertType, InsertReads DEF store
<1> QED BY <1>1, <1>2

\* credit adds to one account, as much as its type has room for.
LEMMA CreditEffect ==
    ASSUME NEW m, is_map(m, Owners, Stored), NEW account \in Owners, NEW amount \in Amounts
    PROVE  /\ is_map(credit(m, account, amount), Owners, Stored)
           /\ \A o : balance_at(credit(m, account, amount), o)
                        = IF o = account THEN saturating_add(balance_at(m, account), amount)
                          ELSE balance_at(m, o)
<1> DEFINE sum == saturating_add(balance_at(m, account), amount)
<1>1. balance_at(m, account) \in Amounts
  BY ReadsAmount
<1>2. CASE amount = 0
  BY <1>1, <1>2, Saturates DEF credit
<1>3. CASE amount # 0
  <2>1. sum \in Stored
    BY <1>1, <1>3, Saturates DEF Stored
  <2>2. credit(m, account, amount) = insert(m, account, sum)
    BY <1>3 DEF credit
  <2> HIDE DEF sum
  <2>3. \A o : balance_at(insert(m, account, sum), o)
                  = IF o = account THEN sum ELSE balance_at(m, o)
    BY InsertReads
  <2> QED BY <2>1, <2>2, <2>3, InsertType DEF sum
<1> QED BY <1>2, <1>3

\* debit takes the amount from one account.
LEMMA DebitEffect ==
    ASSUME NEW m, is_map(m, Owners, Stored), NEW account \in Owners, NEW amount \in Amounts,
           debit_ok(m, account, amount)
    PROVE  /\ is_map(debit(m, account, amount), Owners, Stored)
           /\ \A o : balance_at(debit(m, account, amount), o)
                        = IF o = account THEN balance_at(m, account) - amount
                          ELSE balance_at(m, o)
<1> DEFINE rest == balance_at(m, account) - amount
<1>1. /\ balance_at(m, account) \in Amounts /\ rest \in Amounts
      /\ amount = 0 => rest = balance_at(m, account)
  BY ReadsAmount, MaxAmountAssumption DEF debit_ok, Amounts
<1> HIDE DEF rest
<1>2. CASE amount = 0
  BY <1>1, <1>2 DEF debit, rest
<1>3. CASE amount # 0
  BY <1>1, <1>3, StoreEffect DEF debit, rest
<1> QED BY <1>2, <1>3

\* A debit followed by a credit of the same account changes nothing.
LEMMA DebitThenCredit ==
    ASSUME NEW m, is_map(m, Owners, Stored), NEW account \in Owners, NEW amount \in Amounts,
           debit_ok(m, account, amount), NEW to \in Owners
    PROVE  LET after == credit(debit(m, account, amount), to, amount)
           IN  /\ is_map(after, Owners, Stored)
               /\ \A o : balance_at(after, o)
                     = IF to = account THEN balance_at(m, o)
                       ELSE IF o = account THEN balance_at(m, account) - amount
                       ELSE IF o = to THEN saturating_add(balance_at(m, to), amount)
                       ELSE balance_at(m, o)
<1> DEFINE d == debit(m, account, amount)
           b == balance_at(m, account)
<1>1. /\ is_map(d, Owners, Stored)
      /\ \A o : balance_at(d, o) = IF o = account THEN b - amount ELSE balance_at(m, o)
  BY DebitEffect
<1>2. /\ is_map(credit(d, to, amount), Owners, Stored)
      /\ \A o : balance_at(credit(d, to, amount), o)
                   = IF o = to THEN saturating_add(balance_at(d, to), amount)
                     ELSE balance_at(d, o)
  <2> HIDE DEF d
  <2> QED BY <1>1, CreditEffect
<1>3. saturating_add(b - amount, amount) = b
  BY ReadsAmount, MaxAmountAssumption DEF debit_ok, saturating_add, Amounts
<1> HIDE DEF d
<1>4. ASSUME NEW o
      PROVE  balance_at(credit(d, to, amount), o)
                = IF to = account THEN balance_at(m, o)
                  ELSE IF o = account THEN balance_at(m, account) - amount
                  ELSE IF o = to THEN saturating_add(balance_at(m, to), amount)
                  ELSE balance_at(m, o)
  BY <1>1, <1>2, <1>3
<1> QED BY <1>2, <1>4 DEF d

-----------------------------------------------------------------------------
(* Who holds the tokens.                                                   *)

\* Chains whose accounts, and mailboxes whose messages, are well typed.
AccountsOK(acc) ==
    DOMAIN acc = Chains /\ \A c \in Chains : is_map(acc[c], Owners, Stored)
AllowancesOK(allowed) ==
    /\ DOMAIN allowed = Chains
    /\ \A c \in Chains : is_map(allowed[c], Owners \X Owners, Stored)
Mailboxes == [Slots -> Envelope \cup {NoMessage}]

\* What everybody holds, given the accounts and the messages.
TokensIn(e) == IF IsCredit(e) THEN e.message.amount ELSE 0
held_in(acc, messages) ==
    [x \in Holders |-> IF x \in Slots THEN TokensIn(messages[x])
                       ELSE balance_at(acc[x[1]], x[2])]

LEMMA HoldingsHeld ==
    /\ Holdings = held_in(accounts, mail)
    /\ Holdings' = held_in(accounts', mail')
BY DEF Holdings, held_in, InFlight, TokensIn, Balance

\* The parts of a message in transit.
LEMMA MessageParts ==
    ASSUME NEW e \in Envelope
    PROVE  /\ e # NoMessage
           /\ e.dest \in Chains /\ e.origin \in Chains /\ e.signer \in Owners
           /\ e.tracked \in BOOLEAN /\ e.bouncing \in BOOLEAN
           /\ e.message \in Message /\ e.message.amount \in Amounts
           /\ IsCredit(e) => /\ e.message.target \in Owners
                             /\ e.message.source \in Owners
                             /\ receiver(e) \in Owners
           /\ IsWithdraw(e) => /\ e.message.owner \in Owners
                               /\ e.message.target_account \in Account
           /\ TokensIn(e) \in Amounts
<1>1. e # NoMessage
  BY NoMessageAssumption
<1>2. /\ e.dest \in Chains /\ e.origin \in Chains /\ e.signer \in Owners
      /\ e.tracked \in BOOLEAN /\ e.bouncing \in BOOLEAN /\ e.message \in Message
  BY DEF Envelope
<1>3. /\ e.message.amount \in Amounts
      /\ e.message.type = "Credit" => /\ e.message.target \in Owners
                                      /\ e.message.source \in Owners
      /\ e.message.type = "Withdraw" => /\ e.message.owner \in Owners
                                        /\ e.message.target_account \in Account
  BY <1>2 DEF Message
<1>4. 0 \in Amounts
  BY MaxAmountAssumption DEF Amounts
<1> QED BY <1>1, <1>2, <1>3, <1>4 DEF IsCredit, IsWithdraw, receiver, TokensIn

LEMMA HeldIn ==
    ASSUME NEW acc, AccountsOK(acc), NEW messages \in Mailboxes
    PROVE  /\ held_in(acc, messages) \in [Holders -> Amounts]
           /\ \A c \in Chains, o \in Owners :
                 /\ <<c, o>> \in Holders /\ <<c, o>> \notin Slots
                 /\ held_in(acc, messages)[<<c, o>>] = balance_at(acc[c], o)
           /\ \A s \in Slots : /\ s \in Holders
                               /\ held_in(acc, messages)[s] = TokensIn(messages[s])
<1>1. ASSUME NEW c \in Chains, NEW o \in Owners
      PROVE  /\ <<c, o>> \in Holders /\ <<c, o>> \notin Slots
             /\ held_in(acc, messages)[<<c, o>>] = balance_at(acc[c], o)
             /\ balance_at(acc[c], o) \in Amounts
  BY SlotsAssumption, ReadsAmount DEF held_in, Holders, AccountsOK
<1>2. ASSUME NEW s \in Slots
      PROVE  /\ s \in Holders
             /\ held_in(acc, messages)[s] = TokensIn(messages[s])
             /\ TokensIn(messages[s]) \in Amounts
  <2>1. messages[s] \in Envelope \/ messages[s] = NoMessage
    BY DEF Mailboxes
  <2>2. TokensIn(messages[s]) \in Amounts
    BY <2>1, MessageParts, MaxAmountAssumption DEF TokensIn, IsCredit, Amounts
  <2> QED BY <2>2 DEF held_in, Holders
<1>3. ASSUME NEW x \in Holders
      PROVE  held_in(acc, messages)[x] \in Amounts
  <2>1. CASE x \in Slots
    BY <1>2, <2>1
  <2>2. CASE x \notin Slots
    <3>1. PICK c \in Chains, o \in Owners : x = <<c, o>>
      BY <2>2 DEF Holders
    <3> QED BY <1>1, <3>1
  <2> QED BY <2>1, <2>2
<1>4. held_in(acc, messages) \in [Holders -> Amounts]
  BY <1>3 DEF held_in
<1> QED BY <1>1, <1>2, <1>4

\* The same after a step.
LEMMA HeldInNext ==
    ASSUME AccountsOK(accounts'), mail' \in Mailboxes
    PROVE  /\ held_in(accounts', mail') \in [Holders -> Amounts]
           /\ \A c \in Chains, o \in Owners :
                 held_in(accounts', mail')[<<c, o>>] = balance_at(accounts'[c], o)
           /\ \A s \in Slots : held_in(accounts', mail')[s] = TokensIn(mail'[s])
<1> DEFINE acc == accounts'
           messages == mail'
<1>1. AccountsOK(acc) /\ messages \in Mailboxes
  OBVIOUS
<1> HIDE DEF acc, messages
<1>2. /\ held_in(acc, messages) \in [Holders -> Amounts]
      /\ \A c \in Chains, o \in Owners :
            held_in(acc, messages)[<<c, o>>] = balance_at(acc[c], o)
      /\ \A s \in Slots : held_in(acc, messages)[s] = TokensIn(messages[s])
  BY <1>1, HeldIn
<1> QED BY <1>2 DEF acc, messages

LEMMA HoldersFinite == IsFiniteSet(Holders)
<1>1. IsFiniteSet(Chains \X Owners)
  BY SetsAssumption, FS_Product
<1> QED BY <1>1, SetsAssumption, FS_Union DEF Holders

\* amount goes from one holder to another, who receives as much of it as fits.
Moves(before, after, from, to, amount) ==
    /\ from # to
    /\ before[from] >= amount
    /\ after[from] = before[from] - amount
    /\ after[to] = saturating_add(before[to], amount)
    /\ \A x \in Holders \ {from, to} : after[x] = before[x]

\* A step moves tokens between two holders, or none.
Moved(before, after) ==
    \/ after = before
    \/ \E from, to \in Holders, amount \in Amounts :
          Moves(before, after, from, to, amount)

\* What the last step of a transfer does, given who pays: only the payer's
\* balance decreases, a Credit sent names the payer and what was paid, and
\* the tokens are where they were, or with whom they are meant for.
Finished(c, owner, amount, rest) ==
    /\ AccountsOK(accounts') /\ mail' \in Mailboxes
    /\ \A k \in Chains, o \in Owners :
          balance_at(accounts'[k], o) < Balance(k, o) =>
             k = c /\ o = owner /\ Balance(k, o) = balance_at(accounts'[k], o) + amount
    /\ \A s \in Slots : mail'[s] # rest[s] =>
          /\ rest[s] = NoMessage
          /\ IsCredit(mail'[s]) /\ mail'[s].tracked
          /\ mail'[s].origin = c /\ mail'[s].message.source = owner
          /\ Balance(c, owner) = balance_at(accounts'[c], owner) + mail'[s].message.amount
    /\ Moved(held_in(accounts, rest), held_in(accounts', mail'))

\* The part of TypeOK that says what is stored and sent.
LEMMA StateOK == TypeOK <=> /\ AccountsOK(accounts) /\ AllowancesOK(allowances)
                            /\ mail \in Mailboxes
                            /\ supply \in 1 .. MaxSupply
                            /\ signer \in Owners \cup {NoSigner}
BY DEF TypeOK, AccountsOK, AllowancesOK, Mailboxes, Stored

LEMMA FinishLocally ==
    ASSUME AccountsOK(accounts), NEW c \in Chains, NEW owner \in Owners, NEW to \in Owners,
           NEW amount \in Amounts, NEW rest \in Mailboxes,
           debit_ok(accounts[c], owner, amount),
           accounts' = [accounts EXCEPT ![c] =
                           credit(debit(accounts[c], owner, amount), to, amount)],
           mail' = rest
    PROVE  Finished(c, owner, amount, rest)
<1> DEFINE m == accounts[c]
           after == credit(debit(m, owner, amount), to, amount)
           before_h == held_in(accounts, rest)
           after_h == held_in(accounts', mail')
<1>1. /\ is_map(m, Owners, Stored)
      /\ \A k \in Chains : accounts'[k] = IF k = c THEN after ELSE accounts[k]
      /\ DOMAIN accounts' = Chains
  BY DEF AccountsOK
<1>2. /\ is_map(after, Owners, Stored)
      /\ \A o : balance_at(after, o)
                   = IF to = owner THEN balance_at(m, o)
                     ELSE IF o = owner THEN balance_at(m, owner) - amount
                     ELSE IF o = to THEN saturating_add(balance_at(m, to), amount)
                     ELSE balance_at(m, o)
  BY <1>1, DebitThenCredit
<1> HIDE DEF after
<1>3. AccountsOK(accounts')
  BY <1>1, <1>2 DEF AccountsOK
<1>4. ASSUME NEW k \in Chains, NEW o \in Owners
      PROVE  /\ balance_at(accounts[k], o) \in Amounts
             /\ balance_at(accounts'[k], o)
                  = IF k # c \/ to = owner THEN balance_at(accounts[k], o)
                    ELSE IF o = owner THEN balance_at(m, owner) - amount
                    ELSE IF o = to THEN saturating_add(balance_at(m, to), amount)
                    ELSE balance_at(accounts[k], o)
  BY <1>1, <1>2, ReadsAmount DEF AccountsOK
<1>5. ASSUME NEW k \in Chains, NEW o \in Owners,
             balance_at(accounts'[k], o) < Balance(k, o)
      PROVE  k = c /\ o = owner /\ Balance(k, o) = balance_at(accounts'[k], o) + amount
  <2>1. balance_at(accounts[k], o) \in Nat /\ amount \in Nat
    BY <1>4, MaxAmountAssumption DEF Amounts
  <2>2. k = c /\ to # owner
    BY <1>4, <1>5, <2>1 DEF Balance
  <2>3. o = owner
    <3>1. balance_at(m, o) <= saturating_add(balance_at(m, o), amount)
      BY <1>4, Saturates
    <3>2. saturating_add(balance_at(m, o), amount) \in Amounts
      BY <1>4, Saturates
    <3> QED BY <1>4, <1>5, <2>1, <2>2, <3>1, <3>2, MaxAmountAssumption DEF Balance, Amounts
  <2> QED BY <1>4, <2>1, <2>2, <2>3 DEF Balance
<1>6. Moved(before_h, after_h)
  <2>1. /\ before_h \in [Holders -> Amounts] /\ after_h \in [Holders -> Amounts]
        /\ \A s \in Slots : after_h[s] = before_h[s]
        /\ \A k \in Chains, o \in Owners :
              /\ <<k, o>> \in Holders
              /\ before_h[<<k, o>>] = balance_at(accounts[k], o)
              /\ after_h[<<k, o>>] = balance_at(accounts'[k], o)
    <3>1. /\ before_h \in [Holders -> Amounts]
          /\ \A k \in Chains, o \in Owners :
                <<k, o>> \in Holders /\ before_h[<<k, o>>] = balance_at(accounts[k], o)
          /\ \A s \in Slots : before_h[s] = TokensIn(rest[s])
      BY HeldIn
    <3>2. /\ after_h \in [Holders -> Amounts]
          /\ \A k \in Chains, o \in Owners :
                after_h[<<k, o>>] = balance_at(accounts'[k], o)
          /\ \A s \in Slots : after_h[s] = TokensIn(rest[s])
      BY <1>3, HeldInNext
    <3> QED BY <3>1, <3>2
  <2> HIDE DEF before_h, after_h
  <2>2. CASE to = owner
    <3>1. \A x \in Holders : after_h[x] = before_h[x]
      BY <1>4, <2>1, <2>2 DEF Holders
    <3>2. after_h = before_h
      BY <2>1, <3>1
    <3> QED BY <3>2 DEF Moved
  <2>3. CASE to # owner
    <3>1. ASSUME NEW x \in Holders \ {<<c, owner>>, <<c, to>>}
          PROVE  after_h[x] = before_h[x]
      <4>1. CASE x \in Slots
        BY <2>1, <4>1
      <4>2. CASE x \notin Slots
        <5>1. PICK k \in Chains, o \in Owners : x = <<k, o>>
          BY <4>2 DEF Holders
        <5> QED BY <1>4, <2>1, <3>1, <5>1
      <4> QED BY <4>1, <4>2
    <3>2. Moves(before_h, after_h, <<c, owner>>, <<c, to>>, amount)
      BY <1>4, <2>1, <2>3, <3>1 DEF Moves, debit_ok
    <3> QED BY <2>1, <3>2 DEF Moved
  <2> QED BY <2>2, <2>3
<1> QED BY <1>3, <1>5, <1>6 DEF Finished

LEMMA FinishRemotely ==
    ASSUME AccountsOK(accounts), NEW c \in Chains, NEW owner \in Owners,
           NEW amount \in Amounts, NEW rest \in Mailboxes, NEW s \in Slots,
           rest[s] = NoMessage, NEW e \in Envelope,
           debit_ok(accounts[c], owner, amount),
           IsCredit(e), e.tracked, e.origin = c,
           e.message.source = owner, e.message.amount = amount,
           accounts' = [accounts EXCEPT ![c] = debit(accounts[c], owner, amount)],
           mail' = [rest EXCEPT ![s] = e]
    PROVE  Finished(c, owner, amount, rest)
<1> DEFINE m == accounts[c]
           after == debit(m, owner, amount)
           before_h == held_in(accounts, rest)
           after_h == held_in(accounts', mail')
<1>1. /\ is_map(m, Owners, Stored)
      /\ \A k \in Chains : accounts'[k] = IF k = c THEN after ELSE accounts[k]
      /\ DOMAIN accounts' = Chains
  BY DEF AccountsOK
<1>2. /\ is_map(after, Owners, Stored)
      /\ \A o : balance_at(after, o)
                   = IF o = owner THEN balance_at(m, owner) - amount ELSE balance_at(m, o)
  BY <1>1, DebitEffect
<1> HIDE DEF after
<1>3. /\ AccountsOK(accounts')
      /\ mail' \in Mailboxes
      /\ \A x \in Slots : mail'[x] = IF x = s THEN e ELSE rest[x]
  BY <1>1, <1>2 DEF AccountsOK, Mailboxes
<1>4. ASSUME NEW k \in Chains, NEW o \in Owners
      PROVE  /\ balance_at(accounts[k], o) \in Nat
             /\ balance_at(accounts'[k], o)
                  = IF k = c /\ o = owner THEN balance_at(accounts[k], o) - amount
                    ELSE balance_at(accounts[k], o)
  BY <1>1, <1>2, ReadsAmount, MaxAmountAssumption DEF AccountsOK, Amounts
<1>5. amount \in Nat
  BY MaxAmountAssumption DEF Amounts
<1>6. \A k \in Chains, o \in Owners :
         balance_at(accounts'[k], o) < Balance(k, o) =>
            k = c /\ o = owner /\ Balance(k, o) = balance_at(accounts'[k], o) + amount
  BY <1>4, <1>5 DEF Balance
<1>7. \A x \in Slots : mail'[x] # rest[x] =>
         /\ rest[x] = NoMessage
         /\ IsCredit(mail'[x]) /\ mail'[x].tracked
         /\ mail'[x].origin = c /\ mail'[x].message.source = owner
         /\ Balance(c, owner) = balance_at(accounts'[c], owner) + mail'[x].message.amount
  BY <1>3, <1>4, <1>5 DEF Balance
<1>8. Moved(before_h, after_h)
  <2>1. /\ before_h \in [Holders -> Amounts]
        /\ \A k \in Chains, o \in Owners :
              /\ <<k, o>> \in Holders /\ <<k, o>> \notin Slots
              /\ before_h[<<k, o>>] = balance_at(accounts[k], o)
        /\ \A x \in Slots : x \in Holders /\ before_h[x] = TokensIn(rest[x])
    BY HeldIn
  <2>2. /\ after_h \in [Holders -> Amounts]
        /\ \A k \in Chains, o \in Owners :
              after_h[<<k, o>>] = balance_at(accounts'[k], o)
        /\ \A x \in Slots : after_h[x] = TokensIn(mail'[x])
    BY <1>3, HeldInNext
  <2> HIDE DEF before_h, after_h
  <2>3. /\ before_h[s] = 0 /\ after_h[s] = amount
        /\ saturating_add(0, amount) = amount
    BY <1>3, <2>1, <2>2, MaxAmountAssumption DEF TokensIn, IsCredit, saturating_add, Amounts
  <2>4. ASSUME NEW x \in Holders \ {<<c, owner>>, s}
        PROVE  after_h[x] = before_h[x]
    <3>1. CASE x \in Slots
      BY <1>3, <2>1, <2>2, <2>4, <3>1
    <3>2. CASE x \notin Slots
      <4>1. PICK k \in Chains, o \in Owners : x = <<k, o>>
        BY <3>2 DEF Holders
      <4> QED BY <1>4, <2>1, <2>2, <2>4, <4>1
    <3> QED BY <3>1, <3>2
  <2>5. Moves(before_h, after_h, <<c, owner>>, s, amount)
    BY <1>4, <2>1, <2>2, <2>3, <2>4 DEF Moves, debit_ok
  <2> QED BY <2>1, <2>5 DEF Moved
<1> QED BY <1>3, <1>6, <1>7, <1>8 DEF Finished

\* The last step of a transfer, to any account.
LEMMA Finish ==
    ASSUME AccountsOK(accounts), NEW c \in Chains, NEW who \in Owners, NEW owner \in Owners,
           NEW amount \in Amounts, NEW rest \in Mailboxes, NEW target_account \in Account,
           debit_ok(accounts[c], owner, amount),
           finish_transfer_to_account(c, who, debit(accounts[c], owner, amount),
                                      rest, amount, target_account, owner)
    PROVE  Finished(c, owner, amount, rest)
<1>1. target_account.chain_id \in Chains /\ target_account.owner \in Owners
  BY DEF Account
<1>2. CASE target_account.chain_id = c
  BY <1>1, <1>2, FinishLocally DEF finish_transfer_to_account
<1>3. CASE target_account.chain_id # c
  <2> DEFINE message == [type |-> "Credit", amount |-> amount,
                         target |-> target_account.owner, source |-> owner]
             e == [message |-> message, origin |-> c, dest |-> target_account.chain_id,
                   signer |-> who, tracked |-> TRUE, bouncing |-> FALSE]
  <2>1. /\ accounts' = [accounts EXCEPT ![c] = debit(accounts[c], owner, amount)]
        /\ Send(rest, e)
    BY <1>3 DEF finish_transfer_to_account
  <2>2. PICK s \in Slots : rest[s] = NoMessage /\ mail' = [rest EXCEPT ![s] = e]
    BY <2>1 DEF Send
  <2>3. message \in Message
    BY <1>1 DEF Message
  <2>4. e \in Envelope
    BY <1>1, <2>3 DEF Envelope
  <2>5. /\ e.message.type = "Credit" /\ e.tracked /\ e.origin = c
        /\ e.message.source = owner /\ e.message.amount = amount
    OBVIOUS
  <2> HIDE DEF e
  <2>6. IsCredit(e)
    BY <2>4, <2>5, NoMessageAssumption DEF IsCredit
  <2> QED BY <2>1, <2>2, <2>4, <2>5, <2>6, FinishRemotely
<1> QED BY <1>2, <1>3

-----------------------------------------------------------------------------
(* Every step.                                                             *)

\* A Credit is always tracked: one that is rejected comes back.
Tracked(messages) == \A s \in Slots : IsCredit(messages[s]) => messages[s].tracked

IInv == TypeOK /\ Tracked(mail)

\* PayerIsRefunded, for one step.
RefundsPayer ==
    \A s \in Slots :
       /\ IsCredit(mail'[s]) /\ ~mail'[s].bouncing /\ mail'[s] # mail[s] =>
             LET e == mail'[s]
             IN  Balance(e.origin, e.message.source)
                    = balance_at(accounts'[e.origin], e.message.source)
                         + e.message.amount
       /\ IsCredit(mail[s]) /\ mail[s].bouncing /\ mail'[s] # mail[s] =>
             LET e == mail[s]
             IN  balance_at(accounts'[e.dest], e.message.source)
                    = saturating_add(Balance(e.dest, e.message.source),
                                     e.message.amount)

\* What every step does to the accounts and the messages.
StepOK ==
    /\ AccountsOK(accounts') /\ mail' \in Mailboxes /\ Tracked(mail')
    /\ Moved(Holdings, Holdings')
    /\ RefundsPayer

\* A message that is not a Credit leaves without tokens.
LEMMA ConsumedEffect ==
    ASSUME TypeOK, NEW s \in Slots
    PROVE  /\ Consumed(s) \in Mailboxes
           /\ \A x \in Slots : Consumed(s)[x] = IF x = s THEN NoMessage ELSE mail[x]
           /\ ~IsCredit(mail[s]) => held_in(accounts, Consumed(s)) = held_in(accounts, mail)
<1>1. mail \in Mailboxes
  BY StateOK
<1>2. /\ Consumed(s) \in Mailboxes
      /\ \A x \in Slots : Consumed(s)[x] = IF x = s THEN NoMessage ELSE mail[x]
  BY <1>1 DEF Consumed, Mailboxes
<1>3. ASSUME ~IsCredit(mail[s])
      PROVE  held_in(accounts, Consumed(s)) = held_in(accounts, mail)
  <2>1. \A x \in Slots : TokensIn(Consumed(s)[x]) = TokensIn(mail[x])
    BY <1>2, <1>3 DEF TokensIn, IsCredit
  <2> QED BY <2>1 DEF held_in
<1> QED BY <1>2, <1>3

\* A transfer, a local claim and a Withdraw that is executed.
LEMMA FinishedOK ==
    ASSUME IInv, NEW c \in Chains, NEW owner \in Owners, NEW amount \in Amounts,
           NEW rest \in Mailboxes,
           rest = mail \/ \E s \in Slots : IsWithdraw(mail[s]) /\ rest = Consumed(s),
           Finished(c, owner, amount, rest)
    PROVE  StepOK
<1>1. \A x \in Slots : \/ rest[x] = mail[x]
                       \/ rest[x] = NoMessage /\ ~IsCredit(mail[x])
  BY ConsumedEffect DEF IInv, IsWithdraw, IsCredit
<1>2. held_in(accounts, rest) = Holdings
  BY ConsumedEffect, HoldingsHeld DEF IInv, IsWithdraw, IsCredit
<1>3. Moved(Holdings, Holdings')
  BY <1>2, HoldingsHeld DEF Finished
<1>4. ASSUME NEW x \in Slots
      PROVE  /\ mail'[x] # rest[x] =>
                   /\ rest[x] = NoMessage
                   /\ IsCredit(mail'[x]) /\ mail'[x].tracked
                   /\ mail'[x].origin = c /\ mail'[x].message.source = owner
                   /\ Balance(c, owner)
                        = balance_at(accounts'[c], owner) + mail'[x].message.amount
             /\ ~IsCredit(NoMessage)
  BY DEF Finished, IsCredit
<1>5. Tracked(mail')
  <2> SUFFICES ASSUME NEW x \in Slots, IsCredit(mail'[x]) PROVE mail'[x].tracked
    BY DEF Tracked
  <2>1. CASE mail'[x] # rest[x]
    BY <1>4, <2>1
  <2>2. CASE mail'[x] = rest[x]
    <3>1. mail'[x] = mail[x]
      BY <1>1, <1>4, <2>2
    <3>2. IsCredit(mail[x])
      BY <3>1
    <3> QED BY <3>1, <3>2 DEF IInv, Tracked
  <2> QED BY <2>1, <2>2
<1>6. ASSUME NEW x \in Slots, IsCredit(mail'[x]), mail'[x] # mail[x]
      PROVE  mail'[x] # rest[x]
  BY <1>1, <1>4, <1>6
<1>7. ASSUME NEW x \in Slots, IsCredit(mail[x])
      PROVE  mail'[x] = mail[x]
  <2>1. rest[x] = mail[x] /\ rest[x] # NoMessage
    BY <1>1, <1>7 DEF IsCredit
  <2> QED BY <1>4, <2>1
<1>8. RefundsPayer
  BY <1>4, <1>6, <1>7 DEF RefundsPayer
<1> QED BY <1>3, <1>5, <1>8 DEF StepOK, Finished

\* A step that leaves the accounts alone and puts no tokens in transit.
LEMMA QuietOK ==
    ASSUME IInv, UNCHANGED accounts, mail' \in Mailboxes,
           \A x \in Slots : \/ mail'[x] = mail[x]
                            \/ /\ TokensIn(mail'[x]) = TokensIn(mail[x])
                               /\ IsCredit(mail'[x]) => mail'[x].tracked /\ mail'[x].bouncing
                               /\ IsCredit(mail[x]) => ~mail[x].bouncing
    PROVE  StepOK
<1>1. AccountsOK(accounts')
  BY StateOK DEF IInv
<1>2. Tracked(mail')
  <2> SUFFICES ASSUME NEW x \in Slots, IsCredit(mail'[x]) PROVE mail'[x].tracked
    BY DEF Tracked
  <2>1. CASE mail'[x] = mail[x]
    <3>1. IsCredit(mail[x])
      BY <2>1
    <3> QED BY <2>1, <3>1 DEF IInv, Tracked
  <2> QED BY <2>1
<1>3. held_in(accounts', mail') = held_in(accounts, mail)
  <2>1. \A x \in Slots : TokensIn(mail'[x]) = TokensIn(mail[x])
    OBVIOUS
  <2> QED BY <2>1 DEF held_in
<1>4. Moved(Holdings, Holdings')
  BY <1>3, HoldingsHeld DEF Moved
<1>5. RefundsPayer
  BY DEF RefundsPayer
<1> QED BY <1>1, <1>2, <1>4, <1>5 DEF StepOK

\* The steps, as the actions of the specification.
LEMMA DebitAndFinishOK ==
    ASSUME IInv, NEW c \in Chains, NEW who \in Owners, NEW owner \in Owners,
           NEW amount \in Amounts, NEW target_account \in Account, NEW rest \in Mailboxes,
           rest = mail \/ \E s \in Slots : IsWithdraw(mail[s]) /\ rest = Consumed(s),
           DebitAndFinish(c, who, owner, rest, amount, target_account)
    PROVE  /\ Finished(c, owner, amount, rest)
           /\ StepOK
<1>1. AccountsOK(accounts)
  BY StateOK DEF IInv
<1>2. Finished(c, owner, amount, rest)
  BY <1>1, Finish DEF DebitAndFinish
<1> QED BY <1>2, FinishedOK

LEMMA TransferFromFinished ==
    ASSUME IInv, NEW c \in Chains, NEW who \in Owners, NEW owner \in Owners,
           NEW spender \in Owners, NEW amount \in Amounts, NEW target_account \in Account,
           TransferFrom(c, who, owner, spender, amount, target_account)
    PROVE  /\ Finished(c, owner, amount, mail)
           /\ StepOK
<1>1. AccountsOK(accounts) /\ mail \in Mailboxes
  BY StateOK DEF IInv
<1>2. debit_ok(accounts[c], owner, amount)
  <2>1. balance_at(accounts[c], owner) \in Amounts
    BY <1>1, ReadsAmount DEF AccountsOK
  <2> QED BY <2>1, MaxAmountAssumption
         DEF TransferFrom, debit_for_transfer_from_ok, debit_ok, Amounts
<1>3. Finished(c, owner, amount, mail)
  BY <1>1, <1>2, Finish DEF TransferFrom
<1> QED BY <1>1, <1>3, FinishedOK

\* One allowance shrinks by an amount, and no other changes.
UsesAllowance(c, owner, spender, amount) ==
    \A k \in Chains, o, p \in Owners :
       /\ Allowance(k, o, p) \in Nat
       /\ Allowance(k, o, p)' = IF k = c /\ o = owner /\ p = spender
                                THEN Allowance(k, o, p) - amount
                                ELSE Allowance(k, o, p)

\* The allowances after a transfer from one of them.
LEMMA AllowanceUsed ==
    ASSUME TypeOK, NEW c \in Chains, NEW who \in Owners, NEW owner \in Owners,
           NEW spender \in Owners, NEW amount \in Amounts, NEW target_account \in Account,
           TransferFrom(c, who, owner, spender, amount, target_account)
    PROVE  /\ AllowancesOK(allowances')
           /\ UsesAllowance(c, owner, spender, amount)
<1> DEFINE m == allowances[c]
           old == balance_at(m, <<owner, spender>>)
           after == allowance_after_transfer_from(m, owner, spender, amount)
<1>1. /\ AllowancesOK(allowances) /\ DOMAIN allowances = Chains
      /\ is_map(m, Owners \X Owners, Stored)
  BY StateOK DEF AllowancesOK
<1>2. \A k \in Chains, o, p \in Owners : balance_at(allowances[k], <<o, p>>) \in Amounts
  BY <1>1, ReadsAmount DEF AllowancesOK
<1>3. /\ DOMAIN allowances' = Chains
      /\ \A k \in Chains : allowances'[k] = IF k = c THEN after ELSE allowances[k]
  BY <1>1 DEF TransferFrom
<1>4. /\ is_map(after, Owners \X Owners, Stored)
      /\ \A j : balance_at(after, j) = IF j = <<owner, spender>> THEN old - amount
                                       ELSE balance_at(m, j)
  <2>1. CASE amount = 0
    BY <1>1, <1>2, <2>1, MaxAmountAssumption DEF allowance_after_transfer_from, Amounts
  <2>2. CASE amount # 0
    <3>1. old - amount \in Amounts
      BY <1>2, <2>2, MaxAmountAssumption DEF TransferFrom, debit_for_transfer_from_ok, Amounts
    <3>2. after = store(m, <<owner, spender>>, old - amount)
      BY <2>2 DEF allowance_after_transfer_from
    <3> DEFINE pair == <<owner, spender>>
               left == old - amount
    <3>3. pair \in Owners \X Owners
      OBVIOUS
    <3>4. left \in Amounts
      BY <3>1
    <3> HIDE DEF after, pair, left
    <3>5. /\ is_map(store(m, pair, left), Owners \X Owners, Stored)
          /\ \A j : balance_at(store(m, pair, left), j) = IF j = pair THEN left
                                                         ELSE balance_at(m, j)
      BY <1>1, <3>3, <3>4, StoreEffect
    <3> QED BY <3>2, <3>5 DEF pair, left
  <2> QED BY <2>1, <2>2
<1> HIDE DEF after
<1>5. AllowancesOK(allowances')
  BY <1>1, <1>3, <1>4 DEF AllowancesOK
<1>6. ASSUME NEW k \in Chains, NEW o \in Owners, NEW p \in Owners
      PROVE  balance_at(allowances'[k], <<o, p>>)
                = IF k = c /\ o = owner /\ p = spender
                  THEN balance_at(allowances[k], <<o, p>>) - amount
                  ELSE balance_at(allowances[k], <<o, p>>)
  BY <1>3, <1>4
<1>7. UsesAllowance(c, owner, spender, amount)
  <2> SUFFICES ASSUME NEW k \in Chains, NEW o \in Owners, NEW p \in Owners
               PROVE  /\ Allowance(k, o, p) \in Nat
                      /\ Allowance(k, o, p)'
                           = IF k = c /\ o = owner /\ p = spender
                             THEN Allowance(k, o, p) - amount
                             ELSE Allowance(k, o, p)
    BY DEF UsesAllowance
  <2>1. Allowance(k, o, p) \in Nat
    BY <1>2, MaxAmountAssumption DEF Allowance, Amounts
  <2>2. /\ Allowance(k, o, p) = balance_at(allowances[k], <<o, p>>)
        /\ Allowance(k, o, p)' = balance_at(allowances'[k], <<o, p>>)
    BY DEF Allowance
  <2> QED BY <1>6, <2>1, <2>2
<1> QED BY <1>5, <1>7

\* And after an approval.
LEMMA AllowanceSet ==
    ASSUME TypeOK, NEW c \in Chains, NEW who \in Owners, NEW owner \in Owners,
           NEW spender \in Owners, NEW allowance \in Amounts,
           Approve(c, who, owner, spender, allowance)
    PROVE  /\ AllowancesOK(allowances')
           /\ \A k \in Chains, o, p \in Owners :
                 o # owner => balance_at(allowances'[k], <<o, p>>)
                                = balance_at(allowances[k], <<o, p>>)
<1> DEFINE m == allowances[c]
           after == store(m, <<owner, spender>>, allowance)
<1>1. /\ AllowancesOK(allowances) /\ DOMAIN allowances = Chains
      /\ is_map(m, Owners \X Owners, Stored)
  BY StateOK DEF AllowancesOK
<1>2. /\ DOMAIN allowances' = Chains
      /\ \A k \in Chains : allowances'[k] = IF k = c THEN after ELSE allowances[k]
  BY <1>1 DEF Approve, approve
<1>3. /\ is_map(after, Owners \X Owners, Stored)
      /\ \A j : balance_at(after, j) = IF j = <<owner, spender>> THEN allowance
                                       ELSE balance_at(m, j)
  <2> DEFINE pair == <<owner, spender>>
  <2>1. pair \in Owners \X Owners
    OBVIOUS
  <2> HIDE DEF pair
  <2>2. /\ is_map(store(m, pair, allowance), Owners \X Owners, Stored)
        /\ \A j : balance_at(store(m, pair, allowance), j)
                     = IF j = pair THEN allowance ELSE balance_at(m, j)
    BY <1>1, <2>1, StoreEffect
  <2> QED BY <2>2 DEF pair
<1> HIDE DEF after
<1>4. AllowancesOK(allowances')
  BY <1>1, <1>2, <1>3 DEF AllowancesOK
<1>5. ASSUME NEW k \in Chains, NEW o \in Owners, NEW p \in Owners, o # owner
      PROVE  balance_at(allowances'[k], <<o, p>>) = balance_at(allowances[k], <<o, p>>)
  BY <1>2, <1>3, <1>5
<1> QED BY <1>4, <1>5

\* The types of what a step does not touch.
Rest == AllowancesOK(allowances') /\ UNCHANGED supply /\ signer' \in Owners \cup {NoSigner}

LEMMA ApproveOK ==
    ASSUME IInv, NEW c \in Chains, NEW who \in Owners, NEW owner \in Owners,
           NEW spender \in Owners, NEW allowance \in Amounts,
           Approve(c, who, owner, spender, allowance)
    PROVE  StepOK /\ Rest
<1>1. mail' \in Mailboxes
  BY StateOK DEF IInv, Approve
<1>2. StepOK
  BY <1>1, QuietOK DEF Approve
<1>3. Rest
  BY AllowanceSet DEF IInv, Approve, Rest
<1> QED BY <1>2, <1>3

LEMMA ClaimOK ==
    ASSUME IInv, NEW c \in Chains, NEW who \in Owners, NEW amount \in Amounts,
           NEW source_account \in Account, NEW target_account \in Account,
           Claim(c, who, source_account, amount, target_account)
    PROVE  StepOK /\ Rest
<1>1. /\ source_account.chain_id \in Chains /\ source_account.owner \in Owners
      /\ mail \in Mailboxes
  BY StateOK DEF Account, IInv
<1>2. Rest
  BY StateOK DEF IInv, Claim, Rest
<1>3. CASE source_account.chain_id = c
  BY <1>1, <1>2, <1>3, DebitAndFinishOK DEF Claim, claim
<1>4. CASE source_account.chain_id # c
  <2> DEFINE message == [type |-> "Withdraw", owner |-> source_account.owner,
                         amount |-> amount, target_account |-> target_account]
             e == [message |-> message, origin |-> c, dest |-> source_account.chain_id,
                   signer |-> who, tracked |-> FALSE, bouncing |-> FALSE]
  <2>1. Send(mail, e) /\ UNCHANGED accounts
    BY <1>4 DEF Claim, claim
  <2>2. PICK s \in Slots : mail[s] = NoMessage /\ mail' = [mail EXCEPT ![s] = e]
    BY <2>1 DEF Send
  <2>3. message \in Message
    BY <1>1 DEF Message
  <2>4. e \in Envelope
    BY <1>1, <2>3 DEF Envelope
  <2>5. ~IsCredit(e)
    BY DEF IsCredit
  <2> HIDE DEF e
  <2>6. /\ mail' \in Mailboxes
        /\ \A x \in Slots : mail'[x] = IF x = s THEN e ELSE mail[x]
    BY <1>1, <2>2, <2>4 DEF Mailboxes
  <2>7. TokensIn(e) = 0 /\ TokensIn(NoMessage) = 0 /\ ~IsCredit(NoMessage)
    BY <2>5 DEF TokensIn, IsCredit
  <2> QED BY <1>2, <2>1, <2>2, <2>5, <2>6, <2>7, QuietOK
<1> QED BY <1>3, <1>4

\* The operations of a block.
LEMMA OperationOK == ASSUME IInv, NEW c \in Chains, NEW who \in Owners, Operation(c, who)
                     PROVE  StepOK /\ Rest
<1>1. mail \in Mailboxes /\ AllowancesOK(allowances)
  BY StateOK DEF IInv
<1>2. ASSUME NEW owner \in Owners, NEW amount \in Amounts, NEW target_account \in Account,
             Transfer(c, who, owner, amount, target_account)
      PROVE  StepOK /\ Rest
  BY <1>1, <1>2, DebitAndFinishOK DEF Transfer, Rest
<1>3. ASSUME NEW owner \in Owners, NEW spender \in Owners, NEW amount \in Amounts,
             NEW target_account \in Account,
             TransferFrom(c, who, owner, spender, amount, target_account)
      PROVE  StepOK /\ Rest
  <2>1. StepOK
    BY <1>3, TransferFromFinished
  <2>2. Rest
    BY <1>3, AllowanceUsed DEF IInv, TransferFrom, Rest
  <2> QED BY <2>1, <2>2
<1> QED BY <1>2, <1>3, ApproveOK, ClaimOK DEF Operation

LEMMA ExecuteCreditOK == ASSUME IInv, NEW s \in Slots, ExecuteCredit(s)
                         PROVE  StepOK /\ Rest
<1> DEFINE e == mail[s]
           c == e.dest
           m == accounts[c]
           to == receiver(e)
           amount == e.message.amount
           after == credit(m, to, amount)
           before_h == held_in(accounts, mail)
           after_h == held_in(accounts', mail')
<1>1. AccountsOK(accounts) /\ AllowancesOK(allowances) /\ mail \in Mailboxes /\ TypeOK
  BY StateOK DEF IInv
<1>2. e \in Envelope
  BY <1>1 DEF ExecuteCredit, IsCredit, Mailboxes
<1>3. /\ c \in Chains /\ to \in Owners /\ amount \in Amounts
      /\ e.signer \in Owners /\ e.message.source \in Owners
  BY <1>2, MessageParts DEF ExecuteCredit
<1>4. /\ is_map(after, Owners, Stored)
      /\ \A o : balance_at(after, o)
                   = IF o = to THEN saturating_add(balance_at(m, to), amount)
                     ELSE balance_at(m, o)
  BY <1>1, <1>3, CreditEffect DEF AccountsOK
<1>5. /\ DOMAIN accounts' = Chains
      /\ \A k \in Chains : accounts'[k] = IF k = c THEN after ELSE accounts[k]
      /\ signer' = e.signer /\ IsCredit(e)
      /\ UNCHANGED <<allowances, supply>>
  BY <1>1 DEF ExecuteCredit, AccountsOK
<1>6. /\ mail' \in Mailboxes
      /\ \A x \in Slots : mail'[x] = IF x = s THEN NoMessage ELSE mail[x]
  BY <1>1, ConsumedEffect DEF ExecuteCredit
<1>7. (e.bouncing => to = e.message.source) /\ ~IsCredit(NoMessage)
  BY DEF receiver, IsCredit
<1>8. TokensIn(e) = amount /\ TokensIn(NoMessage) = 0
  BY <1>5 DEF TokensIn, IsCredit
<1> HIDE DEF after
<1>9. AccountsOK(accounts')
  BY <1>1, <1>4, <1>5 DEF AccountsOK
<1>10. Rest
  BY <1>1, <1>3, <1>5 DEF Rest, AllowancesOK
<1>11. Tracked(mail')
  <2> SUFFICES ASSUME NEW x \in Slots, IsCredit(mail'[x]) PROVE mail'[x].tracked
    BY DEF Tracked
  <2>1. mail'[x] = mail[x] /\ IsCredit(mail[x])
    BY <1>6, <1>7
  <2> QED BY <2>1 DEF IInv, Tracked
<1>12. RefundsPayer
  <2>1. e.bouncing => balance_at(accounts'[c], e.message.source)
                        = saturating_add(Balance(c, e.message.source), amount)
    BY <1>3, <1>4, <1>5, <1>7 DEF Balance
  <2> QED BY <1>6, <1>7, <2>1 DEF RefundsPayer
<1>13. Moved(before_h, after_h)
  <2>1. /\ before_h \in [Holders -> Amounts]
        /\ \A k \in Chains, o \in Owners :
              /\ <<k, o>> \in Holders /\ <<k, o>> \notin Slots
              /\ before_h[<<k, o>>] = balance_at(accounts[k], o)
        /\ \A x \in Slots : x \in Holders /\ before_h[x] = TokensIn(mail[x])
    BY <1>1, HeldIn
  <2>2. /\ after_h \in [Holders -> Amounts]
        /\ \A k \in Chains, o \in Owners :
              after_h[<<k, o>>] = balance_at(accounts'[k], o)
        /\ \A x \in Slots : after_h[x] = TokensIn(mail'[x])
    BY <1>6, <1>9, HeldInNext
  <2> HIDE DEF before_h, after_h
  <2>3. /\ before_h[s] = amount /\ after_h[s] = 0
        /\ before_h[s] >= amount /\ after_h[s] = before_h[s] - amount
    BY <1>3, <1>6, <1>8, <2>1, <2>2, MaxAmountAssumption DEF Amounts
  <2>4. ASSUME NEW x \in Holders \ {s, <<c, to>>}
        PROVE  after_h[x] = before_h[x]
    <3>1. CASE x \in Slots
      BY <1>6, <2>1, <2>2, <2>4, <3>1
    <3>2. CASE x \notin Slots
      <4>1. PICK k \in Chains, o \in Owners : x = <<k, o>>
        BY <3>2 DEF Holders
      <4>2. k # c \/ o # to
        BY <2>4, <4>1
      <4>3. balance_at(accounts'[k], o) = balance_at(accounts[k], o)
        BY <1>4, <1>5, <4>1, <4>2
      <4> QED BY <2>1, <2>2, <4>1, <4>3
    <3> QED BY <3>1, <3>2
  <2>5. after_h[<<c, to>>] = saturating_add(before_h[<<c, to>>], amount)
    BY <1>3, <1>4, <1>5, <2>1, <2>2
  <2> HIDE DEF c, to, amount
  <2>6. Moves(before_h, after_h, s, <<c, to>>, amount)
    BY <1>3, <2>1, <2>3, <2>4, <2>5 DEF Moves
  <2>7. s \in Holders /\ <<c, to>> \in Holders
    BY <1>3, <2>1
  <2> QED BY <1>3, <2>6, <2>7 DEF Moved
<1> QED BY <1>6, <1>9, <1>10, <1>11, <1>12, <1>13, HoldingsHeld DEF StepOK

LEMMA ExecuteWithdrawOK == ASSUME IInv, NEW s \in Slots, ExecuteWithdraw(s)
                           PROVE  /\ Finished(mail[s].dest, mail[s].message.owner,
                                              mail[s].message.amount, Consumed(s))
                                  /\ StepOK /\ Rest
<1>1. AllowancesOK(allowances) /\ mail \in Mailboxes /\ TypeOK
  BY StateOK DEF IInv
<1>2. mail[s] \in Envelope
  BY <1>1 DEF ExecuteWithdraw, IsWithdraw, Mailboxes
<1>3. /\ mail[s].dest \in Chains /\ mail[s].signer \in Owners
      /\ mail[s].message.owner \in Owners /\ mail[s].message.amount \in Amounts
      /\ mail[s].message.target_account \in Account
  BY <1>2, MessageParts DEF ExecuteWithdraw
<1>4. Consumed(s) \in Mailboxes
  BY <1>1, ConsumedEffect
<1>5. Rest
  BY <1>1, <1>3 DEF ExecuteWithdraw, Rest, AllowancesOK
<1>6. /\ IsWithdraw(mail[s])
      /\ DebitAndFinish(mail[s].dest, mail[s].signer, mail[s].message.owner,
                        Consumed(s), mail[s].message.amount,
                        mail[s].message.target_account)
  BY DEF ExecuteWithdraw
<1> QED BY <1>3, <1>4, <1>5, <1>6, DebitAndFinishOK

LEMMA RejectMessageOK == ASSUME IInv, NEW s \in Slots, RejectMessage(s)
                         PROVE  StepOK /\ Rest
<1> DEFINE e == mail[s]
           back == [e EXCEPT !.bouncing = TRUE, !.origin = e.dest, !.dest = e.origin]
<1>1. AllowancesOK(allowances) /\ mail \in Mailboxes /\ TypeOK
  BY StateOK DEF IInv
<1>2. e \in Envelope /\ ~e.bouncing
  BY <1>1 DEF RejectMessage, Mailboxes
<1>3. Rest
  BY <1>1 DEF RejectMessage, Rest, AllowancesOK
<1>4. CASE e.tracked
  <2>1. mail' = [mail EXCEPT ![s] = back]
    BY <1>4 DEF RejectMessage
  <2>2. /\ back \in Envelope /\ back.bouncing /\ back.tracked
        /\ back.message = e.message
    BY <1>2, <1>4 DEF Envelope
  <2> HIDE DEF back
  <2>3. /\ mail' \in Mailboxes
        /\ \A x \in Slots : mail'[x] = IF x = s THEN back ELSE mail[x]
    BY <1>1, <2>1, <2>2 DEF Mailboxes
  <2>4. TokensIn(back) = TokensIn(e)
    BY <1>2, <2>2, NoMessageAssumption DEF TokensIn, IsCredit
  <2>5. UNCHANGED accounts
    BY DEF RejectMessage
  <2> QED BY <1>2, <1>3, <2>2, <2>3, <2>4, <2>5, QuietOK
<1>5. CASE ~e.tracked
  <2>1. mail' = Consumed(s) /\ UNCHANGED accounts
    BY <1>5 DEF RejectMessage
  <2>2. ~IsCredit(e)
    BY <1>5 DEF IInv, Tracked
  <2>3. TokensIn(e) = 0 /\ TokensIn(NoMessage) = 0 /\ ~IsCredit(NoMessage)
    BY <2>2 DEF TokensIn, IsCredit
  <2>4. /\ mail' \in Mailboxes
        /\ \A x \in Slots : mail'[x] = IF x = s THEN NoMessage ELSE mail[x]
    BY <1>1, <2>1, ConsumedEffect
  <2> QED BY <1>3, <2>1, <2>2, <2>3, <2>4, QuietOK
<1> QED BY <1>4, <1>5

LEMMA NextOK == ASSUME IInv, Next
                PROVE  StepOK /\ Rest
BY OperationOK, ExecuteCreditOK, ExecuteWithdrawOK, RejectMessageOK
   DEF Next, ExecuteMessage

-----------------------------------------------------------------------------
(* The invariant.                                                          *)

\* What instantiate stores on the creator chain, and nothing anywhere else.
LEMMA InitParts ==
    ASSUME Init
    PROVE  \E creator \in Chains, initial \in [Owners -> Amounts] :
              /\ AccountsOK(accounts)
              /\ \A c \in Chains, o \in Owners :
                    balance_at(accounts[c], o) = IF c = creator THEN initial[o] ELSE 0
              /\ supply = sum_balances(initial)
<1>1. PICK creator \in Chains, initial \in [Owners -> Amounts] :
         /\ accounts = [c \in Chains |->
               IF c = creator
               THEN [o \in {x \in Owners : initial[x] # 0} |-> initial[o]]
               ELSE [o \in {} |-> 0]]
         /\ supply = sum_balances(initial)
  BY DEF Init
<1>2. \A c \in Chains : is_map(accounts[c], Owners, Stored)
  BY <1>1 DEF is_map, Stored
<1>3. AccountsOK(accounts)
  BY <1>1, <1>2 DEF AccountsOK
<1>4. \A c \in Chains, o \in Owners :
         balance_at(accounts[c], o) = IF c = creator THEN initial[o] ELSE 0
  BY <1>1 DEF balance_at
<1> QED BY <1>1, <1>3, <1>4

LEMMA InitIInv == Init => IInv
<1> SUFFICES ASSUME Init PROVE IInv
  OBVIOUS
<1>1. AccountsOK(accounts)
  BY InitParts
<1>2. AllowancesOK(allowances)
  BY DEF Init, AllowancesOK, is_map
<1>3. mail \in Mailboxes /\ Tracked(mail)
  BY DEF Init, Mailboxes, Tracked, IsCredit
<1>4. supply \in 1 .. MaxSupply /\ signer \in Owners \cup {NoSigner}
  BY DEF Init
<1> QED BY <1>1, <1>2, <1>3, <1>4, StateOK DEF IInv

LEMMA StepIInv == IInv /\ [Next]_vars => IInv'
<1> SUFFICES ASSUME IInv, [Next]_vars PROVE IInv'
  OBVIOUS
<1>1. CASE Next
  <2>1. StepOK /\ Rest
    BY <1>1, NextOK
  <2>2. TypeOK'
    BY <2>1 DEF StepOK, Rest, IInv, TypeOK, AccountsOK, AllowancesOK, Mailboxes, Stored
  <2> QED BY <2>1, <2>2 DEF IInv, StepOK, Tracked
<1>2. CASE UNCHANGED vars
  BY <1>2 DEF vars, IInv, TypeOK, Tracked
<1> QED BY <1>1, <1>2

LEMMA InvariantIInv == Spec => []IInv
  BY InitIInv, StepIInv, PTL DEF Spec

\* Balances and allowances fit a u128 and none is left stored at zero, on any
\* number of chains and after any sequence of operations and messages.
THEOREM TypeCorrect == Spec => []TypeOK
<1>1. IInv => TypeOK
  BY DEF IInv
<1> QED BY <1>1, InvariantIInv, PTL

\* A Credit in transit names the account that paid for it, and one that comes
\* back is paid out to that account.
THEOREM RefundsGoToPayer == Spec => PayerIsRefunded
<1>1. IInv /\ [Next]_vars => [RefundsPayer]_vars
  BY NextOK DEF StepOK
<1>2. RefundsPayer <=>
        (\A s \in Slots :
          /\ IsCredit(mail'[s]) /\ ~mail'[s].bouncing /\ mail'[s] # mail[s] =>
                LET e == mail'[s]
                IN  Balance(e.origin, e.message.source)
                       = balance_at(accounts'[e.origin], e.message.source)
                            + e.message.amount
          /\ IsCredit(mail[s]) /\ mail[s].bouncing /\ mail'[s] # mail[s] =>
                LET e == mail[s]
                IN  balance_at(accounts'[e.dest], e.message.source)
                       = saturating_add(Balance(e.dest, e.message.source),
                                        e.message.amount))
  BY DEF RefundsPayer
<1> QED BY <1>1, <1>2, InvariantIInv, PTL DEF Spec, PayerIsRefunded

-----------------------------------------------------------------------------
(* How many tokens there are.                                              *)

LEMMA HoldingsType == ASSUME TypeOK PROVE Holdings \in [Holders -> Amounts]
  BY StateOK, HeldIn, HoldingsHeld

\* A move never adds tokens, and loses none the receiver has room for: then
\* it is a transfer of the core.
LEMMA MoveAndSum ==
    ASSUME NEW before \in [Holders -> Amounts], NEW after \in [Holders -> Amounts],
           NEW from \in Holders, NEW to \in Holders, NEW amount \in Amounts,
           Moves(before, after, from, to, amount)
    PROVE  /\ sum_balances(before) \in Nat /\ sum_balances(after) \in Nat
           /\ sum_balances(after) <= sum_balances(before)
           /\ sum_balances(before) <= MaxAmount =>
                 /\ transfer_balances_ok(before[from], before[to], amount)
                 /\ after = state_after_transfer(before, from, to, amount)
                 /\ sum_balances(after) = sum_balances(before)
<1> DEFINE b1 == before[from]
           b2 == before[to]
           a1 == after[from]
           a2 == after[to]
<1>1. before \in [Holders -> Nat] /\ after \in [Holders -> Nat]
  BY MaxAmountAssumption DEF Amounts
<1>2. /\ from # to /\ b1 >= amount /\ a1 = b1 - amount
      /\ a2 = saturating_add(b2, amount)
      /\ \A x \in Holders \ {from, to} : after[x] = before[x]
  BY DEF Moves
<1>3. b1 \in Amounts /\ b2 \in Amounts /\ a1 \in Amounts /\ a2 \in Amounts
  OBVIOUS
<1>4. /\ sum_balances(before) \in Nat /\ sum_balances(after) \in Nat
      /\ sum_balances(after) + b1 + b2 = sum_balances(before) + a1 + a2
  BY <1>1, <1>2, HoldersFinite, SumAfterTwo
<1>5. b1 + b2 <= sum_balances(before)
  BY <1>1, <1>2, HoldersFinite, TwoBalancesBound
<1> HIDE DEF b1, b2, a1, a2
<1>6. /\ b1 \in Nat /\ b2 \in Nat /\ amount \in Nat /\ a2 \in Nat /\ a2 <= b2 + amount
  BY <1>2, <1>3, Saturates, MaxAmountAssumption DEF Amounts
<1>7. sum_balances(after) <= sum_balances(before)
  BY <1>2, <1>4, <1>6
<1>8. ASSUME sum_balances(before) <= MaxAmount
      PROVE  /\ transfer_balances_ok(b1, b2, amount)
             /\ after = state_after_transfer(before, from, to, amount)
             /\ sum_balances(after) = sum_balances(before)
  <2>1. b2 + amount <= MaxAmount
    BY <1>2, <1>4, <1>5, <1>6, <1>8, MaxAmountAssumption
  <2>2. a2 = b2 + amount
    BY <1>2, <2>1 DEF saturating_add
  <2>3. ASSUME NEW x \in Holders
        PROVE  after[x] = IF x = to THEN b2 + amount
                          ELSE IF x = from THEN b1 - amount ELSE before[x]
    BY <1>2, <2>2 DEF a1, a2
  <2>4. state_after_transfer(before, from, to, amount)
          = [x \in Holders |-> IF x = to THEN b2 + amount
                               ELSE IF x = from THEN b1 - amount ELSE before[x]]
    BY DEF state_after_transfer, insert, balance_at, b1, b2
  <2>5. after = state_after_transfer(before, from, to, amount)
    BY <2>3, <2>4
  <2>6. sum_balances(after) = sum_balances(before)
    BY <1>2, <1>4, <1>6, <2>2
  <2> QED BY <1>2, <2>1, <2>5, <2>6 DEF transfer_balances_ok
<1> QED BY <1>4, <1>7, <1>8 DEF b1, b2

\* A step moves tokens between two holders, or leaves all of them in place.
LEMMA StepMoves ==
    ASSUME IInv, [Next]_vars
    PROVE  \/ Holdings' = Holdings
           \/ /\ Holdings \in [Holders -> Amounts] /\ Holdings' \in [Holders -> Amounts]
              /\ \E from, to \in Holders, amount \in Amounts :
                    Moves(Holdings, Holdings', from, to, amount)
<1>1. CASE Next
  <2>1. StepOK
    BY <1>1, NextOK
  <2>2. Holdings \in [Holders -> Amounts]
    BY HoldingsType DEF IInv
  <2>3. Holdings' \in [Holders -> Amounts]
    BY <2>1, HeldInNext, HoldingsHeld DEF StepOK
  <2> QED BY <2>1, <2>2, <2>3 DEF StepOK, Moved
<1>2. CASE UNCHANGED vars
  BY <1>2, HoldingsHeld DEF vars
<1> QED BY <1>1, <1>2

\* No step creates tokens, whatever the supply and whatever saturates.
THEOREM NeverInflates == Spec => NoInflation
<1>1. IInv /\ [Next]_vars => [Tokens' <= Tokens]_vars
  <2> SUFFICES ASSUME IInv, Next PROVE Tokens' <= Tokens
    OBVIOUS
  <2>1. CASE Holdings' = Holdings
    <3>1. Holdings \in [Holders -> Nat]
      BY HoldingsType, MaxAmountAssumption DEF IInv, Amounts
    <3>2. Tokens \in Nat
      BY <3>1, HoldersFinite, UnitsFinite DEF Tokens
    <3> QED BY <2>1, <3>2 DEF Tokens
  <2>2. CASE /\ Holdings \in [Holders -> Amounts] /\ Holdings' \in [Holders -> Amounts]
             /\ \E from, to \in Holders, amount \in Amounts :
                   Moves(Holdings, Holdings', from, to, amount)
    BY <2>2, MoveAndSum DEF Tokens
  <2> QED BY <2>1, <2>2, StepMoves
<1> QED BY <1>1, InvariantIInv, PTL DEF Spec, NoInflation

\* At first all tokens are where instantiate put them, under the names that
\* accounts have on the creator chain.
LEMMA InitialTokens == Init => Tokens = supply
<1> SUFFICES ASSUME Init PROVE Tokens = supply
  OBVIOUS
<1>1. PICK creator \in Chains, initial \in [Owners -> Amounts] :
         /\ \A c \in Chains, o \in Owners :
               balance_at(accounts[c], o) = IF c = creator THEN initial[o] ELSE 0
         /\ supply = sum_balances(initial)
  BY InitParts
<1>2. TypeOK /\ AccountsOK(accounts) /\ mail \in Mailboxes
  BY InitIInv, StateOK DEF IInv
<1>3. /\ Holdings \in [Holders -> Amounts]
      /\ \A c \in Chains, o \in Owners :
            /\ <<c, o>> \in Holders
            /\ Holdings[<<c, o>>] = balance_at(accounts[c], o)
      /\ \A s \in Slots : Holdings[s] = TokensIn(mail[s])
  BY <1>2, HeldIn, HoldingsHeld
<1>4. \A s \in Slots : Holdings[s] = 0
  BY <1>3 DEF Init, TokensIn, IsCredit
<1> DEFINE here == [o \in Owners |-> <<creator, o>>]
<1>5. /\ initial \in [Owners -> Nat] /\ Holdings \in [Holders -> Nat]
      /\ IsFiniteSet(Owners) /\ here \in [Owners -> Holders]
  BY <1>3, SetsAssumption, MaxAmountAssumption DEF Amounts
<1>6. \A a, b \in Owners : here[a] = here[b] => a = b
  OBVIOUS
<1>7. \A o \in Owners : Holdings[here[o]] = initial[o]
  BY <1>1, <1>3
<1>8. ASSUME NEW x \in Holders, Holdings[x] # 0
      PROVE  \E o \in Owners : x = here[o]
  <2>1. x \notin Slots
    BY <1>4, <1>8
  <2>2. PICK c \in Chains, o \in Owners : x = <<c, o>>
    BY <2>1 DEF Holders
  <2>3. c = creator
    BY <1>1, <1>3, <1>8, <2>2
  <2> QED BY <2>2, <2>3
<1> HIDE DEF here
<1>9. sum_balances(Holdings) = sum_balances(initial)
  BY <1>5, <1>6, <1>7, <1>8, SumRelabelled
<1> QED BY <1>1, <1>9 DEF Tokens

\* A step is a transfer of the core between two holders, or moves nothing, as
\* long as the supply is an amount one account can hold.
LEMMA StepTransfers ==
    ASSUME MaxSupply <= MaxAmount, IInv, Tokens = supply, [Next]_vars
    PROVE  /\ Tokens' = Tokens /\ supply' = supply
           /\ \/ Holdings' = Holdings
              \/ \E from, to \in Holders, amount \in Amounts :
                    /\ from # to
                    /\ transfer_balances_ok(Holdings[from], Holdings[to], amount)
                    /\ Holdings' = state_after_transfer(Holdings, from, to, amount)
<1>1. sum_balances(Holdings) <= MaxAmount
  BY MaxSupplyAssumption, MaxAmountAssumption DEF IInv, TypeOK, Tokens
<1>2. supply' = supply
  BY NextOK DEF Rest, vars
<1>3. CASE Holdings' = Holdings
  BY <1>2, <1>3 DEF Tokens
<1>4. ASSUME Holdings \in [Holders -> Amounts], Holdings' \in [Holders -> Amounts],
             NEW from \in Holders, NEW to \in Holders, NEW amount \in Amounts,
             Moves(Holdings, Holdings', from, to, amount)
      PROVE  /\ Tokens' = Tokens /\ from # to
             /\ transfer_balances_ok(Holdings[from], Holdings[to], amount)
             /\ Holdings' = state_after_transfer(Holdings, from, to, amount)
  BY <1>1, <1>4, MoveAndSum DEF Tokens, Moves
<1> QED BY <1>2, <1>3, <1>4, StepMoves

LEMMA InvariantTokens ==
    ASSUME MaxSupply <= MaxAmount
    PROVE  Spec => [](IInv /\ Tokens = supply)
<1>1. Init => IInv /\ Tokens = supply
  BY InitIInv, InitialTokens
<1>2. (IInv /\ Tokens = supply) /\ [Next]_vars => (IInv /\ Tokens = supply)'
  BY StepIInv, StepTransfers
<1> QED BY <1>1, <1>2, PTL DEF Spec

\* No token is lost either, on any number of chains and with any number of
\* messages in transit, unless the supply exceeds what one account can hold.
THEOREM ConservesTokens ==
    ASSUME MaxSupply <= MaxAmount
    PROVE  Spec => []Conservation
<1>1. IInv /\ Tokens = supply => Conservation
  BY DEF Conservation
<1> QED BY <1>1, InvariantTokens, PTL

\* The operators of the core, as the instance of the ledger sees them.
LEMMA SameCore ==
    ASSUME NEW m, NEW from, NEW to, NEW amount, NEW x, NEW y
    PROVE  /\ Ledger!Amounts = Amounts
           /\ Ledger!sum_balances(m) = sum_balances(m)
           /\ Ledger!transfer_balances_ok(x, y, amount) = transfer_balances_ok(x, y, amount)
           /\ Ledger!state_after_transfer(m, from, to, amount)
                = state_after_transfer(m, from, to, amount)
<1>1. \A n, k, v : Ledger!insert(n, k, v) = insert(n, k, v)
  BY DEF Ledger!insert, insert
<1>2. \A n, k : Ledger!balance_at(n, k) = balance_at(n, k)
  BY DEF Ledger!balance_at, balance_at
<1>3. Ledger!sum_balances(m) = sum_balances(m)
  BY DEF Ledger!sum_balances, Ledger!Units, sum_balances, Units,
         Ledger!Cardinality, Cardinality
<1> QED BY <1>1, <1>2, <1>3
       DEF Ledger!Amounts, Amounts, Ledger!transfer_balances_ok, transfer_balances_ok,
           Ledger!state_after_transfer, state_after_transfer

\* Seen as one ledger over all accounts and all messages, the network only
\* ever transfers: nothing is minted, nothing is burnt.
THEOREM ImplementsLedger ==
    ASSUME MaxSupply <= MaxAmount
    PROVE  Spec => LedgerSpec
<1>1. Init => Ledger!Init
  <2> SUFFICES ASSUME Init PROVE Ledger!Init
    OBVIOUS
  <2>1. IInv /\ Tokens = supply
    BY InitIInv, InitialTokens
  <2>2. Holdings \in [Holders -> Amounts]
    BY <2>1, HoldingsType DEF IInv
  <2>3. supply <= MaxAmount
    BY MaxSupplyAssumption, MaxAmountAssumption DEF Init
  <2> QED BY <2>1, <2>2, <2>3, SameCore DEF Ledger!Init, Tokens
<1>2. IInv /\ Tokens = supply /\ [Next]_vars => [Ledger!Next]_(Ledger!vars)
  <2> SUFFICES ASSUME IInv, Tokens = supply, [Next]_vars
               PROVE  Ledger!Next \/ UNCHANGED <<Holdings, supply>>
    BY DEF Ledger!vars
  <2>1. ASSUME NEW from \in Holders, NEW to \in Holders, NEW amount \in Amounts,
               from # to,
               transfer_balances_ok(Holdings[from], Holdings[to], amount),
               Holdings' = state_after_transfer(Holdings, from, to, amount),
               supply' = supply
        PROVE  Ledger!Next
    <3>1. Ledger!Transfer(from, to, amount)
      BY <2>1, SameCore DEF Ledger!Transfer
    <3> QED BY <3>1, SameCore DEF Ledger!Next
  <2> QED BY <2>1, StepTransfers
<1> QED BY <1>1, <1>2, InvariantTokens, PTL DEF Spec, LedgerSpec, Ledger!Spec

-----------------------------------------------------------------------------
(* Nobody loses tokens without having agreed to it.                        *)

\* The two parts of Authorized, for one step.
BalancesAuthorized ==
    \A c \in Chains, o \in Owners :
        Balance(c, o)' < Balance(c, o) =>
           \/ signer' = o
           \/ \E spender \in Owners :
                 /\ signer' = spender
                 /\ Allowance(c, o, spender)
                      = Allowance(c, o, spender)' + (Balance(c, o) - Balance(c, o)')

AllowancesAuthorized ==
    \A c \in Chains, o, spender \in Owners :
        Allowance(c, o, spender)' > Allowance(c, o, spender) => signer' = o

LEMMA ReadsNat ==
    ASSUME TypeOK
    PROVE  /\ \A c \in Chains, o \in Owners : Balance(c, o) \in Nat
           /\ \A c \in Chains, o, spender \in Owners : Allowance(c, o, spender) \in Nat
  BY StateOK, ReadsAmount, MaxAmountAssumption
     DEF AccountsOK, AllowancesOK, Balance, Allowance, Amounts

LEMMA AllowancesKept == ASSUME TypeOK, UNCHANGED allowances
                        PROVE  AllowancesAuthorized
  BY ReadsNat DEF AllowancesAuthorized, Allowance

\* A step that debits an account its signer owns.
LEMMA OwnerPays ==
    ASSUME TypeOK, NEW c \in Chains, NEW owner \in Owners, NEW amount \in Amounts,
           NEW rest \in Mailboxes, Finished(c, owner, amount, rest), signer' = owner,
           UNCHANGED allowances
    PROVE  BalancesAuthorized /\ AllowancesAuthorized
<1>1. BalancesAuthorized
  BY DEF Finished, BalancesAuthorized, Balance
<1> QED BY <1>1, AllowancesKept

\* A step that debits nobody.
LEMMA NobodyPays ==
    ASSUME TypeOK, UNCHANGED accounts
    PROVE  BalancesAuthorized
  BY ReadsNat DEF BalancesAuthorized, Balance

LEMMA TransferFromAuthorized ==
    ASSUME IInv, NEW c \in Chains, NEW who \in Owners, NEW owner \in Owners,
           NEW spender \in Owners, NEW amount \in Amounts, NEW target_account \in Account,
           TransferFrom(c, who, owner, spender, amount, target_account)
    PROVE  BalancesAuthorized /\ AllowancesAuthorized
<1>0. TypeOK /\ signer' = spender /\ amount \in Nat
  BY MaxAmountAssumption DEF IInv, TransferFrom, check_account_permission, Amounts
<1>1. \A k \in Chains, o, p \in Owners :
         /\ Allowance(k, o, p) \in Nat
         /\ Allowance(k, o, p)' = IF k = c /\ o = owner /\ p = spender
                                  THEN Allowance(k, o, p) - amount
                                  ELSE Allowance(k, o, p)
  BY <1>0, AllowanceUsed DEF UsesAllowance
<1>2. AllowancesAuthorized
  BY <1>0, <1>1 DEF AllowancesAuthorized
<1>3. \A k \in Chains, o \in Owners :
         Balance(k, o)' < Balance(k, o) =>
            k = c /\ o = owner /\ Balance(k, o) = Balance(k, o)' + amount
  BY TransferFromFinished DEF Finished, Balance
<1>4. BalancesAuthorized
  <2> SUFFICES ASSUME NEW k \in Chains, NEW o \in Owners, Balance(k, o)' < Balance(k, o)
               PROVE  Allowance(k, o, spender)
                        = Allowance(k, o, spender)' + (Balance(k, o) - Balance(k, o)')
    BY <1>0 DEF BalancesAuthorized
  <2>1. k = c /\ o = owner /\ Balance(k, o) = Balance(k, o)' + amount
    BY <1>3
  <2>2. Balance(k, o)' \in Nat
    <3>1. AccountsOK(accounts')
      BY TransferFromFinished DEF Finished
    <3>2. balance_at(accounts'[k], o) \in Amounts
      BY <3>1, ReadsAmount DEF AccountsOK
    <3> QED BY <3>2, MaxAmountAssumption DEF Balance, Amounts
  <2>3. Balance(k, o) - Balance(k, o)' = amount
    BY <1>0, <2>1, <2>2
  <2> QED BY <1>0, <1>1, <2>1, <2>3
<1> QED BY <1>2, <1>4

LEMMA OperationAuthorized ==
    ASSUME IInv, NEW c \in Chains, NEW who \in Owners, Operation(c, who)
    PROVE  BalancesAuthorized /\ AllowancesAuthorized
<1>0. TypeOK /\ mail \in Mailboxes
  BY StateOK DEF IInv
<1>1. ASSUME NEW owner \in Owners, NEW spender \in Owners, NEW allowance \in Amounts,
             Approve(c, who, owner, spender, allowance)
      PROVE  BalancesAuthorized /\ AllowancesAuthorized
  <2>1. signer' = owner /\ UNCHANGED accounts
    BY <1>1 DEF Approve, check_account_permission
  <2>2. \A k \in Chains, o, p \in Owners :
           o # owner => Allowance(k, o, p)' = Allowance(k, o, p)
    BY <1>0, <1>1, AllowanceSet DEF Allowance
  <2>3. AllowancesAuthorized
    BY <1>0, <2>1, <2>2, ReadsNat DEF AllowancesAuthorized
  <2> QED BY <1>0, <2>1, <2>3, NobodyPays
<1>2. ASSUME NEW owner \in Owners, NEW amount \in Amounts, NEW target_account \in Account,
             DebitAndFinish(c, who, owner, mail, amount, target_account),
             who = owner, signer' = who, UNCHANGED allowances
      PROVE  BalancesAuthorized /\ AllowancesAuthorized
  BY <1>0, <1>2, DebitAndFinishOK, OwnerPays
<1>3. ASSUME NEW owner \in Owners, NEW amount \in Amounts, NEW target_account \in Account,
             Transfer(c, who, owner, amount, target_account)
      PROVE  BalancesAuthorized /\ AllowancesAuthorized
  BY <1>2, <1>3 DEF Transfer, check_account_permission
<1>4. ASSUME NEW amount \in Amounts, NEW source_account \in Account,
             NEW target_account \in Account,
             Claim(c, who, source_account, amount, target_account)
      PROVE  BalancesAuthorized /\ AllowancesAuthorized
  <2>1. source_account.owner \in Owners
    BY DEF Account
  <2>2. /\ who = source_account.owner /\ signer' = who /\ UNCHANGED allowances
        /\ \/ DebitAndFinish(c, who, source_account.owner, mail, amount, target_account)
           \/ UNCHANGED accounts
    BY <1>4 DEF Claim, claim, check_account_permission
  <2> QED BY <1>0, <1>2, <2>1, <2>2, NobodyPays, AllowancesKept
<1> QED BY <1>1, <1>3, <1>4, TransferFromAuthorized DEF Operation

LEMMA MessageAuthorized ==
    ASSUME IInv, NEW s \in Slots, ExecuteMessage(s) \/ RejectMessage(s)
    PROVE  BalancesAuthorized /\ AllowancesAuthorized
<1>0. TypeOK /\ mail \in Mailboxes /\ AccountsOK(accounts)
  BY StateOK DEF IInv
<1>1. CASE RejectMessage(s)
  BY <1>0, <1>1, NobodyPays, AllowancesKept DEF RejectMessage
<1>2. CASE ExecuteWithdraw(s)
  <2>1. mail[s] \in Envelope
    BY <1>0, <1>2 DEF ExecuteWithdraw, IsWithdraw, Mailboxes
  <2>2. /\ mail[s].dest \in Chains /\ mail[s].message.owner \in Owners
        /\ mail[s].message.amount \in Amounts
    BY <1>2, <2>1, MessageParts DEF ExecuteWithdraw
  <2>3. signer' = mail[s].message.owner /\ UNCHANGED allowances
    BY <1>2 DEF ExecuteWithdraw, check_account_permission
  <2>4. Consumed(s) \in Mailboxes
    BY <1>0, ConsumedEffect
  <2> QED BY <1>0, <1>2, <2>2, <2>3, <2>4, ExecuteWithdrawOK, OwnerPays
<1>3. CASE ExecuteCredit(s)
  <2> DEFINE e == mail[s]
  <2>1. e \in Envelope
    BY <1>0, <1>3 DEF ExecuteCredit, IsCredit, Mailboxes
  <2>2. e.dest \in Chains /\ receiver(e) \in Owners /\ e.message.amount \in Amounts
    BY <1>3, <2>1, MessageParts DEF ExecuteCredit
  <2>3. accounts' = [accounts EXCEPT ![e.dest] =
                        credit(accounts[e.dest], receiver(e), e.message.amount)]
    BY <1>3 DEF ExecuteCredit
  <2> HIDE DEF e
  <2>4. ASSUME NEW c \in Chains, NEW o \in Owners
        PROVE  ~(Balance(c, o)' < Balance(c, o))
    <3>1. balance_at(accounts[c], o) \in Amounts
      BY <1>0, ReadsAmount DEF AccountsOK
    <3>2. \/ Balance(c, o)' = Balance(c, o)
          \/ Balance(c, o)' = saturating_add(Balance(c, o), e.message.amount)
      BY <1>0, <2>2, <2>3, CreditEffect DEF AccountsOK, Balance
    <3> QED BY <2>2, <3>1, <3>2, Saturates, MaxAmountAssumption DEF Balance, Amounts
  <2>5. UNCHANGED allowances
    BY <1>3 DEF ExecuteCredit
  <2> QED BY <1>0, <2>4, <2>5, AllowancesKept DEF BalancesAuthorized
<1> QED BY <1>1, <1>2, <1>3 DEF ExecuteMessage

\* On every chain, accounts lose tokens only in steps their owner signed or
\* paid for with an allowance the owner granted, wherever those steps come
\* from, and allowances grow only in steps of their owner.
THEOREM OnlyAuthorized == Spec => Authorized
<1> DEFINE A == BalancesAuthorized /\ AllowancesAuthorized
<1>1. IInv /\ [Next]_vars => [A]_vars
  BY OperationAuthorized, MessageAuthorized DEF Next
<1>2. A <=> (/\ \A c \in Chains, o \in Owners :
                  Balance(c, o)' < Balance(c, o) =>
                     \/ signer' = o
                     \/ \E spender \in Owners :
                           /\ signer' = spender
                           /\ Allowance(c, o, spender)
                                = Allowance(c, o, spender)'
                                     + (Balance(c, o) - Balance(c, o)')
             /\ \A c \in Chains, o, spender \in Owners :
                  Allowance(c, o, spender)' > Allowance(c, o, spender) => signer' = o)
  BY DEF BalancesAuthorized, AllowancesAuthorized
<1> QED BY <1>1, <1>2, InvariantIInv, PTL DEF Spec, Authorized
=============================================================================
