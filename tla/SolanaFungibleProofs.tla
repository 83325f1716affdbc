------------------------ MODULE SolanaFungibleProofs ------------------------
(***************************************************************************)
(* The Solana fungible program, for any number of mint and token accounts  *)
(* and any width: an approval never succeeds, so accounts lose tokens only *)
(* to their owners or when a mint is initialized over them; no account     *)
(* becomes unreadable; the balances are backed by the supplies of the      *)
(* mints; and the program is one ledger over all of its accounts.          *)
(***************************************************************************)
EXTENDS SolanaFungible, CoreProofs

-----------------------------------------------------------------------------
(* What an instruction does.                                               *)

\* The accounts that can be read have a buffer of 65 bytes, which has no room
\* for a delegate; those with a longer one can never be read.  So nobody is
\* ever a delegate.
IInv == TypeOK /\ \A a \in Accounts : tokens[a].delegate = NoKey

LEMMA InitIInv == Init => IInv
  BY MaxAmountAssumption DEF Init, IInv, TypeOK, Mint, TokenAccount, Amounts

\* An instruction writes all it computed, or nothing.
LEMMA InstructionCases ==
    ASSUME NEW who, NEW ok, NEW new_mints, NEW new_tokens,
           Instruction(who, ok, new_mints, new_tokens)
    PROVE  /\ signer' = who /\ length' = length
           /\ outcome' \in {"Ok", "Rejected", "DeserializationFailed"}
           /\ \/ UNCHANGED <<mints, tokens>>
              \/ /\ ok /\ mints' = new_mints /\ tokens' = new_tokens
                 /\ \A a \in Accounts : writable(a, new_tokens[a])
  BY DEF Instruction

\* The parts of the accounts.
LEMMA Parts ==
    ASSUME IInv
    PROVE  /\ \A a \in Accounts :
                 /\ tokens[a].owner \in {a, DefaultKey} /\ tokens[a].owner \in Keys \cup {DefaultKey}
                 /\ tokens[a].balance \in Amounts
                 /\ tokens[a].delegate = NoKey
                 /\ tokens[a].delegated_amount \in Amounts
           /\ \A m \in MintAccounts :
                 /\ mints[m].total_supply \in Amounts /\ mints[m].initialized \in BOOLEAN
                 /\ ~mints[m].initialized => mints[m].total_supply = 0
           /\ held \in [Accounts -> Amounts] /\ issued \in [MintAccounts -> Amounts]
  BY DEF IInv, TypeOK, Mint, TokenAccount, held, issued

\* What an instruction may do to the balances and the supplies: move tokens
\* of the signer, mint, burn tokens of the signer, initialize a mint, nothing.
Moves(who, src, dst, amount) ==
    /\ src # dst /\ tokens[src].owner = who
    /\ transfer_balances_ok(held[src], held[dst], amount)
    /\ held' = state_after_transfer(held, src, dst, amount)
    /\ issued' = issued
Mints(m, dst, amount) ==
    /\ issued[m] + amount <= MaxAmount
    /\ held' = state_after_mint(held, dst, amount)
    /\ issued' = state_after_mint(issued, m, amount)
Burns(who, m, src, amount) ==
    /\ tokens[src].owner = who
    /\ held[src] >= amount /\ issued[m] >= amount
    /\ held' = state_after_burn(held, src, amount)
    /\ issued' = state_after_burn(issued, m, amount)
Initializes(m, dst, amount) ==
    /\ ~mints[m].initialized /\ mints'[m].initialized
    /\ held' = insert(held, dst, amount)
    /\ issued' = insert(issued, m, amount)

Effect(who) ==
    \/ \E src, dst \in Accounts, amount \in Amounts : Moves(who, src, dst, amount)
    \/ \E m \in MintAccounts, a \in Accounts, amount \in Amounts :
          Mints(m, a, amount) \/ Burns(who, m, a, amount) \/ Initializes(m, a, amount)
    \/ UNCHANGED <<held, issued>>

\* The history and the buffers after any instruction.
Signed(who) ==
    /\ signer' = who /\ length' = length
    /\ outcome' \in {"Ok", "Rejected", "DeserializationFailed"}

LEMMA RejectedEffect ==
    ASSUME IInv, NEW who \in Keys, Signed(who), UNCHANGED <<mints, tokens>>
    PROVE  IInv' /\ Signed(who) /\ Effect(who)
  BY DEF IInv, TypeOK, Signed, Effect, held, issued

\* An instruction that writes one token account, whose owner and delegate stay.
LEMMA WrittenType ==
    ASSUME IInv, NEW who \in Keys, Signed(who),
           mints' \in [MintAccounts -> Mint],
           \A m \in MintAccounts : ~mints'[m].initialized => mints'[m].total_supply = 0,
           tokens' \in [Accounts -> TokenAccount],
           \A a \in Accounts : /\ tokens'[a].owner \in {a, DefaultKey}
                               /\ tokens'[a].delegate = NoKey
    PROVE  IInv'
  BY DEF IInv, TypeOK, Signed

\* Writing one balance or one supply is an insert into the core's map.
LEMMA HeldInsert ==
    ASSUME NEW dst \in Accounts, NEW v,
           \A a \in Accounts : tokens'[a].balance = IF a = dst THEN v ELSE held[a]
    PROVE  held' = insert(held, dst, v)
<1>1. DOMAIN held \cup {dst} = Accounts
  BY DEF held
<1>2. held' = [a \in Accounts |-> tokens'[a].balance]
  BY DEF held
<1>3. insert(held, dst, v) = [a \in Accounts |-> IF a = dst THEN v ELSE held[a]]
  BY <1>1 DEF insert
<1> QED BY <1>2, <1>3

LEMMA IssuedInsert ==
    ASSUME NEW m \in MintAccounts, NEW v,
           \A k \in MintAccounts : mints'[k].total_supply = IF k = m THEN v ELSE issued[k]
    PROVE  issued' = insert(issued, m, v)
<1>1. DOMAIN issued \cup {m} = MintAccounts
  BY DEF issued
<1>2. issued' = [k \in MintAccounts |-> mints'[k].total_supply]
  BY DEF issued
<1>3. insert(issued, m, v) = [k \in MintAccounts |-> IF k = m THEN v ELSE issued[k]]
  BY <1>1 DEF insert
<1> QED BY <1>2, <1>3

\* What the core's operators read is what is held and issued.
LEMMA HeldReads ==
    /\ \A a \in Accounts : balance_at(held, a) = tokens[a].balance /\ held[a] = tokens[a].balance
    /\ \A m \in MintAccounts : /\ balance_at(issued, m) = mints[m].total_supply
                               /\ issued[m] = mints[m].total_supply
  BY DEF balance_at, held, issued

\* Both accounts of a transfer are written, and they are two.
LEMMA TransferEffect ==
    ASSUME IInv, NEW who \in Keys, NEW src \in Accounts, NEW dst \in Accounts,
           NEW amount \in Amounts, verified_transfer_instruction(who, src, dst, amount)
    PROVE  IInv' /\ Signed(who) /\ Effect(who)
<1> DEFINE from == [tokens[src] EXCEPT !.balance = @ - amount]
           to == [tokens[dst] EXCEPT !.balance = @ + amount]
           ok == readable(src) /\ readable(dst) /\ apply_transfer_ok(src, dst, who, amount)
           written == write_both(src, from, dst, to)
<1>1. Instruction(who, ok, mints, written)
  BY DEF verified_transfer_instruction
<1> HIDE DEF ok, written
<1>2. /\ Signed(who)
      /\ \/ UNCHANGED <<mints, tokens>>
         \/ ok /\ mints' = mints /\ tokens' = written
  BY <1>1, InstructionCases DEF Signed
<1>3. CASE UNCHANGED <<mints, tokens>>
  BY <1>2, <1>3, RejectedEffect
<1>4. CASE ok /\ mints' = mints /\ tokens' = written
  <2>1. /\ src # dst /\ tokens[src].owner = who
        /\ tokens[src].balance >= amount /\ tokens[dst].balance + amount <= MaxAmount
    BY <1>4 DEF ok, apply_transfer_ok, transfer_balances_ok
  <2>2. /\ tokens[src].balance - amount \in Amounts /\ tokens[dst].balance + amount \in Amounts
    BY <2>1, Parts, MaxAmountAssumption DEF Amounts
  <2>3. tokens \in [Accounts -> TokenAccount]
    BY DEF IInv, TypeOK
  <2>4. /\ from \in TokenAccount /\ to \in TokenAccount
        /\ from.owner = tokens[src].owner /\ from.delegate = tokens[src].delegate
        /\ to.owner = tokens[dst].owner /\ to.delegate = tokens[dst].delegate
        /\ from.balance = tokens[src].balance - amount
        /\ to.balance = tokens[dst].balance + amount
    BY <2>2, <2>3 DEF TokenAccount
  <2> HIDE DEF from, to
  <2>5. /\ tokens' \in [Accounts -> TokenAccount]
        /\ \A a \in Accounts : tokens'[a] = IF a = dst THEN to
                                            ELSE IF a = src THEN from ELSE tokens[a]
    BY <1>4, <2>3, <2>4 DEF written, write_both
  <2>6. \A a \in Accounts : /\ tokens'[a].owner \in {a, DefaultKey}
                            /\ tokens'[a].delegate = NoKey
    BY <2>4, <2>5, Parts
  <2>7. IInv'
    BY <1>2, <1>4, <2>5, <2>6, WrittenType DEF IInv, TypeOK
  <2>8. held' = state_after_transfer(held, src, dst, amount)
    <3>1. \A a \in Accounts : tokens'[a].balance
             = IF a = dst THEN held[dst] + amount
               ELSE IF a = src THEN held[src] - amount ELSE held[a]
      BY <2>4, <2>5, HeldReads
    <3>2. state_after_transfer(held, src, dst, amount)
             = [a \in Accounts |-> IF a = dst THEN held[dst] + amount
                                   ELSE IF a = src THEN held[src] - amount ELSE held[a]]
      BY DEF state_after_transfer, insert, balance_at, held
    <3>3. held' = [a \in Accounts |-> tokens'[a].balance]
      BY DEF held
    <3> QED BY <3>1, <3>2, <3>3
  <2>9. Moves(who, src, dst, amount)
    BY <1>4, <2>1, <2>8, HeldReads DEF Moves, transfer_balances_ok, issued
  <2> QED BY <1>2, <2>7, <2>9 DEF Effect
<1> QED BY <1>2, <1>3, <1>4

\* Nobody is the delegate of the account: it fails.
LEMMA TransferFromEffect ==
    ASSUME IInv, NEW who \in Keys, NEW src \in Accounts, NEW dst \in Accounts,
           NEW amount \in Amounts, transfer_from(who, src, dst, amount)
    PROVE  IInv' /\ Signed(who) /\ Effect(who)
<1>1. ~apply_transfer_from_ok(src, dst, who, amount)
  BY Parts, KeysAssumption DEF apply_transfer_from_ok
<1>2. Signed(who) /\ UNCHANGED <<mints, tokens>>
  BY <1>1 DEF transfer_from, Instruction, Signed
<1> QED BY <1>2, RejectedEffect

\* The delegate does not fit into the buffer of an account that can be read:
\* it fails.
LEMMA ApproveEffect ==
    ASSUME IInv, NEW who \in Keys, NEW src \in Accounts, NEW delegate_key \in Keys,
           NEW amount \in Amounts, approve(who, src, delegate_key, amount)
    PROVE  IInv' /\ Signed(who) /\ Effect(who)
<1> DEFINE ok == readable(src) /\ apply_approve_ok(src, who)
           written == [tokens EXCEPT ![src].delegate = delegate_key,
                                     ![src].delegated_amount = amount]
<1>1. /\ Signed(who)
      /\ \/ UNCHANGED <<mints, tokens>>
         \/ ok /\ writable(src, written[src])
  BY DEF approve, Instruction, Signed
<1>2. tokens \in [Accounts -> TokenAccount] /\ tokens[src].delegate = NoKey
  BY DEF IInv, TypeOK
<1>3. written[src].delegate = delegate_key
  BY <1>2 DEF TokenAccount
<1>4. ASSUME readable(src) PROVE ~writable(src, written[src])
  BY <1>2, <1>3, <1>4, KeysAssumption DEF readable, writable, encoded_length
<1> QED BY <1>1, <1>4, RejectedEffect

LEMMA RevokeEffect ==
    ASSUME IInv, NEW who \in Keys, NEW src \in Accounts, revoke(who, src)
    PROVE  IInv' /\ Signed(who) /\ Effect(who)
<1> DEFINE written == [tokens EXCEPT ![src].delegate = NoKey, ![src].delegated_amount = 0]
<1>1. /\ Signed(who)
      /\ \/ UNCHANGED <<mints, tokens>>
         \/ mints' = mints /\ tokens' = written
  BY DEF revoke, Instruction, Signed
<1>2. CASE UNCHANGED <<mints, tokens>>
  BY <1>1, <1>2, RejectedEffect
<1>3. CASE mints' = mints /\ tokens' = written
  <2>1. tokens \in [Accounts -> TokenAccount] /\ tokens[src].delegate = NoKey
    BY DEF IInv, TypeOK
  <2>2. /\ written \in [Accounts -> TokenAccount]
        /\ \A a \in Accounts : /\ written[a].owner = tokens[a].owner
                               /\ written[a].balance = tokens[a].balance
                               /\ written[a].delegate = NoKey
    <3> DEFINE acc == tokens[src]
               new == [acc EXCEPT !.delegate = NoKey, !.delegated_amount = 0]
    <3>1. acc \in TokenAccount /\ 0 \in Amounts
      BY <2>1, MaxAmountAssumption DEF Amounts
    <3>2. written = [a \in Accounts |-> IF a = src THEN new ELSE tokens[a]]
      BY <2>1
    <3> HIDE DEF acc, written
    <3>3. /\ new \in TokenAccount
          /\ new.owner = acc.owner /\ new.balance = acc.balance /\ new.delegate = NoKey
      BY <3>1 DEF TokenAccount
    <3> HIDE DEF new
    <3> QED BY <2>1, <3>2, <3>3 DEF acc, IInv
  <2> HIDE DEF written
  <2>3. IInv'
    BY <1>1, <1>3, <2>2, WrittenType DEF IInv, TypeOK
  <2>4. UNCHANGED <<held, issued>>
    BY <1>3, <2>2 DEF held, issued
  <2> QED BY <1>1, <2>3, <2>4 DEF Effect
<1> QED BY <1>1, <1>2, <1>3

\* One mint account and one token account are written.
Writes(m, new_mint, a, new) ==
    /\ new_mint \in Mint /\ (~new_mint.initialized => new_mint.total_supply = 0)
    /\ new \in TokenAccount /\ new.owner \in {a, DefaultKey} /\ new.delegate = NoKey
    /\ mints' = [mints EXCEPT ![m] = new_mint]
    /\ tokens' = [tokens EXCEPT ![a] = new]

LEMMA WrittenPair ==
    ASSUME IInv, NEW who \in Keys, Signed(who),
           NEW m \in MintAccounts, NEW new_mint, NEW a \in Accounts, NEW new,
           Writes(m, new_mint, a, new)
    PROVE  /\ IInv'
           /\ held' = insert(held, a, new.balance)
           /\ issued' = insert(issued, m, new_mint.total_supply)
           /\ mints'[m] = new_mint
<1>1. tokens \in [Accounts -> TokenAccount] /\ mints \in [MintAccounts -> Mint]
  BY DEF IInv, TypeOK
<1>2. /\ mints' \in [MintAccounts -> Mint] /\ tokens' \in [Accounts -> TokenAccount]
      /\ \A k \in MintAccounts : mints'[k] = IF k = m THEN new_mint ELSE mints[k]
      /\ \A b \in Accounts : tokens'[b] = IF b = a THEN new ELSE tokens[b]
      /\ ~new_mint.initialized => new_mint.total_supply = 0
      /\ new.owner \in {a, DefaultKey} /\ new.delegate = NoKey
  BY <1>1 DEF Writes
<1>3. IInv'
  <2>1. \A k \in MintAccounts : ~mints'[k].initialized => mints'[k].total_supply = 0
    BY <1>2, Parts
  <2>2. \A b \in Accounts : tokens'[b].owner \in {b, DefaultKey} /\ tokens'[b].delegate = NoKey
    BY <1>2, Parts
  <2> QED BY <1>2, <2>1, <2>2, WrittenType
<1>4. \A b \in Accounts : tokens'[b].balance = IF b = a THEN new.balance ELSE held[b]
  BY <1>2, HeldReads
<1>5. \A k \in MintAccounts : mints'[k].total_supply
                                = IF k = m THEN new_mint.total_supply ELSE issued[k]
  BY <1>2, HeldReads
<1> QED BY <1>2, <1>3, <1>4, <1>5, HeldInsert, IssuedInsert

LEMMA MintEffect ==
    ASSUME IInv, NEW who \in Keys, NEW m \in MintAccounts, NEW dst \in Accounts,
           NEW amount \in Amounts, mint(who, m, dst, amount)
    PROVE  IInv' /\ Signed(who) /\ Effect(who)
<1> DEFINE acc == tokens[dst]
           old == mints[m]
           new == [acc EXCEPT !.balance = @ + amount]
           new_mint == [old EXCEPT !.total_supply = @ + amount]
           ok == readable(dst) /\ apply_mint_ok(m, dst, amount)
<1>0. /\ tokens \in [Accounts -> TokenAccount] /\ mints \in [MintAccounts -> Mint]
      /\ acc \in TokenAccount /\ old \in Mint
  BY DEF IInv, TypeOK
<1>1. /\ Signed(who)
      /\ \/ UNCHANGED <<mints, tokens>>
         \/ /\ ok /\ mints' = [mints EXCEPT ![m] = new_mint]
            /\ tokens' = [tokens EXCEPT ![dst] = new]
  BY <1>0 DEF mint, Instruction, Signed
<1>2. CASE UNCHANGED <<mints, tokens>>
  BY <1>1, <1>2, RejectedEffect
<1>3. CASE /\ ok /\ mints' = [mints EXCEPT ![m] = new_mint]
           /\ tokens' = [tokens EXCEPT ![dst] = new]
  <2>1. /\ old.initialized /\ old.total_supply + amount \in Amounts
        /\ acc.balance + amount \in Amounts
        /\ old.total_supply + amount <= MaxAmount
    BY <1>3, Parts, MaxAmountAssumption DEF apply_mint_ok, Amounts
  <2>2. acc.owner \in {dst, DefaultKey} /\ acc.delegate = NoKey
    BY Parts
  <2>3. acc.balance = balance_at(held, dst) /\ old.total_supply = balance_at(issued, m)
    BY HeldReads
  <2> HIDE DEF acc, old
  <2>4. /\ new \in TokenAccount /\ new.owner = acc.owner /\ new.delegate = acc.delegate
        /\ new.balance = acc.balance + amount
    BY <1>0, <2>1 DEF TokenAccount
  <2>5. /\ new_mint \in Mint /\ new_mint.initialized
        /\ new_mint.total_supply = old.total_supply + amount
    BY <1>0, <2>1 DEF Mint
  <2> HIDE DEF new, new_mint
  <2>6. /\ IInv' /\ held' = insert(held, dst, new.balance)
        /\ issued' = insert(issued, m, new_mint.total_supply)
    <3>1. Writes(m, new_mint, dst, new)
      BY <1>3, <2>2, <2>4, <2>5 DEF Writes
    <3> QED BY <1>1, <3>1, WrittenPair
  <2>7. issued[m] = old.total_supply
    BY HeldReads DEF old
  <2>8. Mints(m, dst, amount)
    BY <2>1, <2>3, <2>4, <2>5, <2>6, <2>7 DEF Mints, state_after_mint
  <2> QED BY <1>1, <2>6, <2>8 DEF Effect
<1> QED BY <1>1, <1>2, <1>3

LEMMA BurnEffect ==
    ASSUME IInv, NEW who \in Keys, NEW m \in MintAccounts, NEW src \in Accounts,
           NEW amount \in Amounts, burn(who, m, src, amount)
    PROVE  IInv' /\ Signed(who) /\ Effect(who)
<1> DEFINE acc == tokens[src]
           old == mints[m]
           new == [acc EXCEPT !.balance = @ - amount]
           new_mint == [old EXCEPT !.total_supply = @ - amount]
           ok == readable(src) /\ apply_burn_ok(m, src, who, amount)
<1>0. /\ tokens \in [Accounts -> TokenAccount] /\ mints \in [MintAccounts -> Mint]
      /\ acc \in TokenAccount /\ old \in Mint
  BY DEF IInv, TypeOK
<1>1. /\ Signed(who)
      /\ \/ UNCHANGED <<mints, tokens>>
         \/ /\ ok /\ mints' = [mints EXCEPT ![m] = new_mint]
            /\ tokens' = [tokens EXCEPT ![src] = new]
  BY <1>0 DEF burn, Instruction, Signed
<1>2. CASE UNCHANGED <<mints, tokens>>
  BY <1>1, <1>2, RejectedEffect
<1>3. CASE /\ ok /\ mints' = [mints EXCEPT ![m] = new_mint]
           /\ tokens' = [tokens EXCEPT ![src] = new]
  <2>1. /\ acc.owner = who /\ acc.balance >= amount /\ old.total_supply >= amount
        /\ old.total_supply - amount \in Amounts /\ acc.balance - amount \in Amounts
        /\ ~old.initialized => old.total_supply - amount = 0
    BY <1>3, Parts, MaxAmountAssumption DEF apply_burn_ok, Amounts
  <2>2. acc.owner \in {src, DefaultKey} /\ acc.delegate = NoKey
    BY Parts
  <2>3. acc.balance = balance_at(held, src) /\ old.total_supply = balance_at(issued, m)
    BY HeldReads
  <2> HIDE DEF acc, old
  <2>4. /\ new \in TokenAccount /\ new.owner = acc.owner /\ new.delegate = acc.delegate
        /\ new.balance = acc.balance - amount
    BY <1>0, <2>1 DEF TokenAccount
  <2>5. /\ new_mint \in Mint /\ new_mint.initialized = old.initialized
        /\ new_mint.total_supply = old.total_supply - amount
    BY <1>0, <2>1 DEF Mint
  <2> HIDE DEF new, new_mint
  <2>6. /\ IInv' /\ held' = insert(held, src, new.balance)
        /\ issued' = insert(issued, m, new_mint.total_supply)
    <3>1. Writes(m, new_mint, src, new)
      BY <1>3, <2>1, <2>2, <2>4, <2>5 DEF Writes
    <3> QED BY <1>1, <3>1, WrittenPair
  <2>7. issued[m] = old.total_supply /\ held[src] = acc.balance /\ tokens[src].owner = acc.owner
    BY HeldReads DEF old, acc
  <2>8. Burns(who, m, src, amount)
    BY <2>1, <2>3, <2>4, <2>5, <2>6, <2>7 DEF Burns, state_after_burn
  <2> QED BY <1>1, <2>6, <2>8 DEF Effect
<1> QED BY <1>1, <1>2, <1>3

LEMMA InitMintEffect ==
    ASSUME IInv, NEW who \in Keys, NEW m \in MintAccounts, NEW owner_acc \in Accounts,
           NEW total_supply \in Amounts, init_mint(who, m, owner_acc, total_supply)
    PROVE  IInv' /\ Signed(who) /\ Effect(who)
<1> DEFINE acc == tokens[owner_acc]
           new == [acc EXCEPT !.owner = owner_acc, !.balance = total_supply]
           new_mint == [total_supply |-> total_supply, initialized |-> TRUE]
           ok == readable(owner_acc) /\ apply_init_mint_ok(m)
<1>0. /\ tokens \in [Accounts -> TokenAccount] /\ mints \in [MintAccounts -> Mint]
      /\ acc \in TokenAccount
  BY DEF IInv, TypeOK
<1>1. /\ Signed(who)
      /\ \/ UNCHANGED <<mints, tokens>>
         \/ /\ ok /\ mints' = [mints EXCEPT ![m] = new_mint]
            /\ tokens' = [tokens EXCEPT ![owner_acc] = new]
  <2> DEFINE written == [tokens EXCEPT ![owner_acc].owner = owner_acc,
                                       ![owner_acc].balance = total_supply]
  <2>1. written = [tokens EXCEPT ![owner_acc] = new]
    BY <1>0
  <2>2. Instruction(who, ok, [mints EXCEPT ![m] = new_mint], written)
    BY DEF init_mint
  <2> HIDE DEF written, ok, new, new_mint
  <2> QED BY <2>1, <2>2, InstructionCases DEF Signed
<1>2. CASE UNCHANGED <<mints, tokens>>
  BY <1>1, <1>2, RejectedEffect
<1>3. CASE /\ ok /\ mints' = [mints EXCEPT ![m] = new_mint]
           /\ tokens' = [tokens EXCEPT ![owner_acc] = new]
  <2>1. ~mints[m].initialized
    BY <1>3 DEF apply_init_mint_ok
  <2>2. acc.delegate = NoKey /\ owner_acc \in Keys
    BY Parts DEF Keys
  <2> HIDE DEF acc
  <2>3. /\ new \in TokenAccount /\ new.owner = owner_acc /\ new.delegate = acc.delegate
        /\ new.balance = total_supply
    BY <1>0, <2>2 DEF TokenAccount
  <2>4. /\ new_mint \in Mint /\ new_mint.initialized
        /\ new_mint.total_supply = total_supply
    BY DEF Mint
  <2> HIDE DEF new, new_mint
  <2>5. /\ IInv' /\ held' = insert(held, owner_acc, new.balance)
        /\ issued' = insert(issued, m, new_mint.total_supply)
        /\ mints'[m] = new_mint
    <3>1. Writes(m, new_mint, owner_acc, new)
      BY <1>3, <2>2, <2>3, <2>4 DEF Writes
    <3> QED BY <1>1, <3>1, WrittenPair
  <2>6. Initializes(m, owner_acc, total_supply)
    BY <2>1, <2>3, <2>4, <2>5 DEF Initializes
  <2> QED BY <1>1, <2>5, <2>6 DEF Effect
<1> QED BY <1>1, <1>2, <1>3

LEMMA NextEffect ==
    ASSUME IInv, Next
    PROVE  IInv' /\ \E who \in Keys : Signed(who) /\ Effect(who)
BY InitMintEffect, MintEffect, BurnEffect, TransferEffect, TransferFromEffect,
   ApproveEffect, RevokeEffect DEF Next, process_instruction

LEMMA StepIInv == IInv /\ [Next]_vars => IInv'
<1> SUFFICES ASSUME IInv, [Next]_vars PROVE IInv'
  OBVIOUS
<1>1. CASE Next
  BY <1>1, NextEffect
<1>2. CASE UNCHANGED vars
  BY <1>2 DEF vars, IInv, TypeOK
<1> QED BY <1>1, <1>2

LEMMA InvariantIInv == Spec => []IInv
  BY InitIInv, StepIInv, PTL DEF Spec

\* Whatever accounts an instruction names, contents fit their types, accounts
\* are owned by their own keys, and uninitialized mints have no supply.
THEOREM TypeCorrect == Spec => []TypeOK
<1>1. IInv => TypeOK
  BY DEF IInv
<1> QED BY <1>1, InvariantIInv, PTL

\* No approval ever succeeds: no account has a delegate, and transfer_from
\* has nothing it could ever move.
THEOREM NoDelegates == Spec => [](\A a \in Accounts : tokens[a].delegate = NoKey)
<1>1. IInv => \A a \in Accounts : tokens[a].delegate = NoKey
  BY DEF IInv
<1> QED BY <1>1, InvariantIInv, PTL

\* No instruction leaves an account behind that its next one could not read.
THEOREM AccountsStayReadable == Spec => StayReadable
<1>1. IInv /\ [Next]_vars => [\A a \in Accounts : readable(a) => readable(a)']_vars
  <2> SUFFICES ASSUME IInv, Next, NEW a \in Accounts, readable(a) PROVE readable(a)'
    OBVIOUS
  <2>1. tokens[a].delegate = NoKey /\ tokens'[a].delegate = NoKey /\ length' = length
    BY NextEffect DEF IInv, Signed
  <2> QED BY <2>1 DEF readable, encoded_length
<1> QED BY <1>1, InvariantIInv, PTL DEF Spec, StayReadable

-----------------------------------------------------------------------------
(* Who loses tokens.                                                       *)

\* Authorized, for one account and one step.
LossAuthorized(a) ==
    tokens'[a].balance < tokens[a].balance =>
       signer' \in {tokens[a].owner, tokens[a].delegate} \/ Overwrite(a)

LEMMA InitializesOverwrites ==
    ASSUME IInv, NEW m \in MintAccounts, NEW a \in Accounts, NEW amount \in Amounts,
           Initializes(m, a, amount), held[a] # 0
    PROVE  Overwrite(a)
<1>1. tokens[a].balance > 0
  BY Parts, HeldReads, MaxAmountAssumption DEF Amounts
<1>2. /\ held' = [held EXCEPT ![a] = amount] /\ issued' = [issued EXCEPT ![m] = amount]
      /\ held'[a] = amount /\ issued'[m] = amount
  <2>1. DOMAIN held = Accounts /\ DOMAIN issued = MintAccounts
    BY DEF held, issued
  <2>2. DOMAIN held \cup {a} = Accounts /\ DOMAIN issued \cup {m} = MintAccounts
    BY <2>1
  <2>3. /\ held' = [x \in Accounts |-> IF x = a THEN amount ELSE held[x]]
        /\ issued' = [x \in MintAccounts |-> IF x = m THEN amount ELSE issued[x]]
    BY <2>2 DEF Initializes, insert
  <2>4. held = [x \in Accounts |-> held[x]] /\ issued = [x \in MintAccounts |-> issued[x]]
    BY DEF held, issued
  <2> QED BY <2>3, <2>4
<1>3. ~mints[m].initialized /\ mints'[m].initialized
  BY DEF Initializes
<1> QED BY <1>1, <1>2, <1>3 DEF Overwrite

LEMMA EffectAuthorized ==
    ASSUME IInv, NEW who \in Keys, Signed(who), Effect(who), NEW a \in Accounts
    PROVE  LossAuthorized(a)
<1>1. /\ signer' = who /\ held[a] = tokens[a].balance /\ held'[a] = tokens'[a].balance
      /\ DOMAIN held = Accounts /\ DOMAIN issued = MintAccounts
      /\ \A b \in Accounts : held[b] \in Nat
  BY Parts, MaxAmountAssumption DEF Signed, held, issued, Amounts
<1>2. ASSUME NEW src \in Accounts, NEW dst \in Accounts, NEW amount \in Amounts,
             Moves(who, src, dst, amount)
      PROVE  LossAuthorized(a)
  <2>1. held'[a] = IF a = dst THEN held[dst] + amount
                   ELSE IF a = src THEN held[src] - amount ELSE held[a]
    BY <1>1, <1>2 DEF Moves, state_after_transfer, insert, balance_at
  <2>2. a # src => ~(held'[a] < held[a])
    BY <1>1, <2>1, MaxAmountAssumption DEF Amounts
  <2> QED BY <1>1, <1>2, <2>2 DEF Moves, LossAuthorized
<1>3. ASSUME NEW m \in MintAccounts, NEW dst \in Accounts, NEW amount \in Amounts,
             Mints(m, dst, amount)
      PROVE  LossAuthorized(a)
  <2>1. held'[a] = IF a = dst THEN held[dst] + amount ELSE held[a]
    BY <1>1, <1>3 DEF Mints, state_after_mint, insert, balance_at
  <2>2. ~(held'[a] < held[a])
    BY <1>1, <2>1, MaxAmountAssumption DEF Amounts
  <2> QED BY <1>1, <2>2 DEF LossAuthorized
<1>4. ASSUME NEW m \in MintAccounts, NEW src \in Accounts, NEW amount \in Amounts,
             Burns(who, m, src, amount)
      PROVE  LossAuthorized(a)
  <2>1. a # src => held'[a] = held[a]
    BY <1>1, <1>4 DEF Burns, state_after_burn, insert
  <2>2. a # src => ~(held'[a] < held[a])
    BY <1>1, <2>1
  <2> QED BY <1>1, <1>4, <2>2 DEF Burns, LossAuthorized
<1>5. ASSUME NEW m \in MintAccounts, NEW dst \in Accounts, NEW amount \in Amounts,
             Initializes(m, dst, amount), held'[a] < held[a]
      PROVE  Overwrite(a)
  <2>1. held'[a] = IF a = dst THEN amount ELSE held[a]
    BY <1>1, <1>5 DEF Initializes, insert
  <2>2. a = dst
    BY <1>1, <1>5, <2>1
  <2>3. held[a] # 0
    BY <1>1, <1>5, <2>1, <2>2, MaxAmountAssumption DEF Amounts
  <2> QED BY <1>5, <2>2, <2>3, InitializesOverwrites
<1>6. ASSUME UNCHANGED <<held, issued>>
      PROVE  LossAuthorized(a)
  BY <1>1, <1>6 DEF LossAuthorized
<1>7. ASSUME NEW m \in MintAccounts, NEW dst \in Accounts, NEW amount \in Amounts,
             Initializes(m, dst, amount)
      PROVE  LossAuthorized(a)
  BY <1>1, <1>5, <1>7 DEF LossAuthorized
<1> QED BY <1>2, <1>3, <1>4, <1>6, <1>7 DEF Effect

\* An account loses tokens only in an instruction of its owner, or when a
\* mint is initialized over it.
THEOREM OnlyAuthorized == Spec => Authorized
<1>1. IInv /\ [Next]_vars => [\A a \in Accounts : LossAuthorized(a)]_vars
  BY NextEffect, EffectAuthorized
<1>2. (\A a \in Accounts : LossAuthorized(a)) <=>
         (\A a \in Accounts :
             tokens'[a].balance < tokens[a].balance =>
                signer' \in {tokens[a].owner, tokens[a].delegate} \/ Overwrite(a))
  BY DEF LossAuthorized
<1> QED BY <1>1, <1>2, InvariantIInv, PTL DEF Spec, Authorized

-----------------------------------------------------------------------------
(* The balances and the supplies.                                          *)

\* What all mints together may issue.
Width == MaxAmount * Cardinality(MintAccounts)

LEMMA Sums ==
    ASSUME IInv
    PROVE  /\ held \in [Accounts -> Nat] /\ issued \in [MintAccounts -> Nat]
           /\ sum_balances(held) \in Nat /\ sum_balances(issued) \in Nat
           /\ Width \in Nat /\ sum_balances(issued) <= Width
<1>1. held \in [Accounts -> Nat] /\ issued \in [MintAccounts -> Nat]
  BY Parts, MaxAmountAssumption DEF Amounts
<1>2. sum_balances(held) \in Nat /\ sum_balances(issued) \in Nat
  BY <1>1, KeysAssumption, UnitsFinite
<1>3. issued \in [MintAccounts -> 0 .. MaxAmount]
  BY Parts DEF Amounts
<1>4. Width \in Nat /\ sum_balances(issued) <= Width
  BY <1>3, KeysAssumption, MaxAmountAssumption, SumBound DEF Width
<1> QED BY <1>1, <1>2, <1>4

\* How the sums change in every kind of instruction.
LEMMA MovesSums ==
    ASSUME IInv, NEW who, NEW src \in Accounts, NEW dst \in Accounts,
           NEW amount \in Amounts, Moves(who, src, dst, amount)
    PROVE  sum_balances(held') = sum_balances(held) /\ sum_balances(issued') = sum_balances(issued)
<1>1. /\ amount \in Nat /\ src # dst /\ held[src] >= amount
      /\ held' = state_after_transfer(held, src, dst, amount) /\ issued' = issued
  BY MaxAmountAssumption DEF Moves, transfer_balances_ok, Amounts
<1> QED BY <1>1, Sums, KeysAssumption, TransferPreservesSum

LEMMA MintsSums ==
    ASSUME IInv, NEW m \in MintAccounts, NEW dst \in Accounts,
           NEW amount \in Amounts, Mints(m, dst, amount)
    PROVE  /\ sum_balances(held') = sum_balances(held) + amount
           /\ sum_balances(issued') = sum_balances(issued) + amount
<1>1. amount \in Nat
  BY MaxAmountAssumption DEF Amounts
<1>2. sum_balances(state_after_mint(held, dst, amount)) = sum_balances(held) + amount
  BY <1>1, Sums, KeysAssumption, MintAddsToSum
<1>3. sum_balances(state_after_mint(issued, m, amount)) = sum_balances(issued) + amount
  BY <1>1, Sums, KeysAssumption, MintAddsToSum
<1> QED BY <1>2, <1>3 DEF Mints

LEMMA BurnsSums ==
    ASSUME IInv, NEW who, NEW m \in MintAccounts, NEW src \in Accounts,
           NEW amount \in Amounts, Burns(who, m, src, amount)
    PROVE  /\ sum_balances(held') = sum_balances(held) - amount
           /\ sum_balances(issued') = sum_balances(issued) - amount
<1>1. amount \in Nat /\ held[src] >= amount /\ issued[m] >= amount
  BY MaxAmountAssumption DEF Burns, Amounts
<1>2. sum_balances(state_after_burn(held, src, amount)) = sum_balances(held) - amount
  BY <1>1, Sums, KeysAssumption, BurnTakesFromSum
<1>3. sum_balances(state_after_burn(issued, m, amount)) = sum_balances(issued) - amount
  BY <1>1, Sums, KeysAssumption, BurnTakesFromSum
<1> QED BY <1>2, <1>3 DEF Burns

\* A new supply replaces the zero of an uninitialized mint, while the balance
\* it replaces may be anything.
LEMMA InitializesSums ==
    ASSUME IInv, NEW m \in MintAccounts, NEW dst \in Accounts,
           NEW amount \in Amounts, Initializes(m, dst, amount)
    PROVE  /\ sum_balances(held') \in Nat
           /\ sum_balances(held') + held[dst] = sum_balances(held) + amount
           /\ sum_balances(issued') = sum_balances(issued) + amount
<1>1. amount \in Nat
  BY MaxAmountAssumption DEF Amounts
<1>2. /\ sum_balances(insert(held, dst, amount)) \in Nat
      /\ sum_balances(insert(held, dst, amount)) + held[dst] = sum_balances(held) + amount
  <2>1. held \in [Accounts -> Nat] /\ IsFiniteSet(Accounts)
    BY Sums, KeysAssumption
  <2> QED BY <1>1, <2>1, SumAfterInsert
<1>3. /\ sum_balances(insert(issued, m, amount)) \in Nat
      /\ sum_balances(insert(issued, m, amount)) + issued[m] = sum_balances(issued) + amount
  <2>1. issued \in [MintAccounts -> Nat] /\ IsFiniteSet(MintAccounts)
    BY Sums, KeysAssumption
  <2> QED BY <1>1, <2>1, SumAfterInsert
<1>4. issued[m] = 0
  BY Parts, HeldReads DEF Initializes
<1> QED BY <1>2, <1>3, <1>4, Sums DEF Initializes

LEMMA EffectBacked ==
    ASSUME IInv, Backed, NEW who, Effect(who)
    PROVE  Backed'
<1>1. ASSUME NEW src \in Accounts, NEW dst \in Accounts, NEW amount \in Amounts,
             Moves(who, src, dst, amount)
      PROVE  Backed'
  BY <1>1, MovesSums DEF Backed
<1>2. ASSUME NEW m \in MintAccounts, NEW a \in Accounts, NEW amount \in Amounts,
             Mints(m, a, amount)
      PROVE  Backed'
  BY <1>2, Sums, MintsSums, MaxAmountAssumption DEF Backed, Amounts
<1>3. ASSUME NEW m \in MintAccounts, NEW a \in Accounts, NEW amount \in Amounts,
             Burns(who, m, a, amount)
      PROVE  Backed'
  BY <1>3, Sums, BurnsSums, MaxAmountAssumption DEF Backed, Amounts
<1>4. ASSUME NEW m \in MintAccounts, NEW a \in Accounts, NEW amount \in Amounts,
             Initializes(m, a, amount)
      PROVE  Backed'
  <2>1. held[a] \in Nat /\ amount \in Nat
    BY Sums, MaxAmountAssumption DEF Amounts
  <2> QED BY <1>4, <2>1, Sums, InitializesSums DEF Backed
<1>5. ASSUME UNCHANGED <<held, issued>>
      PROVE  Backed'
  BY <1>5 DEF Backed
<1> QED BY <1>1, <1>2, <1>3, <1>4, <1>5 DEF Effect

LEMMA InitSums == ASSUME Init
                  PROVE  /\ held \in [Accounts -> Amounts]
                         /\ sum_balances(held) = 0 /\ sum_balances(issued) = 0
<1>1. /\ held \in [Accounts -> Nat] /\ issued \in [MintAccounts -> Nat]
      /\ \A a \in Accounts : held[a] = 0
      /\ \A m \in MintAccounts : issued[m] = 0
  BY DEF Init, held, issued
<1>2. held \in [Accounts -> Amounts]
  BY InitIInv, Parts
<1> QED BY <1>1, <1>2, SumOfNothing

LEMMA InvariantBacked == Spec => [](IInv /\ Backed)
<1>1. Init => IInv /\ Backed
  BY InitIInv, InitSums DEF Backed
<1>2. (IInv /\ Backed) /\ [Next]_vars => (IInv /\ Backed)'
  <2> SUFFICES ASSUME IInv, Backed, [Next]_vars PROVE Backed'
    BY StepIInv
  <2>1. CASE Next
    BY <2>1, NextEffect, EffectBacked
  <2>2. CASE UNCHANGED vars
    BY <2>2 DEF vars, Backed, held, issued
  <2> QED BY <2>1, <2>2
<1> QED BY <1>1, <1>2, PTL DEF Spec

\* Whatever mint is named with whatever account, the accounts together are
\* never worth more than what the mints together have issued.
THEOREM BalancesAreBacked == Spec => []Backed
  BY InvariantBacked, PTL

-----------------------------------------------------------------------------
(* The program implements the ledger.                                      *)

\* The operators of the core, as the instance of the ledger sees them.
LEMMA SameCore ==
    ASSUME NEW m, NEW from, NEW to, NEW amount, NEW x, NEW y
    PROVE  /\ Ledger!Amounts = 0 .. Width
           /\ Ledger!sum_balances(m) = sum_balances(m)
           /\ Ledger!transfer_balances_ok(x, y, amount) <=> x >= amount /\ y + amount <= Width
           /\ Ledger!state_after_transfer(m, from, to, amount)
                = state_after_transfer(m, from, to, amount)
           /\ Ledger!state_after_mint(m, to, amount) = state_after_mint(m, to, amount)
           /\ Ledger!state_after_burn(m, from, amount) = state_after_burn(m, from, amount)
<1>1. \A n, k, v : Ledger!insert(n, k, v) = insert(n, k, v)
  BY DEF Ledger!insert, insert
<1>2. \A n, k : Ledger!balance_at(n, k) = balance_at(n, k)
  BY DEF Ledger!balance_at, balance_at
<1>3. Ledger!sum_balances(m) = sum_balances(m)
  BY DEF Ledger!sum_balances, Ledger!Units, sum_balances, Units,
         Ledger!Cardinality, Cardinality
<1>4. /\ Ledger!Amounts = 0 .. Width
      /\ Ledger!transfer_balances_ok(x, y, amount) <=> x >= amount /\ y + amount <= Width
  BY DEF Ledger!Amounts, Width, Ledger!transfer_balances_ok
<1> QED BY <1>1, <1>2, <1>3, <1>4
       DEF Ledger!state_after_transfer, state_after_transfer, Ledger!state_after_mint,
           state_after_mint, Ledger!state_after_burn, state_after_burn

\* The backing bounds every balance by the width of the ledger.
LEMMA BackedBounds ==
    ASSUME IInv, Backed, NEW a \in Accounts
    PROVE  /\ held[a] \in Nat /\ held[a] <= Width
           /\ \A b \in Accounts : a # b => held[a] + held[b] <= Width
<1>1. /\ held \in [Accounts -> Nat] /\ IsFiniteSet(Accounts)
      /\ sum_balances(held) \in Nat /\ Width \in Nat
      /\ sum_balances(held) <= Width
  BY Sums, KeysAssumption DEF Backed
<1>2. held[a] <= sum_balances(held)
  BY <1>1, BalanceBound
<1>3. \A b \in Accounts : a # b => held[a] + held[b] <= sum_balances(held)
  BY <1>1, TwoBalancesBound
<1>4. \A b \in Accounts : held[b] \in Nat
  BY <1>1
<1> QED BY <1>1, <1>2, <1>3, <1>4

\* An instruction is a step of the ledger, or overwrites an account.
LEMMA EffectOnLedger ==
    ASSUME IInv, IInv', Backed, NEW who, Effect(who)
    PROVE  \/ \E a \in Accounts : Overwrite(a)
           \/ Ledger!Next
           \/ UNCHANGED <<held, sum_balances(issued)>>
<1>0. /\ sum_balances(issued) \in Nat /\ Width \in Nat /\ sum_balances(issued) <= Width
      /\ sum_balances(issued') \in Nat /\ sum_balances(issued') <= Width
  <2>1. sum_balances(issued)' \in Nat /\ sum_balances(issued)' <= Width
    <3>1. issued' \in [MintAccounts -> 0 .. MaxAmount]
      BY DEF IInv, TypeOK, Mint, issued, Amounts
    <3>2. issued' \in [MintAccounts -> Nat]
      BY <3>1, MaxAmountAssumption
    <3>3. sum_balances(issued') \in Nat
      BY <3>2, KeysAssumption, UnitsFinite
    <3>4. sum_balances(issued') <= Width
      BY <3>1, KeysAssumption, MaxAmountAssumption, SumBound DEF Width
    <3> QED BY <3>3, <3>4
  <2> QED BY <2>1, Sums
<1>1. ASSUME NEW src \in Accounts, NEW dst \in Accounts, NEW amount \in Amounts,
             Moves(who, src, dst, amount)
      PROVE  Ledger!Next
  <2>1. /\ src # dst /\ held[src] >= amount /\ amount \in Nat
        /\ held' = state_after_transfer(held, src, dst, amount)
    BY <1>1, MaxAmountAssumption DEF Moves, transfer_balances_ok, Amounts
  <2>2. /\ held[src] \in Nat /\ held[src] <= Width
        /\ held[dst] \in Nat /\ held[src] + held[dst] <= Width
    BY <2>1, BackedBounds
  <2>3. amount \in 0 .. Width /\ held[dst] + amount <= Width
    BY <1>0, <2>1, <2>2
  <2>4. UNCHANGED sum_balances(issued)
    BY <1>1 DEF Moves
  <2>5. Ledger!Transfer(src, dst, amount)
    BY <2>1, <2>3, <2>4, SameCore DEF Ledger!Transfer
  <2> QED BY <2>3, <2>5, SameCore DEF Ledger!Next
<1>2. ASSUME NEW dst \in Accounts, NEW amount \in Amounts,
             held' = state_after_mint(held, dst, amount),
             sum_balances(issued') = sum_balances(issued) + amount
      PROVE  Ledger!Next
  <2>1. amount \in 0 .. Width /\ sum_balances(issued) + amount <= Width
    BY <1>0, <1>2, MaxAmountAssumption DEF Amounts
  <2>2. Ledger!Mint(dst, amount)
    BY <1>2, <2>1, SameCore DEF Ledger!Mint, Width
  <2> QED BY <2>1, <2>2, SameCore DEF Ledger!Next
<1>3. ASSUME NEW m \in MintAccounts, NEW src \in Accounts, NEW amount \in Amounts,
             Burns(who, m, src, amount)
      PROVE  Ledger!Next
  <2>1. held[src] >= amount /\ held' = state_after_burn(held, src, amount)
    BY <1>3 DEF Burns
  <2>2. amount \in 0 .. Width
    BY <1>0, <2>1, BackedBounds, MaxAmountAssumption DEF Amounts
  <2>3. sum_balances(issued') = sum_balances(issued) - amount
    BY <1>3, BurnsSums
  <2>4. Ledger!Burn(src, amount)
    BY <2>1, <2>3, SameCore DEF Ledger!Burn
  <2> QED BY <2>2, <2>4, SameCore DEF Ledger!Next
<1>4. ASSUME NEW m \in MintAccounts, NEW dst \in Accounts, NEW amount \in Amounts,
             Initializes(m, dst, amount)
      PROVE  Overwrite(dst) \/ Ledger!Next
  <2>1. held[dst] \in Nat /\ held[dst] = tokens[dst].balance
    BY BackedBounds, HeldReads
  <2>2. CASE held[dst] = 0
    <3>1. held' = state_after_mint(held, dst, amount)
      <4>1. balance_at(held, dst) + amount = amount
        BY <2>1, <2>2, HeldReads, MaxAmountAssumption DEF Amounts
      <4> QED BY <1>4, <4>1 DEF Initializes, state_after_mint
    <3>2. sum_balances(issued') = sum_balances(issued) + amount
      BY <1>4, InitializesSums
    <3> QED BY <1>2, <3>1, <3>2
  <2>3. CASE held[dst] # 0
    BY <1>4, <2>1, <2>3, InitializesOverwrites
  <2> QED BY <2>2, <2>3
<1>5. ASSUME NEW m \in MintAccounts, NEW dst \in Accounts, NEW amount \in Amounts,
             Mints(m, dst, amount)
      PROVE  Ledger!Next
  <2>1. sum_balances(issued') = sum_balances(issued) + amount
    BY <1>5, MintsSums
  <2> QED BY <1>2, <1>5, <2>1 DEF Mints
<1> QED BY <1>1, <1>3, <1>4, <1>5 DEF Effect

\* Over all mint accounts and all token accounts, every instruction is a
\* transfer, a mint or a burn of one abstract ledger, except where a mint is
\* initialized over an account in use.
THEOREM ImplementsLedger == Spec => LedgerSpec
<1>1. Init => Ledger!Init
  <2> SUFFICES ASSUME Init PROVE Ledger!Init
    OBVIOUS
  <2>1. held \in [Accounts -> 0 .. Width]
    <3>1. IInv /\ Backed
      BY InitIInv, InitSums DEF Backed
    <3>2. \A a \in Accounts : held[a] \in 0 .. Width
      BY <3>1, BackedBounds, Sums
    <3> QED BY <3>2 DEF held
  <2>2. sum_balances(held) = sum_balances(issued) /\ sum_balances(issued) <= Width
    BY InitSums, InitIInv, Sums
  <2> QED BY <2>1, <2>2, SameCore DEF Ledger!Init, Width
<1>2. IInv /\ Backed /\ [Next]_vars =>
         [(\E a \in Accounts : Overwrite(a)) \/ [Ledger!Next]_(Ledger!vars)]_vars
  BY NextEffect, EffectOnLedger DEF Ledger!vars
<1> QED BY <1>1, <1>2, InvariantBacked, PTL DEF Spec, LedgerSpec
=============================================================================
