--------------------------- MODULE SolanaFungible ---------------------------
(***************************************************************************)
(* The Solana fungible-token program                                       *)
(* (fungible_application_examples/solana): seven instructions over mint    *)
(* and token accounts that the caller of an instruction names, each held,  *)
(* Borsh-encoded, in a data buffer whose size its creator fixed.           *)
(*                                                                         *)
(* An instruction decodes the accounts it is given, computes new contents  *)
(* from the decoded copies and encodes them back.  The runtime undoes      *)
(* everything an instruction wrote when it fails; outcome remembers how    *)
(* the last one ended.                                                     *)
(***************************************************************************)
EXTENDS FungibleCore

CONSTANTS Accounts,      \* addresses of the token accounts
          Wallets,       \* other keys that can sign
          MintAccounts,  \* addresses of the mint accounts
          DefaultKey,    \* Pubkey::default(), for which nobody can sign
          NoKey          \* None

Keys == Accounts \cup Wallets

ASSUME KeysAssumption ==
    /\ IsFiniteSet(Accounts) /\ IsFiniteSet(MintAccounts)
    /\ DefaultKey \notin Keys /\ NoKey \notin Keys /\ DefaultKey # NoKey

VARIABLES mints,         \* contents of the mint accounts
          tokens,        \* contents of the token accounts
          length,        \* size of the data buffer of every token account
          signer,        \* history: the key that signed the last instruction
          outcome        \* history: its result

vars == <<mints, tokens, length, signer, outcome>>

Mint == [total_supply : Amounts, initialized : BOOLEAN]
TokenAccount == [owner : Keys \cup {DefaultKey}, balance : Amounts,
                 delegate : Keys \cup {NoKey}, delegated_amount : Amounts]

-----------------------------------------------------------------------------
(* Account buffers.                                                        *)

\* Bytes of an encoded TokenAccount: delegate takes one byte, and 32 more
\* for the key when there is one.
encoded_length(td) == IF td.delegate = NoKey THEN 65 ELSE 97

\* try_from_slice wants the encoding to fill the buffer exactly.
readable(a) == encoded_length(tokens[a]) = length[a]

\* serialize into a buffer that is too short fails.
writable(a, td) == encoded_length(td) <= length[a]

\* Mutant: contents are written however short the buffer is.
Instruction_unsized(who, ok, new_mints, new_tokens) ==
    /\ signer' = who
    /\ IF ok
       THEN mints' = new_mints /\ tokens' = new_tokens /\ outcome' = "Ok"
       ELSE UNCHANGED <<mints, tokens>> /\ outcome' = "Rejected"
    /\ UNCHANGED length

\* An instruction who signed: ok when its checks pass, and then what it
\* writes to the mint and token accounts.
Instruction(who, ok, new_mints, new_tokens) ==
    /\ signer' = who
    /\ \/ /\ ok
          /\ \A a \in Accounts : writable(a, new_tokens[a])
          /\ mints' = new_mints
          /\ tokens' = new_tokens
          /\ outcome' = "Ok"
       \/ /\ ok
          /\ \E a \in Accounts : ~writable(a, new_tokens[a])
          /\ outcome' = "DeserializationFailed"
          /\ UNCHANGED <<mints, tokens>>
       \/ /\ ~ok
          /\ outcome' = "Rejected"
          /\ UNCHANGED <<mints, tokens>>
    /\ UNCHANGED length

\* src is written back before dst: with one account as both, dst remains.
write_both(src, src_acc, dst, dst_acc) ==
    [tokens EXCEPT ![src] = src_acc, ![dst] = dst_acc]

-----------------------------------------------------------------------------
\* The runtime zeroes the buffer of a new account.
Init ==
    /\ mints = [m \in MintAccounts |-> [total_supply |-> 0, initialized |-> FALSE]]
    /\ tokens = [a \in Accounts |-> [owner |-> DefaultKey, balance |-> 0,
                                     delegate |-> NoKey, delegated_amount |-> 0]]
    /\ length \in [Accounts -> {65, 97}]
    /\ signer = NoKey
    /\ outcome = "Ok"

\* Mutant: a mint can be initialized again.
apply_init_mint_ok_again(m) == TRUE

apply_init_mint_ok(m) == ~mints[m].initialized

\* Anybody may send this instruction: it checks no signature.
init_mint(who, m, owner_acc, total_supply) ==
    Instruction(who,
        readable(owner_acc) /\ apply_init_mint_ok(m),
        [mints EXCEPT ![m] = [total_supply |-> total_supply, initialized |-> TRUE]],
        [tokens EXCEPT ![owner_acc].owner = owner_acc,
                       ![owner_acc].balance = total_supply])

\* Mutant: the destination may belong to the signer too.
apply_transfer_ok_to_self(src, dst, signer_key, amount) ==
    /\ tokens[src].owner = signer_key
    /\ transfer_balances_ok(tokens[src].balance, tokens[dst].balance, amount)

apply_transfer_ok(src, dst, signer_key, amount) ==
    /\ tokens[src].owner = signer_key
    /\ signer_key # tokens[dst].owner
    /\ transfer_balances_ok(tokens[src].balance, tokens[dst].balance, amount)

verified_transfer_instruction(who, src, dst, amount) ==
    Instruction(who,
        readable(src) /\ readable(dst) /\ apply_transfer_ok(src, dst, who, amount),
        mints,
        write_both(src, [tokens[src] EXCEPT !.balance = @ - amount],
                   dst, [tokens[dst] EXCEPT !.balance = @ + amount]))

apply_approve_ok(src, signer_key) == tokens[src].owner = signer_key

approve(who, src, delegate_key, amount) ==
    Instruction(who,
        readable(src) /\ apply_approve_ok(src, who),
        mints,
        [tokens EXCEPT ![src].delegate = delegate_key,
                       ![src].delegated_amount = amount])

apply_revoke_ok(src, signer_key) == tokens[src].owner = signer_key

revoke(who, src) ==
    Instruction(who,
        readable(src) /\ apply_revoke_ok(src, who),
        mints,
        [tokens EXCEPT ![src].delegate = NoKey, ![src].delegated_amount = 0])

apply_transfer_from_ok(src, dst, spender_key, amount) ==
    /\ tokens[src].delegate = spender_key
    /\ tokens[src].delegated_amount >= amount
    /\ spender_key # tokens[dst].owner
    /\ transfer_balances_ok(tokens[src].balance, tokens[dst].balance, amount)

transfer_from(who, src, dst, amount) ==
    Instruction(who,
        readable(src) /\ readable(dst) /\ apply_transfer_from_ok(src, dst, who, amount),
        mints,
        write_both(src, [tokens[src] EXCEPT !.balance = @ - amount,
                                            !.delegated_amount = @ - amount],
                   dst, [tokens[dst] EXCEPT !.balance = @ + amount]))

\* Mutant: only the balance is checked.
apply_mint_ok_unchecked(m, dst, amount) ==
    /\ mints[m].initialized
    /\ tokens[dst].balance + amount <= MaxAmount

apply_mint_ok(m, dst, amount) ==
    /\ mints[m].initialized
    /\ mints[m].total_supply + amount <= MaxAmount
    /\ tokens[dst].balance + amount <= MaxAmount

\* Every signer may mint.
mint(who, m, dst, amount) ==
    Instruction(who,
        readable(dst) /\ apply_mint_ok(m, dst, amount),
        [mints EXCEPT ![m].total_supply = @ + amount],
        [tokens EXCEPT ![dst].balance = @ + amount])

\* Mutant: the signer need not own the account.
apply_burn_ok_by_anyone(m, src, signer_key, amount) ==
    /\ tokens[src].balance >= amount
    /\ mints[m].total_supply >= amount

apply_burn_ok(m, src, signer_key, amount) ==
    /\ tokens[src].owner = signer_key
    /\ tokens[src].balance >= amount
    /\ mints[m].total_supply >= amount

burn(who, m, src, amount) ==
    Instruction(who,
        readable(src) /\ apply_burn_ok(m, src, who, amount),
        [mints EXCEPT ![m].total_supply = @ - amount],
        [tokens EXCEPT ![src].balance = @ - amount])

\* process_instruction, with a signature of who on the first account where
\* the instruction wants one.
process_instruction(who) ==
    \/ \E m \in MintAccounts, a \in Accounts, amount \in Amounts :
          \/ init_mint(who, m, a, amount)
          \/ mint(who, m, a, amount)
          \/ burn(who, m, a, amount)
    \/ \E src, dst \in Accounts, amount \in Amounts :
          \/ verified_transfer_instruction(who, src, dst, amount)
          \/ transfer_from(who, src, dst, amount)
    \/ \E src \in Accounts, delegate_key \in Keys, amount \in Amounts :
          approve(who, src, delegate_key, amount)
    \/ \E src \in Accounts : revoke(who, src)

Next == \E who \in Keys : process_instruction(who)

Spec == Init /\ [][Next]_vars

-----------------------------------------------------------------------------
(* Properties.                                                             *)

\* The contents fit their types; an account that was given an owner is owned
\* by its own key, and a mint has no supply before it is initialized.
TypeOK ==
    /\ mints \in [MintAccounts -> Mint]
    /\ tokens \in [Accounts -> TokenAccount]
    /\ length \in [Accounts -> {65, 97}]
    /\ signer \in Keys \cup {NoKey}
    /\ outcome \in {"Ok", "Rejected", "DeserializationFailed"}
    /\ \A a \in Accounts : tokens[a].owner \in {a, DefaultKey}
    /\ \A m \in MintAccounts : ~mints[m].initialized => mints[m].total_supply = 0

\* No instruction leaves an account in a state no later one can read.
StayReadable == [][\A a \in Accounts : readable(a) => readable(a)']_vars

held == [a \in Accounts |-> tokens[a].balance]
issued == [m \in MintAccounts |-> mints[m].total_supply]

\* A mint is initialized with an account that is in use: all the account gets
\* is the supply of this mint, in place of what it held.
Overwrite(a) ==
    /\ tokens[a].balance > 0
    /\ \E m \in MintAccounts :
          /\ ~mints[m].initialized /\ mints'[m].initialized
          /\ issued' = [issued EXCEPT ![m] = held'[a]]
          /\ held' = [held EXCEPT ![a] = issued'[m]]

\* An account loses tokens only in an instruction its owner signed, or one of
\* its delegate, or that overwrites it; an account nobody owns only in the
\* last of these.
Authorized ==
    [][\A a \in Accounts :
          tokens'[a].balance < tokens[a].balance =>
             signer' \in {tokens[a].owner, tokens[a].delegate} \/ Overwrite(a)]_vars

\* No account is worth anything that no mint issued: although mint and burn
\* may name any mint with any account, and an account in use may be
\* overwritten, the balances never exceed the supplies of all mints.
Backed == sum_balances(held) <= sum_balances(issued)

\* Whatever accounts an instruction names, its effect on the balances and the
\* supplies of all mints is a step of one abstract ledger, which is as wide
\* as they are together; only an overwritten account leaves this ledger.
Ledger == INSTANCE FungibleLedger WITH
             MaxAmount <- MaxAmount * Cardinality(MintAccounts),
             balances <- held,
             total_supply <- sum_balances(issued)
LedgerSpec ==
    /\ Ledger!Init
    /\ [][(\E a \in Accounts : Overwrite(a)) \/ [Ledger!Next]_Ledger!vars]_vars

\* Borsh round trip: contents an instruction computed can be written back.
WritesSucceed == outcome # "DeserializationFailed"
=============================================================================
