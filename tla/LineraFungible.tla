--------------------------- MODULE LineraFungible ---------------------------
(***************************************************************************)
(* The Linera fungible-token application                                   *)
(* (fungible_application_examples/linera_alternate): one instance of the   *)
(* contract per microchain, each with its own accounts and allowances,     *)
(* exchanging Credit and Withdraw messages.                                *)
(*                                                                         *)
(* Every operation and every message handler is one action: a handler      *)
(* that panics fails its block, which is rolled back, so only the steps    *)
(* that succeed change the state.  The runtime that carries the messages   *)
(* is not part of the repository; it is modelled from how the contract and *)
(* its tests use it.  A message in transit occupies a slot until the       *)
(* destination executes or rejects it; slots carry no order, so messages   *)
(* may overtake each other.                                                *)
(***************************************************************************)
EXTENDS FungibleCore

CONSTANTS Chains,        \* microchains (ChainId)
          Owners,        \* account owners (AccountOwner)
          Slots,         \* messages in transit at once: a bound of the model
          MaxSupply,     \* largest sum of the initial accounts: a bound
          NoMessage,     \* content of a free slot
          NoSigner

ASSUME SetsAssumption ==
    /\ IsFiniteSet(Chains)
    /\ IsFiniteSet(Owners)
    /\ IsFiniteSet(Slots)
ASSUME MaxSupplyAssumption == MaxSupply \in Nat
\* A slot is not an account, so that both can hold tokens of one ledger.
ASSUME SlotsAssumption == Slots \cap (Chains \X Owners) = {}

VARIABLES accounts,      \* FungibleTokenState::accounts of every chain
          allowances,    \* FungibleTokenState::allowances of every chain
          mail,          \* messages in transit
          supply,        \* history: tokens created by instantiate
          signer         \* history: authenticated signer of the last block step

vars == <<accounts, allowances, mail, supply, signer>>

Account == [chain_id : Chains, owner : Owners]

Message ==
    [type : {"Credit"}, target : Owners, amount : Amounts, source : Owners]
    \cup [type : {"Withdraw"}, owner : Owners, amount : Amounts,
          target_account : Account]

\* A message with what the runtime records about it: prepare_message,
\* with_authentication (signer), with_tracking, send_to; bouncing is what
\* message_is_bouncing reports to the handler.
Envelope ==
    [message : Message, origin : Chains, dest : Chains, signer : Owners,
     tracked : BOOLEAN, bouncing : BOOLEAN]

\* A free slot holds no message.
ASSUME NoMessageAssumption == NoMessage \notin Envelope

IsCredit(e) == e # NoMessage /\ e.message.type = "Credit"
IsWithdraw(e) == e # NoMessage /\ e.message.type = "Withdraw"

-----------------------------------------------------------------------------
(* FungibleTokenState: pure updates of one chain's maps.                   *)

saturating_add(x, y) == IF x + y <= MaxAmount THEN x + y ELSE MaxAmount

\* A zero entry is removed rather than stored.
store(m, k, v) == IF v = 0 THEN remove(m, k) ELSE insert(m, k, v)

\* Mutant: without the early return, a zero credit creates an empty entry.
credit_storing_zero(m, account, amount) ==
    insert(m, account, saturating_add(balance_at(m, account), amount))

\* Mutant: the credited amount replaces the balance.
credit_overwriting(m, account, amount) ==
    IF amount = 0 THEN m ELSE insert(m, account, amount)

credit(m, account, amount) ==
    IF amount = 0 THEN m
    ELSE insert(m, account, saturating_add(balance_at(m, account), amount))

debit_ok(m, account, amount) == balance_at(m, account) >= amount

\* Mutant: the debited balance is never written back when it becomes zero.
debit_keeping_last(m, account, amount) ==
    IF amount = balance_at(m, account) THEN m
    ELSE insert(m, account, balance_at(m, account) - amount)

debit(m, account, amount) ==
    IF amount = 0 THEN m
    ELSE store(m, account, balance_at(m, account) - amount)

approve(m, owner, spender, allowance) == store(m, <<owner, spender>>, allowance)

\* OwnerSpender::new panics when both are the same account.
owner_spender_ok(owner, spender) == owner # spender

debit_for_transfer_from_ok(m, allowed, owner, spender, amount) ==
    \/ amount = 0
    \/ /\ debit_ok(m, owner, amount)
       /\ owner_spender_ok(owner, spender)
       /\ balance_at(allowed, <<owner, spender>>) >= amount

\* Mutant: the allowance is checked but not used up.
allowance_not_decremented(allowed, owner, spender, amount) == allowed

\* The allowance left after debit_for_transfer_from; its debit is debit.
allowance_after_transfer_from(allowed, owner, spender, amount) ==
    IF amount = 0 THEN allowed
    ELSE store(allowed, <<owner, spender>>,
               balance_at(allowed, <<owner, spender>>) - amount)

-----------------------------------------------------------------------------
(* Instantiation on the creator chain; every other chain starts empty.     *)

Init ==
    /\ \E creator \in Chains, initial \in [Owners -> Amounts] :
          /\ sum_balances(initial) \in 1 .. MaxSupply
          /\ accounts = [c \in Chains |->
                IF c = creator
                THEN [o \in {x \in Owners : initial[x] # 0} |-> initial[o]]
                ELSE [o \in {} |-> 0]]
          /\ supply = sum_balances(initial)
    /\ allowances = [c \in Chains |-> [p \in {} |-> 0]]
    /\ mail = [s \in Slots |-> NoMessage]
    /\ signer = NoSigner

-----------------------------------------------------------------------------
(* Sending and the last step of every transfer.                            *)

\* The runtime accepts a step acting for owner from this signer only.
check_account_permission(who, owner) == who = owner

Send(rest, envelope) ==
    \E s \in {x \in Slots : rest[x] = NoMessage} :
        mail' = [rest EXCEPT ![s] = envelope]

\* The tokens of an account of chain c, already debited from its map, go to
\* target_account.  rest is the mailbox without the message being executed.
finish_transfer_to_account(c, who, debited, rest, amount, target_account, source) ==
    \/ /\ target_account.chain_id = c
       /\ accounts' = [accounts EXCEPT ![c] =
                          credit(debited, target_account.owner, amount)]
       /\ mail' = rest
    \/ /\ target_account.chain_id # c
       /\ accounts' = [accounts EXCEPT ![c] = debited]
       /\ Send(rest, [message |-> [type |-> "Credit", amount |-> amount,
                                   target |-> target_account.owner,
                                   source |-> source],
                      origin |-> c, dest |-> target_account.chain_id,
                      signer |-> who, tracked |-> TRUE, bouncing |-> FALSE])

\* debit followed by finish_transfer_to_account.
DebitAndFinish(c, who, owner, rest, amount, target_account) ==
    /\ debit_ok(accounts[c], owner, amount)
    /\ finish_transfer_to_account(c, who, debit(accounts[c], owner, amount),
                                  rest, amount, target_account, owner)

-----------------------------------------------------------------------------
(* execute_operation, in a block of chain c signed by who.                 *)

Approve(c, who, owner, spender, allowance) ==
    /\ check_account_permission(who, owner)
    /\ owner_spender_ok(owner, spender)
    /\ allowances' = [allowances EXCEPT ![c] =
                         approve(allowances[c], owner, spender, allowance)]
    /\ signer' = who
    /\ UNCHANGED <<accounts, mail, supply>>

Transfer(c, who, owner, amount, target_account) ==
    /\ check_account_permission(who, owner)
    /\ DebitAndFinish(c, who, owner, mail, amount, target_account)
    /\ signer' = who
    /\ UNCHANGED <<allowances, supply>>

\* Mutant: the Credit names the spender as the account to refund.
TransferFromRefundingSpender(c, who, owner, spender, amount, target_account) ==
    /\ check_account_permission(who, spender)
    /\ debit_for_transfer_from_ok(accounts[c], allowances[c], owner, spender, amount)
    /\ allowances' = [allowances EXCEPT ![c] =
          allowance_after_transfer_from(allowances[c], owner, spender, amount)]
    /\ finish_transfer_to_account(c, who, debit(accounts[c], owner, amount),
                                  mail, amount, target_account, spender)
    /\ signer' = who
    /\ UNCHANGED supply

TransferFrom(c, who, owner, spender, amount, target_account) ==
    /\ check_account_permission(who, spender)
    /\ debit_for_transfer_from_ok(accounts[c], allowances[c], owner, spender, amount)
    /\ allowances' = [allowances EXCEPT ![c] =
          allowance_after_transfer_from(allowances[c], owner, spender, amount)]
    /\ finish_transfer_to_account(c, who, debit(accounts[c], owner, amount),
                                  mail, amount, target_account, owner)
    /\ signer' = who
    /\ UNCHANGED supply

\* Mutant: a claim on the local chain forgets the debit.
claim_without_debit(c, who, source_account, amount, target_account) ==
    /\ source_account.chain_id = c
    /\ debit_ok(accounts[c], source_account.owner, amount)
    /\ finish_transfer_to_account(c, who, accounts[c], mail, amount,
                                  target_account, source_account.owner)

\* The Withdraw message is authenticated but, unlike a Credit, not tracked.
claim(c, who, source_account, amount, target_account) ==
    \/ /\ source_account.chain_id = c
       /\ DebitAndFinish(c, who, source_account.owner, mail, amount, target_account)
    \/ /\ source_account.chain_id # c
       /\ Send(mail, [message |-> [type |-> "Withdraw",
                                   owner |-> source_account.owner,
                                   amount |-> amount,
                                   target_account |-> target_account],
                      origin |-> c, dest |-> source_account.chain_id,
                      signer |-> who, tracked |-> FALSE, bouncing |-> FALSE])
       /\ UNCHANGED accounts

Claim(c, who, source_account, amount, target_account) ==
    /\ check_account_permission(who, source_account.owner)
    /\ claim(c, who, source_account, amount, target_account)
    /\ signer' = who
    /\ UNCHANGED <<allowances, supply>>

-----------------------------------------------------------------------------
(* execute_message, in a block of the destination chain.                   *)

Consumed(s) == [mail EXCEPT ![s] = NoMessage]

\* A bounced Credit goes back to the account that paid for it.
receiver(e) == IF e.bouncing THEN e.message.source ELSE e.message.target

\* Mutant: a credit that would overflow is refused instead of saturating.
ExecuteCreditChecked(s) ==
    /\ IsCredit(mail[s])
    /\ LET e == mail[s]
       IN  /\ balance_at(accounts[e.dest], receiver(e)) + e.message.amount <= MaxAmount
           /\ accounts' = [accounts EXCEPT ![e.dest] =
                               credit(accounts[e.dest], receiver(e), e.message.amount)]
    /\ mail' = Consumed(s)
    /\ signer' = mail[s].signer
    /\ UNCHANGED <<allowances, supply>>

ExecuteCredit(s) ==
    /\ IsCredit(mail[s])
    /\ LET e == mail[s]
       IN  accounts' = [accounts EXCEPT ![e.dest] =
                           credit(accounts[e.dest], receiver(e), e.message.amount)]
    /\ mail' = Consumed(s)
    /\ signer' = mail[s].signer
    /\ UNCHANGED <<allowances, supply>>

ExecuteWithdraw(s) ==
    /\ IsWithdraw(mail[s])
    /\ check_account_permission(mail[s].signer, mail[s].message.owner)
    /\ DebitAndFinish(mail[s].dest, mail[s].signer, mail[s].message.owner,
                      Consumed(s), mail[s].message.amount,
                      mail[s].message.target_account)
    /\ signer' = mail[s].signer
    /\ UNCHANGED <<allowances, supply>>

\* The destination chain rejects a message: the runtime sends a tracked one
\* back to its origin as bouncing and discards an untracked one.  A bounced
\* message is assumed never to be rejected again.
RejectMessage(s) ==
    /\ mail[s] # NoMessage
    /\ ~mail[s].bouncing
    /\ mail' = IF mail[s].tracked
               THEN [mail EXCEPT ![s].bouncing = TRUE,
                                 ![s].origin = mail[s].dest,
                                 ![s].dest = mail[s].origin]
               ELSE Consumed(s)
    /\ signer' = NoSigner
    /\ UNCHANGED <<accounts, allowances, supply>>

-----------------------------------------------------------------------------
Operation(c, who) ==
    \/ \E owner, spender \in Owners, allowance \in Amounts :
          Approve(c, who, owner, spender, allowance)
    \/ \E owner \in Owners, amount \in Amounts, target_account \in Account :
          Transfer(c, who, owner, amount, target_account)
    \/ \E owner, spender \in Owners, amount \in Amounts, target_account \in Account :
          TransferFrom(c, who, owner, spender, amount, target_account)
    \/ \E amount \in Amounts, source_account, target_account \in Account :
          Claim(c, who, source_account, amount, target_account)

ExecuteMessage(s) == ExecuteCredit(s) \/ ExecuteWithdraw(s)

Next ==
    \/ \E c \in Chains, who \in Owners : Operation(c, who)
    \/ \E s \in Slots : ExecuteMessage(s) \/ RejectMessage(s)

Spec == Init /\ [][Next]_vars

\* Chains keep producing blocks: whatever waits in an inbox is executed or,
\* when its handler panics, rejected; a Credit that can be executed is not
\* kept waiting by the choice to reject.
Fairness == \A s \in Slots : WF_vars(ExecuteMessage(s) \/ RejectMessage(s))

FairSpec == Spec /\ Fairness

-----------------------------------------------------------------------------
(* Where the tokens are: in the accounts of every chain and, while a        *)
(* Credit is in transit, in the slot that holds it.                         *)

Balance(c, o) == balance_at(accounts[c], o)
Allowance(c, owner, spender) == balance_at(allowances[c], <<owner, spender>>)
InFlight(s) == IF IsCredit(mail[s]) THEN mail[s].message.amount ELSE 0

Holders == (Chains \X Owners) \cup Slots
Holdings ==
    [x \in Holders |-> IF x \in Slots THEN InFlight(x) ELSE Balance(x[1], x[2])]

Tokens == sum_balances(Holdings)

-----------------------------------------------------------------------------
(* Properties.                                                             *)

\* Balances and allowances fit a u128 and no entry is ever left at zero:
\* credit, debit, approve and debit_for_transfer_from remove an entry that
\* becomes empty, and the tests expect an emptied account to be absent.
TypeOK ==
    /\ DOMAIN accounts = Chains /\ DOMAIN allowances = Chains
    /\ \A c \in Chains :
          /\ is_map(accounts[c], Owners, Amounts \ {0})
          /\ is_map(allowances[c], Owners \X Owners, Amounts \ {0})
    /\ mail \in [Slots -> Envelope \cup {NoMessage}]
    /\ supply \in 1 .. MaxSupply
    /\ signer \in Owners \cup {NoSigner}

\* Whatever chains, messages, rejections and refunds do, the accounts of all
\* chains and the credits in transit together hold what instantiate created
\* (as long as that is an amount one account could hold).
Conservation == Tokens = supply

\* Tokens are never created after instantiate, even where credit saturates.
NoInflation == [][Tokens' <= Tokens]_vars

\* An account only loses tokens in a step its owner signed, or in a step of a
\* spender who gives up exactly as much of the allowance that owner granted;
\* an allowance only grows in a step the owner signed.
Authorized ==
    [][/\ \A c \in Chains, o \in Owners :
             Balance(c, o)' < Balance(c, o) =>
                \/ signer' = o
                \/ \E spender \in Owners :
                      /\ signer' = spender
                      /\ Allowance(c, o, spender)
                           = Allowance(c, o, spender)' + (Balance(c, o) - Balance(c, o)')
       /\ \A c \in Chains, o, spender \in Owners :
             Allowance(c, o, spender)' > Allowance(c, o, spender) => signer' = o]_vars

\* The account a Credit would be refunded to is the one that paid for it, and
\* a Credit that comes back is refunded there (up to the largest balance).
PayerIsRefunded ==
    [][\A s \in Slots :
          /\ IsCredit(mail'[s]) /\ ~mail'[s].bouncing /\ mail'[s] # mail[s] =>
                LET e == mail'[s]
                IN  Balance(e.origin, e.message.source)
                       = balance_at(accounts'[e.origin], e.message.source)
                            + e.message.amount
          /\ IsCredit(mail[s]) /\ mail[s].bouncing /\ mail'[s] # mail[s] =>
                LET e == mail[s]
                IN  balance_at(accounts'[e.dest], e.message.source)
                       = saturating_add(Balance(e.dest, e.message.source),
                                        e.message.amount)]_vars

\* No message is stuck: tokens in transit always reach an account, whether
\* the destination accepts them, rejects them or has no room left for them.
Delivery == \A s \in Slots : mail[s] # NoMessage ~> mail[s] = NoMessage

\* Every step is a transfer of the abstract ledger whose accounts are those of
\* all the chains and the slots of the messages in transit.
Ledger == INSTANCE FungibleLedger WITH
             Accounts <- Holders, balances <- Holdings, total_supply <- supply
LedgerSpec == Ledger!Spec
=============================================================================
