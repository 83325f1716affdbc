---------------------------- MODULE GearFungible ----------------------------
(***************************************************************************)
(* The Gear fungible program (fungible_application_examples/gear): init    *)
(* and the two actions handle dispatches, each answered with a reply.      *)
(* Other programs know the token only through the replies: a client that   *)
(* starts from the init payload and applies every Transferred reply keeps  *)
(* balances of its own.                                                    *)
(*                                                                         *)
(* A panic, also the one of expect on the result of msg::reply, undoes     *)
(* the whole message.                                                      *)
(***************************************************************************)
EXTENDS FungibleCore

CONSTANTS Accounts,      \* the ActorIds
          NoState        \* None

VARIABLES program,       \* STATE: Option<Fungible>
          client         \* history: the balances a client computes from the replies

vars == <<program, client>>

-----------------------------------------------------------------------------
Init ==
    /\ program = NoState
    /\ client = [a \in Accounts |-> 0]

\* The Gear runtime runs init once, before any handle.
init(owner, total_supply) ==
    /\ program = NoState
    /\ program' = [total_supply |-> total_supply,
                   balances |-> insert([a \in {} |-> 0], owner, total_supply)]
    /\ client' = [client EXCEPT ![owner] = total_supply]

read_balance(account) == balance_at(program.balances, account)

apply_transfer_ok(sender, receiver, amount) ==
    /\ sender # receiver
    /\ transfer_balances_ok(read_balance(sender), read_balance(receiver), amount)

\* msg::reply(Event::Transferred), as the client understands it.
reply_Transferred(from, to, amount) ==
    client' = [client EXCEPT ![from] = @ - amount, ![to] = @ + amount]

\* Mutant: the reply is sent although the transfer failed.
handle_Transfer_replying_anyway(source, to, amount) ==
    /\ program # NoState
    /\ IF apply_transfer_ok(source, to, amount)
       THEN program' = [program EXCEPT
                          !.balances = state_after_transfer(@, source, to, amount)]
       ELSE UNCHANGED program
    /\ reply_Transferred(source, to, amount)

\* Action::Transfer.  A TransferError, like an absent STATE, is a panic.
handle_Transfer(source, to, amount) ==
    /\ program # NoState
    /\ \/ /\ apply_transfer_ok(source, to, amount)
          /\ program' = [program EXCEPT
                          !.balances = state_after_transfer(@, source, to, amount)]
          /\ reply_Transferred(source, to, amount)
       \/ /\ ~apply_transfer_ok(source, to, amount)
          /\ UNCHANGED vars

\* Action::BalanceOf replies Event::Balance; the client stores what it learns.
handle_BalanceOf(account) ==
    /\ program # NoState
    /\ client' = [client EXCEPT ![account] = read_balance(account)]
    /\ UNCHANGED program

Next ==
    \E source, account \in Accounts, amount \in Amounts :
       \/ init(account, amount)
       \/ handle_Transfer(source, account, amount)
       \/ handle_BalanceOf(account)

Spec == Init /\ [][Next]_vars
=============================================================================
