--------------------------- MODULE FungibleTargets ---------------------------
(***************************************************************************)
(* One token deployed as an ink!, a NEAR, a Gear and a MultiversX contract *)
(* that get the same constructor arguments and then the same transfers.    *)
(* Each contract answers every call, a refusal included, so driving them   *)
(* together leaves none of them a behaviour less.                          *)
(*                                                                         *)
(* Only the ink! contract mints and burns, and only the MultiversX one     *)
(* takes a supply beyond a u128; from such a call on they go their own     *)
(* way.                                                                    *)
(***************************************************************************)
EXTENDS InkFungible

CONSTANTS NoState,       \* the NEAR and Gear contracts before they are initialised
          MaxSupply      \* bounds the supplies deployed on MultiversX

\* Some supplies deployed on MultiversX fit no u128, and their sums with a
\* u128 stay small enough to enumerate.
ASSUME MaxSupplyAssumption == MaxSupply \in Nat /\ MaxSupply >= MaxAmount

VARIABLES near,                  \* see NearFungible
          program, client,       \* see GearFungible
          balances_mapper, total_supply_mapper, deployed,  \* see MultiversXFungible
          supply_changed         \* history: the ink! contract was asked to mint or burn

Near == INSTANCE NearFungible WITH contract <- near
Gear == INSTANCE GearFungible
MultiversX == INSTANCE MultiversXFungible

ink == <<balances, total_supply, constructed>>
others == <<near, program, client, balances_mapper, total_supply_mapper, deployed>>

-----------------------------------------------------------------------------
TargetsInit ==
    /\ InkInit
    /\ Near!Init
    /\ Gear!Init
    /\ MultiversX!Init
    /\ supply_changed = FALSE

Deploy(caller, supply) ==
    /\ new(caller, supply)
    /\ Near!new(caller, supply)
    /\ Gear!init(caller, supply)
    /\ MultiversX!init(caller, supply)
    /\ UNCHANGED supply_changed

TransferAll(caller, to, amount) ==
    /\ transfer(caller, to, amount)
    /\ Near!verified_transfer(caller, to, amount)
    /\ Gear!handle_Transfer(caller, to, amount)
    /\ MultiversX!transfer(caller, to, amount)
    /\ UNCHANGED supply_changed

AskGear(account) ==
    /\ Gear!handle_BalanceOf(account)
    /\ UNCHANGED <<ink, env_caller, near, supply_changed>>
    /\ UNCHANGED <<balances_mapper, total_supply_mapper, deployed>>

\* A token whose supply the other contracts could not be given.
OnlyMultiversX(caller) ==
    /\ ~constructed
    /\ \E amount \in MultiversX!BigUints :
          \/ amount > MaxAmount /\ MultiversX!init(caller, amount)
          \/ \E to \in Accounts : MultiversX!transfer(caller, to, amount)
    /\ UNCHANGED <<ink, near, program, client, supply_changed>>

MintOrBurn(caller, amount) ==
    /\ \/ \E to \in Accounts : mint(to, amount)
       \/ burn(caller, amount)
    /\ supply_changed' = TRUE
    /\ UNCHANGED others

TargetsNext ==
    \/ \E caller \in Accounts :
          /\ env_caller' = caller
          /\ \/ \E amount \in Amounts :
                  \/ ~deployed /\ Deploy(caller, amount)
                  \/ \E to \in Accounts : TransferAll(caller, to, amount)
                  \/ MintOrBurn(caller, amount)
             \/ OnlyMultiversX(caller)
    \/ \E account \in Accounts : AskGear(account)

TargetsSpec ==
    TargetsInit /\ [][TargetsNext]_<<ink, others, env_caller, supply_changed>>

-----------------------------------------------------------------------------
(* Properties.                                                             *)

\* The chain makes no difference: until one of them is asked to mint or burn,
\* the four contracts hold the same balances, whatever was transferred or
\* refused, although only three of them check the receiver's new balance.  The
\* replies of the Gear program always tell a client the same balances.
BalancesAgree ==
    constructed =>
        \A a \in Accounts :
            /\ Near!balance_of(a) = Gear!read_balance(a)
            /\ Near!balance_of(a) = balances_mapper[a]
            /\ Near!balance_of(a) = client[a]
            /\ ~supply_changed => Near!balance_of(a) = balance_of(a)

\* Without an overflow check, the MultiversX contract conserves also a supply
\* that no u128 can hold.
AnySupplyConserved == sum_balances(balances_mapper) = total_supply_mapper

\* Only the caller loses tokens, on every chain, although anybody may mint and
\* burn on one of them.
OnlyCallerPays ==
    [][\A a \in Accounts :
          (\/ balance_of(a)' < balance_of(a)
           \/ balances_mapper[a]' < balances_mapper[a]
           \/ constructed /\ Near!balance_of(a)' < Near!balance_of(a))
          => a = env_caller']_<<ink, others>>
=============================================================================
