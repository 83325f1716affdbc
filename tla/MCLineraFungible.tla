-------------------------- MODULE MCLineraFungible --------------------------
(***************************************************************************)
(* LineraFungible for TLC.  The chains, the owners and the slots are       *)
(* interchangeable: Init, Next and the safety properties treat the members *)
(* of each set alike.                                                      *)
(***************************************************************************)
EXTENDS LineraFungible, TLC

Symmetry ==
    Permutations(Chains) \cup Permutations(Owners) \cup Permutations(Slots)

\* A bound that leaves room for more messages.
NoAllowances == \A c \in Chains : DOMAIN allowances[c] = {}
=============================================================================
