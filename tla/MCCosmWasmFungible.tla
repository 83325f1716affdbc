------------------------- MODULE MCCosmWasmFungible -------------------------
(***************************************************************************)
(* CosmWasmFungible for TLC.  Addresses are interchangeable; at most       *)
(* MaxEntries allowances are stored at once.                               *)
(***************************************************************************)
EXTENDS CosmWasmFungible, TLC

CONSTANT MaxEntries

Symmetry == Permutations(Addrs)

FewAllowances == Cardinality(DOMAIN allowances) <= MaxEntries
=============================================================================
