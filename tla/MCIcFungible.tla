---------------------------- MODULE MCIcFungible ----------------------------
(***************************************************************************)
(* IcFungible for TLC.  Principals are interchangeable; at most MaxEntries *)
(* allowances are stored at once.                                          *)
(***************************************************************************)
EXTENDS IcFungible, TLC

CONSTANT MaxEntries

Symmetry == Permutations(Principals)

FewAllowances == Cardinality(DOMAIN allowances) <= MaxEntries
=============================================================================
