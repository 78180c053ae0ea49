----------------------------- MODULE MCCharset -----------------------------
(***************************************************************************)
(* Charset.tla with three sets of four characters.                         *)
(***************************************************************************)
EXTENDS Charset, TLC

CONSTANTS left, right, other

MCAddress == {left, right, other}
MCPredicates == {{0, 1, 3}, {2}}
AddressSymmetry == Permutations(MCAddress)
=============================================================================
