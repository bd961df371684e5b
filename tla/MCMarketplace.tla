---------------------------- MODULE MCMarketplace ----------------------------
(* Small instances of Marketplace for TLC. *)
EXTENDS Marketplace, TLC

Symmetry == Permutations(Investors) \cup Permutations(Slots)

=============================================================================
