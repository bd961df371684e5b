-------------------------- MODULE MCMarketplaceSerial --------------------------
(***************************************************************************)
(* Marketplace with requests one after the other, beside the promise it    *)
(* keeps then.                                                             *)
(***************************************************************************)
EXTENDS MarketplaceRefinement, TLC

Symmetry == Permutations(Investors)

=============================================================================
