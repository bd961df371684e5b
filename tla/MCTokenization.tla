---------------------------- MODULE MCTokenization ----------------------------
(* Small instances of Tokenization for TLC. *)
EXTENDS Tokenization, TLC

CONSTANTS v1, v2, sym1

ClashingSymbols == v1 :> sym1 @@ v2 :> sym1
OneSymbol == v1 :> sym1

=============================================================================
