------------------------------ MODULE MCOffering ------------------------------
(* Small instances of Offering for TLC. *)
EXTENDS Offering, TLC

CONSTANTS v1, sym1

OneSymbol == v1 :> sym1
SameInvoice == [h \in Holdings |-> v1]

Symmetry == Permutations(Slots) \cup Permutations(Holdings)

=============================================================================
