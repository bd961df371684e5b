-------------------------------- MODULE MCDesk --------------------------------
(* Small instances of Desk for TLC. *)
EXTENDS Desk, TLC

Symmetry == Permutations(Slots) \cup Permutations(Investors) \cup Permutations(OtherRows)

=============================================================================
