-------------------------------- MODULE Money --------------------------------
(* Amounts as integers of the column's smallest unit.                        *)
EXTENDS Integers

(* n / d to the nearest unit, ties away from zero, as a Decimal column rounds. *)
RoundDiv(n, d) == IF n >= 0 THEN (2 * n + d) \div (2 * d)
                            ELSE -((d - 2 * n) \div (2 * d))

=============================================================================
