---------------------------- MODULE MCInvoiceYield ----------------------------
(* Boundary inputs of InvoiceYield for TLC. *)
EXTENDS InvoiceYield

(* Overdue, the edges of the first months and of the column's width, and far  *)
(* beyond them.                                                              *)
BoundaryDays == {-10, 0, 1, 365, 900, 1500, 4000} \cup 28 .. 32 \cup 58 .. 62
                \cup 688 .. 692 \cup 748 .. 752

=============================================================================
