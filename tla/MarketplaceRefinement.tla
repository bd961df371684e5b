------------------------ MODULE MarketplaceRefinement ------------------------
(***************************************************************************)
(* The refinement mapping from the handlers of Marketplace to Escrow: a    *)
(* stake is the part of a holding that was not repaid, and the reads of a  *)
(* handler are invisible, so each request takes effect in its commit.      *)
(***************************************************************************)
EXTENDS Marketplace

StageOf(st) ==
  CASE st = "submitted" -> "submitted"
    [] st \in OpenForInvestment -> "open"
    [] st \in {"funded", "overdue"} -> "funded"
    [] st = "repaid" -> "repaid"

E == INSTANCE Escrow WITH
  stage <- [v \in Invoices |-> StageOf(status[v])],
  goal <- [v \in Invoices |-> Cap(v)],
  raised <- fundedAmount,
  stake <- [v \in Invoices |-> [i \in Investors |-> holding[v][i] - repayments[v][i]]],
  cash <- wallet,
  paid <- payouts

(* ImplementsEscrow: handlers that do not overlap implement Escrow: every    *)
(* commit takes effect as if its checks were made at that very moment.       *)
ImplementsEscrow == E!Spec

=============================================================================
