------------------------------- MODULE Escrow -------------------------------
(***************************************************************************)
(* What the money path promises when requests do not overlap, without      *)
(* handlers, rows or snapshots: investors put cash into stakes in an open  *)
(* invoice, at most up to its goal; reaching the goal pays the business    *)
(* once; the buyer's payment turns every stake back into cash, once.       *)
(* Marketplace with a single slot is shown to implement it.                *)
(***************************************************************************)
EXTENDS Integers

CONSTANTS Investors, Invoices, Whitelisted, Legacy, FaceAmount, Targets,
          FundAmounts, DepositAmounts, MaxWallet

VARIABLES
  stage,   \* "submitted", "open", "funded" or "repaid"
  goal,    \* what an invoice raises; its face value until it is accepted
  raised,  \* what it has raised
  stake,   \* what an investor has in it and was not given back
  cash,    \* an investor's cash
  paid     \* times its business was paid out

vars == <<stage, goal, raised, stake, cash, paid>>

Init ==
  /\ stage = [v \in Invoices |-> IF v \in Legacy THEN "open" ELSE "submitted"]
  /\ goal = [v \in Invoices |-> FaceAmount]
  /\ raised = [v \in Invoices |-> 0]
  /\ stake = [v \in Invoices |-> [i \in Investors |-> 0]]
  /\ cash = [i \in Investors |-> 0]
  /\ paid = [v \in Invoices |-> 0]

Accept(v, t) ==
  /\ stage[v] = "submitted"
  /\ stage' = [stage EXCEPT ![v] = "open"]
  /\ goal' = [goal EXCEPT ![v] = t]
  /\ UNCHANGED <<raised, stake, cash, paid>>

Earn(i, a) ==
  /\ cash[i] + a <= MaxWallet
  /\ cash' = [cash EXCEPT ![i] = @ + a]
  /\ UNCHANGED <<stage, goal, raised, stake, paid>>

Invest(i, v, a) ==
  /\ i \in Whitelisted
  /\ stage[v] = "open"
  /\ a <= cash[i]
  /\ raised[v] + a <= goal[v]
  /\ cash' = [cash EXCEPT ![i] = @ - a]
  /\ stake' = [stake EXCEPT ![v][i] = @ + a]
  /\ raised' = [raised EXCEPT ![v] = @ + a]
  /\ \/ /\ raised[v] + a < goal[v]
        /\ UNCHANGED <<stage, paid>>
     \/ /\ raised[v] + a = goal[v]
        /\ stage' = [stage EXCEPT ![v] = "funded"]
        /\ paid' = [paid EXCEPT ![v] = 1]
  /\ UNCHANGED goal

Repay(v) ==
  /\ stage[v] = "funded"
  /\ stage' = [stage EXCEPT ![v] = "repaid"]
  /\ cash' = [i \in Investors |-> cash[i] + stake[v][i]]
  /\ stake' = [stake EXCEPT ![v] = [i \in Investors |-> 0]]
  /\ UNCHANGED <<goal, raised, paid>>

Next ==
  \/ \E v \in Invoices, t \in Targets : Accept(v, t)
  \/ \E i \in Investors, a \in DepositAmounts : Earn(i, a)
  \/ \E i \in Investors, v \in Invoices, a \in FundAmounts : Invest(i, v, a)
  \/ \E v \in Invoices : Repay(v)

Spec == Init /\ [][Next]_vars

=============================================================================
