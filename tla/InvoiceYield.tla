----------------------------- MODULE InvoiceYield -----------------------------
(***************************************************************************)
(* The prices of an invoice: the fees its tier fixes at the submission,    *)
(* what computeInvoiceYield fixes when the buyer accepts, what fundInvoice *)
(* pays out once it is funded, and what payInvoice credits and records     *)
(* when the buyer pays: every wallet gets the principal back; the return   *)
(* with the yield is a column of the holding, and no money follows it.     *)
(*                                                                         *)
(* Amounts are in the column's smallest unit; computations are exact in    *)
(* Prisma.Decimal and round when a column is written.  Times are in hours; *)
(* the face amount cancels out of investorYieldPct.  Where the money is    *)
(* checked and moved is in Marketplace.                                    *)
(***************************************************************************)
EXTENDS Integers, Money

CONSTANTS
  Faces,       \* Invoice.amount
  DueDays,     \* days from the day of the acceptance to the due date
  DueHours,    \* time of day of the due date; 0 for a date without a time
  AcceptHours, \* time of day of the acceptance
  Shares       \* percentages of a raise that one of two investors takes

ASSUME InvoiceYieldAssumption ==
  /\ Faces \subseteq Nat \ {0}
  /\ DueDays \subseteq Int
  /\ DueHours \subseteq 0 .. 23
  /\ AcceptHours \subseteq 0 .. 23
  /\ Shares \subseteq 0 .. 100

Tiers == {"anchored", "carried", "quarried"}

(* TIER_MONTHLY_DISCOUNT_RATE, in tenths of a percent. *)
MonthlyRate == [anchored |-> 30, carried |-> 35, quarried |-> 40]

(* PROVENANCE_FEE_SCHEDULE, in percent: one placeholder for every tier. *)
Fees == [t \in Tiers |-> [platform |-> 3, reserve |-> 1]]

VARIABLES
  phase,     \* submitted, accepted, funded or repaid
  face,      \* Invoice.amount
  tier,      \* Buyer.provenanceTier
  due,       \* the due date's day and hour, counted from the acceptance's midnight
  accepted,  \* the hour of the acceptance
  target,    \* Invoice.fundingTargetAmount
  yieldPct,  \* Invoice.investorYieldPct, in hundredths of a percent
  stakes,    \* Holding.amount of two investors
  payout,    \* what is credited to the business's wallet
  credits,   \* the repayments in the two investors' wallets
  returns    \* Holding.repaidAmount, a record

terms == <<face, tier, due, accepted>>
vars == <<phase, terms, target, yieldPct, stakes, payout, credits, returns>>

HoursPerMonth == 30 * 24

CeilDiv(n, d) == -((-n) \div d)
LongestOf(m, n) == IF m >= n THEN m ELSE n

(* The duration in months of so many hours: a month begun is a month, and    *)
(* there is at least one.                                                    *)
MonthsRoundedDown(hours) == LongestOf(1, hours \div HoursPerMonth)
MonthsOneMore(hours) == LongestOf(1, hours \div HoursPerMonth + 1)
Months(hours) == LongestOf(1, CeilDiv(hours, HoursPerMonth))

(* The whole discount, in tenths of a percent. *)
Discount(t, hours) == MonthlyRate[t] * Months(hours)

FundingTarget(amount, t, hours) == RoundDiv(amount * (1000 - Discount(t, hours)), 1000)

(* The investors' three quarters of the discount, as a share of the target   *)
(* and, by mistake, of the face amount.                                      *)
YieldPctOfFace(t, hours) == RoundDiv(7500 * Discount(t, hours), 1000)
YieldPct(t, hours) ==
  LET left == 1000 - Discount(t, hours) IN
  IF left > 0 THEN RoundDiv(7500 * Discount(t, hours), left)
              ELSE -RoundDiv(7500 * Discount(t, hours), -left)

Abs(n) == IF n < 0 THEN -n ELSE n

(* The yield has a value, which it has not for a target of zero, and fits    *)
(* its Decimal(5,2) column; otherwise the acceptance throws.                 *)
Acceptable(t, hours) ==
  /\ Discount(t, hours) # 1000
  /\ Abs(YieldPct(t, hours)) <= 99999

(* payInvoice: a stake and its share of three quarters of the surplus. *)
RepaidOfAllSurplus(stake, raised, amount) == stake + RoundDiv(stake * (amount - raised), raised)
Repaid(stake, raised, amount) == stake + RoundDiv(3 * stake * (amount - raised), 4 * raised)

(* The face amount less both fees; by mistake less the platform's only. *)
PayoutKeepingReserve(amount, t) == RoundDiv(amount * (100 - Fees[t].platform), 100)
Payout(amount, t) == RoundDiv(amount * (100 - (Fees[t].platform + Fees[t].reserve)), 100)

Init ==
  /\ phase = "submitted"
  /\ face \in Faces
  /\ tier \in Tiers
  /\ due \in [day : DueDays, hour : DueHours]
  /\ accepted \in AcceptHours
  /\ target = 0
  /\ yieldPct = 0
  /\ stakes = <<0, 0>>
  /\ payout = 0
  /\ credits = <<0, 0>>
  /\ returns = <<0, 0>>

Hours == 24 * due.day + due.hour - accepted

Accept ==
  /\ phase = "submitted"
  /\ Acceptable(tier, Hours)
  /\ phase' = "accepted"
  /\ target' = FundingTarget(face, tier, Hours)
  /\ yieldPct' = YieldPct(tier, Hours)
  /\ UNCHANGED <<terms, stakes, payout, credits, returns>>

(* Two investors fund the target; a target below zero takes no money. *)
Fund ==
  /\ phase = "accepted"
  /\ target > 0
  /\ phase' = "funded"
  /\ \E p \in Shares :
       LET first == RoundDiv(target * p, 100) IN stakes' = <<first, target - first>>
  /\ payout' = Payout(face, tier)
  /\ UNCHANGED <<terms, target, yieldPct, credits, returns>>

(* The wallet rows carry the stakes, the holdings the returns. *)
Pay ==
  /\ phase = "funded"
  /\ phase' = "repaid"
  /\ credits' = stakes
  /\ returns' = [n \in 1 .. 2 |-> Repaid(stakes[n], target, face)]
  /\ UNCHANGED <<terms, target, yieldPct, stakes, payout>>

Next == Accept \/ Fund \/ Pay

Spec == Init /\ [][Next]_vars

-----------------------------------------------------------------------------
(* The length in months by whole dates: the least m whose 30 day months      *)
(* reach the due date.                                                       *)
MonthsOfDates == CHOOSE m \in 1 .. LongestOf(1, due.day) :
  30 * m >= due.day /\ \A k \in 1 .. (m - 1) : 30 * k < due.day

(* DatePriced: the price of an invoice whose due date has no time of day is  *)
(* the one the whole dates give, at whatever hour the buyer accepts.         *)
DatePriced == phase # "submitted" /\ due.hour = 0 =>
  target = RoundDiv(face * (1000 - MonthlyRate[tier] * MonthsOfDates), 1000)

(* YieldRecorded: when the buyer pays a fully raised invoice, the return on   *)
(* record for each investor is the stake and the yield shown at the           *)
(* acceptance, but for the three roundings: half a unit of the return, half   *)
(* a hundredth of a percent of the stake, and half a unit of the target,      *)
(* which weighs the more the less the discount leaves of the face amount.     *)
YieldRecorded == phase = "repaid" => \A n \in 1 .. 2 :
  2 * Abs(10000 * returns[n] - stakes[n] * (10000 + yieldPct))
    <= 10000 + stakes[n] + 7500000 \div (1000 - Discount(tier, Hours))

(* ReturnsWithinFace: the returns on record, rounded up each, are together    *)
(* never more than the buyer paid.                                           *)
ReturnsWithinFace == phase = "repaid" => returns[1] + returns[2] <= face

(* What getReserve counts for a funded or repaid invoice, what of the money   *)
(* that came in for it is left to the platform, and the returns on record     *)
(* that nobody was credited: all in hundredths of a unit.                     *)
ReserveShare == face * Fees[tier].reserve
CameIn == target + (IF phase = "repaid" THEN face ELSE 0)
Kept == 100 * (CameIn - payout - credits[1] - credits[2])
Uncredited == 100 * (returns[1] + returns[2] - credits[1] - credits[2])

(* PayoutCovered: the capital raised for an invoice pays the business out,   *)
(* to the unit, exactly if it is due within a month; the business is paid    *)
(* its face amount less the fees however much the duration discounted the    *)
(* raise.                                                                    *)
PayoutCovered == phase \in {"funded", "repaid"} /\ due.hour = 0 =>
  (payout <= target + 1 <=> MonthsOfDates = 1)

(* ReserveBacked: the reserve contribution that the admin's reserve counts    *)
(* as collected is there, to two units, while an invoice is funded, exactly   *)
(* if its tier is anchored and it is due within a month.  When the buyer has  *)
(* paid it is there at any length; but the yield that is on record and not    *)
(* credited could be paid besides exactly if it was due within a month.       *)
ReserveBacked ==
  /\ phase = "funded" /\ due.hour = 0 =>
       (Kept + 200 >= ReserveShare <=> tier = "anchored" /\ MonthsOfDates = 1)
  /\ phase = "repaid" => Kept >= ReserveShare
  /\ phase = "repaid" /\ due.hour = 0 =>
       (Kept + 200 >= ReserveShare + Uncredited <=> MonthsOfDates = 1)

(* DueWithin23MonthsAcceptable: an invoice due within 23 months of thirty    *)
(* days can be accepted, whatever its buyer's tier.                          *)
DueWithin23MonthsAcceptable ==
  24 * due.day + due.hour <= 23 * HoursPerMonth => Acceptable(tier, Hours)

=============================================================================
