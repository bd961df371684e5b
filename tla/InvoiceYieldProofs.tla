-------------------------- MODULE InvoiceYieldProofs --------------------------
(***************************************************************************)
(* Theorems about InvoiceYield, for all amounts, dates, hours and splits:  *)
(* that the price is the one the dates give, that a due date within 23     *)
(* months can be accepted, and what rounding leaves of the returns on      *)
(* record, of the payout and of the reserve.                          *)
(***************************************************************************)
EXTENDS InvoiceYield, TLAPS

USE InvoiceYieldAssumption

Phases == {"submitted", "accepted", "funded", "repaid"}
Dates == [day : DueDays, hour : DueHours]

-----------------------------------------------------------------------------
(* The rounding of a quotient is its distance to it: half a unit at most.    *)

LEMMA DivBounds == ASSUME NEW n \in Int, NEW d \in Nat \ {0}
                   PROVE  /\ n \div d \in Int
                          /\ d * (n \div d) <= n
                          /\ n < d * (n \div d) + d
OBVIOUS

LEMMA RoundBounds == ASSUME NEW n \in Int, NEW d \in Nat \ {0}
                     PROVE  /\ RoundDiv(n, d) \in Int
                            /\ 2 * d * RoundDiv(n, d) <= 2 * n + d
                            /\ 2 * n - d <= 2 * d * RoundDiv(n, d)
                            /\ n >= 0 => 2 * n + d < 2 * d * RoundDiv(n, d) + 2 * d
<1>1. CASE n >= 0
  <2> DEFINE q == (2 * n + d) \div (2 * d)
  <2>1. q \in Int /\ (2 * d) * q <= 2 * n + d /\ 2 * n + d < (2 * d) * q + 2 * d
    <3>1. 2 * n + d \in Int /\ 2 * d \in Nat \ {0}
      OBVIOUS
    <3> QED BY <3>1, DivBounds, Zenon
  <2> QED BY <1>1, <2>1 DEF RoundDiv
<1>2. CASE n < 0
  <2> DEFINE q == (d - 2 * n) \div (2 * d)
  <2>1. q \in Int /\ (2 * d) * q <= d - 2 * n /\ d - 2 * n < (2 * d) * q + 2 * d
    <3>1. d - 2 * n \in Int /\ 2 * d \in Nat \ {0}
      OBVIOUS
    <3> QED BY <3>1, DivBounds, Zenon
  <2>2. RoundDiv(n, d) = -q
    BY <1>2 DEF RoundDiv
  <2> HIDE DEF q
  <2>3. 2 * d * (-q) = -(2 * d * q)
    BY <2>1
  <2> QED BY <1>2, <2>1, <2>2, <2>3
<1> QED BY <1>1, <1>2

LEMMA RoundNat == ASSUME NEW n \in Nat, NEW d \in Nat \ {0} PROVE RoundDiv(n, d) \in Nat
<1>1. RoundDiv(n, d) \in Int /\ 2 * n + d < 2 * d * RoundDiv(n, d) + 2 * d
  BY RoundBounds
<1>2. CASE RoundDiv(n, d) < 0
  <2>1. d * (RoundDiv(n, d) + 1) <= 0
    BY <1>1, <1>2
  <2> QED BY <1>1, <2>1
<1> QED BY <1>1, <1>2

(* A quotient of at most q rounds to at most q. *)
LEMMA RoundAtMost == ASSUME NEW n \in Int, NEW d \in Nat \ {0}, NEW q \in Int, n <= q * d
                     PROVE  RoundDiv(n, d) <= q
<1>1. RoundDiv(n, d) \in Int /\ 2 * d * RoundDiv(n, d) <= 2 * n + d
  BY RoundBounds
<1>2. CASE RoundDiv(n, d) > q
  <2>1. d * (RoundDiv(n, d) - q) >= d
    BY <1>1, <1>2
  <2> QED BY <1>1, <2>1
<1> QED BY <1>1, <1>2

-----------------------------------------------------------------------------
(* The duration in months, of hours and of whole dates. *)

LEMMA MonthsCover == ASSUME NEW h \in Int
                     PROVE  /\ Months(h) \in Nat \ {0}
                            /\ h <= 720 * Months(h)
                            /\ Months(h) > 1 => 720 * (Months(h) - 1) < h
BY DEF Months, LongestOf, CeilDiv, HoursPerMonth

LEMMA MonthsOfDatesCover ==
  ASSUME due.day \in Int
  PROVE  /\ MonthsOfDates \in Nat \ {0}
         /\ due.day <= 30 * MonthsOfDates
         /\ MonthsOfDates > 1 => 30 * (MonthsOfDates - 1) < due.day
<1> DEFINE Reaches(m) == 30 * m >= due.day /\ \A k \in 1 .. (m - 1) : 30 * k < due.day
           least == LongestOf(1, CeilDiv(due.day, 30))
<1>1. least \in 1 .. LongestOf(1, due.day) /\ Reaches(least)
  BY DEF LongestOf, CeilDiv
<1>2. MonthsOfDates = CHOOSE m \in 1 .. LongestOf(1, due.day) : Reaches(m)
  BY DEF MonthsOfDates
<1> HIDE DEF Reaches, least
<1>3. MonthsOfDates \in 1 .. LongestOf(1, due.day) /\ Reaches(MonthsOfDates)
  BY <1>1, <1>2
<1>4. MonthsOfDates \in Nat \ {0}
  BY <1>3 DEF LongestOf
<1>5. MonthsOfDates > 1 => MonthsOfDates - 1 \in 1 .. (MonthsOfDates - 1)
  BY <1>4
<1> QED BY <1>3, <1>4, <1>5 DEF Reaches

(* The hour at which the buyer accepts changes no duration to a whole date. *)
LEMMA MonthsAgree == ASSUME due \in Dates, accepted \in AcceptHours, due.hour = 0
                     PROVE  Months(Hours) = MonthsOfDates
<1>1. due.day \in Int /\ accepted \in 0 .. 23 /\ Hours = 24 * due.day - accepted /\ Hours \in Int
  <2>1. due.day \in DueDays
    BY DEF Dates
  <2>2. due.day \in Int /\ accepted \in 0 .. 23
    BY <2>1
  <2> QED BY <2>2 DEF Hours
<1>2. /\ Months(Hours) \in Nat \ {0} /\ Hours <= 720 * Months(Hours)
      /\ Months(Hours) > 1 => 720 * (Months(Hours) - 1) < Hours
  BY <1>1, MonthsCover
<1>3. /\ MonthsOfDates \in Nat \ {0} /\ due.day <= 30 * MonthsOfDates
      /\ MonthsOfDates > 1 => 30 * (MonthsOfDates - 1) < due.day
  BY <1>1, MonthsOfDatesCover
<1> QED BY <1>1, <1>2, <1>3

LEMMA DiscountIs ==
  ASSUME NEW t \in Tiers, NEW h \in Int
  PROVE  /\ MonthlyRate[t] \in {30, 35, 40}
         /\ Discount(t, h) \in Nat
         /\ Discount(t, h) = MonthlyRate[t] * Months(h)
         /\ Discount(t, h) >= 30 /\ (Months(h) > 1 => Discount(t, h) >= 60)
         /\ Months(h) = 1 => Discount(t, h) <= 40
<1>1. MonthlyRate[t] \in {30, 35, 40}
  BY DEF MonthlyRate, Tiers
<1>2. Months(h) \in Nat \ {0}
  BY MonthsCover
<1> QED BY <1>1, <1>2 DEF Discount

-----------------------------------------------------------------------------
(* The columns follow from the invoice's terms; its yield fits its column,    *)
(* and the two stakes make up the target.                                    *)
Terms ==
  /\ phase \in Phases
  /\ face \in Faces /\ tier \in Tiers /\ due \in Dates /\ accepted \in AcceptHours

Split(pair, whole) == \A n \in 1 .. 2 : pair[n] \in Nat /\ pair[n] <= whole

Priced ==
  /\ phase # "submitted" =>
       /\ target = FundingTarget(face, tier, Hours)
       /\ yieldPct = YieldPct(tier, Hours)
  /\ phase \in {"funded", "repaid"} =>
       /\ target > 0
       /\ Split(stakes, target) /\ stakes[1] + stakes[2] = target
       /\ payout = Payout(face, tier)
  /\ phase # "repaid" => credits = <<0, 0>>
  /\ phase = "repaid" =>
       /\ credits = stakes
       /\ \A n \in 1 .. 2 : returns[n] = Repaid(stakes[n], target, face)

IInv == Terms /\ Priced

LEMMA TermsTyped == ASSUME Terms
                    PROVE  /\ face \in Nat \ {0} /\ tier \in Tiers
                           /\ due.day \in Int /\ due.hour \in 0 .. 23 /\ accepted \in 0 .. 23
                           /\ Hours \in Int
                           /\ Hours = 24 * due.day + due.hour - accepted
<1>1. due.day \in DueDays /\ due.hour \in DueHours /\ accepted \in AcceptHours
  BY DEF Terms, Dates
<1>2. due.day \in Int /\ due.hour \in 0 .. 23 /\ accepted \in 0 .. 23
  BY <1>1, Zenon
<1>3. face \in Nat \ {0} /\ tier \in Tiers
  BY Zenon DEF Terms
<1> QED BY <1>2, <1>3 DEF Hours

LEMMA TargetInt == ASSUME Terms PROVE FundingTarget(face, tier, Hours) \in Int
<1>1. face \in Nat /\ Discount(tier, Hours) \in Nat
  BY TermsTyped, DiscountIs
<1>2. face * (1000 - Discount(tier, Hours)) \in Int
  BY <1>1
<1> QED BY <1>2, RoundBounds DEF FundingTarget

LEMMA IInvHolds == Spec => []IInv
<1>1. Init => IInv
  BY DEF Init, IInv, Terms, Priced, Phases, Dates
<1>2. IInv /\ [Next]_vars => IInv'
  <2> SUFFICES ASSUME IInv, [Next]_vars PROVE IInv'
    OBVIOUS
  <2>1. CASE Accept
    <3>1. Terms' /\ phase' = "accepted" /\ Hours' = Hours
      BY <2>1 DEF Accept, IInv, Terms, terms, Phases, Hours
    <3> QED BY <2>1, <3>1 DEF Accept, IInv, Priced, terms
  <2>2. CASE Fund
    <3>1. Terms' /\ phase' = "funded" /\ Hours' = Hours
      BY <2>2 DEF Fund, IInv, Terms, terms, Phases, Hours
    <3>2. PICK p \in Shares : LET first == RoundDiv(target * p, 100) IN stakes' = <<first, target - first>>
      BY <2>2 DEF Fund
    <3> DEFINE first == RoundDiv(target * p, 100)
    <3>3. target \in Nat \ {0} /\ p \in 0 .. 100
      BY <2>2, TargetInt DEF Fund, IInv, Priced
    <3>4. first \in 0 .. target
      <4>1. target * p \in Nat /\ target * p <= target * 100
        BY <3>3
      <4> QED BY <3>3, <4>1, RoundNat, RoundAtMost
    <3>5. stakes' = <<first, target - first>>
      BY <3>2
    <3> HIDE DEF first
    <3>6. Split(stakes', target) /\ stakes'[1] + stakes'[2] = target
      BY <3>3, <3>4, <3>5 DEF Split
    <3> QED BY <2>2, <3>1, <3>3, <3>6 DEF Fund, IInv, Priced, terms, Split
  <2>3. CASE Pay
    <3>1. Terms' /\ phase' = "repaid" /\ Hours' = Hours
      BY <2>3 DEF Pay, IInv, Terms, terms, Phases, Hours
    <3> QED BY <2>3, <3>1 DEF Pay, IInv, Priced, terms, Split
  <2>4. CASE UNCHANGED vars
    BY <2>4 DEF vars, terms, IInv, Terms, Priced, Hours, Split
  <2> QED BY <2>1, <2>2, <2>3, <2>4 DEF Next
<1> QED BY <1>1, <1>2, PTL DEF Spec

(* Priced: the price of an invoice with a date for a due date is the one the  *)
(* dates give, at whatever hour the buyer accepts.                           *)
THEOREM PricedByDates == Spec => []DatePriced
<1>1. IInv => DatePriced
  BY MonthsAgree DEF IInv, Terms, Priced, DatePriced, FundingTarget, Discount
<1> QED BY <1>1, IInvHolds, PTL

(* Acceptable: whatever the tier and the hour, an invoice due within 23       *)
(* months of thirty days has a yield, and one that fits its column.          *)
THEOREM TwentyThreeMonths == Spec => []DueWithin23MonthsAcceptable
<1>1. IInv => DueWithin23MonthsAcceptable
  <2> SUFFICES ASSUME IInv, 24 * due.day + due.hour <= 23 * HoursPerMonth
               PROVE  Acceptable(tier, Hours)
    BY DEF DueWithin23MonthsAcceptable
  <2> DEFINE D == Discount(tier, Hours)
  <2>1. Hours \in Int /\ Hours <= 23 * 720
    <3>1. /\ due.day \in Int /\ due.hour \in 0 .. 23 /\ accepted \in 0 .. 23
          /\ Hours \in Int /\ Hours = 24 * due.day + due.hour - accepted
      BY TermsTyped DEF IInv
    <3> QED BY <3>1 DEF HoursPerMonth
  <2>2. Months(Hours) \in 1 .. 23
    <3>1. /\ Months(Hours) \in Nat \ {0}
          /\ Months(Hours) > 1 => 720 * (Months(Hours) - 1) < Hours
      BY <2>1, MonthsCover
    <3> QED BY <2>1, <3>1
  <2>3. D \in 30 .. 920
    <3>1. /\ MonthlyRate[tier] \in {30, 35, 40}
          /\ D = MonthlyRate[tier] * Months(Hours)
      BY <2>1, TermsTyped, DiscountIs DEF IInv
    <3> HIDE DEF D
    <3> QED BY <2>2, <3>1
  <2> HIDE DEF D
  <2> DEFINE N == 7500 * D
             L == 1000 - D
             Y == RoundDiv(N, L)
             q == 99999
  <2>4. N \in Nat /\ L \in Nat \ {0} /\ q \in Nat /\ N <= q * L
    BY <2>3
  <2>5. Y \in Nat
    <3> HIDE DEF N, L
    <3> QED BY <2>4, RoundNat
  <2>6. Y <= 99999
    <3>1. N \in Int /\ q \in Int
      BY <2>4
    <3> HIDE DEF N, L, q
    <3>2. RoundDiv(N, L) <= q
      BY <2>4, <3>1, RoundAtMost
    <3> QED BY <3>2 DEF q
  <2>7. YieldPct(tier, Hours) = Y
    BY <2>4 DEF YieldPct, D
  <2> HIDE DEF Y
  <2>8. Abs(Y) <= 99999
    BY <2>5, <2>6 DEF Abs
  <2>9. Discount(tier, Hours) # 1000
    BY <2>3 DEF D
  <2> QED BY <2>7, <2>8, <2>9 DEF Acceptable
<1> QED BY <1>1, IInvHolds, PTL

-----------------------------------------------------------------------------
(* What is repaid, of the target T of an invoice of the face amount f. *)

(* The target is within half a unit of what the discount leaves, and never    *)
(* above the face amount.                                                    *)
LEMMA TargetBounds ==
  ASSUME Terms, NEW L, L = 1000 - Discount(tier, Hours), NEW T, T = FundingTarget(face, tier, Hours)
  PROVE  /\ L \in Int /\ L <= 970 /\ T \in Int /\ T <= face
         /\ 1000 * T <= face * L + 500 /\ face * L - 500 <= 1000 * T
         /\ T > 0 => L > 0
<1>1. /\ face \in Nat \ {0} /\ Discount(tier, Hours) \in Nat /\ Discount(tier, Hours) >= 30
  BY TermsTyped, DiscountIs
<1>2. L \in Int /\ L <= 970
  BY <1>1
<1>3. face * L \in Int /\ T = RoundDiv(face * L, 1000)
  BY <1>1, <1>2 DEF FundingTarget
<1> DEFINE n == face * L
           d == 1000
<1>4. T \in Int /\ 2 * d * T <= 2 * n + d /\ 2 * n - d <= 2 * d * T
  <2>1. n \in Int /\ d \in Nat \ {0} /\ T = RoundDiv(n, d)
    BY <1>3
  <2> HIDE DEF n, d
  <2> QED BY <2>1, RoundBounds
<1>5. 1000 * T <= n + 500 /\ n - 500 <= 1000 * T
  <2>1. n \in Int
    BY <1>3
  <2> HIDE DEF n
  <2> QED BY <1>4, <2>1
<1>6. n <= 970 * face
  BY <1>1, <1>2
<1>7. L <= 0 => n <= 0
  BY <1>1, <1>2
<1>8. T <= face
  <2>1. n \in Int
    BY <1>3
  <2> HIDE DEF n
  <2> QED BY <1>1, <1>4, <1>5, <1>6, <2>1
<1>9. T > 0 => L > 0
  <2>1. n \in Int
    BY <1>3
  <2> HIDE DEF n
  <2> QED BY <1>2, <1>4, <1>5, <1>7, <2>1
<1> QED BY <1>2, <1>4, <1>5, <1>8, <1>9

(* A return is within half a unit of the stake and its share of three         *)
(* quarters of the surplus.                                                  *)
LEMMA ReturnBounds ==
  ASSUME NEW T \in Nat \ {0}, NEW f \in Nat, T <= f, NEW s \in Nat, s <= T
  PROVE  /\ Repaid(s, T, f) \in Nat /\ Repaid(s, T, f) - s \in Nat
         /\ 8 * (T * (Repaid(s, T, f) - s)) <= 6 * (s * (f - T)) + 4 * T
         /\ 6 * (s * (f - T)) - 4 * T <= 8 * (T * (Repaid(s, T, f) - s))
<1> DEFINE n == 3 * s * (f - T)
           d == 4 * T
           R == RoundDiv(n, d)
<1>1. n \in Nat /\ n \in Int /\ d \in Nat \ {0} /\ n = 3 * (s * (f - T)) /\ s * (f - T) \in Nat
  BY SMT
<1>2. R \in Nat /\ 2 * d * R <= 2 * n + d /\ 2 * n - d <= 2 * d * R
  <2> HIDE DEF n, d
  <2> QED BY <1>1, RoundNat, RoundBounds
<1>3. Repaid(s, T, f) \in Nat /\ Repaid(s, T, f) - s = R
  <2>1. Repaid(s, T, f) = s + R
    BY DEF Repaid
  <2> HIDE DEF R
  <2> QED BY <1>2, <2>1
<1> HIDE DEF R, n
<1>4. 2 * d * R = 8 * (T * R)
  BY <1>2
<1> DEFINE W == T * R
           Z == s * (f - T)
<1>5. W \in Int
  BY <1>2
<1> HIDE DEF W, Z
<1>6. 2 * d * R = 8 * W /\ n = 3 * Z /\ Z \in Nat
  BY <1>1, <1>4 DEF W, Z
<1>7. 8 * W <= 6 * Z + 4 * T /\ 6 * Z - 4 * T <= 8 * W
  BY <1>1, <1>2, <1>5, <1>6
<1> QED BY <1>2, <1>3, <1>7 DEF W, Z

(* Two returns of the same invoice: the surplus covers both roundings. *)
LEMMA ReturnsTogether ==
  ASSUME NEW T \in Nat \ {0}, NEW f \in Nat, T <= f,
         NEW s \in Nat, NEW t \in Nat, s + t = T
  PROVE  LET both == Repaid(s, T, f) + Repaid(t, T, f) IN
         /\ both \in Nat
         /\ both <= f
         /\ 4 * both <= 3 * f + T + 4
         /\ 3 * f + T - 4 <= 4 * both
<1> DEFINE a == Repaid(s, T, f) - s
           b == Repaid(t, T, f) - t
           k == f - T
<1>0. s <= T /\ t <= T
  OBVIOUS
<1>1. /\ a \in Nat /\ 8 * (T * a) <= 6 * (s * k) + 4 * T /\ 6 * (s * k) - 4 * T <= 8 * (T * a)
      /\ b \in Nat /\ 8 * (T * b) <= 6 * (t * k) + 4 * T /\ 6 * (t * k) - 4 * T <= 8 * (T * b)
  <2>1. a \in Nat /\ 8 * (T * a) <= 6 * (s * k) + 4 * T /\ 6 * (s * k) - 4 * T <= 8 * (T * a)
    BY <1>0, ReturnBounds
  <2>2. b \in Nat /\ 8 * (T * b) <= 6 * (t * k) + 4 * T /\ 6 * (t * k) - 4 * T <= 8 * (T * b)
    BY <1>0, ReturnBounds
  <2> QED BY <2>1, <2>2
<1>2. k \in Nat
  OBVIOUS
<1>3. Repaid(s, T, f) = s + a /\ Repaid(t, T, f) = t + b
  BY <1>0, ReturnBounds
<1> HIDE DEF a, b, k
<1>4. /\ T * (8 * (a + b)) <= T * (6 * k + 8)
      /\ T * (6 * k - 8) <= T * (8 * (a + b))
  <2>1. s * k + t * k = T * k
    BY <1>2
  <2>2. T * a + T * b = T * (a + b)
    BY <1>1
  <2> QED BY <1>1, <1>2, <2>1, <2>2
<1>5. 8 * (a + b) <= 6 * k + 8 /\ 6 * k - 8 <= 8 * (a + b)
  BY <1>1, <1>2, <1>4
<1>6. a + b <= k
  BY <1>1, <1>2, <1>5
<1>7. f = T + k
  BY DEF k
<1> QED BY <1>1, <1>2, <1>3, <1>5, <1>6, <1>7

LEMMA RepaidFacts ==
  ASSUME IInv, phase \in {"funded", "repaid"}
  PROVE  /\ target \in Nat \ {0} /\ face \in Nat \ {0} /\ target <= face
         /\ stakes[1] \in Nat /\ stakes[2] \in Nat /\ stakes[1] + stakes[2] = target
         /\ target = FundingTarget(face, tier, Hours)
         /\ phase = "funded" => credits[1] = 0 /\ credits[2] = 0
         /\ phase = "repaid" => credits = stakes
         /\ phase = "repaid" => /\ returns[1] = Repaid(stakes[1], target, face)
                                /\ returns[2] = Repaid(stakes[2], target, face)
<1>1. target = FundingTarget(face, tier, Hours) /\ target > 0 /\ Terms
  BY DEF IInv, Priced
<1>2. face \in Nat \ {0} /\ target \in Int /\ target <= face
  BY <1>1, TermsTyped, TargetBounds
<1>3. stakes[1] \in Nat /\ stakes[2] \in Nat /\ stakes[1] + stakes[2] = target
  BY DEF IInv, Priced, Split
<1>4. phase = "repaid" => \A n \in 1 .. 2 : returns[n] = Repaid(stakes[n], target, face)
  BY DEF IInv, Priced
<1>5. /\ phase = "funded" => credits[1] = 0 /\ credits[2] = 0
      /\ phase = "repaid" => credits = stakes
  BY DEF IInv, Priced
<1> QED BY <1>1, <1>2, <1>3, <1>4, <1>5

LEMMA ReturnsTotal ==
  ASSUME IInv, phase = "repaid"
  PROVE  /\ returns[1] \in Nat /\ returns[2] \in Nat
         /\ returns[1] + returns[2] <= face
         /\ 4 * (returns[1] + returns[2]) <= 3 * face + target + 4
         /\ 3 * face + target - 4 <= 4 * (returns[1] + returns[2])
<1> DEFINE f == face
           T == target
           s == stakes[1]
           t == stakes[2]
<1>1. /\ T \in Nat \ {0} /\ f \in Nat /\ T <= f /\ s \in Nat /\ t \in Nat /\ s + t = T
      /\ returns[1] = Repaid(s, T, f) /\ returns[2] = Repaid(t, T, f)
  BY RepaidFacts
<1> HIDE DEF f, T, s, t
<1>2. s <= T /\ t <= T
  BY <1>1
<1>3. Repaid(s, T, f) \in Nat /\ Repaid(t, T, f) \in Nat
  BY <1>1, <1>2, ReturnBounds
<1>4. LET both == Repaid(s, T, f) + Repaid(t, T, f) IN
      both <= f /\ 4 * both <= 3 * f + T + 4 /\ 3 * f + T - 4 <= 4 * both
  BY <1>1, ReturnsTogether
<1> QED BY <1>1, <1>3, <1>4 DEF f, T

(* Returns: the returns on record, each rounded on its own, never exceed      *)
(* together what the buyer paid.                                             *)
THEOREM ReturnsCovered == Spec => []ReturnsWithinFace
<1>1. IInv => ReturnsWithinFace
  BY ReturnsTotal DEF ReturnsWithinFace
<1> QED BY <1>1, IInvHolds, PTL

-----------------------------------------------------------------------------
(* fundInvoice takes at least MIN_FUNDING, far above the few units by which   *)
(* rounding could blur the fees of an invoice.                               *)
WorthFunding == \A f \in Faces : f >= 1000

LEMMA PayoutBounds == ASSUME Terms, NEW P, P = Payout(face, tier)
                      PROVE  P \in Int /\ 200 * P <= 192 * face + 100 /\ 192 * face - 100 <= 200 * P
<1> DEFINE n == face * 96
           d == 100
<1>1. n \in Int /\ d \in Nat \ {0} /\ face \in Nat
  BY TermsTyped
<1>2. P = RoundDiv(n, d)
  <2>1. Fees[tier].platform = 3 /\ Fees[tier].reserve = 1
    BY TermsTyped DEF Fees
  <2> QED BY <2>1 DEF Payout
<1>3. P \in Int /\ 2 * d * P <= 2 * n + d /\ 2 * n - d <= 2 * d * P
  <2> HIDE DEF n, d
  <2> QED BY <1>1, <1>2, RoundBounds
<1> QED BY <1>1, <1>3

(* How far the discount of one month and of more goes. *)
LEMMA DurationPrices ==
  ASSUME Terms, due.hour = 0, NEW T, T = FundingTarget(face, tier, Hours)
  PROVE  /\ T \in Int
         /\ MonthsOfDates = 1 => 1000 * T >= 960 * face - 500
         /\ MonthsOfDates # 1 => 1000 * T <= 940 * face + 500
         /\ tier = "anchored" /\ MonthsOfDates = 1 => 1000 * T >= 970 * face - 500
         /\ tier # "anchored" => 1000 * T <= 965 * face + 500
<1> DEFINE L == 1000 - Discount(tier, Hours)
<1>1. /\ L \in Int /\ T \in Int /\ face \in Nat
      /\ 1000 * T <= face * L + 500 /\ face * L - 500 <= 1000 * T
  BY TargetBounds, TermsTyped
<1>2. Months(Hours) = MonthsOfDates
  BY MonthsAgree DEF Terms
<1>3. MonthsOfDates = 1 => L >= 960
  BY <1>2, TermsTyped, DiscountIs
<1>4. MonthsOfDates # 1 => L <= 940
  <2>1. tier \in Tiers /\ Hours \in Int
    BY TermsTyped
  <2>2. Months(Hours) \in Nat \ {0} /\ Discount(tier, Hours) \in Nat
    BY <2>1, MonthsCover, DiscountIs
  <2>3. Months(Hours) > 1 => Discount(tier, Hours) >= 60
    BY <2>1, DiscountIs
  <2> QED BY <1>2, <2>2, <2>3
<1>5. /\ tier = "anchored" /\ MonthsOfDates = 1 => L >= 970
      /\ tier # "anchored" => L <= 965
  <2>1. tier \in Tiers /\ Hours \in Int
    BY TermsTyped
  <2>2. Months(Hours) \in Nat \ {0} /\ Discount(tier, Hours) = MonthlyRate[tier] * Months(Hours)
    BY <2>1, MonthsCover, DiscountIs
  <2>3. MonthlyRate[tier] = IF tier = "anchored" THEN 30 ELSE IF tier = "carried" THEN 35 ELSE 40
    BY <2>1 DEF MonthlyRate, Tiers
  <2>4. CASE tier = "anchored"
    BY <1>2, <2>2, <2>3, <2>4
  <2>5. CASE tier # "anchored"
    <3>1. MonthlyRate[tier] \in {35, 40}
      BY <2>3, <2>5
    <3>2. MonthlyRate[tier] * Months(Hours) >= 35
      BY <2>2, <3>1
    <3> QED BY <2>2, <2>5, <3>1, <3>2
  <2> QED BY <2>4, <2>5
<1> HIDE DEF L
<1>6. /\ L >= 960 => face * L >= 960 * face
      /\ L >= 970 => face * L >= 970 * face
  BY <1>1
<1>7. /\ L <= 940 => face * L <= 940 * face
      /\ L <= 965 => face * L <= 965 * face
  BY <1>1
<1> DEFINE W == face * L
<1>8. W \in Int
  BY <1>1
<1> HIDE DEF W
<1>9. /\ 1000 * T <= W + 500 /\ W - 500 <= 1000 * T
      /\ (L >= 960 => W >= 960 * face) /\ (L <= 940 => W <= 940 * face)
      /\ (L >= 970 => W >= 970 * face) /\ (L <= 965 => W <= 965 * face)
  BY <1>1, <1>6, <1>7 DEF W
<1>10. /\ L >= 960 => 1000 * T >= 960 * face - 500
       /\ L >= 970 => 1000 * T >= 970 * face - 500
       /\ L <= 940 => 1000 * T <= 940 * face + 500
       /\ L <= 965 => 1000 * T <= 965 * face + 500
  BY <1>1, <1>8, <1>9
<1>11. MonthsOfDates = 1 => 1000 * T >= 960 * face - 500
  BY <1>3, <1>10
<1>12. MonthsOfDates # 1 => 1000 * T <= 940 * face + 500
  BY <1>4, <1>10
<1>13. tier = "anchored" /\ MonthsOfDates = 1 => 1000 * T >= 970 * face - 500
  BY <1>5, <1>10
<1>14. tier # "anchored" => 1000 * T <= 965 * face + 500
  BY <1>5, <1>10
<1> QED BY <1>1, <1>11, <1>12, <1>13, <1>14

(* Payout: the capital raised pays the business exactly within a month. *)
THEOREM PaidFromRaise == ASSUME WorthFunding PROVE Spec => []PayoutCovered
<1>1. IInv => PayoutCovered
  <2> SUFFICES ASSUME IInv, phase \in {"funded", "repaid"}, due.hour = 0
               PROVE  payout <= target + 1 <=> MonthsOfDates = 1
    BY DEF PayoutCovered
  <2>1. face \in Nat /\ face >= 1000
    BY TermsTyped DEF IInv, Terms, WorthFunding
  <2>2. payout \in Int /\ 200 * payout <= 192 * face + 100 /\ 192 * face - 100 <= 200 * payout
    BY PayoutBounds DEF IInv, Priced
  <2>3. /\ target \in Int
        /\ MonthsOfDates = 1 => 1000 * target >= 960 * face - 500
        /\ MonthsOfDates # 1 => 1000 * target <= 940 * face + 500
    BY DurationPrices DEF IInv, Priced
  <2> QED BY <2>1, <2>2, <2>3
<1> QED BY <1>1, IInvHolds, PTL

(* Reserve: what getReserve counts for a funded invoice is there for anchored *)
(* buyers due within a month only; for a repaid one always, and besides the   *)
(* yield on record exactly if it was due within a month.                      *)
THEOREM ReserveLeft == ASSUME WorthFunding PROVE Spec => []ReserveBacked
<1>1. IInv => ReserveBacked
  <2> SUFFICES ASSUME IInv, phase \in {"funded", "repaid"} PROVE ReserveBacked
    BY DEF ReserveBacked
  <2> DEFINE within == MonthsOfDates = 1
             both == returns[1] + returns[2]
             raise == credits[1] + credits[2]
  <2>1. face \in Nat /\ face >= 1000 /\ ReserveShare = face
    <3>1. face \in Nat /\ face >= 1000
      BY TermsTyped DEF IInv, Terms, WorthFunding
    <3>2. Fees[tier].reserve = 1
      BY TermsTyped DEF IInv, Fees
    <3> QED BY <3>1, <3>2 DEF ReserveShare
  <2>2. payout \in Int /\ 200 * payout <= 192 * face + 100 /\ 192 * face - 100 <= 200 * payout
    BY PayoutBounds DEF IInv, Priced
  <2>3. due.hour = 0 =>
          /\ within => 1000 * target >= 960 * face - 500
          /\ ~within => 1000 * target <= 940 * face + 500
          /\ tier = "anchored" /\ within => 1000 * target >= 970 * face - 500
          /\ tier # "anchored" => 1000 * target <= 965 * face + 500
    BY DurationPrices DEF IInv, Priced
  <2>4. target \in Nat /\ stakes[1] \in Nat /\ stakes[2] \in Nat /\ stakes[1] + stakes[2] = target
    BY RepaidFacts
  <2> HIDE DEF within
  <2>5. CASE phase = "funded"
    <3>1. Kept = 100 * (target - payout)
      <4>1. credits[1] = 0 /\ credits[2] = 0
        BY <2>5, RepaidFacts
      <4> QED BY <2>2, <2>4, <2>5, <4>1 DEF Kept, CameIn
    <3>2. due.hour = 0 => (Kept + 200 >= ReserveShare <=> tier = "anchored" /\ within)
      BY <2>1, <2>2, <2>3, <2>4, <3>1
    <3> QED BY <2>5, <3>2 DEF ReserveBacked, within
  <2>6. CASE phase = "repaid"
    <3>1. raise = target /\ Kept = 100 * (face - payout)
      <4>1. credits[1] = stakes[1] /\ credits[2] = stakes[2]
        BY <2>6, RepaidFacts
      <4> QED BY <2>1, <2>2, <2>4, <2>6, <4>1 DEF Kept, CameIn
    <3>2. /\ both \in Nat
          /\ 4 * both <= 3 * face + target + 4 /\ 3 * face + target - 4 <= 4 * both
      BY <2>6, ReturnsTotal
    <3>3. Uncredited = 100 * (both - target)
      <4>1. credits[1] = stakes[1] /\ credits[2] = stakes[2] /\ returns[1] \in Nat /\ returns[2] \in Nat
        BY <2>6, RepaidFacts, ReturnsTotal
      <4> QED BY <2>4, <4>1 DEF Uncredited
    <3> HIDE DEF both, raise
    <3>4. Kept >= ReserveShare
      BY <2>1, <2>2, <3>1
    <3>5. due.hour = 0 => (Kept + 200 >= ReserveShare + Uncredited <=> within)
      BY <2>1, <2>2, <2>3, <2>4, <3>1, <3>2, <3>3
    <3> QED BY <2>6, <3>4, <3>5 DEF ReserveBacked, within
  <2> QED BY <2>5, <2>6
<1> QED BY <1>1, IInvHolds, PTL

-----------------------------------------------------------------------------
(* The yield on record: E is how far a return misses the yield shown, and the *)
(* roundings of the return, of the yield and of the target bound it.         *)

LEMMA DivAtLeast == ASSUME NEW x \in Int, NEW m \in Nat, NEW d \in Nat \ {0}, d * x <= m
                    PROVE  x <= m \div d
<1>1. m \div d \in Int /\ m < d * (m \div d) + d
  BY DivBounds
<1> DEFINE q == m \div d
<1> HIDE DEF q
<1>2. q \in Int /\ m < d * q + d
  BY <1>1 DEF q
<1>3. d * (x - q) < d
  BY <1>2
<1>4. x - q < 1
  BY <1>2, <1>3
<1> QED BY <1>2, <1>4 DEF q

(* R is within half a unit of the return of a stake s, y of the yield and T   *)
(* of the target; E misses the yield by little.                              *)
Rounded(T, f, s, L, R, y, a, b, c) ==
  /\ a \in Int /\ a <= 4 * T /\ -a <= 4 * T
  /\ b \in Int /\ b <= L /\ -b <= L
  /\ c \in Int /\ c <= 500 /\ -c <= 500
  /\ 8 * (T * R) = 6 * (s * (f - T)) + a
  /\ 2 * (L * y) = 15000 * (1000 - L) + b
  /\ 1000 * T = f * L + c

Missed(T, s, L, E, a, b, c) ==
  (2 * (L * T)) * E = 2500 * (L * a) - T * (s * b) - 15000 * (s * c)

Little(E, s, L) == 2 * Abs(E) <= 10000 + s + 7500000 \div L

LEMMA Misses ==
  ASSUME NEW T \in Nat \ {0}, NEW f \in Nat, NEW s \in Nat, NEW L \in Nat \ {0},
         NEW R \in Int, NEW y \in Int, NEW a, NEW b, NEW c, Rounded(T, f, s, L, R, y, a, b, c)
  PROVE  Missed(T, s, L, 10000 * R - s * y, a, b, c)
<1>0. /\ a \in Int /\ b \in Int /\ c \in Int
      /\ 8 * (T * R) = 6 * (s * (f - T)) + a
      /\ 2 * (L * y) = 15000 * (1000 - L) + b
      /\ 1000 * T = f * L + c
  BY DEF Rounded
<1>1. (2 * (L * T)) * (10000 * R - s * y) = 2500 * (L * (8 * (T * R))) - (T * s) * (2 * (L * y))
  OBVIOUS
<1>2. L * (8 * (T * R)) = L * (6 * (s * (f - T)) + a)
  BY <1>0
<1>3. (T * s) * (2 * (L * y)) = (T * s) * (15000 * (1000 - L) + b)
  BY <1>0
<1>4. 15000 * (s * (f * L)) = 15000 * (s * (1000 * T - c))
  <2>1. f * L = 1000 * T - c
    BY <1>0
  <2> QED BY <2>1
<1>5. L * (6 * (s * (f - T)) + a) = 6 * (s * (f * L)) - 6 * (s * (T * L)) + L * a
  BY <1>0
<1>6. (T * s) * (15000 * (1000 - L) + b) = 15000000 * (T * s) - 15000 * (s * (T * L)) + T * (s * b)
  BY <1>0
<1>7. 15000 * (s * (1000 * T - c)) = 15000000 * (T * s) - 15000 * (s * c)
  BY <1>0
<1> DEFINE SFL == s * (f * L)
           STL == s * (T * L)
           TS == T * s
           LA == L * a
           TSB == T * (s * b)
           SC == s * c
           E == (2 * (L * T)) * (10000 * R - s * y)
<1>8. SFL \in Int /\ STL \in Int /\ TS \in Int /\ LA \in Int /\ TSB \in Int /\ SC \in Int /\ E \in Int
  BY <1>0
<1>9. E = 2500 * (6 * SFL - 6 * STL + LA) - (15000000 * TS - 15000 * STL + TSB)
  BY <1>1, <1>2, <1>3, <1>5, <1>6
<1>10. 15000 * SFL = 15000000 * TS - 15000 * SC
  BY <1>4, <1>7
<1> HIDE DEF SFL, STL, TS, LA, TSB, SC, E
<1>11. E = 2500 * LA - TSB - 15000 * SC
  BY <1>8, <1>9, <1>10
<1> QED BY <1>11 DEF LA, TSB, SC, E, Missed

LEMMA MissesLittle ==
  ASSUME NEW T \in Nat \ {0}, NEW f, NEW s \in Nat, s <= T, NEW L \in Nat \ {0}, NEW E \in Int,
         NEW R, NEW y, NEW a, NEW b, NEW c, Rounded(T, f, s, L, R, y, a, b, c),
         Missed(T, s, L, E, a, b, c)
  PROVE  Little(E, s, L)
<1>0. /\ a \in Int /\ b \in Int /\ c \in Int
      /\ a <= 4 * T /\ -a <= 4 * T /\ b <= L /\ -b <= L /\ c <= 500 /\ -c <= 500
      /\ (2 * (L * T)) * E = 2500 * (L * a) - T * (s * b) - 15000 * (s * c)
  BY DEF Rounded, Missed
<1>1. L * a <= 4 * (L * T) /\ -(L * a) <= 4 * (L * T)
  BY <1>0
<1>2. T * (s * b) <= T * (s * L) /\ -(T * (s * b)) <= T * (s * L)
  <2>1. s * b <= s * L /\ -(s * b) <= s * L
    BY <1>0
  <2> QED BY <1>0, <2>1
<1>3. s * c <= 500 * T /\ -(s * c) <= 500 * T
  <2>1. s * c <= 500 * s /\ -(s * c) <= 500 * s
    BY <1>0
  <2> QED BY <1>0, <2>1
<1> DEFINE most == 10000 * L + s * L + 7500000
<1>4. T * (2 * (L * E)) <= T * most /\ T * (2 * (L * (-E))) <= T * most
  <2> DEFINE LA == L * a
             TSB == T * (s * b)
             SC == s * c
             LT == L * T
             TSL == T * (s * L)
             LTE == (2 * (L * T)) * E
  <2>1. LA \in Int /\ TSB \in Int /\ SC \in Int /\ LT \in Int /\ TSL \in Int /\ LTE \in Int
    BY <1>0
  <2>2. /\ LA <= 4 * LT /\ -LA <= 4 * LT /\ TSB <= TSL /\ -TSB <= TSL
        /\ SC <= 500 * T /\ -SC <= 500 * T
        /\ LTE = 2500 * LA - TSB - 15000 * SC
    BY <1>0, <1>1, <1>2, <1>3
  <2>3. T * (2 * (L * E)) = LTE /\ T * (2 * (L * (-E))) = -LTE
    OBVIOUS
  <2>4. T * most = 10000 * LT + TSL + 7500000 * T
    OBVIOUS
  <2> HIDE DEF LA, TSB, SC, LT, TSL, LTE, most
  <2> QED BY <2>1, <2>2, <2>3, <2>4
<1>5. 2 * (L * E) <= most /\ 2 * (L * (-E)) <= most
  <2> DEFINE p == 2 * (L * E)
             m == 2 * (L * (-E))
  <2>1. p \in Int /\ m \in Int /\ most \in Int
    OBVIOUS
  <2>2. T * p <= T * most /\ T * m <= T * most
    BY <1>4
  <2> HIDE DEF p, m, most
  <2>3. p <= most /\ m <= most
    BY <2>1, <2>2
  <2> QED BY <2>3 DEF p, m
<1>6. L * (2 * E - 10000 - s) <= 7500000 /\ L * (2 * (-E) - 10000 - s) <= 7500000
  BY <1>5
<1>7. 2 * E - 10000 - s <= 7500000 \div L /\ 2 * (-E) - 10000 - s <= 7500000 \div L
  <2> DEFINE m == 7500000
             u == 2 * E - 10000 - s
             w == 2 * (-E) - 10000 - s
  <2>1. m \in Nat /\ u \in Int /\ w \in Int /\ L * u <= m /\ L * w <= m
    BY <1>6
  <2> HIDE DEF m, u, w
  <2>2. u <= m \div L /\ w <= m \div L
    BY <2>1, DivAtLeast
  <2> QED BY <2>2 DEF m, u, w
<1> DEFINE q == 7500000 \div L
<1>8. q \in Int
  OBVIOUS
<1> HIDE DEF q
<1>9. 2 * E <= 10000 + s + q /\ 2 * (-E) <= 10000 + s + q
  BY <1>7, <1>8 DEF q
<1>10. 2 * Abs(E) <= 10000 + s + q
  BY <1>8, <1>9 DEF Abs
<1> QED BY <1>10 DEF q, Little

(* One stake of a repaid invoice. *)
LEMMA StakeRepaid ==
  ASSUME Terms, NEW T \in Nat \ {0}, T = FundingTarget(face, tier, Hours), NEW s \in Nat, s <= T,
         NEW r, r = Repaid(s, T, face), NEW y, y = YieldPct(tier, Hours)
  PROVE  Little(10000 * r - s * (10000 + y), s, 1000 - Discount(tier, Hours))
<1> DEFINE f == face
           L == 1000 - Discount(tier, Hours)
           R == r - s
           E == 10000 * R - s * y
           a == 8 * (T * R) - 6 * (s * (f - T))
           b == 2 * (L * y) - 15000 * (1000 - L)
           c == 1000 * T - f * L
<1>1. /\ L \in Int /\ f \in Nat /\ T <= f /\ L > 0 /\ L <= 970
      /\ 1000 * T <= f * L + 500 /\ f * L - 500 <= 1000 * T
  BY TargetBounds, TermsTyped
<1>2. /\ r \in Nat /\ R \in Nat
      /\ 8 * (T * R) <= 6 * (s * (f - T)) + 4 * T /\ 6 * (s * (f - T)) - 4 * T <= 8 * (T * R)
  <2>1. f \in Nat /\ T <= f
    BY <1>1
  <2> HIDE DEF f
  <2>2. r = Repaid(s, T, f)
    BY DEF f
  <2> QED BY <2>1, <2>2, ReturnBounds
<1>3. y \in Int /\ 2 * L * y <= 2 * (7500 * (1000 - L)) + L /\ 2 * (7500 * (1000 - L)) - L <= 2 * L * y
  <2> DEFINE n == 7500 * (1000 - L)
  <2>1. 7500 * Discount(tier, Hours) = n
    BY TermsTyped, DiscountIs
  <2>2. y = RoundDiv(n, L)
    BY <1>1, <2>1 DEF YieldPct
  <2>3. n \in Int /\ L \in Nat \ {0}
    BY <1>1
  <2> HIDE DEF n, L
  <2>4. y \in Int /\ 2 * L * y <= 2 * n + L /\ 2 * n - L <= 2 * L * y
    BY <2>2, <2>3, RoundBounds
  <2> QED BY <2>4 DEF n
<1> HIDE DEF L, f, R
<1>4. a \in Int /\ a <= 4 * T /\ -a <= 4 * T /\ 8 * (T * R) = 6 * (s * (f - T)) + a
  <2> DEFINE W == T * R
             Z == s * (f - T)
  <2>1. W \in Int /\ Z \in Int
    BY <1>1, <1>2
  <2>2. 8 * W <= 6 * Z + 4 * T /\ 6 * Z - 4 * T <= 8 * W
    BY <1>2
  <2> HIDE DEF W, Z
  <2>3. 8 * W - 6 * Z \in Int /\ 8 * W - 6 * Z <= 4 * T /\ -(8 * W - 6 * Z) <= 4 * T
        /\ 8 * W = 6 * Z + (8 * W - 6 * Z)
    BY <2>1, <2>2
  <2> QED BY <2>3 DEF W, Z
<1>5. b \in Int /\ b <= L /\ -b <= L /\ 2 * (L * y) = 15000 * (1000 - L) + b
  <2> DEFINE W == L * y
  <2>1. W \in Int /\ 2 * L * y = 2 * W
    BY <1>1, <1>3
  <2> HIDE DEF W
  <2>2. 2 * W <= 2 * (7500 * (1000 - L)) + L /\ 2 * (7500 * (1000 - L)) - L <= 2 * W
    BY <1>3, <2>1
  <2>3. 2 * W - 15000 * (1000 - L) \in Int /\ 2 * W - 15000 * (1000 - L) <= L
        /\ -(2 * W - 15000 * (1000 - L)) <= L /\ 2 * W = 15000 * (1000 - L) + (2 * W - 15000 * (1000 - L))
    BY <1>1, <2>1, <2>2
  <2> QED BY <2>3 DEF W
<1>6. c \in Int /\ c <= 500 /\ -c <= 500 /\ 1000 * T = f * L + c
  <2> DEFINE W == f * L
  <2>1. W \in Int
    BY <1>1
  <2>2. 1000 * T <= W + 500 /\ W - 500 <= 1000 * T
    BY <1>1
  <2> HIDE DEF W
  <2>3. 1000 * T - W \in Int /\ 1000 * T - W <= 500 /\ -(1000 * T - W) <= 500
        /\ 1000 * T = W + (1000 * T - W)
    BY <2>1, <2>2
  <2> QED BY <2>3 DEF W
<1>7. Rounded(T, f, s, L, R, y, a, b, c)
  <2> HIDE DEF a, b, c
  <2> QED BY <1>4, <1>5, <1>6 DEF Rounded
<1> HIDE DEF a, b, c
<1>8. E \in Int /\ L \in Nat \ {0} /\ f \in Nat /\ R \in Int /\ y \in Int
  BY <1>1, <1>2, <1>3
<1>9. Missed(T, s, L, E, a, b, c)
  BY <1>7, <1>8, Misses
<1>10. 10000 * r - s * (10000 + y) = E
  BY <1>2, <1>3 DEF R
<1> HIDE DEF E
<1>11. Little(E, s, L)
  BY <1>7, <1>8, <1>9, MissesLittle
<1> QED BY <1>10, <1>11 DEF L

(* The return on record for every investor of a fully raised invoice is the   *)
(* stake and the yield shown at the acceptance, to what the three roundings   *)
(* make of it.                                                               *)
THEOREM YieldOnRecord == Spec => []YieldRecorded
<1>1. IInv => YieldRecorded
  <2> SUFFICES ASSUME IInv, phase = "repaid", NEW n \in 1 .. 2
               PROVE  Little(10000 * returns[n] - stakes[n] * (10000 + yieldPct), stakes[n],
                             1000 - Discount(tier, Hours))
    BY DEF YieldRecorded, Little
  <2>1. target \in Nat \ {0} /\ target = FundingTarget(face, tier, Hours) /\ Terms
    BY RepaidFacts DEF IInv
  <2>2. /\ stakes[n] \in Nat /\ stakes[n] <= target
        /\ returns[n] = Repaid(stakes[n], target, face) /\ yieldPct = YieldPct(tier, Hours)
    BY DEF IInv, Priced, Split
  <2> QED BY <2>1, <2>2, StakeRepaid
<1> QED BY <1>1, IInvHolds, PTL

=============================================================================
