-------------------------- MODULE MarketplaceProofs ---------------------------
(***************************************************************************)
(* Theorems about Marketplace, for every set of investors, invoices and    *)
(* slots and for all amounts, on lemmas about sums over a finite set.      *)
(*                                                                         *)
(* The invariant Consistent says that what a handler checked still holds   *)
(* when it commits, for invoices that are never contended and investors    *)
(* who never rush.  The sums need no such condition where the code only    *)
(* increments.  The last part shows that requests served one at a time     *)
(* implement Escrow: with one slot nothing is ever contended.              *)
(***************************************************************************)
EXTENDS MarketplaceRefinement, FiniteSetTheorems, TLAPS

-----------------------------------------------------------------------------
(* Sums.  SumFunctionOnSet picks an element, adds its value and goes on with  *)
(* the rest, as a recursive function on the subsets of its finite set.  The   *)
(* lemmas show that this function exists and that the picks do not matter.    *)

(* Induction on the subsets of a finite set, for a set D of them.            *)
LEMMA SubsetInduction ==
  ASSUME NEW S, IsFiniteSet(S), NEW D,
         \A T \in SUBSET S : (\A U \in SUBSET T : U # T => U \in D) => T \in D
  PROVE  \A T \in SUBSET S : T \in D
<1> DEFINE Bad == (SUBSET S) \ D
<1> SUFFICES ASSUME Bad # {} PROVE FALSE
  OBVIOUS
<1>1. FiniteSubsetsOf(S) = SUBSET S
  BY FS_FiniteSubsetsOfFinite
<1>2. IsWellFoundedOn(StrictSubsetOrdering(S), FiniteSubsetsOf(S))
  BY FS_StrictSubsetOrderingWellFounded
<1>3. Bad \subseteq FiniteSubsetsOf(S)
  BY <1>1
<1>4. \E T \in Bad : \A U \in Bad : ~ (<<U, T>> \in StrictSubsetOrdering(S))
  <2> HIDE DEF Bad
  <2> QED BY <1>2, <1>3, WFMin
<1>5. PICK T \in Bad : \A U \in Bad : ~ (<<U, T>> \in StrictSubsetOrdering(S))
  BY <1>4
<1>6. \A U \in SUBSET T : U # T => U \in D
  BY <1>5 DEF StrictSubsetOrdering
<1> QED BY <1>5, <1>6

Pick(T) == CHOOSE x \in T : TRUE
Unfold(g, f, T) == IF T = {} THEN 0 ELSE f[Pick(T)] + g[T \ {Pick(T)}]
Sums(g, f, S) == g = [T \in SUBSET S |-> Unfold(g, f, T)]

LEMMA SumIs == ASSUME NEW f, NEW S PROVE SumFunctionOnSet(f, S) = (CHOOSE g : Sums(g, f, S))[S]
BY DEF SumFunctionOnSet, FoldFunctionOnSet, MapThenFoldSet, Sums, Unfold, Pick

LEMMA PickIn == ASSUME NEW T, T # {} PROVE Pick(T) \in T
BY DEF Pick

(* Two functions that sum up agree where both are defined.                  *)
LEMMA SumsAgree ==
  ASSUME NEW f, NEW S, IsFiniteSet(S), NEW R \in SUBSET S, NEW g, NEW h, Sums(g, f, S), Sums(h, f, R)
  PROVE  \A T \in SUBSET R : g[T] = h[T]
<1> DEFINE D == {T \in SUBSET R : g[T] = h[T]}
<1>1. IsFiniteSet(R)
  BY FS_Subset
<1>2. ASSUME NEW T \in SUBSET R, \A U \in SUBSET T : U # T => U \in D
      PROVE  T \in D
  <2>1. g[T] = Unfold(g, f, T) /\ h[T] = Unfold(h, f, T)
    BY DEF Sums
  <2>2. T # {} => T \ {Pick(T)} \in D
    BY <1>2, PickIn
  <2> QED BY <2>1, <2>2 DEF Unfold
<1>3. \A T \in SUBSET R : T \in D
  <2> HIDE DEF D
  <2> QED BY <1>1, <1>2, SubsetInduction
<1> QED BY <1>3

(* They exist: built up by the size of the sets they are right about.        *)
LEMMA SumsExist == ASSUME NEW f, NEW S, IsFiniteSet(S) PROVE \E g : Sums(g, f, S)
<1> DEFINE D == {T \in SUBSET S : \E g : Sums(g, f, T)}
<1>1. ASSUME NEW T \in SUBSET S, \A U \in SUBSET T : U # T => U \in D
      PROVE  T \in D
  <2> DEFINE G(U) == CHOOSE g : Sums(g, f, U)
  <2> DEFINE below == [U \in SUBSET T |-> G(U)[U]]
  <2> DEFINE g == [U \in SUBSET T |-> Unfold(below, f, U)]
  <2>1. IsFiniteSet(T)
    BY FS_Subset
  <2>2. ASSUME NEW U \in SUBSET T, U # T PROVE Sums(G(U), f, U)
    BY <1>1, <2>2
  <2>3. ASSUME NEW U \in SUBSET T, U # T PROVE g[U] = below[U]
    <3>1. G(U)[U] = Unfold(G(U), f, U)
      BY <2>2, <2>3 DEF Sums
    <3>2. CASE U # {}
      <4>1. U \ {Pick(U)} \in SUBSET U /\ U \ {Pick(U)} \in SUBSET T /\ U \ {Pick(U)} # T
        BY <3>2, <2>3, PickIn
      <4>2. Sums(G(U \ {Pick(U)}), f, U \ {Pick(U)}) /\ Sums(G(U), f, U)
        BY <2>2, <2>3, <4>1
      <4>3. IsFiniteSet(U)
        BY <2>1, FS_Subset
      <4>4. G(U)[U \ {Pick(U)}] = G(U \ {Pick(U)})[U \ {Pick(U)}]
        <5> DEFINE V == U \ {Pick(U)}
        <5> HIDE DEF G
        <5>1. \A W \in SUBSET V : G(U)[W] = G(V)[W]
          BY <4>1, <4>2, <4>3, SumsAgree
        <5> QED BY <5>1
      <4>5. below[U \ {Pick(U)}] = G(U)[U \ {Pick(U)}] /\ below[U] = G(U)[U]
        BY <4>1, <4>4
      <4> QED BY <3>1, <4>5 DEF Unfold
    <3>3. CASE U = {}
      BY <3>1, <3>3 DEF Unfold
    <3> QED BY <3>2, <3>3
  <2>4. ASSUME NEW U \in SUBSET T PROVE Unfold(below, f, U) = Unfold(g, f, U)
    <3>1. U # {} => U \ {Pick(U)} \in SUBSET T /\ U \ {Pick(U)} # T
      BY PickIn
    <3> HIDE DEF below, g
    <3> QED BY <3>1, <2>3 DEF Unfold
  <2>5. Sums(g, f, T)
    BY <2>4 DEF Sums
  <2> QED BY <2>5
<1>2. \A T \in SUBSET S : T \in D
  <2> HIDE DEF D
  <2> QED BY <1>1, SubsetInduction
<1> QED BY <1>2

(* The equation the sum is defined by.                                      *)
LEMMA SumUnfolds ==
  ASSUME NEW f, NEW S, IsFiniteSet(S)
  PROVE  /\ SumFunctionOnSet(f, {}) = 0
         /\ S # {} => SumFunctionOnSet(f, S) = f[Pick(S)] + SumFunctionOnSet(f, S \ {Pick(S)})
<1> DEFINE G(T) == CHOOSE g : Sums(g, f, T)
<1>1. ASSUME NEW T \in SUBSET S
      PROVE  Sums(G(T), f, T) /\ SumFunctionOnSet(f, T) = G(T)[T]
  <2>1. IsFiniteSet(T)
    BY FS_Subset
  <2> QED BY <2>1, SumsExist, SumIs
<1>2. ASSUME NEW T \in SUBSET S PROVE G(T)[T] = Unfold(G(T), f, T)
  <2> HIDE DEF G
  <2> QED BY <1>1 DEF Sums
<1>3. S # {} => G(S)[S \ {Pick(S)}] = G(S \ {Pick(S)})[S \ {Pick(S)}]
  <2> HIDE DEF G
  <2> QED BY <1>1, SumsAgree
<1> HIDE DEF G
<1> QED BY <1>1, <1>2, <1>3 DEF Unfold

LEMMA SumInt ==
  ASSUME NEW f, NEW S, IsFiniteSet(S), \A x \in S : f[x] \in Int
  PROVE  SumFunctionOnSet(f, S) \in Int
<1> DEFINE D == {T \in SUBSET S : SumFunctionOnSet(f, T) \in Int}
<1>1. ASSUME NEW T \in SUBSET S, \A U \in SUBSET T : U # T => U \in D
      PROVE  T \in D
  <2>1. IsFiniteSet(T)
    BY FS_Subset
  <2>2. T # {} => Pick(T) \in S /\ T \ {Pick(T)} \in D
    BY <1>1, PickIn
  <2> QED BY <2>1, <2>2, SumUnfolds
<1>2. \A T \in SUBSET S : T \in D
  <2> HIDE DEF D
  <2> QED BY <1>1, SubsetInduction
<1> QED BY <1>2

(* It does not matter which element is taken out first.                      *)
LEMMA SumTakesOut ==
  ASSUME NEW f, NEW S, IsFiniteSet(S), \A x \in S : f[x] \in Int, NEW x \in S
  PROVE  SumFunctionOnSet(f, S) = f[x] + SumFunctionOnSet(f, S \ {x})
<1> DEFINE Sum(T) == SumFunctionOnSet(f, T)
<1> DEFINE D == {T \in SUBSET S : \A y \in T : Sum(T) = f[y] + Sum(T \ {y})}
<1>1. ASSUME NEW T \in SUBSET S, \A U \in SUBSET T : U # T => U \in D
      PROVE  T \in D
  <2> SUFFICES ASSUME NEW y \in T, y # Pick(T) PROVE Sum(T) = f[y] + Sum(T \ {y})
    <3>1. IsFiniteSet(T)
      BY FS_Subset
    <3> QED BY <3>1, SumUnfolds
  <2> DEFINE p == Pick(T)
  <2>1. p \in T /\ IsFiniteSet(T) /\ IsFiniteSet(T \ {p, y})
    BY PickIn, FS_Subset
  <2>2. Sum(T) = f[p] + Sum(T \ {p})
    BY <2>1, SumUnfolds
  <2> HIDE DEF p
  <2>3. T \ {p} \in D /\ T \ {y} \in D
    BY <1>1, <2>1
  <2>4. (T \ {p}) \ {y} = T \ {p, y} /\ (T \ {y}) \ {p} = T \ {p, y}
    OBVIOUS
  <2>5. y \in T \ {p} /\ p \in T \ {y}
    BY <2>1 DEF p
  <2>6. Sum(T \ {p}) = f[y] + Sum(T \ {p, y}) /\ Sum(T \ {y}) = f[p] + Sum(T \ {p, y})
    <3> HIDE DEF Sum
    <3> QED BY <2>3, <2>4, <2>5
  <2>7. Sum(T \ {p, y}) \in Int /\ f[p] \in Int /\ f[y] \in Int
    BY <2>1, SumInt
  <2> QED BY <2>2, <2>6, <2>7
<1>2. \A T \in SUBSET S : T \in D
  <2> HIDE DEF D
  <2> QED BY <1>1, SubsetInduction
<1> QED BY <1>2

(* Functions that agree have the same sum.                                  *)
LEMMA SumSame ==
  ASSUME NEW f, NEW g, NEW S, IsFiniteSet(S), \A x \in S : f[x] = g[x]
  PROVE  SumFunctionOnSet(f, S) = SumFunctionOnSet(g, S)
<1> DEFINE D == {T \in SUBSET S : SumFunctionOnSet(f, T) = SumFunctionOnSet(g, T)}
<1>1. ASSUME NEW T \in SUBSET S, \A U \in SUBSET T : U # T => U \in D
      PROVE  T \in D
  <2>1. IsFiniteSet(T)
    BY FS_Subset
  <2>2. T # {} => f[Pick(T)] = g[Pick(T)] /\ T \ {Pick(T)} \in D
    BY <1>1, PickIn
  <2> QED BY <2>1, <2>2, SumUnfolds
<1>2. \A T \in SUBSET S : T \in D
  <2> HIDE DEF D
  <2> QED BY <1>1, SubsetInduction
<1> QED BY <1>2

(* Adding to one value adds to the sum.                                     *)
LEMMA SumAdds ==
  ASSUME NEW f, NEW g, NEW S, IsFiniteSet(S), \A x \in S : f[x] \in Int /\ g[x] \in Int,
         NEW x \in S, \A y \in S \ {x} : g[y] = f[y]
  PROVE  SumFunctionOnSet(g, S) = SumFunctionOnSet(f, S) + g[x] - f[x]
<1>1. IsFiniteSet(S \ {x})
  BY FS_Subset
<1>2. SumFunctionOnSet(f, S \ {x}) = SumFunctionOnSet(g, S \ {x})
  BY <1>1, SumSame
<1>3. SumFunctionOnSet(f, S \ {x}) \in Int
  BY <1>1, SumInt
<1> QED BY <1>2, <1>3, SumTakesOut

(* A sum weighs no more than another if each of its values does.             *)
LEMMA SumWeighed ==
  ASSUME NEW f, NEW g, NEW S, IsFiniteSet(S), NEW a \in Int, NEW b \in Int,
         \A x \in S : f[x] \in Int /\ g[x] \in Int /\ a * f[x] <= b * g[x]
  PROVE  a * SumFunctionOnSet(f, S) <= b * SumFunctionOnSet(g, S)
<1> DEFINE D == {T \in SUBSET S : a * SumFunctionOnSet(f, T) <= b * SumFunctionOnSet(g, T)}
<1>1. ASSUME NEW T \in SUBSET S, \A U \in SUBSET T : U # T => U \in D
      PROVE  T \in D
  <2> DEFINE p == Pick(T)
             F == SumFunctionOnSet(f, T \ {p})
             G == SumFunctionOnSet(g, T \ {p})
  <2>1. IsFiniteSet(T) /\ IsFiniteSet(T \ {p})
    BY FS_Subset
  <2>2. F \in Int /\ G \in Int
    BY <2>1, SumInt
  <2>3. CASE T = {}
    <3>1. SumFunctionOnSet(f, T) = 0 /\ SumFunctionOnSet(g, T) = 0
      BY <2>1, <2>3, SumUnfolds
    <3> QED BY <3>1
  <2>4. CASE T # {}
    <3>1. p \in S /\ T \ {p} \in D
      BY <1>1, <2>4, PickIn
    <3>2. a * F <= b * G
      BY <3>1
    <3>3. SumFunctionOnSet(f, T) = f[p] + F /\ SumFunctionOnSet(g, T) = g[p] + G
      BY <2>1, <2>4, SumUnfolds
    <3>4. f[p] \in Int /\ g[p] \in Int /\ a * f[p] <= b * g[p]
      BY <3>1
    <3> HIDE DEF p, F, G
    <3>5. a * (f[p] + F) = a * f[p] + a * F /\ b * (g[p] + G) = b * g[p] + b * G
      BY <2>2, <3>4
    <3>6. a * F \in Int /\ b * G \in Int /\ a * f[p] \in Int /\ b * g[p] \in Int
      BY <2>2, <3>4
    <3>7. a * SumFunctionOnSet(f, T) <= b * SumFunctionOnSet(g, T)
      BY <3>2, <3>3, <3>4, <3>5, <3>6
    <3> QED BY <3>7
  <2> QED BY <2>3, <2>4
<1>2. \A T \in SUBSET S : T \in D
  <2> HIDE DEF D
  <2> QED BY <1>1, SubsetInduction
<1> QED BY <1>2

(* A sum of values that are at most c.                                       *)
LEMMA SumBounded ==
  ASSUME NEW f, NEW S, IsFiniteSet(S), NEW c \in Int, \A x \in S : f[x] \in Int /\ f[x] <= c
  PROVE  SumFunctionOnSet(f, S) <= Cardinality(S) * c
<1> DEFINE D == {T \in SUBSET S : SumFunctionOnSet(f, T) <= Cardinality(T) * c}
<1>1. ASSUME NEW T \in SUBSET S, \A U \in SUBSET T : U # T => U \in D
      PROVE  T \in D
  <2> DEFINE p == Pick(T)
             F == SumFunctionOnSet(f, T \ {p})
             n == Cardinality(T \ {p})
  <2>1. IsFiniteSet(T) /\ IsFiniteSet(T \ {p})
    BY FS_Subset
  <2>2. F \in Int /\ n \in Nat
    BY <2>1, SumInt, FS_CardinalityType
  <2>3. CASE T = {}
    <3>1. SumFunctionOnSet(f, T) = 0 /\ Cardinality(T) = 0
      BY <2>1, <2>3, SumUnfolds, FS_EmptySet
    <3> QED BY <3>1
  <2>4. CASE T # {}
    <3>1. p \in T /\ p \in S /\ T \ {p} \in D
      BY <1>1, <2>4, PickIn
    <3>2. F <= n * c
      BY <3>1
    <3>3. SumFunctionOnSet(f, T) = f[p] + F
      BY <2>1, <2>4, SumUnfolds
    <3>4. Cardinality(T) = n + 1
      <4>1. n = Cardinality(T) - 1 /\ Cardinality(T) \in Nat
        BY <2>1, <3>1, FS_RemoveElement, FS_CardinalityType
      <4> QED BY <4>1
    <3>5. f[p] \in Int /\ f[p] <= c
      BY <3>1
    <3> HIDE DEF p, F, n
    <3>6. (n + 1) * c = n * c + c /\ n * c \in Int
      BY <2>2
    <3>7. SumFunctionOnSet(f, T) <= Cardinality(T) * c
      BY <2>2, <3>2, <3>3, <3>4, <3>5, <3>6
    <3> QED BY <3>7
  <2> QED BY <2>3, <2>4
<1>2. \A T \in SUBSET S : T \in D
  <2> HIDE DEF D
  <2> QED BY <1>1, SubsetInduction
<1> QED BY <1>2

(* A set of numbers with an upper bound has a largest one.                  *)
LEMMA LargestExists ==
  ASSUME NEW T \in SUBSET Int, NEW t \in T, NEW b \in Int, \A x \in T : x <= b
  PROVE  \E c \in T : \A d \in T : d <= c
<1> DEFINE S == t .. b
           D == {c .. b : c \in T \cap S}
<1>1. IsFiniteSet(S) /\ FiniteSubsetsOf(S) = SUBSET S
  BY FS_Interval, FS_FiniteSubsetsOfFinite
<1>2. D \subseteq FiniteSubsetsOf(S) /\ D # {}
  BY <1>1
<1>3. \E R \in D : \A U \in D : ~ (<<U, R>> \in StrictSubsetOrdering(S))
  <2> HIDE DEF D, S
  <2> QED BY <1>2, FS_StrictSubsetOrderingWellFounded, WFMin
<1>4. PICK c \in T \cap S : \A d \in T \cap S : ~ (<<d .. b, c .. b>> \in StrictSubsetOrdering(S))
  BY <1>3
<1>5. ASSUME NEW d \in T PROVE d <= c
  <2> SUFFICES ASSUME d > c PROVE FALSE
    OBVIOUS
  <2>1. d \in T \cap S /\ c \in c .. b /\ c \notin d .. b
    OBVIOUS
  <2>2. d .. b \subseteq c .. b /\ d .. b # c .. b /\ c .. b \subseteq S /\ d .. b \subseteq S
    BY <2>1
  <2> QED BY <1>4, <2>1, <2>2 DEF StrictSubsetOrdering
<1> QED BY <1>5

(* A sum of values none of which is negative, and one of zeros. *)
LEMMA SumOfNats ==
  ASSUME NEW f, NEW S, IsFiniteSet(S), \A x \in S : f[x] \in Nat
  PROVE  SumFunctionOnSet(f, S) \in Nat
<1> DEFINE m == 0 - 1
<1>1. m \in Int /\ 0 \in Int /\ \A x \in S : f[x] \in Int /\ m * f[x] <= 0 * f[x]
  OBVIOUS
<1>2. SumFunctionOnSet(f, S) \in Int
  BY SumInt
<1>3. m * SumFunctionOnSet(f, S) <= 0 * SumFunctionOnSet(f, S)
  <2> HIDE DEF m
  <2> QED BY <1>1, SumWeighed
<1> QED BY <1>2, <1>3

LEMMA SumOfZeros ==
  ASSUME NEW f, NEW S, IsFiniteSet(S), \A x \in S : f[x] = 0
  PROVE  SumFunctionOnSet(f, S) = 0
<1>1. SumFunctionOnSet(f, S) \in Nat /\ Cardinality(S) \in Nat
  BY SumOfNats, FS_CardinalityType
<1>2. SumFunctionOnSet(f, S) <= Cardinality(S) * 0
  BY SumBounded
<1> QED BY <1>1, <1>2

-----------------------------------------------------------------------------
(* The types of what the handlers compute and carry.                         *)

USE MarketplaceAssumption

(* Rounding to the unit of a column yields an integer. *)
LEMMA RoundDivInt == ASSUME NEW n \in Int, NEW d \in Int, d > 0
                     PROVE  RoundDiv(n, d) \in Int
<1>1. 2 * n + d \in Int /\ d - 2 * n \in Int /\ 2 * d \in Int /\ 2 * d > 0
  OBVIOUS
<1>2. (2 * n + d) \div (2 * d) \in Int
  BY <1>1
<1>3. (d - 2 * n) \div (2 * d) \in Int
  BY <1>1
<1> QED BY <1>2, <1>3 DEF RoundDiv

(* The return on a holding of an invoice that raised something is a number. *)
LEMMA ReturnOnInt == ASSUME NEW h \in Nat, NEW raised \in Nat, raised > 0
                     PROVE  ReturnOn(h, raised) \in Int
<1>1. 3 * h * (FaceAmount - raised) \in Int
  OBVIOUS
<1>2. 4 * raised \in Int /\ 4 * raised > 0
  OBVIOUS
<1> QED BY <1>1, <1>2, RoundDivInt DEF ReturnOn

LEMMA NothingType == Nothing \in [Investors -> Nat]
BY DEF Nothing

(* TypeCorrect: every column and every handler's memory keeps its type, and  *)
(* payInvoice never divides by zero, whatever requests overlap or abort.     *)
THEOREM TypeCorrect == Spec => [](TypeOK /\ RequestsConsistent /\ DivisorPositive)
<1> DEFINE TInv == TypeOK /\ RequestsConsistent /\ DivisorPositive
<1>1. Init => TInv
  BY NothingType DEF Init, TypeOK, RequestsConsistent, DivisorPositive, Payable, Paying, Funding, Stages, Statuses
<1>2. TInv /\ [Next]_vars => TInv'
  <2> SUFFICES ASSUME TypeOK, RequestsConsistent, DivisorPositive, [Next]_vars PROVE TInv'
    OBVIOUS
  <2> USE DEF TypeOK, RequestsConsistent, DivisorPositive, Payable, Paying, Funding, Stages, Statuses,
              invoiceVars, ledgerVars, reqVars, history
  <2>1. ASSUME NEW i \in Investors, NEW a \in DepositAmounts, Deposit(i, a)
        PROVE  TInv'
    BY <2>1 DEF Deposit
  <2>2. ASSUME NEW s \in Slots, NEW v \in Invoices, ReviewRead(s, v)
        PROVE  TInv'
    BY <2>2 DEF ReviewRead, Start
  <2>3. ASSUME NEW s \in Slots, NEW t \in Targets, AcceptCommit(s, t)
        PROVE  TInv'
    BY <2>3, NothingType DEF AcceptCommit, Finish
  <2>4. ASSUME NEW s \in Slots, NEW i \in Investors, NEW v \in Invoices,
               NEW a \in FundAmounts, FundRead(s, i, v, a)
        PROVE  TInv'
    BY <2>4 DEF FundRead, Start
  <2>5. ASSUME NEW s \in Slots, FundCheckBalance(s)
        PROVE  TInv'
    <3>1. CASE Goto(s, "fundCommit")
      BY <2>5, <3>1 DEF FundCheckBalance, Goto
    <3>2. CASE Finish(s)
      BY <2>5, <3>2, NothingType DEF FundCheckBalance, Finish
    <3> QED BY <2>5, <3>1, <3>2 DEF FundCheckBalance
  <2>6. ASSUME NEW s \in Slots, FundCommit(s)
        PROVE  TInv'
    <3> DEFINE v == inv[s]
               i == by[s]
               a == amount[s]
    <3>1. v \in Invoices /\ i \in Investors /\ a \in Nat /\ a > 0
      BY <2>6 DEF FundCommit
    <3>2. /\ holding' = [holding EXCEPT ![v][i] = @ + a]
          /\ wallet' = [wallet EXCEPT ![i] = @ - a]
          /\ fundedAmount' = [fundedAmount EXCEPT ![v] = @ + a]
          /\ Finish(s)
          /\ UNCHANGED <<confirmedAt, fundingTargetAmount, repaidAt, repaidAmount, repayments>>
      BY <2>6 DEF FundCommit, Upserted
    <3>3. status' \in [Invoices -> Statuses] /\ payouts' \in [Invoices -> Nat]
      BY <2>6, <3>1 DEF FundCommit
    <3>4. \A w \in Invoices \ {v} : status'[w] = status[w]
      BY <2>6, <3>1 DEF FundCommit
    <3>5. holding' \in [Invoices -> [Investors -> Nat]]
      BY <3>1, <2>6 DEF FundCommit, Upserted
    <3>6. wallet' \in [Investors -> Int] /\ fundedAmount' \in [Invoices -> Nat]
      BY <3>1, <3>2
    <3>7. \A w \in Invoices : fundedAmount'[w] = IF w = v THEN fundedAmount[w] + a ELSE fundedAmount[w]
      BY <3>1, <3>2
    <3> HIDE DEF v, i, a
    <3>8. TypeOK'
      BY <3>2, <3>3, <3>5, <3>6, NothingType DEF Finish
    <3>9. RequestsConsistent'
      BY <3>2 DEF Finish
    <3>10. DivisorPositive'
      BY <3>1, <3>2, <3>3, <3>4, <3>7 DEF Finish
    <3> QED BY <3>8, <3>9, <3>10
  <2>7. ASSUME NEW s \in Slots, NEW v \in Invoices, PayRead(s, v)
        PROVE  TInv'
    BY <2>7 DEF PayRead, Start
  <2>8. ASSUME NEW s \in Slots, PayHoldings(s)
        PROVE  TInv'
    BY <2>8 DEF PayHoldings
  <2>9. ASSUME NEW s \in Slots, PayCommit(s)
        PROVE  TInv'
    BY <2>9, NothingType, ReturnOnInt DEF PayCommit, Finish
  <2>10. ASSUME NEW s \in Slots, Abort(s)
         PROVE  TInv'
    BY <2>10, NothingType DEF Abort, Finish
  <2>11. CASE UNCHANGED vars
    BY <2>11 DEF vars
  <2> QED BY <2>1, <2>2, <2>3, <2>4, <2>5, <2>6, <2>7, <2>8, <2>9, <2>10, <2>11
             DEF Next, Review, Fund, Pay
<1> QED BY <1>1, <1>2, PTL DEF Spec

-----------------------------------------------------------------------------
(* The step lemmas of Consistent: what one access of a handler does to the   *)
(* invoice and the investor it is about, and why nobody else's checks fail.  *)

TInv == TypeOK /\ RequestsConsistent /\ DivisorPositive

LEMMA CapInt == ASSUME TypeOK, NEW v \in Invoices PROVE Cap(v) \in Int
<1>1. fundingTargetAmount[v] \in Targets \cup {0}
  BY DEF TypeOK
<1>2. Targets \subseteq Int /\ 0 \in Int /\ FaceAmount \in Int
  BY MarketplaceAssumption
<1>3. Targets \cup {0} \subseteq Int
  BY <1>2
<1>4. fundingTargetAmount[v] \in Int
  BY <1>1, <1>3
<1> QED BY <1>2, <1>4 DEF Cap

LEMMA DepositKeeps == ASSUME TInv, TInv', Consistent, NEW i \in Investors, NEW a \in DepositAmounts, Deposit(i, a)
  PROVE Consistent'
<1> USE DEF TInv, TypeOK, Consistent, RequestsConsistent, RequestsAlone, Funding, Paying, Quiet, Stages,
            Statuses, invoiceVars, ledgerVars, reqVars, history
<1>1. RequestsAlone'
  BY DEF Deposit
<1>2. ChecksStillHold'
  BY DEF Deposit, ChecksStillHold, Reviewable, IsOpen, OpenForInvestment, Remaining, Payable, Affordable, Cap, LifeCycle, LifeCycleOf, Nothing
<1>3. LifeCycle'
  BY DEF Deposit, LifeCycle, LifeCycleOf, ChecksStillHold, Reviewable, IsOpen, OpenForInvestment, Remaining, Payable, Cap
<1>4. QuietInvoicePaidOutOnce'
  BY DEF Deposit, QuietInvoicePaidOutOnce, ChecksStillHold, LifeCycle, LifeCycleOf, Reviewable, IsOpen, OpenForInvestment, Remaining, Payable, Cap
<1>5. QuietInvoiceRepaid'
  BY DEF Deposit, QuietInvoiceRepaid, ChecksStillHold, Reviewable, LifeCycle, LifeCycleOf, IsOpen, OpenForInvestment, Payable
<1>6. QuietWalletSolvent'
  BY DEF Deposit, QuietWalletSolvent, ChecksStillHold, Affordable
<1> QED BY <1>1, <1>2, <1>3, <1>4, <1>5, <1>6

LEMMA ReviewReadKeeps == ASSUME TInv, TInv', Consistent, NEW s \in Slots, NEW v \in Invoices, ReviewRead(s, v)
  PROVE Consistent'
<1> USE DEF TInv, TypeOK, Consistent, RequestsConsistent, RequestsAlone, Funding, Paying, Quiet, Stages,
            Statuses, invoiceVars, ledgerVars, reqVars, history
<1>1. RequestsAlone'
  BY DEF ReviewRead, Start
<1>2. ChecksStillHold'
  BY DEF ReviewRead, Start, ChecksStillHold, Reviewable, IsOpen, OpenForInvestment, Remaining, Payable, Affordable, Cap, LifeCycle, LifeCycleOf, Nothing
<1>3. LifeCycle'
  BY DEF ReviewRead, Start, LifeCycle, LifeCycleOf, ChecksStillHold, Reviewable, IsOpen, OpenForInvestment, Remaining, Payable, Cap
<1>4. QuietInvoicePaidOutOnce'
  BY DEF ReviewRead, Start, QuietInvoicePaidOutOnce, ChecksStillHold, LifeCycle, LifeCycleOf, Reviewable, IsOpen, OpenForInvestment, Remaining, Payable, Cap
<1>5. QuietInvoiceRepaid'
  BY DEF ReviewRead, Start, QuietInvoiceRepaid, ChecksStillHold, Reviewable, LifeCycle, LifeCycleOf, IsOpen, OpenForInvestment, Payable
<1>6. QuietWalletSolvent'
  BY DEF ReviewRead, Start, QuietWalletSolvent, ChecksStillHold, Affordable
<1> QED BY <1>1, <1>2, <1>3, <1>4, <1>5, <1>6

LEMMA AcceptCommitKeeps == ASSUME TInv, TInv', Consistent, NEW s \in Slots, NEW t \in Targets, AcceptCommit(s, t)
  PROVE Consistent'
<1> USE DEF TInv, TypeOK, Consistent, RequestsConsistent, RequestsAlone, Funding, Paying, Quiet, Stages,
            Statuses, invoiceVars, ledgerVars, reqVars, history
<1>1. RequestsAlone'
  BY DEF AcceptCommit, Finish
<1>2. ChecksStillHold'
  BY DEF AcceptCommit, Finish, ChecksStillHold, Reviewable, IsOpen, OpenForInvestment, Remaining, Payable, Affordable, Cap, LifeCycle, LifeCycleOf, Nothing
<1>3. LifeCycle'
  BY DEF AcceptCommit, Finish, LifeCycle, LifeCycleOf, ChecksStillHold, Reviewable, IsOpen, OpenForInvestment, Remaining, Payable, Cap
<1>4. QuietInvoicePaidOutOnce'
  BY DEF AcceptCommit, Finish, QuietInvoicePaidOutOnce, ChecksStillHold, LifeCycle, LifeCycleOf, Reviewable, IsOpen, OpenForInvestment, Remaining, Payable, Cap
<1>5. QuietInvoiceRepaid'
  BY DEF AcceptCommit, Finish, QuietInvoiceRepaid, ChecksStillHold, Reviewable, LifeCycle, LifeCycleOf, IsOpen, OpenForInvestment, Payable
<1>6. QuietWalletSolvent'
  BY DEF AcceptCommit, Finish, QuietWalletSolvent, ChecksStillHold, Affordable
<1> QED BY <1>1, <1>2, <1>3, <1>4, <1>5, <1>6

LEMMA FundReadKeeps == ASSUME TInv, TInv', Consistent, NEW s \in Slots, NEW i \in Investors, NEW v \in Invoices, NEW a \in FundAmounts, FundRead(s, i, v, a)
  PROVE Consistent'
<1> USE DEF TInv, TypeOK, Consistent, RequestsConsistent, RequestsAlone, Funding, Paying, Quiet, Stages,
            Statuses, invoiceVars, ledgerVars, reqVars, history
<1>1. RequestsAlone'
  BY DEF FundRead, Start
<1>2. ChecksStillHold'
  BY DEF FundRead, Start, ChecksStillHold, Reviewable, IsOpen, OpenForInvestment, Remaining, Payable, Affordable, Cap, LifeCycle, LifeCycleOf, Nothing
<1>3. LifeCycle'
  BY DEF FundRead, Start, LifeCycle, LifeCycleOf, ChecksStillHold, Reviewable, IsOpen, OpenForInvestment, Remaining, Payable, Cap
<1>4. QuietInvoicePaidOutOnce'
  BY DEF FundRead, Start, QuietInvoicePaidOutOnce, ChecksStillHold, LifeCycle, LifeCycleOf, Reviewable, IsOpen, OpenForInvestment, Remaining, Payable, Cap
<1>5. QuietInvoiceRepaid'
  BY DEF FundRead, Start, QuietInvoiceRepaid, ChecksStillHold, Reviewable, LifeCycle, LifeCycleOf, IsOpen, OpenForInvestment, Payable
<1>6. QuietWalletSolvent'
  BY DEF FundRead, Start, QuietWalletSolvent, ChecksStillHold, Affordable
<1> QED BY <1>1, <1>2, <1>3, <1>4, <1>5, <1>6

LEMMA FundCheckBalanceKeeps == ASSUME TInv, TInv', Consistent, NEW s \in Slots, FundCheckBalance(s)
  PROVE Consistent'
<1> USE DEF TInv, TypeOK, Consistent, RequestsConsistent, RequestsAlone, Funding, Paying, Quiet, Stages,
            Statuses, invoiceVars, ledgerVars, reqVars, history
<1>1. RequestsAlone'
  BY DEF FundCheckBalance, Goto, Finish
<1>2. ChecksStillHold'
  BY DEF FundCheckBalance, Goto, Finish, ChecksStillHold, Reviewable, IsOpen, OpenForInvestment, Remaining, Payable, Affordable, Cap, LifeCycle, LifeCycleOf, Nothing
<1>3. LifeCycle'
  BY DEF FundCheckBalance, Goto, Finish, LifeCycle, LifeCycleOf, ChecksStillHold, Reviewable, IsOpen, OpenForInvestment, Remaining, Payable, Cap
<1>4. QuietInvoicePaidOutOnce'
  BY DEF FundCheckBalance, Goto, Finish, QuietInvoicePaidOutOnce, ChecksStillHold, LifeCycle, LifeCycleOf, Reviewable, IsOpen, OpenForInvestment, Remaining, Payable, Cap
<1>5. QuietInvoiceRepaid'
  BY DEF FundCheckBalance, Goto, Finish, QuietInvoiceRepaid, ChecksStillHold, Reviewable, LifeCycle, LifeCycleOf, IsOpen, OpenForInvestment, Payable
<1>6. QuietWalletSolvent'
  BY DEF FundCheckBalance, Goto, Finish, QuietWalletSolvent, ChecksStillHold, Affordable
<1> QED BY <1>1, <1>2, <1>3, <1>4, <1>5, <1>6

LEMMA FundCommitKeeps == ASSUME TInv, TInv', Consistent, NEW s \in Slots, FundCommit(s)
  PROVE Consistent'
<1> USE DEF TInv, TypeOK, Consistent, RequestsConsistent, RequestsAlone, Funding, Paying, Quiet, Stages,
            Statuses, invoiceVars, ledgerVars, reqVars, history
<1>1. RequestsAlone'
  BY DEF FundCommit, Finish, Upserted
<1>2. ChecksStillHold'
  BY DEF FundCommit, Finish, Upserted, ChecksStillHold, Reviewable, IsOpen, OpenForInvestment, Remaining, Payable, Affordable, Cap, LifeCycle, LifeCycleOf, Nothing
<1>3. LifeCycle'
  <2> SUFFICES ASSUME NEW w \in Quiet PROVE LifeCycleOf(w)'
    BY DEF FundCommit, Finish, LifeCycle, LifeCycleOf
  <2>1. CASE w # inv[s]
    BY <2>1 DEF FundCommit, Finish, LifeCycle, LifeCycleOf, Cap
  <2>2. CASE w = inv[s]
    <3>1. /\ IsOpen(w) /\ amount[s] <= Remaining(w)
          /\ amount[s] \in Nat /\ amount[s] > 0 /\ fundedAmount[w] >= 0
      BY <2>2 DEF FundCommit, ChecksStillHold
    <3>2. /\ Cap(w)' = Cap(w)
          /\ fundedAmount'[w] = fundedAmount[w] + amount[s]
          /\ status'[w] = IF fundedAmount[w] + amount[s] >= Cap(w) THEN "funded" ELSE "funding"
          /\ confirmedAt'[w] = confirmedAt[w] /\ repaidAt'[w] = repaidAt[w]
      BY <2>2 DEF FundCommit, Cap
    <3>3. Cap(w) \in Int
      BY CapInt
    <3>4. repaidAt[w] = IF status[w] = "repaid" THEN 1 ELSE 0
      BY DEF LifeCycle, LifeCycleOf
    <3>5. status[w] = "submitted" <=> confirmedAt[w] = 0
      BY DEF LifeCycle, LifeCycleOf
    <3>6. fundedAmount[w] \in Nat
      OBVIOUS
    <3> QED BY ONLY <3>1, <3>2, <3>3, <3>4, <3>5, <3>6 DEF LifeCycleOf, IsOpen, OpenForInvestment, Remaining
  <2> QED BY <2>1, <2>2
<1>4. QuietInvoicePaidOutOnce'
  BY DEF FundCommit, Finish, Upserted, QuietInvoicePaidOutOnce, ChecksStillHold, LifeCycle, LifeCycleOf, Reviewable, IsOpen, OpenForInvestment, Remaining, Payable, Cap
<1>5. QuietInvoiceRepaid'
  <2> SUFFICES ASSUME NEW w \in Quiet, NEW i \in Investors
               PROVE  repayments'[w][i] = IF status'[w] = "repaid" THEN holding'[w][i] ELSE 0
    BY DEF FundCommit, Finish, QuietInvoiceRepaid
  <2>1. repayments[w][i] = IF status[w] = "repaid" THEN holding[w][i] ELSE 0
    BY DEF QuietInvoiceRepaid
  <2>2. CASE w # inv[s]
    BY <2>1, <2>2 DEF FundCommit
  <2>3. CASE w = inv[s]
    <3>1. IsOpen(w)
      BY <2>3 DEF FundCommit, ChecksStillHold
    <3>2. repayments' = repayments /\ status'[w] \in {"funding", "funded"}
      BY <2>3 DEF FundCommit
    <3> QED BY <2>1, <3>1, <3>2 DEF IsOpen, OpenForInvestment
  <2> QED BY <2>2, <2>3
<1>6. QuietWalletSolvent'
  BY DEF FundCommit, Finish, Upserted, QuietWalletSolvent, ChecksStillHold, Affordable
<1> QED BY <1>1, <1>2, <1>3, <1>4, <1>5, <1>6

LEMMA PayReadKeeps == ASSUME TInv, TInv', Consistent, NEW s \in Slots, NEW v \in Invoices, PayRead(s, v)
  PROVE Consistent'
<1> USE DEF TInv, TypeOK, Consistent, RequestsConsistent, RequestsAlone, Funding, Paying, Quiet, Stages,
            Statuses, invoiceVars, ledgerVars, reqVars, history
<1>1. RequestsAlone'
  BY DEF PayRead, Start
<1>2. ChecksStillHold'
  BY DEF PayRead, Start, ChecksStillHold, Reviewable, IsOpen, OpenForInvestment, Remaining, Payable, Affordable, Cap, LifeCycle, LifeCycleOf, Nothing
<1>3. LifeCycle'
  BY DEF PayRead, Start, LifeCycle, LifeCycleOf, ChecksStillHold, Reviewable, IsOpen, OpenForInvestment, Remaining, Payable, Cap
<1>4. QuietInvoicePaidOutOnce'
  BY DEF PayRead, Start, QuietInvoicePaidOutOnce, ChecksStillHold, LifeCycle, LifeCycleOf, Reviewable, IsOpen, OpenForInvestment, Remaining, Payable, Cap
<1>5. QuietInvoiceRepaid'
  BY DEF PayRead, Start, QuietInvoiceRepaid, ChecksStillHold, Reviewable, LifeCycle, LifeCycleOf, IsOpen, OpenForInvestment, Payable
<1>6. QuietWalletSolvent'
  BY DEF PayRead, Start, QuietWalletSolvent, ChecksStillHold, Affordable
<1> QED BY <1>1, <1>2, <1>3, <1>4, <1>5, <1>6

LEMMA PayHoldingsKeeps == ASSUME TInv, TInv', Consistent, NEW s \in Slots, PayHoldings(s)
  PROVE Consistent'
<1> USE DEF TInv, TypeOK, Consistent, RequestsConsistent, RequestsAlone, Funding, Paying, Quiet, Stages,
            Statuses, invoiceVars, ledgerVars, reqVars, history
<1>1. RequestsAlone'
  BY DEF PayHoldings
<1>2. ChecksStillHold'
  BY DEF PayHoldings, ChecksStillHold, Reviewable, IsOpen, OpenForInvestment, Remaining, Payable, Affordable, Cap, LifeCycle, LifeCycleOf, Nothing
<1>3. LifeCycle'
  BY DEF PayHoldings, LifeCycle, LifeCycleOf, ChecksStillHold, Reviewable, IsOpen, OpenForInvestment, Remaining, Payable, Cap
<1>4. QuietInvoicePaidOutOnce'
  BY DEF PayHoldings, QuietInvoicePaidOutOnce, ChecksStillHold, LifeCycle, LifeCycleOf, Reviewable, IsOpen, OpenForInvestment, Remaining, Payable, Cap
<1>5. QuietInvoiceRepaid'
  BY DEF PayHoldings, QuietInvoiceRepaid, ChecksStillHold, Reviewable, LifeCycle, LifeCycleOf, IsOpen, OpenForInvestment, Payable
<1>6. QuietWalletSolvent'
  BY DEF PayHoldings, QuietWalletSolvent, ChecksStillHold, Affordable
<1> QED BY <1>1, <1>2, <1>3, <1>4, <1>5, <1>6

LEMMA PayCommitKeeps == ASSUME TInv, TInv', Consistent, NEW s \in Slots, PayCommit(s)
  PROVE Consistent'
<1> USE DEF TInv, TypeOK, Consistent, RequestsConsistent, RequestsAlone, Funding, Paying, Quiet, Stages,
            Statuses, invoiceVars, ledgerVars, reqVars, history
<1>1. RequestsAlone'
  BY DEF PayCommit, Finish
<1>2. ChecksStillHold'
  BY DEF PayCommit, Finish, ChecksStillHold, Reviewable, IsOpen, OpenForInvestment, Remaining, Payable, Affordable, Cap, LifeCycle, LifeCycleOf, Nothing
<1>3. LifeCycle'
  BY DEF PayCommit, Finish, LifeCycle, LifeCycleOf, ChecksStillHold, Reviewable, IsOpen, OpenForInvestment, Remaining, Payable, Cap
<1>4. QuietInvoicePaidOutOnce'
  BY DEF PayCommit, Finish, QuietInvoicePaidOutOnce, ChecksStillHold, LifeCycle, LifeCycleOf, Reviewable, IsOpen, OpenForInvestment, Remaining, Payable, Cap
<1>5. QuietInvoiceRepaid'
  <2> SUFFICES ASSUME NEW w \in Quiet, NEW i \in Investors
               PROVE  repayments'[w][i] = IF status'[w] = "repaid" THEN holding'[w][i] ELSE 0
    BY DEF PayCommit, Finish, QuietInvoiceRepaid
  <2>1. repayments[w][i] = IF status[w] = "repaid" THEN holding[w][i] ELSE 0
    BY DEF QuietInvoiceRepaid
  <2>2. CASE w # inv[s]
    BY <2>1, <2>2 DEF PayCommit
  <2>3. CASE w = inv[s]
    <3>1. Payable(w) /\ held[s] = holding[w]
      BY <2>3 DEF PayCommit, ChecksStillHold
    <3>2. /\ repayments'[w][i] = repayments[w][i] + held[s][i]
          /\ status'[w] = "repaid" /\ holding' = holding
      BY <2>3 DEF PayCommit
    <3> QED BY <2>1, <3>1, <3>2 DEF Payable
  <2> QED BY <2>2, <2>3
<1>6. QuietWalletSolvent'
  BY DEF PayCommit, Finish, QuietWalletSolvent, ChecksStillHold, Affordable
<1> QED BY <1>1, <1>2, <1>3, <1>4, <1>5, <1>6

LEMMA AbortKeeps == ASSUME TInv, TInv', Consistent, NEW s \in Slots, Abort(s)
  PROVE Consistent'
<1> USE DEF TInv, TypeOK, Consistent, RequestsConsistent, RequestsAlone, Funding, Paying, Quiet, Stages,
            Statuses, invoiceVars, ledgerVars, reqVars, history
<1>1. RequestsAlone'
  BY DEF Abort, Finish
<1>2. ChecksStillHold'
  BY DEF Abort, Finish, ChecksStillHold, Reviewable, IsOpen, OpenForInvestment, Remaining, Payable, Affordable, Cap, LifeCycle, LifeCycleOf, Nothing
<1>3. LifeCycle'
  BY DEF Abort, Finish, LifeCycle, LifeCycleOf, ChecksStillHold, Reviewable, IsOpen, OpenForInvestment, Remaining, Payable, Cap
<1>4. QuietInvoicePaidOutOnce'
  BY DEF Abort, Finish, QuietInvoicePaidOutOnce, ChecksStillHold, LifeCycle, LifeCycleOf, Reviewable, IsOpen, OpenForInvestment, Remaining, Payable, Cap
<1>5. QuietInvoiceRepaid'
  BY DEF Abort, Finish, QuietInvoiceRepaid, ChecksStillHold, Reviewable, LifeCycle, LifeCycleOf, IsOpen, OpenForInvestment, Payable
<1>6. QuietWalletSolvent'
  BY DEF Abort, Finish, QuietWalletSolvent, ChecksStillHold, Affordable
<1> QED BY <1>1, <1>2, <1>3, <1>4, <1>5, <1>6

(* QuietCorrect: the invariants of quiet invoices and of investors who are   *)
(* not rushing hold in every reachable state.                                *)
THEOREM QuietCorrect == Spec => []Consistent
<1>1. Init => Consistent
  <2> SUFFICES ASSUME Init PROVE Consistent
    OBVIOUS
  <2> USE DEF Init, Quiet, Funding, Paying, OpenForInvestment, Nothing
  <2>1. RequestsConsistent /\ RequestsAlone
    BY DEF RequestsConsistent, RequestsAlone
  <2>2. ChecksStillHold
    BY DEF ChecksStillHold
  <2>3. LifeCycle /\ QuietInvoicePaidOutOnce
    BY DEF LifeCycle, LifeCycleOf, QuietInvoicePaidOutOnce
  <2>4. QuietInvoiceRepaid /\ QuietWalletSolvent
    BY DEF QuietInvoiceRepaid, QuietWalletSolvent
  <2> QED BY <2>1, <2>2, <2>3, <2>4 DEF Consistent
<1>2. TInv /\ TInv' /\ Consistent /\ [Next]_vars => Consistent'
  <2> SUFFICES ASSUME TInv, TInv', Consistent, [Next]_vars PROVE Consistent'
    OBVIOUS
  <2>1. CASE Next
    BY <2>1, DepositKeeps, ReviewReadKeeps, AcceptCommitKeeps, FundReadKeeps,
       FundCheckBalanceKeeps, FundCommitKeeps, PayReadKeeps, PayHoldingsKeeps,
       PayCommitKeeps, AbortKeeps DEF Next, Review, Fund, Pay
  <2>2. CASE UNCHANGED vars
    BY <2>2 DEF vars, invoiceVars, ledgerVars, reqVars, history, Consistent,
       RequestsConsistent, RequestsAlone, ChecksStillHold, LifeCycle, LifeCycleOf,
       QuietInvoicePaidOutOnce, QuietInvoiceRepaid, QuietWalletSolvent, Quiet,
       Reviewable, IsOpen, Remaining, Payable, Affordable, Cap
  <2> QED BY <2>1, <2>2
<1> QED BY <1>1, <1>2, TypeCorrect, PTL DEF Spec, TInv

(* QuietCapped: a quiet invoice is never funded past its target.             *)
THEOREM QuietCapped == Spec => []QuietInvoiceCapped
<1>1. TInv /\ Consistent => QuietInvoiceCapped
  <2> SUFFICES ASSUME TInv, Consistent, NEW v \in Quiet
               PROVE  fundedAmount[v] = 0 \/ fundedAmount[v] <= Cap(v)
    BY DEF QuietInvoiceCapped
  <2>1. status[v] \in Statuses /\ fundedAmount[v] \in Nat
    BY DEF TInv, TypeOK, Quiet
  <2>2. LifeCycleOf(v)
    BY DEF Consistent, LifeCycle, LifeCycleOf
  <2>3. Cap(v) \in Int
    BY CapInt DEF TInv, Quiet
  <2> QED BY <2>1, <2>2, <2>3 DEF LifeCycleOf, Statuses
<1> QED BY <1>1, TypeCorrect, QuietCorrect, PTL DEF TInv

(* QuietForward: no commit takes a quiet invoice back in its life cycle.     *)
THEOREM QuietForward == Spec => QuietStatusForward
<1> DEFINE Forward == \A v \in Invoices \ contended' : Rank[status[v]] <= Rank[status'[v]]
<1>1. TInv /\ TInv' /\ Consistent /\ [Next]_vars => [Forward]_vars
  <2> SUFFICES ASSUME TInv, TInv', Consistent, Next, NEW v \in Invoices \ contended'
               PROVE  Rank[status[v]] <= Rank[status'[v]]
    OBVIOUS
  <2>1. status[v] \in Statuses /\ Rank[status[v]] \in Nat
    BY DEF TInv, TypeOK, Statuses, Rank
  <2>2. CASE status'[v] = status[v]
    BY <2>1, <2>2
  <2>3. ASSUME NEW s \in Slots, NEW t \in Targets, AcceptCommit(s, t), v = inv[s]
        PROVE  Rank[status[v]] <= Rank[status'[v]]
    <3>1. contended' = contended /\ status'[v] = "tokenized"
      BY <2>3 DEF AcceptCommit, Finish, history, TInv, TypeOK
    <3>2. status[v] = "submitted"
      BY <2>3, <3>1 DEF AcceptCommit, Consistent, ChecksStillHold, Reviewable, LifeCycle,
                   LifeCycleOf, Quiet
    <3> QED BY <3>1, <3>2 DEF Rank
  <2>4. ASSUME NEW s \in Slots, FundCommit(s), v = inv[s]
        PROVE  Rank[status[v]] <= Rank[status'[v]]
    <3>1. contended' = contended /\ status'[v] \in {"funding", "funded"}
      BY <2>4 DEF FundCommit, Finish, history, TInv, TypeOK
    <3>2. status[v] \in {"tokenized", "funding"}
      BY <2>4, <3>1 DEF FundCommit, Consistent, ChecksStillHold, IsOpen, Quiet,
                   OpenForInvestment, Funding
    <3> QED BY <3>1, <3>2 DEF Rank
  <2>5. ASSUME NEW s \in Slots, PayCommit(s), v = inv[s]
        PROVE  Rank[status[v]] <= Rank[status'[v]]
    <3>1. status'[v] = "repaid"
      BY <2>5 DEF PayCommit, TInv, TypeOK
    <3> QED BY <2>1, <3>1 DEF Rank, Statuses
  <2>6. \/ status'[v] = status[v]
        \/ \E s \in Slots : v = inv[s] /\ (\/ \E t \in Targets : AcceptCommit(s, t)
                                          \/ FundCommit(s) \/ PayCommit(s))
    <3> USE DEF invoiceVars, TInv, TypeOK
    <3>1. ASSUME NEW s \in Slots, NEW t \in Targets, AcceptCommit(s, t)
          PROVE  v = inv[s] \/ status'[v] = status[v]
      BY <3>1 DEF AcceptCommit
    <3>2. ASSUME NEW s \in Slots, FundCommit(s)
          PROVE  v = inv[s] \/ status'[v] = status[v]
      BY <3>2 DEF FundCommit
    <3>3. ASSUME NEW s \in Slots, PayCommit(s)
          PROVE  v = inv[s] \/ status'[v] = status[v]
      BY <3>3 DEF PayCommit
    <3> QED BY <3>1, <3>2, <3>3 DEF Next, Review, Fund, Pay, Deposit, ReviewRead, FundRead,
               FundCheckBalance, PayRead, PayHoldings, Abort
  <2> QED BY <2>2, <2>3, <2>4, <2>5, <2>6
<1> QED BY <1>1, TypeCorrect, QuietCorrect, PTL DEF Spec, TInv, QuietStatusForward

(* The history never forgets an overlap. *)
LEMMA ContendedGrows == ASSUME Next PROVE contended \subseteq contended'
<1>1. ASSUME NEW s, NEW stage, NEW v, NEW i, NEW a, NEW raised, Start(s, stage, v, i, a, raised)
      PROVE  contended \subseteq contended'
  BY <1>1 DEF Start
<1>2. ASSUME contended' = contended
      PROVE  contended \subseteq contended'
  BY <1>2
<1>3. ASSUME NEW s \in Slots, Review(s)
      PROVE  contended \subseteq contended'
  BY <1>1, <1>2, <1>3 DEF Review, ReviewRead, AcceptCommit, Finish, history
<1>4. ASSUME NEW s \in Slots, Fund(s)
      PROVE  contended \subseteq contended'
  BY <1>1, <1>2, <1>4 DEF Fund, FundRead, FundCheckBalance, FundCommit, Goto, Finish, history
<1>5. ASSUME NEW s \in Slots, Pay(s)
      PROVE  contended \subseteq contended'
  BY <1>1, <1>2, <1>5 DEF Pay, PayRead, PayHoldings, PayCommit, Finish, history
<1>6. ASSUME NEW s \in Slots, Abort(s)
      PROVE  contended \subseteq contended'
  BY <1>2, <1>6 DEF Abort, Finish, history
<1> QED BY <1>2, <1>3, <1>4, <1>5, <1>6 DEF Next, Deposit, history

(* QuietStranded: a raise whose rest is below the API's minimum stays         *)
(* unfinished for ever, as long as no two requests overlap on the invoice.    *)
THEOREM QuietStranded == Spec => QuietStrandedStays
<1> DEFINE Stays == \A v \in Invoices \ contended' : Stranded(v) => Stranded(v)'
<1>1. TInv /\ Consistent /\ [Next]_vars => [Stays]_vars
  <2> SUFFICES ASSUME TInv, Consistent, Next, NEW v \in Invoices \ contended', Stranded(v)
               PROVE  Stranded(v)'
    OBVIOUS
  <2>1. status[v] = "funding" /\ Remaining(v) < MinFund /\ confirmedAt[v] # 0
    <3>1. contended \subseteq contended'
      BY ContendedGrows
    <3> QED BY <3>1 DEF Stranded, Consistent, LifeCycle, LifeCycleOf, Quiet
  <2>2. ASSUME status'[v] = status[v], fundedAmount'[v] = fundedAmount[v],
               fundingTargetAmount'[v] = fundingTargetAmount[v]
        PROVE  Stranded(v)'
    BY <2>1, <2>2 DEF Stranded, Remaining, Cap
  <2>3. ASSUME NEW s \in Slots, NEW t \in Targets, AcceptCommit(s, t)
        PROVE  Stranded(v)'
    <3>1. inv[s] # v
      BY <2>1, <2>3 DEF AcceptCommit, Finish, history, Consistent, ChecksStillHold,
                   Reviewable, Quiet
    <3> QED BY <2>2, <2>3, <3>1 DEF AcceptCommit, TInv, TypeOK
  <2>4. ASSUME NEW s \in Slots, FundCommit(s)
        PROVE  Stranded(v)'
    <3>1. amount[s] \in Nat /\ amount[s] >= MinFund
      BY <2>4 DEF FundCommit, TInv, RequestsConsistent, Funding
    <3>2. Remaining(v) \in Int
      BY CapInt DEF TInv, TypeOK, Remaining
    <3>3. inv[s] = v => amount[s] <= Remaining(v)
      BY <2>4 DEF FundCommit, Finish, history, Consistent, ChecksStillHold, Quiet, Funding
    <3>4. inv[s] # v
      BY <2>1, <3>1, <3>2, <3>3
    <3> QED BY <2>2, <2>4, <3>4 DEF FundCommit, TInv, TypeOK
  <2>5. ASSUME NEW s \in Slots, PayCommit(s)
        PROVE  Stranded(v)'
    <3>1. inv[s] # v
      BY <2>1, <2>5 DEF PayCommit, Finish, history, Consistent, ChecksStillHold, Payable,
                   Quiet, Paying
    <3> QED BY <2>2, <2>5, <3>1 DEF PayCommit, TInv, TypeOK
  <2> QED BY <2>2, <2>3, <2>4, <2>5 DEF Next, Review, Fund, Pay, Deposit, ReviewRead, FundRead,
             FundCheckBalance, PayRead, PayHoldings, Abort, invoiceVars
<1> QED BY <1>1, TypeCorrect, QuietCorrect, PTL DEF Spec, TInv, QuietStrandedStays

-----------------------------------------------------------------------------
(* What the columns of the money path sum up to.                             *)

LEMMA RowSum == ASSUME NEW T, NEW row \in [Investors -> T]
                PROVE  SumFunction(row) = SumFunctionOnSet(row, Investors)
BY DEF SumFunction

(* FundedSum: fundedAmount is the sum of the invoice's holdings, whatever    *)
(* requests overlap, for fundInvoice updates both by increments only.        *)
THEOREM FundedSum == ASSUME IsFiniteSet(Investors) PROVE Spec => []FundedIsSumOfHoldings
<1> DEFINE Sum(v) == SumFunctionOnSet(holding[v], Investors)
           I == \A v \in Invoices : fundedAmount[v] = Sum(v)
<1>1. Init => I
  <2>1. SumFunctionOnSet(Nothing, Investors) = 0
    BY SumOfZeros DEF Nothing
  <2> QED BY <2>1 DEF Init
<1>2. TInv /\ TInv' /\ I /\ [Next]_vars => I'
  <2> SUFFICES ASSUME TInv, TInv', I, [Next]_vars, NEW v \in Invoices PROVE (fundedAmount[v] = Sum(v))'
    OBVIOUS
  <2>1. CASE fundedAmount'[v] = fundedAmount[v] /\ holding'[v] = holding[v]
    BY <2>1
  <2>2. ASSUME NEW s \in Slots, FundCommit(s), v = inv[s]
        PROVE  fundedAmount'[v] = SumFunctionOnSet(holding'[v], Investors)
    <3>1. PICK i \in Investors : i = by[s]
      BY <2>2 DEF FundCommit, TInv, RequestsConsistent, Funding
    <3>2. /\ fundedAmount'[v] = fundedAmount[v] + amount[s]
          /\ holding'[v][i] = holding[v][i] + amount[s]
          /\ \A j \in Investors \ {i} : holding'[v][j] = holding[v][j]
      BY <2>2, <3>1 DEF FundCommit, Upserted, TInv, TypeOK
    <3>3. \A j \in Investors : holding[v][j] \in Int /\ holding'[v][j] \in Int
      BY DEF TInv, TypeOK
    <3>4. SumFunctionOnSet(holding'[v], Investors) = Sum(v) + holding'[v][i] - holding[v][i]
      BY <3>1, <3>2, <3>3, SumAdds
    <3>5. amount[s] \in Nat /\ fundedAmount[v] \in Nat /\ fundedAmount[v] = Sum(v)
      BY DEF TInv, TypeOK
    <3> QED BY <3>1, <3>2, <3>3, <3>4, <3>5
  <2>3. \/ fundedAmount'[v] = fundedAmount[v] /\ holding'[v] = holding[v]
        \/ \E s \in Slots : v = inv[s] /\ FundCommit(s)
    <3>1. ASSUME NEW s \in Slots, FundCommit(s), v # inv[s]
          PROVE  fundedAmount'[v] = fundedAmount[v] /\ holding'[v] = holding[v]
      BY <3>1 DEF FundCommit, TInv, TypeOK
    <3> QED BY <3>1 DEF Next, Review, Fund, Pay, Deposit, ReviewRead, AcceptCommit, FundRead,
               FundCheckBalance, PayRead, PayHoldings, PayCommit, Abort, vars, invoiceVars, ledgerVars
  <2> QED BY <2>1, <2>2, <2>3
<1>3. TInv /\ I => FundedIsSumOfHoldings
  BY RowSum DEF TInv, TypeOK, FundedIsSumOfHoldings
<1> QED BY <1>1, <1>2, <1>3, TypeCorrect, PTL DEF Spec, TInv

(* What the fundings in flight on an invoice will still add to it.           *)
Asked(v) == [s \in Slots |-> IF inv[s] = v /\ pc[s] \in Funding THEN amount[s] ELSE 0]

(* An invoice whose target is known, from the acceptance or as a legacy one. *)
Priced(v) == v \in Legacy \/ fundingTargetAmount[v] # 0

(* Money moves for priced invoices only, and no request asks for more than a *)
(* raise.                                                                    *)
AsksWithinRaise ==
  /\ \A v \in Invoices : status[v] # "submitted" => Priced(v)
  /\ \A s \in Slots : pc[s] \in Funding \cup Paying => Priced(inv[s])
  /\ \A s \in Slots : pc[s] \in Funding => amount[s] <= LargestCap

(* What came in and what is asked for never exceeds one raise per slot: a    *)
(* request is let in only while what came in alone is within the target, and *)
(* each of the others in flight asks for at most a raise.                    *)
RoomLeft == \A v \in Invoices :
  fundedAmount[v] + SumFunctionOnSet(Asked(v), Slots) <= Cardinality(Slots) * LargestCap

(* Some raise is possible at all. *)
SomeRaise == Legacy # {} \/ \E t \in Targets : t > 0

LEMMA LargestCapIs == ASSUME SomeRaise
                      PROVE  /\ LargestCap \in Nat
                             /\ Legacy # {} => LargestCap = FaceAmount
                             /\ \A t \in Targets : t <= LargestCap
<1>1. CASE Legacy # {}
  BY <1>1 DEF LargestCap
<1>2. CASE Legacy = {}
  <2>1. PICK t \in Targets : t > 0
    BY <1>2 DEF SomeRaise
  <2>2. \E c \in Targets : \A d \in Targets : d <= c
    <3>1. Targets \in SUBSET Int /\ FaceAmount \in Int /\ \A x \in Targets : x <= FaceAmount
      BY MarketplaceAssumption
    <3> QED BY <2>1, <3>1, LargestExists
  <2>3. LargestCap = CHOOSE c \in Targets : \A d \in Targets : d <= c
    BY <1>2 DEF LargestCap
  <2>4. LargestCap \in Targets /\ \A d \in Targets : d <= LargestCap
    BY <2>2, <2>3
  <2> QED BY <1>2, <2>1, <2>4
<1> QED BY <1>1, <1>2

LEMMA CapWithinLargest == ASSUME SomeRaise, TypeOK, NEW v \in Invoices, Priced(v)
                          PROVE  Cap(v) <= LargestCap
<1>1. fundingTargetAmount[v] \in Targets \cup {0}
  BY DEF TypeOK
<1>2. CASE v \in Legacy
  <2>1. LargestCap = FaceAmount /\ \A t \in Targets : t <= FaceAmount
    BY <1>2, LargestCapIs, MarketplaceAssumption
  <2>2. FaceAmount \in Int
    BY MarketplaceAssumption
  <2> QED BY ONLY <1>1, <2>1, <2>2 DEF Cap
<1>3. CASE fundingTargetAmount[v] # 0
  BY <1>1, <1>3, LargestCapIs DEF Cap
<1> QED BY <1>2, <1>3 DEF Priced

(* Every step keeps what is asked for within the raise. *)
LEMMA AsksStep == ASSUME SomeRaise, TInv, TInv', AsksWithinRaise, [Next]_vars
                  PROVE  AsksWithinRaise'
<1> USE DEF TInv, TypeOK, RequestsConsistent, AsksWithinRaise, Priced, Funding, Paying
<1>1. ASSUME NEW s \in Slots, NEW t \in Targets, AcceptCommit(s, t)
      PROVE  AsksWithinRaise'
  <2>1. t # 0
    BY MarketplaceAssumption
  <2> QED BY <1>1, <2>1 DEF AcceptCommit, Finish
<1>2. ASSUME NEW s \in Slots, NEW i \in Investors, NEW v \in Invoices, NEW a \in FundAmounts,
             FundRead(s, i, v, a)
      PROVE  AsksWithinRaise'
  <2>1. Priced(v)
    BY <1>2 DEF FundRead, IsOpen, OpenForInvestment
  <2>2. a <= LargestCap
    <3>1. a <= Cap(v) - fundedAmount[v] /\ a \in Int /\ fundedAmount[v] \in Nat
      BY <1>2 DEF FundRead, Remaining
    <3>2. Cap(v) <= LargestCap /\ Cap(v) \in Int /\ LargestCap \in Int
      BY <2>1, CapWithinLargest, CapInt, LargestCapIs
    <3> QED BY <3>1, <3>2
  <2> QED BY <1>2, <2>1, <2>2 DEF FundRead, Start, invoiceVars
<1>3. ASSUME NEW s \in Slots, FundCheckBalance(s)
      PROVE  AsksWithinRaise'
  <2>1. CASE Goto(s, "fundCommit")
    BY <1>3, <2>1 DEF FundCheckBalance, Goto, invoiceVars
  <2>2. CASE Finish(s)
    BY <1>3, <2>2 DEF FundCheckBalance, Finish, invoiceVars
  <2> QED BY <1>3, <2>1, <2>2 DEF FundCheckBalance
<1>4. ASSUME NEW s \in Slots, FundCommit(s)
      PROVE  AsksWithinRaise'
  <2>1. \A v \in Invoices : status'[v] # "submitted" => Priced(v)
    BY <1>4 DEF FundCommit
  <2>2. Finish(s) /\ fundingTargetAmount' = fundingTargetAmount
    BY <1>4 DEF FundCommit
  <2> QED BY <2>1, <2>2 DEF Finish
<1>5. ASSUME NEW s \in Slots, PayCommit(s)
      PROVE  AsksWithinRaise'
  <2>1. inv[s] \in Invoices /\ Priced(inv[s])
    BY <1>5 DEF PayCommit
  <2> QED BY <1>5, <2>1 DEF PayCommit, Finish
<1>6. ASSUME NEW s \in Slots, NEW v \in Invoices, PayRead(s, v)
      PROVE  AsksWithinRaise'
  BY <1>6 DEF PayRead, Start, invoiceVars, Payable
<1>7. ASSUME NEW s \in Slots, PayHoldings(s) \/ Abort(s) \/ \E v \in Invoices : ReviewRead(s, v)
      PROVE  AsksWithinRaise'
  <2>1. CASE PayHoldings(s)
    BY <2>1 DEF PayHoldings, invoiceVars
  <2>2. CASE Abort(s)
    BY <2>2 DEF Abort, Finish, invoiceVars
  <2>3. ASSUME NEW v \in Invoices, ReviewRead(s, v)
        PROVE  AsksWithinRaise'
    BY <2>3 DEF ReviewRead, Start, invoiceVars
  <2> QED BY <1>7, <2>1, <2>2, <2>3
<1>8. ASSUME NEW i \in Investors, NEW a \in DepositAmounts, Deposit(i, a)
      PROVE  AsksWithinRaise'
  BY <1>8 DEF Deposit, invoiceVars, reqVars
<1>9. CASE UNCHANGED vars
  BY <1>9 DEF vars, invoiceVars, reqVars
<1> QED BY <1>1, <1>2, <1>3, <1>4, <1>5, <1>6, <1>7, <1>8, <1>9 DEF Next, Review, Fund, Pay

(* Every step leaves the asked money within the room there is. *)
LEMMA RoomStep ==
  ASSUME SomeRaise, IsFiniteSet(Slots), TInv, TInv', AsksWithinRaise, RoomLeft, [Next]_vars
  PROVE  RoomLeft'
<1> DEFINE Room == Cardinality(Slots) * LargestCap
           Sum(v) == SumFunctionOnSet(Asked(v), Slots)
<1> SUFFICES ASSUME NEW v \in Invoices PROVE fundedAmount'[v] + Sum(v)' <= Room
  BY DEF RoomLeft
<1> DEFINE Eases == fundedAmount'[v] = fundedAmount[v] /\ \A s \in Slots : Asked(v)'[s] <= Asked(v)[s]
<1>0. Cardinality(Slots) \in Nat /\ LargestCap \in Nat /\ Room \in Int
  BY FS_CardinalityType, LargestCapIs
<1>1. \A s \in Slots : Asked(v)[s] \in Int /\ Asked(v)'[s] \in Int
  BY DEF TInv, TypeOK, Asked
<1>2. Sum(v) \in Int /\ Sum(v)' \in Int /\ fundedAmount[v] \in Nat /\ fundedAmount'[v] \in Nat
  <2>1. Sum(v) \in Int
    BY <1>1, SumInt
  <2>2. Sum(v)' \in Int
    BY <1>1, SumInt
  <2> QED BY <2>1, <2>2 DEF TInv, TypeOK
<1>3. fundedAmount[v] + Sum(v) <= Room
  BY DEF RoomLeft
<1>4. ASSUME Eases
      PROVE  fundedAmount'[v] + Sum(v)' <= Room
  <2>1. \A s \in Slots : 1 * Asked(v)'[s] <= 1 * Asked(v)[s]
    BY <1>1, <1>4
  <2>2. 1 * Sum(v)' <= 1 * Sum(v)
    BY <1>1, <2>1, SumWeighed
  <2> HIDE DEF Sum, Room
  <2> QED BY <1>0, <1>2, <1>3, <1>4, <2>2
<1>5. ASSUME NEW s \in Slots, NEW i \in Investors, NEW a \in FundAmounts, FundRead(s, i, v, a)
      PROVE  fundedAmount'[v] + Sum(v)' <= Room
  <2> DEFINE others == SumFunctionOnSet(Asked(v)', Slots \ {s})
  <2>1. IsFiniteSet(Slots \ {s}) /\ Cardinality(Slots \ {s}) = Cardinality(Slots) - 1
    BY FS_RemoveElement
  <2>2. \A t \in Slots \ {s} : Asked(v)'[t] <= LargestCap
    BY <1>0, <1>5 DEF FundRead, Start, AsksWithinRaise, Asked, TInv, TypeOK
  <2>3. others <= (Cardinality(Slots) - 1) * LargestCap
    BY <1>0, <1>1, <2>1, <2>2, SumBounded
  <2>4. Sum(v)' = Asked(v)'[s] + others
    BY <1>1, SumTakesOut
  <2>5. Asked(v)'[s] = a
    BY <1>5 DEF FundRead, Start, Asked, Funding, TInv, TypeOK
  <2>6. fundedAmount'[v] + a <= LargestCap
    <3>1. a <= Cap(v) - fundedAmount[v] /\ fundedAmount'[v] = fundedAmount[v] /\ a \in Nat
      BY <1>5 DEF FundRead, Remaining, invoiceVars
    <3>2. Priced(v)
      BY <1>5 DEF FundRead, IsOpen, OpenForInvestment, AsksWithinRaise
    <3>3. Cap(v) <= LargestCap /\ Cap(v) \in Int
      BY <3>2, CapWithinLargest, CapInt DEF TInv
    <3> QED BY <1>0, <1>2, <3>1, <3>3
  <2>7. others \in Int /\ a \in Nat
    BY <1>1, <2>1, SumInt
  <2>8. (Cardinality(Slots) - 1) * LargestCap = Room - LargestCap
    BY <1>0
  <2> HIDE DEF Sum, Room, others
  <2> QED BY <1>0, <1>2, <2>3, <2>4, <2>5, <2>6, <2>7, <2>8
<1>6. ASSUME NEW s \in Slots, FundCommit(s), v = inv[s]
      PROVE  fundedAmount'[v] + Sum(v)' <= Room
  <2>1. fundedAmount'[v] = fundedAmount[v] + amount[s] /\ amount[s] \in Nat
    BY <1>6 DEF FundCommit, TInv, TypeOK
  <2>2. /\ Asked(v)[s] = amount[s] /\ Asked(v)'[s] = 0
        /\ \A t \in Slots \ {s} : Asked(v)'[t] = Asked(v)[t]
    BY <1>6 DEF FundCommit, Finish, Asked, Funding, TInv, TypeOK
  <2>3. Sum(v)' = Sum(v) + Asked(v)'[s] - Asked(v)[s]
    BY <1>1, <2>2, SumAdds
  <2> HIDE DEF Sum, Room
  <2> QED BY <1>0, <1>2, <1>3, <2>1, <2>2, <2>3
<1>7. \/ \E s \in Slots : FundCommit(s) /\ v = inv[s]
      \/ \E s \in Slots, i \in Investors, a \in FundAmounts : FundRead(s, i, v, a)
      \/ Eases
  <2> USE DEF TInv, TypeOK, RequestsConsistent, Asked, Funding, invoiceVars, ledgerVars, reqVars
  <2>1. ASSUME NEW s \in Slots, NEW w \in Invoices, ReviewRead(s, w) \/ PayRead(s, w)
        PROVE  Eases
    BY <2>1 DEF ReviewRead, PayRead, Start
  <2>2. ASSUME NEW s \in Slots, NEW i \in Investors, NEW w \in Invoices \ {v}, NEW a \in FundAmounts,
               FundRead(s, i, w, a)
        PROVE  Eases
    BY <2>2 DEF FundRead, Start
  <2>3. ASSUME NEW s \in Slots, Goto(s, "fundCommit"), pc[s] = "fundBalance", UNCHANGED invoiceVars
        PROVE  Eases
    BY <2>3 DEF Goto
  <2>4. ASSUME NEW s \in Slots, Finish(s), fundedAmount'[v] = fundedAmount[v]
        PROVE  Eases
    BY <2>4 DEF Finish
  <2>5. ASSUME NEW s \in Slots, FundCommit(s), v # inv[s]
        PROVE  Eases
    <3>1. Finish(s) /\ fundedAmount'[v] = fundedAmount[v]
      BY <2>5 DEF FundCommit
    <3> QED BY <2>4, <3>1
  <2>6. ASSUME NEW s \in Slots, PayHoldings(s)
        PROVE  Eases
    BY <2>6 DEF PayHoldings
  <2>7. ASSUME UNCHANGED reqVars, UNCHANGED invoiceVars
        PROVE  Eases
    BY <2>7
  <2>8. ASSUME NEW s \in Slots, FundCheckBalance(s) \/ Abort(s) \/ PayCommit(s)
               \/ \E t \in Targets : AcceptCommit(s, t)
        PROVE  Eases
    <3> HIDE DEF TInv, TypeOK, RequestsConsistent, Asked
    <3> QED BY <2>3, <2>4, <2>8 DEF FundCheckBalance, Abort, PayCommit, AcceptCommit
  <2> HIDE DEF TInv, TypeOK, RequestsConsistent, Asked
  <2> QED BY <2>1, <2>2, <2>5, <2>6, <2>7, <2>8 DEF Next, Review, Fund, Pay, Deposit, vars
<1> QED BY <1>4, <1>5, <1>6, <1>7

(* OverfundingBounded: however requests overlap, an invoice takes in at most *)
(* one whole raise per request that the API serves at once.                  *)
THEOREM OverfundingBounded ==
  ASSUME IsFiniteSet(Slots), SomeRaise PROVE Spec => []OverfundBounded
<1>1. Init => AsksWithinRaise /\ RoomLeft
  <2> SUFFICES ASSUME Init PROVE AsksWithinRaise /\ RoomLeft
    OBVIOUS
  <2>1. AsksWithinRaise
    BY DEF Init, AsksWithinRaise, Priced, Funding, Paying
  <2>2. ASSUME NEW v \in Invoices PROVE SumFunctionOnSet(Asked(v), Slots) = 0
    <3>1. \A s \in Slots : Asked(v)[s] = 0
      BY DEF Init, Asked, Funding
    <3> QED BY <3>1, SumOfZeros
  <2>3. Cardinality(Slots) \in Nat /\ LargestCap \in Nat
    BY FS_CardinalityType, LargestCapIs
  <2>4. Cardinality(Slots) * LargestCap >= 0
    BY <2>3
  <2> QED BY <2>1, <2>2, <2>4 DEF Init, RoomLeft
<1>2. TInv /\ TInv' /\ AsksWithinRaise /\ RoomLeft /\ [Next]_vars => AsksWithinRaise' /\ RoomLeft'
  BY AsksStep, RoomStep
<1>3. TInv /\ RoomLeft => OverfundBounded
  <2> SUFFICES ASSUME TInv, RoomLeft, NEW v \in Invoices
               PROVE  fundedAmount[v] <= Cardinality(Slots) * LargestCap
    BY DEF OverfundBounded
  <2>1. \A s \in Slots : Asked(v)[s] \in Nat
    BY DEF TInv, TypeOK, Asked
  <2>2. SumFunctionOnSet(Asked(v), Slots) \in Nat
    BY <2>1, SumOfNats
  <2>3. fundedAmount[v] + SumFunctionOnSet(Asked(v), Slots) <= Cardinality(Slots) * LargestCap
    BY DEF RoomLeft
  <2>4. fundedAmount[v] \in Nat /\ Cardinality(Slots) * LargestCap \in Int
    BY FS_CardinalityType, LargestCapIs DEF TInv, TypeOK
  <2> QED BY <2>2, <2>3, <2>4
<1> QED BY <1>1, <1>2, <1>3, TypeCorrect, PTL DEF Spec, TInv

-----------------------------------------------------------------------------
(* What overlapping requests can do to the wallets, the payout and the       *)
(* repayment at most.                                                        *)

LEMMA SumLess ==
  ASSUME NEW f, NEW g, NEW S, IsFiniteSet(S), \A x \in S : f[x] \in Int /\ g[x] \in Int /\ f[x] <= g[x]
  PROVE  SumFunctionOnSet(f, S) <= SumFunctionOnSet(g, S)
<1>1. \A x \in S : f[x] \in Int /\ g[x] \in Int /\ 1 * f[x] <= 1 * g[x]
  OBVIOUS
<1>2. 1 * SumFunctionOnSet(f, S) <= 1 * SumFunctionOnSet(g, S)
  BY <1>1, SumWeighed
<1>3. SumFunctionOnSet(f, S) \in Int /\ SumFunctionOnSet(g, S) \in Int
  BY SumInt
<1> QED BY <1>2, <1>3

LEMMA TimesGrows == ASSUME NEW n \in Nat, NEW h \in Nat, NEW k \in Nat, h <= k
                    PROVE  n * h <= n * k
<1>1. k - h \in Nat /\ n * (k - h) \in Nat
  OBVIOUS
<1>2. n * k = n * h + n * (k - h)
  BY <1>1
<1> QED BY <1>1, <1>2

(* What the investor's fundings that passed the balance check will take out  *)
(* of the wallet.                                                            *)
Owed(i) == [s \in Slots |-> IF by[s] = i /\ pc[s] = "fundCommit" THEN amount[s] ELSE 0]

(* What the wallet may lack for them: the last one to be checked was covered *)
(* by the wallet alone, each of the others asks for no more than the largest *)
(* amount.                                                                   *)
Overdraft == (Cardinality(Slots) - 1) * LargestFunding
OwedWithinOverdraft == \A i \in Investors :
  SumFunctionOnSet(Owed(i), Slots) <= wallet[i] + Overdraft

(* There is a largest amount that investors ask to fund. *)
SomeFunding == \E a \in FundAmounts : \A b \in FundAmounts : b <= a

LEMMA OverdraftInt == ASSUME IsFiniteSet(Slots), SomeFunding
                      PROVE  /\ LargestFunding \in Nat
                             /\ \A b \in FundAmounts : b <= LargestFunding
                             /\ Cardinality(Slots) \in Nat
                             /\ Overdraft \in Int
<1>1. LargestFunding \in FundAmounts /\ \A b \in FundAmounts : b <= LargestFunding
  BY DEF SomeFunding, LargestFunding
<1>2. Cardinality(Slots) \in Nat /\ LargestFunding \in Nat
  BY <1>1, FS_CardinalityType
<1> QED BY <1>1, <1>2 DEF Overdraft

LEMMA OwedInt == ASSUME TypeOK, IsFiniteSet(Slots), NEW i
                 PROVE  /\ \A s \in Slots : Owed(i)[s] \in Nat
                        /\ SumFunctionOnSet(Owed(i), Slots) \in Nat
<1>1. \A s \in Slots : Owed(i)[s] \in Nat
  BY DEF TypeOK, Owed
<1> QED BY <1>1, SumOfNats

(* Every step keeps what is owed within the overdraft. *)
LEMMA OwedStep ==
  ASSUME IsFiniteSet(Slots), SomeFunding, TInv, TInv', OwedWithinOverdraft, [Next]_vars
  PROVE  OwedWithinOverdraft'
<1> DEFINE Sum(i) == SumFunctionOnSet(Owed(i), Slots)
<1> SUFFICES ASSUME NEW i \in Investors PROVE Sum(i)' <= wallet'[i] + Overdraft
  BY DEF OwedWithinOverdraft, Overdraft
<1> DEFINE Eases == wallet'[i] >= wallet[i] /\ \A s \in Slots : Owed(i)'[s] <= Owed(i)[s]
<1>1. \A s \in Slots : Owed(i)[s] \in Int /\ Owed(i)'[s] \in Int
  BY DEF TInv, TypeOK, Owed
<1>2. Sum(i) \in Int /\ Sum(i)' \in Int /\ wallet[i] \in Int /\ wallet'[i] \in Int
  <2>1. Sum(i) \in Int
    BY <1>1, SumInt
  <2>2. Sum(i)' \in Int
    BY <1>1, SumInt
  <2> QED BY <2>1, <2>2 DEF TInv, TypeOK
<1>3. Sum(i) <= wallet[i] + Overdraft
  BY DEF OwedWithinOverdraft
<1>4. ASSUME Eases
      PROVE  Sum(i)' <= wallet'[i] + Overdraft
  <2>1. Sum(i)' <= Sum(i)
    BY <1>1, <1>4, SumLess
  <2> HIDE DEF Sum
  <2> QED BY <1>2, <1>3, <1>4, <2>1, OverdraftInt
<1>5. ASSUME NEW s \in Slots, pc[s] = "fundBalance", by[s] = i, wallet[i] >= amount[s],
             Goto(s, "fundCommit"), wallet' = wallet
      PROVE  Sum(i)' <= wallet'[i] + Overdraft
  <2> DEFINE others == SumFunctionOnSet(Owed(i)', Slots \ {s})
  <2>1. IsFiniteSet(Slots \ {s}) /\ Cardinality(Slots \ {s}) = Cardinality(Slots) - 1
    BY FS_RemoveElement
  <2>2. \A t \in Slots \ {s} : Owed(i)'[t] <= LargestFunding
    <3>1. \A t \in Slots : pc'[t] \in Funding => amount'[t] \in FundAmounts
      BY DEF TInv, RequestsConsistent
    <3> QED BY <3>1, OverdraftInt DEF Owed, Funding
  <2>3. others <= (Cardinality(Slots) - 1) * LargestFunding
    BY <1>1, <2>1, <2>2, OverdraftInt, SumBounded
  <2>4. Sum(i)' = Owed(i)'[s] + others
    BY <1>1, SumTakesOut
  <2>5. Owed(i)'[s] = amount[s] /\ amount[s] \in Nat
    BY <1>5 DEF Goto, Owed, TInv, TypeOK
  <2>6. others \in Int
    BY <1>1, <2>1, SumInt
  <2> HIDE DEF Sum, others
  <2> QED BY <1>2, <1>5, <2>3, <2>4, <2>5, <2>6, OverdraftInt DEF Overdraft
<1>6. ASSUME NEW s \in Slots, FundCommit(s), by[s] = i
      PROVE  Sum(i)' <= wallet'[i] + Overdraft
  <2>1. wallet'[i] = wallet[i] - amount[s] /\ amount[s] \in Nat
    BY <1>6 DEF FundCommit, TInv, TypeOK
  <2>2. /\ Owed(i)[s] = amount[s] /\ Owed(i)'[s] = 0
        /\ \A t \in Slots \ {s} : Owed(i)'[t] = Owed(i)[t]
    BY <1>6 DEF FundCommit, Finish, Owed, TInv, TypeOK
  <2>3. Sum(i)' = Sum(i) + Owed(i)'[s] - Owed(i)[s]
    BY <1>1, <2>2, SumAdds
  <2> HIDE DEF Sum
  <2> QED BY <1>2, <1>3, <2>1, <2>2, <2>3, OverdraftInt
<1>7. \/ \E s \in Slots : FundCommit(s) /\ by[s] = i
      \/ \E s \in Slots : /\ pc[s] = "fundBalance" /\ by[s] = i /\ wallet[i] >= amount[s]
                          /\ Goto(s, "fundCommit") /\ wallet' = wallet
      \/ Eases
  <2> USE DEF TInv, TypeOK, RequestsConsistent, Owed, Funding, ledgerVars, reqVars
  <2>1. ASSUME NEW s \in Slots, NEW w \in Invoices, ReviewRead(s, w) \/ PayRead(s, w)
        PROVE  Eases
    BY <2>1 DEF ReviewRead, PayRead, Start
  <2>2. ASSUME NEW s \in Slots, NEW j \in Investors, NEW w \in Invoices, NEW a \in FundAmounts,
               FundRead(s, j, w, a)
        PROVE  Eases
    BY <2>2 DEF FundRead, Start
  <2>3. ASSUME NEW s \in Slots, FundCheckBalance(s), by[s] # i
        PROVE  Eases
    <3>1. CASE Goto(s, "fundCommit")
      BY <2>3, <3>1 DEF FundCheckBalance, Goto
    <3>2. CASE Finish(s)
      BY <2>3, <3>2 DEF FundCheckBalance, Finish
    <3> QED BY <2>3, <3>1, <3>2 DEF FundCheckBalance
  <2>4. ASSUME NEW s \in Slots, Finish(s), wallet'[i] >= wallet[i]
        PROVE  Eases
    BY <2>4 DEF Finish
  <2>5. ASSUME NEW s \in Slots, FundCommit(s), by[s] # i
        PROVE  Eases
    <3>1. Finish(s) /\ wallet'[i] >= wallet[i]
      BY <2>5 DEF FundCommit
    <3> QED BY <2>4, <3>1
  <2>6. ASSUME NEW s \in Slots, PayCommit(s)
        PROVE  Eases
    <3>1. Finish(s) /\ wallet'[i] = wallet[i] + held[s][i] /\ held[s][i] \in Nat
      BY <2>6 DEF PayCommit
    <3>2. wallet'[i] >= wallet[i]
      BY <1>2, <3>1
    <3> HIDE DEF TInv, TypeOK, RequestsConsistent, Owed
    <3> QED BY <2>4, <3>1, <3>2
  <2>7. ASSUME NEW s \in Slots, PayHoldings(s)
        PROVE  Eases
    BY <2>7 DEF PayHoldings
  <2>8. ASSUME NEW j \in Investors, NEW a \in DepositAmounts, Deposit(j, a)
        PROVE  Eases
    BY <2>8 DEF Deposit
  <2>9. ASSUME UNCHANGED reqVars, UNCHANGED ledgerVars
        PROVE  Eases
    BY <2>9
  <2>10. ASSUME NEW s \in Slots, Abort(s) \/ \E t \in Targets : AcceptCommit(s, t)
         PROVE  Eases
    <3>1. Finish(s) /\ wallet'[i] = wallet[i]
      BY <2>10 DEF Abort, AcceptCommit
    <3>2. wallet'[i] >= wallet[i]
      BY <1>2, <3>1
    <3> HIDE DEF TInv, TypeOK, RequestsConsistent, Owed
    <3> QED BY <2>4, <3>1, <3>2
  <2>11. ASSUME NEW s \in Slots, FundCheckBalance(s), by[s] = i
         PROVE  \/ Eases
                \/ /\ pc[s] = "fundBalance" /\ by[s] = i /\ wallet[i] >= amount[s]
                   /\ Goto(s, "fundCommit") /\ wallet' = wallet
    <3>1. wallet' = wallet /\ wallet'[i] >= wallet[i] /\ pc[s] = "fundBalance"
      BY <1>2, <2>11 DEF FundCheckBalance
    <3> HIDE DEF TInv, TypeOK, RequestsConsistent, Owed
    <3> QED BY <2>4, <2>11, <3>1 DEF FundCheckBalance, Affordable
  <2> HIDE DEF TInv, TypeOK, RequestsConsistent, Owed
  <2> HIDE DEF Eases
  <2> QED BY <2>1, <2>2, <2>3, <2>5, <2>6, <2>7, <2>8, <2>9, <2>10, <2>11 DEF Next, Review, Fund, Pay, vars
<1> QED BY <1>4, <1>5, <1>6, <1>7

(* WalletsSolvent: an investor who funds one invoice at a time never         *)
(* overdraws; however many fundings of an investor overlap, all of them but  *)
(* one is the most that the wallet comes to lack.                            *)
THEOREM WalletsSolvent ==
  ASSUME IsFiniteSet(Slots), Slots # {}, SomeFunding PROVE Spec => []WalletSolvent
<1>1. Init => OwedWithinOverdraft
  <2> SUFFICES ASSUME Init, NEW i \in Investors
               PROVE  SumFunctionOnSet(Owed(i), Slots) <= wallet[i] + Overdraft
    BY DEF OwedWithinOverdraft
  <2>1. SumFunctionOnSet(Owed(i), Slots) = 0
    <3>1. \A s \in Slots : Owed(i)[s] = 0
      BY DEF Init, Owed
    <3> QED BY <3>1, SumOfZeros
  <2>2. Cardinality(Slots) >= 1
    <3>1. Cardinality(Slots) # 0
      BY FS_EmptySet
    <3> QED BY <3>1, OverdraftInt
  <2>3. Overdraft >= 0
    BY <2>2, OverdraftInt DEF Overdraft
  <2>4. wallet[i] = 0
    BY DEF Init, Nothing
  <2> QED BY <2>1, <2>3, <2>4, OverdraftInt
<1>2. TInv /\ TInv' /\ OwedWithinOverdraft /\ [Next]_vars => OwedWithinOverdraft'
  BY OwedStep
<1>3. TInv /\ Consistent /\ OwedWithinOverdraft => WalletSolvent
  <2> SUFFICES ASSUME TInv, Consistent, OwedWithinOverdraft, NEW i \in Investors
               PROVE  wallet[i] >= -((Cardinality(Slots) - 1) * LargestFunding)
    BY DEF WalletSolvent, Consistent
  <2>1. SumFunctionOnSet(Owed(i), Slots) \in Nat
    BY OwedInt DEF TInv
  <2>2. SumFunctionOnSet(Owed(i), Slots) <= wallet[i] + Overdraft
    BY DEF OwedWithinOverdraft
  <2>3. wallet[i] \in Int
    BY DEF TInv, TypeOK
  <2>4. wallet[i] >= -Overdraft
    BY <2>1, <2>2, <2>3, OverdraftInt
  <2> QED BY <2>4 DEF Overdraft
<1> QED BY <1>1, <1>2, <1>3, TypeCorrect, QuietCorrect, PTL DEF Spec, TInv

(* The holdings a payment carries were there when it read them, and holdings *)
(* only grow; so what the payments so far gave back is covered by as many    *)
(* times the holding.                                                        *)
RepaidWithinStakes ==
  /\ \A s \in Slots, i \in Investors : pc[s] = "payCommit" => held[s][i] <= holding[inv[s]][i]
  /\ \A v \in Invoices, i \in Investors : repayments[v][i] <= repaidAt[v] * holding[v][i]

LEMMA RepaidStep == ASSUME TInv, TInv', RepaidWithinStakes, [Next]_vars
                    PROVE  RepaidWithinStakes'
<1> USE DEF TInv, TypeOK, RequestsConsistent
<1>1. ASSUME NEW s \in Slots, FundCommit(s)
      PROVE  RepaidWithinStakes'
  <2>1. \A v \in Invoices, i \in Investors : holding[v][i] <= holding'[v][i]
    BY <1>1 DEF FundCommit, Upserted
  <2>2. repaidAt' = repaidAt /\ repayments' = repayments /\ Finish(s)
    BY <1>1 DEF FundCommit
  <2>3. ASSUME NEW v \in Invoices, NEW i \in Investors
        PROVE  repayments'[v][i] <= repaidAt'[v] * holding'[v][i]
    <3>1. /\ repaidAt[v] \in Nat /\ repayments[v][i] \in Nat
          /\ holding[v][i] \in Nat /\ holding'[v][i] \in Nat
          /\ holding[v][i] <= holding'[v][i]
      BY <2>1
    <3>2. repaidAt[v] * holding[v][i] <= repaidAt[v] * holding'[v][i]
      <4> HIDE DEF TInv, TypeOK, RequestsConsistent
      <4> QED BY <3>1, TimesGrows
    <3>3. repayments[v][i] <= repaidAt[v] * holding[v][i]
      BY DEF RepaidWithinStakes
    <3>4. repaidAt[v] * holding[v][i] \in Int /\ repaidAt[v] * holding'[v][i] \in Int
      BY <3>1
    <3> HIDE DEF TInv, TypeOK, RequestsConsistent
    <3> QED BY <2>2, <3>1, <3>2, <3>3, <3>4
  <2>4. ASSUME NEW t \in Slots, NEW i \in Investors, pc'[t] = "payCommit"
        PROVE  held'[t][i] <= holding'[inv'[t]][i]
    <3>1. t # s /\ pc[t] = "payCommit" /\ held'[t] = held[t] /\ inv'[t] = inv[t] /\ inv[t] \in Invoices
      BY <2>2, <2>4 DEF Finish
    <3>2. held[t][i] <= holding[inv[t]][i] /\ holding[inv[t]][i] <= holding'[inv[t]][i]
      BY <2>1, <3>1 DEF RepaidWithinStakes
    <3>3. held[t][i] \in Nat /\ holding[inv[t]][i] \in Nat /\ holding'[inv[t]][i] \in Nat
      BY <3>1
    <3> QED BY <3>1, <3>2, <3>3
  <2> QED BY <2>3, <2>4 DEF RepaidWithinStakes
<1>2. ASSUME NEW s \in Slots, PayHoldings(s)
      PROVE  RepaidWithinStakes'
  BY <1>2 DEF PayHoldings, RepaidWithinStakes, invoiceVars, ledgerVars
<1>3. ASSUME NEW s \in Slots, PayCommit(s)
      PROVE  RepaidWithinStakes'
  <2>1. Finish(s) /\ holding' = holding /\ pc[s] = "payCommit" /\ inv[s] \in Invoices
    BY <1>3 DEF PayCommit
  <2>2. ASSUME NEW i \in Investors
        PROVE  repayments'[inv[s]][i] <= repaidAt'[inv[s]] * holding'[inv[s]][i]
    <3> DEFINE v == inv[s]
               n == repaidAt[v]
               h == holding[v][i]
    <3>1. repayments'[v][i] = repayments[v][i] + held[s][i] /\ repaidAt'[v] = n + 1
      BY <1>3, <2>1 DEF PayCommit
    <3>2. repayments[v][i] <= n * h /\ held[s][i] <= h
      BY <2>1 DEF RepaidWithinStakes
    <3>3. repayments[v][i] \in Nat /\ held[s][i] \in Nat /\ n \in Nat /\ h \in Nat
      BY <2>1
    <3> HIDE DEF TInv, TypeOK, RequestsConsistent, n, h
    <3>4. (n + 1) * h = n * h + h /\ n * h \in Nat
      BY <3>3
    <3>5. repayments'[v][i] <= (n + 1) * h
      BY <3>1, <3>2, <3>3, <3>4
    <3> QED BY <2>1, <3>1, <3>5 DEF h
  <2>3. ASSUME NEW v \in Invoices \ {inv[s]}
        PROVE  repayments'[v] = repayments[v] /\ repaidAt'[v] = repaidAt[v]
    BY <1>3, <2>1, <2>3 DEF PayCommit
  <2>4. \A t \in Slots, i \in Investors : pc'[t] = "payCommit" => held'[t][i] <= holding'[inv'[t]][i]
    BY <2>1 DEF Finish, RepaidWithinStakes
  <2>5. \A v \in Invoices, i \in Investors : repayments'[v][i] <= repaidAt'[v] * holding'[v][i]
    <3> HIDE DEF TInv, TypeOK, RequestsConsistent
    <3> QED BY <2>1, <2>2, <2>3 DEF RepaidWithinStakes
  <2> QED BY <2>4, <2>5 DEF RepaidWithinStakes
<1>4. CASE /\ UNCHANGED <<holding, repayments, repaidAt>>
           /\ \A t \in Slots : pc'[t] = "payCommit" =>
                pc[t] = "payCommit" /\ held'[t] = held[t] /\ inv'[t] = inv[t]
  BY <1>4 DEF RepaidWithinStakes
<1>5. \/ \E s \in Slots : FundCommit(s) \/ PayHoldings(s) \/ PayCommit(s)
      \/ /\ UNCHANGED <<holding, repayments, repaidAt>>
         /\ \A t \in Slots : pc'[t] = "payCommit" =>
              pc[t] = "payCommit" /\ held'[t] = held[t] /\ inv'[t] = inv[t]
  <2> USE DEF invoiceVars, ledgerVars, reqVars
  <2> DEFINE Same == /\ UNCHANGED <<holding, repayments, repaidAt>>
                     /\ \A t \in Slots : pc'[t] = "payCommit" =>
                          pc[t] = "payCommit" /\ held'[t] = held[t] /\ inv'[t] = inv[t]
  <2>1. ASSUME NEW s \in Slots, NEW v \in Invoices, ReviewRead(s, v) \/ PayRead(s, v)
        PROVE  Same
    BY <2>1 DEF ReviewRead, PayRead, Start
  <2>2. ASSUME NEW s \in Slots, NEW i \in Investors, NEW v \in Invoices, NEW a \in FundAmounts,
               FundRead(s, i, v, a)
        PROVE  Same
    BY <2>2 DEF FundRead, Start
  <2>3. ASSUME NEW s \in Slots, Finish(s) \/ Goto(s, "fundCommit"), UNCHANGED <<holding, repayments, repaidAt>>
        PROVE  Same
    BY <2>3 DEF Finish, Goto
  <2>4. ASSUME NEW i \in Investors, NEW a \in DepositAmounts, Deposit(i, a)
        PROVE  Same
    BY <2>4 DEF Deposit
  <2>5. ASSUME UNCHANGED vars
        PROVE  Same
    BY <2>5 DEF vars
  <2> HIDE DEF Same, TInv, TypeOK, RequestsConsistent
  <2>6. ASSUME NEW s \in Slots, FundCheckBalance(s) \/ Abort(s) \/ \E t \in Targets : AcceptCommit(s, t)
        PROVE  Same
    BY <2>3, <2>6 DEF FundCheckBalance, Abort, AcceptCommit
  <2>7. Same \/ \E s \in Slots : FundCommit(s) \/ PayHoldings(s) \/ PayCommit(s)
    BY <2>1, <2>2, <2>4, <2>5, <2>6 DEF Next, Review, Fund, Pay
  <2> QED BY <2>7 DEF Same
<1> QED BY <1>1, <1>2, <1>3, <1>4, <1>5

(* HoldersRepaid: the holders of an invoice without overlapping requests get  *)
(* their principal back once; however requests overlap, at most once for each *)
(* payment of the buyer.                                                     *)
THEOREM HoldersRepaid == Spec => []InvoiceRepaid
<1>1. Init => RepaidWithinStakes
  BY DEF Init, RepaidWithinStakes, Nothing
<1>2. TInv /\ TInv' /\ RepaidWithinStakes /\ [Next]_vars => RepaidWithinStakes'
  BY RepaidStep
<1>3. Consistent /\ RepaidWithinStakes => InvoiceRepaid
  BY DEF Consistent, RepaidWithinStakes, InvoiceRepaid
<1> QED BY <1>1, <1>2, <1>3, TypeCorrect, QuietCorrect, PTL DEF Spec, TInv

(* The fundings in flight on an invoice, one each.                            *)
UnderWay(v) == [s \in Slots |-> IF inv[s] = v /\ pc[s] \in Funding THEN 1 ELSE 0]

Requests == Cardinality(Slots)
Complete(v) == fundedAmount[v] >= Cap(v)

(* Before an invoice is accepted, no money moves for it and no funding and no *)
(* payment is on its way.                                                    *)
NotBeforeAcceptance == \A v \in Invoices : confirmedAt[v] = 0 =>
  /\ status[v] = "submitted" /\ payouts[v] = 0
  /\ \A s \in Slots : inv[s] = v => pc[s] \notin Funding \cup Paying

(* A complete raise lets no funding in, so each one that is under way brings  *)
(* one more payout at most; an acceptance that raises the target above what   *)
(* came in opens the invoice once more.                                      *)
PayoutsRoom(v) ==
  /\ Complete(v) => payouts[v] + SumFunctionOnSet(UnderWay(v), Slots) <= Requests * confirmedAt[v]
  /\ ~Complete(v) => payouts[v] <= Requests * (confirmedAt[v] - 1)
PayoutsWithinRequests == \A v \in Invoices : confirmedAt[v] # 0 => PayoutsRoom(v)

(* A sum of zeros and ones counts no more than the slots, and one less if one *)
(* of them is zero.                                                          *)
LEMMA SumOfOnes == ASSUME IsFiniteSet(Slots), NEW u, \A s \in Slots : u[s] \in {0, 1}
                   PROVE  /\ Requests \in Nat
                          /\ SumFunctionOnSet(u, Slots) \in Nat
                          /\ SumFunctionOnSet(u, Slots) <= Requests
                          /\ \A s \in Slots : u[s] = 0 => SumFunctionOnSet(u, Slots) <= Requests - 1
<1>1. \A s \in Slots : u[s] \in Nat /\ u[s] \in Int /\ u[s] <= 1
  OBVIOUS
<1>2. Requests \in Nat
  BY FS_CardinalityType DEF Requests
<1>3. SumFunctionOnSet(u, Slots) \in Nat
  BY <1>1, SumOfNats
<1>4. SumFunctionOnSet(u, Slots) <= Requests * 1
  BY <1>1, SumBounded DEF Requests
<1>5. ASSUME NEW s \in Slots, u[s] = 0
      PROVE  SumFunctionOnSet(u, Slots) <= Requests - 1
  <2> DEFINE others == SumFunctionOnSet(u, Slots \ {s})
  <2>1. IsFiniteSet(Slots \ {s}) /\ Cardinality(Slots \ {s}) = Requests - 1
    BY FS_RemoveElement DEF Requests
  <2>2. others <= (Requests - 1) * 1
    BY <1>1, <2>1, SumBounded
  <2>3. SumFunctionOnSet(u, Slots) = u[s] + others
    BY <1>1, SumTakesOut
  <2>4. others \in Int
    BY <1>1, <2>1, SumInt
  <2> HIDE DEF others
  <2> QED BY <1>2, <1>5, <2>2, <2>3, <2>4
<1> QED BY <1>2, <1>3, <1>4, <1>5

LEMMA AcceptanceStep == ASSUME TInv, TInv', NotBeforeAcceptance, [Next]_vars
                        PROVE  NotBeforeAcceptance'
<1> USE DEF TInv, TypeOK, RequestsConsistent, NotBeforeAcceptance, Funding, Paying
<1>1. ASSUME NEW s \in Slots, NEW t \in Targets, AcceptCommit(s, t)
      PROVE  NotBeforeAcceptance'
  BY <1>1 DEF AcceptCommit, Finish, ledgerVars
<1>2. ASSUME NEW s \in Slots, NEW i \in Investors, NEW v \in Invoices, NEW a \in FundAmounts,
             FundRead(s, i, v, a)
      PROVE  NotBeforeAcceptance'
  <2>1. confirmedAt[v] # 0
    BY <1>2 DEF FundRead, IsOpen, OpenForInvestment
  <2> QED BY <1>2, <2>1 DEF FundRead, Start, invoiceVars, ledgerVars
<1>3. ASSUME NEW s \in Slots, FundCheckBalance(s)
      PROVE  NotBeforeAcceptance'
  <2>1. CASE Goto(s, "fundCommit")
    BY <1>3, <2>1 DEF FundCheckBalance, Goto, invoiceVars, ledgerVars
  <2>2. CASE Finish(s)
    BY <1>3, <2>2 DEF FundCheckBalance, Finish, invoiceVars, ledgerVars
  <2> QED BY <1>3, <2>1, <2>2 DEF FundCheckBalance
<1>4. ASSUME NEW s \in Slots, FundCommit(s)
      PROVE  NotBeforeAcceptance'
  BY <1>4 DEF FundCommit, Finish
<1>5. ASSUME NEW s \in Slots, PayCommit(s)
      PROVE  NotBeforeAcceptance'
  BY <1>5 DEF PayCommit, Finish
<1>6. ASSUME NEW s \in Slots, NEW v \in Invoices, PayRead(s, v)
      PROVE  NotBeforeAcceptance'
  BY <1>6 DEF PayRead, Start, invoiceVars, ledgerVars, Payable
<1>7. ASSUME NEW s \in Slots, PayHoldings(s)
      PROVE  NotBeforeAcceptance'
  BY <1>7 DEF PayHoldings, invoiceVars, ledgerVars
<1>8. ASSUME NEW s \in Slots, Abort(s)
      PROVE  NotBeforeAcceptance'
  BY <1>8 DEF Abort, Finish, invoiceVars, ledgerVars
<1>9. ASSUME NEW s \in Slots, NEW v \in Invoices, ReviewRead(s, v)
      PROVE  NotBeforeAcceptance'
  BY <1>9 DEF ReviewRead, Start, invoiceVars, ledgerVars
<1>10. ASSUME NEW i \in Investors, NEW a \in DepositAmounts, Deposit(i, a)
       PROVE  NotBeforeAcceptance'
  BY <1>10 DEF Deposit, invoiceVars, reqVars
<1>11. CASE UNCHANGED vars
  BY <1>11 DEF vars, invoiceVars, ledgerVars, reqVars
<1> QED BY <1>1, <1>2, <1>3, <1>4, <1>5, <1>6, <1>7, <1>8, <1>9, <1>10, <1>11 DEF Next, Review, Fund, Pay

LEMMA PayoutsStep ==
  ASSUME IsFiniteSet(Slots), TInv, TInv', NotBeforeAcceptance, PayoutsWithinRequests, [Next]_vars
  PROVE  PayoutsWithinRequests'
<1> DEFINE Sum(v) == SumFunctionOnSet(UnderWay(v), Slots)
<1> SUFFICES ASSUME NEW v \in Invoices, confirmedAt'[v] # 0 PROVE PayoutsRoom(v)'
  BY DEF PayoutsWithinRequests
<1> DEFINE c == confirmedAt[v]
           N == Requests
           Keeps == /\ fundedAmount'[v] = fundedAmount[v] /\ Cap(v)' = Cap(v)
                    /\ confirmedAt'[v] = c /\ payouts'[v] = payouts[v]
           Eases == Keeps /\ \A s \in Slots : UnderWay(v)'[s] <= UnderWay(v)[s]
<1>1. /\ Sum(v) \in Nat /\ Sum(v) <= N /\ N \in Nat
      /\ \A s \in Slots : UnderWay(v)[s] \in Int
  <2>1. \A s \in Slots : UnderWay(v)[s] \in {0, 1} /\ UnderWay(v)[s] \in Int
    BY DEF UnderWay
  <2> QED BY <2>1, SumOfOnes
<1>2. /\ Sum(v)' \in Nat /\ Sum(v)' <= N
      /\ \A s \in Slots : UnderWay(v)'[s] \in Int /\ (UnderWay(v)'[s] = 0 => Sum(v)' <= N - 1)
  <2>1. \A s \in Slots : UnderWay(v)'[s] \in {0, 1} /\ UnderWay(v)'[s] \in Int
    BY DEF UnderWay
  <2> QED BY <2>1, SumOfOnes
<1>3. /\ c \in Nat /\ payouts[v] \in Nat /\ payouts'[v] \in Nat
      /\ fundedAmount[v] \in Nat /\ fundedAmount'[v] \in Nat
      /\ Cap(v) \in Int /\ Cap(v)' \in Int
  <2>1. Cap(v) \in Int
    BY CapInt DEF TInv
  <2>2. Cap(v)' \in Int
    <3>1. fundingTargetAmount'[v] \in Targets \cup {0}
      BY DEF TInv, TypeOK
    <3>2. Targets \subseteq Int /\ 0 \in Int /\ FaceAmount \in Int
      BY MarketplaceAssumption
    <3>3. Targets \cup {0} \subseteq Int
      BY <3>2
    <3>4. fundingTargetAmount'[v] \in Int
      BY <3>1, <3>3
    <3> QED BY <3>2, <3>4 DEF Cap
  <2> QED BY <2>1, <2>2 DEF TInv, TypeOK
<1>4. N * c \in Nat /\ N * (c - 1) = N * c - N /\ N * (c + 1) = N * c + N
  BY <1>1, <1>3
<1>5. /\ c # 0 /\ Complete(v) => payouts[v] + Sum(v) <= N * c
      /\ c # 0 /\ ~Complete(v) => payouts[v] <= N * (c - 1)
  BY DEF PayoutsWithinRequests, PayoutsRoom
<1>6. SUFFICES /\ Complete(v)' => payouts'[v] + Sum(v)' <= N * confirmedAt'[v]
               /\ ~Complete(v)' => payouts'[v] <= N * (confirmedAt'[v] - 1)
  BY DEF PayoutsRoom
<1>7. ASSUME Eases
      PROVE  /\ Complete(v)' => payouts'[v] + Sum(v)' <= N * confirmedAt'[v]
             /\ ~Complete(v)' => payouts'[v] <= N * (confirmedAt'[v] - 1)
  <2>1. Sum(v)' <= Sum(v)
    BY <1>1, <1>2, <1>7, SumLess
  <2>2. Complete(v)' <=> Complete(v)
    BY <1>7 DEF Complete
  <2>3. c # 0 /\ confirmedAt'[v] = c /\ payouts'[v] = payouts[v]
    BY <1>7
  <2> HIDE DEF Sum, Keeps, Eases, N, c
  <2> QED BY <1>1, <1>2, <1>3, <1>4, <1>5, <2>1, <2>2, <2>3
<1>8. ASSUME Keeps, ~Complete(v)
      PROVE  /\ Complete(v)' => payouts'[v] + Sum(v)' <= N * confirmedAt'[v]
             /\ ~Complete(v)' => payouts'[v] <= N * (confirmedAt'[v] - 1)
  <2>1. ~Complete(v)'
    BY <1>8 DEF Complete
  <2>2. c # 0 /\ confirmedAt'[v] = c /\ payouts'[v] = payouts[v]
    BY <1>8
  <2> HIDE DEF Sum, Keeps, Eases, N, c
  <2> QED BY <1>5, <1>8, <2>1, <2>2
<1>9. ASSUME NEW s \in Slots, NEW t \in Targets, AcceptCommit(s, t), v = inv[s]
      PROVE  /\ Complete(v)' => payouts'[v] + Sum(v)' <= N * confirmedAt'[v]
             /\ ~Complete(v)' => payouts'[v] <= N * (confirmedAt'[v] - 1)
  <2>1. confirmedAt'[v] = c + 1 /\ payouts'[v] = payouts[v]
    BY <1>9 DEF AcceptCommit, ledgerVars, TInv, TypeOK
  <2>2. c = 0 => payouts[v] = 0
    BY DEF NotBeforeAcceptance
  <2>3. payouts[v] <= N * c
    <3>1. CASE c = 0
      BY <1>4, <2>2, <3>1
    <3>2. CASE c # 0
      <4> HIDE DEF Sum, Keeps, Eases, N, c
      <4> QED BY <1>1, <1>3, <1>4, <1>5, <3>2
    <3> QED BY <3>1, <3>2
  <2>4. (c + 1) - 1 = c
    BY <1>3
  <2> HIDE DEF Sum, Keeps, Eases, N, c
  <2> QED BY <1>1, <1>2, <1>3, <1>4, <2>1, <2>3, <2>4
<1>10. ASSUME NEW s \in Slots, FundCommit(s), v = inv[s]
       PROVE  /\ Complete(v)' => payouts'[v] + Sum(v)' <= N * confirmedAt'[v]
              /\ ~Complete(v)' => payouts'[v] <= N * (confirmedAt'[v] - 1)
  <2>1. /\ fundedAmount'[v] = fundedAmount[v] + amount[s] /\ amount[s] \in Nat
        /\ confirmedAt'[v] = c /\ Cap(v)' = Cap(v) /\ c # 0
    BY <1>10 DEF FundCommit, TInv, TypeOK, Cap
  <2>2. payouts'[v] = IF Complete(v)' THEN payouts[v] + 1 ELSE payouts[v]
    BY <1>10, <2>1 DEF FundCommit, Complete, TInv, TypeOK
  <2>3. Complete(v) => Complete(v)'
    BY <1>3, <2>1 DEF Complete
  <2>4. /\ UnderWay(v)[s] = 1 /\ UnderWay(v)'[s] = 0
        /\ \A t \in Slots \ {s} : UnderWay(v)'[t] = UnderWay(v)[t]
    BY <1>10 DEF FundCommit, Finish, UnderWay, Funding, TInv, TypeOK
  <2>5. Sum(v)' = Sum(v) + UnderWay(v)'[s] - UnderWay(v)[s]
    BY <1>1, <1>2, <2>4, SumAdds
  <2>6. Sum(v)' <= N - 1
    BY <1>2, <2>4
  <2> HIDE DEF Sum, Keeps, Eases, N, c
  <2> QED BY <1>1, <1>2, <1>3, <1>4, <1>5, <2>1, <2>2, <2>3, <2>4, <2>5, <2>6
<1>11. \/ Eases
       \/ Keeps /\ ~Complete(v)
       \/ \E s \in Slots, t \in Targets : AcceptCommit(s, t) /\ v = inv[s]
       \/ \E s \in Slots : FundCommit(s) /\ v = inv[s]
  <2> USE DEF TInv, TypeOK, RequestsConsistent, Cap, Funding, invoiceVars, ledgerVars, reqVars
  <2>1. ASSUME NEW s \in Slots, NEW w \in Invoices, ReviewRead(s, w) \/ PayRead(s, w)
        PROVE  Eases
    BY <2>1 DEF ReviewRead, PayRead, Start, UnderWay
  <2>2. ASSUME NEW s \in Slots, NEW i \in Investors, NEW w \in Invoices \ {v}, NEW a \in FundAmounts,
               FundRead(s, i, w, a)
        PROVE  Eases
    BY <2>2 DEF FundRead, Start, UnderWay
  <2>3. ASSUME NEW s \in Slots, NEW i \in Investors, NEW a \in FundAmounts, FundRead(s, i, v, a)
        PROVE  Keeps /\ ~Complete(v)
    <3>1. a >= MinFund /\ MinFund > 0 /\ a \in Nat /\ MinFund \in Nat
      BY MarketplaceAssumption
    <3>2. a <= Remaining(v) /\ Keeps
      BY <2>3 DEF FundRead
    <3> HIDE DEF Keeps, TInv, TypeOK, RequestsConsistent, Cap
    <3> QED BY <1>3, <3>1, <3>2 DEF Remaining, Complete
  <2>4. ASSUME NEW s \in Slots, Keeps, Finish(s) \/ (Goto(s, "fundCommit") /\ pc[s] = "fundBalance")
        PROVE  Eases
    <3>1. CASE Finish(s)
      BY <2>4, <3>1 DEF Finish, UnderWay
    <3>2. CASE Goto(s, "fundCommit") /\ pc[s] = "fundBalance"
      BY <2>4, <3>2 DEF Goto, UnderWay
    <3> QED BY <2>4, <3>1, <3>2
  <2>5. ASSUME NEW s \in Slots, FundCommit(s), v # inv[s]
        PROVE  Eases
    <3>1. Finish(s) /\ Keeps
      BY <2>5 DEF FundCommit
    <3> QED BY <2>4, <3>1
  <2>6. ASSUME NEW s \in Slots, NEW t \in Targets, AcceptCommit(s, t), v # inv[s]
        PROVE  Eases
    <3>1. Finish(s) /\ Keeps
      BY <2>6 DEF AcceptCommit
    <3> QED BY <2>4, <3>1
  <2>7. ASSUME NEW s \in Slots, FundCheckBalance(s) \/ Abort(s) \/ PayCommit(s)
        PROVE  Eases
    <3>1. CASE FundCheckBalance(s)
      <4>1. Keeps /\ pc[s] = "fundBalance" /\ (Goto(s, "fundCommit") \/ Finish(s))
        BY <3>1 DEF FundCheckBalance
      <4> QED BY <2>4, <4>1
    <3>2. CASE Abort(s)
      <4>1. Keeps /\ Finish(s)
        BY <3>2 DEF Abort
      <4> QED BY <2>4, <4>1
    <3>3. CASE PayCommit(s)
      <4>1. Keeps /\ Finish(s)
        BY <3>3 DEF PayCommit
      <4> QED BY <2>4, <4>1
    <3> QED BY <2>7, <3>1, <3>2, <3>3
  <2>8. ASSUME NEW s \in Slots, PayHoldings(s)
        PROVE  Eases
    BY <2>8 DEF PayHoldings, UnderWay
  <2>9. ASSUME NEW i \in Investors, NEW a \in DepositAmounts, Deposit(i, a)
        PROVE  Eases
    BY <2>9 DEF Deposit, UnderWay
  <2>10. ASSUME UNCHANGED vars
         PROVE  Eases
    BY <2>10 DEF vars, UnderWay
  <2> HIDE DEF TInv, TypeOK, RequestsConsistent, Cap, Keeps, Eases
  <2> QED BY <2>1, <2>2, <2>3, <2>5, <2>6, <2>7, <2>8, <2>9, <2>10 DEF Next, Review, Fund, Pay
<1> HIDE DEF Keeps, Eases, Sum, N
<1> QED BY <1>7, <1>8, <1>9, <1>10, <1>11

(* PaidOutBounded: the business of an invoice without overlapping requests is *)
(* paid by the funding that completes the raise, once; however requests       *)
(* overlap, at most once per request served at once and acceptance.           *)
THEOREM PaidOutBounded == ASSUME IsFiniteSet(Slots) PROVE Spec => []InvoicePaidOut
<1> DEFINE Bounded == \A v \in Invoices : payouts[v] <= Requests * confirmedAt[v]
<1>1. Init => NotBeforeAcceptance /\ PayoutsWithinRequests
  <2> SUFFICES ASSUME Init PROVE NotBeforeAcceptance /\ PayoutsWithinRequests
    OBVIOUS
  <2>1. NotBeforeAcceptance
    BY DEF Init, NotBeforeAcceptance, Funding, Paying
  <2>2. ASSUME NEW v \in Invoices, confirmedAt[v] # 0
        PROVE  PayoutsRoom(v)
    <3>1. confirmedAt[v] = 1 /\ payouts[v] = 0
      BY <2>2 DEF Init
    <3>2. \A s \in Slots : UnderWay(v)[s] \in {0, 1}
      BY DEF UnderWay
    <3>3. Requests \in Nat /\ SumFunctionOnSet(UnderWay(v), Slots) <= Requests
          /\ SumFunctionOnSet(UnderWay(v), Slots) \in Nat
      BY <3>2, SumOfOnes
    <3> QED BY <3>1, <3>3 DEF PayoutsRoom
  <2> QED BY <2>1, <2>2 DEF PayoutsWithinRequests
<1>2. TInv /\ TInv' /\ NotBeforeAcceptance /\ PayoutsWithinRequests /\ [Next]_vars
        => NotBeforeAcceptance' /\ PayoutsWithinRequests'
  BY AcceptanceStep, PayoutsStep
<1>3. TInv /\ NotBeforeAcceptance /\ PayoutsWithinRequests => Bounded
  <2> SUFFICES ASSUME TInv, NotBeforeAcceptance, PayoutsWithinRequests, NEW v \in Invoices
               PROVE  payouts[v] <= Requests * confirmedAt[v]
    OBVIOUS
  <2>1. \A s \in Slots : UnderWay(v)[s] \in {0, 1}
    BY DEF UnderWay
  <2>2. Requests \in Nat /\ SumFunctionOnSet(UnderWay(v), Slots) \in Nat
    BY <2>1, SumOfOnes
  <2>3. confirmedAt[v] \in Nat /\ payouts[v] \in Nat
    BY DEF TInv, TypeOK
  <2>4. CASE confirmedAt[v] = 0
    BY <2>2, <2>4 DEF NotBeforeAcceptance
  <2>5. CASE confirmedAt[v] # 0
    <3>1. \/ payouts[v] + SumFunctionOnSet(UnderWay(v), Slots) <= Requests * confirmedAt[v]
          \/ payouts[v] <= Requests * (confirmedAt[v] - 1)
      BY <2>5 DEF PayoutsWithinRequests, PayoutsRoom
    <3>2. Requests * confirmedAt[v] \in Nat /\ Requests * (confirmedAt[v] - 1) = Requests * confirmedAt[v] - Requests
      BY <2>2, <2>3
    <3> QED BY <2>2, <2>3, <3>1, <3>2
  <2> QED BY <2>4, <2>5
<1>4. Consistent /\ Bounded => InvoicePaidOut
  BY DEF Consistent, InvoicePaidOut, Requests
<1> QED BY <1>1, <1>2, <1>3, <1>4, TypeCorrect, QuietCorrect, PTL DEF Spec, TInv

-----------------------------------------------------------------------------
(* What the buyer's payment is worth to the investors.                       *)

(* DiscountOutweighsRounding: a raise below the face value leaves a surplus   *)
(* of which the smallest stake's part outweighs what rounding up adds to it.  *)
(* computeInvoiceYield discounts a face value by 3% or more and FundInvoiceDto *)
(* takes no less than 5000.00, where a surplus of 0.0004% of the target does.  *)
DiscountOutweighsRounding == \A t \in Targets :
  t = FaceAmount \/ 2 * t <= MinFund * (FaceAmount - t)

(* A return is no less than the stake and no more than its share of the face. *)
LEMMA ReturnWithinShare ==
  ASSUME NEW h \in Nat, NEW R \in Nat, R > 0, R <= FaceAmount, h = 0 \/ h >= MinFund,
         R = FaceAmount \/ 2 * R <= MinFund * (FaceAmount - R)
  PROVE  ReturnOn(h, R) \in Int /\ ReturnOn(h, R) >= h /\ R * ReturnOn(h, R) <= FaceAmount * h
<1> DEFINE s == FaceAmount - R
           n == 3 * h * s
           q == (2 * n + 4 * R) \div (8 * R)
<1>1. s \in Nat /\ h * s \in Nat /\ n = 3 * (h * s) /\ n \in Nat
  OBVIOUS
<1>2. ReturnOn(h, R) = h + q
  <2>1. ReturnOn(h, R) = h + RoundDiv(n, 4 * R)
    BY DEF ReturnOn
  <2>2. RoundDiv(n, 4 * R) = (2 * n + 4 * R) \div (2 * (4 * R))
    BY <1>1 DEF RoundDiv
  <2> QED BY <2>1, <2>2
<1>3. q \in Nat /\ 8 * (R * q) <= 2 * n + 4 * R
  <2> DEFINE x == 2 * n + 4 * R
             d == 8 * R
  <2>1. x \in Nat /\ d \in Nat /\ d > 0
    BY <1>1
  <2> HIDE DEF x, d
  <2>2. x \div d \in Nat /\ d * (x \div d) <= x
    BY <2>1
  <2>3. q \in Nat /\ d * q <= x
    BY <2>2 DEF x, d
  <2>4. d * q = 8 * (R * q)
    BY <2>3 DEF d
  <2> QED BY <2>3, <2>4 DEF x
<1>4. R * q <= h * s
  <2>1. CASE h = 0 \/ s = 0
    <3>1. h * s = 0 /\ n = 0
      BY <1>1, <2>1
    <3>2. 8 * (R * q) <= 4 * R /\ R * q \in Nat
      BY <1>3, <3>1
    <3>3. q = 0
      <4> SUFFICES ASSUME q >= 1 PROVE FALSE
        BY <1>3
      <4> HIDE DEF q
      <4>1. R * q >= R
        BY <1>3
      <4> QED BY <3>2, <4>1
    <3> QED BY <3>1, <3>3
  <2>2. CASE h # 0 /\ s # 0
    <3>1. 2 * R <= MinFund * s /\ h >= MinFund
      BY <2>2
    <3>2. MinFund * s <= h * s
      BY <1>1, <3>1, MarketplaceAssumption
    <3>3. R * q \in Nat /\ MinFund * s \in Int
      BY <1>1, <1>3
    <3> HIDE DEF n, q, s
    <3> QED BY <1>1, <1>3, <3>1, <3>2, <3>3
  <2> QED BY <2>1, <2>2
<1>5. R * (h + q) <= FaceAmount * h
  <2>1. R * (h + q) = R * h + R * q /\ R * h \in Int /\ R * q \in Int
    BY <1>3
  <2>2. h * s = FaceAmount * h - R * h /\ FaceAmount * h \in Int
    OBVIOUS
  <2> QED BY <1>4, <2>1, <2>2
<1> QED BY <1>2, <1>3, <1>5

(* No stake is below the minimum, and a repaid quiet invoice carries on each *)
(* of its holdings the return that its stake earned, any other none.         *)
StakesWorth == \A v \in Invoices, i \in Investors : holding[v][i] = 0 \/ holding[v][i] >= MinFund
ReturnsOf(v) == [i \in Investors |-> IF holding[v][i] > 0 THEN ReturnOn(holding[v][i], fundedAmount[v])
                                                          ELSE 0]
ReturnsRecorded == \A v \in Quiet :
  repaidAmount[v] = IF status[v] = "repaid" THEN ReturnsOf(v) ELSE Nothing

LEMMA StakesStep == ASSUME TInv, TInv', StakesWorth, [Next]_vars PROVE StakesWorth'
<1>1. CASE holding' = holding
  BY <1>1 DEF StakesWorth
<1>2. ASSUME NEW s \in Slots, FundCommit(s) PROVE StakesWorth'
  <2>1. amount[s] \in Nat /\ amount[s] >= MinFund
    BY <1>2 DEF FundCommit, TInv, RequestsConsistent, Funding
  <2>2. \A v \in Invoices, i \in Investors : holding[v][i] \in Nat
    BY DEF TInv, TypeOK
  <2>3. \A v \in Invoices, i \in Investors :
          holding'[v][i] = holding[v][i] \/ holding'[v][i] = holding[v][i] + amount[s]
    BY <1>2 DEF FundCommit, Upserted, TInv, TypeOK
  <2> QED BY <2>1, <2>2, <2>3 DEF StakesWorth
<1> QED BY <1>1, <1>2 DEF Next, Review, Fund, Pay, Deposit, ReviewRead, AcceptCommit, FundRead,
         FundCheckBalance, PayRead, PayHoldings, PayCommit, Abort, vars, ledgerVars

LEMMA ReturnsStep == ASSUME TInv, TInv', Consistent, ReturnsRecorded, [Next]_vars
                     PROVE  ReturnsRecorded'
<1> SUFFICES ASSUME NEW v \in Invoices \ contended'
             PROVE  repaidAmount'[v] = IF status'[v] = "repaid" THEN ReturnsOf(v)' ELSE Nothing
  BY DEF ReturnsRecorded, Quiet
<1>0. v \in Quiet
  <2>1. contended \subseteq contended'
    BY ContendedGrows DEF vars, history
  <2> QED BY <2>1 DEF Quiet
<1>1. repaidAmount[v] = IF status[v] = "repaid" THEN ReturnsOf(v) ELSE Nothing
  BY <1>0 DEF ReturnsRecorded
<1>2. CASE /\ status'[v] = status[v] /\ repaidAmount'[v] = repaidAmount[v]
           /\ holding'[v] = holding[v] /\ fundedAmount'[v] = fundedAmount[v]
  BY <1>1, <1>2 DEF ReturnsOf
<1>3. CASE status[v] # "repaid" /\ status'[v] # "repaid" /\ repaidAmount'[v] = repaidAmount[v]
  BY <1>1, <1>3
<1>4. ASSUME NEW s \in Slots, NEW t \in Targets, AcceptCommit(s, t), v = inv[s]
      PROVE  status[v] # "repaid" /\ status'[v] # "repaid" /\ repaidAmount'[v] = repaidAmount[v]
  <2>1. status[v] = "submitted"
    BY <1>0, <1>4 DEF AcceptCommit, Consistent, ChecksStillHold, Reviewable, LifeCycle, LifeCycleOf
  <2> QED BY <1>4, <2>1 DEF AcceptCommit, ledgerVars, TInv, TypeOK
<1>5. ASSUME NEW s \in Slots, FundCommit(s), v = inv[s]
      PROVE  status[v] # "repaid" /\ status'[v] # "repaid" /\ repaidAmount'[v] = repaidAmount[v]
  <2>1. IsOpen(v)
    BY <1>0, <1>5 DEF FundCommit, Consistent, ChecksStillHold, Funding
  <2> QED BY <1>5, <2>1 DEF FundCommit, IsOpen, OpenForInvestment, TInv, TypeOK
<1>6. ASSUME NEW s \in Slots, PayCommit(s), v = inv[s]
      PROVE  status'[v] = "repaid" /\ repaidAmount'[v] = ReturnsOf(v)'
  <2>1. Payable(v) /\ seen[s] = fundedAmount[v] /\ held[s] = holding[v]
    BY <1>0, <1>6 DEF PayCommit, Consistent, ChecksStillHold, Paying
  <2>2. \A i \in Investors : repaidAmount[v][i] = 0
    BY <1>1, <2>1 DEF Payable, Nothing
  <2>3. repaidAmount'[v] = [i \in Investors |->
          IF i \in {j \in Investors : held[s][j] > 0} THEN ReturnOn(held[s][i], seen[s]) ELSE repaidAmount[v][i]]
    BY <1>6 DEF PayCommit, TInv, TypeOK
  <2>4. status'[v] = "repaid" /\ holding' = holding /\ fundedAmount' = fundedAmount
    BY <1>6 DEF PayCommit, TInv, TypeOK
  <2> QED BY <2>1, <2>2, <2>3, <2>4 DEF ReturnsOf
<1>7. \/ /\ status'[v] = status[v] /\ repaidAmount'[v] = repaidAmount[v]
         /\ holding'[v] = holding[v] /\ fundedAmount'[v] = fundedAmount[v]
      \/ \E s \in Slots : v = inv[s] /\ (\/ \E t \in Targets : AcceptCommit(s, t)
                                        \/ FundCommit(s) \/ PayCommit(s))
  <2> USE DEF invoiceVars, ledgerVars, TInv, TypeOK
  <2>1. ASSUME NEW s \in Slots, NEW t \in Targets, AcceptCommit(s, t), v # inv[s]
        PROVE  /\ status'[v] = status[v] /\ repaidAmount'[v] = repaidAmount[v]
               /\ holding'[v] = holding[v] /\ fundedAmount'[v] = fundedAmount[v]
    BY <2>1 DEF AcceptCommit
  <2>2. ASSUME NEW s \in Slots, FundCommit(s), v # inv[s]
        PROVE  /\ status'[v] = status[v] /\ repaidAmount'[v] = repaidAmount[v]
               /\ holding'[v] = holding[v] /\ fundedAmount'[v] = fundedAmount[v]
    BY <2>2 DEF FundCommit
  <2>3. ASSUME NEW s \in Slots, PayCommit(s), v # inv[s]
        PROVE  /\ status'[v] = status[v] /\ repaidAmount'[v] = repaidAmount[v]
               /\ holding'[v] = holding[v] /\ fundedAmount'[v] = fundedAmount[v]
    BY <2>3 DEF PayCommit
  <2> QED BY <2>1, <2>2, <2>3 DEF Next, Review, Fund, Pay, Deposit, ReviewRead, FundRead,
             FundCheckBalance, PayRead, PayHoldings, Abort, vars
<1> QED BY <1>2, <1>3, <1>4, <1>5, <1>6, <1>7

(* QuietReturn: what payInvoice records as returned is no loss for any       *)
(* holder of a quiet invoice and sums to no more than the buyer paid.        *)
THEOREM QuietReturn ==
  ASSUME IsFiniteSet(Investors), DiscountOutweighsRounding PROVE Spec => []QuietReturns
<1>1. Init => StakesWorth /\ ReturnsRecorded
  BY DEF Init, StakesWorth, ReturnsRecorded, Quiet, Nothing
<1>2. TInv /\ TInv' /\ Consistent /\ StakesWorth /\ ReturnsRecorded /\ [Next]_vars
        => StakesWorth' /\ ReturnsRecorded'
  BY StakesStep, ReturnsStep
<1>3. TInv /\ Consistent /\ FundedIsSumOfHoldings /\ StakesWorth /\ ReturnsRecorded => QuietReturns
  <2> SUFFICES ASSUME TInv, Consistent, FundedIsSumOfHoldings, StakesWorth, ReturnsRecorded,
                      NEW v \in Quiet, status[v] = "repaid"
               PROVE  /\ \A i \in Investors : repaidAmount[v][i] >= holding[v][i]
                      /\ SumFunction(repaidAmount[v]) <= FaceAmount
    BY DEF QuietReturns
  <2> DEFINE R == fundedAmount[v]
  <2>1. v \in Invoices /\ repaidAmount[v] = ReturnsOf(v)
    BY DEF Quiet, ReturnsRecorded
  <2>2. R \in Nat /\ R > 0 /\ R = Cap(v)
    BY <2>1 DEF Consistent, LifeCycle, LifeCycleOf, TInv, TypeOK
  <2>3. R <= FaceAmount /\ (R = FaceAmount \/ 2 * R <= MinFund * (FaceAmount - R))
    <3>1. fundingTargetAmount[v] \in Targets \cup {0}
      BY <2>1 DEF TInv, TypeOK
    <3>2. R \in Targets \/ R = FaceAmount
      BY <2>2, <3>1 DEF Cap
    <3>3. \A t \in Targets : /\ t <= FaceAmount
                             /\ t = FaceAmount \/ 2 * t <= MinFund * (FaceAmount - t)
      BY MarketplaceAssumption DEF DiscountOutweighsRounding
    <3>4. FaceAmount \in Int
      BY MarketplaceAssumption
    <3> HIDE DEF R
    <3> QED BY ONLY <3>2, <3>3, <3>4
  <2>4. \A i \in Investors : /\ holding[v][i] \in Nat
                             /\ holding[v][i] = 0 \/ holding[v][i] >= MinFund
    BY <2>1 DEF StakesWorth, TInv, TypeOK
  <2>5. \A i \in Investors : /\ repaidAmount[v][i] \in Int /\ holding[v][i] \in Int
                             /\ repaidAmount[v][i] >= holding[v][i]
                             /\ R * repaidAmount[v][i] <= FaceAmount * holding[v][i]
    <3> TAKE i \in Investors
    <3>1. repaidAmount[v][i] = IF holding[v][i] > 0 THEN ReturnOn(holding[v][i], R) ELSE 0
      BY <2>1 DEF ReturnsOf
    <3> HIDE DEF R
    <3>2. CASE holding[v][i] > 0
      BY <2>2, <2>3, <2>4, <3>1, <3>2, ReturnWithinShare
    <3>3. CASE holding[v][i] = 0
      BY <2>2, <3>1, <3>3
    <3> QED BY <2>4, <3>2, <3>3
  <2>6. SumFunction(repaidAmount[v]) = SumFunctionOnSet(repaidAmount[v], Investors)
    BY <2>1, RowSum DEF TInv, TypeOK
  <2>7. SumFunctionOnSet(holding[v], Investors) = R
    BY <2>1, RowSum DEF TInv, TypeOK, FundedIsSumOfHoldings
  <2>8. SumFunctionOnSet(repaidAmount[v], Investors) \in Int
    BY <2>5, SumInt
  <2> HIDE DEF R
  <2>9. R * SumFunctionOnSet(repaidAmount[v], Investors) <= FaceAmount * R
    <3>1. R * SumFunctionOnSet(repaidAmount[v], Investors) <= FaceAmount * SumFunctionOnSet(holding[v], Investors)
      BY <2>2, <2>5, SumWeighed
    <3> QED BY <2>7, <3>1
  <2>10. SumFunctionOnSet(repaidAmount[v], Investors) <= FaceAmount
    <3> DEFINE S == SumFunctionOnSet(repaidAmount[v], Investors)
    <3> SUFFICES ASSUME S >= FaceAmount + 1 PROVE FALSE
      BY <2>8
    <3> HIDE DEF S
    <3>1. R * S >= R * (FaceAmount + 1)
      BY <2>2, <2>8 DEF S
    <3>2. R * S <= FaceAmount * R
      BY <2>9 DEF S
    <3> QED BY <2>2, <2>8, <3>1, <3>2 DEF S
  <2> QED BY <2>5, <2>6, <2>10
<1> QED BY <1>1, <1>2, <1>3, FundedSum, TypeCorrect, QuietCorrect, PTL DEF Spec, TInv

-----------------------------------------------------------------------------
(* Requests served one at a time. *)

OneSlot == \A s, t \in Slots : s = t

(* Nobody overlaps with anybody when there is one slot. *)
LEMMA NeverContended == ASSUME OneSlot PROVE Spec => [](contended = {} /\ rushing = {})
<1> DEFINE I == contended = {} /\ rushing = {}
<1>1. Init => I
  BY DEF Init
<1>2. TInv /\ I /\ [Next]_vars => I'
  <2> SUFFICES ASSUME TInv, I, [Next]_vars PROVE I'
    OBVIOUS
  <2>1. ASSUME NEW s \in Slots, NEW stage, NEW v \in Invoices, NEW i \in Investors \cup {None},
               NEW a, NEW raised, Start(s, stage, v, i, a, raised)
        PROVE  I'
    <3>1. \A t \in Slots : inv[t] = None /\ by[t] = None
      BY <2>1, OneSlot DEF OneSlot, Start, TInv, TypeOK, RequestsConsistent, Funding
    <3>2. None # v
      OBVIOUS
    <3> QED BY <2>1, <3>1, <3>2 DEF Start
  <2>2. CASE UNCHANGED history
    BY <2>2 DEF history
  <2>3. CASE UNCHANGED vars
    BY <2>2, <2>3 DEF vars
  <2> QED BY <2>1, <2>2, <2>3 DEF Next, Review, Fund, Pay, Deposit, ReviewRead, AcceptCommit,
             FundRead, FundCheckBalance, FundCommit, PayRead, PayHoldings, PayCommit, Abort,
             Goto, Finish
<1> QED BY <1>1, <1>2, TypeCorrect, PTL DEF Spec, TInv

(* A status write changes the stage of the one invoice. *)
LEMMA StageChange ==
  ASSUME status \in [Invoices -> Statuses], NEW v \in Invoices, NEW st,
         status' = [status EXCEPT ![v] = st]
  PROVE  [w \in Invoices |-> StageOf(status'[w])]
           = [[w \in Invoices |-> StageOf(status[w])] EXCEPT ![v] = StageOf(st)]
<1>1. \A w \in Invoices : StageOf(status'[w]) = IF w = v THEN StageOf(st) ELSE StageOf(status[w])
  <2> TAKE w \in Invoices
  <2>1. status'[w] = IF w = v THEN st ELSE status[w]
    OBVIOUS
  <2> QED BY <2>1
<1> QED BY <1>1

LEMMA Stages4 ==
  /\ StageOf("submitted") = "submitted"
  /\ StageOf("tokenized") = "open" /\ StageOf("funding") = "open"
  /\ StageOf("funded") = "funded" /\ StageOf("overdue") = "funded"
  /\ StageOf("repaid") = "repaid"
BY DEF StageOf, OpenForInvestment

(* A change of one invoice's holdings or repayments changes its stakes only. *)
LEMMA StakeChange ==
  ASSUME NEW v \in Invoices, NEW f,
         \A w \in Invoices \ {v} : holding'[w] = holding[w] /\ repayments'[w] = repayments[w],
         [i \in Investors |-> holding'[v][i] - repayments'[v][i]] = f
  PROVE  [w \in Invoices |-> [i \in Investors |-> holding'[w][i] - repayments'[w][i]]]
           = [[w \in Invoices |-> [i \in Investors |-> holding[w][i] - repayments[w][i]]]
                EXCEPT ![v] = f]
<1>1. \A w \in Invoices \ {v} :
        [i \in Investors |-> holding'[w][i] - repayments'[w][i]]
          = [i \in Investors |-> holding[w][i] - repayments[w][i]]
  OBVIOUS
<1> QED BY <1>1

(* SerialImplementsEscrow: with one slot every request takes effect          *)
(* atomically at its commit, under the checks it made before.                *)
THEOREM SerialImplementsEscrow == ASSUME OneSlot PROVE Spec => ImplementsEscrow
<1> DEFINE stage == [v \in Invoices |-> StageOf(status[v])]
           goal == [v \in Invoices |-> Cap(v)]
           stake == [v \in Invoices |-> [i \in Investors |-> holding[v][i] - repayments[v][i]]]
           abstractVars == <<stage, goal, fundedAmount, stake, wallet, payouts>>
           Always == TInv /\ Consistent /\ contended = {} /\ rushing = {}
<1>1. Init => E!Init
  BY DEF Init, E!Init, StageOf, Cap, OpenForInvestment, Nothing
<1>2. Always /\ Always' /\ [Next]_vars => [E!Next]_abstractVars
  <2> SUFFICES ASSUME Always, Always', [Next]_vars PROVE E!Next \/ UNCHANGED abstractVars
    OBVIOUS
  <2> USE DEF TInv
  <2>0. Quiet = Invoices /\ Quiet' = Invoices
    BY DEF Quiet
  <2>1. ASSUME NEW i \in Investors, NEW a \in DepositAmounts, Deposit(i, a)
        PROVE  E!Next
    <3>1. E!Earn(i, a)
      BY <2>1 DEF Deposit, E!Earn, invoiceVars, Cap
    <3> QED BY <3>1 DEF E!Next
  <2>2. ASSUME NEW s \in Slots, NEW t \in Targets, AcceptCommit(s, t)
        PROVE  E!Next
    <3>1. PICK v \in Invoices : v = inv[s] /\ t \in Int /\ t # 0
      BY <2>2 DEF AcceptCommit, RequestsConsistent
    <3>2. status[v] = "submitted"
      BY <2>0, <2>2, <3>1 DEF AcceptCommit, Consistent, ChecksStillHold, Reviewable,
                   LifeCycle, LifeCycleOf
    <3>3. stage[v] = "submitted" /\ stage' = [stage EXCEPT ![v] = "open"]
      BY <2>2, <3>1, <3>2, StageChange, Stages4 DEF AcceptCommit, TypeOK
    <3>4. goal' = [goal EXCEPT ![v] = t]
      BY <2>2, <3>1 DEF AcceptCommit, Cap, TypeOK
    <3>5. E!Accept(v, t)
      BY <2>2, <3>1, <3>3, <3>4 DEF AcceptCommit, E!Accept, ledgerVars
    <3> QED BY <3>1, <3>5 DEF E!Next
  <2>3. ASSUME NEW s \in Slots, FundCommit(s)
        PROVE  E!Next
    <3>1. PICK v \in Invoices, i \in Investors, a \in FundAmounts :
            i \in Whitelisted /\ v = inv[s] /\ i = by[s] /\ a = amount[s] /\ a \in Nat /\ a > 0
      BY <2>3 DEF FundCommit, RequestsConsistent, Funding
    <3>2. IsOpen(v) /\ a <= Remaining(v) /\ Affordable(i, a)
      BY <2>0, <2>3, <3>1 DEF FundCommit, Consistent, ChecksStillHold, Funding
    <3>3. Cap(v) \in Int /\ fundedAmount[v] \in Nat
      BY <3>1, CapInt DEF TypeOK
    <3>4. fundedAmount[v] + a <= Cap(v)
      BY <3>1, <3>2, <3>3 DEF Remaining
    <3>5. stage[v] = "open"
      BY <3>1, <3>2 DEF IsOpen, StageOf, OpenForInvestment
    <3>6. goal' = goal
      BY <2>3 DEF FundCommit, Cap
    <3>7. stake' = [stake EXCEPT ![v][i] = @ + a]
      <4>1. \A w \in Invoices \ {v} : holding'[w] = holding[w] /\ repayments'[w] = repayments[w]
        BY <2>3, <3>1 DEF FundCommit, TypeOK
      <4>2. \A j \in Investors : holding'[v][j] - repayments'[v][j]
                                 = IF j = i THEN holding[v][j] - repayments[v][j] + a
                                            ELSE holding[v][j] - repayments[v][j]
        BY <2>3, <3>1 DEF FundCommit, Upserted, TypeOK
      <4>3. [j \in Investors |-> holding'[v][j] - repayments'[v][j]]
              = [[j \in Investors |-> holding[v][j] - repayments[v][j]] EXCEPT ![i] = @ + a]
        BY <3>1, <4>2
      <4>4. stake' = [stake EXCEPT ![v] = [[j \in Investors |-> holding[v][j] - repayments[v][j]]
                                            EXCEPT ![i] = @ + a]]
        BY <3>1, <4>1, <4>3, StakeChange
      <4> QED BY <3>1, <4>4
    <3> DEFINE full == fundedAmount[v] + a >= Cap(v)
    <3>0. /\ status' = [status EXCEPT ![v] = IF full THEN "funded" ELSE "funding"]
          /\ payouts' = [payouts EXCEPT ![v] = IF full THEN @ + 1 ELSE @]
      BY <2>3, <3>1 DEF FundCommit
    <3>8. ASSUME fundedAmount[v] + a < Cap(v) PROVE E!Invest(i, v, a)
      <4>1. status' = [status EXCEPT ![v] = "funding"] /\ payouts' = payouts
        <5>1. ~full
          BY <3>1, <3>3, <3>8
        <5>2. [payouts EXCEPT ![v] = @] = payouts
          BY <3>1 DEF TypeOK
        <5> HIDE DEF full
        <5> QED BY <3>0, <5>1, <5>2
      <4>2. stage' = stage
        BY <3>1, <3>5, <4>1, StageChange, Stages4 DEF TypeOK
      <4> QED BY <2>3, <3>1, <3>2, <3>4, <3>5, <3>6, <3>7, <3>8, <4>1, <4>2
              DEF FundCommit, E!Invest, Affordable
    <3>9. ASSUME fundedAmount[v] + a = Cap(v) PROVE E!Invest(i, v, a)
      <4>1. payouts[v] = 0
        BY <2>0, <3>1, <3>2 DEF Consistent, QuietInvoicePaidOutOnce, IsOpen, OpenForInvestment
      <4>2. status' = [status EXCEPT ![v] = "funded"] /\ payouts' = [payouts EXCEPT ![v] = 1]
        <5>1. full
          BY <3>1, <3>3, <3>9
        <5> HIDE DEF full
        <5> QED BY <3>0, <4>1, <5>1
      <4>3. stage' = [stage EXCEPT ![v] = "funded"]
        BY <3>1, <4>2, StageChange, Stages4 DEF TypeOK
      <4> QED BY <2>3, <3>1, <3>2, <3>4, <3>5, <3>6, <3>7, <3>9, <4>2, <4>3
              DEF FundCommit, E!Invest, Affordable
    <3>10. E!Invest(i, v, a)
      BY <3>1, <3>3, <3>4, <3>8, <3>9
    <3>11. \E j \in Investors, w \in Invoices, b \in FundAmounts : E!Invest(j, w, b)
      BY <3>1, <3>10
    <3> QED BY <3>11 DEF E!Next
  <2>4. ASSUME NEW s \in Slots, PayCommit(s)
        PROVE  E!Next
    <3>1. PICK v \in Invoices : v = inv[s]
      BY <2>4 DEF PayCommit, RequestsConsistent
    <3>2. Payable(v) /\ held[s] = holding[v]
      BY <2>0, <2>4, <3>1 DEF PayCommit, Consistent, ChecksStillHold, Paying
    <3>3. \A i \in Investors : repayments[v][i] = 0
      BY <2>0, <3>1, <3>2 DEF Consistent, QuietInvoiceRepaid, Payable
    <3>4. stage[v] = "funded" /\ stage' = [stage EXCEPT ![v] = "repaid"]
      BY <2>4, <3>1, <3>2, StageChange, Stages4 DEF PayCommit, Payable, TypeOK
    <3>5. goal' = goal
      BY <2>4 DEF PayCommit, Cap
    <3>6. wallet' = [i \in Investors |-> wallet[i] + stake[v][i]]
      BY <2>4, <3>1, <3>2, <3>3 DEF PayCommit, TypeOK
    <3>7. stake' = [stake EXCEPT ![v] = [i \in Investors |-> 0]]
      <4>1. \A w \in Invoices \ {v} : holding'[w] = holding[w] /\ repayments'[w] = repayments[w]
        BY <2>4, <3>1 DEF PayCommit, TypeOK
      <4>2. \A i \in Investors : holding'[v][i] - repayments'[v][i] = 0
        BY <2>4, <3>1, <3>2, <3>3 DEF PayCommit, TypeOK
      <4>3. [i \in Investors |-> holding'[v][i] - repayments'[v][i]] = [i \in Investors |-> 0]
        BY <4>2
      <4> QED BY <4>1, <4>3, StakeChange
    <3>8. E!Repay(v)
      BY <2>4, <3>1, <3>4, <3>5, <3>6, <3>7 DEF PayCommit, E!Repay
    <3>9. \E w \in Invoices : E!Repay(w)
      BY <3>1, <3>8
    <3> QED BY <3>9 DEF E!Next
  <2>5. ASSUME UNCHANGED <<invoiceVars, ledgerVars>>
        PROVE  UNCHANGED abstractVars
    BY <2>5 DEF invoiceVars, ledgerVars, Cap
  <2> QED BY <2>1, <2>2, <2>3, <2>4, <2>5 DEF Next, Review, Fund, Pay, ReviewRead, FundRead,
             FundCheckBalance, PayRead, PayHoldings, Abort, vars
<1>3. Spec => []Always
  BY TypeCorrect, QuietCorrect, NeverContended, PTL DEF TInv
<1> QED BY <1>1, <1>2, <1>3, PTL DEF Spec, E!Spec, E!vars, ImplementsEscrow

=============================================================================
