---------------------------- MODULE OfferingProofs ----------------------------
(***************************************************************************)
(* Theorems about Offering, for all invoices and holdings, any finite set  *)
(* of slots, all amounts and any number of requests and faults.            *)
(*                                                                         *)
(* What TokenizationProofs and MirroringProofs show of a step of their     *)
(* component holds of every step of Offering, which is one of the          *)
(* component or leaves its variables alone; P and Q bring their lemmas     *)
(* here.  The part about Settlement is proved first.  On top of the three  *)
(* come the invariants that relate them: what a handler read of another    *)
(* component before its call, and that fundedAmount is what the holdings   *)
(* add up to.                                                              *)
(***************************************************************************)
EXTENDS Offering, FiniteSetTheorems, TLAPS

P == INSTANCE TokenizationProofs WITH
  confirmed <- accepted, error <- tokError, pending <- tokPending,
  confirmedEv <- tokConfirmed, pc <- tokPc, inv <- tokInv, admin <- tokAdmin,
  tries <- tokTries, sto <- tokSto, retries <- tokRetries,
  contended <- tokContended, faulted <- tokFaulted

Q == INSTANCE MirroringProofs WITH
  launched <- [v \in Invoices |-> stoId[v] # 0],
  pending <- invPending, confirmed <- invConfirmed, pc <- invPc,
  admin <- invAdmin, tries <- invTries, retries <- invRetries,
  contended <- invContended, faulted <- invFaulted

LEMMA TokSame == T!Init => P!Init
BY DEF T!Init, P!Init, T!Actions, P!Actions

LEMMA TokSameStep == [T!Next]_(T!vars) => [P!Next]_(P!vars)
BY DEF T!Next, T!Proceed, T!vars, T!columns, T!events, T!chain, T!handlers, T!bounds,
       T!history, T!Actions, T!Calls, T!Waiting, T!Stages, T!Start, T!Goto, T!Finish, T!Fault,
       T!NoFault, T!ReviewRead, T!AcceptCommit, T!Retriable, T!RetryRead, T!NextCall,
       T!SendCall, T!TakesEffect, T!Confirm, T!MarkFailed, T!AfterFailure, T!Succeeds,
       T!Refused, T!MayRetry, T!Lags, T!CallFaults, T!NoStoId, T!SymbolTaken, T!PersistSymbol,
       T!PersistSto, T!ErrorText, T!RecordError, T!Caught, T!WriteFails, T!Crash,
       T!Cardinality, P!Next, P!Proceed, P!vars, P!columns, P!events, P!chain, P!handlers,
       P!bounds, P!history, P!Actions, P!Calls, P!Waiting, P!Stages, P!Start, P!Goto, P!Finish,
       P!Fault, P!NoFault, P!ReviewRead, P!AcceptCommit, P!Retriable, P!RetryRead, P!NextCall,
       P!SendCall, P!TakesEffect, P!Confirm, P!MarkFailed, P!AfterFailure, P!Succeeds,
       P!Refused, P!MayRetry, P!Lags, P!CallFaults, P!NoStoId, P!SymbolTaken, P!PersistSymbol,
       P!PersistSto, P!ErrorText, P!RecordError, P!Caught, P!WriteFails, P!Crash, P!Cardinality

LEMMA MirSame == M!Init => Q!Init
BY DEF M!Init, Q!Init

LEMMA MirSameStep == [M!Next]_(M!vars) => [Q!Next]_(Q!vars)
BY DEF M!Next, M!Proceed, M!vars, M!columns, M!events, M!chain, M!handlers, M!bounds,
       M!history, M!Launch, M!Start, M!Goto, M!Finish, M!Fault, M!NoFault, M!FundRead,
       M!GateOpen, M!FundCommit, M!Skip, M!Retriable, M!RetryRead, M!SendCall, M!TakesEffect,
       M!Confirm, M!MarkFailed, M!Succeeds, M!Refused, M!MayRetry, M!Lags, M!CallFaults,
       M!Cleared, M!Raised, M!ClearFlag, M!RecordFailure, M!Caught, M!WriteFails, M!Crash,
       M!Cardinality, M!SumFunctionOnSet, M!FoldFunctionOnSet, M!MapThenFoldSet, Q!Next,
       Q!Proceed, Q!vars, Q!columns, Q!events, Q!chain, Q!handlers, Q!bounds, Q!history,
       Q!Launch, Q!Start, Q!Goto, Q!Finish, Q!Fault, Q!NoFault, Q!FundRead, Q!GateOpen,
       Q!FundCommit, Q!Skip, Q!Retriable, Q!RetryRead, Q!SendCall, Q!TakesEffect, Q!Confirm,
       Q!MarkFailed, Q!Succeeds, Q!Refused, Q!MayRetry, Q!Lags, Q!CallFaults, Q!Cleared,
       Q!Raised, Q!ClearFlag, Q!RecordFailure, Q!Caught, Q!WriteFails, Q!Crash, Q!Cardinality,
       Q!SumFunctionOnSet, Q!FoldFunctionOnSet, Q!MapThenFoldSet

-----------------------------------------------------------------------------
(* Sums, as in MarketplaceProofs: SumFunctionOnSet picks an element, adds its *)
(* value and goes on with the rest, as a recursive function on the subsets of *)
(* its finite set.  The function exists and the picks do not matter.          *)

(* Induction on the subsets of a finite set, for a set D of them.            *)
LEMMA SubsetInduction ==
  ASSUME NEW S, IsFiniteSet(S), NEW D,
         \A A \in SUBSET S : (\A U \in SUBSET A : U # A => U \in D) => A \in D
  PROVE  \A A \in SUBSET S : A \in D
<1> DEFINE Bad == (SUBSET S) \ D
<1> SUFFICES ASSUME Bad # {} PROVE FALSE
  OBVIOUS
<1>1. FiniteSubsetsOf(S) = SUBSET S
  BY FS_FiniteSubsetsOfFinite
<1>2. IsWellFoundedOn(StrictSubsetOrdering(S), FiniteSubsetsOf(S))
  BY FS_StrictSubsetOrderingWellFounded
<1>3. Bad \subseteq FiniteSubsetsOf(S)
  BY <1>1
<1>4. \E A \in Bad : \A U \in Bad : ~ (<<U, A>> \in StrictSubsetOrdering(S))
  <2> HIDE DEF Bad
  <2> QED BY <1>2, <1>3, WFMin
<1>5. PICK A \in Bad : \A U \in Bad : ~ (<<U, A>> \in StrictSubsetOrdering(S))
  BY <1>4
<1>6. \A U \in SUBSET A : U # A => U \in D
  BY <1>5 DEF StrictSubsetOrdering
<1> QED BY <1>5, <1>6

Pick(A) == CHOOSE x \in A : TRUE
Unfold(g, f, A) == IF A = {} THEN 0 ELSE f[Pick(A)] + g[A \ {Pick(A)}]
Sums(g, f, S) == g = [A \in SUBSET S |-> Unfold(g, f, A)]

LEMMA SumIs == ASSUME NEW f, NEW S PROVE SumFunctionOnSet(f, S) = (CHOOSE g : Sums(g, f, S))[S]
BY DEF SumFunctionOnSet, FoldFunctionOnSet, MapThenFoldSet, Sums, Unfold, Pick

LEMMA PickIn == ASSUME NEW A, A # {} PROVE Pick(A) \in A
BY DEF Pick

(* Two functions that sum up agree where both are defined.                  *)
LEMMA SumsAgree ==
  ASSUME NEW f, NEW S, IsFiniteSet(S), NEW B \in SUBSET S, NEW g, NEW h, Sums(g, f, S), Sums(h, f, B)
  PROVE  \A A \in SUBSET B : g[A] = h[A]
<1> DEFINE D == {A \in SUBSET B : g[A] = h[A]}
<1>1. IsFiniteSet(B)
  BY FS_Subset
<1>2. ASSUME NEW A \in SUBSET B, \A U \in SUBSET A : U # A => U \in D
      PROVE  A \in D
  <2>1. g[A] = Unfold(g, f, A) /\ h[A] = Unfold(h, f, A)
    BY DEF Sums
  <2>2. A # {} => A \ {Pick(A)} \in D
    BY <1>2, PickIn
  <2> QED BY <2>1, <2>2 DEF Unfold
<1>3. \A A \in SUBSET B : A \in D
  <2> HIDE DEF D
  <2> QED BY <1>1, <1>2, SubsetInduction
<1> QED BY <1>3

(* They exist: built up by the size of the sets they are right about.        *)
LEMMA SumsExist == ASSUME NEW f, NEW S, IsFiniteSet(S) PROVE \E g : Sums(g, f, S)
<1> DEFINE D == {A \in SUBSET S : \E g : Sums(g, f, A)}
<1>1. ASSUME NEW A \in SUBSET S, \A U \in SUBSET A : U # A => U \in D
      PROVE  A \in D
  <2> DEFINE G(U) == CHOOSE g : Sums(g, f, U)
  <2> DEFINE below == [U \in SUBSET A |-> G(U)[U]]
  <2> DEFINE g == [U \in SUBSET A |-> Unfold(below, f, U)]
  <2>1. IsFiniteSet(A)
    BY FS_Subset
  <2>2. ASSUME NEW U \in SUBSET A, U # A PROVE Sums(G(U), f, U)
    BY <1>1, <2>2
  <2>3. ASSUME NEW U \in SUBSET A, U # A PROVE g[U] = below[U]
    <3>1. G(U)[U] = Unfold(G(U), f, U)
      BY <2>2, <2>3 DEF Sums
    <3>2. CASE U # {}
      <4>1. U \ {Pick(U)} \in SUBSET U /\ U \ {Pick(U)} \in SUBSET A /\ U \ {Pick(U)} # A
        BY <3>2, <2>3, PickIn
      <4>2. Sums(G(U \ {Pick(U)}), f, U \ {Pick(U)}) /\ Sums(G(U), f, U)
        BY <2>2, <2>3, <4>1
      <4>3. IsFiniteSet(U)
        BY <2>1, FS_Subset
      <4>4. G(U)[U \ {Pick(U)}] = G(U \ {Pick(U)})[U \ {Pick(U)}]
        <5> DEFINE V == U \ {Pick(U)}
        <5> HIDE DEF G
        <5>1. \A W \in SUBSET V : G(U)[W] = G(V)[W]
          BY <4>1, <4>2, <4>3, SumsAgree
        <5> QED BY <5>1
      <4>5. below[U \ {Pick(U)}] = G(U)[U \ {Pick(U)}] /\ below[U] = G(U)[U]
        BY <4>1, <4>4
      <4> QED BY <3>1, <4>5 DEF Unfold
    <3>3. CASE U = {}
      BY <3>1, <3>3 DEF Unfold
    <3> QED BY <3>2, <3>3
  <2>4. ASSUME NEW U \in SUBSET A PROVE Unfold(below, f, U) = Unfold(g, f, U)
    <3>1. U # {} => U \ {Pick(U)} \in SUBSET A /\ U \ {Pick(U)} # A
      BY PickIn
    <3> HIDE DEF below, g
    <3> QED BY <3>1, <2>3 DEF Unfold
  <2>5. Sums(g, f, A)
    BY <2>4 DEF Sums
  <2> QED BY <2>5
<1>2. \A A \in SUBSET S : A \in D
  <2> HIDE DEF D
  <2> QED BY <1>1, SubsetInduction
<1> QED BY <1>2

(* The equation the sum is defined by.                                      *)
LEMMA SumUnfolds ==
  ASSUME NEW f, NEW S, IsFiniteSet(S)
  PROVE  /\ SumFunctionOnSet(f, {}) = 0
         /\ S # {} => SumFunctionOnSet(f, S) = f[Pick(S)] + SumFunctionOnSet(f, S \ {Pick(S)})
<1> DEFINE G(A) == CHOOSE g : Sums(g, f, A)
<1>1. ASSUME NEW A \in SUBSET S
      PROVE  Sums(G(A), f, A) /\ SumFunctionOnSet(f, A) = G(A)[A]
  <2>1. IsFiniteSet(A)
    BY FS_Subset
  <2> QED BY <2>1, SumsExist, SumIs
<1>2. ASSUME NEW A \in SUBSET S PROVE G(A)[A] = Unfold(G(A), f, A)
  <2> HIDE DEF G
  <2> QED BY <1>1 DEF Sums
<1>3. S # {} => G(S)[S \ {Pick(S)}] = G(S \ {Pick(S)})[S \ {Pick(S)}]
  <2> HIDE DEF G
  <2> QED BY <1>1, SumsAgree
<1> HIDE DEF G
<1> QED BY <1>1, <1>2, <1>3 DEF Unfold

LEMMA SumInt ==
  ASSUME NEW f, NEW S, IsFiniteSet(S), \A x \in S : f[x] \in Int
  PROVE  SumFunctionOnSet(f, S) \in Int
<1> DEFINE D == {A \in SUBSET S : SumFunctionOnSet(f, A) \in Int}
<1>1. ASSUME NEW A \in SUBSET S, \A U \in SUBSET A : U # A => U \in D
      PROVE  A \in D
  <2>1. IsFiniteSet(A)
    BY FS_Subset
  <2>2. A # {} => Pick(A) \in S /\ A \ {Pick(A)} \in D
    BY <1>1, PickIn
  <2> QED BY <2>1, <2>2, SumUnfolds
<1>2. \A A \in SUBSET S : A \in D
  <2> HIDE DEF D
  <2> QED BY <1>1, SubsetInduction
<1> QED BY <1>2

(* It does not matter which element is taken out first.                      *)
LEMMA SumTakesOut ==
  ASSUME NEW f, NEW S, IsFiniteSet(S), \A x \in S : f[x] \in Int, NEW x \in S
  PROVE  SumFunctionOnSet(f, S) = f[x] + SumFunctionOnSet(f, S \ {x})
<1> DEFINE Sum(A) == SumFunctionOnSet(f, A)
<1> DEFINE D == {A \in SUBSET S : \A y \in A : Sum(A) = f[y] + Sum(A \ {y})}
<1>1. ASSUME NEW A \in SUBSET S, \A U \in SUBSET A : U # A => U \in D
      PROVE  A \in D
  <2> SUFFICES ASSUME NEW y \in A, y # Pick(A) PROVE Sum(A) = f[y] + Sum(A \ {y})
    <3>1. IsFiniteSet(A)
      BY FS_Subset
    <3> QED BY <3>1, SumUnfolds
  <2> DEFINE p == Pick(A)
  <2>1. p \in A /\ IsFiniteSet(A) /\ IsFiniteSet(A \ {p, y})
    BY PickIn, FS_Subset
  <2>2. Sum(A) = f[p] + Sum(A \ {p})
    BY <2>1, SumUnfolds
  <2> HIDE DEF p
  <2>3. A \ {p} \in D /\ A \ {y} \in D
    BY <1>1, <2>1
  <2>4. (A \ {p}) \ {y} = A \ {p, y} /\ (A \ {y}) \ {p} = A \ {p, y}
    OBVIOUS
  <2>5. y \in A \ {p} /\ p \in A \ {y}
    BY <2>1 DEF p
  <2>6. Sum(A \ {p}) = f[y] + Sum(A \ {p, y}) /\ Sum(A \ {y}) = f[p] + Sum(A \ {p, y})
    <3> HIDE DEF Sum
    <3> QED BY <2>3, <2>4, <2>5
  <2>7. Sum(A \ {p, y}) \in Int /\ f[p] \in Int /\ f[y] \in Int
    BY <2>1, SumInt
  <2> QED BY <2>2, <2>6, <2>7
<1>2. \A A \in SUBSET S : A \in D
  <2> HIDE DEF D
  <2> QED BY <1>1, SubsetInduction
<1> QED BY <1>2

(* Functions that agree have the same sum.                                  *)
LEMMA SumSame ==
  ASSUME NEW f, NEW g, NEW S, IsFiniteSet(S), \A x \in S : f[x] = g[x]
  PROVE  SumFunctionOnSet(f, S) = SumFunctionOnSet(g, S)
<1> DEFINE D == {A \in SUBSET S : SumFunctionOnSet(f, A) = SumFunctionOnSet(g, A)}
<1>1. ASSUME NEW A \in SUBSET S, \A U \in SUBSET A : U # A => U \in D
      PROVE  A \in D
  <2>1. IsFiniteSet(A)
    BY FS_Subset
  <2>2. A # {} => f[Pick(A)] = g[Pick(A)] /\ A \ {Pick(A)} \in D
    BY <1>1, PickIn
  <2> QED BY <2>1, <2>2, SumUnfolds
<1>2. \A A \in SUBSET S : A \in D
  <2> HIDE DEF D
  <2> QED BY <1>1, SubsetInduction
<1> QED BY <1>2

(* Adding to one value adds to the sum.                                     *)
LEMMA SumAdds ==
  ASSUME NEW f, NEW g, NEW S, IsFiniteSet(S), \A x \in S : f[x] \in Int /\ g[x] \in Int,
         NEW x \in S, \A y \in S \ {x} : g[y] = f[y]
  PROVE  SumFunctionOnSet(g, S) = SumFunctionOnSet(f, S) + g[x] - f[x]
<1>1. IsFiniteSet(S \ {x})
  BY FS_Subset
<1>2. SumFunctionOnSet(f, S \ {x}) = SumFunctionOnSet(g, S \ {x})
  BY <1>1, SumSame
<1>3. SumFunctionOnSet(f, S \ {x}) \in Int
  BY <1>1, SumInt
<1> QED BY <1>2, <1>3, SumTakesOut

-----------------------------------------------------------------------------
(* Settlement.  What its handlers know, whatever overlaps and fails: the      *)
(* order of the calls, what the ledger has of them, and, for an invoice that  *)
(* nothing overlaps and no fault hits, what the dividends are.                *)

Calm == Invoices \ (contended \cup faulted)

SetTyped ==
  /\ ended \in [Invoices -> BOOLEAN]
  /\ raised \in [Invoices -> Nat]
  /\ finalized \in [Invoices -> Nat]
  /\ pending \in [Invoices -> Int]
  /\ confirmed \in [Invoices -> [Actions -> Nat]]
  /\ effects \in [Invoices -> [Actions -> Nat]]
  /\ paid = [v \in Invoices |-> paid[v]]
  /\ late \in [Invoices -> Nat]
  /\ pc \in [Slots -> {"idle", "ready", "calling", "finalizing"}]
  /\ inv \in [Slots -> Invoices \cup {None}]
  /\ step \in [Slots -> 1 .. 3]
  /\ dividend \in [Slots -> Nat]

(* A slot works on an invoice or is idle, and no two slots work on an invoice *)
(* that the history does not call contended.                                 *)
SetAlone ==
  /\ \A s \in Slots : pc[s] = "idle" <=> inv[s] = None
  /\ \A s \in Slots : pc[s] = "idle" => step[s] = 1
  /\ \A s, t \in Slots : s # t /\ inv[s] = inv[t] => inv[s] \in contended \cup {None}

(* A handler at a call has the ones before it confirmed.                     *)
Ordered ==
  /\ \A s \in Slots : pc[s] # "idle" =>
       /\ ended[inv[s]]
       /\ step[s] >= 2 => confirmed[inv[s]]["closeOffer"] > 0
       /\ step[s] = 3 => confirmed[inv[s]]["claimTokens"] > 0
       /\ pc[s] = "finalizing" => step[s] = 3 /\ confirmed[inv[s]]["dividendDistribution"] > 0
  /\ \A v \in Invoices, a \in Actions :
       /\ confirmed[v][a] <= effects[v][a]
       /\ finalized[v] > 0 => confirmed[v][a] > 0

(* On a calm invoice a distribution is followed by the finalization: nobody   *)
(* reads the invoice in between, so no handler distributes once more.        *)
Dividends == \A v \in Calm :
  /\ effects[v]["dividendDistribution"] \in {0, 1}
  /\ effects[v]["dividendDistribution"] = 0 => paid[v] = 0
  /\ effects[v]["dividendDistribution"] = 1 =>
       /\ paid[v] \in Nat /\ paid[v] + late[v] = raised[v]
       /\ finalized[v] > 0 \/ \E s \in Slots : inv[s] = v /\ pc[s] = "finalizing"
  /\ \A s \in Slots : inv[s] = v /\ pc[s] \in {"ready", "calling"} =>
       effects[v]["dividendDistribution"] = 0 /\ dividend[s] + late[v] = raised[v]

Settled == SetTyped /\ SetAlone /\ Ordered /\ StepsInOrder /\ Dividends

LEMMA StepNames ==
  /\ Actions = {"closeOffer", "claimTokens", "dividendDistribution"}
  /\ Last = 3
  /\ Steps[1] = "closeOffer" /\ Steps[2] = "claimTokens" /\ Steps[3] = "dividendDistribution"
<1>1. DOMAIN Steps = {1, 2, 3} /\ Last = 3
  BY DEF Steps, Last
<1>2. Steps[1] = "closeOffer" /\ Steps[2] = "claimTokens" /\ Steps[3] = "dividendDistribution"
  BY DEF Steps
<1> QED BY <1>1, <1>2 DEF Actions

LEMMA SettledInit == Init => Settled
BY SettlementAssumption, StepNames DEF Init, Settled, SetTyped, SetAlone, Ordered, StepsInOrder, Dividends, Calm

LEMMA WindowClosesSettles == ASSUME Settled, NEW v \in Invoices, WindowCloses(v) PROVE Settled'
<1> USE DEF Settled, SetTyped, WindowCloses, events, chain, handlers, bounds, history
<1>1. SetTyped' /\ SetAlone'
  BY DEF SetAlone
<1>2. Ordered' /\ StepsInOrder'
  BY SettlementAssumption DEF Ordered, StepsInOrder, SetAlone
<1>3. Dividends'
  BY DEF Dividends, Calm
<1> QED BY <1>1, <1>2, <1>3

LEMMA FundCommitSettles ==
  ASSUME Settled, NEW v \in Invoices, NEW a \in Nat, FundCommit(v, a) PROVE Settled'
<1> USE DEF Settled, SetTyped, FundCommit, events, chain, handlers, bounds, history
<1>1. SetTyped' /\ SetAlone'
  BY DEF SetAlone
<1>2. Ordered' /\ StepsInOrder'
  BY DEF Ordered, StepsInOrder
<1>3. Dividends'
  BY DEF Dividends, Calm
<1> QED BY <1>1, <1>2, <1>3

LEMMA FinalizeReadSettles ==
  ASSUME Settled, NEW s \in Slots, NEW v \in Invoices, FinalizeRead(s, v) PROVE Settled'
<1> USE SettlementAssumption
    DEF Settled, SetTyped, FinalizeRead, Finalizable, Dividend, columns, events, chain
<1>1. SetTyped' /\ SetAlone'
  BY DEF SetAlone
<1>2. Ordered' /\ StepsInOrder'
  BY DEF Ordered, StepsInOrder, SetAlone
<1>3. Dividends'
  BY DEF Dividends, Calm, SetAlone
<1> QED BY <1>1, <1>2, <1>3

LEMMA SendCallSettles == ASSUME Settled, NEW s \in Slots, SendCall(s) PROVE Settled'
<1> USE SettlementAssumption DEF Settled, SetTyped, SendCall, Goto, NoFault, columns, chain, bounds, history
<1>1. SetTyped' /\ SetAlone'
  BY DEF SetAlone
<1>2. Ordered' /\ StepsInOrder'
  BY DEF Ordered, StepsInOrder
<1>3. Dividends'
  BY DEF Dividends, Calm
<1> QED BY <1>1, <1>2, <1>3

(* The call of the handler in s takes effect, and its row is confirmed or not. *)
LEMMA EffectOrders ==
  ASSUME Settled, NEW s \in Slots, NEW v \in Invoices, v = inv[s], pc[s] = "calling", TakesEffect(s)
  PROVE  /\ \A w \in Invoices, a \in Actions :
              effects'[w][a] = IF w = v /\ a = Steps[step[s]] THEN effects[w][a] + 1 ELSE effects[w][a]
         /\ effects' \in [Invoices -> [Actions -> Nat]]
         /\ \A w \in Invoices :
              paid'[w] = IF w = v /\ step[s] = 3 THEN paid[w] + dividend[s] ELSE paid[w]
         /\ paid' = [w \in Invoices |-> paid'[w]]
         /\ ended' = ended => StepsInOrder'
<1>1. Steps[step[s]] \in Actions /\ step[s] \in {1, 2, 3}
  BY StepNames DEF Settled, SetTyped
<1>2. effects' = [effects EXCEPT ![v][Steps[step[s]]] = @ + 1] /\ effects \in [Invoices -> [Actions -> Nat]]
  BY DEF TakesEffect, Settled, SetTyped
<1>3. effects' \in [Invoices -> [Actions -> Nat]]
  BY <1>1, <1>2
<1>4. ASSUME NEW w \in Invoices, NEW a \in Actions
      PROVE  effects'[w][a] = IF w = v /\ a = Steps[step[s]] THEN effects[w][a] + 1 ELSE effects[w][a]
  BY <1>1, <1>2
<1>5. /\ \A w \in Invoices : paid'[w] = IF w = v /\ step[s] = 3 THEN paid[w] + dividend[s] ELSE paid[w]
      /\ paid' = [w \in Invoices |-> paid'[w]]
  BY StepNames DEF TakesEffect, Settled, SetTyped
<1>6. ASSUME ended' = ended PROVE StepsInOrder'
  <2> SUFFICES ASSUME NEW w \in Invoices
               PROVE  /\ effects'[w]["closeOffer"] > 0 => ended[w]
                      /\ effects'[w]["claimTokens"] > 0 => effects'[w]["closeOffer"] > 0
                      /\ effects'[w]["dividendDistribution"] > 0 => effects'[w]["claimTokens"] > 0
    BY <1>6 DEF StepsInOrder
  <2>1. \A a \in Actions : effects[w][a] \in Nat /\ confirmed[w][a] \in Nat /\ confirmed[w][a] <= effects[w][a]
    BY DEF Settled, SetTyped, Ordered
  <2>2. /\ effects[w]["closeOffer"] > 0 => ended[w]
        /\ effects[w]["claimTokens"] > 0 => effects[w]["closeOffer"] > 0
        /\ effects[w]["dividendDistribution"] > 0 => effects[w]["claimTokens"] > 0
    BY DEF Settled, StepsInOrder
  <2>3. w = v => /\ ended[w]
                 /\ step[s] >= 2 => confirmed[w]["closeOffer"] > 0
                 /\ step[s] = 3 => confirmed[w]["claimTokens"] > 0
    BY DEF Settled, Ordered
  <2> QED BY <1>1, <1>4, <2>1, <2>2, <2>3, StepNames
<1> QED BY <1>3, <1>4, <1>5, <1>6

LEMMA SucceedsSettles == ASSUME Settled, NEW s \in Slots, Succeeds(s) PROVE Settled'
<1>1. PICK v \in Invoices : v = inv[s]
  BY DEF Settled, SetTyped, SetAlone, Succeeds
<1>2. pc[s] = "calling" /\ TakesEffect(s) /\ UNCHANGED <<ended, raised, finalized, late, contended, faulted>>
  BY DEF Succeeds, NoFault, history, columns
<1>3. /\ \A w \in Invoices, a \in Actions :
           effects'[w][a] = IF w = v /\ a = Steps[step[s]] THEN effects[w][a] + 1 ELSE effects[w][a]
      /\ effects' \in [Invoices -> [Actions -> Nat]]
      /\ \A w \in Invoices :
           paid'[w] = IF w = v /\ step[s] = 3 THEN paid[w] + dividend[s] ELSE paid[w]
      /\ paid' = [w \in Invoices |-> paid'[w]]
      /\ StepsInOrder'
  BY <1>1, <1>2, EffectOrders
<1>4. Steps[step[s]] \in Actions /\ step[s] \in {1, 2, 3}
  BY StepNames DEF Settled, SetTyped
<1>5. /\ pending' = [pending EXCEPT ![v] = @ - 1]
      /\ confirmed' = [confirmed EXCEPT ![v][Steps[step[s]]] = @ + 1]
  BY <1>1 DEF Succeeds, Confirm
<1>6. /\ pc' = [pc EXCEPT ![s] = IF step[s] = 3 THEN "finalizing" ELSE "ready"]
      /\ step' = [step EXCEPT ![s] = IF step[s] = 3 THEN @ ELSE @ + 1]
      /\ UNCHANGED <<inv, dividend>>
  BY StepNames DEF Succeeds, NextStep
<1>7. SetTyped'
  BY <1>1, <1>2, <1>3, <1>4, <1>5, <1>6 DEF Settled, SetTyped
<1>8. SetAlone'
  BY <1>2, <1>6 DEF Settled, SetTyped, SetAlone
<1>9. \A w \in Invoices, a \in Actions :
        confirmed'[w][a] = IF w = v /\ a = Steps[step[s]] THEN confirmed[w][a] + 1 ELSE confirmed[w][a]
  BY <1>4, <1>5 DEF Settled, SetTyped
<1>10. \A w \in Invoices, a \in Actions : confirmed[w][a] \in Nat /\ effects[w][a] \in Nat
  BY DEF Settled, SetTyped
<1>11. Ordered'
  <2>1. ASSUME NEW w \in Invoices, NEW a \in Actions
        PROVE  /\ confirmed'[w][a] <= effects'[w][a]
               /\ finalized'[w] > 0 => confirmed'[w][a] > 0
    BY <1>2, <1>3, <1>9, <1>10 DEF Settled, Ordered
  <2>2. ASSUME NEW t \in Slots, pc'[t] # "idle"
        PROVE  /\ ended[inv[t]]
               /\ step'[t] >= 2 => confirmed'[inv[t]]["closeOffer"] > 0
               /\ step'[t] = 3 => confirmed'[inv[t]]["claimTokens"] > 0
               /\ pc'[t] = "finalizing" =>
                    step'[t] = 3 /\ confirmed'[inv[t]]["dividendDistribution"] > 0
    <3>1. pc[t] # "idle" /\ inv[t] \in Invoices
      BY <1>2, <1>6, <2>2 DEF Settled, SetTyped, SetAlone
    <3>2. /\ ended[inv[t]]
          /\ step[t] >= 2 => confirmed[inv[t]]["closeOffer"] > 0
          /\ step[t] = 3 => confirmed[inv[t]]["claimTokens"] > 0
          /\ pc[t] = "finalizing" => step[t] = 3 /\ confirmed[inv[t]]["dividendDistribution"] > 0
      BY <3>1 DEF Settled, Ordered
    <3>3. \A a \in Actions : confirmed'[inv[t]][a] >= confirmed[inv[t]][a]
      BY <1>9, <1>10, <3>1
    <3>4. \A a \in Actions : confirmed[inv[t]][a] \in Nat /\ confirmed'[inv[t]][a] \in Int
      BY <1>9, <1>10, <3>1
    <3>5. CASE t # s
      <4>1. step'[t] = step[t] /\ pc'[t] = pc[t]
        BY <1>6, <3>5 DEF Settled, SetTyped
      <4> QED BY <3>2, <3>3, <3>4, <4>1, StepNames
    <3>6. CASE t = s
      <4>1. confirmed'[v][Steps[step[s]]] > 0
        BY <1>4, <1>9, <1>10
      <4>2. /\ step'[s] = IF step[s] = 3 THEN 3 ELSE step[s] + 1
            /\ pc'[s] = IF step[s] = 3 THEN "finalizing" ELSE "ready"
        BY <1>6 DEF Settled, SetTyped
      <4> QED BY <1>1, <1>4, <3>2, <3>3, <3>4, <3>6, <4>1, <4>2, StepNames
    <3> QED BY <3>5, <3>6
  <2> QED BY <1>2, <1>6, <2>1, <2>2 DEF Ordered
<1>12. Dividends'
  <2> SUFFICES ASSUME NEW w \in Invoices, w \notin contended, w \notin faulted
               PROVE  /\ effects'[w]["dividendDistribution"] \in {0, 1}
                      /\ effects'[w]["dividendDistribution"] = 0 => paid'[w] = 0
                      /\ effects'[w]["dividendDistribution"] = 1 =>
                           /\ paid'[w] \in Nat /\ paid'[w] + late[w] = raised[w]
                           /\ finalized[w] > 0 \/ \E t \in Slots : inv[t] = w /\ pc'[t] = "finalizing"
                      /\ \A t \in Slots : inv[t] = w /\ pc'[t] \in {"ready", "calling"} =>
                           effects'[w]["dividendDistribution"] = 0 /\ dividend[t] + late[w] = raised[w]
    BY <1>2, <1>6 DEF Dividends, Calm
  <2>1. /\ effects[w]["dividendDistribution"] \in {0, 1}
        /\ effects[w]["dividendDistribution"] = 0 => paid[w] = 0
        /\ effects[w]["dividendDistribution"] = 1 =>
             /\ paid[w] \in Nat /\ paid[w] + late[w] = raised[w]
             /\ finalized[w] > 0 \/ \E t \in Slots : inv[t] = w /\ pc[t] = "finalizing"
        /\ \A t \in Slots : inv[t] = w /\ pc[t] \in {"ready", "calling"} =>
             effects[w]["dividendDistribution"] = 0 /\ dividend[t] + late[w] = raised[w]
    BY DEF Settled, Dividends, Calm
  <2>2. \A t \in Slots \ {s} : pc'[t] = pc[t]
    BY <1>6 DEF Settled, SetTyped
  <2>3. CASE w # v
    <3>1. effects'[w]["dividendDistribution"] = effects[w]["dividendDistribution"] /\ paid'[w] = paid[w]
      BY <1>3, <2>3, StepNames
    <3> QED BY <1>1, <2>1, <2>2, <2>3, <3>1
  <2>4. CASE w = v
    <3>1. \A t \in Slots \ {s} : inv[t] # v
      BY <1>1, <2>4, SettlementAssumption DEF Settled, SetAlone
    <3>2. effects[v]["dividendDistribution"] = 0 /\ dividend[s] + late[v] = raised[v] /\ paid[v] = 0
      BY <1>1, <1>2, <2>1, <2>4
    <3>3. dividend[s] \in Nat /\ late[v] \in Nat /\ raised[v] \in Nat
      BY DEF Settled, SetTyped
    <3>4. CASE step[s] = 3
      <4>1. effects'[v]["dividendDistribution"] = 1 /\ paid'[v] = dividend[s] /\ pc'[s] = "finalizing"
        BY <1>3, <1>6, <3>2, <3>3, <3>4, StepNames DEF Settled, SetTyped
      <4> QED BY <1>1, <2>4, <3>1, <3>2, <3>3, <4>1
    <3>5. CASE step[s] # 3
      <4>1. effects'[v]["dividendDistribution"] = 0 /\ paid'[v] = 0
        BY <1>3, <1>4, <3>2, <3>5, StepNames
      <4> QED BY <1>1, <2>4, <3>1, <3>2, <4>1
    <3> QED BY <3>4, <3>5
  <2> QED BY <2>3, <2>4
<1> QED BY <1>3, <1>7, <1>8, <1>11, <1>12 DEF Settled

LEMMA RefusedSettles == ASSUME Settled, NEW s \in Slots, Refused(s) PROVE Settled'
<1> USE SettlementAssumption
    DEF Settled, SetTyped, Refused, MarkFailed, Stopped, Finish, NoFault, columns, chain, bounds, history
<1>1. SetTyped' /\ SetAlone'
  BY DEF SetAlone
<1>2. Ordered' /\ StepsInOrder'
  BY DEF Ordered, StepsInOrder
<1>3. Dividends'
  BY DEF Dividends, Calm
<1> QED BY <1>1, <1>2, <1>3

LEMMA FinalizeSettles == ASSUME Settled, NEW s \in Slots, Finalize(s) PROVE Settled'
<1> USE SettlementAssumption
    DEF Settled, SetTyped, Finalize, Finish, NoFault, events, chain, bounds, history
<1>1. SetTyped' /\ SetAlone'
  BY DEF SetAlone
<1>2. Ordered' /\ StepsInOrder'
  BY StepNames DEF Ordered, StepsInOrder, SetAlone
<1>3. Dividends'
  BY DEF Dividends, Calm, SetAlone
<1> QED BY <1>1, <1>2, <1>3

LEMMA WriteFailsSettles == ASSUME Settled, NEW s \in Slots, WriteFails(s) PROVE Settled'
<1> USE SettlementAssumption
    DEF Settled, SetTyped, WriteFails, Fault, Finish, columns, events, chain, bounds
<1>1. SetTyped' /\ SetAlone'
  BY DEF SetAlone
<1>2. Ordered' /\ StepsInOrder'
  BY DEF Ordered, StepsInOrder
<1>3. Dividends'
  BY DEF Dividends, Calm
<1> QED BY <1>1, <1>2, <1>3

LEMMA CallFaultsSettles == ASSUME Settled, NEW s \in Slots, CallFaults(s) PROVE Settled'
<1>1. PICK v \in Invoices : v = inv[s]
  BY DEF Settled, SetTyped, SetAlone, CallFaults
<1>2. /\ pc[s] = "calling" /\ faulted' = faulted \cup {v}
      /\ UNCHANGED <<ended, raised, finalized, late, contended, confirmed>>
      /\ pending' = pending \/ pending' = [pending EXCEPT ![v] = @ - 1]
  BY <1>1 DEF CallFaults, Fault, columns, MarkFailed, events
<1>3. /\ \A w \in Invoices, a \in Actions : effects'[w][a] >= effects[w][a]
      /\ \A w \in Invoices \ {v} : effects'[w] = effects[w] /\ paid'[w] = paid[w]
      /\ effects' \in [Invoices -> [Actions -> Nat]]
      /\ paid' = [w \in Invoices |-> paid'[w]]
      /\ StepsInOrder'
  <2>1. CASE UNCHANGED chain
    <3>1. effects' = effects /\ paid' = paid
      BY <2>1 DEF chain
    <3>2. \A w \in Invoices, a \in Actions : effects'[w][a] >= effects[w][a]
      BY <3>1 DEF Settled, SetTyped
    <3>3. StepsInOrder'
      BY <1>2, <3>1 DEF Settled, StepsInOrder
    <3> QED BY <3>1, <3>2, <3>3 DEF Settled, SetTyped
  <2>2. CASE TakesEffect(s)
    <3>1. /\ \A w \in Invoices, a \in Actions :
               effects'[w][a] = IF w = v /\ a = Steps[step[s]] THEN effects[w][a] + 1 ELSE effects[w][a]
          /\ effects' \in [Invoices -> [Actions -> Nat]]
          /\ \A w \in Invoices :
               paid'[w] = IF w = v /\ step[s] = 3 THEN paid[w] + dividend[s] ELSE paid[w]
          /\ paid' = [w \in Invoices |-> paid'[w]]
          /\ StepsInOrder'
      BY <1>1, <1>2, <2>2, EffectOrders
    <3>2. \A w \in Invoices \ {v} : effects'[w] = effects[w]
      BY <1>1, <2>2 DEF TakesEffect, Settled, SetTyped
    <3>3. \A w \in Invoices, a \in Actions : effects[w][a] \in Nat
      BY DEF Settled, SetTyped
    <3>4. \A w \in Invoices, a \in Actions : effects'[w][a] >= effects[w][a]
      BY <3>1, <3>3
    <3> QED BY <3>1, <3>2, <3>4
  <2> QED BY <2>1, <2>2 DEF CallFaults
<1>4. /\ pc' = [pc EXCEPT ![s] = "idle"] /\ inv' = [inv EXCEPT ![s] = None]
      /\ step' = [step EXCEPT ![s] = 1] /\ dividend' = [dividend EXCEPT ![s] = 0]
  BY DEF CallFaults, Stopped, Finish
<1>5. SetTyped'
  BY <1>1, <1>2, <1>3, <1>4 DEF Settled, SetTyped
<1>6. SetAlone'
  BY <1>2, <1>4 DEF Settled, SetTyped, SetAlone
<1>7. Ordered'
  <2>1. ASSUME NEW w \in Invoices, NEW a \in Actions
        PROVE  /\ confirmed'[w][a] <= effects'[w][a]
               /\ finalized'[w] > 0 => confirmed'[w][a] > 0
    <3>1. confirmed[w][a] \in Nat /\ effects[w][a] \in Nat /\ effects'[w][a] \in Nat
      BY <1>3 DEF Settled, SetTyped
    <3>2. effects'[w][a] >= effects[w][a]
      BY <1>3
    <3> QED BY <1>2, <3>1, <3>2 DEF Settled, Ordered
  <2>2. \A t \in Slots : pc'[t] # "idle" =>
          pc'[t] = pc[t] /\ inv'[t] = inv[t] /\ step'[t] = step[t]
    BY <1>4 DEF Settled, SetTyped
  <2> QED BY <1>2, <2>1, <2>2 DEF Settled, Ordered
<1>8. Dividends'
  <2> SUFFICES ASSUME NEW w \in Calm'
               PROVE  /\ effects'[w]["dividendDistribution"] \in {0, 1}
                      /\ effects'[w]["dividendDistribution"] = 0 => paid'[w] = 0
                      /\ effects'[w]["dividendDistribution"] = 1 =>
                           /\ paid'[w] \in Nat /\ paid'[w] + late[w] = raised[w]
                           /\ finalized[w] > 0 \/ \E t \in Slots : inv'[t] = w /\ pc'[t] = "finalizing"
                      /\ \A t \in Slots : inv'[t] = w /\ pc'[t] \in {"ready", "calling"} =>
                           effects'[w]["dividendDistribution"] = 0 /\ dividend'[t] + late[w] = raised[w]
    BY <1>2 DEF Dividends
  <2>1. w # v /\ w \in Calm /\ w \in Invoices /\ effects'[w] = effects[w] /\ paid'[w] = paid[w]
    BY <1>2, <1>3 DEF Calm
  <2>2. \A t \in Slots \ {s} : pc'[t] = pc[t] /\ inv'[t] = inv[t] /\ dividend'[t] = dividend[t]
    BY <1>4 DEF Settled, SetTyped
  <2>3. inv'[s] # w /\ inv[s] # w
    BY <1>1, <1>4, <2>1, SettlementAssumption DEF Settled, SetTyped
  <2>4. \A t \in Slots : inv'[t] = w <=> inv[t] = w
    BY <2>2, <2>3
  <2>5. /\ effects[w]["dividendDistribution"] \in {0, 1}
        /\ effects[w]["dividendDistribution"] = 0 => paid[w] = 0
        /\ effects[w]["dividendDistribution"] = 1 =>
             /\ paid[w] \in Nat /\ paid[w] + late[w] = raised[w]
             /\ finalized[w] > 0 \/ \E t \in Slots : inv[t] = w /\ pc[t] = "finalizing"
        /\ \A t \in Slots : inv[t] = w /\ pc[t] \in {"ready", "calling"} =>
             effects[w]["dividendDistribution"] = 0 /\ dividend[t] + late[w] = raised[w]
    BY <2>1 DEF Settled, Dividends
  <2> QED BY <2>1, <2>2, <2>3, <2>4, <2>5
<1> QED BY <1>3, <1>5, <1>6, <1>7, <1>8 DEF Settled

(* A crash takes the handlers with it.  Calls on their way may be mined, for   *)
(* the invoices it marks, and each of them in its turn: the calls before it   *)
(* are confirmed.                                                            *)
LEMMA CrashEffects ==
  ASSUME IsFiniteSet(Slots), Settled, Crash
  PROVE  /\ effects' \in [Invoices -> [Actions -> Nat]] /\ paid' = [v \in Invoices |-> paid'[v]]
         /\ \A v \in Invoices, a \in Actions :
              /\ effects'[v][a] >= effects[v][a]
              /\ effects'[v][a] > 0 =>
                   effects[v][a] > 0 \/ \E s \in Slots : inv[s] = v /\ pc[s] # "idle" /\ Steps[step[s]] = a
         /\ \A v \in Invoices \ faulted' :
              /\ v \notin faulted /\ \A s \in Slots : inv[s] # v
              /\ effects'[v] = effects[v]
              /\ paid[v] \in Int => paid'[v] = paid[v]
<1> DEFINE Mined(m, v, a) == {s \in m : inv[s] = v /\ Steps[step[s]] = a}
<1>1. PICK mined \in SUBSET {s \in Slots : pc[s] = "calling"} :
        /\ effects' = [v \in Invoices |-> [a \in Actions |->
             effects[v][a] + Cardinality(Mined(mined, v, a))]]
        /\ paid' = [v \in Invoices |-> paid[v] + SumFunctionOnSet(dividend, Mined(mined, v, Steps[Last]))]
  BY DEF Crash
<1>2. ASSUME NEW v \in Invoices, NEW a
      PROVE  /\ Cardinality(Mined(mined, v, a)) \in Nat
             /\ (~ \E s \in Slots : inv[s] = v /\ pc[s] # "idle" /\ Steps[step[s]] = a) =>
                  Mined(mined, v, a) = {} /\ Cardinality(Mined(mined, v, a)) = 0
  <2>1. Mined(mined, v, a) \subseteq Slots
    BY <1>1
  <2>2. IsFiniteSet(Mined(mined, v, a))
    BY <2>1, FS_Subset
  <2>3. (~ \E s \in Slots : inv[s] = v /\ pc[s] # "idle" /\ Steps[step[s]] = a) => Mined(mined, v, a) = {}
    BY <1>1
  <2> QED BY <2>2, <2>3, FS_CardinalityType, FS_EmptySet
<1> HIDE DEF Mined
<1>3. \A v \in Invoices, a \in Actions : effects[v][a] \in Nat
  BY DEF Settled, SetTyped
<1>4. \A v \in Invoices, a \in Actions : effects'[v][a] = effects[v][a] + Cardinality(Mined(mined, v, a))
  BY <1>1
<1>5. effects' \in [Invoices -> [Actions -> Nat]]
  BY <1>1, <1>2, <1>3
<1>6. ASSUME NEW v \in Invoices, NEW a \in Actions
      PROVE  /\ effects'[v][a] >= effects[v][a]
             /\ effects'[v][a] > 0 =>
                  effects[v][a] > 0 \/ \E s \in Slots : inv[s] = v /\ pc[s] # "idle" /\ Steps[step[s]] = a
  BY <1>2, <1>3, <1>4
<1>7. ASSUME NEW v \in Invoices \ faulted'
      PROVE  /\ v \notin faulted /\ \A s \in Slots : inv[s] # v
             /\ effects'[v] = effects[v]
             /\ paid[v] \in Int => paid'[v] = paid[v]
  <2>1. v \notin faulted /\ \A s \in Slots : inv[s] # v
    BY SettlementAssumption DEF Crash
  <2>2. \A a : Mined(mined, v, a) = {} /\ Cardinality(Mined(mined, v, a)) = 0
    BY <1>2, <2>1
  <2>3. effects'[v] = [a \in Actions |-> effects[v][a]]
    <3>1. effects'[v] = [a \in Actions |-> effects[v][a] + Cardinality(Mined(mined, v, a))]
      BY <1>1
    <3>2. \A a \in Actions : effects[v][a] + Cardinality(Mined(mined, v, a)) = effects[v][a]
      BY <1>3, <2>2
    <3> QED BY <3>1, <3>2
  <2>4. effects'[v] = effects[v]
    BY <2>3 DEF Settled, SetTyped
  <2>5. paid'[v] = paid[v] + SumFunctionOnSet(dividend, {})
    BY <1>1, <2>2
  <2>6. SumFunctionOnSet(dividend, {}) = 0
    BY SumUnfolds, FS_EmptySet
  <2> QED BY <2>1, <2>4, <2>5, <2>6
<1> QED BY <1>1, <1>5, <1>6, <1>7

LEMMA CrashSettles == ASSUME IsFiniteSet(Slots), Settled, Crash PROVE Settled'
<1>1. /\ effects' \in [Invoices -> [Actions -> Nat]] /\ paid' = [v \in Invoices |-> paid'[v]]
      /\ \A v \in Invoices, a \in Actions :
           /\ effects'[v][a] >= effects[v][a]
           /\ effects'[v][a] > 0 =>
                effects[v][a] > 0 \/ \E s \in Slots : inv[s] = v /\ pc[s] # "idle" /\ Steps[step[s]] = a
      /\ \A v \in Invoices \ faulted' :
           /\ v \notin faulted /\ \A s \in Slots : inv[s] # v
           /\ effects'[v] = effects[v]
           /\ paid[v] \in Int => paid'[v] = paid[v]
  BY CrashEffects
<1>2. /\ UNCHANGED <<ended, raised, finalized, pending, confirmed, late, contended>>
      /\ pc' = [s \in Slots |-> "idle"] /\ inv' = [s \in Slots |-> None]
      /\ step' = [s \in Slots |-> 1] /\ dividend' = [s \in Slots |-> 0]
  BY DEF Crash, columns, events
<1>3. SetTyped'
  BY <1>1, <1>2 DEF Settled, SetTyped
<1>4. SetAlone'
  BY <1>2 DEF SetAlone
<1>5. \A v \in Invoices, a \in Actions :
        /\ confirmed[v][a] \in Nat /\ effects[v][a] \in Nat /\ effects'[v][a] \in Nat
        /\ confirmed[v][a] <= effects[v][a]
  BY <1>1 DEF Settled, SetTyped, Ordered
<1>6. Ordered'
  <2>1. ASSUME NEW v \in Invoices, NEW a \in Actions
        PROVE  /\ confirmed'[v][a] <= effects'[v][a]
               /\ finalized'[v] > 0 => confirmed'[v][a] > 0
    <3>1. effects'[v][a] >= effects[v][a]
      BY <1>1
    <3> QED BY <1>2, <1>5, <3>1 DEF Settled, Ordered
  <2> QED BY <1>2, <2>1 DEF Ordered
<1>7. StepsInOrder'
  <2> SUFFICES ASSUME NEW v \in Invoices
               PROVE  /\ effects'[v]["closeOffer"] > 0 => ended[v]
                      /\ effects'[v]["claimTokens"] > 0 => effects'[v]["closeOffer"] > 0
                      /\ effects'[v]["dividendDistribution"] > 0 => effects'[v]["claimTokens"] > 0
    BY <1>2 DEF StepsInOrder
  <2>1. /\ effects[v]["closeOffer"] > 0 => ended[v]
        /\ effects[v]["claimTokens"] > 0 => effects[v]["closeOffer"] > 0
        /\ effects[v]["dividendDistribution"] > 0 => effects[v]["claimTokens"] > 0
    BY DEF Settled, StepsInOrder
  <2>2. ASSUME NEW s \in Slots, inv[s] = v, pc[s] # "idle"
        PROVE  /\ ended[v]
               /\ Steps[step[s]] = "claimTokens" => effects'[v]["closeOffer"] > 0
               /\ Steps[step[s]] = "dividendDistribution" => effects'[v]["claimTokens"] > 0
    <3>1. step[s] \in {1, 2, 3}
      BY DEF Settled, SetTyped
    <3>2. /\ ended[v]
          /\ step[s] >= 2 => confirmed[v]["closeOffer"] > 0
          /\ step[s] = 3 => confirmed[v]["claimTokens"] > 0
      BY <2>2 DEF Settled, Ordered
    <3>3. \A a \in Actions : effects'[v][a] >= effects[v][a]
      BY <1>1
    <3> QED BY <1>5, <3>1, <3>2, <3>3, StepNames
  <2>3. \A a \in Actions : effects'[v][a] >= effects[v][a] /\ effects[v][a] \in Nat /\ effects'[v][a] \in Nat
    BY <1>1, <1>5
  <2>4. effects'[v]["closeOffer"] > 0 => ended[v]
    <3>1. effects'[v]["closeOffer"] > 0 =>
            effects[v]["closeOffer"] > 0 \/ \E s \in Slots : inv[s] = v /\ pc[s] # "idle"
      BY <1>1, StepNames
    <3> QED BY <2>1, <2>2, <3>1
  <2>5. effects'[v]["claimTokens"] > 0 => effects'[v]["closeOffer"] > 0
    <3>1. effects'[v]["claimTokens"] > 0 =>
            \/ effects[v]["claimTokens"] > 0
            \/ \E s \in Slots : inv[s] = v /\ pc[s] # "idle" /\ Steps[step[s]] = "claimTokens"
      BY <1>1, StepNames
    <3> QED BY <2>1, <2>2, <2>3, <3>1, StepNames
  <2>6. effects'[v]["dividendDistribution"] > 0 => effects'[v]["claimTokens"] > 0
    <3>1. effects'[v]["dividendDistribution"] > 0 =>
            \/ effects[v]["dividendDistribution"] > 0
            \/ \E s \in Slots : inv[s] = v /\ pc[s] # "idle" /\ Steps[step[s]] = "dividendDistribution"
      BY <1>1, StepNames
    <3> QED BY <2>1, <2>2, <2>3, <3>1, StepNames
  <2> QED BY <2>4, <2>5, <2>6
<1>8. Dividends'
  <2> SUFFICES ASSUME NEW v \in Calm'
               PROVE  /\ effects'[v]["dividendDistribution"] \in {0, 1}
                      /\ effects'[v]["dividendDistribution"] = 0 => paid'[v] = 0
                      /\ effects'[v]["dividendDistribution"] = 1 =>
                           paid'[v] \in Nat /\ paid'[v] + late[v] = raised[v] /\ finalized[v] > 0
                      /\ \A s \in Slots : inv'[s] # v
    BY <1>2 DEF Dividends
  <2>1. v \in Calm /\ v \in Invoices \ faulted'
    BY <1>1, <1>2 DEF Calm
  <2>2. /\ \A s \in Slots : inv[s] # v
        /\ effects'[v] = effects[v]
        /\ paid[v] \in Int => paid'[v] = paid[v]
    BY <1>1, <2>1
  <2>3. /\ effects[v]["dividendDistribution"] \in {0, 1}
        /\ effects[v]["dividendDistribution"] = 0 => paid[v] = 0
        /\ effects[v]["dividendDistribution"] = 1 =>
             /\ paid[v] \in Nat /\ paid[v] + late[v] = raised[v]
             /\ finalized[v] > 0 \/ \E s \in Slots : inv[s] = v /\ pc[s] = "finalizing"
    BY <2>1 DEF Settled, Dividends
  <2>4. \A s \in Slots : inv'[s] # v
    BY <1>2, <2>1, SettlementAssumption
  <2> QED BY <2>2, <2>3, <2>4
<1> QED BY <1>3, <1>4, <1>6, <1>7, <1>8 DEF Settled

(* What Offering does to the variables of Settlement.  The amount of a funding *)
(* is whatever the request asked for.                                        *)
SetNext ==
  \/ \E v \in Invoices : WindowCloses(v) \/ \E a \in Nat : FundCommit(v, a)
  \/ \E s \in Slots, v \in Invoices : FinalizeRead(s, v)
  \/ \E s \in Slots : Proceed(s)
  \/ Crash
  \/ UNCHANGED setVars

LEMMA SettledNext == ASSUME IsFiniteSet(Slots), Settled, SetNext PROVE Settled'
<1>1. CASE UNCHANGED setVars
  BY <1>1 DEF setVars, columns, events, chain, handlers, history, Settled, SetTyped, SetAlone, Ordered,
              StepsInOrder, Dividends, Calm
<1>2. ASSUME NEW s \in Slots, Proceed(s) PROVE Settled'
  BY <1>2, SendCallSettles, SucceedsSettles, RefusedSettles, CallFaultsSettles, FinalizeSettles,
     WriteFailsSettles DEF Proceed
<1> QED BY <1>1, <1>2, WindowClosesSettles, FundCommitSettles, FinalizeReadSettles, CrashSettles DEF SetNext

-----------------------------------------------------------------------------
(* The ledger of events against the chain, where no fault hit the invoice.    *)

Waits(t, v) == inv[t] = v /\ pc[t] = "calling"
Flying(v) == {t \in Slots : Waits(t, v)}

SetLedger == \A v \in Invoices \ faulted :
  confirmed[v] = effects[v] /\ pending[v] = Cardinality(Flying(v))

OthersWait(s) == \A t \in Slots \ {s} : inv'[t] = inv[t] /\ pc'[t] = pc[t]

LEMMA FlyingSame == ASSUME NEW v, \A t \in Slots : Waits(t, v)' <=> Waits(t, v)
                    PROVE  Flying(v)' = Flying(v)
BY DEF Flying

LEMMA LedgerRests ==
  ASSUME SetLedger, UNCHANGED <<pending, confirmed, effects>>, faulted \subseteq faulted',
         \A v \in Invoices, t \in Slots : Waits(t, v)' <=> Waits(t, v)
  PROVE  SetLedger'
<1>1. \A v \in Invoices : Flying(v)' = Flying(v)
  BY FlyingSame
<1> QED BY <1>1 DEF SetLedger

(* Steps that neither send nor settle a call.                                *)
LEMMA RestMirrors ==
  ASSUME SetLedger, Settled, NEW s \in Slots,
         (\E v \in Invoices : FinalizeRead(s, v)) \/ Finalize(s) \/ WriteFails(s)
  PROVE  SetLedger'
<1> USE DEF Settled, SetTyped, Finish
<1>1. pc[s] # "calling" /\ pc'[s] # "calling" /\ OthersWait(s)
  <2> USE DEF OthersWait
  <2>1. CASE \E v \in Invoices : FinalizeRead(s, v)
    BY <2>1 DEF FinalizeRead
  <2>2. CASE Finalize(s) \/ WriteFails(s)
    BY <2>2 DEF Finalize, WriteFails
  <2> QED BY <2>1, <2>2
<1>2. UNCHANGED <<pending, confirmed, effects>> /\ faulted \subseteq faulted'
  BY DEF FinalizeRead, Finalize, WriteFails, NoFault, Fault, history, events, chain
<1>3. \A v \in Invoices, t \in Slots : Waits(t, v)' <=> Waits(t, v)
  BY <1>1 DEF OthersWait, Waits
<1> QED BY <1>2, <1>3, LedgerRests

LEMMA SendCallMirrors ==
  ASSUME IsFiniteSet(Slots), SetLedger, Settled, NEW s \in Slots, SendCall(s) PROVE SetLedger'
<1>1. PICK v \in Invoices : v = inv[s]
  BY DEF SendCall, Settled, SetTyped, SetAlone
<1>2. pc[s] # "calling" /\ pc'[s] = "calling" /\ inv' = inv /\ OthersWait(s)
  BY DEF SendCall, Goto, Settled, SetTyped, OthersWait
<1>3. pending' = [pending EXCEPT ![v] = @ + 1] /\ UNCHANGED <<confirmed, effects, faulted>>
  BY <1>1 DEF SendCall, NoFault, history, chain
<1>4. Cardinality(Flying(v)') = Cardinality(Flying(v)) + 1
  <2>1. Flying(v)' = Flying(v) \cup {s} /\ s \notin Flying(v)
    BY <1>1, <1>2 DEF Flying, Waits, OthersWait
  <2>2. IsFiniteSet(Flying(v))
    BY FS_Subset DEF Flying
  <2> QED BY <2>1, <2>2, FS_AddElement
<1>5. ASSUME NEW w \in Invoices \ {v} PROVE Flying(w)' = Flying(w)
  <2>1. \A t \in Slots : Waits(t, w)' <=> Waits(t, w)
    BY <1>1, <1>2 DEF Waits, OthersWait
  <2> QED BY <2>1, FlyingSame
<1>6. \A w \in Invoices : pending'[w] = IF w = v THEN pending[w] + 1 ELSE pending[w]
  BY <1>3 DEF Settled, SetTyped
<1> QED BY <1>3, <1>4, <1>5, <1>6 DEF SetLedger

(* A handler gets its answer: what the ledger confirms is what was mined.    *)
LEMMA AnswerMirrors ==
  ASSUME IsFiniteSet(Slots), SetLedger, Settled, NEW s \in Slots, Succeeds(s) \/ Refused(s)
  PROVE  SetLedger'
<1>1. PICK v \in Invoices : v = inv[s]
  BY DEF Succeeds, Refused, Settled, SetTyped, SetAlone
<1>2. pc[s] = "calling" /\ pc'[s] # "calling" /\ OthersWait(s)
  BY DEF Succeeds, NextStep, Refused, Stopped, Finish, Settled, SetTyped, OthersWait
<1>3. /\ pending' = [pending EXCEPT ![v] = @ - 1] /\ faulted' = faulted
      /\ \/ UNCHANGED <<confirmed, effects>>
         \/ /\ confirmed' = [confirmed EXCEPT ![v][Steps[step[s]]] = @ + 1]
            /\ effects' = [effects EXCEPT ![v][Steps[step[s]]] = @ + 1]
  BY <1>1 DEF Succeeds, Refused, Confirm, MarkFailed, TakesEffect, NoFault, history, chain
<1>4. Cardinality(Flying(v)') = Cardinality(Flying(v)) - 1
  <2>1. Flying(v)' = Flying(v) \ {s} /\ s \in Flying(v)
    BY <1>1, <1>2 DEF Flying, Waits, OthersWait
  <2>2. IsFiniteSet(Flying(v))
    BY FS_Subset DEF Flying
  <2> QED BY <2>1, <2>2, FS_RemoveElement
<1>5. ASSUME NEW w \in Invoices \ {v} PROVE Flying(w)' = Flying(w)
  <2>1. \A t \in Slots : Waits(t, w)' <=> Waits(t, w)
    BY <1>1, <1>2 DEF Waits, OthersWait
  <2> QED BY <2>1, FlyingSame
<1>6. \A w \in Invoices : pending'[w] = IF w = v THEN pending[w] - 1 ELSE pending[w]
  BY <1>3 DEF Settled, SetTyped
<1>7. ASSUME NEW w \in Invoices, confirmed[w] = effects[w] PROVE confirmed'[w] = effects'[w]
  <2>1. CASE w # v
    <3>1. confirmed'[w] = confirmed[w] /\ effects'[w] = effects[w]
      BY <1>3, <2>1 DEF Settled, SetTyped
    <3> QED BY <1>7, <3>1
  <2>2. CASE w = v
    <3>1. \/ confirmed'[v] = confirmed[v] /\ effects'[v] = effects[v]
          \/ /\ confirmed'[v] = [confirmed[v] EXCEPT ![Steps[step[s]]] = @ + 1]
             /\ effects'[v] = [effects[v] EXCEPT ![Steps[step[s]]] = @ + 1]
      BY <1>3 DEF Settled, SetTyped
    <3> QED BY <1>7, <2>2, <3>1
  <2> QED BY <2>1, <2>2
<1> QED BY <1>3, <1>4, <1>5, <1>6, <1>7 DEF SetLedger

LEMMA FaultMirrors == ASSUME SetLedger, Settled, NEW s \in Slots, CallFaults(s) PROVE SetLedger'
<1>1. PICK v \in Invoices : v = inv[s]
  BY DEF CallFaults, Settled, SetTyped, SetAlone
<1>2. pc[s] = "calling" /\ OthersWait(s) /\ faulted' = faulted \cup {v} /\ pc'[s] # "calling"
  BY <1>1 DEF CallFaults, Stopped, Finish, Fault, Settled, SetTyped, OthersWait
<1>3. /\ pending' = pending \/ pending' = [pending EXCEPT ![v] = @ - 1]
      /\ confirmed' = confirmed
      /\ effects' = effects \/ effects' = [effects EXCEPT ![v][Steps[step[s]]] = @ + 1]
  BY <1>1 DEF CallFaults, MarkFailed, TakesEffect, events, chain
<1>4. ASSUME NEW w \in Invoices \ {v} PROVE Flying(w)' = Flying(w)
  <2>1. \A t \in Slots : Waits(t, w)' <=> Waits(t, w)
    BY <1>1, <1>2 DEF Waits, OthersWait
  <2> QED BY <2>1, FlyingSame
<1>5. \A w \in Invoices \ {v} : pending'[w] = pending[w] /\ effects'[w] = effects[w]
  BY <1>3 DEF Settled, SetTyped
<1> QED BY <1>2, <1>3, <1>4, <1>5 DEF SetLedger

LEMMA CrashMirrors == ASSUME IsFiniteSet(Slots), SetLedger, Settled, Crash PROVE SetLedger'
<1>1. \A v \in Invoices \ faulted' :
        v \notin faulted /\ (\A s \in Slots : inv[s] # v) /\ effects'[v] = effects[v]
  BY CrashEffects
<1>2. UNCHANGED <<pending, confirmed>> /\ \A s \in Slots : pc'[s] # "calling"
  BY DEF Crash, events
<1>3. ASSUME NEW v \in Invoices \ faulted' PROVE Flying(v)' = Flying(v)
  <2>1. \A t \in Slots : Waits(t, v)' <=> Waits(t, v)
    BY <1>1, <1>2 DEF Waits
  <2> QED BY <2>1, FlyingSame
<1> QED BY <1>1, <1>2, <1>3 DEF SetLedger

LEMMA SetLedgerInit == Init => SetLedger
<1> SUFFICES ASSUME Init PROVE SetLedger
  OBVIOUS
<1>1. \A v \in Invoices : Flying(v) = {}
  BY DEF Init, Flying, Waits
<1>2. \A v \in Invoices : Cardinality(Flying(v)) = 0
  BY <1>1, FS_EmptySet
<1> QED BY <1>2 DEF Init, SetLedger

LEMMA SetLedgerNext == ASSUME IsFiniteSet(Slots), Settled, SetLedger, SetNext PROVE SetLedger'
<1>1. CASE \/ UNCHANGED setVars
           \/ \E v \in Invoices : WindowCloses(v) \/ \E a \in Nat : FundCommit(v, a)
  <2>1. UNCHANGED <<events, effects, handlers, faulted>>
    BY <1>1 DEF setVars, history, chain, WindowCloses, FundCommit
  <2>2. \A v \in Invoices, t \in Slots : Waits(t, v)' <=> Waits(t, v)
    BY <2>1 DEF handlers, Waits
  <2> QED BY <2>1, <2>2, LedgerRests DEF events
<1>2. ASSUME NEW s \in Slots, Proceed(s) PROVE SetLedger'
  BY <1>2, RestMirrors, SendCallMirrors, AnswerMirrors, FaultMirrors DEF Proceed
<1> QED BY <1>1, <1>2, RestMirrors, CrashMirrors DEF SetNext

LEMMA SettledComplete == Settled /\ SetLedger => FinalizedIsComplete
BY DEF Settled, Ordered, SetLedger, FinalizedIsComplete, Flying, Waits

LEMMA SettledOnce == Settled => CalmDividendOnce
BY DEF Settled, SetTyped, Dividends, Calm, CalmDividendOnce

-----------------------------------------------------------------------------
(* The three together: every step of Offering is a step of each, or leaves    *)
(* its variables alone.                                                      *)

LEMMA FiniteSame == IsFiniteSet(Slots) => P!IsFiniteSet(Slots) /\ Q!IsFiniteSet(Slots)
BY DEF IsFiniteSet, P!IsFiniteSet, Q!IsFiniteSet

LEMMA StepParts ==
  ASSUME Q!Typed, [OfferingNext]_allVars
  PROVE  /\ [T!Next]_(T!vars) \/ UNCHANGED tokVars
         /\ [M!Next]_(M!vars) \/ UNCHANGED invVars
         /\ SetNext
<1>1. CASE UNCHANGED allVars
  BY <1>1 DEF allVars, SetNext
<1>2. CASE Launching
  BY <1>2 DEF Launching, T!Next, SetNext
<1>3. CASE Investing
  BY <1>3 DEF Investing, FundRead, M!Next, SetNext
<1>4. CASE Funded
  <2>1. PICK s \in Slots : M!FundCommit(s) /\ FundCommit(InvoiceOf[on[s]], asked[s])
    BY <1>4 DEF Funded
  <2>2. on[s] \in Holdings /\ asked[s] \in Nat
    BY <2>1 DEF M!FundCommit, Q!Typed, Q!TypeOK, Q!Alone
  <2>3. InvoiceOf[on[s]] \in Invoices
    BY <2>2, OfferingAssumption
  <2> QED BY <1>4, <2>1, <2>2, <2>3 DEF Funded, M!Next, M!Proceed, SetNext
<1>5. CASE FundFails
  BY <1>5 DEF FundFails, M!Next, M!Proceed, SetNext
<1>6. CASE Settling
  BY <1>6 DEF Settling, SetNext
<1>7. CASE ProcessDies
  BY <1>7 DEF ProcessDies, T!Next, M!Next, SetNext
<1> QED BY <1>1, <1>2, <1>3, <1>4, <1>5, <1>6, <1>7 DEF OfferingNext

LEMMA TokKeeps ==
  ASSUME IsFiniteSet(Slots), P!IInv, [T!Next]_(T!vars) \/ UNCHANGED tokVars
  PROVE  P!IInv'
<1>1. CASE [T!Next]_(T!vars)
  <2>1. [P!Next]_(P!vars)
    BY <1>1, TokSameStep
  <2> QED BY <2>1, FiniteSame, P!NextKeeps, SettlementAssumption, OfferingAssumption
<1>2. CASE UNCHANGED tokVars
  BY <1>2 DEF tokVars, P!IInv, P!Backed, P!TypeOK, P!Alone, P!StagesBacked, P!SymbolsConfirmed,
              P!ColumnsBackedByChain, P!Checked, P!QuietErrorNamesStep, P!KnowsTheChain,
              P!QuietSingleLaunch, P!Quiet, P!Clean
<1> QED BY <1>1, <1>2

LEMMA InvKeeps ==
  ASSUME IsFiniteSet(Slots), Q!Typed, Q!Flags, [M!Next]_(M!vars) \/ UNCHANGED invVars
  PROVE  Q!Typed' /\ Q!Flags'
<1>1. CASE [M!Next]_(M!vars)
  <2>1. [Q!Next]_(Q!vars)
    BY <1>1, MirSameStep
  <2>2. Q!Typed'
    BY <2>1, FiniteSame, Q!TypedNext, SettlementAssumption, OfferingAssumption
  <2>3. Q!Flags'
    BY <2>1, FiniteSame, Q!FlagsNext, SettlementAssumption, OfferingAssumption
  <2> QED BY <2>2, <2>3
<1>2. CASE UNCHANGED invVars
  BY <1>2 DEF invVars, Q!Typed, Q!TypeOK, Q!Alone, Q!Calm, Q!Flags, Q!RestTells, Q!WorkTells,
              Q!Told, Q!Idle
<1> QED BY <1>1, <1>2

ListedTyped == listed \in [Invoices -> BOOLEAN]

(* The id of an STO and the platform wallet's listing stay.                  *)
LEMMA LaunchStays ==
  ASSUME P!IInv, ListedTyped, [T!Next]_(T!vars) \/ UNCHANGED tokVars
  PROVE  /\ ListedTyped'
         /\ \A v \in Invoices : (stoId[v] # 0 => stoId'[v] # 0) /\ (listed[v] => listed'[v])
<1>1. stoId \in [Invoices -> Nat] /\ tokInv \in [Slots -> Invoices \cup {None}]
  BY DEF P!IInv, P!Backed, P!TypeOK
<1>2. \A s \in Slots : tokPc[s] = "offered" => tokSto[s] \in Nat /\ tokSto[s] > 0
  BY DEF P!IInv, P!Backed, P!TypeOK, P!StagesBacked
<1>3. CASE UNCHANGED tokVars \/ UNCHANGED T!vars
  BY <1>3 DEF tokVars, T!vars, T!columns, T!chain, ListedTyped
<1>4. CASE T!Crash
  BY <1>4 DEF T!Crash, T!columns, ListedTyped
<1>5. ASSUME NEW s \in Slots, T!Proceed(s)
      PROVE  /\ ListedTyped'
             /\ \A v \in Invoices : (stoId[v] # 0 => stoId'[v] # 0) /\ (listed[v] => listed'[v])
  <2>1. \A v \in Invoices : stoId[v] # 0 => stoId'[v] # 0
    <3>1. stoId' = stoId \/ T!PersistSto(s)
      BY <1>5 DEF T!Proceed, T!AcceptCommit, T!SendCall, T!Succeeds, T!Refused, T!Lags, T!CallFaults,
                  T!NoStoId, T!PersistSymbol, T!RecordError, T!WriteFails, T!columns
    <3> QED BY <1>1, <1>2, <3>1 DEF T!PersistSto
  <2>2. ListedTyped' /\ \A v \in Invoices : listed[v] => listed'[v]
    <3>1. listed' = listed \/ T!TakesEffect(s)
      BY <1>5 DEF T!Proceed, T!AcceptCommit, T!SendCall, T!Succeeds, T!Refused, T!Lags, T!CallFaults,
                  T!NoStoId, T!PersistSymbol, T!PersistSto, T!RecordError, T!WriteFails, T!chain
    <3> QED BY <3>1 DEF T!TakesEffect, ListedTyped
  <2> QED BY <2>1, <2>2
<1>6. ASSUME NEW s \in Slots, NEW v \in Invoices, T!ReviewRead(s, v) \/ T!RetryRead(s, v)
      PROVE  UNCHANGED <<stoId, listed>>
  BY <1>6 DEF T!ReviewRead, T!RetryRead, T!columns, T!chain
<1> QED BY <1>3, <1>4, <1>5, <1>6 DEF T!Next, ListedTyped

-----------------------------------------------------------------------------
(* Nothing is told of an invoice before its STO's id is persisted, which a    *)
(* handler that is about to tell has read.                                   *)

Telling == {"ready", "calling", "lagging", "invested", "failed"}

InvTouched ==
  /\ saw \in [Slots -> BOOLEAN]
  /\ \A s \in Slots : invPc[s] \in Telling \/ (invPc[s] = "funding" /\ saw[s]) =>
       stoId[InvoiceOf[on[s]]] # 0
  /\ \A v \in Invoices : stoId[v] = 0 => calls[v] = 0 /\ invPending[v] = 0

SetTouched ==
  /\ \A s \in Slots : pc[s] # "idle" => stoId[inv[s]] # 0
  /\ \A v \in Invoices : stoId[v] = 0 => pending[v] = 0 /\ effects[v]["closeOffer"] = 0

(* A step of Mirroring that leaves brickkenStoId alone: the handler in s goes *)
(* on, and only its invoice's events and investments change.                 *)
LEMMA InvProceedTouches ==
  ASSUME Q!Typed, InvTouched, UNCHANGED stoId, NEW s \in Slots, M!Proceed(s)
  PROVE  InvTouched'
<1> USE DEF Q!Typed, Q!TypeOK, Q!Alone, M!Goto, M!Finish, Telling
<1>1. PICK h \in Holdings : h = on[s]
  BY DEF M!Proceed, M!FundCommit, M!Skip, M!SendCall, M!Succeeds, M!Refused, M!Lags, M!CallFaults,
         M!ClearFlag, M!RecordFailure, M!WriteFails
<1>2. InvoiceOf[h] \in Invoices
  BY OfferingAssumption
<1>3. /\ \A t \in Slots \ {s} : invPc'[t] = invPc[t] /\ on'[t] = on[t] /\ saw'[t] = saw[t]
      /\ saw' \in [Slots -> BOOLEAN]
  BY DEF InvTouched, M!Proceed, M!FundCommit, M!Skip, M!SendCall, M!Succeeds, M!Refused, M!Lags,
         M!CallFaults, M!ClearFlag, M!RecordFailure, M!WriteFails
<1>4. \/ invPc'[s] = "idle" \/ invPc'[s] = "skipping"
      \/ /\ on'[s] = on[s] /\ invPc'[s] # "funding"
         /\ invPc[s] \in Telling \/ (invPc[s] = "funding" /\ saw[s])
  <2>1. CASE M!FundCommit(s) \/ M!Skip(s) \/ M!SendCall(s) \/ M!Succeeds(s) \/ M!Refused(s)
    BY <2>1 DEF M!FundCommit, M!GateOpen, M!Skip, M!SendCall, M!Succeeds, M!Refused
  <2>2. CASE M!Lags(s) \/ M!CallFaults(s) \/ M!ClearFlag(s) \/ M!RecordFailure(s)
    BY <2>2 DEF M!Lags, M!CallFaults, M!ClearFlag, M!RecordFailure
  <2>3. CASE M!WriteFails(s)
    BY <2>3 DEF M!WriteFails, M!Caught
  <2> QED BY <2>1, <2>2, <2>3 DEF M!Proceed
<1>5. \A v \in Invoices \ {InvoiceOf[h]} : calls'[v] = calls[v] /\ invPending'[v] = invPending[v]
  BY <1>1, <1>2 DEF M!Proceed, M!FundCommit, M!Skip, M!SendCall, M!Succeeds, M!Refused, M!Lags,
     M!CallFaults, M!ClearFlag, M!RecordFailure, M!WriteFails, M!TakesEffect, M!Confirm,
     M!MarkFailed, M!events, M!chain
<1>6. \/ UNCHANGED <<calls, invPending>>
      \/ invPc[s] \in Telling
  BY DEF M!Proceed, M!FundCommit, M!Skip, M!SendCall, M!Succeeds, M!Refused, M!Lags,
     M!CallFaults, M!ClearFlag, M!RecordFailure, M!WriteFails, M!events, M!chain
<1>7. ASSUME NEW t \in Slots, invPc'[t] \in Telling \/ (invPc'[t] = "funding" /\ saw'[t])
      PROVE  stoId[InvoiceOf[on'[t]]] # 0
  <2>1. CASE t # s
    BY <1>3, <1>7, <2>1 DEF InvTouched
  <2>2. CASE t = s
    BY <1>4, <1>7, <2>2 DEF InvTouched
  <2> QED BY <2>1, <2>2
<1>8. ASSUME NEW v \in Invoices, stoId[v] = 0 PROVE calls'[v] = 0 /\ invPending'[v] = 0
  <2>1. CASE v # InvoiceOf[h]
    BY <1>5, <1>8, <2>1 DEF InvTouched
  <2>2. CASE v = InvoiceOf[h]
    <3>1. UNCHANGED <<calls, invPending>>
      BY <1>1, <1>6, <1>8, <2>2 DEF InvTouched
    <3> QED BY <1>8, <3>1 DEF InvTouched
  <2> QED BY <2>1, <2>2
<1> QED BY <1>3, <1>7, <1>8 DEF InvTouched

LEMMA InvStartTouches ==
  ASSUME Q!Typed, InvTouched, UNCHANGED stoId, NEW s \in Slots, NEW h \in Holdings,
         M!RetryRead(s, h) \/ \E a \in Amounts : M!FundRead(s, h, a)
  PROVE  InvTouched'
<1> USE DEF Q!Typed, Q!TypeOK, Q!Alone, M!Start, Telling
<1>1. /\ \A t \in Slots \ {s} : invPc'[t] = invPc[t] /\ on'[t] = on[t] /\ saw'[t] = saw[t]
      /\ saw' \in [Slots -> BOOLEAN]
  <2>1. saw' = [saw EXCEPT ![s] = TRUE] \/ saw' = [saw EXCEPT ![s] = (stoId[InvoiceOf[h]] # 0)]
    BY OfferingAssumption DEF M!RetryRead, M!FundRead
  <2> QED BY <2>1 DEF InvTouched, M!RetryRead, M!FundRead
<1>2. InvoiceOf[h] \in Invoices /\ on'[s] = h
  BY OfferingAssumption DEF M!RetryRead, M!FundRead
<1>3. invPc'[s] \in Telling \/ (invPc'[s] = "funding" /\ saw'[s]) => stoId[InvoiceOf[h]] # 0
  <2>1. CASE M!RetryRead(s, h)
    BY <1>2, <2>1 DEF M!RetryRead, M!Retriable
  <2>2. CASE \E a \in Amounts : M!FundRead(s, h, a)
    <3>1. invPc'[s] = "funding" /\ saw'[s] = (stoId[InvoiceOf[h]] # 0)
      BY <1>2, <2>2 DEF M!FundRead, InvTouched
    <3> QED BY <3>1
  <2> QED BY <2>1, <2>2
<1>4. UNCHANGED <<calls, invPending>>
  BY DEF M!RetryRead, M!FundRead, M!events, M!chain
<1> QED BY <1>1, <1>2, <1>3, <1>4 DEF InvTouched

(* No call of an invoice is on its way: a crash tells nothing of it.          *)
LEMMA InvCrashTouches ==
  ASSUME IsFiniteSet(Slots), Q!Typed, InvTouched, UNCHANGED stoId, M!Crash
  PROVE  InvTouched'
<1>1. PICK mined \in SUBSET {s \in Slots : invPc[s] = "calling"} :
        calls' = [v \in Invoices |-> calls[v] + M!Cardinality({s \in mined : InvoiceOf[on[s]] = v})]
  BY DEF M!Crash
<1>2. ASSUME NEW v \in Invoices, stoId[v] = 0 PROVE calls'[v] = 0 /\ invPending'[v] = 0
  <2>1. {s \in mined : InvoiceOf[on[s]] = v} = {}
    BY <1>1, <1>2 DEF InvTouched, Telling
  <2>2. M!Cardinality({}) = 0
    BY FS_EmptySet DEF M!Cardinality, Cardinality
  <2>3. calls'[v] = calls[v] + 0
    BY <1>1, <2>1, <2>2
  <2> QED BY <1>2, <2>3 DEF InvTouched, M!Crash, M!events
<1>3. (\A s \in Slots : invPc'[s] = "idle") /\ saw' \in [Slots -> BOOLEAN]
  BY DEF M!Crash
<1> QED BY <1>2, <1>3 DEF InvTouched, Telling

LEMMA SetProceedTouches ==
  ASSUME Settled, SetTouched, UNCHANGED stoId, NEW s \in Slots, Proceed(s)
  PROVE  SetTouched'
<1> USE DEF Settled, SetTyped, SetAlone, Goto, Finish, NextStep, Stopped
<1>1. PICK v \in Invoices : v = inv[s] /\ pc[s] # "idle"
  BY DEF Proceed, SendCall, Succeeds, Refused, CallFaults, Finalize, WriteFails
<1>2. \A t \in Slots : pc'[t] # "idle" => pc[t] # "idle" /\ inv'[t] = inv[t]
  BY DEF Proceed, SendCall, Succeeds, Refused, CallFaults, Finalize, WriteFails
<1>3. \A w \in Invoices \ {v} : pending'[w] = pending[w] /\ effects'[w] = effects[w]
  BY <1>1 DEF Proceed, SendCall, Succeeds, Refused, CallFaults, Finalize, WriteFails, TakesEffect,
              Confirm, MarkFailed, events, chain
<1> QED BY <1>1, <1>2, <1>3 DEF SetTouched

LEMMA SetCrashTouches ==
  ASSUME IsFiniteSet(Slots), Settled, SetTouched, UNCHANGED stoId, Crash
  PROVE  SetTouched'
<1>1. \A v \in Invoices : stoId[v] = 0 => effects'[v]["closeOffer"] = 0
  <2> SUFFICES ASSUME NEW v \in Invoices, stoId[v] = 0 PROVE effects'[v]["closeOffer"] = 0
    OBVIOUS
  <2>1. /\ effects' \in [Invoices -> [Actions -> Nat]]
        /\ effects'[v]["closeOffer"] > 0 =>
             effects[v]["closeOffer"] > 0 \/ \E s \in Slots : inv[s] = v /\ pc[s] # "idle"
    BY CrashEffects, StepNames
  <2>2. effects'[v]["closeOffer"] \in Nat
    BY <2>1, StepNames
  <2> QED BY <2>1, <2>2 DEF SetTouched
<1>2. \A s \in Slots : pc'[s] = "idle"
  BY DEF Crash
<1>3. UNCHANGED pending
  BY DEF Crash, events
<1> QED BY <1>1, <1>2, <1>3 DEF SetTouched

LEMMA TouchedNext ==
  ASSUME IsFiniteSet(Slots), P!IInv, ListedTyped, Q!Typed, Settled, InvTouched, SetTouched,
         [OfferingNext]_allVars
  PROVE  InvTouched' /\ SetTouched'
<1>1. ASSUME UNCHANGED invVars, \A v \in Invoices : stoId[v] # 0 => stoId'[v] # 0
      PROVE  InvTouched'
  <2>1. \A s \in Slots : invPc[s] \in Telling \/ invPc[s] = "funding" => InvoiceOf[on[s]] \in Invoices
    BY OfferingAssumption DEF Q!Typed, Q!TypeOK, Q!Alone, Telling
  <2> QED BY <1>1, <2>1 DEF invVars, InvTouched
<1>2. ASSUME UNCHANGED setVars, \A v \in Invoices : stoId[v] # 0 => stoId'[v] # 0
      PROVE  SetTouched'
  BY <1>2 DEF setVars, events, chain, handlers, SetTouched, Settled, SetTyped, SetAlone
<1>3. CASE Launching \/ UNCHANGED allVars
  <2>1. \A v \in Invoices : stoId[v] # 0 => stoId'[v] # 0
    BY <1>3, LaunchStays DEF Launching, T!Next, allVars
  <2> QED BY <1>1, <1>2, <1>3, <2>1 DEF Launching, allVars
<1>4. CASE Investing
  <2>1. UNCHANGED stoId /\ UNCHANGED setVars
    BY <1>4 DEF Investing, tokVars
  <2> QED BY <1>2, <1>4, <2>1, InvProceedTouches, InvStartTouches DEF Investing, FundRead
<1>5. CASE Funded
  <2>1. PICK s \in Slots : M!FundCommit(s) /\ FundCommit(InvoiceOf[on[s]], asked[s])
    BY <1>5 DEF Funded
  <2>2. UNCHANGED stoId
    BY <1>5 DEF Funded, tokVars
  <2>3. InvTouched'
    BY <2>1, <2>2, InvProceedTouches DEF M!Proceed
  <2>4. SetTouched'
    BY <2>1, <2>2 DEF FundCommit, events, chain, handlers, SetTouched
  <2> QED BY <2>3, <2>4
<1>6. CASE FundFails
  <2>1. UNCHANGED stoId /\ UNCHANGED setVars
    BY <1>6 DEF FundFails, tokVars
  <2> QED BY <1>2, <1>6, <2>1, InvProceedTouches DEF FundFails, M!Proceed
<1>7. CASE Settling
  <2>1. UNCHANGED stoId /\ UNCHANGED invVars
    BY <1>7 DEF Settling, tokVars
  <2>2. ASSUME NEW v \in Invoices, WindowCloses(v) PROVE SetTouched'
    BY <2>1, <2>2 DEF WindowCloses, events, chain, handlers, SetTouched
  <2>3. ASSUME NEW s \in Slots, NEW v \in Invoices, stoId[v] # 0, FinalizeRead(s, v) PROVE SetTouched'
    BY <2>1, <2>3 DEF FinalizeRead, events, chain, SetTouched, Settled, SetTyped
  <2> QED BY <1>1, <1>7, <2>1, <2>2, <2>3, SetProceedTouches DEF Settling
<1>8. CASE ProcessDies
  <2>1. UNCHANGED stoId
    BY <1>8 DEF ProcessDies, T!Crash, T!columns
  <2> QED BY <1>8, <2>1, InvCrashTouches, SetCrashTouches DEF ProcessDies
<1> QED BY <1>3, <1>4, <1>5, <1>6, <1>7, <1>8 DEF OfferingNext

-----------------------------------------------------------------------------
(* A holding of an invoice whose platform wallet is not listed: no answer of   *)
(* Brickken clears its flag, and until one raises it the request is at work.  *)

Untelling == {"skipping", "ready", "calling", "lagging", "failed"}

Shows == \A h \in M!Calm : ~listed[InvoiceOf[h]] =>
  /\ \A s \in Slots : on[s] = h => invPc[s] # "invested"
  /\ amount[h] > 0 => flag[h] # "none" \/ \E s \in Slots : on[s] = h /\ invPc[s] \in Untelling

LEMMA ProceedShows ==
  ASSUME Q!Typed, Shows, \A v \in Invoices : listed[v] => listed'[v], NEW s \in Slots, M!Proceed(s),
         M!Succeeds(s) => listed[InvoiceOf[on[s]]]
  PROVE  Shows'
<1> USE DEF Q!Typed, Q!TypeOK, Q!Alone, M!Goto, M!Finish, M!NoFault, M!history, Untelling
<1>1. PICK g \in Holdings : g = on[s]
  BY DEF M!Proceed, M!FundCommit, M!Skip, M!SendCall, M!Succeeds, M!Refused, M!Lags, M!CallFaults,
         M!ClearFlag, M!RecordFailure, M!WriteFails
<1>2. \A t \in Slots \ {s} : invPc'[t] = invPc[t] /\ on'[t] = on[t]
  BY DEF M!Proceed, M!FundCommit, M!Skip, M!SendCall, M!Succeeds, M!Refused, M!Lags, M!CallFaults,
         M!ClearFlag, M!RecordFailure, M!WriteFails
<1>3. \A h \in Holdings \ {g} : amount'[h] = amount[h] /\ flag'[h] = flag[h]
  BY <1>1 DEF M!Proceed, M!FundCommit, M!Skip, M!SendCall, M!Succeeds, M!Refused, M!Lags,
              M!CallFaults, M!ClearFlag, M!RecordFailure, M!WriteFails, M!columns
<1>4. invContended' = invContended /\ invFaulted \subseteq invFaulted'
  BY DEF M!Proceed, M!FundCommit, M!Skip, M!SendCall, M!Succeeds, M!Refused, M!Lags, M!CallFaults,
         M!ClearFlag, M!RecordFailure, M!WriteFails, M!Fault
<1>5. \A h \in M!Calm' : /\ h \in Holdings /\ h \in M!Calm /\ InvoiceOf[h] \in Invoices
                         /\ ~listed'[InvoiceOf[h]] => ~listed[InvoiceOf[h]]
  BY <1>4, OfferingAssumption DEF M!Calm
<1>6. on'[s] = g \/ on'[s] = None
  BY <1>1 DEF M!Proceed, M!FundCommit, M!Skip, M!SendCall, M!Succeeds, M!Refused, M!Lags,
              M!CallFaults, M!ClearFlag, M!RecordFailure, M!WriteFails
<1>7. None \notin Holdings
  BY OfferingAssumption
<1>8. ASSUME NEW h \in M!Calm', h # g, ~listed'[InvoiceOf[h]]
      PROVE  /\ \A t \in Slots : on'[t] = h => invPc'[t] # "invested"
             /\ amount'[h] > 0 =>
                  flag'[h] # "none" \/ \E t \in Slots : on'[t] = h /\ invPc'[t] \in Untelling
  <2>1. on[s] # h /\ on'[s] # h
    BY <1>1, <1>5, <1>6, <1>7, <1>8
  <2>2. /\ \A t \in Slots : on[t] = h => invPc[t] # "invested"
        /\ amount[h] > 0 => flag[h] # "none" \/ \E t \in Slots : on[t] = h /\ invPc[t] \in Untelling
    BY <1>5, <1>8 DEF Shows
  <2>3. amount'[h] = amount[h] /\ flag'[h] = flag[h]
    BY <1>3, <1>5, <1>8
  <2> HIDE DEF Untelling
  <2> QED BY <1>2, <2>1, <2>2, <2>3
<1>9. ASSUME g \in M!Calm', ~listed'[InvoiceOf[g]]
      PROVE  /\ \A t \in Slots : on'[t] = g => invPc'[t] # "invested"
             /\ amount'[g] > 0 =>
                  flag'[g] # "none" \/ \E t \in Slots : on'[t] = g /\ invPc'[t] \in Untelling
  <2>1. g \in M!Calm /\ ~listed[InvoiceOf[g]] /\ g \notin invFaulted'
    BY <1>5, <1>9 DEF M!Calm
  <2>2. \A t \in Slots \ {s} : on[t] # g
    BY <1>1, <2>1 DEF M!Calm, Q!Calm
  <2>3. ~M!CallFaults(s) /\ ~M!WriteFails(s) /\ ~M!Succeeds(s)
    BY <1>1, <2>1 DEF M!CallFaults, M!WriteFails, M!Fault
  <2>4. invPc[s] # "invested"
    BY <1>1, <2>1 DEF Shows
  <2>5. CASE M!FundCommit(s) \/ M!SendCall(s) \/ M!Refused(s) \/ M!Lags(s)
    <3>1. on'[s] = g /\ invPc'[s] \in Untelling
      BY <1>1, <2>5 DEF M!FundCommit, M!SendCall, M!Refused, M!Lags
    <3> QED BY <1>2, <2>2, <3>1
  <2>6. CASE M!Skip(s) \/ M!RecordFailure(s)
    <3>1. on'[s] = None /\ flag'[g] # "none"
      BY <1>1, <2>6 DEF M!Skip, M!RecordFailure, M!Raised
    <3> QED BY <1>2, <1>7, <2>2, <3>1
  <2> QED BY <2>3, <2>4, <2>5, <2>6 DEF M!Proceed, M!ClearFlag
<1> QED BY <1>8, <1>9 DEF Shows

LEMMA StartShows ==
  ASSUME Q!Typed, Shows, UNCHANGED listed, NEW s \in Slots, NEW h \in Holdings,
         M!RetryRead(s, h) \/ \E a \in Amounts : M!FundRead(s, h, a)
  PROVE  Shows'
<1> USE DEF Q!Typed, Q!TypeOK, Q!Alone, M!Start
<1>1. UNCHANGED <<amount, flag, invFaulted>> /\ M!Calm' \subseteq M!Calm
  BY DEF M!RetryRead, M!FundRead, M!columns, M!Calm
<1>2. /\ invPc[s] = "idle" /\ on[s] = None /\ on'[s] = h
      /\ invPc'[s] \in {"ready", "funding"}
      /\ \A t \in Slots \ {s} : invPc'[t] = invPc[t] /\ on'[t] = on[t]
  BY DEF M!RetryRead, M!FundRead
<1>3. None \notin Holdings
  BY OfferingAssumption
<1> SUFFICES ASSUME NEW g \in M!Calm', ~listed[InvoiceOf[g]]
             PROVE  /\ \A t \in Slots : on'[t] = g => invPc'[t] # "invested"
                    /\ amount[g] > 0 =>
                         flag[g] # "none" \/ \E t \in Slots : on'[t] = g /\ invPc'[t] \in Untelling
  BY <1>1 DEF Shows
<1>4. g \in M!Calm /\ g # None
  BY <1>1, <1>3 DEF M!Calm
<1>5. /\ \A t \in Slots : on[t] = g => invPc[t] # "invested"
      /\ amount[g] > 0 => flag[g] # "none" \/ \E t \in Slots : on[t] = g /\ invPc[t] \in Untelling
  BY <1>4 DEF Shows
<1> QED BY <1>2, <1>4, <1>5

LEMMA ShowsNext ==
  ASSUME P!IInv, ListedTyped, Q!Typed, InvTouched, Shows, [OfferingNext]_allVars
  PROVE  Shows'
<1>1. CASE UNCHANGED invVars
  <2>1. \A v \in Invoices : listed[v] => listed'[v]
    BY StepParts, LaunchStays
  <2>2. M!Calm' = M!Calm /\ \A h \in M!Calm : InvoiceOf[h] \in Invoices
    BY <1>1, OfferingAssumption DEF M!Calm, invVars
  <2> QED BY <1>1, <2>1, <2>2 DEF invVars, Shows
<1>2. CASE Investing
  <2>1. UNCHANGED listed
    BY <1>2 DEF Investing, tokVars
  <2>2. ASSUME NEW s \in Slots, M!Proceed(s), M!Succeeds(s) PROVE listed[InvoiceOf[on[s]]]
    <3>1. on[s] \in Holdings
      BY <2>2 DEF M!Succeeds, Q!Typed, Q!TypeOK, Q!Alone
    <3>2. InvoiceOf[on[s]] \in Invoices
      BY <3>1, OfferingAssumption
    <3>3. calls'[InvoiceOf[on[s]]] # calls[InvoiceOf[on[s]]]
      BY <2>2, <3>2 DEF M!Succeeds, M!TakesEffect, Q!Typed, Q!TypeOK
    <3> QED BY <1>2, <3>2, <3>3 DEF Investing, InvestsOnlyListed
  <2> QED BY <1>2, <2>1, <2>2, ProceedShows, StartShows DEF Investing, FundRead
<1>3. CASE Funded \/ FundFails
  <2>1. UNCHANGED listed
    BY <1>3 DEF Funded, FundFails, tokVars
  <2>2. PICK s \in Slots : invPc[s] = "funding" /\ M!Proceed(s)
    BY <1>3 DEF Funded, FundFails, M!FundCommit, M!Proceed
  <2> QED BY <2>1, <2>2, ProceedShows DEF M!Succeeds
<1>4. CASE ProcessDies
  <2>1. \A v \in Invoices : listed[v] => listed'[v]
    BY StepParts, LaunchStays
  <2>2. /\ UNCHANGED <<amount, flag, invContended>>
        /\ invFaulted' = invFaulted \cup ({on[s] : s \in Slots} \ {None})
        /\ \A s \in Slots : invPc'[s] = "idle"
    BY <1>4 DEF ProcessDies, M!Crash, M!columns
  <2>3. \A h \in M!Calm' : /\ h \in M!Calm /\ (\A s \in Slots : on[s] # h)
                           /\ InvoiceOf[h] \in Invoices
    BY <2>2, OfferingAssumption DEF M!Calm
  <2> QED BY <2>1, <2>2, <2>3 DEF Shows
<1> QED BY <1>1, <1>2, <1>3, <1>4 DEF OfferingNext, Launching, Settling, allVars

-----------------------------------------------------------------------------
(* fundedAmount is the sum of the invoice's holdings: a funding's commit       *)
(* raises both, and nothing else changes either.                             *)

RaisedIsHeld == \A v \in Invoices : raised[v] = SumFunctionOnSet(amount, HoldingsOf(v))

LEMMA RaisedRests == ASSUME RaisedIsHeld, UNCHANGED <<amount, raised>> PROVE RaisedIsHeld'
BY DEF RaisedIsHeld

LEMMA FundedHolds ==
  ASSUME IsFiniteSet(Holdings), Q!Typed, Settled, RaisedIsHeld, NEW s \in Slots,
         M!FundCommit(s), FundCommit(InvoiceOf[on[s]], asked[s])
  PROVE  RaisedIsHeld'
<1>1. PICK h \in Holdings : h = on[s]
  BY DEF M!FundCommit, Q!Typed, Q!TypeOK, Q!Alone
<1>2. amount' = [amount EXCEPT ![h] = @ + asked[s]] /\ amount \in [Holdings -> Nat] /\ asked[s] \in Nat
  BY <1>1 DEF M!FundCommit, Q!Typed, Q!TypeOK
<1>3. raised' = [raised EXCEPT ![InvoiceOf[h]] = @ + asked[s]] /\ raised \in [Invoices -> Nat]
  BY <1>1 DEF FundCommit, Settled, SetTyped
<1> SUFFICES ASSUME NEW v \in Invoices PROVE raised'[v] = SumFunctionOnSet(amount', HoldingsOf(v))
  BY DEF RaisedIsHeld, HoldingsOf
<1>4. IsFiniteSet(HoldingsOf(v)) /\ HoldingsOf(v) \subseteq Holdings
  BY FS_Subset DEF HoldingsOf
<1>5. raised[v] = SumFunctionOnSet(amount, HoldingsOf(v)) /\ raised[v] \in Nat
  BY <1>3 DEF RaisedIsHeld
<1>6. CASE InvoiceOf[h] = v
  <2>1. h \in HoldingsOf(v)
    BY <1>6 DEF HoldingsOf
  <2>2. /\ \A x \in HoldingsOf(v) : amount[x] \in Int /\ amount'[x] \in Int
        /\ \A y \in HoldingsOf(v) \ {h} : amount'[y] = amount[y]
    BY <1>2, <1>4
  <2>3. SumFunctionOnSet(amount', HoldingsOf(v))
          = SumFunctionOnSet(amount, HoldingsOf(v)) + amount'[h] - amount[h]
    <3> HIDE DEF HoldingsOf
    <3> QED BY <1>4, <2>1, <2>2, SumAdds
  <2>4. amount'[h] = amount[h] + asked[s] /\ amount[h] \in Nat /\ raised'[v] = raised[v] + asked[s]
    BY <1>2, <1>3, <1>6
  <2> QED BY <1>2, <1>5, <2>3, <2>4
<1>7. CASE InvoiceOf[h] # v
  <2>1. \A x \in HoldingsOf(v) : amount[x] = amount'[x]
    BY <1>2, <1>4, <1>7 DEF HoldingsOf
  <2>2. SumFunctionOnSet(amount, HoldingsOf(v)) = SumFunctionOnSet(amount', HoldingsOf(v))
    BY <1>4, <2>1, SumSame
  <2>3. raised'[v] = raised[v]
    BY <1>3, <1>7
  <2> QED BY <1>5, <2>2, <2>3
<1> QED BY <1>6, <1>7

LEMMA RaisedNext ==
  ASSUME IsFiniteSet(Holdings), Q!Typed, Settled, RaisedIsHeld, [OfferingNext]_allVars
  PROVE  RaisedIsHeld'
<1>1. CASE Funded
  BY <1>1, FundedHolds DEF Funded
<1>2. CASE UNCHANGED allVars \/ Launching
  BY <1>2, RaisedRests DEF allVars, Launching, invVars, setVars, columns
<1>3. CASE Investing \/ FundFails
  <2>1. UNCHANGED raised
    BY <1>3 DEF Investing, FundFails, setVars, columns
  <2>2. UNCHANGED amount
    BY <1>3 DEF Investing, FundFails, FundRead, M!FundRead, M!RetryRead, M!Proceed, M!FundCommit,
       M!Skip, M!SendCall, M!Succeeds, M!Refused, M!Lags, M!CallFaults, M!ClearFlag,
       M!RecordFailure, M!WriteFails, M!columns
  <2> QED BY <2>1, <2>2, RaisedRests
<1>4. CASE Settling
  <2>1. UNCHANGED amount
    BY <1>4 DEF Settling, invVars
  <2>2. UNCHANGED raised
    BY <1>4 DEF Settling, WindowCloses, FinalizeRead, Proceed, SendCall, Succeeds, Refused,
       CallFaults, Finalize, WriteFails, columns
  <2> QED BY <2>1, <2>2, RaisedRests
<1>5. CASE ProcessDies
  BY <1>5, RaisedRests DEF ProcessDies, M!Crash, M!columns, Crash, columns
<1> QED BY <1>1, <1>2, <1>3, <1>4, <1>5 DEF OfferingNext

LEMMA RaisedInit == ASSUME IsFiniteSet(Holdings), OfferingInit PROVE RaisedIsHeld
<1> SUFFICES ASSUME NEW v \in Invoices PROVE SumFunctionOnSet(amount, HoldingsOf(v)) = 0
  BY DEF OfferingInit, Init, RaisedIsHeld
<1> DEFINE D == {A \in SUBSET HoldingsOf(v) : SumFunctionOnSet(amount, A) = 0}
<1>1. IsFiniteSet(HoldingsOf(v)) /\ HoldingsOf(v) \subseteq Holdings
  BY FS_Subset DEF HoldingsOf
<1>2. ASSUME NEW A \in SUBSET HoldingsOf(v), \A U \in SUBSET A : U # A => U \in D
      PROVE  A \in D
  <2>1. IsFiniteSet(A)
    BY <1>1, FS_Subset
  <2>2. A # {} => amount[Pick(A)] = 0 /\ A \ {Pick(A)} \in D
    <3>1. A # {} => Pick(A) \in A /\ Pick(A) \in Holdings
      BY <1>1, PickIn
    <3>2. A # {} => A \ {Pick(A)} \in D
      BY <1>2, <3>1
    <3> QED BY <3>1, <3>2 DEF OfferingInit, M!Init
  <2> QED BY <2>1, <2>2, SumUnfolds
<1>3. \A A \in SUBSET HoldingsOf(v) : A \in D
  <2> HIDE DEF D
  <2> QED BY <1>1, <1>2, SubsetInduction
<1> QED BY <1>3

-----------------------------------------------------------------------------
OInv ==
  /\ P!IInv /\ ListedTyped
  /\ Q!Typed /\ Q!Flags
  /\ Settled /\ SetLedger
  /\ InvTouched /\ SetTouched
  /\ Shows

LEMMA OInvInit == ASSUME IsFiniteSet(Slots), OfferingInit PROVE OInv
<1>1. Init /\ P!Init /\ Q!Init
  BY TokSame, MirSame DEF OfferingInit
<1>2. P!IInv
  BY <1>1, P!InitHolds, SettlementAssumption, OfferingAssumption
<1>3. Q!Typed /\ Q!Flags
  BY <1>1, Q!TypedInit, Q!FlagsInit, SettlementAssumption, OfferingAssumption
<1>4. Settled /\ SetLedger
  BY <1>1, SettledInit, SetLedgerInit
<1>5. ListedTyped /\ InvTouched
  BY DEF OfferingInit, T!Init, M!Init, ListedTyped, InvTouched, Telling
<1>6. SetTouched
  BY <1>1, StepNames DEF Init, SetTouched
<1>7. Shows
  BY DEF OfferingInit, M!Init, M!Calm, Shows
<1> QED BY <1>2, <1>3, <1>4, <1>5, <1>6, <1>7 DEF OInv

LEMMA OInvNext == ASSUME IsFiniteSet(Slots), OInv, [OfferingNext]_allVars PROVE OInv'
<1>1. /\ [T!Next]_(T!vars) \/ UNCHANGED tokVars
      /\ [M!Next]_(M!vars) \/ UNCHANGED invVars
      /\ SetNext
  BY StepParts DEF OInv
<1>2. P!IInv' /\ ListedTyped'
  BY <1>1, TokKeeps, LaunchStays DEF OInv
<1>3. Q!Typed' /\ Q!Flags'
  BY <1>1, InvKeeps DEF OInv
<1>4. Settled' /\ SetLedger'
  BY <1>1, SettledNext, SetLedgerNext DEF OInv
<1>5. InvTouched' /\ SetTouched' /\ Shows'
  BY TouchedNext, ShowsNext DEF OInv
<1> QED BY <1>2, <1>3, <1>4, <1>5 DEF OInv

LEMMA Invariant == ASSUME IsFiniteSet(Slots) PROVE OfferingSpec => []OInv
<1> QED BY OInvInit, OInvNext, PTL DEF OfferingSpec

(* CallsOrdered: Brickken never claims the tokens of an offer that it did not  *)
(* close, nor distributes what was not claimed, and does nothing before the  *)
(* window is over, whatever requests overlap, fail or are run again.         *)
THEOREM CallsOrdered == ASSUME IsFiniteSet(Slots) PROVE OfferingSpec => []StepsInOrder
<1>1. OInv => StepsInOrder
  BY DEF OInv, Settled
<1> QED BY <1>1, Invariant, PTL

(* FinalizedWhenDone: an invoice is marked finalized only when the chain and   *)
(* the ledger have all three calls, and without a fault the ledger has every  *)
(* effect and nothing else.                                                  *)
THEOREM FinalizedWhenDone == ASSUME IsFiniteSet(Slots) PROVE OfferingSpec => []FinalizedIsComplete
<1>1. OInv => FinalizedIsComplete
  BY SettledComplete DEF OInv
<1> QED BY <1>1, Invariant, PTL

(* LaunchedFirst: across crashes, lost answers and retries of all three parts, *)
(* Brickken is told of investments and asked to close only for an STO that it *)
(* launched, of a token that it minted.                                      *)
THEOREM LaunchedFirst == ASSUME IsFiniteSet(Slots) PROVE OfferingSpec => []OnlyLaunchedTouched
<1>1. OInv => OnlyLaunchedTouched
  <2> SUFFICES ASSUME OInv, NEW v \in Invoices,
                      calls[v] > 0 \/ invPending[v] > 0 \/ pending[v] > 0 \/ effects[v]["closeOffer"] > 0
               PROVE  offers[v] > 0 /\ mints[v] > 0 /\ symbolSet[v]
    BY DEF OnlyLaunchedTouched
  <2>1. stoId[v] # 0
    BY DEF OInv, InvTouched, SetTouched
  <2>2. stoId[v] \in Nat /\ offers[v] \in Nat
    BY DEF OInv, P!IInv, P!Backed, P!TypeOK
  <2> QED BY <2>1, <2>2 DEF OInv, P!IInv, P!Backed, P!ColumnsBackedByChain
<1> QED BY <1>1, Invariant, PTL

(* NotListedShown: what was funded while the platform wallet was off the       *)
(* whitelist is flagged once its requests are through, even when nothing on   *)
(* the invoice says that its launch is incomplete.                           *)
THEOREM NotListedShown == ASSUME IsFiniteSet(Slots) PROVE OfferingSpec => []UnlistedShows
<1>1. OInv => UnlistedShows
  BY DEF OInv, Shows, UnlistedShows, M!Idle
<1> QED BY <1>1, Invariant, PTL

(* DividendsPaidOnce: calm dividends are distributed once, they are what was   *)
(* raised but for later fundings, and, where each holding is of one funding   *)
(* that nothing disturbed, exactly what the columns say of the holdings.     *)
THEOREM DividendsPaidOnce ==
  ASSUME IsFiniteSet(Slots), IsFiniteSet(Holdings)
  PROVE  OfferingSpec => []DividendsAccounted
<1>1. OInv /\ RaisedIsHeld => DividendsAccounted
  <2> SUFFICES ASSUME OInv, RaisedIsHeld, NEW v \in Invoices, v \in Calm,
                      effects[v]["dividendDistribution"] > 0,
                      \A h \in HoldingsOf(v) : h \in M!Calm /\ M!Idle(h) /\ rounds[h] <= 1
               PROVE  paid[v] + late[v]
                        = SumFunctionOnSet([h \in Holdings |-> Told(h)], HoldingsOf(v))
    BY SettledOnce DEF OInv, DividendsAccounted, Calm
  <2>1. paid[v] + late[v] = raised[v]
    BY DEF OInv, Settled, Dividends
  <2>2. raised[v] = SumFunctionOnSet(amount, HoldingsOf(v))
    BY DEF RaisedIsHeld
  <2>3. ASSUME NEW h \in HoldingsOf(v) PROVE amount[h] = [g \in Holdings |-> Told(g)][h]
    <3>1. h \in Holdings /\ h \in Q!Calm /\ Q!Idle(h) /\ rounds[h] <= 1
      BY DEF HoldingsOf, M!Calm, Q!Calm, M!Idle, Q!Idle
    <3>2. rounds[h] = 0 \/ rounds[h] = 1
      BY <3>1 DEF OInv, Q!Typed, Q!TypeOK
    <3>3. /\ rounds[h] = 0 => amount[h] = 0 /\ invested[h] = 0 /\ flag[h] = "none"
          /\ rounds[h] = 1 => invested[h] = IF flag[h] = "none" THEN amount[h] ELSE 0
      BY <3>1 DEF OInv, Q!Flags, Q!RestTells, Q!Told
    <3> QED BY <3>1, <3>2, <3>3 DEF Told
  <2>4. IsFiniteSet(HoldingsOf(v))
    BY FS_Subset DEF HoldingsOf
  <2>5. SumFunctionOnSet(amount, HoldingsOf(v))
          = SumFunctionOnSet([h \in Holdings |-> Told(h)], HoldingsOf(v))
    <3> DEFINE told == [h \in Holdings |-> Told(h)]
    <3>1. \A h \in HoldingsOf(v) : amount[h] = told[h]
      BY <2>3
    <3>2. SumFunctionOnSet(amount, HoldingsOf(v)) = SumFunctionOnSet(told, HoldingsOf(v))
      <4> HIDE DEF told
      <4> QED BY <2>4, <3>1, SumSame
    <3> QED BY <3>2
  <2> QED BY <2>1, <2>2, <2>5
<1>2. OInv /\ RaisedIsHeld /\ [OfferingNext]_allVars => RaisedIsHeld'
  BY RaisedNext DEF OInv
<1> QED BY <1>1, <1>2, RaisedInit, Invariant, PTL DEF OfferingSpec

=============================================================================
