-------------------------- MODULE TokenizationProofs --------------------------
(***************************************************************************)
(* Theorems about Tokenization, for all invoices and symbols, any finite   *)
(* set of slots and any number of retries and faults: what the columns say *)
(* of the chain, and what a launch that nothing overlaps may do to it.     *)
(***************************************************************************)
EXTENDS Tokenization, FiniteSetTheorems, TLAPS

USE TokenizationAssumption

TypeOK ==
  /\ confirmed \in [Invoices -> BOOLEAN]
  /\ symbolSet \in [Invoices -> BOOLEAN]
  /\ stoId \in [Invoices -> Nat]
  /\ error \in [Invoices -> {"none", "plain", "[whitelist]"}]
  /\ mints \in [Invoices -> Nat]
  /\ offers \in [Invoices -> Nat]
  /\ pc \in [Slots -> Stages]
  /\ inv \in [Slots -> Invoices \cup {None}]
  /\ sto \in [Slots -> Nat]

(* A slot works on an invoice or is idle, and no two slots work on an invoice *)
(* that the history does not call contended.                                 *)
Alone ==
  /\ \A s \in Slots : pc[s] = "idle" <=> inv[s] = None
  /\ \A s, t \in Slots : s # t /\ inv[s] = inv[t] => inv[s] \notin Quiet

(* How far a handler is tells what is persisted and mined, whoever overlaps:  *)
(* neither the columns nor the chain ever take anything back.                *)
Named == {"named", "launching", "lagging", "offered", "launched", "whitelisting", "failedListing"}
StagesBacked == \A s \in Slots :
  /\ pc[s] \notin {"idle", "review"} => confirmed[inv[s]]
  /\ pc[s] = "minted" => mints[inv[s]] > 0
  /\ pc[s] \in Named => symbolSet[inv[s]]
  /\ pc[s] = "offered" => sto[s] > 0 /\ sto[s] <= offers[inv[s]]

SymbolsConfirmed == \A v \in Invoices : symbolSet[v] => confirmed[v]

Backed == TypeOK /\ Alone /\ StagesBacked /\ SymbolsConfirmed /\ ColumnsBackedByChain

(* What a handler has read of a quiet invoice still holds.                   *)
Listing == {"launched", "whitelisting", "failedListing"}
Checked == \A s \in Slots : inv[s] \in Quiet =>
  /\ pc[s] = "review" => ~confirmed[inv[s]]
  /\ pc[s] \in Listing <=> stoId[inv[s]] # 0

Unlaunched == {"review", "accepted", "tokenizing", "minted", "named", "launching", "lagging"}
Clean == Quiet \ faulted

(* Without a fault the chain is no further than the handler at work knows.    *)
KnowsTheChain ==
  /\ \A v \in Clean : ~confirmed[v] => mints[v] = 0
  /\ \A s \in Slots : inv[s] \in Clean =>
       /\ pc[s] \in {"accepted", "tokenizing"} => mints[inv[s]] = 0
       /\ pc[s] \in Unlaunched => offers[inv[s]] = 0
  /\ \A v \in Clean : offers[v] > 0 /\ stoId[v] = 0 =>
       \E s \in Slots : inv[s] = v /\ pc[s] = "offered"

IInv == Backed /\ Checked /\ QuietErrorNamesStep /\ KnowsTheChain /\ QuietSingleLaunch

-----------------------------------------------------------------------------
(* One lemma per action: what the step of a handler does to each conjunct.   *)

LEMMA ReviewReadKeeps == ASSUME IInv, NEW s \in Slots, NEW v \in Invoices, ReviewRead(s, v)
  PROVE IInv'
<1> USE DEF IInv, Backed, TypeOK, Alone, ReviewRead, Start, columns, events, chain, bounds, history
<1>1. TypeOK'
  BY DEF Stages, Waiting, Calls
<1>2. Alone'
  BY DEF Quiet, Waiting, Calls
<1>3. StagesBacked'
  BY DEF StagesBacked, SymbolsConfirmed, ColumnsBackedByChain, Named, Waiting, Calls
<1>4. SymbolsConfirmed'
  BY DEF SymbolsConfirmed, StagesBacked
<1>5. ColumnsBackedByChain'
  BY DEF ColumnsBackedByChain, StagesBacked, Named
<1>6. Checked'
  BY DEF Checked, StagesBacked, SymbolsConfirmed, ColumnsBackedByChain, Listing, Quiet, Waiting,
         Calls
<1>7. QuietErrorNamesStep'
  BY DEF QuietErrorNamesStep, Checked, StagesBacked, Listing, Quiet
<1>8. KnowsTheChain'
  BY DEF KnowsTheChain, Checked, StagesBacked, SymbolsConfirmed, ColumnsBackedByChain, Unlaunched,
         Named, Clean, Quiet, Waiting, Calls
<1>9. QuietSingleLaunch'
  BY DEF QuietSingleLaunch, KnowsTheChain, Unlaunched, Clean, Quiet
<1> QED BY <1>1, <1>2, <1>3, <1>4, <1>5, <1>6, <1>7, <1>8, <1>9

LEMMA RetryReadKeeps == ASSUME IInv, NEW s \in Slots, NEW v \in Invoices, RetryRead(s, v)
  PROVE IInv'
<1> USE DEF IInv, Backed, TypeOK, Alone, RetryRead, Retriable, Start, columns, events, chain,
            bounds, history
<1>1. TypeOK'
  BY DEF Stages, Waiting, Calls
<1>2. Alone'
  BY DEF Quiet, Waiting, Calls
<1>3. StagesBacked'
  BY DEF StagesBacked, SymbolsConfirmed, ColumnsBackedByChain, Named, Waiting, Calls
<1>4. SymbolsConfirmed'
  BY DEF SymbolsConfirmed, StagesBacked
<1>5. ColumnsBackedByChain'
  BY DEF ColumnsBackedByChain, StagesBacked, Named
<1>6. Checked'
  BY DEF Checked, StagesBacked, SymbolsConfirmed, ColumnsBackedByChain, Listing, Quiet, Waiting,
         Calls
<1>7. QuietErrorNamesStep'
  BY DEF QuietErrorNamesStep, Checked, StagesBacked, Listing, Quiet
<1>8. KnowsTheChain'
  BY DEF KnowsTheChain, Checked, StagesBacked, SymbolsConfirmed, ColumnsBackedByChain, Unlaunched,
         Named, Clean, Quiet, Waiting, Calls
<1>9. QuietSingleLaunch'
  BY DEF QuietSingleLaunch, KnowsTheChain, Unlaunched, Clean, Quiet
<1> QED BY <1>1, <1>2, <1>3, <1>4, <1>5, <1>6, <1>7, <1>8, <1>9

LEMMA AcceptCommitKeeps == ASSUME IInv, NEW s \in Slots, AcceptCommit(s)
  PROVE IInv'
<1> USE DEF IInv, Backed, TypeOK, Alone, AcceptCommit, Goto, NoFault, columns, events, chain,
            bounds, history
<1>1. TypeOK'
  BY DEF Stages, Waiting, Calls
<1>2. Alone'
  BY DEF Quiet, Waiting, Calls
<1>3. StagesBacked'
  BY DEF StagesBacked, SymbolsConfirmed, ColumnsBackedByChain, Named, Waiting, Calls
<1>4. SymbolsConfirmed'
  BY DEF SymbolsConfirmed, StagesBacked
<1>5. ColumnsBackedByChain'
  BY DEF ColumnsBackedByChain, StagesBacked, Named
<1>6. Checked'
  BY DEF Checked, StagesBacked, SymbolsConfirmed, ColumnsBackedByChain, Listing, Quiet, Waiting,
         Calls
<1>7. QuietErrorNamesStep'
  BY DEF QuietErrorNamesStep, Checked, StagesBacked, Listing, Quiet
<1>8. KnowsTheChain'
  BY DEF KnowsTheChain, Checked, StagesBacked, SymbolsConfirmed, ColumnsBackedByChain, Unlaunched,
         Named, Clean, Quiet, Waiting, Calls
<1>9. QuietSingleLaunch'
  BY DEF QuietSingleLaunch, KnowsTheChain, Unlaunched, Clean, Quiet
<1> QED BY <1>1, <1>2, <1>3, <1>4, <1>5, <1>6, <1>7, <1>8, <1>9

LEMMA SendCallKeeps == ASSUME IInv, NEW s \in Slots, SendCall(s)
  PROVE IInv'
<1> USE DEF IInv, Backed, TypeOK, Alone, SendCall, NextCall, Goto, NoFault, columns, events, chain,
            bounds, history
<1>1. TypeOK'
  BY DEF Stages, Waiting, Calls
<1>2. Alone'
  BY DEF Quiet, Waiting, Calls
<1>3. StagesBacked'
  BY DEF StagesBacked, SymbolsConfirmed, ColumnsBackedByChain, Named, Waiting, Calls
<1>4. SymbolsConfirmed'
  BY DEF SymbolsConfirmed, StagesBacked
<1>5. ColumnsBackedByChain'
  BY DEF ColumnsBackedByChain, StagesBacked, Named
<1>6. Checked'
  BY DEF Checked, StagesBacked, SymbolsConfirmed, ColumnsBackedByChain, Listing, Quiet, Waiting,
         Calls
<1>7. QuietErrorNamesStep'
  BY DEF QuietErrorNamesStep, Checked, StagesBacked, Listing, Quiet
<1>8. KnowsTheChain'
  BY DEF KnowsTheChain, Checked, StagesBacked, SymbolsConfirmed, ColumnsBackedByChain, Unlaunched,
         Named, Clean, Quiet, Waiting, Calls
<1>9. QuietSingleLaunch'
  BY DEF QuietSingleLaunch, KnowsTheChain, Unlaunched, Clean, Quiet
<1> QED BY <1>1, <1>2, <1>3, <1>4, <1>5, <1>6, <1>7, <1>8, <1>9

LEMMA SucceedsKeeps == ASSUME IInv, NEW s \in Slots, Succeeds(s)
  PROVE IInv'
<1> USE DEF IInv, Backed, TypeOK, Alone, Succeeds, TakesEffect, Goto, Finish, NoFault, columns,
            events, chain, bounds, history
<1>1. TypeOK'
  BY DEF Stages, Waiting, Calls
<1>2. Alone'
  BY DEF Quiet, Waiting, Calls
<1>3. StagesBacked'
  BY DEF StagesBacked, SymbolsConfirmed, ColumnsBackedByChain, Named, Waiting, Calls
<1>4. SymbolsConfirmed'
  BY DEF SymbolsConfirmed, StagesBacked
<1>5. ColumnsBackedByChain'
  BY DEF ColumnsBackedByChain, StagesBacked, Named
<1>6. Checked'
  BY DEF Checked, StagesBacked, SymbolsConfirmed, ColumnsBackedByChain, Listing, Quiet, Waiting,
         Calls
<1>7. QuietErrorNamesStep'
  BY DEF QuietErrorNamesStep, Checked, StagesBacked, Listing, Quiet
<1>8. KnowsTheChain'
  BY DEF KnowsTheChain, Checked, StagesBacked, SymbolsConfirmed, ColumnsBackedByChain, Unlaunched,
         Named, Clean, Quiet, Waiting, Calls
<1>9. QuietSingleLaunch'
  BY DEF QuietSingleLaunch, KnowsTheChain, Unlaunched, Clean, Quiet
<1> QED BY <1>1, <1>2, <1>3, <1>4, <1>5, <1>6, <1>7, <1>8, <1>9

LEMMA RefusedKeeps == ASSUME IInv, NEW s \in Slots, Refused(s)
  PROVE IInv'
<1> USE DEF IInv, Backed, TypeOK, Alone, Refused, AfterFailure, Goto, NoFault, columns, events,
            chain, bounds, history
<1>1. TypeOK'
  BY DEF Stages, Waiting, Calls
<1>2. Alone'
  BY DEF Quiet, Waiting, Calls
<1>3. StagesBacked'
  BY DEF StagesBacked, SymbolsConfirmed, ColumnsBackedByChain, Named, Waiting, Calls
<1>4. SymbolsConfirmed'
  BY DEF SymbolsConfirmed, StagesBacked
<1>5. ColumnsBackedByChain'
  BY DEF ColumnsBackedByChain, StagesBacked, Named
<1>6. Checked'
  BY DEF Checked, StagesBacked, SymbolsConfirmed, ColumnsBackedByChain, Listing, Quiet, Waiting,
         Calls
<1>7. QuietErrorNamesStep'
  BY DEF QuietErrorNamesStep, Checked, StagesBacked, Listing, Quiet
<1>8. KnowsTheChain'
  BY DEF KnowsTheChain, Checked, StagesBacked, SymbolsConfirmed, ColumnsBackedByChain, Unlaunched,
         Named, Clean, Quiet, Waiting, Calls
<1>9. QuietSingleLaunch'
  BY DEF QuietSingleLaunch, KnowsTheChain, Unlaunched, Clean, Quiet
<1> QED BY <1>1, <1>2, <1>3, <1>4, <1>5, <1>6, <1>7, <1>8, <1>9

LEMMA LagsKeeps == ASSUME IInv, NEW s \in Slots, Lags(s)
  PROVE IInv'
<1> USE DEF IInv, Backed, TypeOK, Alone, Lags, MayRetry, Goto, NoFault, columns, events, chain,
            bounds, history
<1>1. TypeOK'
  BY DEF Stages, Waiting, Calls
<1>2. Alone'
  BY DEF Quiet, Waiting, Calls
<1>3. StagesBacked'
  BY DEF StagesBacked, SymbolsConfirmed, ColumnsBackedByChain, Named, Waiting, Calls
<1>4. SymbolsConfirmed'
  BY DEF SymbolsConfirmed, StagesBacked
<1>5. ColumnsBackedByChain'
  BY DEF ColumnsBackedByChain, StagesBacked, Named
<1>6. Checked'
  BY DEF Checked, StagesBacked, SymbolsConfirmed, ColumnsBackedByChain, Listing, Quiet, Waiting,
         Calls
<1>7. QuietErrorNamesStep'
  BY DEF QuietErrorNamesStep, Checked, StagesBacked, Listing, Quiet
<1>8. KnowsTheChain'
  BY DEF KnowsTheChain, Checked, StagesBacked, SymbolsConfirmed, ColumnsBackedByChain, Unlaunched,
         Named, Clean, Quiet, Waiting, Calls
<1>9. QuietSingleLaunch'
  BY DEF QuietSingleLaunch, KnowsTheChain, Unlaunched, Clean, Quiet
<1> QED BY <1>1, <1>2, <1>3, <1>4, <1>5, <1>6, <1>7, <1>8, <1>9

LEMMA CallFaultsKeeps == ASSUME IInv, NEW s \in Slots, CallFaults(s)
  PROVE IInv'
<1> USE DEF IInv, Backed, TypeOK, Alone, CallFaults, Fault, TakesEffect, AfterFailure, Goto,
            columns, events, chain, bounds, history
<1>1. TypeOK'
  BY DEF Stages, Waiting, Calls
<1>2. Alone'
  BY DEF Quiet, Waiting, Calls
<1>3. StagesBacked'
  BY DEF StagesBacked, SymbolsConfirmed, ColumnsBackedByChain, Named, Waiting, Calls
<1>4. SymbolsConfirmed'
  BY DEF SymbolsConfirmed, StagesBacked
<1>5. ColumnsBackedByChain'
  BY DEF ColumnsBackedByChain, StagesBacked, Named
<1>6. Checked'
  BY DEF Checked, StagesBacked, SymbolsConfirmed, ColumnsBackedByChain, Listing, Quiet, Waiting,
         Calls
<1>7. QuietErrorNamesStep'
  BY DEF QuietErrorNamesStep, Checked, StagesBacked, Listing, Quiet
<1>8. KnowsTheChain'
  BY DEF KnowsTheChain, Checked, StagesBacked, SymbolsConfirmed, ColumnsBackedByChain, Unlaunched,
         Named, Clean, Quiet, Waiting, Calls
<1>9. QuietSingleLaunch'
  BY DEF QuietSingleLaunch, KnowsTheChain, Unlaunched, Clean, Quiet
<1> QED BY <1>1, <1>2, <1>3, <1>4, <1>5, <1>6, <1>7, <1>8, <1>9

LEMMA NoStoIdKeeps == ASSUME IInv, NEW s \in Slots, NoStoId(s)
  PROVE IInv'
<1> USE DEF IInv, Backed, TypeOK, Alone, NoStoId, Fault, TakesEffect, Goto, columns, events, chain,
            bounds, history
<1>1. TypeOK'
  BY DEF Stages, Waiting, Calls
<1>2. Alone'
  BY DEF Quiet, Waiting, Calls
<1>3. StagesBacked'
  BY DEF StagesBacked, SymbolsConfirmed, ColumnsBackedByChain, Named, Waiting, Calls
<1>4. SymbolsConfirmed'
  BY DEF SymbolsConfirmed, StagesBacked
<1>5. ColumnsBackedByChain'
  BY DEF ColumnsBackedByChain, StagesBacked, Named
<1>6. Checked'
  BY DEF Checked, StagesBacked, SymbolsConfirmed, ColumnsBackedByChain, Listing, Quiet, Waiting,
         Calls
<1>7. QuietErrorNamesStep'
  BY DEF QuietErrorNamesStep, Checked, StagesBacked, Listing, Quiet
<1>8. KnowsTheChain'
  BY DEF KnowsTheChain, Checked, StagesBacked, SymbolsConfirmed, ColumnsBackedByChain, Unlaunched,
         Named, Clean, Quiet, Waiting, Calls
<1>9. QuietSingleLaunch'
  BY DEF QuietSingleLaunch, KnowsTheChain, Unlaunched, Clean, Quiet
<1> QED BY <1>1, <1>2, <1>3, <1>4, <1>5, <1>6, <1>7, <1>8, <1>9

LEMMA PersistSymbolKeeps == ASSUME IInv, NEW s \in Slots, PersistSymbol(s)
  PROVE IInv'
<1> USE DEF IInv, Backed, TypeOK, Alone, PersistSymbol, Goto, Finish, NoFault, columns, events,
            chain, bounds, history
<1>1. TypeOK'
  <2>1. inv[s] \in Invoices /\ pc' \in [Slots -> Stages]
    BY DEF Stages, Waiting, Calls
  <2>2. symbolSet' \in [Invoices -> BOOLEAN]
    BY <2>1
  <2> QED BY <2>1, <2>2
<1>2. Alone'
  BY DEF Quiet, Waiting, Calls
<1>3. StagesBacked'
  BY DEF StagesBacked, SymbolsConfirmed, ColumnsBackedByChain, Named, Waiting, Calls
<1>4. SymbolsConfirmed'
  BY DEF SymbolsConfirmed, StagesBacked
<1>5. ColumnsBackedByChain'
  BY DEF ColumnsBackedByChain, StagesBacked, Named
<1>6. Checked'
  BY DEF Checked, StagesBacked, SymbolsConfirmed, ColumnsBackedByChain, Listing, Quiet, Waiting,
         Calls
<1>7. QuietErrorNamesStep'
  BY DEF QuietErrorNamesStep, Checked, StagesBacked, Listing, Quiet
<1>8. KnowsTheChain'
  BY DEF KnowsTheChain, Checked, StagesBacked, SymbolsConfirmed, ColumnsBackedByChain, Unlaunched,
         Named, Clean, Quiet, Waiting, Calls
<1>9. QuietSingleLaunch'
  BY DEF QuietSingleLaunch, KnowsTheChain, Unlaunched, Clean, Quiet
<1> QED BY <1>1, <1>2, <1>3, <1>4, <1>5, <1>6, <1>7, <1>8, <1>9

LEMMA PersistStoKeeps == ASSUME IInv, NEW s \in Slots, PersistSto(s)
  PROVE IInv'
<1> USE DEF IInv, Backed, TypeOK, Alone, PersistSto, Goto, Finish, NoFault, columns, events, chain,
            bounds, history
<1>1. TypeOK'
  BY DEF Stages, Waiting, Calls
<1>2. Alone'
  BY DEF Quiet, Waiting, Calls
<1>3. StagesBacked'
  BY DEF StagesBacked, SymbolsConfirmed, ColumnsBackedByChain, Named, Waiting, Calls
<1>4. SymbolsConfirmed'
  BY DEF SymbolsConfirmed, StagesBacked
<1>5. ColumnsBackedByChain'
  BY DEF ColumnsBackedByChain, StagesBacked, Named
<1>6. Checked'
  BY DEF Checked, StagesBacked, SymbolsConfirmed, ColumnsBackedByChain, Listing, Quiet, Waiting,
         Calls
<1>7. QuietErrorNamesStep'
  BY DEF QuietErrorNamesStep, Checked, StagesBacked, Listing, Quiet
<1>8. KnowsTheChain'
  BY DEF KnowsTheChain, Checked, StagesBacked, SymbolsConfirmed, ColumnsBackedByChain, Unlaunched,
         Named, Clean, Quiet, Waiting, Calls
<1>9. QuietSingleLaunch'
  BY DEF QuietSingleLaunch, KnowsTheChain, Unlaunched, Clean, Quiet
<1> QED BY <1>1, <1>2, <1>3, <1>4, <1>5, <1>6, <1>7, <1>8, <1>9

LEMMA RecordErrorKeeps == ASSUME IInv, NEW s \in Slots, RecordError(s)
  PROVE IInv'
<1> USE DEF IInv, Backed, TypeOK, Alone, RecordError, ErrorText, Finish, NoFault, columns, events,
            chain, bounds, history
<1>1. TypeOK'
  BY DEF Stages, Waiting, Calls
<1>2. Alone'
  BY DEF Quiet, Waiting, Calls
<1>3. StagesBacked'
  BY DEF StagesBacked, SymbolsConfirmed, ColumnsBackedByChain, Named, Waiting, Calls
<1>4. SymbolsConfirmed'
  BY DEF SymbolsConfirmed, StagesBacked
<1>5. ColumnsBackedByChain'
  BY DEF ColumnsBackedByChain, StagesBacked, Named
<1>6. Checked'
  BY DEF Checked, StagesBacked, SymbolsConfirmed, ColumnsBackedByChain, Listing, Quiet, Waiting,
         Calls
<1>7. QuietErrorNamesStep'
  BY DEF QuietErrorNamesStep, Checked, StagesBacked, Listing, Quiet
<1>8. KnowsTheChain'
  BY DEF KnowsTheChain, Checked, StagesBacked, SymbolsConfirmed, ColumnsBackedByChain, Unlaunched,
         Named, Clean, Quiet, Waiting, Calls
<1>9. QuietSingleLaunch'
  BY DEF QuietSingleLaunch, KnowsTheChain, Unlaunched, Clean, Quiet
<1> QED BY <1>1, <1>2, <1>3, <1>4, <1>5, <1>6, <1>7, <1>8, <1>9

LEMMA WriteFailsKeeps == ASSUME IInv, NEW s \in Slots, WriteFails(s)
  PROVE IInv'
<1> USE DEF IInv, Backed, TypeOK, Alone, WriteFails, Fault, Caught, NextCall, Goto, Finish, columns,
            events, chain, bounds, history
<1>1. TypeOK'
  BY DEF Stages, Waiting, Calls
<1>2. Alone'
  BY DEF Quiet, Waiting, Calls
<1>3. StagesBacked'
  BY DEF StagesBacked, SymbolsConfirmed, ColumnsBackedByChain, Named, Waiting, Calls
<1>4. SymbolsConfirmed'
  BY DEF SymbolsConfirmed, StagesBacked
<1>5. ColumnsBackedByChain'
  BY DEF ColumnsBackedByChain, StagesBacked, Named
<1>6. Checked'
  BY DEF Checked, StagesBacked, SymbolsConfirmed, ColumnsBackedByChain, Listing, Quiet, Waiting,
         Calls
<1>7. QuietErrorNamesStep'
  BY DEF QuietErrorNamesStep, Checked, StagesBacked, Listing, Quiet
<1>8. KnowsTheChain'
  BY DEF KnowsTheChain, Checked, StagesBacked, SymbolsConfirmed, ColumnsBackedByChain, Unlaunched,
         Named, Clean, Quiet, Waiting, Calls
<1>9. QuietSingleLaunch'
  BY DEF QuietSingleLaunch, KnowsTheChain, Unlaunched, Clean, Quiet
<1> QED BY <1>1, <1>2, <1>3, <1>4, <1>5, <1>6, <1>7, <1>8, <1>9

-----------------------------------------------------------------------------
(* A crash takes the handlers with it; calls that are on their way may still  *)
(* be mined, but only for invoices it marks.                                 *)
LEMMA CrashKeeps == ASSUME IsFiniteSet(Slots), IInv, Crash PROVE IInv'
<1> USE DEF IInv, Backed, TypeOK, Alone
<1> DEFINE Mined(m, v, stage) == {s \in m : inv[s] = v /\ pc[s] = stage}
<1>1. PICK mined \in SUBSET {s \in Slots : pc[s] \in Waiting} :
        /\ mints' = [v \in Invoices |-> mints[v] + Cardinality(Mined(mined, v, "tokenizing"))]
        /\ offers' = [v \in Invoices |-> offers[v] + Cardinality(Mined(mined, v, "launching"))]
  BY DEF Crash
<1>2. ASSUME NEW v \in Invoices, NEW stage
      PROVE  /\ Cardinality(Mined(mined, v, stage)) \in Nat
             /\ Cardinality(Mined(mined, v, stage)) > 0 => \E s \in Slots : inv[s] = v /\ pc[s] = stage
  <2>1. Mined(mined, v, stage) \subseteq Slots
    BY <1>1
  <2>2. IsFiniteSet(Mined(mined, v, stage))
    BY <2>1, FS_Subset
  <2>3. Cardinality(Mined(mined, v, stage)) \in Nat
    BY <2>2, FS_CardinalityType
  <2>4. Mined(mined, v, stage) # {} => \E s \in Slots : inv[s] = v /\ pc[s] = stage
    BY <2>1
  <2>5. Mined(mined, v, stage) = {} => Cardinality(Mined(mined, v, stage)) = 0
    BY FS_EmptySet
  <2> QED BY <2>3, <2>4, <2>5
<1> HIDE DEF Mined
<1>3. /\ mints' \in [Invoices -> Nat] /\ offers' \in [Invoices -> Nat]
      /\ \A v \in Invoices : mints'[v] >= mints[v] /\ offers'[v] >= offers[v]
      /\ \A v \in Invoices : mints'[v] = mints[v] \/ \E s \in Slots : inv[s] = v /\ pc[s] = "tokenizing"
      /\ \A v \in Invoices : offers'[v] = offers[v] \/ \E s \in Slots : inv[s] = v /\ pc[s] = "launching"
  BY <1>1, <1>2
<1>4. /\ UNCHANGED <<columns, contended>>
      /\ pc' = [s \in Slots |-> "idle"] /\ inv' = [s \in Slots |-> None]
      /\ sto' = [s \in Slots |-> 0]
      /\ faulted \subseteq faulted' /\ \A s \in Slots : inv[s] # None => inv[s] \in faulted'
  BY DEF Crash
<1>5. TypeOK' /\ Alone'
  <2>1. "idle" \in Stages /\ 0 \in Nat
    BY DEF Stages
  <2>2. /\ confirmed' = confirmed /\ symbolSet' = symbolSet /\ stoId' = stoId /\ error' = error
        /\ contended' = contended
    BY <1>4 DEF columns
  <2>3. pc' \in [Slots -> Stages] /\ inv' \in [Slots -> Invoices \cup {None}] /\ sto' \in [Slots -> Nat]
    BY <1>4, <2>1
  <2>4. TypeOK'
    BY <1>3, <2>2, <2>3
  <2>5. \A s \in Slots : pc'[s] = "idle" /\ inv'[s] = None /\ None \notin Quiet'
    BY <1>4 DEF Quiet
  <2> QED BY <2>4, <2>5
<1>6. StagesBacked' /\ SymbolsConfirmed' /\ Checked' /\ QuietErrorNamesStep'
  BY <1>4 DEF columns, StagesBacked, SymbolsConfirmed, Checked, QuietErrorNamesStep, Named, Quiet
<1>7. ColumnsBackedByChain'
  BY <1>3, <1>4 DEF columns, ColumnsBackedByChain, StagesBacked, Named
<1>8. \A v \in Clean' : v \in Clean /\ (\A s \in Slots : inv[s] # v) /\ mints'[v] = mints[v] /\ offers'[v] = offers[v]
  BY <1>3, <1>4 DEF Clean, Quiet
<1>9. KnowsTheChain' /\ QuietSingleLaunch'
  BY <1>4, <1>8 DEF columns, KnowsTheChain, QuietSingleLaunch, Clean, Quiet
<1> QED BY <1>5, <1>6, <1>7, <1>9

LEMMA InitHolds == Init => IInv
BY DEF Init, IInv, Backed, TypeOK, Alone, StagesBacked, SymbolsConfirmed, ColumnsBackedByChain,
       Checked,
       QuietErrorNamesStep, KnowsTheChain, QuietSingleLaunch, Clean, Quiet, Stages, Named

LEMMA NextKeeps == ASSUME IsFiniteSet(Slots) PROVE IInv /\ [Next]_vars => IInv'
<1> SUFFICES ASSUME IInv, [Next]_vars PROVE IInv'
  OBVIOUS
<1>1. CASE UNCHANGED vars
  BY <1>1 DEF vars, columns, chain, handlers, history, IInv, Backed, TypeOK, Alone, StagesBacked,
         SymbolsConfirmed, ColumnsBackedByChain, Checked, QuietErrorNamesStep, KnowsTheChain,
         QuietSingleLaunch, Clean, Quiet
<1>2. ASSUME NEW s \in Slots, Proceed(s) PROVE IInv'
  BY <1>2, AcceptCommitKeeps, SendCallKeeps, SucceedsKeeps, RefusedKeeps, LagsKeeps, CallFaultsKeeps,
     NoStoIdKeeps, PersistSymbolKeeps, PersistStoKeeps, RecordErrorKeeps, WriteFailsKeeps DEF Proceed
<1> QED BY <1>1, <1>2, ReviewReadKeeps, RetryReadKeeps, CrashKeeps DEF Next

LEMMA Invariant == ASSUME IsFiniteSet(Slots) PROVE Spec => []IInv
<1> QED BY InitHolds, NextKeeps, PTL DEF Spec

(* Backing: whatever overlaps, fails or dies, a column never says more than   *)
(* the chain: a symbol has a mint behind it, and an STO id an STO.           *)
THEOREM Backing == ASSUME IsFiniteSet(Slots) PROVE Spec => []ColumnsBackedByChain
<1>1. IInv => ColumnsBackedByChain
  BY DEF IInv, Backed
<1> QED BY <1>1, Invariant, PTL

(* ErrorNamesStep: the error text of an invoice without overlapping handlers  *)
(* and its brickkenStoId tell together which call failed, faults included.   *)
THEOREM ErrorNamesStep == ASSUME IsFiniteSet(Slots) PROVE Spec => []QuietErrorNamesStep
<1>1. IInv => QuietErrorNamesStep
  BY DEF IInv
<1> QED BY <1>1, Invariant, PTL

(* SingleLaunch: without overlap and fault an invoice is minted and launched  *)
(* at most once, however often the launch lags or an admin retries it.       *)
THEOREM SingleLaunch == ASSUME IsFiniteSet(Slots) PROVE Spec => []QuietSingleLaunch
<1>1. IInv => QuietSingleLaunch
  BY DEF IInv
<1> QED BY <1>1, Invariant, PTL

-----------------------------------------------------------------------------
(* The ledger of events against the chain. *)

LedgerTyped ==
  /\ pending \in [Invoices -> Int]
  /\ confirmedEv \in [Invoices -> [Actions -> Nat]]
  /\ listed \in [Invoices -> BOOLEAN]

Ledger == LedgerTyped /\ LedgerMirrorsChain

WaitsFor(t, v) == inv[t] = v /\ pc[t] \in Waiting

LEMMA InFlightSame ==
  ASSUME NEW v, \A t \in Slots : WaitsFor(t, v)' <=> WaitsFor(t, v)
  PROVE  InFlight(v)' = InFlight(v)
BY DEF InFlight, WaitsFor

LEMMA InFlightEnters ==
  ASSUME IsFiniteSet(Slots), NEW v, NEW s \in Slots, WaitsFor(s, v)', ~WaitsFor(s, v),
         \A t \in Slots \ {s} : WaitsFor(t, v)' <=> WaitsFor(t, v)
  PROVE  Cardinality(InFlight(v)') = Cardinality(InFlight(v)) + 1
<1>1. InFlight(v)' = InFlight(v) \cup {s} /\ s \notin InFlight(v)
  BY DEF InFlight, WaitsFor
<1>2. IsFiniteSet(InFlight(v))
  BY FS_Subset DEF InFlight
<1> QED BY <1>1, <1>2, FS_AddElement

LEMMA InFlightLeaves ==
  ASSUME IsFiniteSet(Slots), NEW v, NEW s \in Slots, ~WaitsFor(s, v)', WaitsFor(s, v),
         \A t \in Slots \ {s} : WaitsFor(t, v)' <=> WaitsFor(t, v)
  PROVE  Cardinality(InFlight(v)') = Cardinality(InFlight(v)) - 1
<1>1. InFlight(v)' = InFlight(v) \ {s} /\ s \in InFlight(v)
  BY DEF InFlight, WaitsFor
<1>2. IsFiniteSet(InFlight(v))
  BY FS_Subset DEF InFlight
<1> QED BY <1>1, <1>2, FS_RemoveElement

LEMMA InFlightNat == ASSUME IsFiniteSet(Slots), NEW v PROVE Cardinality(InFlight(v)) \in Nat
<1>1. IsFiniteSet(InFlight(v))
  BY FS_Subset DEF InFlight
<1> QED BY <1>1, FS_CardinalityType

(* A step that neither sends nor settles a call. *)
LEMMA LedgerRests ==
  ASSUME Ledger, UNCHANGED <<events, chain>>, faulted \subseteq faulted',
         \A v \in Invoices \ faulted', t \in Slots : WaitsFor(t, v)' <=> WaitsFor(t, v)
  PROVE  Ledger'
<1>1. \A v \in Invoices \ faulted' : InFlight(v)' = InFlight(v)
  BY InFlightSame
<1> QED BY <1>1 DEF Ledger, LedgerTyped, LedgerMirrorsChain, events, chain

(* The slots other than that of the handler at work wait for what they did.  *)
OthersWait(s) == \A t \in Slots \ {s} : inv'[t] = inv[t] /\ pc'[t] = pc[t]

LEMMA ReadsRest ==
  ASSUME Ledger, TypeOK, NEW s \in Slots, NEW v \in Invoices, ReviewRead(s, v) \/ RetryRead(s, v)
  PROVE  Ledger'
<1>1. \A w \in Invoices, t \in Slots : WaitsFor(t, w)' <=> WaitsFor(t, w)
  BY DEF ReviewRead, RetryRead, Start, WaitsFor, Waiting, Calls, TypeOK
<1>2. UNCHANGED <<events, chain>> /\ faulted' = faulted
  BY DEF ReviewRead, RetryRead, Start
<1> QED BY <1>1, <1>2, LedgerRests

LEMMA WritesRest ==
  ASSUME Ledger, TypeOK, NEW s \in Slots,
         AcceptCommit(s) \/ PersistSymbol(s) \/ PersistSto(s) \/ RecordError(s) \/ WriteFails(s)
  PROVE  Ledger'
<1>1. pc[s] \notin Waiting /\ pc'[s] \notin Waiting /\ OthersWait(s)
  <2> USE DEF Waiting, Calls, TypeOK, OthersWait, Goto, Finish
  <2>1. CASE AcceptCommit(s) \/ PersistSymbol(s)
    BY <2>1 DEF AcceptCommit, PersistSymbol
  <2>2. CASE PersistSto(s) \/ RecordError(s)
    BY <2>2 DEF PersistSto, RecordError
  <2>3. CASE WriteFails(s)
    BY <2>3 DEF WriteFails
  <2> QED BY <2>1, <2>2, <2>3
<1>2. UNCHANGED <<events, chain>> /\ faulted \subseteq faulted'
  BY DEF AcceptCommit, PersistSymbol, PersistSto, RecordError, WriteFails, NoFault, history, Fault
<1>3. \A v \in Invoices, t \in Slots : WaitsFor(t, v)' <=> WaitsFor(t, v)
  BY <1>1 DEF OthersWait, WaitsFor
<1> QED BY <1>2, <1>3, LedgerRests

LEMMA SendCallMirrors ==
  ASSUME IsFiniteSet(Slots), Ledger, TypeOK, Alone, NEW s \in Slots, SendCall(s)
  PROVE  Ledger'
<1>0. PICK v \in Invoices : v = inv[s]
  BY DEF SendCall, NextCall, TypeOK, Alone
<1>1. v \in Invoices /\ pc[s] \notin Waiting /\ pc'[s] \in Waiting /\ inv' = inv /\ OthersWait(s)
  BY <1>0 DEF SendCall, NextCall, Goto, Waiting, Calls, TypeOK, Alone, OthersWait
<1>2. pending' = [pending EXCEPT ![v] = @ + 1] /\ UNCHANGED <<confirmedEv, chain, faulted>>
  BY <1>0 DEF SendCall, NoFault, history
<1>3. Cardinality(InFlight(v)') = Cardinality(InFlight(v)) + 1
  BY <1>1, <1>0, InFlightEnters DEF WaitsFor, OthersWait
<1>4. \A w \in Invoices \ {v} : InFlight(w)' = InFlight(w)
  <2>1. \A w \in Invoices \ {v}, t \in Slots : WaitsFor(t, w)' <=> WaitsFor(t, w)
    BY <1>0, <1>1 DEF WaitsFor, OthersWait
  <2> QED BY <2>1, InFlightSame
<1>5. LedgerTyped'
  BY <1>1, <1>2 DEF Ledger, LedgerTyped, chain
<1>6. ASSUME NEW w \in Invoices, w \notin faulted
      PROVE  pending'[w] = Cardinality(InFlight(w)')
  <2>1. pending[w] = Cardinality(InFlight(w)) /\ pending[w] \in Int
    BY <1>6 DEF Ledger, LedgerTyped, LedgerMirrorsChain
  <2>2. pending'[w] = IF w = v THEN pending[w] + 1 ELSE pending[w]
    BY <1>1, <1>2 DEF Ledger, LedgerTyped
  <2> QED BY <1>3, <1>4, <2>1, <2>2
<1> QED BY <1>2, <1>5, <1>6 DEF Ledger, LedgerMirrorsChain, chain

(* A handler gets its answer: what the ledger confirms is what was mined.    *)
LEMMA AnswerMirrors ==
  ASSUME IsFiniteSet(Slots), Ledger, LedgerTyped', TypeOK, TypeOK', NEW s \in Slots, NEW v \in Invoices,
         inv[s] = v, pc[s] \in Waiting, pc'[s] \notin Waiting, OthersWait(s),
         pending' = [pending EXCEPT ![v] = @ - 1], faulted' = faulted,
         \A w \in Invoices :
           /\ confirmedEv'[w]["newTokenization"] - confirmedEv[w]["newTokenization"] = mints'[w] - mints[w]
           /\ confirmedEv'[w]["newSto"] - confirmedEv[w]["newSto"] = offers'[w] - offers[w]
           /\ confirmedEv'[w]["whitelist"] > 0 => listed'[w]
  PROVE  Ledger'
<1>1. Cardinality(InFlight(v)') = Cardinality(InFlight(v)) - 1
  BY InFlightLeaves DEF WaitsFor, OthersWait
<1>2. \A w \in Invoices \ {v} : InFlight(w)' = InFlight(w)
  <2>1. \A w \in Invoices \ {v}, t \in Slots : WaitsFor(t, w)' <=> WaitsFor(t, w)
    BY DEF WaitsFor, OthersWait
  <2> QED BY <2>1, InFlightSame
<1>3. \A w \in Invoices \ faulted : pending'[w] = Cardinality(InFlight(w)')
  BY <1>1, <1>2 DEF Ledger, LedgerTyped, LedgerMirrorsChain
<1>4. \A w \in Invoices :
        /\ confirmedEv[w]["newTokenization"] \in Nat /\ confirmedEv'[w]["newTokenization"] \in Nat
        /\ confirmedEv[w]["newSto"] \in Nat /\ confirmedEv'[w]["newSto"] \in Nat
        /\ mints[w] \in Nat /\ mints'[w] \in Nat /\ offers[w] \in Nat /\ offers'[w] \in Nat
  BY DEF LedgerTyped, Ledger, Actions, TypeOK
<1>5. ASSUME NEW w \in Invoices
      PROVE  /\ confirmedEv'[w]["newTokenization"] <= mints'[w] /\ confirmedEv'[w]["newSto"] <= offers'[w]
             /\ w \notin faulted => /\ confirmedEv'[w]["newTokenization"] = mints'[w]
                                    /\ confirmedEv'[w]["newSto"] = offers'[w]
  BY <1>4 DEF Ledger, LedgerMirrorsChain
<1> QED BY <1>3, <1>5 DEF Ledger, LedgerMirrorsChain

LEMMA SucceedsMirrors ==
  ASSUME IsFiniteSet(Slots), Ledger, TypeOK, TypeOK', Alone, NEW s \in Slots, Succeeds(s)
  PROVE  Ledger'
<1>0. PICK v \in Invoices : v = inv[s]
  BY DEF Succeeds, Waiting, Calls, TypeOK, Alone
<1>1. v \in Invoices /\ pc[s] \in Waiting /\ pc'[s] \notin Waiting /\ OthersWait(s)
  BY <1>0 DEF Succeeds, Goto, Finish, Waiting, Calls, TypeOK, Alone, OthersWait
<1>2. /\ pending' = [pending EXCEPT ![v] = @ - 1] /\ faulted' = faulted
      /\ confirmedEv' = [confirmedEv EXCEPT ![v][Calls[pc[s]]] = @ + 1]
      /\ mints' = [mints EXCEPT ![v] = IF pc[s] = "tokenizing" THEN @ + 1 ELSE @]
      /\ offers' = [offers EXCEPT ![v] = IF pc[s] = "launching" THEN @ + 1 ELSE @]
      /\ listed' = [listed EXCEPT ![v] = @ \/ pc[s] = "whitelisting"]
  BY <1>0 DEF Succeeds, TakesEffect, Confirm, NoFault, history
<1>3. Calls[pc[s]] \in Actions
  BY <1>1 DEF Calls, Waiting, Actions
<1>4. LedgerTyped'
  BY <1>1, <1>2, <1>3 DEF Ledger, LedgerTyped
<1>5. ASSUME NEW w \in Invoices
      PROVE  /\ confirmedEv'[w]["newTokenization"] - confirmedEv[w]["newTokenization"] = mints'[w] - mints[w]
             /\ confirmedEv'[w]["newSto"] - confirmedEv[w]["newSto"] = offers'[w] - offers[w]
             /\ confirmedEv'[w]["whitelist"] > 0 => listed'[w]
  <2>0. \A a \in Actions : confirmedEv[w][a] \in Nat
    BY DEF Ledger, LedgerTyped
  <2>1. CASE w # v
    BY <1>1, <1>2, <2>0, <2>1 DEF Ledger, LedgerTyped, LedgerMirrorsChain, TypeOK, Actions
  <2>2. \A a \in Actions : confirmedEv'[v][a] = IF a = Calls[pc[s]] THEN confirmedEv[v][a] + 1
                                                                    ELSE confirmedEv[v][a]
    BY <1>1, <1>2, <1>3 DEF Ledger, LedgerTyped
  <2>3. CASE w = v
    <3>1. \/ pc[s] = "tokenizing" /\ Calls[pc[s]] = "newTokenization"
          \/ pc[s] = "launching" /\ Calls[pc[s]] = "newSto"
          \/ pc[s] = "whitelisting" /\ Calls[pc[s]] = "whitelist"
      BY <1>1 DEF Waiting, Calls
    <3>2. Actions = {"newTokenization", "newSto", "whitelist"}
      BY DEF Actions
    <3>3. /\ mints'[v] = IF pc[s] = "tokenizing" THEN mints[v] + 1 ELSE mints[v]
          /\ offers'[v] = IF pc[s] = "launching" THEN offers[v] + 1 ELSE offers[v]
          /\ listed[v] \/ pc[s] = "whitelisting" => listed'[v]
          /\ mints[v] \in Nat /\ offers[v] \in Nat
      BY <1>1, <1>2 DEF TypeOK, Ledger, LedgerTyped
    <3>4. confirmedEv[v]["whitelist"] > 0 => listed[v]
      BY <1>1 DEF Ledger, LedgerMirrorsChain
    <3>5. /\ confirmedEv[v]["newTokenization"] \in Nat /\ confirmedEv[v]["newSto"] \in Nat
          /\ confirmedEv[v]["whitelist"] \in Nat
      BY <1>1, <3>2 DEF Ledger, LedgerTyped
    <3>6. CASE pc[s] = "tokenizing"
      BY <2>2, <2>3, <3>1, <3>2, <3>3, <3>4, <3>5, <3>6
    <3>7. CASE pc[s] = "launching"
      BY <2>2, <2>3, <3>1, <3>2, <3>3, <3>4, <3>5, <3>7
    <3>8. CASE pc[s] = "whitelisting"
      BY <2>2, <2>3, <3>1, <3>2, <3>3, <3>4, <3>5, <3>8
    <3> QED BY <3>1, <3>6, <3>7, <3>8
  <2> QED BY <2>1, <2>3
<1> QED BY <1>0, <1>1, <1>2, <1>4, <1>5, AnswerMirrors

LEMMA RefusalMirrors ==
  ASSUME IsFiniteSet(Slots), Ledger, TypeOK, TypeOK', Alone, NEW s \in Slots, Refused(s) \/ Lags(s)
  PROVE  Ledger'
<1>0. PICK v \in Invoices : v = inv[s]
  BY DEF Refused, Lags, Waiting, Calls, TypeOK, Alone
<1>1. v \in Invoices /\ pc[s] \in Waiting /\ pc'[s] \notin Waiting /\ OthersWait(s)
  <2> USE <1>0 DEF Goto, Waiting, Calls, TypeOK, Alone, OthersWait
  <2>1. CASE Refused(s)
    BY <2>1 DEF Refused, AfterFailure
  <2>2. CASE Lags(s)
    BY <2>2 DEF Lags
  <2> QED BY <2>1, <2>2
<1>2. /\ pending' = [pending EXCEPT ![v] = @ - 1] /\ faulted' = faulted
      /\ UNCHANGED <<confirmedEv, chain>>
  BY <1>0 DEF Refused, Lags, MarkFailed, NoFault, history
<1>3. LedgerTyped'
  BY <1>1, <1>2 DEF Ledger, LedgerTyped, chain
<1>4. ASSUME NEW w \in Invoices
      PROVE  /\ confirmedEv'[w]["newTokenization"] - confirmedEv[w]["newTokenization"] = mints'[w] - mints[w]
             /\ confirmedEv'[w]["newSto"] - confirmedEv[w]["newSto"] = offers'[w] - offers[w]
             /\ confirmedEv'[w]["whitelist"] > 0 => listed'[w]
  BY <1>2 DEF Ledger, LedgerTyped, LedgerMirrorsChain, TypeOK, Actions, chain
<1> QED BY <1>0, <1>1, <1>2, <1>3, <1>4, AnswerMirrors

(* A fault may leave a row unsettled or an effect unconfirmed: its invoice    *)
(* is marked, and a row is confirmed for an effect only.                     *)
LEMMA FaultMirrors ==
  ASSUME IsFiniteSet(Slots), Ledger, TypeOK, TypeOK', Alone, NEW s \in Slots, CallFaults(s) \/ NoStoId(s)
  PROVE  Ledger'
<1>0. PICK v \in Invoices : v = inv[s]
  BY DEF CallFaults, NoStoId, Waiting, Calls, TypeOK, Alone
<1>1. v \in Invoices /\ pc[s] \in Waiting /\ OthersWait(s) /\ inv' = inv
  <2> USE <1>0 DEF Goto, Waiting, Calls, TypeOK, Alone, OthersWait
  <2>1. CASE CallFaults(s)
    BY <2>1 DEF CallFaults
  <2>2. CASE NoStoId(s)
    BY <2>2 DEF NoStoId
  <2> QED BY <2>1, <2>2
<1>2. faulted' = faulted \cup {v}
  BY <1>0 DEF CallFaults, NoStoId, Fault
<1>3. /\ pending' = pending \/ pending' = [pending EXCEPT ![v] = @ - 1]
      /\ \/ TakesEffect(s) /\ Confirm(s) /\ pc[s] = "launching"
         \/ TakesEffect(s) /\ confirmedEv' = confirmedEv
         \/ UNCHANGED chain /\ confirmedEv' = confirmedEv
  BY <1>0 DEF CallFaults, NoStoId, MarkFailed, events, Confirm
<1>4. \A w \in Invoices \ {v} : InFlight(w)' = InFlight(w)
  <2>1. \A w \in Invoices \ {v}, t \in Slots : WaitsFor(t, w)' <=> WaitsFor(t, w)
    BY <1>0, <1>1 DEF WaitsFor, OthersWait
  <2> QED BY <2>1, InFlightSame
<1>5. LedgerTyped' /\ \A w \in Invoices \ {v} : pending'[w] = pending[w]
  <2>1. pending' \in [Invoices -> Int] /\ \A w \in Invoices \ {v} : pending'[w] = pending[w]
    BY <1>1, <1>3 DEF Ledger, LedgerTyped
  <2>2. confirmedEv' \in [Invoices -> [Actions -> Nat]]
    <3>1. CASE Confirm(s) /\ pc[s] = "launching"
      BY <1>0, <1>1, <3>1 DEF Ledger, LedgerTyped, Confirm, Calls, Actions
    <3> QED BY <1>3, <3>1 DEF Ledger, LedgerTyped
  <2>3. listed' \in [Invoices -> BOOLEAN]
    BY <1>0, <1>1, <1>3 DEF Ledger, LedgerTyped, TakesEffect, chain
  <2> QED BY <2>1, <2>2, <2>3 DEF LedgerTyped
<1>6. ASSUME NEW w \in Invoices
      PROVE  /\ w # v => /\ confirmedEv'[w] = confirmedEv[w] /\ mints'[w] = mints[w]
                         /\ offers'[w] = offers[w] /\ listed'[w] = listed[w]
             /\ confirmedEv'[w]["newTokenization"] = confirmedEv[w]["newTokenization"]
             /\ confirmedEv'[w]["whitelist"] = confirmedEv[w]["whitelist"]
             /\ mints'[w] >= mints[w] /\ offers'[w] >= offers[w]
             /\ listed[w] => listed'[w]
             /\ \/ confirmedEv'[w]["newSto"] = confirmedEv[w]["newSto"]
                \/ /\ confirmedEv'[w]["newSto"] = confirmedEv[w]["newSto"] + 1
                   /\ offers'[w] = offers[w] + 1
  <2>1. CASE UNCHANGED chain /\ confirmedEv' = confirmedEv
    BY <2>1 DEF chain, TypeOK
  <2>2. CASE TakesEffect(s) /\ confirmedEv' = confirmedEv
    BY <1>0, <1>1, <2>2 DEF TakesEffect, TypeOK, Ledger, LedgerTyped
  <2>3. CASE TakesEffect(s) /\ Confirm(s) /\ pc[s] = "launching"
    BY <1>0, <1>1, <2>3 DEF TakesEffect, Confirm, Calls, Actions, TypeOK, Ledger, LedgerTyped
  <2> QED BY <1>3, <2>1, <2>2, <2>3
<1>7. \A w \in Invoices :
        /\ confirmedEv[w]["newTokenization"] \in Nat /\ confirmedEv[w]["newSto"] \in Nat
        /\ mints[w] \in Nat /\ mints'[w] \in Nat /\ offers[w] \in Nat /\ offers'[w] \in Nat
  BY DEF LedgerTyped, Ledger, Actions, TypeOK
<1>8. ASSUME NEW w \in Invoices
      PROVE  /\ confirmedEv'[w]["newTokenization"] <= mints'[w] /\ confirmedEv'[w]["newSto"] <= offers'[w]
             /\ confirmedEv'[w]["whitelist"] > 0 => listed'[w]
  <2>1. /\ confirmedEv[w]["newTokenization"] <= mints[w] /\ confirmedEv[w]["newSto"] <= offers[w]
        /\ confirmedEv[w]["whitelist"] > 0 => listed[w]
    BY DEF Ledger, LedgerMirrorsChain
  <2> QED BY <1>6, <1>7, <2>1
<1>9. ASSUME NEW w \in Invoices, w \notin faulted'
      PROVE  /\ confirmedEv'[w]["newTokenization"] = mints'[w]
             /\ confirmedEv'[w]["newSto"] = offers'[w]
             /\ pending'[w] = Cardinality(InFlight(w)')
  <2>1. w # v /\ w \notin faulted
    BY <1>2, <1>9
  <2>2. pending'[w] = pending[w] /\ InFlight(w)' = InFlight(w)
    BY <1>4, <1>5, <2>1
  <2>3. /\ confirmedEv[w]["newTokenization"] = mints[w] /\ confirmedEv[w]["newSto"] = offers[w]
        /\ pending[w] = Cardinality(InFlight(w))
    BY <2>1 DEF Ledger, LedgerMirrorsChain
  <2> QED BY <1>6, <2>1, <2>2, <2>3
<1> QED BY <1>5, <1>8, <1>9 DEF Ledger, LedgerMirrorsChain

LEMMA CrashMirrors ==
  ASSUME IsFiniteSet(Slots), Ledger, TypeOK, TypeOK', Alone, Crash
  PROVE  Ledger'
<1> DEFINE Mined(m, v, stage) == {s \in m : inv[s] = v /\ pc[s] = stage}
<1>1. PICK mined \in SUBSET {s \in Slots : pc[s] \in Waiting} :
        /\ mints' = [v \in Invoices |-> mints[v] + Cardinality(Mined(mined, v, "tokenizing"))]
        /\ offers' = [v \in Invoices |-> offers[v] + Cardinality(Mined(mined, v, "launching"))]
        /\ listed' = [v \in Invoices |-> listed[v] \/ Mined(mined, v, "whitelisting") # {}]
  BY DEF Crash
<1>2. ASSUME NEW v \in Invoices, NEW stage
      PROVE  /\ Cardinality(Mined(mined, v, stage)) \in Nat
             /\ (\A s \in Slots : inv[s] # v) => Cardinality(Mined(mined, v, stage)) = 0
  <2>1. Mined(mined, v, stage) \subseteq Slots
    BY <1>1
  <2>2. IsFiniteSet(Mined(mined, v, stage))
    BY <2>1, FS_Subset
  <2>3. (\A s \in Slots : inv[s] # v) => Mined(mined, v, stage) = {}
    BY <2>1
  <2> QED BY <2>2, <2>3, FS_CardinalityType, FS_EmptySet
<1> HIDE DEF Mined
<1>3. \A v \in Invoices : /\ mints'[v] >= mints[v] /\ offers'[v] >= offers[v]
                          /\ listed[v] => listed'[v]
                          /\ (\A s \in Slots : inv[s] # v) => mints'[v] = mints[v] /\ offers'[v] = offers[v]
  <2> TAKE v \in Invoices
  <2>1. mints[v] \in Nat /\ offers[v] \in Nat
    BY DEF TypeOK
  <2>2. /\ Cardinality(Mined(mined, v, "tokenizing")) \in Nat /\ Cardinality(Mined(mined, v, "launching")) \in Nat
        /\ (\A s \in Slots : inv[s] # v) => /\ Cardinality(Mined(mined, v, "tokenizing")) = 0
                                            /\ Cardinality(Mined(mined, v, "launching")) = 0
    BY <1>2
  <2>3. /\ mints'[v] = mints[v] + Cardinality(Mined(mined, v, "tokenizing"))
        /\ offers'[v] = offers[v] + Cardinality(Mined(mined, v, "launching"))
        /\ listed[v] => listed'[v]
    BY <1>1
  <2> QED BY <2>1, <2>2, <2>3
<1>4. \A v \in Invoices \ faulted' : v \notin faulted /\ \A s \in Slots : inv[s] # v
  BY DEF Crash
<1>5. \A v \in Invoices \ faulted' : InFlight(v)' = InFlight(v)
  <2>1. \A v \in Invoices \ faulted', t \in Slots : ~WaitsFor(t, v) /\ ~WaitsFor(t, v)'
    BY <1>4 DEF Crash, WaitsFor
  <2> QED BY <2>1, InFlightSame
<1>6. UNCHANGED events /\ LedgerTyped'
  BY <1>1 DEF Crash, events, Ledger, LedgerTyped
<1>7. \A v \in Invoices :
        /\ confirmedEv[v]["newTokenization"] \in Nat /\ confirmedEv[v]["newSto"] \in Nat
        /\ mints[v] \in Nat /\ mints'[v] \in Nat /\ offers[v] \in Nat /\ offers'[v] \in Nat
  BY DEF LedgerTyped, Ledger, Actions, TypeOK
<1> QED BY <1>3, <1>4, <1>5, <1>6, <1>7 DEF events, Ledger, LedgerMirrorsChain

(* LedgerMirrors: a confirmed event is an effect the chain has, under every   *)
(* interleaving, fault and crash; without a fault the confirmed events are    *)
(* all of the effects and the pending ones exactly the calls on their way.   *)
THEOREM LedgerMirrors == ASSUME IsFiniteSet(Slots) PROVE Spec => []LedgerMirrorsChain
<1>1. Init => Ledger
  <2> SUFFICES ASSUME Init PROVE Ledger
    OBVIOUS
  <2>1. \A v \in Invoices : InFlight(v) = {}
    BY DEF Init, InFlight, Waiting, Calls
  <2>2. \A v \in Invoices : Cardinality(InFlight(v)) = 0
    BY <2>1, FS_EmptySet
  <2> QED BY <2>2 DEF Init, Ledger, LedgerTyped, LedgerMirrorsChain, Actions
<1>2. IInv /\ IInv' /\ Ledger /\ [Next]_vars => Ledger'
  <2> SUFFICES ASSUME IInv, IInv', Ledger, [Next]_vars PROVE Ledger'
    OBVIOUS
  <2>1. TypeOK /\ TypeOK' /\ Alone
    BY DEF IInv, Backed
  <2>2. CASE UNCHANGED vars
    <3>1. \A v \in Invoices, t \in Slots : WaitsFor(t, v)' <=> WaitsFor(t, v)
      BY <2>2 DEF vars, handlers, WaitsFor
    <3> QED BY <2>2, <3>1, LedgerRests DEF vars, history
  <2>3. ASSUME NEW s \in Slots, Proceed(s) PROVE Ledger'
    BY <2>1, <2>3, WritesRest, SendCallMirrors, SucceedsMirrors, RefusalMirrors, FaultMirrors DEF Proceed
  <2> QED BY <2>1, <2>2, <2>3, ReadsRest, CrashMirrors DEF Next
<1>3. Ledger => LedgerMirrorsChain
  BY DEF Ledger
<1> QED BY <1>1, <1>2, <1>3, Invariant, PTL DEF Spec

=============================================================================
