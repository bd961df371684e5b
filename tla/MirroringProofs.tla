--------------------------- MODULE MirroringProofs ---------------------------
(***************************************************************************)
(* Theorems about Mirroring, for all holdings and invoices, any finite set *)
(* of slots, all amounts and any number of retries and faults: what the    *)
(* event ledger says of the chain, and what a holding's one flag says of   *)
(* the investment Brickken was told of.                                    *)
(***************************************************************************)
EXTENDS Mirroring, FiniteSetTheorems, TLAPS

USE MirroringAssumption

Stages == {"idle", "funding", "skipping", "ready", "calling", "lagging", "invested", "failed"}

TypeOK ==
  /\ amount \in [Holdings -> Nat]
  /\ flag \in [Holdings -> {"none", "skipped", "failed"}]
  /\ pending \in [Invoices -> Int]
  /\ confirmed \in [Invoices -> Nat]
  /\ calls \in [Invoices -> Nat]
  /\ invested = [h \in Holdings |-> invested[h]]
  /\ pc \in [Slots -> Stages]
  /\ on \in [Slots -> Holdings \cup {None}]
  /\ asked \in [Slots -> Nat]
  /\ rounds \in [Holdings -> Nat]

(* A slot works on a holding or is idle, and no two slots work on a holding   *)
(* that the history does not call contended.                                 *)
Alone ==
  /\ \A s \in Slots : pc[s] = "idle" <=> on[s] = None
  /\ \A s, t \in Slots : s # t /\ on[s] = on[t] => on[s] \notin Calm

Typed == TypeOK /\ Alone

(* A call to Brickken of the handler in t is on its way for the invoice v.    *)
WaitsFor(t, v) == pc[t] = "calling" /\ InvoiceOf[on[t]] = v
InFlight(v) == {t \in Slots : WaitsFor(t, v)}

(* The slots other than that of the handler at work stay as they are.        *)
OthersRest(s) == \A t \in Slots \ {s} :
  on'[t] = on[t] /\ pc'[t] = pc[t] /\ asked'[t] = asked[t]

Told(h) == invested[h] = IF flag[h] = "none" THEN amount[h] ELSE 0

(* A calm holding at rest: nothing was told before its first funding, and    *)
(* after it the flag tells whether Brickken knows.                           *)
RestTells == \A h \in Calm :
  /\ rounds[h] = 0 => amount[h] = 0 /\ invested[h] = 0 /\ flag[h] = "none"
  /\ rounds[h] = 1 /\ Idle(h) => Told(h)

(* What the handler at work on a calm holding knows: before its call Brickken *)
(* was told of nothing, and the call asks for what the holding has.          *)
Untold == {"skipping", "ready", "calling", "lagging", "failed"}
Asking == {"ready", "calling", "lagging"}
WorkTells == \A s \in Slots : on[s] \in Calm =>
  /\ rounds[on[s]] = 0 => pc[s] = "funding"
  /\ rounds[on[s]] = 1 =>
       /\ pc[s] = "funding" => Told(on[s])
       /\ pc[s] \in Untold => invested[on[s]] = 0
       /\ pc[s] \in Asking => asked[s] = amount[on[s]]
       /\ pc[s] = "invested" => invested[on[s]] = amount[on[s]]

Flags == RestTells /\ WorkTells

(* A sum over nothing. *)
LEMMA SumOfNothing == ASSUME NEW f PROVE SumFunctionOnSet(f, {}) = 0
<1> DEFINE P(g) == g = [T \in SUBSET {} |-> IF T = {} THEN 0
                          ELSE LET x == CHOOSE x \in T : TRUE IN f[x] + g[T \ {x}]]
<1>1. P([T \in SUBSET {} |-> 0])
  OBVIOUS
<1>2. P(CHOOSE g : P(g))
  <2> HIDE DEF P
  <2> QED BY <1>1
<1>3. (CHOOSE g : P(g))[{}] = 0
  BY <1>2
<1> QED BY <1>3 DEF SumFunctionOnSet, FoldFunctionOnSet, MapThenFoldSet

-----------------------------------------------------------------------------
(* Types, and who works on what. *)

LEMMA FundReadTyped == ASSUME Typed, NEW s \in Slots, NEW h \in Holdings, NEW a \in Amounts, FundRead(s, h, a) PROVE Typed'
<1> USE DEF Typed, TypeOK, Alone, columns, events, chain, handlers, bounds, history, FundRead, Start
<1>1. TypeOK'
  BY DEF Stages
<1>2. Alone'
  BY DEF Calm
<1> QED BY <1>1, <1>2

LEMMA RetryReadTyped == ASSUME Typed, NEW s \in Slots, NEW h \in Holdings, RetryRead(s, h) PROVE Typed'
<1> USE DEF Typed, TypeOK, Alone, columns, events, chain, handlers, bounds, history, RetryRead, Start
<1>1. TypeOK'
  BY DEF Stages
<1>2. Alone'
  BY DEF Calm
<1> QED BY <1>1, <1>2

LEMMA FundCommitTyped == ASSUME Typed, NEW s \in Slots, FundCommit(s) PROVE Typed'
<1> USE DEF Typed, TypeOK, Alone, columns, events, chain, handlers, bounds, history, FundCommit, Goto
<1>1. TypeOK'
  BY DEF Stages
<1>2. Alone'
  BY DEF Calm
<1> QED BY <1>1, <1>2

LEMMA SkipTyped == ASSUME Typed, NEW s \in Slots, Skip(s) PROVE Typed'
<1> USE DEF Typed, TypeOK, Alone, columns, events, chain, handlers, bounds, history, Skip, Finish, NoFault
<1>1. TypeOK'
  BY DEF Stages
<1>2. Alone'
  BY DEF Calm
<1> QED BY <1>1, <1>2

LEMMA SendCallTyped == ASSUME Typed, NEW s \in Slots, SendCall(s) PROVE Typed'
<1> USE DEF Typed, TypeOK, Alone, columns, events, chain, handlers, bounds, history, SendCall, Goto, NoFault
<1>1. TypeOK'
  BY DEF Stages
<1>2. Alone'
  BY DEF Calm
<1> QED BY <1>1, <1>2

LEMMA SucceedsTyped == ASSUME Typed, NEW s \in Slots, Succeeds(s) PROVE Typed'
<1> USE DEF Typed, TypeOK, Alone, columns, events, chain, handlers, bounds, history, Succeeds, TakesEffect, Confirm, Goto, NoFault
<1>1. TypeOK'
  BY DEF Stages
<1>2. Alone'
  BY DEF Calm
<1> QED BY <1>1, <1>2

LEMMA RefusedTyped == ASSUME Typed, NEW s \in Slots, Refused(s) PROVE Typed'
<1> USE DEF Typed, TypeOK, Alone, columns, events, chain, handlers, bounds, history, Refused, MarkFailed, Goto, NoFault
<1>1. TypeOK'
  BY DEF Stages
<1>2. Alone'
  BY DEF Calm
<1> QED BY <1>1, <1>2

LEMMA LagsTyped == ASSUME Typed, NEW s \in Slots, Lags(s) PROVE Typed'
<1> USE DEF Typed, TypeOK, Alone, columns, events, chain, handlers, bounds, history, Lags, MarkFailed, Goto, NoFault
<1>1. TypeOK'
  BY DEF Stages
<1>2. Alone'
  BY DEF Calm
<1> QED BY <1>1, <1>2

LEMMA CallFaultsTyped == ASSUME Typed, NEW s \in Slots, CallFaults(s) PROVE Typed'
<1> USE DEF Typed, TypeOK, Alone, columns, events, chain, handlers, bounds, history, CallFaults, TakesEffect, MarkFailed, Goto, Fault
<1>1. TypeOK'
  BY DEF Stages
<1>2. Alone'
  BY DEF Calm
<1> QED BY <1>1, <1>2

LEMMA ClearFlagTyped == ASSUME Typed, NEW s \in Slots, ClearFlag(s) PROVE Typed'
<1> USE DEF Typed, TypeOK, Alone, columns, events, chain, handlers, bounds, history, ClearFlag, Cleared, Finish, NoFault
<1>1. TypeOK'
  BY DEF Stages
<1>2. Alone'
  BY DEF Calm
<1> QED BY <1>1, <1>2

LEMMA RecordFailureTyped == ASSUME Typed, NEW s \in Slots, RecordFailure(s) PROVE Typed'
<1> USE DEF Typed, TypeOK, Alone, columns, events, chain, handlers, bounds, history, RecordFailure, Raised, Finish, NoFault
<1>1. TypeOK'
  BY DEF Stages
<1>2. Alone'
  BY DEF Calm
<1> QED BY <1>1, <1>2

LEMMA WriteFailsTyped == ASSUME Typed, NEW s \in Slots, WriteFails(s) PROVE Typed'
<1> USE DEF Typed, TypeOK, Alone, columns, events, chain, handlers, bounds, history, WriteFails, Goto, Finish, Fault
<1>1. TypeOK'
  BY DEF Stages
<1>2. Alone'
  BY DEF Calm
<1> QED BY <1>1, <1>2

(* A crash takes the handlers with it.  Calls on their way may still be mined, *)
(* for the holdings it marks: what is told of any other stays as it is.      *)
LEMMA CrashMines ==
  ASSUME IsFiniteSet(Slots), Typed, Crash
  PROVE  /\ calls' \in [Invoices -> Nat] /\ invested' = [h \in Holdings |-> invested'[h]]
         /\ \A v \in Invoices : calls'[v] >= calls[v]
         /\ \A v \in Invoices : Untouched(v)' => calls'[v] = calls[v] /\ \A s \in Slots : ~WaitsFor(s, v)
         /\ \A h \in Calm' : /\ h \in Calm /\ Idle(h)
                             /\ invested[h] \in Int => invested'[h] = invested[h]
<1> DEFINE Mined(m, v) == {s \in m : InvoiceOf[on[s]] = v}
<1>1. PICK mined \in SUBSET {s \in Slots : pc[s] = "calling"} :
        /\ calls' = [v \in Invoices |-> calls[v] + Cardinality(Mined(mined, v))]
        /\ invested' = [h \in Holdings |->
             invested[h] + SumFunctionOnSet(asked, {s \in mined : on[s] = h})]
  BY DEF Crash
<1>2. ASSUME NEW v \in Invoices
      PROVE  /\ Cardinality(Mined(mined, v)) \in Nat
             /\ (\A s \in Slots : ~WaitsFor(s, v)) => Cardinality(Mined(mined, v)) = 0
  <2>1. IsFiniteSet(Mined(mined, v))
    <3>1. Mined(mined, v) \subseteq Slots
      BY <1>1
    <3> QED BY <3>1, FS_Subset
  <2>2. (\A s \in Slots : ~WaitsFor(s, v)) => Mined(mined, v) = {}
    BY <1>1 DEF WaitsFor
  <2> QED BY <2>1, <2>2, FS_CardinalityType, FS_EmptySet
<1> HIDE DEF Mined
<1>3. calls' \in [Invoices -> Nat] /\ \A v \in Invoices : calls'[v] >= calls[v]
  BY <1>1, <1>2 DEF Typed, TypeOK
<1>4. faulted' = faulted \cup ({on[s] : s \in Slots} \ {None}) /\ contended' = contended
  BY DEF Crash
<1>5. ASSUME NEW v \in Invoices, Untouched(v)'
      PROVE  calls'[v] = calls[v] /\ \A s \in Slots : ~WaitsFor(s, v)
  <2>1. ASSUME NEW s \in Slots, WaitsFor(s, v)
        PROVE  FALSE
    <3>1. on[s] \in Holdings /\ on[s] \in faulted'
      BY <1>4, <2>1 DEF WaitsFor, Typed, TypeOK, Alone
    <3> QED BY <1>5, <2>1, <3>1 DEF Untouched, WaitsFor
  <2>2. Cardinality(Mined(mined, v)) = 0 /\ calls[v] \in Nat
    BY <1>2, <2>1 DEF Typed, TypeOK
  <2>3. calls'[v] = calls[v] + Cardinality(Mined(mined, v))
    BY <1>1
  <2> QED BY <2>1, <2>2, <2>3
<1>6. ASSUME NEW h \in Calm'
      PROVE  h \in Calm /\ Idle(h) /\ (invested[h] \in Int => invested'[h] = invested[h])
  <2>1. h \in Calm /\ Idle(h) /\ h \in Holdings
    BY <1>4 DEF Calm, Idle
  <2>2. {s \in mined : on[s] = h} = {}
    BY <1>1, <2>1 DEF Idle
  <2>3. invested'[h] = invested[h] + 0
    BY <1>1, <2>1, <2>2, SumOfNothing
  <2> QED BY <2>1, <2>3
<1>7. invested' = [h \in Holdings |-> invested'[h]]
  BY <1>1
<1> QED BY <1>3, <1>5, <1>6, <1>7

LEMMA CrashTyped == ASSUME IsFiniteSet(Slots), Typed, Crash PROVE Typed'
<1>1. calls' \in [Invoices -> Nat] /\ invested' = [h \in Holdings |-> invested'[h]]
  BY CrashMines
<1>2. /\ UNCHANGED <<columns, events, rounds, contended>>
      /\ pc' = [s \in Slots |-> "idle"] /\ on' = [s \in Slots |-> None] /\ asked' = [s \in Slots |-> 0]
  BY DEF Crash
<1>3. TypeOK'
  BY <1>1, <1>2 DEF Typed, TypeOK, columns, events, Stages
<1>4. Alone'
  BY <1>2 DEF Alone, Calm
<1> QED BY <1>3, <1>4 DEF Typed

LEMMA TypedInit == Init => Typed
BY DEF Init, Typed, TypeOK, Alone, Stages, Calm

LEMMA TypedNext == ASSUME IsFiniteSet(Slots), Typed, [Next]_vars PROVE Typed'
<1>1. CASE UNCHANGED vars
  BY <1>1 DEF vars, columns, events, chain, handlers, history, Typed, TypeOK, Alone, Calm
<1>2. ASSUME NEW v \in Invoices, Launch(v) PROVE Typed'
  BY <1>2 DEF Launch, events, chain, handlers, history, Typed, TypeOK, Alone, Calm
<1>3. ASSUME NEW s \in Slots, Proceed(s) PROVE Typed'
  BY <1>3, FundCommitTyped, SkipTyped, SendCallTyped, SucceedsTyped, RefusedTyped, LagsTyped,
     CallFaultsTyped, ClearFlagTyped, RecordFailureTyped, WriteFailsTyped DEF Proceed
<1> QED BY <1>1, <1>2, <1>3, FundReadTyped, RetryReadTyped, CrashTyped DEF Next

LEMMA TypedHolds == ASSUME IsFiniteSet(Slots) PROVE Spec => []Typed
<1> QED BY TypedInit, TypedNext, PTL DEF Spec

-----------------------------------------------------------------------------
(* What the flag of a calm holding tells.  A step disturbs the holding that   *)
(* its handler works on; every other is as it was.                           *)

LEMMA FundReadTells == ASSUME Typed, Flags, NEW s \in Slots, NEW h \in Holdings, NEW a \in Amounts, FundRead(s, h, a) PROVE Flags'
<1> USE DEF Typed, TypeOK, Alone, Flags, columns, events, chain, handlers, bounds, history, FundRead, Start,
            Stages, Calm, Untold, Asking
<1>1. RestTells'
  BY DEF RestTells, WorkTells, Told, Idle
<1>2. WorkTells'
  BY DEF RestTells, WorkTells, Told, Idle
<1> QED BY <1>1, <1>2

LEMMA RetryReadTells == ASSUME Typed, Flags, NEW s \in Slots, NEW h \in Holdings, RetryRead(s, h) PROVE Flags'
<1> USE DEF Typed, TypeOK, Alone, Flags, columns, events, chain, handlers, bounds, history, RetryRead, Start, Retriable,
            Stages, Calm, Untold, Asking
<1>1. RestTells'
  BY DEF RestTells, WorkTells, Told, Idle
<1>2. WorkTells'
  BY DEF RestTells, WorkTells, Told, Idle
<1> QED BY <1>1, <1>2

LEMMA FundCommitTells == ASSUME Typed, Flags, NEW s \in Slots, FundCommit(s) PROVE Flags'
<1> USE DEF Typed, TypeOK, Alone, Flags, columns, events, chain, handlers, bounds, history, FundCommit, Goto,
            Stages, Calm, Untold, Asking
<1>1. RestTells'
  BY DEF RestTells, WorkTells, Told, Idle
<1>2. WorkTells'
  BY DEF RestTells, WorkTells, Told, Idle
<1> QED BY <1>1, <1>2

LEMMA SkipTells == ASSUME Typed, Flags, NEW s \in Slots, Skip(s) PROVE Flags'
<1> USE DEF Typed, TypeOK, Alone, Flags, columns, events, chain, handlers, bounds, history, Skip, Finish, NoFault,
            Stages, Calm, Untold, Asking
<1>1. RestTells'
  BY DEF RestTells, WorkTells, Told, Idle
<1>2. WorkTells'
  BY DEF RestTells, WorkTells, Told, Idle
<1> QED BY <1>1, <1>2

LEMMA SendCallTells == ASSUME Typed, Flags, NEW s \in Slots, SendCall(s) PROVE Flags'
<1> USE DEF Typed, TypeOK, Alone, Flags, columns, events, chain, handlers, bounds, history, SendCall, Goto, NoFault,
            Stages, Calm, Untold, Asking
<1>1. RestTells'
  BY DEF RestTells, WorkTells, Told, Idle
<1>2. WorkTells'
  BY DEF RestTells, WorkTells, Told, Idle
<1> QED BY <1>1, <1>2

LEMMA SucceedsTells == ASSUME Typed, Flags, NEW s \in Slots, Succeeds(s) PROVE Flags'
<1> USE DEF Typed, TypeOK, Alone, Flags, columns, events, chain, handlers, bounds, history, Succeeds, TakesEffect, Confirm, Goto, NoFault,
            Stages, Calm, Untold, Asking
<1>1. RestTells'
  BY DEF RestTells, WorkTells, Told, Idle
<1>2. WorkTells'
  BY DEF RestTells, WorkTells, Told, Idle
<1> QED BY <1>1, <1>2

LEMMA RefusedTells == ASSUME Typed, Flags, NEW s \in Slots, Refused(s) PROVE Flags'
<1> USE DEF Typed, TypeOK, Alone, Flags, columns, events, chain, handlers, bounds, history, Refused, MarkFailed, Goto, NoFault,
            Stages, Calm, Untold, Asking
<1>1. RestTells'
  BY DEF RestTells, WorkTells, Told, Idle
<1>2. WorkTells'
  BY DEF RestTells, WorkTells, Told, Idle
<1> QED BY <1>1, <1>2

LEMMA LagsTells == ASSUME Typed, Flags, NEW s \in Slots, Lags(s) PROVE Flags'
<1> USE DEF Typed, TypeOK, Alone, Flags, columns, events, chain, handlers, bounds, history, Lags, MarkFailed, Goto, NoFault,
            Stages, Calm, Untold, Asking
<1>1. RestTells'
  BY DEF RestTells, WorkTells, Told, Idle
<1>2. WorkTells'
  BY DEF RestTells, WorkTells, Told, Idle
<1> QED BY <1>1, <1>2

LEMMA CallFaultsTells == ASSUME Typed, Flags, NEW s \in Slots, CallFaults(s) PROVE Flags'
<1> USE DEF Typed, TypeOK, Alone, Flags, columns, events, chain, handlers, bounds, history, CallFaults, TakesEffect, MarkFailed, Goto, Fault,
            Stages, Calm, Untold, Asking
<1>1. RestTells'
  BY DEF RestTells, WorkTells, Told, Idle
<1>2. WorkTells'
  BY DEF RestTells, WorkTells, Told, Idle
<1> QED BY <1>1, <1>2

LEMMA ClearFlagTells == ASSUME Typed, Flags, NEW s \in Slots, ClearFlag(s) PROVE Flags'
<1> USE DEF Typed, TypeOK, Alone, Flags, columns, events, chain, handlers, bounds, history, ClearFlag, Cleared, Finish, NoFault,
            Stages, Calm, Untold, Asking
<1>1. RestTells'
  BY DEF RestTells, WorkTells, Told, Idle
<1>2. WorkTells'
  BY DEF RestTells, WorkTells, Told, Idle
<1> QED BY <1>1, <1>2

LEMMA RecordFailureTells == ASSUME Typed, Flags, NEW s \in Slots, RecordFailure(s) PROVE Flags'
<1> USE DEF Typed, TypeOK, Alone, Flags, columns, events, chain, handlers, bounds, history, RecordFailure, Raised, Finish, NoFault,
            Stages, Calm, Untold, Asking
<1>1. RestTells'
  BY DEF RestTells, WorkTells, Told, Idle
<1>2. WorkTells'
  BY DEF RestTells, WorkTells, Told, Idle
<1> QED BY <1>1, <1>2

LEMMA WriteFailsTells == ASSUME Typed, Flags, NEW s \in Slots, WriteFails(s) PROVE Flags'
<1> USE DEF Typed, TypeOK, Alone, Flags, columns, events, chain, handlers, bounds, history, WriteFails, Caught, Goto, Finish, Fault,
            Stages, Calm, Untold, Asking
<1>1. RestTells'
  BY DEF RestTells, WorkTells, Told, Idle
<1>2. WorkTells'
  BY DEF RestTells, WorkTells, Told, Idle
<1> QED BY <1>1, <1>2

LEMMA CrashTells == ASSUME IsFiniteSet(Slots), Typed, Flags, Crash PROVE Flags'
<1>1. \A h \in Calm' : h \in Calm /\ Idle(h) /\ (invested[h] \in Int => invested'[h] = invested[h])
  BY CrashMines
<1>2. UNCHANGED <<amount, flag, rounds>> /\ \A s \in Slots : on'[s] = None
  BY DEF Crash, columns
<1>3. \A h \in Calm : amount[h] \in Nat
  BY DEF Typed, TypeOK, Calm
<1>4. RestTells'
  <2> SUFFICES ASSUME NEW h \in Calm'
               PROVE  /\ rounds[h] = 0 => amount[h] = 0 /\ invested'[h] = 0 /\ flag[h] = "none"
                      /\ rounds[h] = 1 => invested'[h] = IF flag[h] = "none" THEN amount[h] ELSE 0
    BY <1>2 DEF RestTells, Told
  <2>1. h \in Calm /\ Idle(h) /\ (invested[h] \in Int => invested'[h] = invested[h])
    BY <1>1
  <2>2. /\ rounds[h] = 0 => amount[h] = 0 /\ invested[h] = 0 /\ flag[h] = "none"
        /\ rounds[h] = 1 => invested[h] = IF flag[h] = "none" THEN amount[h] ELSE 0
    BY <2>1 DEF Flags, RestTells, Told
  <2> QED BY <1>3, <2>1, <2>2
<1>5. WorkTells'
  BY <1>2 DEF WorkTells, Calm
<1> QED BY <1>4, <1>5 DEF Flags

LEMMA FlagsInit == Init => Flags
BY DEF Init, Flags, RestTells, WorkTells, Calm

LEMMA FlagsNext == ASSUME IsFiniteSet(Slots), Typed, Flags, [Next]_vars PROVE Flags'
<1>1. CASE UNCHANGED vars
  BY <1>1 DEF vars, columns, chain, handlers, history, Flags, RestTells, WorkTells, Told, Calm, Idle
<1>2. ASSUME NEW v \in Invoices, Launch(v) PROVE Flags'
  BY <1>2 DEF Launch, chain, handlers, history, Flags, RestTells, WorkTells, Told, Calm, Idle
<1>3. ASSUME NEW s \in Slots, Proceed(s) PROVE Flags'
  BY <1>3, FundCommitTells, SkipTells, SendCallTells, SucceedsTells, RefusedTells, LagsTells,
     CallFaultsTells, ClearFlagTells, RecordFailureTells, WriteFailsTells DEF Proceed
<1> QED BY <1>1, <1>2, <1>3, FundReadTells, RetryReadTells, CrashTells DEF Next

LEMMA FlagsTell == Typed /\ Flags => SingleRoundFlagTells
<1> SUFFICES ASSUME Typed, Flags, NEW h \in Calm, rounds[h] = 1
             PROVE  /\ invested[h] <= amount[h]
                    /\ Idle(h) => invested[h] = IF flag[h] = "none" THEN amount[h] ELSE 0
  BY DEF SingleRoundFlagTells
<1>1. amount[h] \in Nat
  BY DEF Typed, TypeOK, Calm
<1>2. CASE Idle(h)
  BY <1>1, <1>2 DEF Flags, RestTells, Told
<1>3. ASSUME NEW s \in Slots, on[s] = h PROVE invested[h] <= amount[h]
  <2>1. pc[s] \in Stages \ {"idle"}
    BY <1>3 DEF Typed, TypeOK, Alone, Calm
  <2> QED BY <1>1, <1>3, <2>1 DEF Flags, WorkTells, Told, Untold, Stages
<1> QED BY <1>2, <1>3 DEF Idle

(* FlagTells: what the one flag of a holding says of it is true whenever no   *)
(* request works on the holding, for a holding of one funding that no fault   *)
(* hit; and Brickken is never told of more than the holding has.             *)
THEOREM FlagTells == ASSUME IsFiniteSet(Slots) PROVE Spec => []SingleRoundFlagTells
<1> QED BY TypedHolds, FlagsInit, FlagsNext, FlagsTell, PTL DEF Spec

-----------------------------------------------------------------------------
(* The ledger of events against the chain. *)

Ledger == \A v \in Invoices :
  /\ confirmed[v] <= calls[v]
  /\ Untouched(v) => confirmed[v] = calls[v] /\ pending[v] = Cardinality(InFlight(v))

LEMMA InFlightSame == ASSUME NEW v, \A t \in Slots : WaitsFor(t, v)' <=> WaitsFor(t, v)
                      PROVE  InFlight(v)' = InFlight(v)
BY DEF InFlight

LEMMA InFlightEnters ==
  ASSUME IsFiniteSet(Slots), NEW v, NEW s \in Slots, WaitsFor(s, v)', ~WaitsFor(s, v),
         \A t \in Slots \ {s} : WaitsFor(t, v)' <=> WaitsFor(t, v)
  PROVE  Cardinality(InFlight(v)') = Cardinality(InFlight(v)) + 1
<1>1. InFlight(v)' = InFlight(v) \cup {s} /\ s \notin InFlight(v)
  BY DEF InFlight
<1>2. IsFiniteSet(InFlight(v))
  BY FS_Subset DEF InFlight
<1> QED BY <1>1, <1>2, FS_AddElement

LEMMA InFlightLeaves ==
  ASSUME IsFiniteSet(Slots), NEW v, NEW s \in Slots, ~WaitsFor(s, v)', WaitsFor(s, v),
         \A t \in Slots \ {s} : WaitsFor(t, v)' <=> WaitsFor(t, v)
  PROVE  Cardinality(InFlight(v)') = Cardinality(InFlight(v)) - 1
<1>1. InFlight(v)' = InFlight(v) \ {s} /\ s \in InFlight(v)
  BY DEF InFlight
<1>2. IsFiniteSet(InFlight(v))
  BY FS_Subset DEF InFlight
<1> QED BY <1>1, <1>2, FS_RemoveElement

(* A step that neither sends nor settles a call. *)
LEMMA LedgerRests ==
  ASSUME Ledger, UNCHANGED <<pending, confirmed, calls>>, faulted \subseteq faulted',
         \A v \in Invoices, t \in Slots : WaitsFor(t, v)' <=> WaitsFor(t, v)
  PROVE  Ledger'
<1> SUFFICES ASSUME NEW v \in Invoices
             PROVE  /\ confirmed'[v] <= calls'[v]
                    /\ Untouched(v)' => /\ confirmed'[v] = calls'[v]
                                        /\ pending'[v] = Cardinality(InFlight(v)')
  BY DEF Ledger
<1>1. InFlight(v)' = InFlight(v)
  BY InFlightSame
<1>2. Untouched(v)' => Untouched(v)
  BY DEF Untouched
<1> QED BY <1>1, <1>2 DEF Ledger

LEMMA HandlersRest ==
  ASSUME Ledger, Typed, NEW s \in Slots,
         \/ \E h \in Holdings : RetryRead(s, h) \/ \E a \in Amounts : FundRead(s, h, a)
         \/ FundCommit(s) \/ Skip(s) \/ ClearFlag(s) \/ RecordFailure(s) \/ WriteFails(s)
  PROVE  Ledger'
<1> USE DEF Typed, TypeOK, Start, Goto, Finish
<1>1. pc[s] # "calling" /\ pc'[s] # "calling" /\ OthersRest(s)
  <2> USE DEF OthersRest
  <2>1. ASSUME NEW h \in Holdings, NEW a \in Amounts, RetryRead(s, h) \/ FundRead(s, h, a)
        PROVE  pc[s] # "calling" /\ pc'[s] # "calling" /\ OthersRest(s)
    BY <2>1 DEF RetryRead, FundRead
  <2>2. CASE \E h \in Holdings : RetryRead(s, h)
    BY <2>2 DEF RetryRead
  <2>3. CASE FundCommit(s) \/ Skip(s)
    BY <2>3 DEF FundCommit, Skip
  <2>4. CASE ClearFlag(s) \/ RecordFailure(s)
    BY <2>4 DEF ClearFlag, RecordFailure
  <2>5. CASE WriteFails(s)
    BY <2>5 DEF WriteFails
  <2> QED BY <2>1, <2>2, <2>3, <2>4, <2>5
<1>2. UNCHANGED <<pending, confirmed, calls>> /\ faulted \subseteq faulted'
  BY DEF RetryRead, FundRead, FundCommit, Skip, ClearFlag, RecordFailure, WriteFails, NoFault, Fault,
         history, events, chain
<1>3. \A v \in Invoices, t \in Slots : WaitsFor(t, v)' <=> WaitsFor(t, v)
  BY <1>1 DEF OthersRest, WaitsFor
<1> QED BY <1>2, <1>3, LedgerRests

LEMMA SendCallMirrors == ASSUME IsFiniteSet(Slots), Ledger, Typed, NEW s \in Slots, SendCall(s)
                         PROVE  Ledger'
<1>1. PICK v \in Invoices : on[s] \in Holdings /\ v = InvoiceOf[on[s]]
  BY DEF SendCall, Typed, TypeOK, Alone
<1>2. pc[s] # "calling" /\ pc'[s] = "calling" /\ on' = on /\ OthersRest(s)
  BY DEF SendCall, Goto, Typed, TypeOK, OthersRest
<1>3. pending' = [pending EXCEPT ![v] = @ + 1] /\ UNCHANGED <<confirmed, calls, faulted>>
  BY <1>1 DEF SendCall, NoFault, history, chain
<1>4. Cardinality(InFlight(v)') = Cardinality(InFlight(v)) + 1
  BY <1>1, <1>2, InFlightEnters DEF WaitsFor, OthersRest
<1>5. ASSUME NEW w \in Invoices \ {v}
      PROVE  InFlight(w)' = InFlight(w)
  <2>1. \A t \in Slots : WaitsFor(t, w)' <=> WaitsFor(t, w)
    BY <1>1, <1>2 DEF WaitsFor, OthersRest
  <2> QED BY <2>1, InFlightSame
<1> SUFFICES ASSUME NEW w \in Invoices
             PROVE  /\ confirmed'[w] <= calls'[w]
                    /\ Untouched(w)' => /\ confirmed'[w] = calls'[w]
                                        /\ pending'[w] = Cardinality(InFlight(w)')
  BY DEF Ledger
<1>6. Untouched(w)' => Untouched(w)
  BY <1>3 DEF Untouched
<1>7. pending'[w] = IF w = v THEN pending[w] + 1 ELSE pending[w]
  BY <1>1, <1>3 DEF Typed, TypeOK
<1> QED BY <1>3, <1>4, <1>5, <1>6, <1>7 DEF Ledger

(* A handler gets its answer: what the ledger confirms is what was mined.    *)
LEMMA AnswerMirrors ==
  ASSUME IsFiniteSet(Slots), Ledger, Typed, NEW s \in Slots, Succeeds(s) \/ Refused(s) \/ Lags(s)
  PROVE  Ledger'
<1>1. PICK v \in Invoices : on[s] \in Holdings /\ v = InvoiceOf[on[s]]
  BY DEF Succeeds, Refused, Lags, Typed, TypeOK, Alone
<1>2. pc[s] = "calling" /\ pc'[s] # "calling" /\ on' = on /\ OthersRest(s)
  BY DEF Succeeds, Refused, Lags, Goto, Typed, TypeOK, OthersRest
<1>3. /\ pending' = [pending EXCEPT ![v] = @ - 1] /\ faulted' = faulted
      /\ \/ UNCHANGED <<confirmed, calls>>
         \/ confirmed' = [confirmed EXCEPT ![v] = @ + 1] /\ calls' = [calls EXCEPT ![v] = @ + 1]
  BY <1>1 DEF Succeeds, Refused, Lags, Confirm, MarkFailed, TakesEffect, NoFault, history, chain
<1>4. Cardinality(InFlight(v)') = Cardinality(InFlight(v)) - 1
  BY <1>1, <1>2, InFlightLeaves DEF WaitsFor, OthersRest
<1>5. ASSUME NEW w \in Invoices \ {v}
      PROVE  InFlight(w)' = InFlight(w)
  <2>1. \A t \in Slots : WaitsFor(t, w)' <=> WaitsFor(t, w)
    BY <1>1, <1>2 DEF WaitsFor, OthersRest
  <2> QED BY <2>1, InFlightSame
<1> SUFFICES ASSUME NEW w \in Invoices
             PROVE  /\ confirmed'[w] <= calls'[w]
                    /\ Untouched(w)' => /\ confirmed'[w] = calls'[w]
                                        /\ pending'[w] = Cardinality(InFlight(w)')
  BY DEF Ledger
<1>6. Untouched(w)' => Untouched(w)
  BY <1>3 DEF Untouched
<1>7. pending'[w] = IF w = v THEN pending[w] - 1 ELSE pending[w]
  BY <1>1, <1>3 DEF Typed, TypeOK
<1>8. /\ confirmed[w] \in Nat /\ calls[w] \in Nat
      /\ \/ confirmed'[w] = confirmed[w] /\ calls'[w] = calls[w]
         \/ confirmed'[w] = confirmed[w] + 1 /\ calls'[w] = calls[w] + 1
  BY <1>1, <1>3 DEF Typed, TypeOK
<1> QED BY <1>4, <1>5, <1>6, <1>7, <1>8 DEF Ledger

(* A fault may leave a row unsettled or an investment unconfirmed: its        *)
(* holding is marked, and nothing is confirmed.                              *)
LEMMA FaultMirrors == ASSUME Ledger, Typed, NEW s \in Slots, CallFaults(s) PROVE Ledger'
<1>1. PICK v \in Invoices : on[s] \in Holdings /\ v = InvoiceOf[on[s]]
  BY DEF CallFaults, Typed, TypeOK, Alone
<1>2. pc[s] = "calling" /\ on' = on /\ OthersRest(s) /\ faulted' = faulted \cup {on[s]}
  BY DEF CallFaults, Goto, Fault, Typed, TypeOK, OthersRest
<1>3. /\ pending' = pending \/ pending' = [pending EXCEPT ![v] = @ - 1]
      /\ confirmed' = confirmed
      /\ calls' = calls \/ calls' = [calls EXCEPT ![v] = @ + 1]
  BY <1>1 DEF CallFaults, MarkFailed, TakesEffect, events, chain
<1> SUFFICES ASSUME NEW w \in Invoices
             PROVE  /\ confirmed'[w] <= calls'[w]
                    /\ Untouched(w)' => /\ confirmed'[w] = calls'[w]
                                        /\ pending'[w] = Cardinality(InFlight(w)')
  BY DEF Ledger
<1>4. Untouched(w)' => Untouched(w) /\ w # v
  BY <1>1, <1>2 DEF Untouched
<1>5. w # v => InFlight(w)' = InFlight(w) /\ pending'[w] = pending[w] /\ calls'[w] = calls[w]
  <2> SUFFICES ASSUME w # v PROVE InFlight(w)' = InFlight(w) /\ pending'[w] = pending[w] /\ calls'[w] = calls[w]
    OBVIOUS
  <2>1. \A t \in Slots : WaitsFor(t, w)' <=> WaitsFor(t, w)
    BY <1>1, <1>2 DEF WaitsFor, OthersRest
  <2>2. InFlight(w)' = InFlight(w)
    BY <2>1, InFlightSame
  <2> QED BY <1>1, <1>3, <2>2 DEF Typed, TypeOK
<1>6. calls'[w] >= calls[w] /\ calls[w] \in Nat /\ confirmed[w] \in Nat /\ calls'[w] \in Nat
  BY <1>1, <1>3 DEF Typed, TypeOK
<1> QED BY <1>3, <1>4, <1>5, <1>6 DEF Ledger

LEMMA CrashMirrors == ASSUME IsFiniteSet(Slots), Ledger, Typed, Crash PROVE Ledger'
<1> SUFFICES ASSUME NEW v \in Invoices
             PROVE  /\ confirmed'[v] <= calls'[v]
                    /\ Untouched(v)' => /\ confirmed'[v] = calls'[v]
                                        /\ pending'[v] = Cardinality(InFlight(v)')
  BY DEF Ledger
<1>1. calls'[v] >= calls[v] /\ calls'[v] \in Nat
  BY CrashMines
<1>2. Untouched(v)' => calls'[v] = calls[v] /\ \A s \in Slots : ~WaitsFor(s, v)
  BY CrashMines
<1>3. \A s \in Slots : ~WaitsFor(s, v)'
  BY DEF Crash, WaitsFor
<1>4. Untouched(v)' => InFlight(v)' = InFlight(v)
  BY <1>2, <1>3, InFlightSame
<1>5. Untouched(v)' => Untouched(v)
  BY DEF Crash, Untouched
<1>6. confirmed'[v] = confirmed[v] /\ pending'[v] = pending[v]
  BY DEF Crash, events
<1>7. confirmed[v] \in Nat /\ calls[v] \in Nat
  BY DEF Typed, TypeOK
<1> QED BY <1>1, <1>2, <1>4, <1>5, <1>6, <1>7 DEF Ledger

(* LedgerMirrors: a confirmed newInvest event is an investment Brickken has,  *)
(* under every interleaving, fault and crash; where no fault hit a holding of *)
(* the invoice the confirmed ones are all, and the pending the calls under way. *)
THEOREM LedgerMirrors == ASSUME IsFiniteSet(Slots) PROVE Spec => []LedgerMirrorsChain
<1>1. Init => Ledger
  <2> SUFFICES ASSUME Init PROVE Ledger
    OBVIOUS
  <2>1. \A v \in Invoices : InFlight(v) = {}
    BY DEF Init, InFlight, WaitsFor
  <2> QED BY <2>1, FS_EmptySet DEF Init, Ledger
<1>2. Typed /\ Ledger /\ [Next]_vars => Ledger'
  <2> SUFFICES ASSUME Typed, Ledger, [Next]_vars PROVE Ledger'
    OBVIOUS
  <2>1. CASE UNCHANGED vars \/ \E v \in Invoices : Launch(v)
    <3>1. UNCHANGED <<events, chain, handlers, history>>
      BY <2>1 DEF vars, Launch
    <3>2. \A v \in Invoices, t \in Slots : WaitsFor(t, v)' <=> WaitsFor(t, v)
      BY <3>1 DEF handlers, WaitsFor
    <3> QED BY <3>1, <3>2, LedgerRests DEF events, chain, history
  <2>2. ASSUME NEW s \in Slots, Proceed(s) PROVE Ledger'
    BY <2>2, HandlersRest, SendCallMirrors, AnswerMirrors, FaultMirrors DEF Proceed
  <2>3. ASSUME NEW s \in Slots, NEW h \in Holdings, NEW a \in Amounts, FundRead(s, h, a)
        PROVE  Ledger'
    BY <2>3, HandlersRest
  <2>4. ASSUME NEW s \in Slots, NEW h \in Holdings, RetryRead(s, h)
        PROVE  Ledger'
    BY <2>4, HandlersRest
  <2> QED BY <2>1, <2>2, <2>3, <2>4, CrashMirrors DEF Next
<1>3. Ledger => LedgerMirrorsChain
  BY DEF Ledger, LedgerMirrorsChain, InFlight, WaitsFor
<1> QED BY <1>1, <1>2, <1>3, TypedHolds, PTL DEF Spec

=============================================================================
