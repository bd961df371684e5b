------------------------------ MODULE Settlement ------------------------------
(***************************************************************************)
(* Finalizing an invoice's STO: an admin request that, once the STO window *)
(* is over, has Brickken close the offer, claim the tokens and distribute  *)
(* the dividends, each call awaited before the next, and marks the invoice *)
(* finalized when all three succeeded.  The first failure ends the request *)
(* and leaves the invoice to be finalized again from the start.            *)
(*                                                                         *)
(* The invoices are those with a persisted symbol and STO (Tokenization).  *)
(* Their fundedAmount goes on growing meanwhile: fundInvoice looks neither *)
(* at the STO window nor at the finalization (Marketplace).  Offering puts *)
(* the three together.                                                     *)
(***************************************************************************)
EXTENDS Integers, Sequences, FiniteSets, Functions

CONSTANTS
  Invoices,   \* invoices with a launched STO
  Slots,      \* admin requests served at the same time
  Amounts,    \* amounts of a funding
  MaxRaised,  \* bound: fundedAmount
  MaxRuns,    \* bound: finalize requests
  MaxFaults,  \* bound: crashes, failing writes and lost answers
  None        \* no invoice

ASSUME SettlementAssumption ==
  /\ Amounts \subseteq Nat \ {0}
  /\ MaxRaised \in Nat
  /\ MaxRuns \in Nat
  /\ MaxFaults \in Nat
  /\ None \notin Invoices

VARIABLES
  ended,       \* brickkenStoEndsAt has passed
  raised,      \* Invoice.fundedAmount
  finalized,   \* times Invoice.brickkenFinalizedAt was written; 0 is null
  pending,     \* pending events of the three actions
  confirmed,   \* confirmed events, by action
  effects,     \* chain: transactions that took effect, by action
  pc,          \* how far the handler in a slot is
  inv,         \* the invoice it finalizes
  step,        \* the call it is at
  dividend,    \* the dividendAmount it read
  paid,        \* chain: dividends distributed, in total
  late,        \* history: capital committed since the last finalize request read
  runs,        \* bound counter of MaxRuns
  faults,      \* bound counter of MaxFaults
  contended,   \* history: invoices two handlers worked on at once
  faulted      \* history: invoices a fault hit

columns == <<ended, raised, finalized>>
events == <<pending, confirmed>>
chain == <<effects, paid>>
handlers == <<pc, inv, step, dividend>>
bounds == <<runs, faults>>
history == <<late, contended, faulted>>
vars == <<columns, events, chain, handlers, bounds, history>>

Steps == <<"closeOffer", "claimTokens", "dividendDistribution">>
Actions == {Steps[n] : n \in DOMAIN Steps}
Last == Len(Steps)

Init ==
  /\ ended = [v \in Invoices |-> FALSE]
  /\ raised = [v \in Invoices |-> 0]
  /\ finalized = [v \in Invoices |-> 0]
  /\ pending = [v \in Invoices |-> 0]
  /\ confirmed = [v \in Invoices |-> [a \in Actions |-> 0]]
  /\ effects = [v \in Invoices |-> [a \in Actions |-> 0]]
  /\ pc = [s \in Slots |-> "idle"]
  /\ inv = [s \in Slots |-> None]
  /\ step = [s \in Slots |-> 1]
  /\ dividend = [s \in Slots |-> 0]
  /\ paid = [v \in Invoices |-> 0]
  /\ late = [v \in Invoices |-> 0]
  /\ runs = 0
  /\ faults = 0
  /\ contended = {}
  /\ faulted = {}

-----------------------------------------------------------------------------
(* What happens around a finalization: time passes, investors fund. *)

WindowCloses(v) ==
  /\ ~ended[v]
  /\ ended' = [ended EXCEPT ![v] = TRUE]
  /\ UNCHANGED <<raised, finalized, events, chain, handlers, bounds, history>>

FundCommit(v, a) ==
  /\ raised[v] + a <= MaxRaised
  /\ raised' = [raised EXCEPT ![v] = @ + a]
  /\ late' = [late EXCEPT ![v] = @ + a]
  /\ UNCHANGED <<ended, finalized, events, chain, handlers, bounds, contended, faulted>>

-----------------------------------------------------------------------------
Finish(s) ==
  /\ pc' = [pc EXCEPT ![s] = "idle"]
  /\ inv' = [inv EXCEPT ![s] = None]
  /\ step' = [step EXCEPT ![s] = 1]
  /\ dividend' = [dividend EXCEPT ![s] = 0]

Goto(s, stage) ==
  /\ pc' = [pc EXCEPT ![s] = stage]
  /\ UNCHANGED <<inv, step, dividend>>

Fault(s) ==
  /\ faults < MaxFaults
  /\ faults' = faults + 1
  /\ faulted' = faulted \cup {inv[s]}
  /\ UNCHANGED <<runs, late, contended>>

NoFault == UNCHANGED <<bounds, history>>

(* finalizeInvoiceOnChain: its checks. *)
FinalizableEarly(v) == finalized[v] = 0
Finalizable(v) == finalized[v] = 0 /\ ended[v]

(* dividendAmount, and by mistake what the invoice set out to raise. *)
DividendOfGoal(v) == MaxRaised
Dividend(v) == raised[v]

FinalizeRead(s, v) ==
  /\ pc[s] = "idle"
  /\ Finalizable(v)
  /\ runs < MaxRuns
  /\ runs' = runs + 1
  /\ pc' = [pc EXCEPT ![s] = "ready"]
  /\ inv' = [inv EXCEPT ![s] = v]
  /\ dividend' = [dividend EXCEPT ![s] = Dividend(v)]
  /\ late' = [late EXCEPT ![v] = 0]
  /\ contended' = contended \cup {w \in {v} : \E t \in Slots : inv[t] = w}
  /\ UNCHANGED <<step, columns, events, chain, faults, faulted>>

-----------------------------------------------------------------------------
(* BrickkenService.finalizeOffering, its three calls of BrickkenService.call. *)

SendCall(s) ==
  /\ pc[s] = "ready"
  /\ pending' = [pending EXCEPT ![inv[s]] = @ + 1]
  /\ Goto(s, "calling")
  /\ NoFault
  /\ UNCHANGED <<columns, confirmed, chain>>

TakesEffect(s) ==
  /\ effects' = [effects EXCEPT ![inv[s]][Steps[step[s]]] = @ + 1]
  /\ paid' = [paid EXCEPT ![inv[s]] = IF step[s] = Last THEN @ + dividend[s] ELSE @]

Confirm(s) ==
  /\ pending' = [pending EXCEPT ![inv[s]] = @ - 1]
  /\ confirmed' = [confirmed EXCEPT ![inv[s]][Steps[step[s]]] = @ + 1]

MarkFailed(s) ==
  /\ pending' = [pending EXCEPT ![inv[s]] = @ - 1]
  /\ UNCHANGED confirmed

NextStep(s) ==
  /\ pc' = [pc EXCEPT ![s] = IF step[s] = Last THEN "finalizing" ELSE "ready"]
  /\ step' = [step EXCEPT ![s] = IF step[s] = Last THEN @ ELSE @ + 1]
  /\ UNCHANGED <<inv, dividend>>

Succeeds(s) ==
  /\ pc[s] = "calling"
  /\ TakesEffect(s)
  /\ Confirm(s)
  /\ NextStep(s)
  /\ NoFault
  /\ UNCHANGED columns

(* A failed call throws: no later step runs and the invoice stays as it was. *)
StoppedGoesOn(s) == NextStep(s)
Stopped(s) == Finish(s)

Refused(s) ==
  /\ pc[s] = "calling"
  /\ MarkFailed(s)
  /\ Stopped(s)
  /\ NoFault
  /\ UNCHANGED <<columns, chain>>

(* An exception that says nothing of the chain: a lost answer or a write of  *)
(* the event row that throws.                                                *)
CallFaults(s) ==
  /\ pc[s] = "calling"
  /\ Fault(s)
  /\ TakesEffect(s) \/ UNCHANGED chain
  /\ MarkFailed(s) \/ UNCHANGED events
  /\ Stopped(s)
  /\ UNCHANGED columns

Finalize(s) ==
  /\ pc[s] = "finalizing"
  /\ finalized' = [finalized EXCEPT ![inv[s]] = @ + 1]
  /\ Finish(s)
  /\ NoFault
  /\ UNCHANGED <<ended, raised, events, chain>>

WriteFails(s) ==
  /\ pc[s] \in {"ready", "finalizing"}
  /\ Fault(s)
  /\ Finish(s)
  /\ UNCHANGED <<columns, events, chain>>

(* The process dies with every handler in it; calls on their way may still   *)
(* be mined.                                                                 *)
Crash ==
  /\ faults < MaxFaults
  /\ faults' = faults + 1
  /\ \E mined \in SUBSET {s \in Slots : pc[s] = "calling"} :
       LET Mined(v, a) == {s \in mined : inv[s] = v /\ Steps[step[s]] = a} IN
       /\ effects' = [v \in Invoices |-> [a \in Actions |->
            effects[v][a] + Cardinality(Mined(v, a))]]
       /\ paid' = [v \in Invoices |->
            paid[v] + SumFunctionOnSet(dividend, Mined(v, Steps[Last]))]
  /\ faulted' = faulted \cup ({inv[s] : s \in Slots} \ {None})
  /\ pc' = [s \in Slots |-> "idle"]
  /\ inv' = [s \in Slots |-> None]
  /\ step' = [s \in Slots |-> 1]
  /\ dividend' = [s \in Slots |-> 0]
  /\ UNCHANGED <<columns, events, runs, late, contended>>

Proceed(s) ==
  \/ SendCall(s) \/ Succeeds(s) \/ Refused(s) \/ CallFaults(s)
  \/ Finalize(s) \/ WriteFails(s)

Next ==
  \/ \E v \in Invoices : WindowCloses(v)
  \/ \E v \in Invoices, a \in Amounts : FundCommit(v, a)
  \/ \E s \in Slots, v \in Invoices : FinalizeRead(s, v)
  \/ \E s \in Slots : Proceed(s)
  \/ Crash

Spec == Init /\ [][Next]_vars

-----------------------------------------------------------------------------
(* StepsInOrder: whatever overlaps, fails or is run again, Brickken never    *)
(* claims before the offer was closed, nor distributes before the tokens     *)
(* were claimed, and nothing happens before the window is over.              *)
StepsInOrder == \A v \in Invoices :
  /\ effects[v]["closeOffer"] > 0 => ended[v]
  /\ effects[v]["claimTokens"] > 0 => effects[v]["closeOffer"] > 0
  /\ effects[v]["dividendDistribution"] > 0 => effects[v]["claimTokens"] > 0

(* FinalizedIsComplete: brickkenFinalizedAt is only set when all three calls *)
(* took effect and are confirmed in the ledger, which without a fault has    *)
(* every effect confirmed and every other event settled.                     *)
FinalizedIsComplete == \A v \in Invoices :
  /\ finalized[v] > 0 =>
       \A a \in Actions : confirmed[v][a] > 0 /\ confirmed[v][a] <= effects[v][a]
  /\ v \notin faulted =>
       /\ confirmed[v] = effects[v]
       /\ pending[v] = Cardinality({s \in Slots : inv[s] = v /\ pc[s] = "calling"})

(* CalmDividendOnce: without overlap and without faults, however often the   *)
(* finalization fails and is run again, the dividends are distributed at     *)
(* most once, and they are all that was raised but for the fundings that     *)
(* committed after the request read fundedAmount.                            *)
CalmDividendOnce == \A v \in Invoices \ (contended \cup faulted) :
  /\ effects[v]["dividendDistribution"] <= 1
  /\ effects[v]["dividendDistribution"] = 1 => paid[v] + late[v] = raised[v]

=============================================================================
