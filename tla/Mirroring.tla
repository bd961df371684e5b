------------------------------ MODULE Mirroring ------------------------------
(***************************************************************************)
(* Mirroring retail fundings to the invoice's STO.  fundInvoice commits a  *)
(* holding first; the same request then tells Brickken, retrying a bounded *)
(* number of times on its indexing lag, and keeps the outcome in one flag  *)
(* of the holding.  An admin can retry a flagged holding.                  *)
(*                                                                         *)
(* Whether the invoice has its STO is what the request read before its     *)
(* transaction; Tokenization says how an STO comes to be.  The checks and  *)
(* the money of a funding are the business of Marketplace.                 *)
(*                                                                         *)
(* A call's OnChainEvent row is inserted in the step that sends it and     *)
(* updated in the step that takes its answer.                              *)
(***************************************************************************)
EXTENDS Integers, FiniteSets, Functions

CONSTANTS
  Holdings,    \* the holdings investors have or will have
  Invoices,    \* accepted invoices
  InvoiceOf,   \* holding -> invoice
  Slots,       \* requests served at the same time
  Amounts,     \* amounts of a funding
  Delays,      \* length of INVEST_RETRY_DELAYS_MS
  MaxHolding,  \* bound: no funding takes a holding above it
  MaxRetries,  \* bound: admin retries
  MaxFaults,   \* bound: crashes, failing writes and lost answers
  None         \* no holding

ASSUME MirroringAssumption ==
  /\ InvoiceOf \in [Holdings -> Invoices]
  /\ Amounts \subseteq Nat \ {0}
  /\ Delays \in Nat
  /\ MaxHolding \in Nat
  /\ MaxRetries \in Nat
  /\ MaxFaults \in Nat
  /\ None \notin Holdings

VARIABLES
  launched,    \* the invoice has a token symbol and an STO
  amount,      \* Holding.amount; 0 is no row
  flag,        \* Holding.brickkenInvestmentError: none, skipped or failed
  pending,     \* pending newInvest events of an invoice
  confirmed,   \* confirmed newInvest events of an invoice
  calls,       \* chain: newInvest transactions that took effect, per invoice
  invested,    \* chain: what they invested for a holding
  pc,          \* how far the handler in a slot is
  on,          \* the holding it works on
  asked,       \* the amount it tells Brickken
  saw,         \* its invoice had an STO when it read it
  admin,       \* it is a retryInvest
  tries,       \* attempts it already repeated
  retries,     \* bound counter of MaxRetries
  faults,      \* bound counter of MaxFaults
  rounds,      \* history: fundings of a holding that committed
  contended,   \* history: holdings two handlers worked on at once
  faulted      \* history: holdings a fault hit

columns == <<launched, amount, flag>>
events == <<pending, confirmed>>
chain == <<calls, invested>>
handlers == <<pc, on, asked, saw, admin, tries>>
bounds == <<retries, faults>>
history == <<rounds, contended, faulted>>
vars == <<columns, events, chain, handlers, bounds, history>>

Init ==
  /\ launched = [v \in Invoices |-> FALSE]
  /\ amount = [h \in Holdings |-> 0]
  /\ flag = [h \in Holdings |-> "none"]
  /\ pending = [v \in Invoices |-> 0]
  /\ confirmed = [v \in Invoices |-> 0]
  /\ calls = [v \in Invoices |-> 0]
  /\ invested = [h \in Holdings |-> 0]
  /\ pc = [s \in Slots |-> "idle"]
  /\ on = [s \in Slots |-> None]
  /\ asked = [s \in Slots |-> 0]
  /\ saw = [s \in Slots |-> FALSE]
  /\ admin = [s \in Slots |-> FALSE]
  /\ tries = [s \in Slots |-> 0]
  /\ retries = 0
  /\ faults = 0
  /\ rounds = [h \in Holdings |-> 0]
  /\ contended = {}
  /\ faulted = {}

-----------------------------------------------------------------------------
Start(s, stage, h, a, sto, byAdmin) ==
  /\ pc[s] = "idle"
  /\ pc' = [pc EXCEPT ![s] = stage]
  /\ on' = [on EXCEPT ![s] = h]
  /\ asked' = [asked EXCEPT ![s] = a]
  /\ saw' = [saw EXCEPT ![s] = sto]
  /\ admin' = [admin EXCEPT ![s] = byAdmin]
  /\ contended' = contended \cup {g \in {h} : \E t \in Slots : on[t] = g}
  /\ UNCHANGED <<tries, rounds, faulted>>

Goto(s, stage) ==
  /\ pc' = [pc EXCEPT ![s] = stage]
  /\ UNCHANGED <<on, asked, saw, admin, tries>>

Finish(s) ==
  /\ pc' = [pc EXCEPT ![s] = "idle"]
  /\ on' = [on EXCEPT ![s] = None]
  /\ asked' = [asked EXCEPT ![s] = 0]
  /\ saw' = [saw EXCEPT ![s] = FALSE]
  /\ admin' = [admin EXCEPT ![s] = FALSE]
  /\ tries' = [tries EXCEPT ![s] = 0]

Fault(s) ==
  /\ faults < MaxFaults
  /\ faults' = faults + 1
  /\ faulted' = faulted \cup {on[s]}
  /\ UNCHANGED <<retries, rounds, contended>>

NoFault == UNCHANGED <<bounds, history>>

(* The STO's id is persisted, by whichever flow of Tokenization. *)
Launch(v) ==
  /\ ~launched[v]
  /\ launched' = [launched EXCEPT ![v] = TRUE]
  /\ UNCHANGED <<amount, flag, events, chain, handlers, bounds, history>>

-----------------------------------------------------------------------------
(* fundInvoice: the read of the invoice and the transaction, after which the *)
(* request goes on with the invoice as it was read.                          *)

FundRead(s, h, a) ==
  /\ amount[h] + a <= MaxHolding
  /\ Start(s, "funding", h, a, launched[InvoiceOf[h]], FALSE)
  /\ UNCHANGED <<columns, events, chain, bounds>>

GateOpen(s) == saw[s]

FundCommit(s) ==
  /\ pc[s] = "funding"
  /\ amount' = [amount EXCEPT ![on[s]] = @ + asked[s]]
  /\ rounds' = [rounds EXCEPT ![on[s]] = @ + 1]
  /\ Goto(s, IF GateOpen(s) THEN "ready" ELSE "skipping")
  /\ UNCHANGED <<launched, flag, events, chain, bounds, contended, faulted>>

(* recordOnChainInvestment without an STO: it only raises the flag. *)
Skip(s) ==
  /\ pc[s] = "skipping"
  /\ flag' = [flag EXCEPT ![on[s]] = "skipped"]
  /\ Finish(s)
  /\ NoFault
  /\ UNCHANGED <<launched, amount, events, chain>>

(* retryInvest: its checks, then the holding's whole amount. *)
RetriableUnflagged(h) == amount[h] > 0 /\ launched[InvoiceOf[h]]
Retriable(h) == flag[h] # "none" /\ launched[InvoiceOf[h]]

RetryRead(s, h) ==
  /\ Retriable(h)
  /\ retries < MaxRetries
  /\ retries' = retries + 1
  /\ Start(s, "ready", h, amount[h], TRUE, TRUE)
  /\ UNCHANGED <<columns, events, chain, faults>>

-----------------------------------------------------------------------------
(* BrickkenService.invest, through call, inside retryOnInvestIndexingLag.    *)

SendCall(s) ==
  /\ pc[s] \in {"ready", "lagging"}
  /\ pending' = [pending EXCEPT ![InvoiceOf[on[s]]] = @ + 1]
  /\ Goto(s, "calling")
  /\ NoFault
  /\ UNCHANGED <<columns, confirmed, chain>>

TakesEffect(s) ==
  /\ calls' = [calls EXCEPT ![InvoiceOf[on[s]]] = @ + 1]
  /\ invested' = [invested EXCEPT ![on[s]] = @ + asked[s]]

Confirm(s) ==
  /\ pending' = [pending EXCEPT ![InvoiceOf[on[s]]] = @ - 1]
  /\ confirmed' = [confirmed EXCEPT ![InvoiceOf[on[s]]] = @ + 1]

MarkFailedAsConfirmed(s) == Confirm(s)
MarkFailed(s) ==
  /\ pending' = [pending EXCEPT ![InvoiceOf[on[s]]] = @ - 1]
  /\ UNCHANGED confirmed

Succeeds(s) ==
  /\ pc[s] = "calling"
  /\ TakesEffect(s)
  /\ Confirm(s)
  /\ Goto(s, "invested")
  /\ NoFault
  /\ UNCHANGED columns

Refused(s) ==
  /\ pc[s] = "calling"
  /\ MarkFailed(s)
  /\ Goto(s, "failed")
  /\ NoFault
  /\ UNCHANGED <<columns, chain>>

MayRetry(s) == tries[s] < Delays

(* "not found": the loop sleeps and tries again while it has a delay left. *)
Lags(s) ==
  /\ pc[s] = "calling"
  /\ MarkFailed(s)
  /\ \/ /\ MayRetry(s)
        /\ pc' = [pc EXCEPT ![s] = "lagging"]
        /\ tries' = [tries EXCEPT ![s] = IF @ < Delays THEN @ + 1 ELSE @]
        /\ UNCHANGED <<on, asked, saw, admin>>
     \/ ~MayRetry(s) /\ Goto(s, "failed")
  /\ NoFault
  /\ UNCHANGED <<columns, chain>>

(* The handler sees an exception that says nothing of the chain: a lost      *)
(* answer, or a write of the event row that throws.                          *)
CallFaults(s) ==
  /\ pc[s] = "calling"
  /\ Fault(s)
  /\ TakesEffect(s) \/ UNCHANGED chain
  /\ MarkFailed(s) \/ UNCHANGED events
  /\ Goto(s, "failed")
  /\ UNCHANGED columns

-----------------------------------------------------------------------------
(* The flag's two writes, shared by recordOnChainInvestment and retryInvest. *)

Cleared(h) == "none"
RaisedForgotten(h) == flag[h]
Raised(h) == "failed"

ClearFlag(s) ==
  /\ pc[s] = "invested"
  /\ flag' = [flag EXCEPT ![on[s]] = Cleared(on[s])]
  /\ Finish(s)
  /\ NoFault
  /\ UNCHANGED <<launched, amount, events, chain>>

RecordFailure(s) ==
  /\ pc[s] = "failed"
  /\ flag' = [flag EXCEPT ![on[s]] = Raised(on[s])]
  /\ Finish(s)
  /\ NoFault
  /\ UNCHANGED <<launched, amount, events, chain>>

(* A write throws.  The insert of the event is awaited inside a try, and so  *)
(* is the clearing of the flag, but for retryInvest, which returns it.       *)
Caught(s) ==
  \/ pc[s] \in {"ready", "lagging"}
  \/ (pc[s] = "invested" /\ ~admin[s])

WriteFails(s) ==
  /\ pc[s] \notin {"idle", "calling"}
  /\ Fault(s)
  /\ \/ Caught(s) /\ Goto(s, "failed")
     \/ ~Caught(s) /\ Finish(s)
  /\ UNCHANGED <<columns, events, chain>>

(* The process dies; calls on their way may still be mined. *)
Crash ==
  /\ faults < MaxFaults
  /\ faults' = faults + 1
  /\ \E mined \in SUBSET {s \in Slots : pc[s] = "calling"} :
       /\ calls' = [v \in Invoices |->
            calls[v] + Cardinality({s \in mined : InvoiceOf[on[s]] = v})]
       /\ invested' = [h \in Holdings |->
            invested[h] + SumFunctionOnSet(asked, {s \in mined : on[s] = h})]
  /\ faulted' = faulted \cup ({on[s] : s \in Slots} \ {None})
  /\ pc' = [s \in Slots |-> "idle"]
  /\ on' = [s \in Slots |-> None]
  /\ asked' = [s \in Slots |-> 0]
  /\ saw' = [s \in Slots |-> FALSE]
  /\ admin' = [s \in Slots |-> FALSE]
  /\ tries' = [s \in Slots |-> 0]
  /\ UNCHANGED <<columns, events, retries, rounds, contended>>

Proceed(s) ==
  \/ FundCommit(s) \/ Skip(s) \/ SendCall(s)
  \/ Succeeds(s) \/ Refused(s) \/ Lags(s) \/ CallFaults(s)
  \/ ClearFlag(s) \/ RecordFailure(s) \/ WriteFails(s)

Next ==
  \/ \E v \in Invoices : Launch(v)
  \/ \E s \in Slots, h \in Holdings, a \in Amounts : FundRead(s, h, a)
  \/ \E s \in Slots, h \in Holdings : RetryRead(s, h)
  \/ \E s \in Slots : Proceed(s)
  \/ Crash

Spec == Init /\ [][Next]_vars

(* The event loop runs every handler on; Brickken answers or times out. *)
FairSpec == Spec /\ \A s \in Slots : WF_vars(Proceed(s))

-----------------------------------------------------------------------------
(* Holdings that one request at a time worked on and no fault hit. *)
Calm == Holdings \ (contended \cup faulted)
Idle(h) == \A s \in Slots : on[s] # h
Untouched(v) == \A h \in Holdings : InvoiceOf[h] = v => h \notin faulted

(* LedgerMirrorsChain: a confirmed newInvest event is an investment the      *)
(* chain has; unless a fault hit a holding of the invoice the confirmed      *)
(* events are all of them, and a pending one is a call on its way.           *)
LedgerMirrorsChain == \A v \in Invoices :
  /\ confirmed[v] <= calls[v]
  /\ Untouched(v) =>
       /\ confirmed[v] = calls[v]
       /\ pending[v] = Cardinality({s \in Slots :
            pc[s] = "calling" /\ InvoiceOf[on[s]] = v})

(* SingleRoundFlagTells: a calm holding of one funding is either mirrored to *)
(* the unit and unflagged or untold and flagged, whatever admin retries      *)
(* followed, and at no time is Brickken told of more than it holds: that     *)
(* takes several fundings, whose whole retryInvest repeats.                  *)
SingleRoundFlagTells == \A h \in Calm : rounds[h] = 1 =>
  /\ invested[h] <= amount[h]
  /\ Idle(h) => invested[h] = IF flag[h] = "none" THEN amount[h] ELSE 0

(* FundedResolves: a committed funding is told to Brickken or its holding    *)
(* flagged, unless a fault hit it; in particular the retry loop ends.        *)
FundedResolves == \A h \in Holdings :
  amount[h] > 0 ~> (invested[h] > 0 \/ flag[h] # "none" \/ h \in faulted)

=============================================================================
