----------------------------- MODULE Tokenization -----------------------------
(***************************************************************************)
(* Putting an accepted invoice on chain.  Accepting commits first; then    *)
(* the same request mints the token, persists its symbol, launches the STO *)
(* with a bounded retry on Brickken's indexing lag, persists its id and    *)
(* whitelists the platform wallet.  An admin can retry a missing launch.   *)
(*                                                                         *)
(* Each Brickken call writes a pending OnChainEvent before it is sent and  *)
(* settles the row when the answer is there; the handler waits in between, *)
(* so other handlers, a crash or a lost answer may come first.  What       *)
(* Brickken did on behalf of an invoice is in mints, offers and listed.    *)
(*                                                                         *)
(* The event's insert is folded into the step that sends the call and its  *)
(* update into the step that takes the answer.                             *)
(***************************************************************************)
EXTENDS Integers, FiniteSets

CONSTANTS
  Invoices,    \* submitted invoices
  SymbolOf,    \* brickkenTokenSymbol: invoice -> symbol, a hash that may clash
  Slots,       \* requests served at the same time
  Delays,      \* length of STO_LAUNCH_RETRY_DELAYS_MS
  MaxRetries,  \* bound: admin retries of a launch
  MaxFaults,   \* bound: crashes, failing writes and lost answers
  None         \* no invoice

ASSUME TokenizationAssumption ==
  /\ DOMAIN SymbolOf = Invoices
  /\ Delays \in Nat
  /\ MaxRetries \in Nat
  /\ MaxFaults \in Nat
  /\ None \notin Invoices

VARIABLES
  confirmed,   \* Invoice.confirmedAt is set
  symbolSet,   \* Invoice.brickkenTokenSymbol is set, to SymbolOf
  stoId,       \* Invoice.brickkenStoId: the how-manieth STO; 0 is null
  error,       \* Invoice.brickkenTokenizationError: none, plain or [whitelist]
  pending,     \* OnChainEvent rows of an invoice with status pending
  confirmedEv, \* OnChainEvent rows with status confirmed, by action
  mints,       \* chain: newTokenization transactions that took effect
  offers,      \* chain: newSto transactions that took effect
  listed,      \* chain: the platform wallet is whitelisted for the token
  pc,          \* how far the handler in a slot is
  inv,         \* the invoice it works on
  admin,       \* it is a retryStoLaunch
  tries,       \* launch attempts it already repeated
  sto,         \* the STO id it was answered
  retries,     \* bound counter of MaxRetries
  faults,      \* bound counter of MaxFaults
  contended,   \* history: invoices two handlers worked on at once
  faulted      \* history: invoices a fault hit

columns == <<confirmed, symbolSet, stoId, error>>
events == <<pending, confirmedEv>>
chain == <<mints, offers, listed>>
handlers == <<pc, inv, admin, tries, sto>>
bounds == <<retries, faults>>
history == <<contended, faulted>>
vars == <<columns, events, chain, handlers, bounds, history>>

Actions == {"newTokenization", "newSto", "whitelist"}

(* Stages in which a handler waits for Brickken, and the call it waits for. *)
Calls == [tokenizing |-> "newTokenization", launching |-> "newSto",
          whitelisting |-> "whitelist"]
Waiting == DOMAIN Calls
Stages == Waiting \cup {"idle", "review", "accepted", "minted", "named", "lagging",
                        "offered", "launched", "failed", "failedListing"}

InFlight(v) == {s \in Slots : inv[s] = v /\ pc[s] \in Waiting}

Init ==
  /\ confirmed = [v \in Invoices |-> FALSE]
  /\ symbolSet = [v \in Invoices |-> FALSE]
  /\ stoId = [v \in Invoices |-> 0]
  /\ error = [v \in Invoices |-> "none"]
  /\ pending = [v \in Invoices |-> 0]
  /\ confirmedEv = [v \in Invoices |-> [a \in Actions |-> 0]]
  /\ mints = [v \in Invoices |-> 0]
  /\ offers = [v \in Invoices |-> 0]
  /\ listed = [v \in Invoices |-> FALSE]
  /\ pc = [s \in Slots |-> "idle"]
  /\ inv = [s \in Slots |-> None]
  /\ admin = [s \in Slots |-> FALSE]
  /\ tries = [s \in Slots |-> 0]
  /\ sto = [s \in Slots |-> 0]
  /\ retries = 0
  /\ faults = 0
  /\ contended = {}
  /\ faulted = {}

-----------------------------------------------------------------------------
Start(s, stage, v, byAdmin) ==
  /\ pc[s] = "idle"
  /\ pc' = [pc EXCEPT ![s] = stage]
  /\ inv' = [inv EXCEPT ![s] = v]
  /\ admin' = [admin EXCEPT ![s] = byAdmin]
  /\ contended' = contended \cup {w \in {v} : \E t \in Slots : inv[t] = w}
  /\ UNCHANGED <<tries, sto, faulted>>

Goto(s, stage) ==
  /\ pc' = [pc EXCEPT ![s] = stage]
  /\ UNCHANGED <<inv, admin, tries, sto>>

Finish(s) ==
  /\ pc' = [pc EXCEPT ![s] = "idle"]
  /\ inv' = [inv EXCEPT ![s] = None]
  /\ admin' = [admin EXCEPT ![s] = FALSE]
  /\ tries' = [tries EXCEPT ![s] = 0]
  /\ sto' = [sto EXCEPT ![s] = 0]

(* A fault hits what the handler in s does for its invoice. *)
Fault(s) ==
  /\ faults < MaxFaults
  /\ faults' = faults + 1
  /\ faulted' = faulted \cup {inv[s]}
  /\ UNCHANGED <<retries, contended>>

NoFault == UNCHANGED <<bounds, history>>

-----------------------------------------------------------------------------
(* submitConfirmationReview up to the call of tokenizeAndLaunchOffering.     *)

ReviewRead(s, v) ==
  /\ ~confirmed[v]
  /\ Start(s, "review", v, FALSE)
  /\ UNCHANGED <<columns, events, chain, bounds>>

AcceptCommit(s) ==
  /\ pc[s] = "review"
  /\ confirmed' = [confirmed EXCEPT ![inv[s]] = TRUE]
  /\ Goto(s, "accepted")
  /\ NoFault
  /\ UNCHANGED <<symbolSet, stoId, error, events, chain>>

(* retryStoLaunch: its two checks; the launch below is shared. *)
RetriableWhenLaunched(v) == symbolSet[v]
Retriable(v) == symbolSet[v] /\ stoId[v] = 0

RetryRead(s, v) ==
  /\ Retriable(v)
  /\ retries < MaxRetries
  /\ retries' = retries + 1
  /\ Start(s, "named", v, TRUE)
  /\ UNCHANGED <<columns, events, chain, faults>>

-----------------------------------------------------------------------------
(* BrickkenService.call: a pending row, the call, and its answer.            *)

NextCall == [accepted |-> "tokenizing", named |-> "launching", lagging |-> "launching",
             launched |-> "whitelisting"]

SendCall(s) ==
  /\ pc[s] \in DOMAIN NextCall
  /\ pending' = [pending EXCEPT ![inv[s]] = @ + 1]
  /\ Goto(s, NextCall[pc[s]])
  /\ NoFault
  /\ UNCHANGED <<columns, confirmedEv, chain>>

(* The external effect of the call the handler in s waits for. *)
TakesEffect(s) ==
  /\ mints' = [mints EXCEPT ![inv[s]] = IF pc[s] = "tokenizing" THEN @ + 1 ELSE @]
  /\ offers' = [offers EXCEPT ![inv[s]] = IF pc[s] = "launching" THEN @ + 1 ELSE @]
  /\ listed' = [listed EXCEPT ![inv[s]] = @ \/ pc[s] = "whitelisting"]

Confirm(s) ==
  /\ pending' = [pending EXCEPT ![inv[s]] = @ - 1]
  /\ confirmedEv' = [confirmedEv EXCEPT ![inv[s]][Calls[pc[s]]] = @ + 1]
MarkFailedForgotten(s) == UNCHANGED events
MarkFailed(s) ==
  /\ pending' = [pending EXCEPT ![inv[s]] = @ - 1]
  /\ UNCHANGED confirmedEv

AfterFailureGoesOn(s) ==
  CASE pc[s] = "tokenizing" -> "minted"
    [] pc[s] = "launching" -> "failed"
    [] pc[s] = "whitelisting" -> "failedListing"
AfterFailureUnprefixed(s) == "failed"
AfterFailure(s) == IF pc[s] = "whitelisting" THEN "failedListing" ELSE "failed"

Succeeds(s) ==
  /\ pc[s] \in Waiting
  /\ TakesEffect(s)
  /\ Confirm(s)
  /\ \/ pc[s] = "tokenizing" /\ Goto(s, "minted")
     \/ /\ pc[s] = "launching"
        /\ pc' = [pc EXCEPT ![s] = "offered"]
        /\ sto' = [sto EXCEPT ![s] = offers[inv[s]] + 1]
        /\ UNCHANGED <<inv, admin, tries>>
     \/ pc[s] = "whitelisting" /\ Finish(s)
  /\ NoFault
  /\ UNCHANGED columns

(* Brickken rejects the call. *)
Refused(s) ==
  /\ pc[s] \in Waiting
  /\ MarkFailed(s)
  /\ Goto(s, AfterFailure(s))
  /\ NoFault
  /\ UNCHANGED <<columns, chain>>

MayRetry(s) == tries[s] < Delays

Lags(s) ==
  /\ pc[s] = "launching"
  /\ MarkFailed(s)
  /\ \/ /\ MayRetry(s)
        /\ pc' = [pc EXCEPT ![s] = "lagging"]
        /\ tries' = [tries EXCEPT ![s] = IF @ < Delays THEN @ + 1 ELSE @]
        /\ UNCHANGED <<inv, admin, sto>>
     \/ ~MayRetry(s) /\ Goto(s, "failed")
  /\ NoFault
  /\ UNCHANGED <<columns, chain>>

(* The handler sees an exception that says nothing of the chain: the answer  *)
(* is lost, or the update that confirms the event row throws inside the try, *)
(* or the update that marks it failed throws and the row stays pending.      *)
CallFaults(s) ==
  /\ pc[s] \in Waiting
  /\ Fault(s)
  /\ TakesEffect(s) \/ UNCHANGED chain
  /\ MarkFailed(s) \/ UNCHANGED events
  /\ Goto(s, AfterFailure(s))
  /\ UNCHANGED columns

(* newSto was mined and confirmed, but findStoId finds no id in the answer.  *)
NoStoId(s) ==
  /\ pc[s] = "launching"
  /\ Fault(s)
  /\ TakesEffect(s)
  /\ Confirm(s)
  /\ Goto(s, "failed")
  /\ UNCHANGED columns

-----------------------------------------------------------------------------
(* The writes of tokenizeAndLaunchOffering and retryStoLaunch.               *)

SymbolTaken(v) == \E w \in Invoices \ {v} : symbolSet[w] /\ SymbolOf[w] = SymbolOf[v]

(* The symbol's update is outside every try: a violated unique constraint    *)
(* leaves the handler without recording an error.                            *)
PersistSymbol(s) ==
  /\ pc[s] = "minted"
  /\ \/ /\ ~SymbolTaken(inv[s])
        /\ symbolSet' = [symbolSet EXCEPT ![inv[s]] = TRUE]
        /\ Goto(s, "named")
     \/ /\ SymbolTaken(inv[s])
        /\ Finish(s)
        /\ UNCHANGED symbolSet
  /\ NoFault
  /\ UNCHANGED <<confirmed, stoId, error, events, chain>>

PersistSto(s) ==
  /\ pc[s] = "offered"
  /\ stoId' = [stoId EXCEPT ![inv[s]] = sto[s]]
  /\ error' = [error EXCEPT ![inv[s]] = "none"]
  /\ IF admin[s] THEN Finish(s) ELSE Goto(s, "launched")
  /\ NoFault
  /\ UNCHANGED <<confirmed, symbolSet, events, chain>>

ErrorTextForgotten(s) == error[inv[s]]
ErrorText(s) == IF pc[s] = "failedListing" THEN "[whitelist]" ELSE "plain"

RecordError(s) ==
  /\ pc[s] \in {"failed", "failedListing"}
  /\ error' = [error EXCEPT ![inv[s]] = ErrorText(s)]
  /\ Finish(s)
  /\ NoFault
  /\ UNCHANGED <<confirmed, symbolSet, stoId, events, chain>>

(* A write throws: of a row of the invoice, or of the event a call starts    *)
(* with.  The latter, and the STO's update in the buyer's flow, are awaited  *)
(* inside a try, which then records the failure.                             *)
Caught(s) ==
  \/ pc[s] \in DOMAIN NextCall
  \/ (pc[s] = "offered" /\ ~admin[s])

WriteFails(s) ==
  /\ pc[s] \notin Waiting \cup {"idle"}
  /\ Fault(s)
  /\ \/ Caught(s) /\ Goto(s, IF pc[s] = "launched" THEN "failedListing" ELSE "failed")
     \/ ~Caught(s) /\ Finish(s)
  /\ UNCHANGED <<columns, events, chain>>

(* The process dies with every handler in it; a call on its way may still be *)
(* mined.  Rows and chain stay as they are.                                  *)
Crash ==
  /\ faults < MaxFaults
  /\ faults' = faults + 1
  /\ \E mined \in SUBSET {s \in Slots : pc[s] \in Waiting} :
       LET Mined(v, stage) == {s \in mined : inv[s] = v /\ pc[s] = stage} IN
       /\ mints' = [v \in Invoices |-> mints[v] + Cardinality(Mined(v, "tokenizing"))]
       /\ offers' = [v \in Invoices |-> offers[v] + Cardinality(Mined(v, "launching"))]
       /\ listed' = [v \in Invoices |-> listed[v] \/ Mined(v, "whitelisting") # {}]
  /\ faulted' = faulted \cup ({inv[s] : s \in Slots} \ {None})
  /\ pc' = [s \in Slots |-> "idle"]
  /\ inv' = [s \in Slots |-> None]
  /\ admin' = [s \in Slots |-> FALSE]
  /\ tries' = [s \in Slots |-> 0]
  /\ sto' = [s \in Slots |-> 0]
  /\ UNCHANGED <<columns, events, retries, contended>>

-----------------------------------------------------------------------------
(* What a handler does on its own once it was started. *)
Proceed(s) ==
  \/ AcceptCommit(s)
  \/ SendCall(s)
  \/ Succeeds(s) \/ Refused(s) \/ Lags(s) \/ CallFaults(s) \/ NoStoId(s)
  \/ PersistSymbol(s) \/ PersistSto(s) \/ RecordError(s) \/ WriteFails(s)

Next ==
  \/ \E s \in Slots, v \in Invoices : ReviewRead(s, v) \/ RetryRead(s, v)
  \/ \E s \in Slots : Proceed(s)
  \/ Crash

Spec == Init /\ [][Next]_vars

(* The event loop runs every handler on; Brickken answers or times out.  No  *)
(* fairness is asked of new requests or of faults.                           *)
FairSpec == Spec /\ \A s \in Slots : WF_vars(Proceed(s))

-----------------------------------------------------------------------------
Quiet == Invoices \ contended

(* LedgerMirrorsChain: a confirmed OnChainEvent is an effect the chain has,  *)
(* and unless a fault hit the invoice the confirmed rows are all of them and *)
(* a row is pending only while its call is on the way.                       *)
LedgerMirrorsChain == \A v \in Invoices :
  /\ confirmedEv[v]["newTokenization"] <= mints[v]
  /\ confirmedEv[v]["newSto"] <= offers[v]
  /\ confirmedEv[v]["whitelist"] > 0 => listed[v]
  /\ v \notin faulted =>
       /\ confirmedEv[v]["newTokenization"] = mints[v]
       /\ confirmedEv[v]["newSto"] = offers[v]
       /\ pending[v] = Cardinality(InFlight(v))

(* ColumnsBackedByChain: a persisted symbol stands for a minted token, a     *)
(* launched STO for a persisted symbol and a persisted id for a launched STO. *)
ColumnsBackedByChain == \A v \in Invoices :
  /\ symbolSet[v] => mints[v] > 0
  /\ offers[v] > 0 => symbolSet[v]
  /\ stoId[v] <= offers[v]

(* QuietSingleLaunch: handlers that do not overlap and meet no fault mint an *)
(* invoice's token once and launch one STO, admin retries included.          *)
QuietSingleLaunch == \A v \in Quiet \ faulted : mints[v] <= 1 /\ offers[v] <= 1

(* QuietErrorNamesStep: on an invoice handled by one request at a time, the  *)
(* error text and brickkenStoId together tell which step failed.             *)
QuietErrorNamesStep == \A v \in Quiet :
  /\ error[v] = "[whitelist]" => stoId[v] # 0
  /\ error[v] = "plain" => stoId[v] = 0

(* AcceptedResolves: an accepted invoice gets its STO or an error that an    *)
(* operator can find, unless a fault hit it or another invoice has its       *)
(* symbol; in particular the retry loop of the indexing lag ends.            *)
AcceptedResolves == \A v \in Invoices :
  confirmed[v] ~> (stoId[v] # 0 \/ error[v] # "none" \/ v \in faulted \/ SymbolTaken(v))

(* LaunchedMeansListed: an invoice with an STO and no error that nobody is   *)
(* working on has its platform wallet whitelisted.                           *)
LaunchedMeansListed == \A v \in Invoices :
  stoId[v] # 0 /\ error[v] = "none" /\ (\A s \in Slots : inv[s] # v) => listed[v]

(* ClashRecorded: when two invoices minted the same symbol, one of them is   *)
(* in the error state once nobody works on them.                             *)
ClashRecorded == \A v, w \in Invoices :
  /\ v # w /\ SymbolOf[v] = SymbolOf[w] /\ mints[v] > 0 /\ mints[w] > 0
  /\ \A s \in Slots : inv[s] \notin {v, w}
  => error[v] # "none" \/ error[w] # "none"

=============================================================================
