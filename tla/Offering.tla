------------------------------- MODULE Offering -------------------------------
(***************************************************************************)
(* The life of an invoice's offering on chain: Tokenization launches the   *)
(* STO, Mirroring tells Brickken of the fundings, Settlement closes it and *)
(* distributes the dividends.  Settlement's variables keep their names;    *)
(* those of the other two are renamed below.                               *)
(*                                                                         *)
(* The three run in one process: they share its slots, and a crash ends    *)
(* every handler.  Mirroring's launched is Tokenization's brickkenStoId,   *)
(* and a funding's commit is one step of Mirroring and of Settlement.      *)
(***************************************************************************)
EXTENDS Settlement

CONSTANTS
  SymbolOf,    \* Tokenization: invoice -> token symbol
  Holdings,    \* Mirroring: the holdings of investors
  InvoiceOf,   \* Mirroring: holding -> invoice
  Delays,      \* length of the two lists of delays
  MaxHolding,  \* bound: Holding.amount
  MaxRetries   \* bound: admin retries of launches, and of investments

ASSUME OfferingAssumption ==
  /\ DOMAIN SymbolOf = Invoices
  /\ InvoiceOf \in [Holdings -> Invoices]
  /\ Delays \in Nat
  /\ MaxHolding \in Nat
  /\ MaxRetries \in Nat
  /\ None \notin Holdings

VARIABLES
  accepted, symbolSet, stoId, tokError,
  tokPending, tokConfirmed, mints, offers, listed,
  tokPc, tokInv, tokAdmin, tokTries, tokSto,
  tokRetries, tokContended, tokFaulted

VARIABLES
  amount, flag, invPending, invConfirmed, calls, invested,
  invPc, on, asked, saw, invAdmin, invTries,
  invRetries, rounds, invContended, invFaulted

T == INSTANCE Tokenization WITH
  confirmed <- accepted, error <- tokError, pending <- tokPending,
  confirmedEv <- tokConfirmed, pc <- tokPc, inv <- tokInv, admin <- tokAdmin,
  tries <- tokTries, sto <- tokSto, retries <- tokRetries,
  contended <- tokContended, faulted <- tokFaulted

M == INSTANCE Mirroring WITH
  launched <- [v \in Invoices |-> stoId[v] # 0],
  pending <- invPending, confirmed <- invConfirmed, pc <- invPc,
  admin <- invAdmin, tries <- invTries, retries <- invRetries,
  contended <- invContended, faulted <- invFaulted

(* Everything of a component but faults, the one budget of faults. *)
tokVars == <<accepted, symbolSet, stoId, tokError, tokPending, tokConfirmed, mints, offers,
             listed, tokPc, tokInv, tokAdmin, tokTries, tokSto, tokRetries, tokContended,
             tokFaulted>>
invVars == <<amount, flag, invPending, invConfirmed, calls, invested, invPc, on, asked, saw,
             invAdmin, invTries, invRetries, rounds, invContended, invFaulted>>
setVars == <<columns, events, chain, handlers, runs, history>>
allVars == <<tokVars, invVars, setVars, faults>>

OfferingInit == Init /\ T!Init /\ M!Init

Free(s) == pc[s] = "idle" /\ tokPc[s] = "idle" /\ invPc[s] = "idle"

(* How launches overlap launches, and fundings fundings, is checked in the   *)
(* instances of Tokenization and Mirroring; here each takes one slot.        *)
FreeToLaunch(s) == Free(s) /\ \A t \in Slots : tokPc[t] = "idle"
FreeToInvest(s) == Free(s) /\ \A t \in Slots : invPc[t] = "idle"

-----------------------------------------------------------------------------
(* Tokenization: an acceptance, a retry of the launch, and what follows. *)

Launching ==
  /\ \E s \in Slots :
       \/ FreeToLaunch(s) /\ \E v \in Invoices : T!ReviewRead(s, v) \/ T!RetryRead(s, v)
       \/ T!Proceed(s)
  /\ UNCHANGED <<invVars, setVars>>

-----------------------------------------------------------------------------
(* Mirroring.  An accepted invoice takes fundings whatever became of its     *)
(* STO; Brickken takes no newInvest from a wallet that is not whitelisted.   *)

FundRead(s, h) ==
  /\ FreeToInvest(s)
  /\ accepted[InvoiceOf[h]]
  /\ \E a \in Amounts : M!FundRead(s, h, a)

InvestsOnlyListed == \A v \in Invoices : calls'[v] # calls[v] => listed[v]

Investing ==
  /\ UNCHANGED tokVars
  /\ \E s \in Slots :
       \/ \E h \in Holdings : FundRead(s, h) \/ (FreeToInvest(s) /\ M!RetryRead(s, h))
       \/ M!Proceed(s) /\ invPc[s] # "funding"
  /\ InvestsOnlyListed
  /\ UNCHANGED setVars

(* The funding's transaction raises the holding and fundedAmount alike. *)
Funded ==
  /\ UNCHANGED tokVars
  /\ \E s \in Slots :
       /\ M!FundCommit(s)
       /\ FundCommit(InvoiceOf[on[s]], asked[s])

FundFails ==
  /\ UNCHANGED <<tokVars, setVars>>
  /\ \E s \in Slots : invPc[s] = "funding" /\ M!WriteFails(s)

-----------------------------------------------------------------------------
(* Settlement, of an invoice whose STO is persisted. *)

Settling ==
  /\ UNCHANGED <<tokVars, invVars>>
  /\ \/ \E v \in Invoices : stoId[v] # 0 /\ WindowCloses(v)
     \/ \E s \in Slots, v \in Invoices : Free(s) /\ stoId[v] # 0 /\ FinalizeRead(s, v)
     \/ \E s \in Slots : Proceed(s)

(* The process dies with the handlers of all three. *)
ProcessDies ==
  /\ T!Crash
  /\ M!Crash
  /\ Crash
  /\ InvestsOnlyListed

OfferingNext == Launching \/ Investing \/ Funded \/ FundFails \/ Settling \/ ProcessDies

OfferingSpec == OfferingInit /\ [][OfferingNext]_allVars

-----------------------------------------------------------------------------
HoldingsOf(v) == {h \in Holdings : InvoiceOf[h] = v}

(* What the columns of a holding say that Brickken was told of it. *)
Told(h) == IF flag[h] = "none" THEN invested[h] ELSE amount[h]

(* DividendsAccounted: without overlap and without faults the dividends are  *)
(* distributed once, and they are all that was raised but for the fundings   *)
(* that committed after the request read fundedAmount; and if no fault and   *)
(* no overlap touched its holdings, each of one funding, they are what       *)
(* Brickken was told of the holdings plus those the flag shows as untold.    *)
DividendsAccounted ==
  /\ CalmDividendOnce
  /\ \A v \in Invoices \ (contended \cup faulted) :
       /\ effects[v]["dividendDistribution"] > 0
       /\ \A h \in HoldingsOf(v) : h \in M!Calm /\ M!Idle(h) /\ rounds[h] <= 1
       => paid[v] + late[v] =
            SumFunctionOnSet([h \in Holdings |-> Told(h)], HoldingsOf(v))

(* UnlistedShows: a launch that was completed by an admin retry leaves the   *)
(* wallet off the whitelist and no error on the invoice; every holding then  *)
(* shows that it was not mirrored, once its requests are through.            *)
UnlistedShows == \A h \in M!Calm :
  amount[h] > 0 /\ M!Idle(h) /\ ~listed[InvoiceOf[h]] => flag[h] # "none"

(* OnlyLaunchedTouched: Brickken is told of an investment or asked to close  *)
(* only for an STO that it has launched for the invoice's own token, across  *)
(* crashes, lost answers and retries of all three.                           *)
OnlyLaunchedTouched == \A v \in Invoices :
  calls[v] > 0 \/ invPending[v] > 0 \/ pending[v] > 0 \/ effects[v]["closeOffer"] > 0
    => offers[v] > 0 /\ mints[v] > 0 /\ symbolSet[v]

=============================================================================
