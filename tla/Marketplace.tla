----------------------------- MODULE Marketplace -----------------------------
(***************************************************************************)
(* The money path of an invoice: the buyer's review, the investors' wallet *)
(* and funding, the payout to the business and the buyer's repayment.      *)
(*                                                                         *)
(* Every handler of the API reads rows first, checks them in memory, and   *)
(* commits a Prisma transaction later.  Nothing locks a row in between, so *)
(* a handler is here one action per database access: what it carries from  *)
(* one access to the next are the variables of its slot.  A transaction    *)
(* commits atomically; at READ COMMITTED its increments apply to the row   *)
(* as it then is and its absolute writes overwrite what others wrote.      *)
(*                                                                         *)
(* A request that a guard rejects answers 4xx and writes nothing, so only  *)
(* accepted requests are steps.  The chain columns of an invoice and of a  *)
(* holding are the business of Tokenization and of Mirroring; a change of  *)
(* an investor's whitelistStatus is the business of Whitelisting.          *)
(***************************************************************************)
EXTENDS Integers, FiniteSets, Functions, Money

CONSTANTS
  Investors,      \* investor profiles
  Invoices,       \* invoices already submitted by a business
  Whitelisted,    \* the investors whose whitelistStatus is whitelisted
  Legacy,         \* invoices confirmed before fundingTargetAmount existed
  Slots,          \* requests the API serves at the same time
  FaceAmount,     \* Invoice.amount
  Targets,        \* what computeInvoiceYield may return for an acceptance
  MinFund,        \* the @Min of FundInvoiceDto
  FundAmounts,    \* amounts investors ask to fund
  DepositAmounts, \* amounts investors deposit
  MaxWallet,      \* bound: no deposit takes a wallet above it
  None            \* no invoice, no investor

ASSUME MarketplaceAssumption ==
  /\ Whitelisted \subseteq Investors
  /\ Legacy \subseteq Invoices
  /\ FaceAmount \in Nat \ {0}
  /\ Targets \subseteq Int
  /\ \A t \in Targets : t # 0 /\ t <= FaceAmount
  /\ MinFund \in Nat \ {0}
  /\ FundAmounts \subseteq Nat
  /\ \A a \in FundAmounts : a >= MinFund
  /\ DepositAmounts \subseteq Nat \ {0}
  /\ MaxWallet \in Nat
  /\ None \notin Investors \cup Invoices

VARIABLES
  status,               \* Invoice.status
  confirmedAt,          \* times Invoice.confirmedAt was written; 0 is null
  fundingTargetAmount,  \* Invoice.fundingTargetAmount; 0 is null
  fundedAmount,         \* Invoice.fundedAmount
  repaidAt,             \* times Invoice.repaidAt was written; 0 is null
  holding,              \* Holding.amount of an invoice's investor; 0 is no row
  repaidAmount,         \* Holding.repaidAmount
  wallet,               \* walletBalance over an investor's WalletTransactions
  repayments,           \* sum of the repayment rows of an invoice's investor
  payouts,              \* deposit rows the business got for an invoice
  pc,                   \* how far the handler in a slot is; "idle" if none
  inv,                  \* the invoice it works on
  by,                   \* the investor who funds
  amount,               \* dto.amount of a funding
  seen,                 \* the fundedAmount that payInvoice read
  held,                 \* the holdings that payInvoice's transaction read
  contended,            \* history: invoices two requests worked on at once
  rushing               \* history: investors with two fundings in flight at once

invoiceVars == <<status, confirmedAt, fundingTargetAmount, fundedAmount, repaidAt>>
ledgerVars == <<holding, repaidAmount, wallet, repayments, payouts>>
reqVars == <<pc, inv, by, amount, seen, held>>
history == <<contended, rushing>>
vars == <<invoiceVars, ledgerVars, reqVars, history>>

Statuses == {"submitted", "tokenized", "funding", "funded", "overdue", "repaid"}
OpenForInvestment == {"tokenized", "funding"}

Stages == {"idle", "review", "fundBalance", "fundCommit", "payHoldings", "payCommit"}
Funding == {"fundBalance", "fundCommit"}
Paying == {"payHoldings", "payCommit"}

Nothing == [i \in Investors |-> 0]

(* The amount an invoice raises: its target, or its face value when null. *)
Cap(v) == IF fundingTargetAmount[v] = 0 THEN FaceAmount ELSE fundingTargetAmount[v]

(* What the checks of the handlers read: each a named guard.  The variants   *)
(* are mistakes a change of the code could make; no action uses them.        *)
ReviewableAgain(v) == TRUE
RemainingIgnoresFunded(v) == Cap(v)
RemainingOfFace(v) == FaceAmount - fundedAmount[v]
AffordableUnchecked(i, a) == TRUE
PayableWhenRepaid(v) == status[v] \in {"funded", "overdue", "repaid"}
PayableWhileFunding(v) == status[v] \in {"funding", "funded", "overdue"}
PayableOnceAccepted(v) == status[v] \notin {"submitted", "repaid"}
ReturnOnFace(h, raised) == h + RoundDiv(3 * h * FaceAmount, 4 * raised)
UpsertedReplaces(old, a) == a
Reviewable(v) == confirmedAt[v] = 0
IsOpen(v) == status[v] \in OpenForInvestment
Remaining(v) == Cap(v) - fundedAmount[v]
Affordable(i, a) == wallet[i] >= a
Payable(v) == status[v] \in {"funded", "overdue"}

(* A holding h plus its share of 75% of the surplus over the raised amount. *)
ReturnOn(h, raised) == h + RoundDiv(3 * h * (FaceAmount - raised), 4 * raised)

Init ==
  /\ status = [v \in Invoices |-> IF v \in Legacy THEN "tokenized" ELSE "submitted"]
  /\ confirmedAt = [v \in Invoices |-> IF v \in Legacy THEN 1 ELSE 0]
  /\ fundingTargetAmount = [v \in Invoices |-> 0]
  /\ fundedAmount = [v \in Invoices |-> 0]
  /\ repaidAt = [v \in Invoices |-> 0]
  /\ holding = [v \in Invoices |-> Nothing]
  /\ repaidAmount = [v \in Invoices |-> Nothing]
  /\ wallet = Nothing
  /\ repayments = [v \in Invoices |-> Nothing]
  /\ payouts = [v \in Invoices |-> 0]
  /\ pc = [s \in Slots |-> "idle"]
  /\ inv = [s \in Slots |-> None]
  /\ by = [s \in Slots |-> None]
  /\ amount = [s \in Slots |-> 0]
  /\ seen = [s \in Slots |-> 0]
  /\ held = [s \in Slots |-> Nothing]
  /\ contended = {}
  /\ rushing = {}

(* A handler starts in a free slot; the history notes whom it overlaps. *)
Start(s, stage, v, i, a, raised) ==
  /\ pc[s] = "idle"
  /\ pc' = [pc EXCEPT ![s] = stage]
  /\ inv' = [inv EXCEPT ![s] = v]
  /\ by' = [by EXCEPT ![s] = i]
  /\ amount' = [amount EXCEPT ![s] = a]
  /\ seen' = [seen EXCEPT ![s] = raised]
  /\ contended' = contended \cup {w \in {v} : \E t \in Slots : inv[t] = w}
  /\ rushing' = rushing \cup {j \in {i} \ {None} : \E t \in Slots : by[t] = j}
  /\ UNCHANGED held

Goto(s, stage) ==
  /\ pc' = [pc EXCEPT ![s] = stage]
  /\ UNCHANGED <<inv, by, amount, seen, held, history>>

(* The handler answers, or is gone; its slot is free again. *)
Finish(s) ==
  /\ pc' = [pc EXCEPT ![s] = "idle"]
  /\ inv' = [inv EXCEPT ![s] = None]
  /\ by' = [by EXCEPT ![s] = None]
  /\ amount' = [amount EXCEPT ![s] = 0]
  /\ seen' = [seen EXCEPT ![s] = 0]
  /\ held' = [held EXCEPT ![s] = Nothing]
  /\ UNCHANGED history

-----------------------------------------------------------------------------
(* submitConfirmationReview.  A disputed review reads the same row and then  *)
(* only notifies, so it leaves this state alone.                             *)

ReviewRead(s, v) ==
  /\ Reviewable(v)
  /\ Start(s, "review", v, None, 0, 0)
  /\ UNCHANGED <<invoiceVars, ledgerVars>>

AcceptCommit(s, target) ==
  LET v == inv[s] IN
  /\ pc[s] = "review"
  /\ status' = [status EXCEPT ![v] = "tokenized"]
  /\ confirmedAt' = [confirmedAt EXCEPT ![v] = @ + 1]
  /\ fundingTargetAmount' = [fundingTargetAmount EXCEPT ![v] = target]
  /\ Finish(s)
  /\ UNCHANGED <<fundedAmount, repaidAt, ledgerVars>>

-----------------------------------------------------------------------------
(* The investor's wallet and fundInvoice.                                    *)

(* The holding's upsert adds to the row that is there. *)
Upserted(old, a) == old + a

Deposit(i, a) ==
  /\ wallet[i] + a <= MaxWallet
  /\ wallet' = [wallet EXCEPT ![i] = @ + a]
  /\ UNCHANGED <<invoiceVars, holding, repaidAmount, repayments, payouts,
                 reqVars, history>>

FundRead(s, i, v, a) ==
  /\ i \in Whitelisted
  /\ IsOpen(v)
  /\ a <= Remaining(v)
  /\ Start(s, "fundBalance", v, i, a, 0)
  /\ UNCHANGED <<invoiceVars, ledgerVars>>

FundCheckBalance(s) ==
  /\ pc[s] = "fundBalance"
  /\ \/ Affordable(by[s], amount[s]) /\ Goto(s, "fundCommit")
     \/ ~Affordable(by[s], amount[s]) /\ Finish(s)
  /\ UNCHANGED <<invoiceVars, ledgerVars>>

FundCommit(s) ==
  LET v == inv[s]
      i == by[s]
      a == amount[s]
      fullyFunded == fundedAmount[v] + a >= Cap(v)
  IN
  /\ pc[s] = "fundCommit"
  /\ holding' = [holding EXCEPT ![v][i] = Upserted(@, a)]
  /\ wallet' = [wallet EXCEPT ![i] = @ - a]
  /\ fundedAmount' = [fundedAmount EXCEPT ![v] = @ + a]
  /\ status' = [status EXCEPT ![v] = IF fullyFunded THEN "funded" ELSE "funding"]
  /\ payouts' = [payouts EXCEPT ![v] = IF fullyFunded THEN @ + 1 ELSE @]
  /\ Finish(s)
  /\ UNCHANGED <<confirmedAt, fundingTargetAmount, repaidAt, repaidAmount,
                 repayments>>

-----------------------------------------------------------------------------
(* payInvoice by the invoice's own buyer, for exactly the face amount.  The  *)
(* holdings are read by the transaction's first statement; its writes become *)
(* visible together when it commits.                                         *)

PayRead(s, v) ==
  /\ Payable(v)
  /\ Start(s, "payHoldings", v, None, 0, fundedAmount[v])
  /\ UNCHANGED <<invoiceVars, ledgerVars>>

PayHoldings(s) ==
  /\ pc[s] = "payHoldings"
  /\ pc' = [pc EXCEPT ![s] = "payCommit"]
  /\ held' = [held EXCEPT ![s] = holding[inv[s]]]
  /\ UNCHANGED <<invoiceVars, ledgerVars, inv, by, amount, seen, history>>

PayCommit(s) ==
  LET v == inv[s]
      holders == {i \in Investors : held[s][i] > 0}
  IN
  /\ pc[s] = "payCommit"
  /\ wallet' = [i \in Investors |-> wallet[i] + held[s][i]]
  /\ repayments' = [repayments EXCEPT ![v] = [i \in Investors |-> @[i] + held[s][i]]]
  /\ repaidAmount' = [repaidAmount EXCEPT ![v] =
        [i \in Investors |-> IF i \in holders THEN ReturnOn(held[s][i], seen[s])
                                              ELSE @[i]]]
  /\ status' = [status EXCEPT ![v] = "repaid"]
  /\ repaidAt' = [repaidAt EXCEPT ![v] = @ + 1]
  /\ Finish(s)
  /\ UNCHANGED <<confirmedAt, fundingTargetAmount, fundedAmount, holding, payouts>>

-----------------------------------------------------------------------------
(* A query throws, a transaction rolls back or the process dies before it    *)
(* commits: the handler is gone and none of its writes are there.            *)
Abort(s) ==
  /\ pc[s] # "idle"
  /\ Finish(s)
  /\ UNCHANGED <<invoiceVars, ledgerVars>>

Review(s) ==
  \/ \E v \in Invoices : ReviewRead(s, v)
  \/ \E t \in Targets : AcceptCommit(s, t)

Fund(s) ==
  \/ \E i \in Investors, v \in Invoices, a \in FundAmounts : FundRead(s, i, v, a)
  \/ FundCheckBalance(s)
  \/ FundCommit(s)

Pay(s) ==
  \/ \E v \in Invoices : PayRead(s, v)
  \/ PayHoldings(s)
  \/ PayCommit(s)

Next ==
  \/ \E i \in Investors, a \in DepositAmounts : Deposit(i, a)
  \/ \E s \in Slots : Review(s) \/ Fund(s) \/ Pay(s) \/ Abort(s)

Spec == Init /\ [][Next]_vars

-----------------------------------------------------------------------------
(* TypeOK: every column keeps its type, in particular fundedAmount and the   *)
(* ledger sums never become negative.                                        *)
TypeOK ==
  /\ status \in [Invoices -> Statuses]
  /\ confirmedAt \in [Invoices -> Nat]
  /\ fundingTargetAmount \in [Invoices -> Targets \cup {0}]
  /\ fundedAmount \in [Invoices -> Nat]
  /\ repaidAt \in [Invoices -> Nat]
  /\ holding \in [Invoices -> [Investors -> Nat]]
  /\ repaidAmount \in [Invoices -> [Investors -> Int]]
  /\ wallet \in [Investors -> Int]
  /\ repayments \in [Invoices -> [Investors -> Nat]]
  /\ payouts \in [Invoices -> Nat]
  /\ pc \in [Slots -> Stages]
  /\ inv \in [Slots -> Invoices \cup {None}]
  /\ by \in [Slots -> Investors \cup {None}]
  /\ amount \in [Slots -> Nat]
  /\ seen \in [Slots -> Nat]
  /\ held \in [Slots -> [Investors -> Nat]]
  /\ contended \subseteq Invoices
  /\ rushing \subseteq Investors

-----------------------------------------------------------------------------
(* What no lock protects holds as long as requests do not overlap: an        *)
(* invoice no two requests ever worked on at once, an investor who never had *)
(* two fundings in flight.                                                   *)

Quiet == Invoices \ contended

(* QuietInvoiceCapped: an invoice is never funded past its target, although  *)
(* fundInvoice checks the remaining balance outside its transaction.         *)
QuietInvoiceCapped == \A v \in Quiet : fundedAmount[v] = 0 \/ fundedAmount[v] <= Cap(v)

(* QuietInvoicePaidOutOnce: the business is paid out exactly once, by the    *)
(* funding that completes the raise, whatever happens to the invoice later.  *)
QuietInvoicePaidOutOnce == \A v \in Quiet :
  payouts[v] = IF status[v] \in {"funded", "overdue", "repaid"} THEN 1 ELSE 0

(* QuietInvoiceRepaid: each holder gets the principal back exactly once,     *)
(* when the invoice becomes repaid, and nothing before.                      *)
QuietInvoiceRepaid == \A v \in Quiet, i \in Investors :
  repayments[v][i] = IF status[v] = "repaid" THEN holding[v][i] ELSE 0

(* QuietWalletSolvent: fundInvoice's balance check keeps the wallet of an    *)
(* investor who funds one invoice at a time from going below zero.           *)
QuietWalletSolvent == \A i \in Investors \ rushing : wallet[i] >= 0

(* QuietReturns: the returns payInvoice records on the holdings of a repaid  *)
(* invoice are no loss for anyone and sum to no more than the buyer paid.    *)
QuietReturns == \A v \in Quiet : status[v] = "repaid" =>
  /\ \A i \in Investors : repaidAmount[v][i] >= holding[v][i]
  /\ SumFunction(repaidAmount[v]) <= FaceAmount

Rank == [submitted |-> 0, tokenized |-> 1, funding |-> 2, funded |-> 3,
         overdue |-> 4, repaid |-> 5]

(* QuietStatusForward: an invoice never goes back in its life cycle; in      *)
(* particular the unconditional status writes of the commits never reopen it. *)
QuietStatusForward ==
  [][\A v \in Invoices \ contended' : Rank[status[v]] <= Rank[status'[v]]]_vars

(* A funding invoice whose rest is below FundInvoiceDto's minimum. *)
Stranded(v) == status[v] = "funding" /\ Remaining(v) < MinFund

(* QuietStrandedStays: once the rest of the raise is below the smallest      *)
(* amount the API accepts, the invoice can never become funded, its business *)
(* is never paid and the investors' money stays in it.                       *)
QuietStrandedStays ==
  [][\A v \in Invoices \ contended' : Stranded(v) => Stranded(v)']_vars

(* FundedIsSumOfHoldings: fundedAmount is the sum of the invoice's holdings  *)
(* under every interleaving, for all three are updated by increments.        *)
FundedIsSumOfHoldings == \A v \in Invoices :
  fundedAmount[v] = SumFunction(holding[v])

LargestCap == IF Legacy # {} THEN FaceAmount
                            ELSE CHOOSE c \in Targets : \A d \in Targets : d <= c

(* OverfundBounded: however requests overlap, an invoice takes in at most one *)
(* whole raise per request the API serves at once: the checks outside the     *)
(* transaction still stop every request that starts after the target is met.  *)
OverfundBounded == \A v \in Invoices :
  fundedAmount[v] <= Cardinality(Slots) * LargestCap

(* DivisorPositive: payInvoice divides by the fundedAmount it read, which is  *)
(* never zero: only an invoice that took money in becomes payable.            *)
DivisorPositive ==
  /\ \A v \in Invoices : Payable(v) => fundedAmount[v] > 0
  /\ \A s \in Slots : pc[s] \in Paying => seen[s] > 0

LargestFunding == CHOOSE a \in FundAmounts : \A b \in FundAmounts : b <= a

(* WalletSolvent: the wallet of an investor who funds one invoice at a time   *)
(* stays solvent; however many fundings overlap, of all that passed the       *)
(* balance check on the same rows only one was covered by them, and the       *)
(* wallet is overdrawn by no more than the others.                           *)
WalletSolvent == QuietWalletSolvent /\ \A i \in Investors :
  wallet[i] >= -((Cardinality(Slots) - 1) * LargestFunding)

(* InvoicePaidOut: the business is paid out once without overlap; however     *)
(* fundings and acceptances overlap, at most once for each request the API    *)
(* serves at once, each time the buyer accepts: a complete raise takes in     *)
(* only those fundings that were under way.                                  *)
InvoicePaidOut == QuietInvoicePaidOutOnce /\ \A v \in Invoices :
  payouts[v] <= Cardinality(Slots) * confirmedAt[v]

(* InvoiceRepaid: each holder gets the principal back once without overlap;   *)
(* however payments and fundings overlap, at most the stake for each payment  *)
(* of the buyer: the holdings a payment read can only have grown since.       *)
InvoiceRepaid == QuietInvoiceRepaid /\ \A v \in Invoices, i \in Investors :
  repayments[v][i] <= repaidAt[v] * holding[v][i]

-----------------------------------------------------------------------------
(* What the repository says of every invoice, whatever overlaps.             *)

(* RepaidOnce: the schema has repaidAt "set once", by the transaction that   *)
(* makes the invoice repaid.                                                 *)
RepaidOnce == \A v \in Invoices : repaidAt[v] <= 1

-----------------------------------------------------------------------------
(* The inductive invariant behind the Quiet properties.                      *)

(* A slot is idle or works on an invoice; only a funding has an investor,    *)
(* whitelisted when it started.                                              *)
RequestsConsistent == \A s \in Slots :
  /\ pc[s] = "idle" => inv[s] = None
  /\ pc[s] # "idle" => inv[s] \in Invoices
  /\ pc[s] \in Funding => by[s] \in Whitelisted /\ amount[s] \in FundAmounts
  /\ pc[s] \notin Funding => by[s] = None

(* The history means what it says: at most one request per quiet invoice and *)
(* at most one funding per investor who is not rushing.                      *)
RequestsAlone == \A s, t \in Slots : s # t =>
  /\ inv[s] = inv[t] => inv[s] \notin Quiet
  /\ by[s] = by[t] => by[s] \notin Investors \ rushing

(* What a handler checked about a quiet invoice still holds while it is in   *)
(* flight, and so does the balance of an investor who is not rushing.        *)
ChecksStillHold == \A s \in Slots :
  LET v == inv[s] IN
  /\ v \in Quiet =>
       /\ pc[s] = "review" => Reviewable(v)
       /\ pc[s] \in Funding => IsOpen(v) /\ amount[s] <= Remaining(v)
       /\ pc[s] \in Paying => Payable(v) /\ seen[s] = fundedAmount[v]
       /\ pc[s] = "payCommit" => held[s] = holding[v]
  /\ pc[s] = "fundCommit" /\ by[s] \notin rushing =>
       Affordable(by[s], amount[s])

(* Where a quiet invoice is in its life determines its other columns.        *)
LifeCycleOf(v) ==
  /\ status[v] = "submitted" <=> confirmedAt[v] = 0
  /\ status[v] \in {"submitted", "tokenized"} => fundedAmount[v] = 0
  /\ status[v] = "funding" => fundedAmount[v] > 0 /\ fundedAmount[v] < Cap(v)
  /\ status[v] \in {"funded", "overdue", "repaid"} =>
       fundedAmount[v] > 0 /\ fundedAmount[v] = Cap(v)
  /\ repaidAt[v] = IF status[v] = "repaid" THEN 1 ELSE 0
LifeCycle == \A v \in Quiet : LifeCycleOf(v)

(* Consistent: the inductive invariant; the Quiet safety properties are among *)
(* its conjuncts or follow from them.                                        *)
Consistent ==
  /\ RequestsConsistent
  /\ RequestsAlone
  /\ ChecksStillHold
  /\ LifeCycle
  /\ QuietInvoicePaidOutOnce
  /\ QuietInvoiceRepaid
  /\ QuietWalletSolvent

=============================================================================
