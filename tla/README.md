# Verification of the Raiquid API

TLA+ specifications of the NestJS service in this repository: an invoice
financing platform in which businesses submit invoices, buyers accept them over
a magic link, whitelisted investors fund them, and Brickken's Dapp API mirrors
the deal on chain. TLC checks the modules on small instances; TLAPS proves the
theorems for all values of the constants.

Paths below are relative to the repository; the code is in `src/`, the schema in
`prisma/schema.prisma`. Line references of every definition are in
`PROJECT.json` ("map").

## 1. Inventory

### Components

| component | code | state | operations |
|---|---|---|---|
| money path | `investor/investor.service.ts`, `buyer/buyer.service.ts`, `common/wallet-balance.ts` | `Invoice.status, confirmedAt, fundingTargetAmount, fundedAmount, repaidAt`; `Holding.amount, repaidAmount`; `WalletTransaction` rows | `submitConfirmationReview`, `deposit`, `fundInvoice`, `payInvoice` |
| tokenization and STO launch | `buyer.service.ts: tokenizeAndLaunchOffering`, `admin.service.ts: retryStoLaunch`, `brickken/*` | `Invoice.brickkenTokenSymbol, brickkenStoId, brickkenTokenizationError`; `OnChainEvent` rows; Brickken's chain | accept, mint, launch (with the indexing-lag loop), whitelist the platform wallet, admin retry |
| mirroring of investments | `investor.service.ts: recordOnChainInvestment`, `admin.service.ts: retryInvest` | `Holding.brickkenInvestmentError`; `OnChainEvent` rows; Brickken's chain | fund, invest, skip, admin retry |
| settlement on chain | `admin.service.ts: finalizeInvoiceOnChain`, `brickken.service.ts: finalizeOffering` | `Invoice.brickkenFinalizedAt`; `OnChainEvent` rows | close, claim, distribute, mark finalized |
| review by the buyer | `buyer.service.ts: submitConfirmationReview`, `confirm.controller.ts` | `Invoice.confirmedAt`, `Notification` rows, mails | accept (tell, mail, launch), dispute (tell, mail) |
| investor whitelisting | `investor.service.ts: submitWhitelisting`, `admin.service.ts: decideWhitelisting` | `Investor.whitelistStatus`, `KycDocument` and `Notification` rows | submit, approve, reject |
| paginated listings | the seven `findMany`/`count` pairs of the investor, buyer, business, admin and notification services | read only | a page, and the walk of a client over the pages |
| provisioning and submission | `webhooks/webhooks.service.ts`, `business.service.ts: createInvoice`, `buyer.service.ts: updateSettings` | `User`, `Business`, `Investor`, `Buyer`, `Invoice` rows | `user.created`, create an invoice with find-or-create of its buyer, settings |
| pricing | `business/invoice-yield.ts` | pure | `computeInvoiceYield`; the payout of `fundInvoice`, the returns of `payInvoice` |
| fee schedule | `business/provenance-fee-schedule.ts` | constants | the fees of a tier, `getReserve` |
| notifications | `notifications/*` | `Notification` rows | list, markRead, notify |
| admin dashboards | `admin.service.ts` (overview, reserve, provenance, ledger, queue) | read only | — |
| authentication and roles | `auth/*` | none | guards |
| storage, email | `storage/*`, `email/*` | external | presign, send |
| HTTP shell, configuration | controllers, `config/*`, `main.ts` | none | — |

### How they interact

Nothing calls across in memory except `BrickkenService`, `NotificationsService`
and `EmailService`; components meet in the database. Clerk delivers webhooks,
the buyer's browser and the dashboards send requests, and a handler calls
Brickken between its database accesses. `submitConfirmationReview` commits the
acceptance and then, in the same request, tokenizes; `fundInvoice` commits the
money and then mirrors it. An admin repairs what failed with `retryStoLaunch`,
`retryInvest` and `finalizeInvoiceOnChain`. There is no queue, no timer and no
background job: what a request leaves undone stays undone until someone asks
again.

### What is hard

* **Check then act.** Every handler reads its rows and checks them *before* its
  transaction, and no row is locked. Two requests may both pass a check that
  only one of them should (`docs/RAIQUID_CONTEXT.md:114` says so of funding).
  At READ COMMITTED, increments add to the row as it then is and absolute
  writes overwrite.
* **External effects.** A Brickken call may take effect and its answer be lost,
  or the update of its ledger row throw inside the `try` that treats every
  exception as a failed call. The process may die at any `await`.
* **Retries.** Two loops repeat a call on Brickken's indexing lag; the admin
  operations repeat what is recorded as failed.
* **One flag for several facts.** `brickkenTokenizationError` stands for three
  calls, `brickkenInvestmentError` for all fundings of a holding.
* **Identity by email.** `Buyer` rows are found by lowercased email, created by
  two paths, and not unique by it.
* **Numbers.** Rounding of returns, month boundaries, the width of
  `Decimal(5,2)`, a minimum funding that a raise's rest can fall below, a payout
  that is computed from the face value and paid from a discounted raise.
* **Moving lists.** A page is `skip` and `take` of a list that changes between
  two pages, and the rows and their total are two statements.
* **What is best effort and what is not.** The mail of an acceptance may fail
  and the launch goes on; the mail of a dispute fails the request, whose
  notification is committed by then (`docs/RAIQUID_CONTEXT.md:42-46`), although
  `README.md:248-250` calls every mail best effort.

### What makes each part correct

* *Money path*: the raise stays within its target, the business is paid out
  once, every holder gets the principal back once, no wallet goes negative,
  returns fit in what the buyer paid, the status only goes forward.
* *Tokenization*: one mint and one STO per invoice, columns only claim what the
  chain has, the ledger agrees with the chain as far as faults allow, an
  acceptance ends in an STO or in an error an operator can find.
* *Mirroring*: an unflagged holding was told to Brickken, a flagged one was
  not, and a retry never tells it twice.
* *Settlement*: close, claim and distribute happen in order and once, and
  finalized means all three.
* *Whitelisting*: a submission is decided at most once, only cleared investors
  fund, the notification tells the status that the row has.
* *Review*: an acceptance is told and launched once and nothing comes after it;
  a dispute that was answered was told and mailed.
* *Listings*: a reader misses or repeats only as many rows as left or arrived
  while it read.
* *Provisioning*: a redelivered event takes nothing back that a buyer changed
  since, no two users share an email, an account has the profile of its role, an
  address has one buyer row.
* *An offering*: what is distributed was raised and mirrored or shows that it
  was not, and nothing is done to an STO that was not launched.
* *Pricing*: the price is the one the dates give, the yield shown is what is
  recorded as the return, the returns never exceed the face value; how far the
  raise covers the payout, and what is left the reserve and the yield on record.

PROJECT.json lists the hazards of this code one by one, at their lines, with the
properties that would catch them. Of several the code lets the worst happen when
requests overlap, a fault hits or a second funding comes; no property of the code
can then be broken by it, and their notes say which one shows that it takes that.

## 2. The modules

All handler modules are built alike. A handler runs in a **slot** (as many as
the API serves at once); `pc` says how far it is, and what it carries from one
`await` to the next is kept per slot. One action is one database access or one
external answer. A request that a check rejects answers 4xx and writes nothing,
so only accepted requests are steps. **History variables** (`contended`,
`rushing`, `faulted`, `chosen` and others) note on which rows requests overlapped,
which a fault hit and what was asked for; no guard reads them. They let a property
say "as long as nothing overlapped". Definitions such as `ReviewableAgain` beside `Reviewable` are
mistakes a change of the code could make; no action uses them, they show that
each property can be broken.

### Marketplace — money path

`ReviewRead`/`AcceptCommit` are `submitConfirmationReview` (a dispute only
notifies); `Deposit` is `deposit`; `FundRead`, `FundCheckBalance`, `FundCommit`
are the three accesses of `fundInvoice`: the invoice's check, the wallet's
check, the transaction with holding, wallet row, increment, status and payout;
`PayRead`, `PayHoldings`, `PayCommit` are `payInvoice`, whose transaction reads
the holdings before it writes. `Abort` is any failure before a commit. `wallet`
is `walletBalance` over the investor's rows, kept as its sum; the amounts of
payouts and the notifications are left out (payouts are counted). `Legacy`
invoices are those confirmed before `fundingTargetAmount` existed, whose cap is
the face value. The status `awaiting_acceptance` is never assigned by the code;
`overdue` neither, but `payInvoice` reads it, so it is kept.
The buyer's exact amount is a check on immutable data and always passed.

`Money` holds the rounding of a Decimal column, shared with `InvoiceYield`.

### Escrow, MarketplaceRefinement

`Escrow` is what the money path promises, without handlers, rows or snapshots:
cash into stakes up to a goal, one payout, stakes back into cash.
`MarketplaceRefinement` maps the rows onto it: a stake is the part of a holding
that was not repaid. With one slot every commit acts as if its checks were made
at that very moment. With two it does not, which is what the Quiet properties
of `Marketplace` are about.

### Tokenization

From the acceptance on: `SendCall` inserts the pending event and sends,
`Succeeds`, `Refused`, `Lags`, `CallFaults`, `NoStoId` are the outcomes of
`BrickkenService.call` with the error mapping, `MayRetry` the bound of
`retryOnStoIndexingLag`, `PersistSymbol`, `PersistSto`, `RecordError` the writes
of `tokenizeAndLaunchOffering` and `retryStoLaunch`, `RetryRead` the latter's
checks. `WriteFails` is a database write that throws, inside a `try` or outside
(`Caught`), `Crash` the death of the process, with calls on their way mined or
not. External and modelled from how `src/` uses it: the effect of a call on the
chain (`TakesEffect`): a mined call counts, whether or not its answer arrives.
Brickken's own checks (for example on a second STO) are not assumed.

### Mirroring

The same for `newInvest`: `FundCommit` decides with the invoice as it was read
(`saw`), `Skip` flags a holding of an invoice without STO, `RetryRead` is
`retryInvest`, which repeats the holding's whole amount. The flag is `none`,
`skipped` or `failed`; its text is not modelled.

### Settlement

`FinalizeRead` are the checks of `finalizeInvoiceOnChain`, which keeps
`fundedAmount` as the dividend; then three calls in `Steps`, each awaited;
`Finalize` writes `brickkenFinalizedAt`. `FundCommit` and `WindowCloses` are
what goes on around a finalization; `late` notes the capital that committed
after the last request read `fundedAmount`, for `fundInvoice` looks neither at
the window nor at the finalization.

### Offering — Tokenization, Mirroring and Settlement together

One process, one set of slots, one fault budget, one invoice with several
holdings. The columns the three share are one: Mirroring's `launched` *is*
Tokenization's `stoId`, and `Funded` is the one transaction that is
`FundCommit` of Mirroring and of Settlement. Brickken takes no `newInvest` from
a wallet that Tokenization has not whitelisted (`InvestsOnlyListed`, external).
`ProcessDies` ends the handlers of all three. Launches do not overlap launches
there, nor fundings fundings: those overlaps are the questions of MCTokenization
and MCMirroring; all others remain.

### Reviewing

What an acceptance and a dispute do besides the money: `AcceptCommit` is the
transaction with its notification, `AcceptMail` the mail that may fail,
`Launch` the call of `tokenizeAndLaunchOffering`; `DisputeCommit` and
`DisputeMail` the two writes of a dispute. Nothing records a dispute, so it can
be sent again. `WriteFails` is a transaction or an insert that throws, `Crash`
the death of the process.

### Provisioning, Submission

`Deliver` is `user.created`, one transaction; `FindBuyer`, `CreateBuyer`,
`InsertInvoice` are the three statements of `createInvoice`; `UpdateSettings` is
`PATCH /buyer/settings`. What an insert does is decided by the unique constraints
of the schema: `User.email` (`Collides` rolls the webhook's transaction back),
`Buyer.userId` (an account that has a row gets an update, `Updated`, and never a
second row), the invoice number within a business (`Taken`); `contactEmail` has
none. Of a buyer's row its address is modelled, which submissions look up, of the
other profiles only that they exist. `Provisioned`, `HasBusiness`, `HasInvestor`,
`HasBuyer`, `IsAdmin` are what `ClerkAuthGuard`, `RolesGuard` and the profile
lookups of the services let pass. `Lower` is `toLowerCase` on the addresses of
the instance. The signature of a webhook and the token of a request are taken
as verified. `Submission` joins Provisioning and Reviewing: the link of an
invoice leads to one that `InsertInvoice` inserted, and both share the slots and
the crash.

### Whitelisting, Listings, Desk

`SubmitRead`/`SubmitCommit`, `DecideRead`/`DecideCommit`, and the part of
`fundInvoice` that the whitelist is about. `verdicts` are the notifications of
decisions since the investor's last submission.

`Listings` is a client that walks the pages of a list: `ReadRows` is
`findMany` with `skip` and `take`, `ReadTotal` the `count` that follows and
decides whether there is a next page; at READ COMMITTED each sees what is
committed by then. The lists differ in what may happen to them, which the
records `Marketplace`, `Portfolio`, `UnreadInbox`, `SettledLedger`,
`BusinessInvoices`, `BuyerInvoices` say: whether rows are inserted at the front
and whether updates select or deselect a row where it stands. `place` is a row's
position in the `orderBy`, 1 for the newest, and `Rank` its position among the
selected ones. Rows with the same `createdAt` are not modelled; the database may
order them either way.

`Desk` is the seventh list, the whitelisting queue: ordered by `updatedAt` and
driven by the commits of Whitelisting and by settings updates, each of which
moves its row to the front. A behaviour is followed until the walk is done.

### InvoiceYield

`computeInvoiceYield`, the fees of `PROVENANCE_FEE_SCHEDULE`, the payout of
`fundInvoice` and the two amounts of `payInvoice` in integers of the smallest unit,
with time in hours and the rounding of the columns: one invoice from its
submission to its repayment, over boundary inputs. `credits` is what the wallets
get, the stakes; `returns` is `Holding.repaidAmount`, the stakes with the
investors' part of the surplus, which is a record: no money follows it.

### Composition

| composition | parts | shared |
|---|---|---|
| `Offering` | Tokenization, Mirroring, Settlement | slots, crash, fault budget, `brickkenStoId`, the funding's transaction |
| `Submission` | Provisioning, Reviewing | slots, crash, the invoice a link leads to |
| `Desk` | Whitelisting, Listings | the investors' rows, their status and order |
| `MarketplaceRefinement` | Marketplace implements Escrow | |

Between the compositions: an acceptance is `AcceptCommit` of Marketplace for
the money and of Reviewing for whom it tells, and `ReviewRead` with the steps
after it of Tokenization for what it launches; a funding is `FundCommit` of
Marketplace for the money and of Offering for the chain; Marketplace takes
`whitelistStatus` as the constant `Whitelisted`, a variable in Whitelisting.
`fundedAmount` and the status are read by one part and written by one.

## 3. Runs

| run | question | bounds |
|---|---|---|
| MCMarketplaceOverlap | what survives overlap, and what holds without | 3 slots, 2 investors, 1 invoice; target 5 of 10; fundings of 2 and 3; wallets up to 4 |
| MCMarketplaceSerial | the handlers implement Escrow | 1 slot, 2 investors, a new and a legacy invoice |
| MCTokenization | columns, ledger, chain; every acceptance resolves | 2 slots, 2 invoices with one symbol, 1 delay, 1 admin retry, 1 fault; fair handlers |
| MCMirroring | flag, ledger, chain; every funding resolves | 2 slots, 1 holding, rounds of 1 and 2 up to 3, 1 delay, 2 admin retries, 1 fault; fair handlers |
| MCOffering | order and completeness of the settlement; what dividends, fundings and mirrored capital have to do with each other | 2 slots, 1 invoice, 2 holdings, 2 finalizations, 1 retry of each kind, 1 fault that hits all three |
| MCDesk | what the review guarantees; what a reader of a moving list misses | 2 slots, 2 investors, 3 submissions, 1 funding each, 1 settings update; 2 more rows and 6 changes for the other lists; pages of 1 and 2 |
| MCSubmission | redelivery, identity by email, acceptances and disputes | a business and two accounts with one email in two spellings, 3 buyer rows, 2 slots, 2 reviews |
| MCInvoiceYield | price, yield, payout, returns, reserve | all tiers; days around 0, 30, 60, 690, 750 and far beyond; hours at the edges of the day; amounts of 1050, 9999 and 20000; 4 splits |

The largest are MCDesk (3.2 million distinct states), MCMarketplaceOverlap
(1.4 million) and MCOffering (1.1 million), up to two minutes each.

Why the bounds are enough: all checks of a handler concern one invoice, one
holding or one investor, so a second row only adds independent steps, except
where rows compete or add up (two investors for one raise, two invoices for one
symbol, two accounts for one email, two holdings of one dividend), and there
the instance has two. Every hazard found needs two requests that overlap; the
money path is checked with three, and what it shows with two is not different
(`OverfundBounded` grows by one raise per slot). One delay exercises the loop's
continuation and its end, as three do; in MCOffering, where the loops are not
the question, there is none. One fault per run is placed at every point;
MCSubmission bounds neither crashes nor failing writes. In MCMarketplaceOverlap
the fundings reach the target exactly, step over it and strand below it. A walk
over four rows with pages of one and two has a first, an inner and a last page.
The face amount of 10 leaves a surplus of which the smallest stake's part outweighs
the rounding, as it does for the discounts and the minimum funding of the code
(`DiscountOutweighsRounding` in section 4). Of the amounts of MCInvoiceYield,
1050 is one at which the roundings of the target and of the percentage add up in
the recorded return, 9999 is odd and 20000 round. The one wallet bound is on
deposits only; fundings and repayments are never cut off. `MaxFundings`, `MaxSubmissions`, `MaxUpdates`, `MaxEvents`, `MaxReviews`,
`MaxRuns`, `MaxRetries`, `MaxFaults`, `MaxHolding`, `MaxRaised`, `BuyerRows`
bound the counters they name. No account of MCSubmission has the role `admin`,
which has no profile and submits nothing.

Deadlock is not checked: the API rests when nobody asks for anything, and the
bounds end the environment's requests.

### What the properties say

*Marketplace, under every overlap*: `FundedIsSumOfHoldings`, `DivisorPositive`,
and four that say how bad an overlap can get: `OverfundBounded` (one raise per
request served at once), `InvoicePaidOut` (one payout per request served at once
and acceptance), `InvoiceRepaid` (the stake for each payment of the buyer),
`WalletSolvent` (an overdraft of all fundings in flight but one). *Without
overlap*: the first parts of the last three (one payout by the funding that
completes the raise, the principal once, no overdraft), `QuietInvoiceCapped`,
`QuietReturns`, `QuietStatusForward`, and `QuietStrandedStays`, which is a
liability of the rule and not of the code's order: a raise whose rest is below
the smallest funding of the DTO is stuck.

*Tokenization*: `LedgerMirrorsChain`, `ColumnsBackedByChain` hold under every
overlap and fault (with the exemption they state); `QuietSingleLaunch` and
`QuietErrorNamesStep` without overlap. *Mirroring*: `LedgerMirrorsChain`,
`SingleRoundFlagTells`. *Settlement*: `StepsInOrder`, `FinalizedIsComplete`.
*Offering*: `DividendsAccounted` (the dividends go out once, they are what was
raised but for the fundings that came later, and they are what Brickken was told
of the holdings plus what the flags show as untold), `UnlistedShows` (the
wallet a retried launch forgot to whitelist shows on every holding instead),
`OnlyLaunchedTouched`.

*Whitelisting*: `QuietNoticeTells`, `QuietFunderWhitelisted`. *Listings and
Desk*: `MissedOnlyByDepartures`, `RepeatedOnlyByArrivals`: a row that did not
move is missed only if another left, and seen twice only if another arrived;
both happen, the properties say how often. *Reviewing*: `AcceptanceLaunched`,
`QuietAcceptanceFinal`, `DisputeTold`. *Provisioning*: `OneUserPerEmail`,
`QuietUnlinkedOnce`, `SettingsSurvive`: the address that a buyer set in the
settings survives whatever is delivered again, because the webhook's upsert
updates nothing.

*InvoiceYield*: `DatePriced`, `YieldRecorded` (the return recorded for an investor
is the stake and the yield shown at the acceptance up to three roundings, of the
return, of the percentage and of the target; the last one weighs the more the less
the discount leaves of the face amount, up to several units for long terms),
`ReturnsWithinFace`, `DueWithin23MonthsAcceptable`, and two that draw a line rather
than praise the code. By `PayoutCovered` the capital raised covers the payout
exactly for invoices due within a month: from the second month on the discount on
the raise exceeds the fees, and the platform pays out more than came in until the
buyer pays. By `ReserveBacked` the contribution that `getReserve` counts as
"actually collected" is there, while an invoice is funded, exactly if its tier is
anchored and it is due within a month. When the buyer has paid it is there at any
length, for 4% of the face amount is left once the wallets have the principal
back; the yield on record could be credited besides exactly within a month.

*Liveness*: `AcceptedResolves`, `FundedResolves`. Fairness is `WF` of a slot's
own steps (`Proceed`), which the code justifies: Node's event loop runs every
settled promise on, the delays of the loops are timers, and a Brickken request
is answered or fails with a network error. None is assumed of new requests,
admin retries or faults. A handler that a fault hit is exempt: a crash between
the commit and the calls leaves the row unresolved, as the documentation says.
The other modules have none to state: what their handlers do ends with an answer,
and nobody is obliged to ask again.

### Where the code disagrees with what is written

Each is a run whose counterexample TLC must find.

* `ViolateRepaidOnce` — two payments overlap; `prisma/schema.prisma:231` has
  `repaidAt` "set once".
* `ViolateClashRecorded` — of two invoices with one token symbol the second is
  minted and nothing is recorded; `docs/RAIQUID_CONTEXT.md:336` says it lands in
  the error state.
* `ViolateLaunchedMeansListed` — a launch completed by the admin retry never
  whitelists the platform wallet and shows no error;
  `docs/RAIQUID_CONTEXT.md:446` wants that state visible.
* `ViolateSeesWhatItOwes` — a buyer account created after an invoice named its
  email gets a second `Buyer` row and never sees that invoice;
  `docs/FRONTEND_INTEGRATION.md:234`.

Two more need no run of their own:

* `docs/RAIQUID_CONTEXT.md:251-252` calls `Buyer.contactEmail` unique. The schema
  has no such constraint: `ViolateSeesWhatItOwes` ends with two rows of one
  address, and so do the overlapping submissions that `QuietUnlinkedOnce` exempts.
* Of the surplus "75% of it goes to investors" and only the rest is not credited,
  says the comment at `buyer/buyer.service.ts:111-114`. No part of it reaches a
  wallet (`credits` and `Uncredited` of InvoiceYield), as
  `docs/FRONTEND_INTEGRATION.md:402-404` and `docs/RAIQUID_CONTEXT.md:59-70` say
  ("principal only"); `repaidAmount` records it all the same.

The qualifications of the other properties mark further limits of the same
kind: without "Quiet" the raise overshoots its target, a second acceptance or
finalization commits, an approval lands after a rejection, an error overwrites
a launched invoice; without "single round" the flag of an earlier round is
cleared by a later success; with a time of day in the due date the price may
count one month more than the dates (`DatePriced` is about dates without one);
an address changed by the settings is stored as sent.

## 4. Proofs

Eight modules hold theorems. Every invariant and every action property that a run
checks is stated by a theorem, for any number of requests, retries, faults, rows
and slots; so is the refinement of Escrow. `TypeOK` of a component is stated in
its proof module, where the proofs need it.

### Assumptions

Each theorem uses the assumption on the constants that its component declares,
which TLC evaluates in the runs, and what it names itself:

* that `Slots`, `Investors`, `Holdings` or `OtherRows` is finite, where the
  property counts or adds up over it;
* `WorthFunding` (PayoutCovered, ReserveBacked): a face amount of at least 1000
  units, 10 naira; `FundInvoiceDto` takes no funding below 5000 naira. Below, the
  roundings are as large as the amounts compared.
* `DiscountOutweighsRounding` (QuietReturns): a raise below the face amount leaves
  a surplus of which the smallest stake's part is more than what rounding adds to
  it. `computeInvoiceYield` discounts by 3% or more, and with a stake of
  5000 naira a surplus of 0.0004% of the target is enough. Without it many stakes
  of a unit or two, each rounded up, can add up to more than the buyer paid.
* `SomeRaise` (OverfundBounded): some invoice can be raised for at all.
* `SomeFunding` (WalletSolvent): there is a largest amount that is asked for, as
  the column's width gives one; and there is a slot.

### Where overlap is excluded

All invariants without overlap are inductive for the same reason, which is the
reason the code works at all. A handler checks a row in one step and commits in
a later one, so no property of the commit is inductive by itself. The
strengthening always has three parts: the history means what it says (`Alone`,
`RequestsAlone`: at most one handler works on a quiet row); what a handler
checked about a quiet row still holds while it is in flight (`ChecksStillHold`,
`StillHolds`, `StillOpen`, `Checked`, `WorkTells`); and what the row's columns
say of each other (`LifeCycle`, `ToldIsConfirmed`, `KnowsTheChain`, `RestTells`).

### Module by module

* `MarketplaceProofs`. `TypeCorrect`: typing, `RequestsConsistent` and
  `DivisorPositive` are inductive together; typing needs the other two, as the
  returns are integers because `payInvoice` never divides by zero.
  `QuietCorrect`: `Consistent` is inductive, one lemma per action; from it
  `QuietCapped`, the quiet parts of the theorems below, and with
  `ContendedGrows` (an invoice quiet after a step was so before) the action
  properties `QuietForward` and `QuietStranded`. The sums over investors rest on
  lemmas about `SumFunctionOnSet` (the sum of a function that changes at one
  point, of a sum, of a larger function), proved by induction over the subsets of
  a finite set, which is written out with a set in the place of a predicate.
  `FundedSum`: every commit adds the same to the column and to one holding.
  `OverfundingBounded`: `RoomLeft`, what came in and what all slots ask for is at
  most one raise per slot, is inductive because a request is let in only below
  the target. `WalletsSolvent`: what the fundings past the balance check still take
  out of a wallet (`Owed`) exceeds it by no more than all of them but one, since the
  last one checked was covered. `PaidOutBounded`: a complete raise lets no funding
  in, so its payouts and the fundings under way (`UnderWay`) stay within the number
  of slots for each acceptance, and only an acceptance opens it again.
  `HoldersRepaid`: the holdings a payment carries were there, and holdings only
  grow. `QuietReturn`: `ReturnsRecorded` ties the returns of a repaid
  invoice to its stakes and the amount paid. `SerialImplementsEscrow`: with one
  slot, `Spec => ImplementsEscrow`; reads and aborts are stutters, each commit is
  one escrow action, and `NeverContended` shows that one slot keeps every invoice
  quiet, so `Consistent` applies.
* `DeskProofs`. `NoticeTells`, `FunderWhitelisted`, and both at the admin's desk:
  a step of Desk is a step of Whitelisting or leaves its variables alone.
  `MissedByDepartures` and `RepeatedByArrivals` are about every list. The
  argument is one about ranks: a change touches one row, the others keep their
  order, so the rank of each becomes or was its rank among the others plus one
  (`RanksAfter`), no two rows have the same (`OneAtRank`), and therefore at most
  one row crosses the border between what the pages read so far cover and the
  rest (`ChangeCrosses`, `ChangeSlips`). The invariant `Bounds` counts during the
  walk the steady rows that slipped unseen behind the border (at most the
  departures), and the repetitions plus the rows already shown that are again
  ahead of it (at most the arrivals).
* `ReviewingProofs`: `AcceptanceFinal`; and under every overlap `Launched` and
  `Disputed`. The latter two count: `Accounted` says that the notifications told
  are the launches made plus the handlers between the commit and the launch,
  unless a crash ended one, and similarly of disputes, mails and answers. The
  lemmas on counting relate an append to the number of notifications of a tone,
  and a slot's step to the number of slots at a stage.
* `SubmissionProofs`. Of Provisioning: `UsersOnce`, `Redelivered`,
  `UnlinkedOnce`. `Users` ties the user, the profile and the buyer's row of an
  account to its payload; the second says of every step who may write an address
  (`Settings`); the third also needs that a submission which found no
  buyer still finds none, unless another one looked the address up. Of the
  composition: `SubmissionProvisions` is immediate, `SubmissionReviews` needs
  `Named` (what a submission inserts names a business and a number, so every link
  leads to an invoice of Reviewing), and `SubmissionFinal`, `SubmissionLaunched`,
  `SubmissionDisputed` take the theorems of Reviewing over through an instance of
  its proof module.
* `TokenizationProofs`: `Backing` (under every overlap and fault: neither the
  chain nor the columns take anything back, and a handler's stage tells what is
  there), `ErrorNamesStep`, `SingleLaunch`, which needs that on a quiet
  invoice without faults the chain is never further than the handler at work
  knows, and `LedgerMirrors`: the pending events of an invoice are its handlers
  that wait for an answer, and what is confirmed is what the chain has, as
  long as no fault hit it; a fault only ever leaves confirmations out.
* `MirroringProofs`: `FlagTells` (`Flags`: what the flag and the told amount of a
  calm holding are at rest, and at each stage of the handler at work on it) and
  `LedgerMirrors`, the same count of the handlers that wait.
* `InvoiceYieldProofs`: `PricedByDates`, `TwentyThreeMonths`, `ReturnsCovered`,
  `PaidFromRaise`, `ReserveLeft`, `YieldOnRecord`, for all amounts, dates, hours and
  splits. `IInv` (`Terms` and `Priced`) says that the columns are what
  `computeInvoiceYield` makes of the dates; the rest is arithmetic: a rounded
  quotient is off by half a unit (`RoundBounds`), and each lemma multiplies the
  roundings out along the way from the face amount to the recorded return. The
  proof attempt showed that a bound of two units for `YieldRecorded` is wrong for
  terms beyond two years, where the percentage shown is of a small target; the
  property states the three roundings one by one instead.
* `OfferingProofs`: `CallsOrdered`, `FinalizedWhenDone`, `LaunchedFirst`,
  `NotListedShown`, `DividendsPaidOnce`, of launches, fundings and settlements
  together. What the proof modules of Tokenization and Mirroring show of a step
  holds here through instances of them (`P`, `Q`), for a step of Offering is one
  of theirs or leaves their variables alone; Settlement is proved in place
  (`Settled`, `SetLedger`). On top, `OInv` has what relates the parts: what a
  handler read of another component before its call is still true at the call
  (`InvTouched`, `SetTouched`), every holding of an invoice that is not listed
  shows it or has a handler that will (`Shows`), and the raised amount is the sum
  of the holdings (`RaisedIsHeld`). `DividendsPaidOnce` adds up over the holdings
  what `Flags` says of each.

### Only model-checked

Liveness (`AcceptedResolves`, `FundedResolves`) is out of the prover's reach, and
the runs that expect a violation refute what they check. All other properties
of the runs are proved.

## 5. Not modelled

* The HTTP shell, configuration, logging and the database client: no state.
* Clerk's and Svix's signatures, and the tokens of confirmation links, whose
  secrecy is a matter of probability: taken as verified.
* Presigned uploads and the R2 keys: pure output. The mails that are logged when
  they fail and change nothing (whitelisting, payout, repayment), and the
  notifications of payouts and repayments, which are rows of transactions that
  Marketplace has as one step.
* `getOverview`, `getProvenance` and the single-row reads: each is an aggregate
  of one snapshot and keeps nothing.
* `user.updated` and `user.deleted`, which the code acknowledges and ignores.
* Serialization anomalies below READ COMMITTED's statement level: a
  transaction's writes appear at once, at its commit; the reads inside one and
  the two statements of a listing are steps of their own.
* The optional documents of a whitelisting submission, the text of errors beyond
  its prefix, formatting.
* Scripts that are not part of the service (`scripts/`).

## 6. Plan

Done, in this order: Marketplace, Escrow, the refinement and their proofs;
Tokenization; Mirroring; Settlement; Whitelisting; Provisioning; InvoiceYield;
then Reviewing, Listings and the compositions Submission, Desk and Offering, the
payout and the reserve; the proofs of Whitelisting, Desk, Reviewing,
Provisioning, Submission and Tokenization; the sums of Marketplace, the ledgers,
Mirroring, InvoiceYield, Settlement and Offering, and the walks of Listings.

Left, in order of weight:

1. Abstract specifications for Mirroring (a funding is told once or flagged) and
   Settlement (three steps, once), with the handlers shown to implement them
   without overlap.
2. `LedgerMirrorsChain` under faults from below: how many effects of the chain
   the ledger may lack for each fault.
