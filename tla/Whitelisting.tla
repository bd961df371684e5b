----------------------------- MODULE Whitelisting -----------------------------
(***************************************************************************)
(* Who may fund: an investor submits for review, an admin approves or      *)
(* sends back, and fundInvoice only lets a whitelisted investor pass.      *)
(*                                                                         *)
(* decideWhitelisting checks the status it read before its transaction,    *)
(* and so does fundInvoice; submitWhitelisting checks nothing.  What else  *)
(* a funding checks and writes is in Marketplace.                          *)
(***************************************************************************)
EXTENDS Integers, Sequences, FiniteSets

CONSTANTS
  Investors,       \* investor profiles
  Slots,           \* requests served at the same time
  MaxSubmissions,  \* bound: submissions
  MaxFundings,     \* bound: committed fundings of an investor
  None             \* no investor

ASSUME WhitelistingAssumption ==
  /\ MaxSubmissions \in Nat
  /\ MaxFundings \in Nat
  /\ None \notin Investors

VARIABLES
  whitelistStatus,  \* Investor.whitelistStatus
  submitted,        \* bound counter of MaxSubmissions
  verdicts,         \* tones of the decision notifications since its last submission
  holdings,         \* fundings of the investor that committed
  pc,               \* what the handler in a slot is about to commit
  who,              \* the investor it is about
  contended         \* history: investors two requests worked on at once

vars == <<whitelistStatus, submitted, verdicts, holdings, pc, who, contended>>

Decisions == {"approve", "reject"}

Init ==
  /\ whitelistStatus = [i \in Investors |-> "identity_submitted"]
  /\ submitted = 0
  /\ verdicts = [i \in Investors |-> <<>>]
  /\ holdings = [i \in Investors |-> 0]
  /\ pc = [s \in Slots |-> "idle"]
  /\ who = [s \in Slots |-> None]
  /\ contended = {}

-----------------------------------------------------------------------------
Start(s, stage, i) ==
  /\ pc[s] = "idle"
  /\ pc' = [pc EXCEPT ![s] = stage]
  /\ who' = [who EXCEPT ![s] = i]
  /\ contended' = contended \cup {j \in {i} : \E t \in Slots : who[t] = j}

Finish(s) ==
  /\ pc' = [pc EXCEPT ![s] = "idle"]
  /\ who' = [who EXCEPT ![s] = None]
  /\ UNCHANGED contended

(* submitWhitelisting: the profile is read, the keys are checked against the *)
(* investor's own prefix, and the status is set whatever it was; the         *)
(* optional documents are left out.                                          *)
SubmitRead(s, i) ==
  /\ submitted < MaxSubmissions
  /\ submitted' = submitted + 1
  /\ Start(s, "submit", i)
  /\ UNCHANGED <<whitelistStatus, verdicts, holdings>>

SubmitCommit(s) ==
  /\ pc[s] = "submit"
  /\ whitelistStatus' = [whitelistStatus EXCEPT ![who[s]] = "in_review"]
  /\ verdicts' = [verdicts EXCEPT ![who[s]] = <<>>]
  /\ Finish(s)
  /\ UNCHANGED <<submitted, holdings>>

-----------------------------------------------------------------------------
AwaitingUnlessCleared(i) == whitelistStatus[i] # "whitelisted"
Awaiting(i) == whitelistStatus[i] = "in_review"

DecideRead(s, i, decision) ==
  /\ Awaiting(i)
  /\ Start(s, decision, i)
  /\ UNCHANGED <<whitelistStatus, submitted, verdicts, holdings>>

Verdict == [approve |-> "whitelisted", reject |-> "identity_submitted"]
Tone == [approve |-> "positive", reject |-> "warning"]

DecideCommit(s) ==
  /\ pc[s] \in Decisions
  /\ whitelistStatus' = [whitelistStatus EXCEPT ![who[s]] = Verdict[pc[s]]]
  /\ verdicts' = [verdicts EXCEPT ![who[s]] = Append(@, Tone[pc[s]])]
  /\ Finish(s)
  /\ UNCHANGED <<submitted, holdings>>

-----------------------------------------------------------------------------
(* fundInvoice as far as the whitelist goes: checked on the profile it read, *)
(* committed later.                                                          *)
FundCheckUnchecked(i) == TRUE
FundCheck(i) == whitelistStatus[i] = "whitelisted"

FundRead(s, i) ==
  /\ FundCheck(i)
  /\ holdings[i] < MaxFundings
  /\ Start(s, "fund", i)
  /\ UNCHANGED <<whitelistStatus, submitted, verdicts, holdings>>

FundCommit(s) ==
  /\ pc[s] = "fund"
  /\ holdings' = [holdings EXCEPT ![who[s]] = @ + 1]
  /\ Finish(s)
  /\ UNCHANGED <<whitelistStatus, submitted, verdicts>>

(* The request fails before it commits. *)
Abort(s) ==
  /\ pc[s] # "idle"
  /\ Finish(s)
  /\ UNCHANGED <<whitelistStatus, submitted, verdicts, holdings>>

Next ==
  \/ \E s \in Slots, i \in Investors : SubmitRead(s, i) \/ FundRead(s, i)
  \/ \E s \in Slots, i \in Investors, d \in Decisions : DecideRead(s, i, d)
  \/ \E s \in Slots : SubmitCommit(s) \/ DecideCommit(s) \/ FundCommit(s) \/ Abort(s)

Spec == Init /\ [][Next]_vars

-----------------------------------------------------------------------------
(* The status that the notifications since the last submission tell. *)
Tells(told, status) ==
  /\ status = "whitelisted" => told = <<"positive">>
  /\ status = "in_review" => told = <<>>
  /\ status = "identity_submitted" => told \in {<<>>, <<"warning">>}

(* QuietNoticeTells: as long as the requests about an investor do not        *)
(* overlap, every submission is decided at most once, and the notification   *)
(* of the decision tells the status that the investor has ever since.        *)
QuietNoticeTells == \A i \in Investors \ contended :
  Tells(verdicts[i], whitelistStatus[i])

(* QuietFunderWhitelisted: without overlap an investor funds only while      *)
(* whitelisted.                                                              *)
QuietFunderWhitelisted ==
  [][\A i \in Investors \ contended' : holdings'[i] > holdings[i] =>
       whitelistStatus[i] = "whitelisted"]_vars

=============================================================================
