------------------------------- MODULE Reviewing -------------------------------
(***************************************************************************)
(* The buyer's review behind the confirmation link, and whom it tells.     *)
(*                                                                         *)
(* An acceptance is one transaction, its notification included; the mail   *)
(* to the business is best effort, and the launch follows whatever became  *)
(* of it.  A dispute changes nothing of the invoice: it is a notification  *)
(* of its own and then a mail, whose failure fails the request, so the     *)
(* buyer may send it again.  What an acceptance computes is in             *)
(* InvoiceYield, what it opens in Marketplace, the launch in Tokenization. *)
(***************************************************************************)
EXTENDS Integers, Sequences, FiniteSets

CONSTANTS
  Invoices,    \* invoices that may be submitted
  Slots,       \* requests served at the same time
  MaxReviews,  \* bound: reviews that pass the first check
  None         \* no invoice

VARIABLES
  confirmed,  \* Invoice.confirmedAt is set
  notices,    \* tones of the business's Notification rows about an invoice
  mailed,     \* dispute mails that Resend took
  answered,   \* disputes that were answered with success
  launches,   \* calls of tokenizeAndLaunchOffering
  pc,         \* how far the handler in a slot is
  on,         \* the invoice it works on
  reviews,    \* bound counter of MaxReviews
  contended,  \* history: invoices two reviews worked on at once
  died        \* history: invoices whose review a crash ended

rows == <<confirmed, notices>>
outcomes == <<mailed, answered, launches>>
history == <<contended, died>>
revVars == <<rows, outcomes, pc, on, reviews, history>>

Init ==
  /\ confirmed = [v \in Invoices |-> FALSE]
  /\ notices = [v \in Invoices |-> <<>>]
  /\ mailed = [v \in Invoices |-> 0]
  /\ answered = [v \in Invoices |-> 0]
  /\ launches = [v \in Invoices |-> 0]
  /\ pc = [s \in Slots |-> "idle"]
  /\ on = [s \in Slots |-> None]
  /\ reviews = 0
  /\ contended = {}
  /\ died = {}

Goto(s, stage) == pc' = [pc EXCEPT ![s] = stage] /\ UNCHANGED on

Finish(s) ==
  /\ pc' = [pc EXCEPT ![s] = "idle"]
  /\ on' = [on EXCEPT ![s] = None]

Notified(s, tone) == notices' = [notices EXCEPT ![on[s]] = Append(@, tone)]

-----------------------------------------------------------------------------
ReviewableAlways(v) == TRUE
Reviewable(v) == ~confirmed[v]

ReviewRead(s, v, decision) ==
  /\ pc[s] = "idle"
  /\ Reviewable(v)
  /\ reviews < MaxReviews
  /\ reviews' = reviews + 1
  /\ pc' = [pc EXCEPT ![s] = decision]
  /\ on' = [on EXCEPT ![s] = v]
  /\ contended' = contended \cup {w \in {v} : \E t \in Slots : on[t] = w}
  /\ UNCHANGED <<rows, outcomes, died>>

AcceptCommit(s) ==
  /\ pc[s] = "accept"
  /\ confirmed' = [confirmed EXCEPT ![on[s]] = TRUE]
  /\ Notified(s, "positive")
  /\ Goto(s, "acceptMail")
  /\ UNCHANGED <<outcomes, reviews, history>>

(* After the mail to the business, sent or not.                              *)
AfterAcceptMailThrown(s, sent) == IF sent THEN Goto(s, "launch") ELSE Finish(s)
AfterAcceptMail(s, sent) == Goto(s, "launch")

AcceptMail(s) ==
  /\ pc[s] = "acceptMail"
  /\ \E sent \in BOOLEAN : AfterAcceptMail(s, sent)
  /\ UNCHANGED <<rows, outcomes, reviews, history>>

Launch(s) ==
  /\ pc[s] = "launch"
  /\ launches' = [launches EXCEPT ![on[s]] = @ + 1]
  /\ Finish(s)
  /\ UNCHANGED <<rows, mailed, answered, reviews, history>>

DisputeCommit(s) ==
  /\ pc[s] = "dispute"
  /\ Notified(s, "warning")
  /\ Goto(s, "disputeMail")
  /\ UNCHANGED <<confirmed, outcomes, reviews, history>>

(* Resend may take the mail and the answer still be lost. *)
AnsweredAnyway(ok) == TRUE
Answered(ok) == ok

DisputeMail(s) ==
  /\ pc[s] = "disputeMail"
  /\ \E sent, ok \in BOOLEAN :
       /\ ok => sent
       /\ mailed' = [mailed EXCEPT ![on[s]] = IF sent THEN @ + 1 ELSE @]
       /\ answered' = [answered EXCEPT ![on[s]] = IF Answered(ok) THEN @ + 1 ELSE @]
  /\ Finish(s)
  /\ UNCHANGED <<rows, launches, reviews, history>>

(* A write throws: the acceptance's transaction, or the dispute's insert. *)
WriteFails(s) ==
  /\ pc[s] \in {"accept", "dispute"}
  /\ Finish(s)
  /\ UNCHANGED <<rows, outcomes, reviews, history>>

(* The process dies with every handler in it. *)
Crash ==
  /\ pc' = [s \in Slots |-> "idle"]
  /\ on' = [s \in Slots |-> None]
  /\ died' = died \cup ({on[s] : s \in Slots} \ {None})
  /\ UNCHANGED <<rows, outcomes, reviews, contended>>

Proceed(s) ==
  \/ AcceptCommit(s) \/ AcceptMail(s) \/ Launch(s)
  \/ DisputeCommit(s) \/ DisputeMail(s) \/ WriteFails(s)

Next ==
  \/ \E s \in Slots, v \in Invoices, d \in {"accept", "dispute"} : ReviewRead(s, v, d)
  \/ \E s \in Slots : Proceed(s)
  \/ Crash

Spec == Init /\ [][Next]_revVars

-----------------------------------------------------------------------------
Told(v, tone) == Cardinality({n \in DOMAIN notices[v] : notices[v][n] = tone})

(* AcceptanceLaunched: every acceptance the business is told of confirms the *)
(* invoice and reaches the launch, whether its mail could be sent or not;    *)
(* only a crash in between loses one.                                        *)
AcceptanceLaunched == \A v \in Invoices :
  /\ confirmed[v] <=> Told(v, "positive") > 0
  /\ launches[v] <= Told(v, "positive")
  /\ v \notin died => Told(v, "positive") = launches[v] +
       Cardinality({s \in Slots : on[s] = v /\ pc[s] \in {"acceptMail", "launch"}})

(* QuietAcceptanceFinal: as long as the reviews of an invoice do not overlap *)
(* the acceptance is the last thing the business is told: it comes once, and *)
(* neither another one nor a dispute comes after it.                         *)
QuietAcceptanceFinal == \A v \in Invoices \ contended :
  \A n \in DOMAIN notices[v] : notices[v][n] = "positive" => n = Len(notices[v])

(* DisputeTold: a dispute that was answered with success was mailed, and one *)
(* that was mailed is a notification of its own: a dispute sent again after  *)
(* a failed mail may tell the business twice, but never less than once.      *)
DisputeTold == \A v \in Invoices :
  answered[v] <= mailed[v] /\ mailed[v] <= Told(v, "warning")

=============================================================================
