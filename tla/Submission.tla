------------------------------ MODULE Submission ------------------------------
(***************************************************************************)
(* From a submitted invoice to its review: Provisioning inserts the row    *)
(* whose token the confirmation link carries, Reviewing reviews it.  Both  *)
(* are served by one process and share its slots, and a crash ends every   *)
(* handler.                                                                *)
(***************************************************************************)
EXTENDS Provisioning

CONSTANT MaxReviews  \* bound: reviews that pass the first check

VARIABLES confirmed, notices, mailed, answered, launches, revPc, on, reviews, revContended, died

(* An invoice is known by its business and its number. *)
R == INSTANCE Reviewing WITH
  Invoices <- Accounts \X Numbers, pc <- revPc, contended <- revContended

reviewing == <<confirmed, notices, mailed, answered, launches, revPc, on, reviews,
               revContended, died>>
allVars == <<vars, reviewing>>

SubmissionInit == Init /\ R!Init

Free(s) == pc[s] = "idle" /\ revPc[s] = "idle"

Submitting ==
  /\ \/ \E a \in Accounts : Deliver(a)
     \/ \E b \in BuyerRows, e \in Emails : UpdateSettings(b, e)
     \/ \E s \in Slots, a \in Accounts, n \in Numbers, e \in Emails :
          Free(s) /\ FindBuyer(s, a, n, e)
     \/ \E s \in Slots : CreateBuyer(s) \/ InsertInvoice(s) \/ Abort(s)
  /\ UNCHANGED reviewing

(* The link leads to an invoice that exists. *)
Reviewing ==
  /\ \E s \in Slots :
       \/ \E i \in invoices, d \in {"accept", "dispute"} :
            Free(s) /\ R!ReviewRead(s, <<i.business, i.number>>, d)
       \/ R!Proceed(s)
  /\ UNCHANGED vars

ProcessDies == Crash /\ R!Crash

SubmissionNext == Submitting \/ Reviewing \/ ProcessDies

SubmissionSpec == SubmissionInit /\ [][SubmissionNext]_allVars

AcceptanceLaunched == R!AcceptanceLaunched
QuietAcceptanceFinal == R!QuietAcceptanceFinal
DisputeTold == R!DisputeTold

=============================================================================
