----------------------------- MODULE Provisioning -----------------------------
(***************************************************************************)
(* How rows come to be: Clerk's user.created webhook provisions a user and *)
(* the profile of its role, and a business submits an invoice, for which   *)
(* the buyer's row is found by email or created.                           *)
(*                                                                         *)
(* A webhook is one transaction and may be delivered any number of times.  *)
(* createInvoice is three statements of their own: the lookup, the buyer's *)
(* insert and the invoice's insert; other requests may come in between.    *)
(* Three unique constraints decide what an insert does: User.email, the    *)
(* userId of a Buyer (as of a Business and an Investor) and the invoice    *)
(* number within its business.  Buyer.contactEmail has none.               *)
(***************************************************************************)
EXTENDS Integers, FiniteSets

CONSTANTS
  Accounts,   \* Clerk users
  RoleOf,     \* account -> role on its payload
  EmailOf,    \* account -> primary email on its payload
  Emails,     \* email addresses as people write them
  Lower,      \* email -> the address in lower case
  Numbers,    \* invoice numbers businesses use
  BuyerRows,  \* bound: ids of Buyer rows
  Slots,      \* createInvoice requests served at the same time
  None        \* null

ASSUME ProvisioningAssumption ==
  /\ RoleOf \in [Accounts -> {"business", "buyer", "investor", "admin", "missing"}]
  /\ EmailOf \in [Accounts -> Emails]
  /\ Lower \in [Emails -> Emails]
  /\ \A e \in Emails : Lower[Lower[e]] = Lower[e]
  /\ None \notin Accounts \cup Emails \cup BuyerRows \cup Numbers

VARIABLES
  userEmail,     \* User.email of an account; None is no User row
  profiles,      \* accounts with a Business or Investor row
  contactEmail,  \* Buyer.contactEmail of a row; None is no row
  userId,        \* Buyer.userId
  invoices,      \* Invoice rows, with the address the business gave
  pc,            \* how far the createInvoice in a slot is
  business,      \* the account that submits
  number,        \* dto.invoiceNumber
  to,            \* dto.buyerContactEmail in lower case
  found,         \* the buyer row it found or created
  contended,     \* history: addresses two submissions looked up at once
  chosen         \* history: the address an account last set for its row

reqVars == <<pc, business, number, to, found>>
history == <<contended, chosen>>
vars == <<userEmail, profiles, contactEmail, userId, invoices, reqVars, history>>

Rows == {b \in BuyerRows : contactEmail[b] # None}
Fresh == BuyerRows \ Rows

Init ==
  /\ userEmail = [a \in Accounts |-> None]
  /\ profiles = {}
  /\ contactEmail = [b \in BuyerRows |-> None]
  /\ userId = [b \in BuyerRows |-> None]
  /\ invoices = {}
  /\ pc = [s \in Slots |-> "idle"]
  /\ business = [s \in Slots |-> None]
  /\ number = [s \in Slots |-> None]
  /\ to = [s \in Slots |-> None]
  /\ found = [s \in Slots |-> None]
  /\ contended = {}
  /\ chosen = [b \in BuyerRows |-> None]

-----------------------------------------------------------------------------
(* provisionUser.  A payload without a valid role is acknowledged and        *)
(* dropped, and so is one whose email belongs to another user: the unique    *)
(* constraint rolls the transaction back.                                    *)

CollidesNever(a) == FALSE
Collides(a) == \E c \in Accounts \ {a} : userEmail[c] = Lower[EmailOf[a]]

RowsOf(a) == {b \in Rows : userId[b] = a}

(* What the upsert makes of the address e of the account's row: update: {}   *)
(* leaves it; by mistake it would write the payload again.                   *)
UpdatedFromPayload(a, e) == Lower[EmailOf[a]]
Updated(a, e) == e

(* The upsert of the buyer's row by its userId.  A row with that userId makes *)
(* it an update; its unique constraint leaves no other outcome.              *)
BuyerProfile(a) ==
  \/ /\ RoleOf[a] # "buyer"
     /\ UNCHANGED <<contactEmail, userId>>
  \/ /\ RoleOf[a] = "buyer" /\ RowsOf(a) = {}
     /\ \E b \in Fresh :
          /\ contactEmail' = [contactEmail EXCEPT ![b] = Lower[EmailOf[a]]]
          /\ userId' = [userId EXCEPT ![b] = a]
  \/ /\ RoleOf[a] = "buyer"
     /\ \E b \in RowsOf(a) : contactEmail' = [contactEmail EXCEPT ![b] = Updated(a, @)]
     /\ UNCHANGED userId

Deliver(a) ==
  /\ RoleOf[a] # "missing"
  /\ ~Collides(a)
  /\ userEmail' = [userEmail EXCEPT ![a] = Lower[EmailOf[a]]]
  /\ profiles' = IF RoleOf[a] \in {"business", "investor"} THEN profiles \cup {a}
                                                         ELSE profiles
  /\ BuyerProfile(a)
  /\ UNCHANGED <<invoices, reqVars, history>>

-----------------------------------------------------------------------------
(* Who may call: the guard finds the caller's user row by its Clerk id, and  *)
(* the service the profile of that user.  No route asks for a role but the   *)
(* admin's, so an account is what its profile says.                          *)
Provisioned(a) == userEmail[a] # None
HasProfile(a, role) == Provisioned(a) /\ RoleOf[a] = role /\ a \in profiles
HasBusiness(a) == HasProfile(a, "business")
HasInvestor(a) == HasProfile(a, "investor")
HasBuyer(a) == Provisioned(a) /\ \E b \in Rows : userId[b] = a
IsAdmin(a) == Provisioned(a) /\ RoleOf[a] = "admin"  \* has no profile

(* PATCH /buyer/settings: the address is stored as it was sent. *)
UpdateSettings(b, e) ==
  /\ b \in Rows
  /\ \E a \in Accounts : HasBuyer(a) /\ userId[b] = a
  /\ contactEmail' = [contactEmail EXCEPT ![b] = e]
  /\ chosen' = [chosen EXCEPT ![b] = e]
  /\ UNCHANGED <<userEmail, profiles, userId, invoices, reqVars, contended>>

-----------------------------------------------------------------------------
(* createInvoice. *)

Finish(s) ==
  /\ pc' = [pc EXCEPT ![s] = "idle"]
  /\ business' = [business EXCEPT ![s] = None]
  /\ number' = [number EXCEPT ![s] = None]
  /\ to' = [to EXCEPT ![s] = None]
  /\ found' = [found EXCEPT ![s] = None]

MatchesAsWritten(e) == {b \in Rows : contactEmail[b] = e /\ Lower[e] = e}
Matches(e) == {b \in Rows : contactEmail[b] = Lower[e]}

(* The lookup by the lowercased address; findFirst may return any match. *)
FindBuyer(s, a, n, e) ==
  /\ pc[s] = "idle"
  /\ HasBusiness(a)
  /\ \/ \E b \in Matches(e) :
          /\ pc' = [pc EXCEPT ![s] = "insert"]
          /\ found' = [found EXCEPT ![s] = b]
     \/ /\ Matches(e) = {}
        /\ pc' = [pc EXCEPT ![s] = "create"]
        /\ UNCHANGED found
  /\ business' = [business EXCEPT ![s] = a]
  /\ number' = [number EXCEPT ![s] = n]
  /\ to' = [to EXCEPT ![s] = Lower[e]]
  /\ contended' = contended \cup {m \in {Lower[e]} : \E t \in Slots : to[t] = m}
  /\ UNCHANGED <<userEmail, profiles, contactEmail, userId, invoices, chosen>>

CreateBuyer(s) ==
  /\ pc[s] = "create"
  /\ \E b \in Fresh :
       /\ contactEmail' = [contactEmail EXCEPT ![b] = to[s]]
       /\ found' = [found EXCEPT ![s] = b]
  /\ pc' = [pc EXCEPT ![s] = "insert"]
  /\ UNCHANGED <<userEmail, profiles, userId, invoices, business, number, to, history>>

Taken(a, n) == \E i \in invoices : i.business = a /\ i.number = n

(* The invoice's insert, or the 409 for a number already used, which leaves  *)
(* a buyer it created behind.                                                *)
InsertInvoice(s) ==
  /\ pc[s] = "insert"
  /\ invoices' = IF Taken(business[s], number[s]) THEN invoices
                 ELSE invoices \cup {[business |-> business[s], number |-> number[s],
                                      buyer |-> found[s], to |-> to[s]]}
  /\ Finish(s)
  /\ UNCHANGED <<userEmail, profiles, contactEmail, userId, history>>

(* The request fails between two statements. *)
Abort(s) ==
  /\ pc[s] # "idle"
  /\ Finish(s)
  /\ UNCHANGED <<userEmail, profiles, contactEmail, userId, invoices, history>>

(* The process dies with every handler in it. *)
Crash ==
  /\ pc' = [s \in Slots |-> "idle"]
  /\ business' = [s \in Slots |-> None]
  /\ number' = [s \in Slots |-> None]
  /\ to' = [s \in Slots |-> None]
  /\ found' = [s \in Slots |-> None]
  /\ UNCHANGED <<userEmail, profiles, contactEmail, userId, invoices, history>>

Next ==
  \/ \E a \in Accounts : Deliver(a)
  \/ \E b \in BuyerRows, e \in Emails : UpdateSettings(b, e)
  \/ \E s \in Slots, a \in Accounts, n \in Numbers, e \in Emails : FindBuyer(s, a, n, e)
  \/ \E s \in Slots : CreateBuyer(s) \/ InsertInvoice(s) \/ Abort(s)
  \/ Crash

Spec == Init /\ [][Next]_vars

-----------------------------------------------------------------------------
(* OneUserPerEmail: however often and in whichever order user.created events *)
(* are delivered, no two users share an email, and an account whose request  *)
(* the guard lets pass has the one profile its role gives it, so a service   *)
(* never answers a provisioned caller of its role with a 404.                *)
OneUserPerEmail == \A a, c \in Accounts :
  /\ a # c /\ Provisioned(a) => userEmail[a] # userEmail[c]
  /\ Provisioned(a) <=> HasBusiness(a) \/ HasInvestor(a) \/ HasBuyer(a) \/ IsAdmin(a)
  /\ ~Provisioned(a) => a \notin profiles /\ \A b \in Rows : userId[b] # a
  /\ HasBuyer(a) => RoleOf[a] = "buyer"

(* SettingsSurvive: an address that a buyer set in the settings stays on its  *)
(* row until the next one: neither a user.created that is delivered again,    *)
(* with the payload's old address, nor a submission overwrites it.            *)
SettingsSurvive == \A b \in BuyerRows : chosen[b] # None => contactEmail[b] = chosen[b]

(* QuietUnlinkedOnce: as long as submissions to an address do not overlap,   *)
(* they share one buyer row without an account.                              *)
QuietUnlinkedOnce == \A b, c \in Rows :
  /\ b # c /\ userId[b] = None /\ userId[c] = None
  /\ contactEmail[b] = contactEmail[c]
  => contactEmail[b] \in contended

(* SeesWhatItOwes: FRONTEND_INTEGRATION.md has a buyer's dashboard list the  *)
(* invoices this buyer owes, so one addressed to the email of a buyer's      *)
(* account belongs to that account's row.                                    *)
SeesWhatItOwes == \A i \in invoices, a \in Accounts :
  RoleOf[a] = "buyer" /\ userEmail[a] = i.to => userId[i.buyer] = a

=============================================================================
