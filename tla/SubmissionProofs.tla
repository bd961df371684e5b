--------------------------- MODULE SubmissionProofs ---------------------------
(***************************************************************************)
(* Theorems about Provisioning, for all accounts, payloads, addresses and  *)
(* slots: what redelivered webhooks and overlapping submissions leave.     *)
(* Submission keeps what its parts promise: every behaviour of it is one   *)
(* of Provisioning and one of Reviewing, so the theorems about them hold   *)
(* of both together, with every crash in common.                           *)
(***************************************************************************)
EXTENDS Submission, TLAPS

USE ProvisioningAssumption

TypeOK ==
  /\ userEmail \in [Accounts -> Emails \cup {None}]
  /\ profiles \subseteq Accounts
  /\ contactEmail \in [BuyerRows -> Emails \cup {None}]
  /\ userId \in [BuyerRows -> Accounts \cup {None}]
  /\ pc \in [Slots -> {"idle", "create", "insert"}]
  /\ to \in [Slots -> Emails \cup {None}]

(* Users come from payloads and never share an email.                        *)
UsersFromPayloads == \A a \in Accounts : Provisioned(a) =>
  /\ userEmail[a] = Lower[EmailOf[a]]
  /\ RoleOf[a] # "missing"
  /\ \A c \in Accounts \ {a} : userEmail[c] # userEmail[a]

(* An account has the profile its role gives it, from the moment it has a    *)
(* user row; a buyer's profile is a row of its own.                          *)
ProfilesFollow ==
  /\ \A a \in Accounts : a \in profiles <=> Provisioned(a) /\ RoleOf[a] \in {"business", "investor"}
  /\ \A a \in Accounts : Provisioned(a) /\ RoleOf[a] = "buyer" => \E b \in Rows : userId[b] = a
  /\ \A b \in BuyerRows : userId[b] # None =>
       /\ contactEmail[b] # None
       /\ Provisioned(userId[b])
       /\ RoleOf[userId[b]] = "buyer"

Users == TypeOK /\ UsersFromPayloads /\ ProfilesFollow

LEMMA UsersInit == Init => Users
BY DEF Init, Users, TypeOK, UsersFromPayloads, ProfilesFollow, Provisioned, Rows

(* A delivery: a new account gets its user and its profile together.         *)
LEMMA DeliverUsers == ASSUME Users, NEW a \in Accounts, Deliver(a) PROVE Users'
<1> USE DEF Users, TypeOK, Provisioned
<1>1. userEmail' = [userEmail EXCEPT ![a] = Lower[EmailOf[a]]] /\ RoleOf[a] # "missing"
  BY DEF Deliver
<1>2. Lower[EmailOf[a]] \in Emails
  OBVIOUS
<1>3. \A c \in Accounts \ {a} : userEmail[c] # Lower[EmailOf[a]]
  BY DEF Deliver, Collides
<1>4. \A c \in Accounts : userEmail'[c] = IF c = a THEN Lower[EmailOf[a]] ELSE userEmail[c]
  BY <1>1
<1>5. UsersFromPayloads'
  BY <1>1, <1>2, <1>3, <1>4 DEF UsersFromPayloads
<1>6. profiles' = IF RoleOf[a] \in {"business", "investor"} THEN profiles \cup {a} ELSE profiles
  BY DEF Deliver
<1>7. \A c \in Accounts : c \in profiles' <=>
        userEmail'[c] # None /\ RoleOf[c] \in {"business", "investor"}
  BY <1>2, <1>4, <1>6 DEF ProfilesFollow
<1>8. CASE RoleOf[a] = "buyer" /\ RowsOf(a) = {}
  <2>1. PICK b \in Fresh : /\ contactEmail' = [contactEmail EXCEPT ![b] = Lower[EmailOf[a]]]
                           /\ userId' = [userId EXCEPT ![b] = a]
    BY <1>8 DEF Deliver, BuyerProfile
  <2>2. b \in BuyerRows /\ contactEmail[b] = None
    BY <2>1 DEF Fresh, Rows
  <2>3. \A d \in BuyerRows : /\ contactEmail'[d] = IF d = b THEN Lower[EmailOf[a]] ELSE contactEmail[d]
                             /\ userId'[d] = IF d = b THEN a ELSE userId[d]
    BY <2>1, <2>2
  <2>4. userId[b] = None
    BY <2>2 DEF ProfilesFollow
  <2>5. TypeOK'
    BY <1>1, <1>2, <1>6, <2>1, <2>2 DEF Deliver, reqVars
  <2>6. \A c \in Accounts : userEmail'[c] # None /\ RoleOf[c] = "buyer" =>
          \E d \in BuyerRows : contactEmail'[d] # None /\ userId'[d] = c
    BY <1>2, <1>4, <2>2, <2>3, <2>4 DEF ProfilesFollow, Rows
  <2>7. \A d \in BuyerRows : userId'[d] # None =>
          contactEmail'[d] # None /\ userEmail'[userId'[d]] # None /\ RoleOf[userId'[d]] = "buyer"
    BY <1>2, <1>4, <1>8, <2>3 DEF ProfilesFollow
  <2> QED BY <1>5, <1>7, <2>5, <2>6, <2>7 DEF ProfilesFollow, Rows
<1>9. CASE ~(RoleOf[a] = "buyer" /\ RowsOf(a) = {})
  <2>1. UNCHANGED <<contactEmail, userId>>
    BY <1>9 DEF Deliver, BuyerProfile, Updated
  <2>2. TypeOK'
    BY <1>1, <1>2, <1>6, <2>1 DEF Deliver, reqVars
  <2>3. RoleOf[a] = "buyer" => \E b \in Rows : userId[b] = a
    BY <1>9 DEF RowsOf
  <2>4. \A c \in Accounts : userEmail'[c] # None /\ RoleOf[c] = "buyer" => \E d \in Rows : userId[d] = c
    BY <1>4, <2>3 DEF ProfilesFollow
  <2>5. \A d \in BuyerRows : userId[d] # None => userEmail'[userId[d]] # None
    BY <1>2, <1>4 DEF ProfilesFollow
  <2> QED BY <1>5, <1>7, <2>1, <2>2, <2>4, <2>5 DEF ProfilesFollow, Rows
<1> QED BY <1>8, <1>9

(* A step that only gives buyer rows other contact emails, or creates rows   *)
(* without an account, keeps users and profiles.                             *)
LEMMA RowsUsers ==
  ASSUME Users, TypeOK', UNCHANGED <<userEmail, profiles, userId>>,
         \A b \in BuyerRows : contactEmail[b] # None => contactEmail'[b] # None
  PROVE  Users'
BY DEF Users, UsersFromPayloads, ProfilesFollow, Provisioned, Rows

LEMMA NextUsers == Users /\ [Next]_vars => Users'
<1> SUFFICES ASSUME Users, [Next]_vars PROVE Users'
  OBVIOUS
<1> USE DEF Users, TypeOK
<1>1. ASSUME NEW a \in Accounts, Deliver(a) PROVE Users'
  BY <1>1, DeliverUsers
<1>2. ASSUME NEW b \in BuyerRows, NEW e \in Emails, UpdateSettings(b, e) PROVE Users'
  BY <1>2, RowsUsers DEF UpdateSettings, Rows, reqVars
<1>3. ASSUME NEW s \in Slots, NEW a \in Accounts, NEW n \in Numbers, NEW e \in Emails, FindBuyer(s, a, n, e)
      PROVE  Users'
  <2>1. Lower[e] \in Emails
    OBVIOUS
  <2>2. pc' \in [Slots -> {"idle", "create", "insert"}]
    BY <1>3 DEF FindBuyer
  <2> QED BY <1>3, <2>1, <2>2, RowsUsers DEF FindBuyer
<1>4. ASSUME NEW s \in Slots, CreateBuyer(s) PROVE Users'
  <2>1. PICK b \in Fresh : contactEmail' = [contactEmail EXCEPT ![b] = to[s]]
    BY <1>4 DEF CreateBuyer
  <2>2. b \in BuyerRows /\ contactEmail[b] = None
    BY <2>1 DEF Fresh, Rows
  <2>3. contactEmail' \in [BuyerRows -> Emails \cup {None}]
    BY <2>1, <2>2
  <2>4. \A d \in BuyerRows : contactEmail[d] # None => contactEmail'[d] # None
    BY <2>1, <2>2
  <2> QED BY <1>4, <2>3, <2>4, RowsUsers DEF CreateBuyer
<1>5. ASSUME NEW s \in Slots, InsertInvoice(s) \/ Abort(s) PROVE Users'
  BY <1>5, RowsUsers DEF InsertInvoice, Abort, Finish
<1>6. CASE Crash
  BY <1>6, RowsUsers DEF Crash
<1>7. CASE UNCHANGED vars
  BY <1>7, RowsUsers DEF vars, reqVars
<1> QED BY <1>1, <1>2, <1>3, <1>4, <1>5, <1>6, <1>7 DEF Next

LEMMA UsersInvariant == Spec => []Users
<1> QED BY UsersInit, NextUsers, PTL DEF Spec

(* UsersOnce: in whichever order and however often the webhooks are           *)
(* delivered, an email has one user and a user the profile of its role.      *)
THEOREM UsersOnce == Spec => []OneUserPerEmail
<1>1. Users => OneUserPerEmail
  <2> SUFFICES ASSUME Users, NEW a \in Accounts, NEW c \in Accounts
               PROVE  /\ a # c /\ Provisioned(a) => userEmail[a] # userEmail[c]
                      /\ Provisioned(a) <=> HasBusiness(a) \/ HasInvestor(a) \/ HasBuyer(a) \/ IsAdmin(a)
                      /\ ~Provisioned(a) => a \notin profiles /\ \A b \in Rows : userId[b] # a
                      /\ HasBuyer(a) => RoleOf[a] = "buyer"
    BY DEF OneUserPerEmail
  <2> USE DEF Users, TypeOK, UsersFromPayloads, ProfilesFollow
  <2>1. RoleOf[a] \in {"business", "buyer", "investor", "admin", "missing"} /\ a # None
    OBVIOUS
  <2>2. \A b \in Rows : userId[b] = a => Provisioned(a) /\ RoleOf[a] = "buyer"
    BY <2>1 DEF Rows
  <2> QED BY <2>1, <2>2 DEF HasBusiness, HasInvestor, HasBuyer, IsAdmin, HasProfile
<1> QED BY <1>1, UsersInvariant, PTL

(* A row whose address was set in the settings exists, and a delivery, which  *)
(* creates a row or leaves the account's own as it is, does not touch it.     *)
Settings == /\ chosen \in [BuyerRows -> Emails \cup {None}]
            /\ SettingsSurvive

LEMMA DeliverSettings == ASSUME Users, Settings, NEW a \in Accounts, Deliver(a) PROVE Settings'
<1> USE DEF Users, TypeOK, Settings, SettingsSurvive
<1>1. UNCHANGED chosen
  BY DEF Deliver, history
<1>2. ASSUME NEW b \in Fresh, contactEmail' = [contactEmail EXCEPT ![b] = Lower[EmailOf[a]]]
      PROVE  Settings'
  <2>1. b \in BuyerRows /\ chosen[b] = None
    BY <1>2 DEF Fresh, Rows
  <2> QED BY <1>1, <1>2, <2>1
<1>3. ASSUME NEW b \in RowsOf(a), contactEmail' = [contactEmail EXCEPT ![b] = Updated(a, @)]
      PROVE  Settings'
  BY <1>1, <1>3 DEF Updated
<1> QED BY <1>1, <1>2, <1>3 DEF Deliver, BuyerProfile

LEMMA NextSettings == Users /\ Settings /\ [Next]_vars => Settings'
<1> SUFFICES ASSUME Users, Settings, [Next]_vars PROVE Settings'
  OBVIOUS
<1> USE DEF Users, TypeOK, Settings, SettingsSurvive
<1>1. ASSUME NEW b \in BuyerRows, NEW e \in Emails, UpdateSettings(b, e) PROVE Settings'
  BY <1>1 DEF UpdateSettings
<1>2. ASSUME NEW s \in Slots, CreateBuyer(s) PROVE Settings'
  <2>1. PICK b \in Fresh : contactEmail' = [contactEmail EXCEPT ![b] = to[s]]
    BY <1>2 DEF CreateBuyer
  <2>2. b \in BuyerRows /\ chosen[b] = None /\ UNCHANGED chosen
    BY <1>2, <2>1 DEF Fresh, Rows, CreateBuyer, history
  <2> QED BY <2>1, <2>2
<1>3. UNCHANGED <<contactEmail, chosen>> => Settings'
  OBVIOUS
<1> QED BY <1>1, <1>2, <1>3, DeliverSettings
        DEF Next, FindBuyer, InsertInvoice, Abort, Crash, vars, history

(* Redelivered: what a buyer set in the settings stays on its row however     *)
(* often and in whichever order the webhooks are delivered, whatever is       *)
(* submitted meanwhile and wherever the process crashes.                      *)
THEOREM Redelivered == Spec => []SettingsSurvive
<1>1. Init => Settings
  BY DEF Init, Settings, SettingsSurvive
<1>2. Settings => SettingsSurvive
  BY DEF Settings
<1> QED BY <1>1, <1>2, NextSettings, UsersInvariant, PTL DEF Spec

-----------------------------------------------------------------------------
(* Submissions: what a lookup by email found out holds until the insert, as  *)
(* long as no other submission looks up the same address.                    *)

Unlinked == {b \in Rows : userId[b] = None}

(* No two slots work on an address that the history does not call contended. *)
Alone ==
  /\ \A s \in Slots : pc[s] = "create" => to[s] \in Emails
  /\ \A s, t \in Slots : s # t /\ to[s] = to[t] /\ to[s] # None => to[s] \in contended

(* A submission about to create a buyer has found none.                      *)
StillMissing == \A s \in Slots : pc[s] = "create" /\ to[s] \notin contended =>
  \A b \in Unlinked : contactEmail[b] # to[s]

SInv == Users /\ Alone /\ StillMissing /\ QuietUnlinkedOnce

(* Rows of accounts may come, and their emails change: no submission's rows  *)
(* are touched.                                                              *)
LEMMA LinkedStep ==
  ASSUME SInv, Users', UNCHANGED <<pc, to, contended>>,
         \A b \in Unlinked' : b \in Unlinked /\ contactEmail'[b] = contactEmail[b]
  PROVE  SInv'
BY DEF SInv, Alone, StillMissing, QuietUnlinkedOnce, Unlinked

LEMMA FindStep ==
  ASSUME SInv, Users', NEW s \in Slots, NEW a \in Accounts, NEW n \in Numbers, NEW e \in Emails,
         FindBuyer(s, a, n, e)
  PROVE  SInv'
<1> USE DEF SInv, Users, TypeOK
<1>1. Lower[e] \in Emails /\ contended \subseteq contended' /\ UNCHANGED <<contactEmail, userId>>
  BY DEF FindBuyer
<1>2. \A t \in Slots : to'[t] = IF t = s THEN Lower[e] ELSE to[t]
  BY DEF FindBuyer
<1>3. \A t \in Slots \ {s} : pc'[t] = pc[t] /\ to[t] = Lower[e] => Lower[e] \in contended'
  BY DEF FindBuyer
<1>4. \A t \in Slots \ {s} : pc'[t] = pc[t]
  BY DEF FindBuyer
<1>5. pc'[s] = "create" => Matches(e) = {}
  BY DEF FindBuyer
<1>6. Alone'
  BY <1>1, <1>2, <1>3, <1>4 DEF Alone
<1>7. StillMissing'
  BY <1>1, <1>2, <1>4, <1>5 DEF StillMissing, Unlinked, Matches, Rows
<1>8. QuietUnlinkedOnce'
  BY <1>1 DEF QuietUnlinkedOnce, Rows
<1> QED BY <1>6, <1>7, <1>8

LEMMA CreateStep == ASSUME SInv, Users', NEW s \in Slots, CreateBuyer(s) PROVE SInv'
<1> USE DEF SInv, Users, TypeOK
<1>1. PICK b \in Fresh : contactEmail' = [contactEmail EXCEPT ![b] = to[s]]
  BY DEF CreateBuyer
<1>2. b \in BuyerRows /\ contactEmail[b] = None /\ to[s] \in Emails /\ pc[s] = "create"
  BY <1>1 DEF Fresh, Rows, CreateBuyer, Alone
<1>3. \A d \in BuyerRows : contactEmail'[d] = IF d = b THEN to[s] ELSE contactEmail[d]
  BY <1>1, <1>2
<1>4. UNCHANGED <<userId, to, contended>> /\ pc' = [pc EXCEPT ![s] = "insert"]
  BY DEF CreateBuyer, history
<1>5. Alone'
  BY <1>4 DEF Alone
<1>6. StillMissing'
  <2> SUFFICES ASSUME NEW t \in Slots, pc'[t] = "create", to[t] \notin contended, NEW d \in BuyerRows,
                      contactEmail'[d] # None, userId[d] = None
               PROVE  contactEmail'[d] # to[t]
    BY <1>4 DEF StillMissing, Unlinked, Rows
  <2>1. t # s /\ pc[t] = "create" /\ to[t] \in Emails
    BY <1>4 DEF Alone
  <2>2. to[t] # to[s]
    BY <1>2, <2>1 DEF Alone
  <2> QED BY <1>3, <2>1, <2>2 DEF StillMissing, Unlinked, Rows
<1>7. QuietUnlinkedOnce'
  <2> SUFFICES ASSUME NEW c \in BuyerRows, NEW d \in BuyerRows, c # d, userId[c] = None, userId[d] = None,
                      contactEmail'[c] # None, contactEmail'[d] # None, contactEmail'[c] = contactEmail'[d],
                      contactEmail'[c] \notin contended
               PROVE  FALSE
    BY <1>4 DEF QuietUnlinkedOnce, Rows
  <2>1. CASE c # b /\ d # b
    BY <1>3, <2>1 DEF QuietUnlinkedOnce, Rows
  <2>2. CASE c = b \/ d = b
    BY <1>2, <1>3, <2>2 DEF StillMissing, Unlinked, Rows
  <2> QED BY <2>1, <2>2
<1> QED BY <1>5, <1>6, <1>7

(* A submission that ends leaves the rows as they are.                       *)
LEMMA EndStep ==
  ASSUME SInv, Users', UNCHANGED <<contactEmail, userId, contended>>,
         \A t \in Slots : \/ pc'[t] = pc[t] /\ to'[t] = to[t]
                          \/ pc'[t] = "idle" /\ to'[t] = None
  PROVE  SInv'
BY DEF SInv, Users, TypeOK, Alone, StillMissing, QuietUnlinkedOnce, Unlinked, Rows

LEMMA NextSubmissions == SInv /\ Users' /\ [Next]_vars => SInv'
<1> SUFFICES ASSUME SInv, Users', [Next]_vars PROVE SInv'
  OBVIOUS
<1> USE DEF SInv, Users, TypeOK
<1>1. ASSUME NEW a \in Accounts, Deliver(a) PROVE SInv'
  <2>1. UNCHANGED <<pc, to, contended>>
    BY <1>1 DEF Deliver, reqVars, history
  <2>2. \/ UNCHANGED <<contactEmail, userId>>
        \/ \E b \in Fresh : /\ contactEmail' = [contactEmail EXCEPT ![b] = Lower[EmailOf[a]]]
                            /\ userId' = [userId EXCEPT ![b] = a]
    BY <1>1 DEF Deliver, BuyerProfile, Updated
  <2>3. \A b \in Unlinked' : b \in Unlinked /\ contactEmail'[b] = contactEmail[b]
    BY <2>2 DEF Unlinked, Rows, Fresh
  <2> QED BY <2>1, <2>3, LinkedStep
<1>2. ASSUME NEW b \in BuyerRows, NEW e \in Emails, UpdateSettings(b, e) PROVE SInv'
  <2>1. UNCHANGED <<pc, to, contended, userId>> /\ contactEmail' = [contactEmail EXCEPT ![b] = e]
        /\ userId[b] # None
    BY <1>2 DEF UpdateSettings, reqVars
  <2>2. \A d \in Unlinked' : d \in Unlinked /\ contactEmail'[d] = contactEmail[d]
    BY <2>1 DEF Unlinked, Rows
  <2> QED BY <2>1, <2>2, LinkedStep
<1>3. ASSUME NEW s \in Slots, InsertInvoice(s) \/ Abort(s) PROVE SInv'
  BY <1>3, EndStep DEF InsertInvoice, Abort, Finish, history
<1>4. CASE Crash
  BY <1>4, EndStep DEF Crash, history
<1>5. CASE UNCHANGED vars
  BY <1>5, EndStep DEF vars, reqVars, history
<1> QED BY <1>1, <1>2, <1>3, <1>4, <1>5, FindStep, CreateStep DEF Next

(* UnlinkedOnce: submissions to an address that do not overlap share one     *)
(* buyer row without an account, whatever the webhooks do meanwhile.         *)
THEOREM UnlinkedOnce == Spec => []QuietUnlinkedOnce
<1>1. Init => Alone /\ StillMissing /\ QuietUnlinkedOnce
  BY DEF Init, Alone, StillMissing, QuietUnlinkedOnce, Rows, Unlinked
<1>2. Init => SInv
  BY <1>1, UsersInit DEF SInv
<1>3. SInv => QuietUnlinkedOnce
  BY DEF SInv
<1> QED BY <1>2, <1>3, NextSubmissions, UsersInvariant, PTL DEF Spec

-----------------------------------------------------------------------------

(* What a submission carries, and the invoice it leaves, names a business    *)
(* and a number.                                                             *)
Named ==
  /\ business \in [Slots -> Accounts \cup {None}]
  /\ number \in [Slots -> Numbers \cup {None}]
  /\ pc \in [Slots -> {"idle", "create", "insert"}]
  /\ \A s \in Slots : pc[s] # "idle" => business[s] \in Accounts /\ number[s] \in Numbers
  /\ \A i \in invoices : i.business \in Accounts /\ i.number \in Numbers

LEMMA NamedInit == Init => Named
BY DEF Init, Named

LEMMA NamedNext == Named /\ [Next]_vars => Named'
<1> SUFFICES ASSUME Named, [Next]_vars PROVE Named'
  OBVIOUS
<1> USE DEF Named
<1>1. ASSUME NEW s \in Slots, NEW a \in Accounts, NEW n \in Numbers, NEW e \in Emails, FindBuyer(s, a, n, e)
      PROVE  Named'
  BY <1>1 DEF FindBuyer
<1>2. ASSUME NEW s \in Slots, CreateBuyer(s) PROVE Named'
  BY <1>2 DEF CreateBuyer
<1>3. ASSUME NEW s \in Slots, InsertInvoice(s) PROVE Named'
  <2>1. business[s] \in Accounts /\ number[s] \in Numbers
    BY <1>3 DEF InsertInvoice
  <2>2. \A i \in invoices' : i.business \in Accounts /\ i.number \in Numbers
    BY <1>3, <2>1 DEF InsertInvoice
  <2> QED BY <1>3, <2>2 DEF InsertInvoice, Finish
<1>4. ASSUME NEW s \in Slots, Abort(s) PROVE Named'
  BY <1>4 DEF Abort, Finish
<1>5. CASE Crash
  BY <1>5 DEF Crash
<1>6. ASSUME NEW a \in Accounts, Deliver(a) PROVE Named'
  BY <1>6 DEF Deliver, reqVars
<1>7. ASSUME NEW b \in BuyerRows, NEW e \in Emails, UpdateSettings(b, e) PROVE Named'
  BY <1>7 DEF UpdateSettings, reqVars
<1>8. CASE UNCHANGED vars
  BY <1>8 DEF vars, reqVars
<1> QED BY <1>1, <1>2, <1>3, <1>4, <1>5, <1>6, <1>7, <1>8 DEF Next

LEMMA StepProvisions == [SubmissionNext]_allVars => [Next]_vars
BY DEF SubmissionNext, Submitting, Reviewing, ProcessDies, Next, allVars

LEMMA StepReviews == Named /\ [SubmissionNext]_allVars => [R!Next]_(R!revVars)
<1> SUFFICES ASSUME Named, [SubmissionNext]_allVars PROVE [R!Next]_(R!revVars)
  OBVIOUS
<1>1. UNCHANGED reviewing => UNCHANGED R!revVars
  BY DEF reviewing, R!revVars, R!rows, R!outcomes, R!history
<1>2. CASE Submitting
  BY <1>1, <1>2 DEF Submitting
<1>3. CASE Reviewing
  <2>1. PICK s \in Slots :
          \/ \E i \in invoices, d \in {"accept", "dispute"} :
               Free(s) /\ R!ReviewRead(s, <<i.business, i.number>>, d)
          \/ R!Proceed(s)
    BY <1>3 DEF Reviewing
  <2>2. CASE R!Proceed(s)
    BY <2>2 DEF R!Next
  <2>3. ASSUME NEW i \in invoices, NEW d \in {"accept", "dispute"},
               R!ReviewRead(s, <<i.business, i.number>>, d)
        PROVE  R!Next
    <3>1. <<i.business, i.number>> \in Accounts \X Numbers
      BY DEF Named
    <3> QED BY <2>3, <3>1 DEF R!Next
  <2> QED BY <2>1, <2>2, <2>3
<1>4. CASE ProcessDies
  BY <1>4 DEF ProcessDies, R!Next
<1>5. CASE UNCHANGED allVars
  BY <1>1, <1>5 DEF allVars
<1> QED BY <1>2, <1>3, <1>4, <1>5 DEF SubmissionNext

(* SubmissionProvisions: with reviews beside them, the webhooks and the       *)
(* submissions keep OneUserPerEmail, SettingsSurvive and QuietUnlinkedOnce.  *)
THEOREM SubmissionProvisions ==
  SubmissionSpec => []OneUserPerEmail /\ []SettingsSurvive /\ []QuietUnlinkedOnce
<1>1. SubmissionInit => Init
  BY DEF SubmissionInit
<1>2. SubmissionSpec => Spec
  BY <1>1, StepProvisions, PTL DEF SubmissionSpec, Spec
<1> QED BY <1>2, UsersOnce, Redelivered, UnlinkedOnce, PTL

(* SubmissionReviews: every link leads to an invoice that was inserted, and  *)
(* the reviews of submitted invoices are those of Reviewing.                 *)
THEOREM SubmissionReviews == SubmissionSpec => R!Spec
<1>1. SubmissionInit => R!Init /\ Named
  BY NamedInit DEF SubmissionInit
<1>2. Named /\ [SubmissionNext]_allVars => Named'
  BY StepProvisions, NamedNext
<1> QED BY <1>1, <1>2, StepReviews, PTL DEF SubmissionSpec, R!Spec

-----------------------------------------------------------------------------
P == INSTANCE ReviewingProofs WITH
  Invoices <- Accounts \X Numbers, pc <- revPc, contended <- revContended

LEMMA SameInit == R!Init => P!Init
BY DEF R!Init, P!Init

LEMMA SameStep == [R!Next]_(R!revVars) => [P!Next]_(P!revVars)
BY DEF R!Next, R!Proceed, R!ReviewRead, R!Reviewable, R!AcceptCommit, R!AcceptMail, R!AfterAcceptMail,
       R!Launch, R!DisputeCommit, R!DisputeMail, R!Answered, R!WriteFails, R!Crash, R!Finish, R!Goto,
       R!Notified, R!revVars, R!rows, R!outcomes, R!history,
       P!Next, P!Proceed, P!ReviewRead, P!Reviewable, P!AcceptCommit, P!AcceptMail, P!AfterAcceptMail,
       P!Launch, P!DisputeCommit, P!DisputeMail, P!Answered, P!WriteFails, P!Crash, P!Finish, P!Goto,
       P!Notified, P!revVars, P!rows, P!outcomes, P!history

(* SubmissionFinal: the acceptance of an invoice is final also while others   *)
(* are submitted, for the reviews are those of Reviewing.                    *)
THEOREM SubmissionFinal ==
  ASSUME None \notin Accounts \X Numbers
  PROVE  SubmissionSpec => []QuietAcceptanceFinal
<1>1. P!Spec => []P!QuietAcceptanceFinal
  BY P!AcceptanceFinal
<1>2. P!QuietAcceptanceFinal => QuietAcceptanceFinal
  BY DEF QuietAcceptanceFinal, R!QuietAcceptanceFinal, P!QuietAcceptanceFinal
<1> QED BY SameInit, SameStep, <1>1, <1>2, SubmissionReviews, PTL DEF R!Spec, P!Spec

(* The instance of FiniteSets that each of the two instances has of its own  *)
(* counts alike.                                                             *)
LEMMA SameCounts ==
  /\ P!AcceptanceLaunched => AcceptanceLaunched
  /\ P!DisputeTold => DisputeTold
<1>1. ASSUME NEW S PROVE P!Cardinality(S) = R!Cardinality(S)
  BY DEF P!Cardinality, R!Cardinality
<1>2. P!AcceptanceLaunched => AcceptanceLaunched
  BY <1>1 DEF AcceptanceLaunched, R!AcceptanceLaunched, P!AcceptanceLaunched, R!Told, P!Told
<1>3. P!DisputeTold => DisputeTold
  BY <1>1 DEF DisputeTold, R!DisputeTold, P!DisputeTold, R!Told, P!Told
<1> QED BY <1>2, <1>3

(* SubmissionLaunched: each acceptance of a submitted invoice is told of,    *)
(* confirms the invoice and is launched once, unless a crash ends it.        *)
THEOREM SubmissionLaunched ==
  ASSUME None \notin Accounts \X Numbers, IsFiniteSet(Slots)
  PROVE  SubmissionSpec => []AcceptanceLaunched
<1>1. P!IsFiniteSet(Slots)
  BY DEF P!IsFiniteSet, IsFiniteSet
<1>2. P!Spec => []P!AcceptanceLaunched
  BY <1>1, P!Launched
<1> QED BY SameInit, SameStep, SameCounts, <1>2, SubmissionReviews, PTL DEF R!Spec, P!Spec

(* SubmissionDisputed: a dispute of a submitted invoice that was answered    *)
(* with success was mailed, and one that was mailed is a notification.       *)
THEOREM SubmissionDisputed ==
  ASSUME None \notin Accounts \X Numbers, IsFiniteSet(Slots)
  PROVE  SubmissionSpec => []DisputeTold
<1>1. P!IsFiniteSet(Slots)
  BY DEF P!IsFiniteSet, IsFiniteSet
<1>2. P!Spec => []P!DisputeTold
  BY <1>1, P!Disputed
<1> QED BY SameInit, SameStep, SameCounts, <1>2, SubmissionReviews, PTL DEF R!Spec, P!Spec

=============================================================================
