--------------------------------- MODULE Desk ---------------------------------
(***************************************************************************)
(* The admin's desk: the whitelisting queue of Listings over the investors *)
(* of Whitelisting.  The queue is ordered by updatedAt, so every write of  *)
(* an investor's row moves it to the front, and an approval takes it out.  *)
(*                                                                         *)
(* A behaviour is about one listing, chosen at the start: the queue, which *)
(* Whitelisting drives, or another one, whose rows Listings changes by     *)
(* itself while Whitelisting rests.                                        *)
(***************************************************************************)
EXTENDS Whitelisting, Functions

CONSTANTS
  OtherRows,  \* rows of the other listings
  PageSizes,  \* pageSize of a query
  MaxEvents,  \* bound: changes of another listing
  MaxUpdates  \* bound: settings updates

ASSUME DeskAssumption ==
  /\ PageSizes \subseteq Nat \ {0}
  /\ MaxEvents \in Nat
  /\ MaxUpdates \in Nat

VARIABLES feed, place, selected, stage, size, page, seen, steady, gone, came, events

L == INSTANCE Listings WITH Rows <- Investors \cup OtherRows

listing == <<feed, place, selected, stage, size, page, seen, steady, gone, came, events>>
deskVars == <<vars, listing>>

(* Investors whose status is not whitelisted, by updatedAt. *)
Queue == [born |-> TRUE, enters |-> TRUE, leaves |-> TRUE, byUpdate |-> TRUE]

NotWhitelisted(status) == {i \in Investors : status[i] # "whitelisted"}

DeskInit ==
  /\ Init
  /\ \/ feed \in L!Feeds /\ L!Init
     \/ /\ feed = Queue
        /\ \E p \in Bijection(Investors, 1 .. Cardinality(Investors)) :
             place = [r \in Investors \cup OtherRows |-> IF r \in Investors THEN p[r] ELSE 0]
        /\ selected = Investors
        /\ stage = "none"
        /\ size \in PageSizes
        /\ page = 0
        /\ seen = [r \in Investors \cup OtherRows |-> 0]
        /\ steady = {}
        /\ gone = 0
        /\ came = 0
        /\ events = 0

(* A commit that writes the row of investor i. *)
Written(i) ==
  /\ L!Change(L!InFront(i), NotWhitelisted(whitelistStatus'), {i})
  /\ UNCHANGED events

(* PATCH /investor/settings writes the profile as it was sent. *)
SettingsCommit(i) ==
  /\ L!Walking
  /\ events < MaxUpdates
  /\ events' = events + 1
  /\ L!Change(L!InFront(i), selected, {i})
  /\ UNCHANGED vars

Reviewing ==
  \/ \E s \in Slots :
       \/ (SubmitCommit(s) \/ DecideCommit(s)) /\ Written(who[s])
       \/ (FundCommit(s) \/ Abort(s)) /\ UNCHANGED listing
  \/ \E s \in Slots, i \in Investors :
       /\ \/ SubmitRead(s, i) \/ FundRead(s, i)
          \/ \E d \in Decisions : DecideRead(s, i, d)
       /\ UNCHANGED listing
  \/ \E i \in Investors : SettingsCommit(i)

(* A behaviour is followed until the client's walk is done. *)
DeskNext ==
  \/ feed = Queue /\ stage # "done" /\ Reviewing
  \/ feed = Queue /\ L!Walk /\ UNCHANGED vars
  \/ feed # Queue /\ L!Next /\ UNCHANGED vars

DeskSpec == DeskInit /\ [][DeskNext]_deskVars

MissedOnlyByDepartures == L!MissedOnlyByDepartures
RepeatedOnlyByArrivals == L!RepeatedOnlyByArrivals

=============================================================================
