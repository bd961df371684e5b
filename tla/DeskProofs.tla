------------------------------ MODULE DeskProofs ------------------------------
(***************************************************************************)
(* Theorems about Whitelisting, for all investors and slots and without    *)
(* the bounds mattering: what the review guarantees although its checks    *)
(* are made on rows read before the commit.  The admin's desk keeps it:    *)
(* whatever a client pages through meanwhile, the behaviours of Desk are   *)
(* Whitelisting's.                                                         *)
(*                                                                         *)
(* Then theorems about Listings, for any finite number of rows, all page   *)
(* sizes and any number of changes: what a client that walks the pages of  *)
(* a moving list can miss and what it can be shown twice.                  *)
(***************************************************************************)
EXTENDS Desk, FiniteSetTheorems, TLAPS

USE WhitelistingAssumption

Statuses == {"identity_submitted", "in_review", "whitelisted"}
Working == {"submit", "fund"} \cup Decisions
Quiet == Investors \ contended

TypeOK ==
  /\ whitelistStatus \in [Investors -> Statuses]
  /\ submitted \in Nat
  /\ verdicts \in [Investors -> Seq({"positive", "warning"})]
  /\ holdings \in [Investors -> Nat]
  /\ pc \in [Slots -> Working \cup {"idle"}]
  /\ who \in [Slots -> Investors \cup {None}]
  /\ contended \subseteq Investors

(* A slot works on an investor or is idle, and no two slots work on an       *)
(* investor whom the history does not call contended.                        *)
Alone ==
  /\ \A s \in Slots : pc[s] = "idle" <=> who[s] = None
  /\ \A s, t \in Slots : s # t /\ who[s] = who[t] => who[s] \notin Quiet

(* The status a decision or a funding has read is still the investor's.      *)
StillHolds == \A s \in Slots : who[s] \in Quiet =>
  /\ pc[s] \in Decisions => whitelistStatus[who[s]] = "in_review"
  /\ pc[s] = "fund" => whitelistStatus[who[s]] = "whitelisted"

IInv == TypeOK /\ Alone /\ StillHolds /\ QuietNoticeTells

LEMMA InitInv == Init => IInv
BY DEF Init, IInv, TypeOK, Alone, StillHolds, QuietNoticeTells, Tells, Quiet, Decisions, Working, Statuses

(* A handler that starts: its own check is fresh, and whoever it meets is    *)
(* contended from then on.                                                   *)
LEMMA StartInv ==
  ASSUME IInv, NEW s \in Slots, NEW i \in Investors, NEW work \in Working, Start(s, work, i),
         submitted' \in Nat, UNCHANGED <<whitelistStatus, verdicts, holdings>>,
         work \in Decisions => whitelistStatus[i] = "in_review",
         work = "fund" => whitelistStatus[i] = "whitelisted"
  PROVE  IInv'
<1> USE DEF IInv, TypeOK, Alone, StillHolds, QuietNoticeTells, Quiet, Decisions, Working, Start
<1>1. contended \subseteq contended' /\ contended' \subseteq Investors
  OBVIOUS
<1>2. \A t \in Slots : who'[t] = IF t = s THEN i ELSE who[t]
  OBVIOUS
<1>3. \A t \in Slots : pc'[t] = IF t = s THEN work ELSE pc[t]
  OBVIOUS
<1>4. Alone'
  BY <1>1, <1>2, <1>3
<1>5. StillHolds'
  BY <1>1, <1>2, <1>3
<1>6. QuietNoticeTells'
  BY <1>1
<1> QED BY <1>4, <1>5, <1>6

(* A handler that is gone without a write leaves the rest as it was.         *)
LEMMA FinishInv ==
  ASSUME IInv, NEW s \in Slots, Finish(s), UNCHANGED <<whitelistStatus, submitted, verdicts>>,
         holdings' \in [Investors -> Nat]
  PROVE  IInv'
BY DEF IInv, TypeOK, Alone, StillHolds, QuietNoticeTells, Quiet, Decisions, Working, Finish

(* A commit: the investor's row and notifications become what the property   *)
(* wants of them, and if it is quiet nobody else has read the old row.       *)
LEMMA WriteInv ==
  ASSUME IInv, NEW s \in Slots, NEW new \in Statuses, NEW told \in Seq({"positive", "warning"}),
         Finish(s), UNCHANGED <<submitted, holdings>>, pc[s] # "idle",
         whitelistStatus' = [whitelistStatus EXCEPT ![who[s]] = new],
         verdicts' = [verdicts EXCEPT ![who[s]] = told],
         who[s] \in Quiet => Tells(told, new)
  PROVE  IInv'
<1> USE DEF IInv, TypeOK, Alone, Quiet, Finish
<1>1. who[s] \in Investors
  OBVIOUS
<1>2. TypeOK'
  BY <1>1
<1>3. Alone'
  OBVIOUS
<1>4. StillHolds'
  <2> SUFFICES ASSUME NEW t \in Slots, who'[t] \in Quiet'
               PROVE  /\ pc'[t] \in Decisions => whitelistStatus'[who'[t]] = "in_review"
                      /\ pc'[t] = "fund" => whitelistStatus'[who'[t]] = "whitelisted"
    BY DEF StillHolds
  <2>1. t # s /\ who'[t] = who[t] /\ pc'[t] = pc[t] /\ who[t] \in Quiet
    OBVIOUS
  <2>2. who[t] # who[s]
    BY <2>1
  <2> QED BY <2>1, <2>2 DEF StillHolds
<1>5. QuietNoticeTells'
  <2> SUFFICES ASSUME NEW i \in Quiet
               PROVE  Tells(verdicts'[i], whitelistStatus'[i])
    BY DEF QuietNoticeTells
  <2>1. CASE i = who[s]
    BY <1>1, <2>1
  <2>2. CASE i # who[s]
    BY <1>1, <2>2 DEF QuietNoticeTells
  <2> QED BY <2>1, <2>2
<1> QED BY <1>2, <1>3, <1>4, <1>5

LEMMA DecideInv == ASSUME IInv, NEW s \in Slots, DecideCommit(s) PROVE IInv'
<1> DEFINE told == Append(verdicts[who[s]], Tone[pc[s]])
<1>1. who[s] \in Investors /\ pc[s] \in Decisions /\ pc[s] # "idle"
  BY DEF DecideCommit, Decisions, IInv, TypeOK, Alone
<1>2. told \in Seq({"positive", "warning"}) /\ Verdict[pc[s]] \in Statuses
  BY <1>1 DEF IInv, TypeOK, Tone, Verdict, Decisions, Statuses
<1>3. who[s] \in Quiet => verdicts[who[s]] = <<>>
  BY <1>1 DEF IInv, StillHolds, QuietNoticeTells, Tells, Quiet
<1>4. who[s] \in Quiet => \/ Verdict[pc[s]] = "whitelisted" /\ told = <<"positive">>
                          \/ Verdict[pc[s]] = "identity_submitted" /\ told = <<"warning">>
  <2>1. Append(<<>>, "positive") = <<"positive">> /\ Append(<<>>, "warning") = <<"warning">>
    OBVIOUS
  <2>2. CASE pc[s] = "approve"
    <3>1. Tone[pc[s]] = "positive" /\ Verdict[pc[s]] = "whitelisted"
      BY <2>2 DEF Tone, Verdict
    <3>2. who[s] \in Quiet => told = Append(<<>>, "positive")
      BY <1>3, <3>1, Zenon
    <3> QED BY <2>1, <3>1, <3>2, Zenon
  <2>3. CASE pc[s] = "reject"
    <3>1. Tone[pc[s]] = "warning" /\ Verdict[pc[s]] = "identity_submitted"
      BY <2>3 DEF Tone, Verdict
    <3>2. who[s] \in Quiet => told = Append(<<>>, "warning")
      BY <1>3, <3>1, Zenon
    <3> QED BY <2>1, <3>1, <3>2, Zenon
  <2> QED BY <1>1, <2>2, <2>3 DEF Decisions
<1>6. who[s] \in Quiet => Tells(told, Verdict[pc[s]])
  BY <1>4 DEF Tells
<1>5. verdicts' = [verdicts EXCEPT ![who[s]] = told]
  BY <1>1 DEF DecideCommit, IInv, TypeOK
<1> HIDE DEF told
<1> QED BY <1>1, <1>2, <1>5, <1>6, WriteInv DEF DecideCommit

LEMMA SubmitInv == ASSUME IInv, NEW s \in Slots, SubmitCommit(s) PROVE IInv'
<1>1. <<>> \in Seq({"positive", "warning"}) /\ "in_review" \in Statuses /\ Tells(<<>>, "in_review")
  BY DEF Statuses, Tells
<1> QED BY <1>1, WriteInv DEF SubmitCommit

LEMMA NextInv == IInv /\ [Next]_vars => IInv'
<1> SUFFICES ASSUME IInv, [Next]_vars PROVE IInv'
  OBVIOUS
<1>1. ASSUME NEW s \in Slots, NEW i \in Investors, SubmitRead(s, i) PROVE IInv'
  BY <1>1, StartInv DEF SubmitRead, Working, Decisions, IInv, TypeOK
<1>2. ASSUME NEW s \in Slots, NEW i \in Investors, FundRead(s, i) PROVE IInv'
  BY <1>2, StartInv DEF FundRead, FundCheck, Working, Decisions, IInv, TypeOK
<1>3. ASSUME NEW s \in Slots, NEW i \in Investors, NEW d \in Decisions, DecideRead(s, i, d)
      PROVE  IInv'
  BY <1>3, StartInv DEF DecideRead, Awaiting, Working, Decisions, IInv, TypeOK
<1>4. ASSUME NEW s \in Slots, FundCommit(s) PROVE IInv'
  <2>1. holdings' \in [Investors -> Nat]
    BY <1>4 DEF FundCommit, IInv, TypeOK, Alone
  <2> QED BY <1>4, <2>1, FinishInv DEF FundCommit
<1>5. ASSUME NEW s \in Slots, Abort(s) PROVE IInv'
  BY <1>5, FinishInv DEF Abort, IInv, TypeOK
<1>6. CASE UNCHANGED vars
  BY <1>6 DEF vars, IInv, TypeOK, Alone, StillHolds, QuietNoticeTells, Quiet
<1> QED BY <1>1, <1>2, <1>3, <1>4, <1>5, <1>6, DecideInv, SubmitInv DEF Next

LEMMA Invariant == Spec => []IInv
<1> QED BY InitInv, NextInv, PTL DEF Spec

(* NoticeTells: every submission of an investor without overlapping requests *)
(* is decided at most once, and the notification tells the status.           *)
THEOREM NoticeTells == Spec => []QuietNoticeTells
<1>1. IInv => QuietNoticeTells
  BY DEF IInv
<1> QED BY <1>1, Invariant, PTL

(* FunderWhitelisted: an investor without overlapping requests is still      *)
(* whitelisted when a funding commits, which fundInvoice does not check.     *)
THEOREM FunderWhitelisted == Spec => QuietFunderWhitelisted
<1> DEFINE Step == \A i \in Investors \ contended' : holdings'[i] > holdings[i] =>
                     whitelistStatus[i] = "whitelisted"
<1>1. IInv /\ [Next]_vars => [Step]_vars
  <2> SUFFICES ASSUME IInv, Next, NEW i \in Investors \ contended', holdings'[i] > holdings[i]
               PROVE  whitelistStatus[i] = "whitelisted"
    OBVIOUS
  <2>1. PICK s \in Slots : FundCommit(s)
    BY DEF Next, SubmitRead, FundRead, DecideRead, SubmitCommit, DecideCommit, Abort, IInv, TypeOK
  <2>2. who[s] = i /\ i \in Quiet
    BY <2>1 DEF FundCommit, Finish, IInv, TypeOK, Quiet
  <2> QED BY <2>1, <2>2 DEF FundCommit, IInv, StillHolds
<1> QED BY <1>1, Invariant, PTL DEF Spec, QuietFunderWhitelisted

-----------------------------------------------------------------------------

LEMMA DeskStep == [DeskNext]_deskVars => [Next]_vars
<1> SUFFICES ASSUME DeskNext PROVE [Next]_vars
  BY DEF deskVars
<1>1. CASE Reviewing
  BY <1>1 DEF Reviewing, Next, SettingsCommit
<1>2. CASE UNCHANGED vars
  BY <1>2
<1> QED BY <1>1, <1>2 DEF DeskNext

(* DeskNoticeTells: with settings updates and readers of the queue beside    *)
(* them, every submission is decided at most once and its notification tells *)
(* the status.                                                               *)
THEOREM DeskNoticeTells == DeskSpec => []QuietNoticeTells
<1>1. DeskInit => Init
  BY DEF DeskInit
<1> QED BY <1>1, DeskStep, NoticeTells, PTL DEF DeskSpec, Spec

(* DeskFunderWhitelisted: with settings updates and readers of the queue     *)
(* beside them, an investor is still whitelisted when a funding commits.     *)
THEOREM DeskFunderWhitelisted == DeskSpec => QuietFunderWhitelisted
<1>1. DeskInit => Init
  BY DEF DeskInit
<1> QED BY <1>1, DeskStep, FunderWhitelisted, PTL DEF DeskSpec, Spec

-----------------------------------------------------------------------------
(* Ranks.  A row's rank is the number of rows of the listing S up to it.     *)
(* One change of the listing touches one row r: S becomes S2 and the places  *)
(* at become at2, the others keep their order.  K is the rank among the      *)
(* others, which the change leaves alone, so both ranks are K or K + 1.      *)

RankIn(S, at, q) == Cardinality({p \in S : at[p] <= at[q]})

Placed(S, at) ==
  /\ IsFiniteSet(S)
  /\ \A p \in S : at[p] \in Nat
  /\ \A p, q \in S : at[p] = at[q] => p = q

(* The rows of T whose rank in S is beyond b, and those whose rank is not.   *)
Beyond(T, S, at, b) == {q \in T : RankIn(S, at, q) > b}
UpTo(T, S, at, b) == {q \in T : RankIn(S, at, q) <= b}

LEMMA RankType == ASSUME NEW S, NEW at, NEW q, IsFiniteSet(S)
                  PROVE  RankIn(S, at, q) \in Nat /\ RankIn(S, at, q) <= Cardinality(S)
<1>1. {p \in S : at[p] <= at[q]} \in SUBSET S
  OBVIOUS
<1> QED BY <1>1, FS_Subset, FS_CardinalityType DEF RankIn

LEMMA RankStrict == ASSUME NEW S, NEW at, Placed(S, at), NEW p \in S, NEW q \in S, at[p] < at[q]
                    PROVE  RankIn(S, at, p) < RankIn(S, at, q)
<1> DEFINE upP == {x \in S : at[x] <= at[p]}
           upQ == {x \in S : at[x] <= at[q]}
<1>1. upP \in SUBSET upQ /\ q \in upQ /\ q \notin upP
  BY DEF Placed
<1>2. upQ \in SUBSET S
  OBVIOUS
<1>3. IsFiniteSet(upQ)
  BY <1>2, FS_Subset DEF Placed
<1> HIDE DEF upP, upQ
<1>4. Cardinality(upP) <= Cardinality(upQ) /\ Cardinality(upP) # Cardinality(upQ) /\ IsFiniteSet(upP)
  BY <1>1, <1>3, FS_Subset
<1>5. Cardinality(upP) \in Nat /\ Cardinality(upQ) \in Nat
  BY <1>3, <1>4, FS_CardinalityType
<1> QED BY <1>4, <1>5 DEF RankIn, upP, upQ

LEMMA RankWithout == ASSUME NEW S, NEW at, NEW r, NEW q, IsFiniteSet(S)
                     PROVE  RankIn(S, at, q) = RankIn(S \ {r}, at, q) + (IF r \in S /\ at[r] <= at[q] THEN 1 ELSE 0)
<1> DEFINE up == {p \in S : at[p] <= at[q]}
           others == {p \in S \ {r} : at[p] <= at[q]}
<1>1. up \in SUBSET S /\ others = up \ {r} /\ (r \in up <=> r \in S /\ at[r] <= at[q])
  OBVIOUS
<1>2. IsFiniteSet(up) /\ Cardinality(up) \in Nat
  BY <1>1, FS_Subset, FS_CardinalityType
<1> HIDE DEF up, others
<1>3. Cardinality(others) = IF r \in up THEN Cardinality(up) - 1 ELSE Cardinality(up)
  BY <1>1, <1>2, FS_RemoveElement
<1> QED BY <1>1, <1>2, <1>3 DEF RankIn, up, others

(* The change of one row. *)
Touches(S, at, S2, at2, r) ==
  /\ Placed(S, at) /\ Placed(S2, at2)
  /\ S2 \ {r} = S \ {r}
  /\ \A p, q \in S \ {r} : at2[p] <= at2[q] <=> at[p] <= at[q]

LEMMA RanksAfter == ASSUME NEW S, NEW at, NEW S2, NEW at2, NEW r, Touches(S, at, S2, at2, r), NEW q \in S \ {r}
                    PROVE  LET K == RankIn(S \ {r}, at, q)
                           IN  /\ K \in Nat
                               /\ RankIn(S, at, q) = K + (IF r \in S /\ at[r] <= at[q] THEN 1 ELSE 0)
                               /\ RankIn(S2, at2, q) = K + (IF r \in S2 /\ at2[r] <= at2[q] THEN 1 ELSE 0)
<1>1. IsFiniteSet(S) /\ IsFiniteSet(S2) /\ IsFiniteSet(S \ {r})
  BY FS_RemoveElement DEF Touches, Placed
<1>2. {p \in S2 \ {r} : at2[p] <= at2[q]} = {p \in S \ {r} : at[p] <= at[q]}
  BY DEF Touches
<1>3. RankIn(S2 \ {r}, at2, q) = RankIn(S \ {r}, at, q)
  BY <1>2 DEF RankIn
<1>4. RankIn(S \ {r}, at, q) \in Nat
  BY <1>1, RankType
<1>5. RankIn(S, at, q) = RankIn(S \ {r}, at, q) + (IF r \in S /\ at[r] <= at[q] THEN 1 ELSE 0)
  BY <1>1, RankWithout
<1>6. RankIn(S2, at2, q) = RankIn(S2 \ {r}, at2, q) + (IF r \in S2 /\ at2[r] <= at2[q] THEN 1 ELSE 0)
  BY <1>1, RankWithout
<1> QED BY <1>3, <1>4, <1>5, <1>6

(* Two rows have different ranks among the others. *)
LEMMA OneAtRank == ASSUME NEW S, NEW at, NEW r, Placed(S, at), NEW x \in S \ {r}, NEW y \in S \ {r},
                          RankIn(S \ {r}, at, x) = RankIn(S \ {r}, at, y)
                   PROVE  x = y
<1>1. Placed(S \ {r}, at)
  BY FS_RemoveElement DEF Placed
<1>2. RankIn(S \ {r}, at, x) \in Nat
  BY <1>1, RankType DEF Placed
<1>3. ~(at[x] < at[y])
  BY <1>1, <1>2, RankStrict
<1>4. ~(at[y] < at[x])
  BY <1>1, <1>2, RankStrict
<1>5. at[x] \in Nat /\ at[y] \in Nat
  BY DEF Placed
<1> QED BY <1>3, <1>4, <1>5 DEF Placed

(* Adding a set of at most one element. *)
LEMMA OneMore == ASSUME NEW A, NEW B, IsFiniteSet(A), IsFiniteSet(B),
                        \A x, y \in B \ A : x = y
                 PROVE  Cardinality(B) <= Cardinality(A) + 1
<1>1. CASE B \ A = {}
  <2>1. B \in SUBSET A
    BY <1>1
  <2> QED BY <2>1, FS_Subset, FS_CardinalityType
<1>2. CASE B \ A # {}
  <2>1. PICK x : x \in B \ A
    BY <1>2
  <2>2. B \in SUBSET (A \cup {x})
    BY <2>1
  <2>3. IsFiniteSet(A \cup {x}) /\ Cardinality(A \cup {x}) = Cardinality(A) + 1
    BY <2>1, FS_AddElement
  <2> QED BY <2>2, <2>3, FS_Subset
<1> QED BY <1>1, <1>2

LEMMA UnionCounts == ASSUME NEW A, NEW B, IsFiniteSet(A), IsFiniteSet(B)
                     PROVE  /\ IsFiniteSet(A \cup B)
                            /\ Cardinality(A \cup B) <= Cardinality(A) + Cardinality(B)
                            /\ A \cap B = {} => Cardinality(A \cup B) = Cardinality(A) + Cardinality(B)
<1>1. IsFiniteSet(A \cap B)
  BY FS_Intersection
<1>2. Cardinality(A) \in Nat /\ Cardinality(B) \in Nat /\ Cardinality(A \cap B) \in Nat
  BY <1>1, FS_CardinalityType
<1>3. IsFiniteSet(A \cup B) /\ Cardinality(A \cup B) = Cardinality(A) + Cardinality(B) - Cardinality(A \cap B)
  BY FS_Union
<1>4. A \cap B = {} => Cardinality(A \cap B) = 0
  BY FS_EmptySet
<1> QED BY <1>2, <1>3, <1>4

(* Of the rows T, a row that comes in or moves takes at most one out of the  *)
(* b first: itself, or the one that was the b-th and is now behind.  A row   *)
(* that leaves takes none.                                                   *)
LEMMA ChangeCrosses ==
  ASSUME NEW S, NEW at, NEW S2, NEW at2, NEW r, Touches(S, at, S2, at2, r), NEW b \in Int,
         NEW T \in SUBSET S, NEW T2 \in SUBSET S2, T2 \ {r} \in SUBSET T
  PROVE  Cardinality(Beyond(T2, S2, at2, b))
           <= Cardinality(Beyond(T, S, at, b)) + (IF r \in S2 THEN 1 ELSE 0)
<1> DEFINE A == Beyond(T, S, at, b)
           B == Beyond(T2, S2, at2, b)
<1> USE DEF Beyond
<1>1. \A x \in B \ A : x # r => r \in S2 /\ at2[r] <= at2[x] /\ RankIn(S \ {r}, at, x) = b /\ RankIn(S2, at2, x) = b + 1
  <2> SUFFICES ASSUME NEW x \in B \ A, x # r
               PROVE  r \in S2 /\ at2[r] <= at2[x] /\ RankIn(S \ {r}, at, x) = b /\ RankIn(S2, at2, x) = b + 1
    OBVIOUS
  <2>1. x \in S \ {r} /\ RankIn(S2, at2, x) > b /\ ~(RankIn(S, at, x) > b)
    BY DEF Touches
  <2>2. /\ RankIn(S \ {r}, at, x) \in Nat
        /\ RankIn(S, at, x) = RankIn(S \ {r}, at, x) + (IF r \in S /\ at[r] <= at[x] THEN 1 ELSE 0)
        /\ RankIn(S2, at2, x) = RankIn(S \ {r}, at, x) + (IF r \in S2 /\ at2[r] <= at2[x] THEN 1 ELSE 0)
    BY <2>1, RanksAfter
  <2> QED BY <2>1, <2>2
<1>2. \A x \in B \ A : x # r => r \notin B
  <2> SUFFICES ASSUME NEW x \in B \ A, x # r PROVE r \notin B
    OBVIOUS
  <2>1. r \in S2 /\ at2[r] < at2[x] /\ x \in S2
    BY <1>1 DEF Touches, Placed
  <2>2. RankIn(S2, at2, r) < RankIn(S2, at2, x)
    BY <2>1, RankStrict DEF Touches
  <2>3. RankIn(S2, at2, r) \in Nat
    BY RankType DEF Touches, Placed
  <2> QED BY <1>1, <2>2, <2>3
<1>3. \A x, y \in B \ A : x = y
  <2> SUFFICES ASSUME NEW x \in B \ A, NEW y \in B \ A PROVE x = y
    OBVIOUS
  <2>1. CASE x # r /\ y # r
    <3>1. x \in S \ {r} /\ y \in S \ {r} /\ RankIn(S \ {r}, at, x) = RankIn(S \ {r}, at, y)
      BY <1>1, <2>1 DEF Touches
    <3> QED BY <3>1, OneAtRank DEF Touches
  <2>2. CASE x = r \/ y = r
    <3> HIDE DEF A, B
    <3> QED BY <1>2, <2>2
  <2> QED BY <2>1, <2>2
<1>4. A \in SUBSET S /\ B \in SUBSET S2
  OBVIOUS
<1>5. IsFiniteSet(A) /\ IsFiniteSet(B)
  BY <1>4, FS_Subset DEF Touches, Placed
<1>6. r \notin S2 => B \in SUBSET A
  <2> SUFFICES ASSUME r \notin S2 PROVE B \ A = {}
    OBVIOUS
  <2>1. r \notin B
    OBVIOUS
  <2> HIDE DEF A, B
  <2> QED BY <1>1, <2>1
<1> HIDE DEF A, B
<1>7. Cardinality(B) <= Cardinality(A) + 1 /\ Cardinality(A) \in Nat /\ Cardinality(B) \in Nat
  BY <1>3, <1>5, OneMore, FS_CardinalityType
<1>8. r \notin S2 => Cardinality(B) <= Cardinality(A)
  BY <1>5, <1>6, FS_Subset
<1>9. Cardinality(B) <= Cardinality(A) + (IF r \in S2 THEN 1 ELSE 0)
  BY <1>7, <1>8
<1> QED BY <1>9 DEF A, B

(* Of the rows T that stay, a row that leaves pulls at most one into the b   *)
(* first, and a row that comes in or moves to the front none.                *)
ToFrontIfThere(S, S2, at2, r) == r \in S => r \in S2 /\ \A q \in S : at2[r] <= at2[q]

LEMMA ChangeSlips ==
  ASSUME NEW S, NEW at, NEW S2, NEW at2, NEW r, Touches(S, at, S2, at2, r), NEW b \in Int,
         NEW T \in SUBSET S, NEW T2 \in SUBSET (T \ {r})
  PROVE  Cardinality(UpTo(T2, S2, at2, b))
           <= Cardinality(UpTo(T, S, at, b)) + (IF ToFrontIfThere(S, S2, at2, r) THEN 0 ELSE 1)
<1> DEFINE A == UpTo(T, S, at, b)
           B == UpTo(T2, S2, at2, b)
<1> USE DEF UpTo
<1>1. \A x \in B \ A : x \in S \ {r} /\ RankIn(S \ {r}, at, x) = b
  BY RanksAfter
<1>2. \A x, y \in B \ A : x = y
  <2> SUFFICES ASSUME NEW x \in B \ A, NEW y \in B \ A PROVE x = y
    OBVIOUS
  <2>1. x \in S \ {r} /\ y \in S \ {r} /\ RankIn(S \ {r}, at, x) = RankIn(S \ {r}, at, y)
    BY <1>1
  <2> QED BY <2>1, OneAtRank DEF Touches
<1>3. A \in SUBSET S /\ B \in SUBSET S
  OBVIOUS
<1>4. IsFiniteSet(A) /\ IsFiniteSet(B)
  BY <1>3, FS_Subset DEF Touches, Placed
<1>5. ToFrontIfThere(S, S2, at2, r) => B \in SUBSET A
  <2> SUFFICES ASSUME ToFrontIfThere(S, S2, at2, r), NEW q \in T2, RankIn(S2, at2, q) <= b
               PROVE  RankIn(S, at, q) <= b
    OBVIOUS
  <2>1. q \in S \ {r}
    OBVIOUS
  <2>2. /\ RankIn(S \ {r}, at, q) \in Nat
        /\ RankIn(S, at, q) = RankIn(S \ {r}, at, q) + (IF r \in S /\ at[r] <= at[q] THEN 1 ELSE 0)
        /\ RankIn(S2, at2, q) = RankIn(S \ {r}, at, q) + (IF r \in S2 /\ at2[r] <= at2[q] THEN 1 ELSE 0)
    BY <2>1, RanksAfter
  <2> QED BY <2>1, <2>2 DEF ToFrontIfThere
<1> HIDE DEF A, B
<1>6. Cardinality(B) <= Cardinality(A) + 1 /\ Cardinality(A) \in Nat /\ Cardinality(B) \in Nat
  BY <1>2, <1>4, OneMore, FS_CardinalityType
<1>7. ToFrontIfThere(S, S2, at2, r) => Cardinality(B) <= Cardinality(A)
  BY <1>4, <1>5, FS_Subset
<1>8. Cardinality(B) <= Cardinality(A) + (IF ToFrontIfThere(S, S2, at2, r) THEN 0 ELSE 1)
  BY <1>6, <1>7
<1> QED BY <1>8 DEF A, B

-----------------------------------------------------------------------------
(* The walk through a list.  Read is how many rows of the list the pages     *)
(* read so far cover.  A steady row can only be missed by slipping unseen    *)
(* among them, and a shown row only be shown again from behind them.         *)

Rows == Investors \cup OtherRows
Read == IF stage = "rows" THEN (page - 1) * size ELSE page * size
Unseen == {r \in steady : seen[r] = 0}
Shown == {r \in selected : seen[r] > 0}
Slipped == UpTo(Unseen, selected, place, Read)
Again == Beyond(Shown, selected, place, Read)
Repeats == UNION {{r} \X (2 .. seen[r]) : r \in Rows}

ListTyped ==
  /\ place \in [Rows -> Nat]
  /\ seen \in [Rows -> Nat]
  /\ selected \subseteq Rows
  /\ steady \subseteq Rows
  /\ page \in Nat
  /\ size \in Nat
  /\ gone \in Nat
  /\ came \in Nat
  /\ stage \in {"none", "rows", "count", "done"}

(* Selected rows are in the table, in different places; the queue is what    *)
(* the reviews make of the investors.                                        *)
Table ==
  /\ \A r \in selected : place[r] > 0
  /\ \A p, q \in Rows : place[p] = place[q] /\ place[p] > 0 => p = q
  /\ feed = Queue => selected = NotWhitelisted(whitelistStatus)

Bounds ==
  /\ L!Walking => steady \subseteq selected
  /\ stage = "none" => \A r \in Rows : seen[r] = 0
  /\ IsFiniteSet(Repeats)
  /\ L!Walking => Cardinality(Slipped) <= gone
  /\ L!Walking => Cardinality(Repeats) + Cardinality(Again) <= came
  /\ stage = "done" => Cardinality(Unseen) <= gone
  /\ Cardinality(Repeats) <= came

LInv == ListTyped /\ Table /\ Bounds

LEMMA RowsFinite == ASSUME IsFiniteSet(Investors), IsFiniteSet(OtherRows) PROVE IsFiniteSet(Rows)
BY FS_Union DEF Rows

LEMMA SetsFinite == ASSUME IsFiniteSet(Rows), ListTyped
                    PROVE  /\ IsFiniteSet(selected) /\ IsFiniteSet(Again)
                           /\ IsFiniteSet(Unseen) /\ IsFiniteSet(Slipped)
<1>1. selected \in SUBSET Rows /\ Again \in SUBSET Rows /\ Unseen \in SUBSET Rows /\ Slipped \in SUBSET Rows
  BY DEF ListTyped, Again, Beyond, Shown, Unseen, Slipped, UpTo
<1> QED BY <1>1, FS_Subset

LEMMA ReadType == ListTyped => Read \in Int
BY DEF ListTyped, Read

LEMMA SelectedPlaced == ASSUME IsFiniteSet(Rows), ListTyped, Table PROVE Placed(selected, place)
<1>1. IsFiniteSet(selected)
  BY SetsFinite
<1> QED BY <1>1 DEF Placed, ListTyped, Table

(* The first page: nothing is read yet. *)
LEMMA StartWalkKeeps == ASSUME IsFiniteSet(Rows), LInv, L!StartWalk, UNCHANGED whitelistStatus PROVE LInv'
<1> USE DEF L!StartWalk, L!table
<1>1. ListTyped' /\ Table'
  BY DEF LInv, ListTyped, Table, NotWhitelisted
<1>2. Read' = 0 /\ Repeats' = Repeats /\ L!Walking' /\ stage' = "rows"
  BY DEF Read, Repeats, L!Walking, LInv, ListTyped
<1>3. \A q \in selected' : RankIn(selected', place', q) > 0
  <2> SUFFICES ASSUME NEW q \in selected PROVE RankIn(selected, place, q) > 0
    BY DEF LInv, ListTyped
  <2> DEFINE up == {p \in selected : place[p] <= place[q]}
  <2>1. q \in up /\ up \in SUBSET selected
    BY DEF LInv, ListTyped
  <2>2. IsFiniteSet(up)
    BY <2>1, SetsFinite, FS_Subset DEF LInv
  <2> HIDE DEF up
  <2>3. Cardinality(up) # 0 /\ Cardinality(up) \in Nat
    BY <2>1, <2>2, FS_EmptySet, FS_CardinalityType
  <2> QED BY <2>3 DEF RankIn, up
<1>4. Slipped' = {}
  <2>1. \A q \in selected' : RankIn(selected', place', q) \in Nat
    BY <1>1, SetsFinite, RankType DEF LInv
  <2>2. Unseen' \subseteq selected'
    BY DEF Unseen
  <2> QED BY <1>2, <1>3, <2>1, <2>2 DEF Slipped, UpTo
<1>5. Again' = {}
  <2>1. \A q \in selected' : seen'[q] = 0
    BY DEF LInv, Bounds, ListTyped
  <2> QED BY <2>1 DEF Again, Beyond, Shown, LInv, Bounds
<1>6. gone' = gone /\ came' = came /\ gone \in Nat /\ came \in Nat
  BY DEF LInv, ListTyped
<1>7. Cardinality(Repeats) <= came /\ IsFiniteSet(Repeats) /\ Cardinality(Repeats) \in Nat
  BY FS_CardinalityType DEF LInv, Bounds
<1>8. Bounds'
  BY <1>2, <1>4, <1>5, <1>6, <1>7, FS_EmptySet DEF Bounds
<1> QED BY <1>1, <1>8 DEF LInv

(* A page: what it shows for the second time was behind the rows read.       *)
LEMMA PageIs == L!Page = {r \in selected : RankIn(selected, place, r) \in (page - 1) * size + 1 .. (page - 1) * size + size}
BY DEF L!Page, L!Rank, L!Skipped, RankIn, Cardinality, L!Cardinality

LEMMA ReadRowsKeeps == ASSUME IsFiniteSet(Rows), LInv, L!ReadRows, UNCHANGED whitelistStatus PROVE LInv'
<1> USE DEF L!ReadRows, L!table, L!history
<1> DEFINE twice == {r \in Again : r \in L!Page}
           new == [r \in twice |-> <<r, seen[r] + 1>>]
           added == {new[r] : r \in twice}
<1>1. /\ seen' = [r \in Rows |-> IF r \in L!Page THEN seen[r] + 1 ELSE seen[r]]
      /\ UNCHANGED <<feed, place, selected, size, page, steady, gone, came>>
      /\ stage = "rows" /\ stage' = "count"
  BY DEF Rows
<1>2. ListTyped' /\ Table'
  BY <1>1 DEF LInv, ListTyped, Table, NotWhitelisted
<1>3. \A q \in selected : RankIn(selected, place, q) \in Nat
  BY SetsFinite, RankType DEF LInv
<1>4. Read \in Int /\ Read' = Read + size /\ size \in Nat
  BY <1>1 DEF Read, LInv, ListTyped
<1>5. \A q \in selected : q \in L!Page <=> RankIn(selected, place, q) > Read /\ RankIn(selected, place, q) <= Read'
  <2>1. Read = (page - 1) * size /\ Read' = (page - 1) * size + size
    BY <1>1, <1>4 DEF Read
  <2> SUFFICES ASSUME NEW q \in selected
               PROVE  q \in L!Page <=> RankIn(selected, place, q) > Read /\ RankIn(selected, place, q) <= Read'
    OBVIOUS
  <2>2. q \in L!Page <=> RankIn(selected, place, q) \in Read + 1 .. Read + size
    BY <1>4, <2>1, PageIs
  <2> QED BY <1>3, <1>4, <2>2
<1>6. L!Page \subseteq selected
  BY PageIs
<1>7. selected \subseteq Rows /\ seen \in [Rows -> Nat] /\ steady \subseteq selected
  BY <1>1 DEF LInv, ListTyped, Bounds, L!Walking
<1> HIDE DEF L!ReadRows
<1>8. Slipped' \in SUBSET Slipped
  <2> SUFFICES ASSUME NEW q \in Slipped' PROVE q \in Slipped
    OBVIOUS
  <2>1. q \in steady /\ seen'[q] = 0 /\ RankIn(selected, place, q) <= Read' /\ q \in selected
    BY <1>1, <1>7 DEF Slipped, UpTo, Unseen
  <2>2. q \notin L!Page /\ seen[q] = 0
    BY <1>1, <1>7, <2>1
  <2> QED BY <1>3, <1>4, <1>5, <2>1, <2>2 DEF Slipped, UpTo, Unseen
<1>9. \A q \in Again' : q \in Again /\ q \notin L!Page
  <2> SUFFICES ASSUME NEW q \in Again' PROVE q \in Again /\ q \notin L!Page
    OBVIOUS
  <2>1. q \in selected /\ seen'[q] > 0 /\ RankIn(selected, place, q) > Read'
    BY <1>1 DEF Again, Beyond, Shown
  <2>2. q \notin L!Page
    BY <1>3, <1>4, <1>5, <2>1
  <2>3. seen[q] > 0
    BY <1>1, <1>7, <2>1, <2>2
  <2> QED BY <1>3, <1>4, <1>7, <2>1, <2>2, <2>3 DEF Again, Beyond, Shown
<1>10. Repeats' \subseteq Repeats \cup added
  <2> SUFFICES ASSUME NEW r \in Rows, NEW n \in 2 .. seen'[r], n \notin 2 .. seen[r]
               PROVE  <<r, n>> \in added
    BY DEF Repeats
  <2>1. r \in L!Page /\ n = seen[r] + 1 /\ seen[r] > 0
    BY <1>1, <1>7
  <2>2. r \in selected /\ RankIn(selected, place, r) > Read
    BY <1>5, <1>6, <2>1
  <2>3. r \in twice
    BY <2>1, <2>2 DEF Again, Beyond, Shown
  <2> QED BY <2>1, <2>3
<1>11. new \in Surjection(twice, added)
  BY DEF Surjection
<1> HIDE DEF new, added
<1>12. IsFiniteSet(Again) /\ IsFiniteSet(Again') /\ IsFiniteSet(Slipped)
  <2>1. Again' \in SUBSET Again
    BY <1>9
  <2>2. IsFiniteSet(Again) /\ IsFiniteSet(Slipped)
    BY SetsFinite DEF LInv
  <2> QED BY <2>1, <2>2, FS_Subset
<1>13. twice \in SUBSET Again /\ twice \cap Again' = {} /\ (twice \cup Again') \in SUBSET Again
  BY <1>9
<1> HIDE DEF twice
<1>14. IsFiniteSet(twice)
  BY <1>12, <1>13, FS_Subset
<1>15. IsFiniteSet(added) /\ Cardinality(added) <= Cardinality(twice)
  BY <1>11, <1>14, FS_Surjection
<1>16. Cardinality(twice) + Cardinality(Again') <= Cardinality(Again)
  <2>1. Cardinality(twice \cup Again') = Cardinality(twice) + Cardinality(Again')
    BY <1>12, <1>13, <1>14, UnionCounts
  <2> QED BY <1>12, <1>13, <2>1, FS_Subset
<1>17. IsFiniteSet(Repeats) /\ Cardinality(Repeats) + Cardinality(Again) <= came /\ Cardinality(Slipped) <= gone
  BY <1>1 DEF LInv, Bounds, L!Walking
<1>18. /\ IsFiniteSet(Repeats \cup added)
       /\ Cardinality(Repeats \cup added) <= Cardinality(Repeats) + Cardinality(added)
  BY <1>15, <1>17, UnionCounts
<1>19. IsFiniteSet(Repeats') /\ Cardinality(Repeats') <= Cardinality(Repeats \cup added)
  BY <1>10, <1>18, FS_Subset
<1>20. Cardinality(Slipped') <= Cardinality(Slipped) /\ Cardinality(Slipped') \in Nat
  BY <1>8, <1>12, FS_Subset, FS_CardinalityType
<1>21. /\ Cardinality(Repeats) \in Nat /\ Cardinality(Repeats') \in Nat /\ Cardinality(Repeats \cup added) \in Nat
       /\ Cardinality(added) \in Nat /\ Cardinality(twice) \in Nat
       /\ Cardinality(Again) \in Nat /\ Cardinality(Again') \in Nat /\ Cardinality(Slipped) \in Nat
       /\ came \in Nat /\ gone \in Nat
  BY <1>12, <1>14, <1>15, <1>17, <1>18, <1>19, FS_CardinalityType DEF LInv, ListTyped
<1>22. Cardinality(Repeats') + Cardinality(Again') <= came /\ Cardinality(Repeats') <= came /\ Cardinality(Slipped') <= gone
  BY <1>15, <1>16, <1>17, <1>18, <1>19, <1>20, <1>21
<1>23. Bounds'
  BY <1>1, <1>7, <1>19, <1>22 DEF Bounds, L!Walking
<1> QED BY <1>2, <1>23 DEF LInv

(* The total: the walk ends when the pages read cover the list. *)
LEMMA ReadTotalKeeps == ASSUME IsFiniteSet(Rows), LInv, L!ReadTotal, UNCHANGED whitelistStatus PROVE LInv'
<1> USE DEF L!ReadTotal, L!table, L!history
<1>1. /\ UNCHANGED <<feed, place, selected, size, seen, steady, gone, came>>
      /\ stage = "count"
      /\ \/ page * size < Cardinality(selected) /\ stage' = "rows" /\ page' = page + 1
         \/ ~(page * size < Cardinality(selected)) /\ stage' = "done" /\ page' = page
  BY DEF Cardinality, L!Cardinality
<1>2. ListTyped' /\ Table'
  BY <1>1 DEF LInv, ListTyped, Table, NotWhitelisted
<1> HIDE DEF L!ReadTotal
<1>3. Read' = Read
  <2>1. page \in Nat /\ size \in Nat
    BY DEF LInv, ListTyped
  <2>2. (page + 1) - 1 = page
    BY <2>1
  <2> QED BY <1>1, <2>2 DEF Read
<1>4. Slipped' = Slipped /\ Again' = Again /\ Repeats' = Repeats /\ Unseen' = Unseen
  BY <1>1, <1>3 DEF Slipped, UpTo, Again, Beyond, Repeats, Unseen, Shown
<1>5. stage' = "done" => Unseen = Slipped
  <2> SUFFICES ASSUME stage' = "done", NEW q \in Unseen PROVE q \in Slipped
    BY DEF Slipped, UpTo
  <2>1. RankIn(selected, place, q) \in Nat /\ RankIn(selected, place, q) <= Cardinality(selected)
    BY SetsFinite, RankType DEF LInv
  <2>2. Read = page * size /\ Read \in Int /\ Cardinality(selected) \in Nat
    BY <1>1, ReadType, SetsFinite, FS_CardinalityType DEF LInv, Read
  <2> QED BY <1>1, <2>1, <2>2 DEF Slipped, UpTo
<1>6. Bounds'
  BY <1>1, <1>4, <1>5 DEF LInv, Bounds, L!Walking
<1> QED BY <1>2, <1>6 DEF LInv

-----------------------------------------------------------------------------
(* A change of the list touches one row. *)

LEMMA ChangeKeeps ==
  ASSUME IsFiniteSet(Rows), LInv, NEW r \in Rows, NEW moved \in SUBSET {r},
         L!Change(place', selected', moved),
         Touches(selected, place, selected', place', r),
         r \in selected \cap selected' => r \in moved /\ \A q \in selected : place'[r] <= place'[q],
         ListTyped', Table'
  PROVE  LInv'
<1>1. /\ steady' = (steady \cap selected') \ moved
      /\ UNCHANGED <<feed, stage, size, page, seen>>
      /\ L!Walking => gone' = gone + Cardinality(selected \ selected')
      /\ L!Walking => came' = came + Cardinality((selected' \ selected) \cup (selected' \cap moved))
      /\ ~L!Walking => gone' = gone /\ came' = came
  BY DEF L!Change, L!walk, Cardinality, L!Cardinality
<1>2. selected' \ {r} = selected \ {r}
  BY DEF Touches
<1>3. Read' = Read /\ Repeats' = Repeats /\ Read \in Int
  BY <1>1, ReadType DEF Read, Repeats, LInv
<1>4. Unseen' \in SUBSET Unseen
  BY <1>1 DEF Unseen
<1>5. /\ Cardinality(selected \ selected') = IF r \in selected /\ r \notin selected' THEN 1 ELSE 0
      /\ Cardinality((selected' \ selected) \cup (selected' \cap moved)) = IF r \in selected' THEN 1 ELSE 0
  <2>1. selected \ selected' = IF r \in selected /\ r \notin selected' THEN {r} ELSE {}
    BY <1>2
  <2>2. (selected' \ selected) \cup (selected' \cap moved) = IF r \in selected' THEN {r} ELSE {}
    BY <1>2
  <2> QED BY <2>1, <2>2, FS_EmptySet, FS_Singleton
<1>6. /\ IsFiniteSet(Unseen) /\ IsFiniteSet(Again) /\ IsFiniteSet(Slipped)
      /\ IsFiniteSet(selected) /\ IsFiniteSet(selected')
  BY SetsFinite DEF LInv, Touches, Placed
<1>7. IsFiniteSet(Unseen') /\ Cardinality(Unseen') <= Cardinality(Unseen)
  BY <1>4, <1>6, FS_Subset
<1>8. L!Walking => Cardinality(Slipped') <= gone'
  <2> SUFFICES ASSUME L!Walking PROVE Cardinality(Slipped') <= gone'
    OBVIOUS
  <2>1. Unseen \in SUBSET selected /\ Unseen' \in SUBSET (Unseen \ {r})
    BY <1>1, <1>4 DEF Unseen, LInv, Bounds
  <2>2. Slipped' = UpTo(Unseen', selected', place', Read)
    BY <1>3 DEF Slipped
  <2>3. IsFiniteSet(Slipped')
    <3>1. Slipped' \in SUBSET Unseen'
      BY DEF Slipped, UpTo
    <3> QED BY <1>7, <3>1, FS_Subset
  <2>4. /\ Cardinality(Slipped) \in Nat /\ Cardinality(Slipped') \in Nat /\ gone \in Nat
        /\ Cardinality(Slipped) <= gone
    BY <1>6, <2>3, FS_CardinalityType DEF LInv, ListTyped, Bounds
  <2>5. Cardinality(UpTo(Unseen', selected', place', Read))
          <= Cardinality(UpTo(Unseen, selected, place, Read))
               + (IF ToFrontIfThere(selected, selected', place', r) THEN 0 ELSE 1)
    BY <1>3, <2>1, ChangeSlips
  <2>6. Cardinality(Slipped')
          <= Cardinality(Slipped) + (IF ToFrontIfThere(selected, selected', place', r) THEN 0 ELSE 1)
    BY <2>2, <2>5 DEF Slipped
  <2>7. ~(r \in selected /\ r \notin selected') => ToFrontIfThere(selected, selected', place', r)
    BY DEF ToFrontIfThere
  <2> QED BY <1>1, <1>5, <2>4, <2>6, <2>7
<1>9. L!Walking => Cardinality(Repeats) + Cardinality(Again') <= came'
  <2> SUFFICES ASSUME L!Walking PROVE Cardinality(Repeats) + Cardinality(Again') <= came'
    OBVIOUS
  <2>1. Shown \in SUBSET selected /\ Shown' \in SUBSET selected' /\ Shown' \ {r} \in SUBSET Shown
    BY <1>1, <1>2 DEF Shown
  <2>2. Again' = Beyond(Shown', selected', place', Read)
    BY <1>3 DEF Again
  <2>3. IsFiniteSet(Again')
    <3>1. Again' \in SUBSET selected'
      BY <2>1 DEF Again, Beyond
    <3> QED BY <1>6, <3>1, FS_Subset
  <2>4. /\ Cardinality(Again) \in Nat /\ Cardinality(Again') \in Nat /\ Cardinality(Repeats) \in Nat /\ came \in Nat
        /\ Cardinality(Repeats) + Cardinality(Again) <= came
    BY <1>6, <2>3, FS_CardinalityType DEF LInv, ListTyped, Bounds
  <2>5. Cardinality(Beyond(Shown', selected', place', Read))
          <= Cardinality(Beyond(Shown, selected, place, Read)) + (IF r \in selected' THEN 1 ELSE 0)
    BY <1>3, <2>1, ChangeCrosses
  <2>6. Cardinality(Again') <= Cardinality(Again) + (IF r \in selected' THEN 1 ELSE 0)
    BY <2>2, <2>5 DEF Again
  <2> QED BY <1>1, <1>5, <2>4, <2>6
<1>10. gone' >= gone /\ came' >= came /\ gone \in Nat /\ came \in Nat
  BY <1>1, <1>5 DEF LInv, ListTyped
<1>11. Cardinality(Repeats) <= came' /\ Cardinality(Repeats) \in Nat /\ IsFiniteSet(Repeats) /\ came' \in Nat /\ gone' \in Nat
  BY <1>10, FS_CardinalityType DEF LInv, Bounds, ListTyped
<1>12. stage = "done" => Cardinality(Unseen') <= gone'
  BY <1>6, <1>7, <1>10, FS_CardinalityType DEF LInv, Bounds, ListTyped
<1>13. L!Walking' = L!Walking /\ (L!Walking => steady' \subseteq selected')
  BY <1>1 DEF L!Walking
<1>14. stage' = "none" => \A q \in Rows : seen'[q] = 0
  BY <1>1 DEF LInv, Bounds
<1>15. Bounds'
  BY <1>1, <1>3, <1>8, <1>9, <1>11, <1>12, <1>13, <1>14 DEF Bounds
<1> QED BY <1>15 DEF LInv

(* What a change counts keeps its type. *)
LEMMA ChangeTyped ==
  ASSUME IsFiniteSet(Rows), LInv, NEW r \in Rows, NEW moved \in SUBSET {r},
         L!Change(place', selected', moved), selected' \ {r} = selected \ {r},
         selected' \subseteq Rows, place' \in [Rows -> Nat]
  PROVE  ListTyped'
<1>1. /\ steady' = (steady \cap selected') \ moved
      /\ UNCHANGED <<feed, stage, size, page, seen>>
      /\ L!Walking => gone' = gone + Cardinality(selected \ selected')
      /\ L!Walking => came' = came + Cardinality((selected' \ selected) \cup (selected' \cap moved))
      /\ ~L!Walking => gone' = gone /\ came' = came
  BY DEF L!Change, L!walk, Cardinality, L!Cardinality
<1>2. (selected \ selected') \in SUBSET Rows /\ ((selected' \ selected) \cup (selected' \cap moved)) \in SUBSET Rows
  BY DEF LInv, ListTyped
<1>3. Cardinality(selected \ selected') \in Nat /\ Cardinality((selected' \ selected) \cup (selected' \cap moved)) \in Nat
  BY <1>2, FS_Subset, FS_CardinalityType
<1> QED BY <1>1, <1>3 DEF LInv, ListTyped

(* The places after a row went to the front. *)
LEMMA FrontPlaces ==
  ASSUME LInv, NEW r \in Rows, place' = L!InFront(r)
  PROVE  /\ place' \in [Rows -> Nat]
         /\ place'[r] = 1
         /\ \A q \in Rows : place[q] > 0 => place'[q] > 0
         /\ \A p, q \in Rows : place'[p] = place'[q] /\ place'[p] > 0 => p = q
         /\ \A p, q \in Rows \ {r} : place[p] > 0 /\ place[q] > 0 => (place'[p] <= place'[q] <=> place[p] <= place[q])
<1> USE DEF LInv, ListTyped, Table
<1>1. place' = [q \in Rows |-> IF q = r THEN 1
                  ELSE IF place[q] > 0 /\ (place[r] = 0 \/ place[q] < place[r]) THEN place[q] + 1
                  ELSE place[q]]
  BY DEF L!InFront, Rows
<1>2. place' \in [Rows -> Nat] /\ place'[r] = 1 /\ \A q \in Rows : place[q] > 0 => place'[q] > 0
  BY <1>1
<1>3. ASSUME NEW p \in Rows, NEW q \in Rows, place'[p] = place'[q], place'[p] > 0 PROVE p = q
  BY <1>1, <1>3
<1>4. ASSUME NEW p \in Rows \ {r}, NEW q \in Rows \ {r}, place[p] > 0, place[q] > 0
      PROVE  place'[p] <= place'[q] <=> place[p] <= place[q]
  BY <1>1, <1>4
<1> QED BY <1>2, <1>3, <1>4

LEMMA FrontTouches ==
  ASSUME IsFiniteSet(Rows), LInv, NEW r \in Rows, place' = L!InFront(r), selected' \ {r} = selected \ {r}
  PROVE  /\ Touches(selected, place, selected', place', r)
         /\ \A q \in selected' : place'[q] > 0
         /\ selected' \subseteq Rows
         /\ \A q \in selected : place'[r] <= place'[q]
<1>1. selected \subseteq Rows /\ selected' \subseteq Rows /\ \A q \in selected : place[q] > 0
  BY DEF LInv, ListTyped, Table
<1>2. \A q \in selected' : place'[q] > 0 /\ place'[q] \in Nat
  BY <1>1, FrontPlaces
<1>3. \A q \in selected : place'[r] <= place'[q]
  BY <1>1, FrontPlaces
<1>4. Placed(selected, place)
  BY SelectedPlaced DEF LInv
<1>5. IsFiniteSet(selected')
  BY <1>1, FS_Subset
<1>6. Placed(selected', place')
  BY <1>1, <1>2, <1>5, FrontPlaces DEF Placed
<1>7. \A p, q \in selected \ {r} : place'[p] <= place'[q] <=> place[p] <= place[q]
  BY <1>1, FrontPlaces
<1> QED BY <1>1, <1>2, <1>3, <1>4, <1>6, <1>7 DEF Touches

(* A row that is selected or not where it stands. *)
LEMMA StandingTouches ==
  ASSUME IsFiniteSet(Rows), LInv, NEW r \in Rows, place[r] > 0, UNCHANGED place, selected' \ {r} = selected \ {r}
  PROVE  /\ Touches(selected, place, selected', place', r)
         /\ \A q \in selected' : place'[q] > 0
         /\ selected' \subseteq Rows
<1>1. selected \subseteq Rows /\ selected' \subseteq Rows
  BY DEF LInv, ListTyped
<1>2. IsFiniteSet(selected')
  BY <1>1, FS_Subset
<1>3. \A q \in selected' : place[q] > 0 /\ place[q] \in Nat
  BY <1>1 DEF LInv, ListTyped, Table
<1>4. Placed(selected, place)
  BY SelectedPlaced DEF LInv
<1>5. Placed(selected', place')
  BY <1>1, <1>2, <1>3 DEF Placed, LInv, Table
<1> QED BY <1>1, <1>3, <1>4, <1>5 DEF Touches

(* The changes of the lists that change by themselves. *)
LEMMA ListChangeKeeps ==
  ASSUME IsFiniteSet(Rows), LInv, feed # Queue, NEW r \in Rows, L!Insert(r) \/ L!Enter(r) \/ L!Leave(r)
  PROVE  LInv'
<1>1. CASE L!Insert(r)
  <2>1. /\ place[r] = 0 /\ place' = L!InFront(r) /\ L!Change(place', selected', {})
        /\ selected' = (IF feed.born THEN selected \cup {r} ELSE selected) /\ feed' = feed
    BY <1>1 DEF L!Insert, L!Change
  <2>2. selected' \ {r} = selected \ {r} /\ r \notin selected
    BY <2>1 DEF LInv, ListTyped, Table
  <2>3. place' \in [Rows -> Nat] /\ \A p, q \in Rows : place'[p] = place'[q] /\ place'[p] > 0 => p = q
    BY <2>1, FrontPlaces
  <2>4. /\ Touches(selected, place, selected', place', r)
        /\ \A q \in selected' : place'[q] > 0
        /\ selected' \subseteq Rows
    BY <2>1, <2>2, FrontTouches
  <2>5. {} \in SUBSET {r}
    OBVIOUS
  <2>6. ListTyped'
    BY <2>1, <2>2, <2>3, <2>4, <2>5, ChangeTyped
  <2>7. Table'
    BY <2>1, <2>3, <2>4 DEF Table
  <2> QED BY <2>1, <2>2, <2>4, <2>5, <2>6, <2>7, ChangeKeeps
<1>2. CASE L!Enter(r) \/ L!Leave(r)
  <2>1. /\ place[r] > 0 /\ place' = place /\ L!Change(place', selected', {})
        /\ selected' \ {r} = selected \ {r} /\ ~(r \in selected \cap selected') /\ feed' = feed
    BY <1>2 DEF L!Enter, L!Leave, L!Change, LInv, Table
  <2>2. place' \in [Rows -> Nat] /\ \A p, q \in Rows : place'[p] = place'[q] /\ place'[p] > 0 => p = q
    BY <2>1 DEF LInv, ListTyped, Table
  <2>3. /\ Touches(selected, place, selected', place', r)
        /\ \A q \in selected' : place'[q] > 0
        /\ selected' \subseteq Rows
    BY <2>1, StandingTouches
  <2>4. {} \in SUBSET {r}
    OBVIOUS
  <2>5. ListTyped'
    BY <2>1, <2>2, <2>3, <2>4, ChangeTyped
  <2>6. Table'
    BY <2>1, <2>2, <2>3 DEF Table
  <2> QED BY <2>1, <2>3, <2>4, <2>5, <2>6, ChangeKeeps
<1> QED BY <1>1, <1>2

(* The queue: a write moves an investor to the front, and leaves the others  *)
(* in the queue or out of it.                                                *)
LEMMA QueueChangeKeeps ==
  ASSUME IsFiniteSet(Rows), LInv, feed = Queue, NEW i \in Investors,
         L!Change(L!InFront(i), selected', {i}),
         selected' = NotWhitelisted(whitelistStatus'), selected' \ {i} = selected \ {i}
  PROVE  LInv'
<1>1. i \in Rows /\ place' = L!InFront(i) /\ L!Change(place', selected', {i}) /\ {i} \in SUBSET {i}
  BY DEF Rows, L!Change
<1>2. place' \in [Rows -> Nat] /\ \A p, q \in Rows : place'[p] = place'[q] /\ place'[p] > 0 => p = q
  BY <1>1, FrontPlaces
<1>3. /\ Touches(selected, place, selected', place', i)
      /\ \A q \in selected : place'[i] <= place'[q]
      /\ selected' \subseteq Rows
  BY <1>1, FrontTouches
<1>4. \A q \in selected' : place'[q] > 0
  BY <1>1, FrontTouches
<1>5. ListTyped'
  BY <1>1, <1>2, <1>3, ChangeTyped
<1>6. Table'
  BY <1>2, <1>4 DEF Table
<1> QED BY <1>1, <1>3, <1>5, <1>6, ChangeKeeps

(* The behaviours of Desk: a review's write to the queue, a settings update, *)
(* a step of the walk, or a change of another list.                          *)
LEMMA ReviewingKeeps == ASSUME IsFiniteSet(Rows), LInv, IInv, feed = Queue, Reviewing PROVE LInv'
<1>1. CASE UNCHANGED <<listing, whitelistStatus>>
  BY <1>1 DEF listing, LInv, ListTyped, Table, Bounds, Read, Unseen, Shown, Slipped, UpTo, Again, Beyond, Repeats,
              RankIn, NotWhitelisted, L!Walking
<1>2. ASSUME NEW s \in Slots, SubmitCommit(s) \/ DecideCommit(s), Written(who[s]) PROVE LInv'
  <2> DEFINE i == who[s]
  <2>1. i \in Investors
    BY <1>2 DEF SubmitCommit, DecideCommit, IInv, TypeOK, Alone, Decisions
  <2>2. \A j \in Investors \ {i} : whitelistStatus'[j] = whitelistStatus[j]
    BY <1>2, <2>1 DEF SubmitCommit, DecideCommit, IInv, TypeOK
  <2>3. /\ L!Change(L!InFront(i), selected', {i})
        /\ selected' = NotWhitelisted(whitelistStatus')
    BY <1>2 DEF Written, L!Change
  <2>4. selected' \ {i} = selected \ {i}
    BY <2>2, <2>3 DEF LInv, Table, NotWhitelisted
  <2> HIDE DEF i
  <2> QED BY <2>1, <2>3, <2>4, QueueChangeKeeps
<1>3. ASSUME NEW i \in Investors, SettingsCommit(i) PROVE LInv'
  <2>1. L!Change(L!InFront(i), selected', {i}) /\ selected' = selected /\ whitelistStatus' = whitelistStatus
    BY <1>3 DEF SettingsCommit, L!Change, vars
  <2>2. selected' = NotWhitelisted(whitelistStatus')
    BY <2>1 DEF LInv, Table, NotWhitelisted
  <2> QED BY <2>1, <2>2, QueueChangeKeeps
<1> QED BY <1>1, <1>2, <1>3 DEF Reviewing, SubmitRead, FundRead, DecideRead, FundCommit, Abort

LEMMA DeskKeeps == ASSUME IsFiniteSet(Rows), LInv, IInv, [DeskNext]_deskVars PROVE LInv'
<1>1. CASE feed = Queue /\ Reviewing
  BY <1>1, ReviewingKeeps
<1>2. CASE L!Walk /\ UNCHANGED vars
  BY <1>2, StartWalkKeeps, ReadRowsKeeps, ReadTotalKeeps DEF L!Walk, vars
<1>3. CASE feed # Queue /\ \E r \in Rows : L!Insert(r) \/ L!Enter(r) \/ L!Leave(r)
  BY <1>3, ListChangeKeeps
<1>4. CASE UNCHANGED deskVars
  BY <1>4 DEF deskVars, vars, listing, LInv, ListTyped, Table, Bounds, Read, Unseen, Shown, Slipped, UpTo, Again, Beyond,
              Repeats, RankIn, NotWhitelisted, L!Walking
<1> QED BY <1>1, <1>2, <1>3, <1>4 DEF DeskNext, L!Next, Rows

LEMMA OtherFeeds == Queue \notin L!Feeds
<1>1. "byUpdate" \in DOMAIN Queue
  BY DEF Queue
<1>2. \A f \in L!Feeds : "byUpdate" \notin DOMAIN f
  BY DEF L!Feeds, L!Marketplace, L!Portfolio, L!UnreadInbox, L!SettledLedger, L!BusinessInvoices, L!BuyerInvoices
<1> QED BY <1>1, <1>2

LEMMA DeskInitKeeps == ASSUME IsFiniteSet(Rows), IsFiniteSet(Investors), DeskInit PROVE LInv
<1>1. /\ stage = "none" /\ page = 0 /\ seen = [r \in Rows |-> 0] /\ steady = {} /\ gone = 0 /\ came = 0
      /\ size \in Nat
  BY DeskAssumption DEF DeskInit, L!Init, Rows
<1>2. /\ place \in [Rows -> Nat] /\ selected \subseteq Rows
      /\ \A r \in selected : place[r] > 0
      /\ \A p, q \in Rows : place[p] = place[q] /\ place[p] > 0 => p = q
      /\ feed = Queue => selected = NotWhitelisted(whitelistStatus)
  <2>1. CASE feed \in L!Feeds /\ L!Init
    BY <2>1, OtherFeeds DEF L!Init, Rows
  <2>2. CASE /\ selected = Investors
             /\ \E p \in Bijection(Investors, 1 .. Cardinality(Investors)) :
                  place = [r \in Investors \cup OtherRows |-> IF r \in Investors THEN p[r] ELSE 0]
    <3>1. PICK p \in Bijection(Investors, 1 .. Cardinality(Investors)) :
            place = [r \in Rows |-> IF r \in Investors THEN p[r] ELSE 0]
      BY <2>2 DEF Rows
    <3>2. Cardinality(Investors) \in Nat
      BY FS_CardinalityType
    <3>3. \A q \in Investors : p[q] \in 1 .. Cardinality(Investors)
      BY DEF Bijection, Injection, Surjection
    <3>4. \A q, r \in Investors : p[q] = p[r] => q = r
      BY DEF Bijection, Injection, IsInjective
    <3>5. Investors \subseteq Rows
      BY DEF Rows
    <3>6. NotWhitelisted(whitelistStatus) = Investors
      BY DEF DeskInit, Init, NotWhitelisted
    <3> QED BY <2>2, <3>1, <3>2, <3>3, <3>4, <3>5, <3>6
  <2> QED BY <2>1, <2>2 DEF DeskInit
<1>3. ListTyped /\ Table
  BY <1>1, <1>2 DEF ListTyped, Table
<1>4. Repeats = {}
  BY <1>1 DEF Repeats
<1>5. Bounds
  BY <1>1, <1>4, FS_EmptySet DEF Bounds, L!Walking
<1> QED BY <1>3, <1>5 DEF LInv

LEMMA DeskInvariant == ASSUME IsFiniteSet(Investors), IsFiniteSet(OtherRows) PROVE DeskSpec => [](IInv /\ LInv)
<1>1. IsFiniteSet(Rows)
  BY RowsFinite
<1>2. DeskInit => IInv /\ LInv
  BY <1>1, DeskInitKeeps, InitInv DEF DeskInit
<1>3. IInv /\ LInv /\ [DeskNext]_deskVars => (IInv /\ LInv)'
  BY <1>1, DeskKeeps, DeskStep, NextInv
<1> QED BY <1>2, <1>3, PTL DEF DeskSpec

(* MissedByDepartures: whichever list is walked, whatever its length, the    *)
(* page size and the changes between the statements, the rows that stayed in *)
(* their place and were not shown are no more than the rows that left.       *)
THEOREM MissedByDepartures ==
  ASSUME IsFiniteSet(Investors), IsFiniteSet(OtherRows) PROVE DeskSpec => []MissedOnlyByDepartures
<1>1. LInv => MissedOnlyByDepartures
  BY DEF LInv, Bounds, Unseen, MissedOnlyByDepartures, L!MissedOnlyByDepartures, Cardinality, L!Cardinality
<1> QED BY <1>1, DeskInvariant, PTL

(* RepeatedByArrivals: the rows shown again are no more than those that came *)
(* in or moved to the front during the walk.                                 *)
THEOREM RepeatedByArrivals ==
  ASSUME IsFiniteSet(Investors), IsFiniteSet(OtherRows) PROVE DeskSpec => []RepeatedOnlyByArrivals
<1>1. LInv => RepeatedOnlyByArrivals
  BY DEF LInv, Bounds, Repeats, Rows, RepeatedOnlyByArrivals, L!RepeatedOnlyByArrivals, Cardinality, L!Cardinality
<1> QED BY <1>1, DeskInvariant, PTL

=============================================================================
