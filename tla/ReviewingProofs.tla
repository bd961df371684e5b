---------------------------- MODULE ReviewingProofs ----------------------------
(***************************************************************************)
(* Theorems about Reviewing, for all invoices, any finite set of slots and *)
(* whatever number of reviews.  The first part needs no counting, the      *)
(* second one relates the notifications to the handlers still at work.     *)
(***************************************************************************)
EXTENDS Reviewing, FiniteSetTheorems, TLAPS

Tones == {"positive", "warning"}
Stages == {"idle", "accept", "acceptMail", "launch", "dispute", "disputeMail"}
Quiet == Invoices \ contended

TypeOK ==
  /\ confirmed \in [Invoices -> BOOLEAN]
  /\ notices \in [Invoices -> Seq(Tones)]
  /\ mailed \in [Invoices -> Nat]
  /\ answered \in [Invoices -> Nat]
  /\ launches \in [Invoices -> Nat]
  /\ pc \in [Slots -> Stages]
  /\ on \in [Slots -> Invoices \cup {None}]

(* A slot works on an invoice or is idle, and no two slots work on an invoice *)
(* that the history does not call contended.                                 *)
Alone ==
  /\ \A s \in Slots : pc[s] = "idle" => on[s] = None
  /\ \A s \in Slots : pc[s] # "idle" => on[s] \in Invoices
  /\ \A s, t \in Slots : s # t /\ on[s] = on[t] => on[s] \notin Quiet

(* A review that has read an unconfirmed invoice still finds it unconfirmed.  *)
StillOpen == \A s \in Slots :
  on[s] \in Quiet /\ pc[s] \in {"accept", "dispute"} => ~confirmed[on[s]]

(* The business was never told of an acceptance that did not happen.         *)
ToldIsConfirmed == \A v \in Invoices :
  ~confirmed[v] => \A n \in DOMAIN notices[v] : notices[v][n] # "positive"

IInv == TypeOK /\ Alone /\ StillOpen /\ ToldIsConfirmed /\ QuietAcceptanceFinal

(* What is appended to notifications without an acceptance is the only one   *)
(* that may be about an acceptance, and the last.                            *)
LEMMA AppendLast ==
  ASSUME NEW q \in Seq(Tones), NEW t \in Tones, \A k \in DOMAIN q : q[k] # "positive",
         NEW n \in DOMAIN Append(q, t), Append(q, t)[n] = "positive"
  PROVE  t = "positive" /\ n = Len(Append(q, t))
<1>1. Len(q) \in Nat /\ DOMAIN q = 1 .. Len(q)
  OBVIOUS
<1>2. n \in 1 .. Len(q) + 1 /\ Len(Append(q, t)) = Len(q) + 1
  OBVIOUS
<1>3. CASE n \in 1 .. Len(q)
  <2>1. Append(q, t)[n] = q[n]
    BY <1>3
  <2> QED BY <1>1, <1>3, <2>1
<1>4. CASE n = Len(q) + 1
  <2>1. Append(q, t)[n] = t
    BY <1>4
  <2> QED BY <1>2, <1>4, <2>1
<1> QED BY <1>1, <1>2, <1>3, <1>4

LEMMA InitInv == ASSUME None \notin Invoices PROVE Init => IInv
BY DEF Init, IInv, TypeOK, Alone, StillOpen, ToldIsConfirmed, QuietAcceptanceFinal, Quiet, Stages, Tones

LEMMA ReadInv ==
  ASSUME None \notin Invoices, IInv, NEW s \in Slots, NEW v \in Invoices,
         NEW d \in {"accept", "dispute"}, ReviewRead(s, v, d)
  PROVE  IInv'
<1> USE DEF IInv, TypeOK, Alone, StillOpen, ToldIsConfirmed, Quiet, Stages, ReviewRead, rows, outcomes
<1>1. \A t \in Slots : on'[t] = IF t = s THEN v ELSE on[t]
  OBVIOUS
<1>2. \A t \in Slots : pc'[t] = IF t = s THEN d ELSE pc[t]
  OBVIOUS
<1>3. TypeOK' /\ Alone'
  BY <1>1, <1>2
<1>4. StillOpen'
  BY <1>1, <1>2 DEF Reviewable
<1>5. ToldIsConfirmed' /\ QuietAcceptanceFinal'
  BY DEF QuietAcceptanceFinal
<1> QED BY <1>3, <1>4, <1>5

(* A notification: the first acceptance or a dispute of a quiet invoice finds *)
(* no acceptance among the notifications before it.                          *)
LEMMA NotifiedInv ==
  ASSUME None \notin Invoices, IInv, NEW s \in Slots, NEW tone \in Tones, NEW stage \in Stages,
         pc[s] \in {"accept", "dispute"}, Notified(s, tone), Goto(s, stage),
         stage \notin {"idle", "accept", "dispute"},
         UNCHANGED <<outcomes, reviews, history>>,
         \/ tone = "positive" /\ confirmed' = [confirmed EXCEPT ![on[s]] = TRUE]
         \/ tone = "warning" /\ UNCHANGED confirmed
  PROVE  IInv'
<1> USE DEF IInv, TypeOK, Alone, Quiet, Notified, Goto, outcomes, history
<1> DEFINE v == on[s]
           q == notices[v]
           told == Append(q, tone)
<1>1. v \in Invoices /\ q \in Seq(Tones)
  OBVIOUS
<1>2. notices' = [notices EXCEPT ![v] = told]
  BY <1>1
<1>3. /\ \A w \in Invoices \ {v} : notices'[w] = notices[w]
      /\ notices'[v] = told
  BY <1>1, <1>2
<1>4. \A t \in Slots : on'[t] = on[t] /\ pc'[t] = IF t = s THEN stage ELSE pc[t]
  OBVIOUS
<1>5. \A w \in Invoices \ {v} : confirmed'[w] = confirmed[w]
  OBVIOUS
<1>6. TypeOK'
  <2>1. told \in Seq(Tones)
    BY <1>1
  <2> HIDE DEF told
  <2> QED BY <1>1, <1>2, <2>1
<1>7. \A n \in DOMAIN told : told[n] = "positive" =>
        \/ \E k \in DOMAIN q : q[k] = "positive"
        \/ tone = "positive" /\ n = Len(told)
  BY <1>1, AppendLast
<1>8. Alone'
  BY <1>4
<1>9. StillOpen'
  BY <1>4, <1>5 DEF StillOpen
<1>10. ToldIsConfirmed'
  <2> SUFFICES ASSUME NEW w \in Invoices, ~confirmed'[w], NEW n \in DOMAIN notices'[w]
               PROVE  notices'[w][n] # "positive"
    BY DEF ToldIsConfirmed
  <2>1. CASE w # v
    BY <1>3, <1>5, <2>1 DEF ToldIsConfirmed
  <2>2. CASE w = v
    <3>1. tone = "warning" /\ ~confirmed[v]
      BY <1>1, <2>2
    <3>2. \A k \in DOMAIN q : q[k] # "positive"
      BY <1>1, <3>1 DEF ToldIsConfirmed
    <3>3. n \in DOMAIN told /\ notices'[w][n] = told[n]
      BY <1>3, <2>2
    <3> HIDE DEF q, v, told
    <3> QED BY <1>7, <3>1, <3>2, <3>3, Zenon
  <2> QED BY <2>1, <2>2
<1>11. QuietAcceptanceFinal'
  <2> SUFFICES ASSUME NEW w \in Quiet, NEW n \in DOMAIN notices'[w], notices'[w][n] = "positive"
               PROVE  n = Len(notices'[w])
    BY DEF QuietAcceptanceFinal
  <2>1. CASE w # v
    BY <1>3, <2>1 DEF QuietAcceptanceFinal
  <2>2. CASE w = v
    <3>1. ~confirmed[v]
      BY <1>1, <2>2 DEF StillOpen
    <3>2. \A k \in DOMAIN q : q[k] # "positive"
      BY <1>1, <3>1 DEF ToldIsConfirmed
    <3>3. n \in DOMAIN told /\ told[n] = "positive" /\ Len(notices'[w]) = Len(told)
      BY <1>3, <2>2
    <3> HIDE DEF q, v, told
    <3> QED BY <1>7, <3>2, <3>3, Zenon
  <2> QED BY <2>1, <2>2
<1> QED BY <1>6, <1>8, <1>9, <1>10, <1>11

(* A step that writes no row and leaves its slot further on or idle.         *)
LEMMA QuietStepInv ==
  ASSUME None \notin Invoices, IInv, UNCHANGED <<rows, contended>>,
         mailed' \in [Invoices -> Nat], answered' \in [Invoices -> Nat], launches' \in [Invoices -> Nat],
         pc' \in [Slots -> Stages], on' \in [Slots -> Invoices \cup {None}],
         \A t \in Slots : \/ on'[t] = on[t] /\ pc'[t] = pc[t]
                          \/ on'[t] = on[t] /\ pc[t] # "idle" /\ pc'[t] = "launch"
                          \/ on'[t] = None /\ pc'[t] = "idle"
  PROVE  IInv'
<1> USE DEF IInv, TypeOK, Alone, Quiet, rows
<1>1. TypeOK' /\ Alone'
  OBVIOUS
<1>2. StillOpen'
  BY DEF StillOpen
<1>3. ToldIsConfirmed' /\ QuietAcceptanceFinal'
  BY DEF ToldIsConfirmed, QuietAcceptanceFinal
<1> QED BY <1>1, <1>2, <1>3

LEMMA NextInv == ASSUME None \notin Invoices PROVE IInv /\ [Next]_revVars => IInv'
<1> SUFFICES ASSUME IInv, [Next]_revVars PROVE IInv'
  OBVIOUS
<1> USE DEF rows, outcomes, history
<1>1. ASSUME NEW s \in Slots, NEW v \in Invoices, NEW d \in {"accept", "dispute"}, ReviewRead(s, v, d)
      PROVE  IInv'
  BY <1>1, ReadInv
<1>2. ASSUME NEW s \in Slots, AcceptCommit(s) PROVE IInv'
  BY <1>2, NotifiedInv DEF AcceptCommit, Tones, Stages
<1>3. ASSUME NEW s \in Slots, DisputeCommit(s) PROVE IInv'
  BY <1>3, NotifiedInv DEF DisputeCommit, Tones, Stages
<1>4. ASSUME NEW s \in Slots, AcceptMail(s) PROVE IInv'
  BY <1>4, QuietStepInv DEF AcceptMail, AfterAcceptMail, Goto, IInv, TypeOK, Stages
<1>5. ASSUME NEW s \in Slots, Launch(s) PROVE IInv'
  BY <1>5, QuietStepInv DEF Launch, Finish, IInv, TypeOK, Alone, Stages
<1>6. ASSUME NEW s \in Slots, DisputeMail(s) PROVE IInv'
  <2>1. mailed' \in [Invoices -> Nat] /\ answered' \in [Invoices -> Nat]
    <3>1. on[s] \in Invoices
      BY <1>6 DEF DisputeMail, IInv, Alone
    <3>2. PICK sent \in BOOLEAN, ok \in BOOLEAN :
            /\ mailed' = [mailed EXCEPT ![on[s]] = IF sent THEN @ + 1 ELSE @]
            /\ answered' = [answered EXCEPT ![on[s]] = IF Answered(ok) THEN @ + 1 ELSE @]
      BY <1>6 DEF DisputeMail
    <3> QED BY <3>1, <3>2 DEF IInv, TypeOK
  <2> QED BY <1>6, <2>1, QuietStepInv DEF DisputeMail, Finish, IInv, TypeOK, Stages
<1>7. ASSUME NEW s \in Slots, WriteFails(s) PROVE IInv'
  BY <1>7, QuietStepInv DEF WriteFails, Finish, IInv, TypeOK, Stages
<1>8. ASSUME Crash PROVE IInv'
  BY <1>8, QuietStepInv DEF Crash, IInv, TypeOK, Stages
<1>9. CASE UNCHANGED revVars
  BY <1>9, QuietStepInv DEF revVars, IInv, TypeOK
<1> QED BY <1>1, <1>2, <1>3, <1>4, <1>5, <1>6, <1>7, <1>8, <1>9 DEF Next, Proceed

LEMMA Invariant == ASSUME None \notin Invoices PROVE Spec => []IInv
<1> QED BY InitInv, NextInv, PTL DEF Spec

(* AcceptanceFinal: while its reviews do not overlap, an invoice is accepted  *)
(* at most once and the business is told nothing after that.                 *)
THEOREM AcceptanceFinal == ASSUME None \notin Invoices PROVE Spec => []QuietAcceptanceFinal
<1>1. IInv => QuietAcceptanceFinal
  BY DEF IInv
<1> QED BY <1>1, Invariant, PTL

-----------------------------------------------------------------------------
(* Counting: every notification is matched by an outcome or by a handler that *)
(* is still about to bring it about.                                         *)

Count(q, tone) == Cardinality({n \in DOMAIN q : q[n] = tone})
At(v, stages) == {s \in Slots : on[s] = v /\ pc[s] \in stages}
Launching == {"acceptMail", "launch"}

LEMMA CountAppend ==
  ASSUME NEW q \in Seq(Tones), NEW t \in Tones, NEW u \in Tones
  PROVE  /\ Count(q, u) \in Nat
         /\ Count(Append(q, t), u) = IF t = u THEN Count(q, u) + 1 ELSE Count(q, u)
<1> DEFINE N(r) == {n \in DOMAIN r : r[n] = u}
           told == Append(q, t)
<1>1. Len(q) \in Nat /\ DOMAIN q = 1 .. Len(q) /\ DOMAIN told = 1 .. Len(q) + 1
  OBVIOUS
<1>2. (\A n \in 1 .. Len(q) : told[n] = q[n]) /\ told[Len(q) + 1] = t
  OBVIOUS
<1> HIDE DEF told
<1>3. N(told) = IF t = u THEN N(q) \cup {Len(q) + 1} ELSE N(q)
  BY <1>1, <1>2
<1>4. IsFiniteSet(1 .. Len(q)) /\ N(q) \subseteq 1 .. Len(q)
  BY <1>1, FS_Interval
<1>5. IsFiniteSet(N(q)) /\ Len(q) + 1 \notin N(q)
  BY <1>1, <1>4, FS_Subset
<1>6. Cardinality(N(q)) \in Nat
  BY <1>5, FS_CardinalityType
<1>7. Cardinality(N(q) \cup {Len(q) + 1}) = Cardinality(N(q)) + 1
  BY <1>5, FS_AddElement
<1> QED BY <1>3, <1>6, <1>7 DEF Count, told

LEMMA AtFinite == ASSUME IsFiniteSet(Slots), NEW v, NEW stages
                  PROVE  IsFiniteSet(At(v, stages)) /\ Cardinality(At(v, stages)) \in Nat
<1>1. At(v, stages) \subseteq Slots
  BY DEF At
<1>2. IsFiniteSet(At(v, stages))
  BY <1>1, FS_Subset
<1> QED BY <1>2, FS_CardinalityType

(* What an invoice's business was told, against what came of it.             *)
Accounted(v) ==
  LET launching == Cardinality(At(v, Launching))
      mailing == Cardinality(At(v, {"disputeMail"}))
  IN
  /\ confirmed[v] <=> Count(notices[v], "positive") > 0
  /\ launches[v] + launching <= Count(notices[v], "positive")
  /\ v \notin died => launches[v] + launching = Count(notices[v], "positive")
  /\ answered[v] <= mailed[v]
  /\ mailed[v] + mailing <= Count(notices[v], "warning")

CInv == IInv /\ \A v \in Invoices : Accounted(v)

(* A step of one handler counts it out of where it was and in where it gets. *)
LEMMA AtStep ==
  ASSUME IsFiniteSet(Slots), NEW s \in Slots, NEW v, NEW stages,
         \A t \in Slots \ {s} : on'[t] = on[t] /\ pc'[t] = pc[t]
  PROVE  LET before == on[s] = v /\ pc[s] \in stages
             after == on'[s] = v /\ pc'[s] \in stages
         IN Cardinality(At(v, stages)') = Cardinality(At(v, stages))
              + (IF after THEN 1 ELSE 0) - (IF before THEN 1 ELSE 0)
<1> DEFINE A == At(v, stages)
           rest == A \ {s}
           before == on[s] = v /\ pc[s] \in stages
           after == on'[s] = v /\ pc'[s] \in stages
<1>1. IsFiniteSet(A) /\ Cardinality(A) \in Nat
  BY AtFinite
<1>2. before <=> s \in A
  BY DEF At
<1>3. A' = IF after THEN rest \cup {s} ELSE rest
  BY DEF At
<1>4. IsFiniteSet(rest) /\ Cardinality(rest) = Cardinality(A) - (IF before THEN 1 ELSE 0)
  BY <1>1, <1>2, FS_RemoveElement
<1>5. Cardinality(rest \cup {s}) = Cardinality(rest) + 1
  BY <1>4, FS_AddElement
<1> HIDE DEF A, rest, before, after
<1>6. Cardinality(A') = Cardinality(A) + (IF after THEN 1 ELSE 0) - (IF before THEN 1 ELSE 0)
  BY <1>1, <1>3, <1>4, <1>5
<1> QED BY <1>6 DEF A, before, after

LEMMA InitCounts == ASSUME None \notin Invoices, IsFiniteSet(Slots) PROVE Init => CInv
<1> SUFFICES ASSUME Init PROVE CInv
  OBVIOUS
<1>1. IInv
  BY InitInv
<1>2. ASSUME NEW v \in Invoices PROVE Accounted(v)
  <2>1. \A stages : At(v, stages) = {}
    BY DEF Init, At
  <2>2. \A tone : {n \in DOMAIN notices[v] : notices[v][n] = tone} = {}
    BY DEF Init
  <2>3. /\ Cardinality(At(v, Launching)) = 0
        /\ Cardinality(At(v, {"disputeMail"})) = 0
        /\ Count(notices[v], "positive") = 0
        /\ Count(notices[v], "warning") = 0
    BY <2>1, <2>2, FS_EmptySet DEF Count
  <2> QED BY <2>3 DEF Init, Accounted
<1> QED BY <1>1, <1>2 DEF CInv

(* How one handler's step changes what is counted.                           *)
LEMMA StepCounts ==
  ASSUME None \notin Invoices, IsFiniteSet(Slots), CInv, NEW s \in Slots,
         \/ \E w \in Invoices, d \in {"accept", "dispute"} : ReviewRead(s, w, d)
         \/ Proceed(s),
         NEW v \in Invoices
  PROVE  Accounted(v)'
<1> DEFINE L == Cardinality(At(v, Launching))
           M == Cardinality(At(v, {"disputeMail"}))
           P == Count(notices[v], "positive")
           W == Count(notices[v], "warning")
<1>1. /\ L \in Nat /\ M \in Nat /\ P \in Nat /\ W \in Nat
      /\ mailed[v] \in Nat /\ answered[v] \in Nat /\ launches[v] \in Nat
      /\ confirmed[v] \in BOOLEAN
  BY AtFinite, CountAppend DEF CInv, IInv, TypeOK, Tones
<1>2. \A t \in Slots \ {s} : on'[t] = on[t] /\ pc'[t] = pc[t]
  BY DEF CInv, IInv, TypeOK, Proceed, ReviewRead, AcceptCommit, AcceptMail, AfterAcceptMail, Launch,
         DisputeCommit, DisputeMail, WriteFails, Goto, Finish
<1>3. /\ L' = L + (IF on'[s] = v /\ pc'[s] \in Launching THEN 1 ELSE 0)
                - (IF on[s] = v /\ pc[s] \in Launching THEN 1 ELSE 0)
      /\ M' = M + (IF on'[s] = v /\ pc'[s] = "disputeMail" THEN 1 ELSE 0)
                - (IF on[s] = v /\ pc[s] = "disputeMail" THEN 1 ELSE 0)
  BY <1>2, AtStep
<1>4. /\ confirmed[v] <=> P > 0
      /\ launches[v] + L <= P
      /\ v \notin died => launches[v] + L = P
      /\ answered[v] <= mailed[v]
      /\ mailed[v] + M <= W
  BY DEF CInv, Accounted
<1>5. SUFFICES /\ confirmed'[v] <=> P' > 0
               /\ launches'[v] + L' <= P'
               /\ v \notin died' => launches'[v] + L' = P'
               /\ answered'[v] <= mailed'[v]
               /\ mailed'[v] + M' <= W'
  BY DEF Accounted
<1>6. UNCHANGED notices => P' = P /\ W' = W
  BY DEF Count
<1>7. ASSUME NEW tone \in Tones, Notified(s, tone), on[s] \in Invoices
      PROVE  /\ P' = IF tone = "positive" /\ on[s] = v THEN P + 1 ELSE P
             /\ W' = IF tone = "warning" /\ on[s] = v THEN W + 1 ELSE W
  <2>1. notices[v] \in Seq(Tones) /\ "positive" \in Tones /\ "warning" \in Tones
    BY DEF CInv, IInv, TypeOK, Tones
  <2>2. notices'[v] = IF on[s] = v THEN Append(notices[v], tone) ELSE notices[v]
    BY <1>7 DEF Notified, CInv, IInv, TypeOK
  <2>3. \A u \in Tones : Count(notices[v], u)' = Count(notices'[v], u)
    BY DEF Count
  <2> QED BY <1>7, <2>1, <2>2, <2>3, CountAppend
<1> HIDE DEF L, M, P, W
<1> USE DEF CInv, IInv, TypeOK, Alone, Launching, Goto, Finish, rows, outcomes, history
<1>8. pc[s] = "idle" \/ on[s] \in Invoices
  OBVIOUS
<1>9. CASE \E w \in Invoices, d \in {"accept", "dispute"} : ReviewRead(s, w, d)
  <2>1. /\ UNCHANGED <<notices, confirmed, mailed, answered, launches, died>>
        /\ pc[s] = "idle" /\ pc'[s] \in {"accept", "dispute"}
    BY <1>9 DEF ReviewRead
  <2>2. L' = L /\ M' = M
    BY <1>1, <1>3, <2>1
  <2> QED BY <1>4, <1>6, <2>1, <2>2
<1>10. CASE AcceptCommit(s)
  <2>1. /\ UNCHANGED <<mailed, answered, launches, died>>
        /\ pc[s] = "accept" /\ pc'[s] = "acceptMail" /\ on'[s] = on[s]
        /\ confirmed'[v] = IF on[s] = v THEN TRUE ELSE confirmed[v]
    BY <1>8, <1>10 DEF AcceptCommit
  <2>2. /\ P' = IF on[s] = v THEN P + 1 ELSE P
        /\ W' = W
    BY <1>7, <1>8, <1>10 DEF AcceptCommit, Tones
  <2>3. M' = M /\ L' = IF on[s] = v THEN L + 1 ELSE L
    BY <1>1, <1>3, <2>1
  <2>4. CASE on[s] = v
    BY <1>1, <1>4, <2>1, <2>2, <2>3, <2>4
  <2>5. CASE on[s] # v
    BY <1>1, <1>4, <2>1, <2>2, <2>3, <2>5
  <2> QED BY <2>4, <2>5
<1>11. CASE AcceptMail(s)
  <2>1. /\ UNCHANGED <<notices, confirmed, mailed, answered, launches, died>>
        /\ pc[s] = "acceptMail" /\ pc'[s] = "launch" /\ on'[s] = on[s]
    BY <1>11 DEF AcceptMail, AfterAcceptMail
  <2> QED BY <1>1, <1>3, <1>4, <1>6, <2>1
<1>12. CASE Launch(s)
  <2>1. /\ UNCHANGED <<notices, confirmed, mailed, answered, died>>
        /\ pc[s] = "launch" /\ pc'[s] = "idle"
        /\ launches'[v] = IF on[s] = v THEN launches[v] + 1 ELSE launches[v]
    BY <1>8, <1>12 DEF Launch
  <2> QED BY <1>1, <1>3, <1>4, <1>6, <2>1
<1>13. CASE DisputeCommit(s)
  <2>1. /\ UNCHANGED <<confirmed, mailed, answered, launches, died>>
        /\ pc[s] = "dispute" /\ pc'[s] = "disputeMail" /\ on'[s] = on[s]
    BY <1>13 DEF DisputeCommit
  <2>2. /\ P' = P
        /\ W' = IF on[s] = v THEN W + 1 ELSE W
    BY <1>7, <1>8, <1>13 DEF DisputeCommit, Tones
  <2> QED BY <1>1, <1>3, <1>4, <2>1, <2>2
<1>14. CASE DisputeMail(s)
  <2>1. /\ UNCHANGED <<notices, confirmed, launches, died>>
        /\ pc[s] = "disputeMail" /\ pc'[s] = "idle" /\ on'[s] = None
    BY <1>14 DEF DisputeMail
  <2>2. PICK sent \in BOOLEAN, ok \in BOOLEAN :
          /\ ok => sent
          /\ mailed' = [mailed EXCEPT ![on[s]] = IF sent THEN @ + 1 ELSE @]
          /\ answered' = [answered EXCEPT ![on[s]] = IF ok THEN @ + 1 ELSE @]
    BY <1>14 DEF DisputeMail, Answered
  <2>3. /\ mailed'[v] = IF on[s] = v /\ sent THEN mailed[v] + 1 ELSE mailed[v]
        /\ answered'[v] = IF on[s] = v /\ ok THEN answered[v] + 1 ELSE answered[v]
    BY <1>8, <2>1, <2>2
  <2>4. L' = L /\ M' = IF on[s] = v THEN M - 1 ELSE M
    BY <1>1, <1>3, <1>8, <2>1
  <2>5. CASE on[s] = v
    BY <1>1, <1>4, <1>6, <2>1, <2>2, <2>3, <2>4, <2>5
  <2>6. CASE on[s] # v
    BY <1>1, <1>4, <1>6, <2>1, <2>3, <2>4, <2>6
  <2> QED BY <2>5, <2>6
<1>15. CASE WriteFails(s)
  <2>1. /\ UNCHANGED <<notices, confirmed, mailed, answered, launches, died>>
        /\ pc[s] \in {"accept", "dispute"} /\ pc'[s] = "idle"
    BY <1>15 DEF WriteFails
  <2> QED BY <1>1, <1>3, <1>4, <1>6, <2>1
<1> QED BY <1>9, <1>10, <1>11, <1>12, <1>13, <1>14, <1>15 DEF Proceed

(* A crash empties every slot and marks the invoices it met.                 *)
LEMMA CrashCounts ==
  ASSUME None \notin Invoices, IsFiniteSet(Slots), CInv, Crash, NEW v \in Invoices
  PROVE  Accounted(v)'
<1>1. \A stages : At(v, stages)' = {}
  BY DEF Crash, At
<1>2. Cardinality(At(v, Launching)') = 0 /\ Cardinality(At(v, {"disputeMail"})') = 0
  BY <1>1, FS_EmptySet
<1>3. /\ Cardinality(At(v, Launching)) \in Nat
      /\ Cardinality(At(v, {"disputeMail"})) \in Nat
      /\ mailed[v] \in Nat /\ launches[v] \in Nat
      /\ Count(notices[v], "positive") \in Nat /\ Count(notices[v], "warning") \in Nat
  BY AtFinite, CountAppend DEF CInv, IInv, TypeOK, Tones
<1>4. v \notin died' => v \notin died /\ At(v, Launching) = {}
  BY DEF Crash, At
<1>5. v \notin died' => Cardinality(At(v, Launching)) = 0
  BY <1>4, FS_EmptySet
<1>6. UNCHANGED <<notices, confirmed, mailed, answered, launches>>
  BY DEF Crash, rows, outcomes
<1>7. \A tone : Count(notices[v], tone)' = Count(notices[v], tone)
  BY <1>6 DEF Count
<1>8. Accounted(v)
  BY DEF CInv
<1> QED BY <1>2, <1>3, <1>4, <1>5, <1>6, <1>7, <1>8 DEF Accounted

LEMMA CInvariant == ASSUME None \notin Invoices, IsFiniteSet(Slots) PROVE Spec => []CInv
<1>1. CInv /\ [Next]_revVars => CInv'
  <2> SUFFICES ASSUME CInv, [Next]_revVars PROVE CInv'
    OBVIOUS
  <2>1. IInv'
    BY NextInv DEF CInv
  <2>2. ASSUME NEW v \in Invoices, UNCHANGED revVars PROVE Accounted(v)'
    BY <2>2 DEF CInv, Accounted, Count, At, revVars, rows, outcomes, history
  <2>3. \A v \in Invoices : Accounted(v)'
    BY <2>2, StepCounts, CrashCounts DEF Next
  <2> QED BY <2>1, <2>3 DEF CInv
<1> QED BY <1>1, InitCounts, PTL DEF Spec

(* Launched: every acceptance the business was told of confirms the invoice  *)
(* and is launched by the handler that committed it, unless a crash ends it.  *)
THEOREM Launched == ASSUME None \notin Invoices, IsFiniteSet(Slots)
                    PROVE  Spec => []AcceptanceLaunched
<1>1. CInv => AcceptanceLaunched
  <2> SUFFICES ASSUME CInv, NEW v \in Invoices
               PROVE  /\ confirmed[v] <=> Told(v, "positive") > 0
                      /\ launches[v] <= Told(v, "positive")
                      /\ v \notin died => Told(v, "positive") = launches[v] +
                           Cardinality({s \in Slots : on[s] = v /\ pc[s] \in Launching})
    BY DEF AcceptanceLaunched, Launching
  <2>1. Cardinality(At(v, Launching)) \in Nat /\ launches[v] \in Nat
    BY AtFinite DEF CInv, IInv, TypeOK
  <2>2. Told(v, "positive") = Count(notices[v], "positive") /\ Count(notices[v], "positive") \in Nat
    BY CountAppend DEF Told, Count, CInv, IInv, TypeOK, Tones
  <2>3. Accounted(v)
    BY DEF CInv
  <2> QED BY <2>1, <2>2, <2>3 DEF Accounted, At
<1> QED BY <1>1, CInvariant, PTL

(* Disputed: a dispute answered with success was mailed, and every dispute   *)
(* that was mailed has its notification.                                     *)
THEOREM Disputed == ASSUME None \notin Invoices, IsFiniteSet(Slots)
                    PROVE  Spec => []DisputeTold
<1>1. CInv => DisputeTold
  <2> SUFFICES ASSUME CInv, NEW v \in Invoices
               PROVE  answered[v] <= mailed[v] /\ mailed[v] <= Told(v, "warning")
    BY DEF DisputeTold
  <2>1. /\ Cardinality(At(v, {"disputeMail"})) \in Nat /\ mailed[v] \in Nat
        /\ Count(notices[v], "warning") \in Nat
    BY AtFinite, CountAppend DEF CInv, IInv, TypeOK, Tones
  <2>2. Told(v, "warning") = Count(notices[v], "warning")
    BY DEF Told, Count
  <2> QED BY <2>1, <2>2 DEF CInv, Accounted
<1> QED BY <1>1, CInvariant, PTL

=============================================================================
