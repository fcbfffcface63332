----------------------- MODULE ServiceRequests_proofs -----------------------
(***************************************************************************)
(* Proofs about ServiceRequests for any number of requests, professionals, *)
(* clients and positions, and any clock.                                   *)
(***************************************************************************)
EXTENDS ServiceRequests, FiniteSetTheorems, TLAPS

-----------------------------------------------------------------------------
(* The rows of the interest table.                                         *)

Row == [Professionals -> InterestStatus]

\* Refusing the remaining applicants leaves a row, nobody applied in it, and
\* the same professionals selected.
LEMMA FinalizedRow ==
  ASSUME NEW ints \in Row, NEW final \in {"not_selected", "expired"}
  PROVE  /\ Finalized(ints, final) \in Row
         /\ Having(Finalized(ints, final), "applied") = {}
         /\ Having(Finalized(ints, final), "selected") = Having(ints, "selected")
BY DEF Finalized, Having, Row, InterestStatus

\* What an applicant's row becomes when he is selected.
LEMMA SelectedRow ==
  ASSUME NEW ints \in Row, NEW p \in Professionals, ints[p] = "applied"
  PROVE  LET chosen == [ints EXCEPT ![p] = "selected"] IN
         /\ chosen \in Row
         /\ Having(chosen, "selected") = Having(ints, "selected") \cup {p}
         /\ p \notin Having(ints, "selected")
BY DEF Having, Row, InterestStatus

\* The number of selections is a number, and one more after a selection.
LEMMA SelectedCount ==
  ASSUME NEW ints \in Row
  PROVE  /\ IsFiniteSet(Having(ints, "selected"))
         /\ Cardinality(Having(ints, "selected")) \in Nat
         /\ \A p \in Professionals : p \notin Having(ints, "selected") =>
              Cardinality(Having(ints, "selected") \cup {p})
                = Cardinality(Having(ints, "selected")) + 1
<1>1. IsFiniteSet(Having(ints, "selected"))
  BY RequestAssumption, FS_Subset DEF Having
<1>2. QED
  BY <1>1, FS_CardinalityType, FS_AddElement

\* What a professional has been told is always a set of notices.
LEMMA TellRow ==
  ASSUME NEW row \in [Professionals -> SUBSET Notices], NEW ps,
         NEW notice \in Notices
  PROVE  Tell(row, ps, notice) \in [Professionals -> SUBSET Notices]
BY DEF Tell

\* What an ending gives the interests and the request.
LEMMA EndTypes ==
  ASSUME NEW r \in Requests, NEW n \in Nat
  PROVE  /\ EndStatus(r, n) \in {"filled", "partially_filled", "expired"}
         /\ EndInterest(EndStatus(r, n)) \in {"not_selected", "expired"}
BY DEF EndStatus, EndInterest

-----------------------------------------------------------------------------
(* Types.                                                                  *)

THEOREM TypeCorrect == Spec => []TypeOK
<1>1. Init => TypeOK
  BY RequestAssumption DEF Init, InitTables, TypeOK, NoTime, RequestStatus,
     InterestStatus
<1>2. TypeOK /\ [Next]_vars => TypeOK'
  <2> SUFFICES ASSUME TypeOK, [Next]_vars PROVE TypeOK'
    OBVIOUS
  <2> USE DEF TypeOK
  <2>1. CASE Tick
    BY <2>1 DEF Tick, tables
  <2>2. ASSUME NEW r \in Requests, NEW w \in Windows, Publish(r, w)
        PROVE  TypeOK'
    BY <2>2, RequestAssumption DEF Publish, RequestStatus
  <2>3. ASSUME NEW r \in Requests, NEW p \in Professionals, Apply(r, p)
        PROVE  TypeOK'
    BY <2>3 DEF Apply, InterestStatus
  <2>4. ASSUME NEW r \in Requests, NEW p \in Professionals, Withdraw(r, p)
        PROVE  TypeOK'
    BY <2>4 DEF Withdraw, InterestStatus
  <2>5. ASSUME NEW r \in Requests, NEW p \in Professionals, Select(r, p)
        PROVE  TypeOK'
    <3> DEFINE chosen == [interest[r] EXCEPT ![p] = "selected"]
               full   == Full(r, Cardinality(Having(chosen, "selected")))
               others == IF full THEN Remaining(chosen) ELSE {}
               warned == Tell(told[r], others, "not_selected")
               after  == IF full THEN Finalized(chosen, "not_selected")
                                 ELSE chosen
    <3>1. interest[r] \in Row /\ interest[r][p] = "applied"
      BY <2>5 DEF Select, Row
    <3>2. chosen \in Row
      BY <3>1, SelectedRow
    <3>3. after \in Row
      BY <3>2, FinalizedRow
    <3>4. warned \in [Professionals -> SUBSET Notices]
      BY TellRow DEF Notices
    <3>5. Tell(warned, {p}, "selected") \in [Professionals -> SUBSET Notices]
      BY <3>4, TellRow DEF Notices
    <3>6. interest' = [interest EXCEPT ![r] = after]
      BY <2>5 DEF Select
    <3>7. interest' \in [Requests -> [Professionals -> InterestStatus]]
      BY <3>3, <3>6 DEF Row
    <3>8. UNCHANGED <<now, publishedAt, expiresAt>>
      BY <2>5 DEF Select
    <3>9. CASE SaveRefused(r)
      <4>1. /\ told' = [told EXCEPT ![r] = warned]
            /\ cut' = cut \cup {r}
            /\ UNCHANGED <<status, closedAt, conversation>>
        BY <2>5, <3>9 DEF Select
      <4> HIDE DEF warned
      <4>2. QED
        BY <3>4, <3>7, <3>8, <4>1
    <3>10. CASE ~SaveRefused(r)
      <4>1. /\ told' = [told EXCEPT ![r] = Tell(warned, {p}, "selected")]
            /\ status' = [status EXCEPT ![r] =
                            IF full THEN "filled" ELSE "partially_filled"]
            /\ closedAt' = [closedAt EXCEPT ![r] = IF full THEN now ELSE @]
            /\ conversation' = [conversation EXCEPT ![r] = @ \cup {p}]
            /\ UNCHANGED cut
        BY <2>5, <3>10 DEF Select
      <4> HIDE DEF warned, full
      <4>2. (IF full THEN "filled" ELSE "partially_filled") \in RequestStatus
        BY DEF RequestStatus
      <4>3. (IF full THEN now ELSE closedAt[r]) \in Nat
        OBVIOUS
      <4>4. conversation[r] \cup {p} \in SUBSET Professionals
        OBVIOUS
      <4>5. conversation' \in [Requests -> SUBSET Professionals]
        BY <4>1, <4>4
      <4>6. told' \in [Requests -> [Professionals -> SUBSET Notices]]
        BY <3>5, <4>1
      <4>7. /\ status' \in [Requests -> RequestStatus]
            /\ closedAt' \in [Requests -> Nat]
            /\ cut' \subseteq Requests
        BY <4>1, <4>2, <4>3
      <4>8. QED
        BY <3>7, <3>8, <4>5, <4>6, <4>7
    <3>11. QED
      BY <3>9, <3>10
  <2>6. ASSUME NEW R \in SUBSET Requests, EndRequests(R)
        PROVE  TypeOK'
    <3>1. \A r \in Requests :
             /\ EndStatus(r, Cardinality(Selected(r))) \in RequestStatus
             /\ EndInterest(EndStatus(r, Cardinality(Selected(r))))
                  \in {"not_selected", "expired"}
      BY SelectedCount, EndTypes DEF Selected, Row, RequestStatus
    <3>2. interest' \in [Requests -> [Professionals -> InterestStatus]]
      BY <2>6, <3>1, FinalizedRow DEF EndRequests, Row
    <3>3. told' \in [Requests -> [Professionals -> SUBSET Notices]]
      BY <2>6, <3>1, TellRow DEF EndRequests, Notices
    <3>4. QED
      BY <2>6, <3>1, <3>2, <3>3 DEF EndRequests
  <2>7. ASSUME NEW r \in Requests, Cancel(r)
        PROVE  TypeOK'
    <3>1. Finalized(interest[r], "expired") \in [Professionals -> InterestStatus]
      BY FinalizedRow DEF Row
    <3>2. Tell(told[r], Remaining(interest[r]), "cancelled")
            \in [Professionals -> SUBSET Notices]
      BY TellRow DEF Notices
    <3>3. QED
      BY <2>7, <3>1, <3>2 DEF Cancel, RequestStatus
  <2>8. CASE UNCHANGED vars
    BY <2>8 DEF vars, tables
  <2>9. QED
    BY <2>1, <2>2, <2>3, <2>4, <2>5, <2>6, <2>7, <2>8 DEF Next, Sweep, Close
<1>3. QED
  BY <1>1, <1>2, PTL DEF Spec

-----------------------------------------------------------------------------
(* What a step does to one request.                                        *)

\* Neither who may chat nor whether a selection was cut short changes.
SameChats(q) == conversation'[q] = conversation[q] /\ (q \in cut' <=> q \in cut)

Untouched(q) ==
  status'[q] = status[q] /\ interest'[q] = interest[q] /\ SameChats(q)

NewlyPublished(q) ==
  /\ status[q] = "none" /\ status'[q] = "open"
  /\ interest'[q] = interest[q] /\ SameChats(q)

ApplicantMoved(q) ==
  /\ Receiving(q) /\ status'[q] = status[q] /\ SameChats(q)
  /\ \E p \in Professionals :
       \/ /\ interest[q][p] = "none"
          /\ interest'[q] = [interest[q] EXCEPT ![p] = "applied"]
       \/ /\ interest[q][p] = "applied"
          /\ interest'[q] = [interest[q] EXCEPT ![p] = "withdrawn"]

ApplicantSelected(q, p, chosen, full) ==
  /\ Receiving(q) /\ interest[q][p] = "applied"
  /\ chosen = [interest[q] EXCEPT ![p] = "selected"]
  /\ full <=> Cardinality(Having(chosen, "selected")) >= Positions[q]
  /\ full => interest'[q] = Finalized(chosen, "not_selected")
  /\ ~full => interest'[q] = chosen
  /\ \/ q \in cut' /\ UNCHANGED <<status, conversation>>
     \/ /\ q \in cut' <=> q \in cut
        /\ full => status'[q] = "filled"
        /\ ~full => status'[q] = "partially_filled"
        /\ conversation'[q] = conversation[q] \cup {p}

ApplicantsRefused(q) ==
  /\ \E final \in {"not_selected", "expired"} :
       interest'[q] = Finalized(interest[q], final)
  /\ SameChats(q)
  /\ \/ Receiving(q) /\ status'[q] = status[q]
     \/ /\ Receiving(q)
        /\ status'[q] = EndStatus(q, Cardinality(Selected(q)))
     \/ status[q] # "none" /\ status'[q] = "cancelled"

RequestStep(q) ==
  \/ Untouched(q) \/ NewlyPublished(q) \/ ApplicantMoved(q)
  \/ \E p \in Professionals : \E chosen \in Row, full \in BOOLEAN :
       ApplicantSelected(q, p, chosen, full)
  \/ ApplicantsRefused(q)

\* Every step of the app does one of these to every request.
LEMMA StepOfRequest ==
  ASSUME TypeOK, [Next]_vars, NEW q \in Requests
  PROVE  RequestStep(q)
<1> USE DEF TypeOK
<1>1. CASE Tick
  BY <1>1 DEF Tick, tables, RequestStep, Untouched, SameChats
<1>2. ASSUME NEW r \in Requests, NEW w \in Windows, Publish(r, w)
      PROVE  RequestStep(q)
  BY <1>2 DEF Publish, RequestStep, Untouched, NewlyPublished, SameChats
<1>3. ASSUME NEW r \in Requests, NEW p \in Professionals, Apply(r, p)
      PROVE  RequestStep(q)
  <2>1. CASE q = r
    BY <1>3, <2>1 DEF Apply, RequestStep, ApplicantMoved, SameChats
  <2>2. CASE q # r
    BY <1>3, <2>2 DEF Apply, RequestStep, Untouched, SameChats
  <2>3. QED
    BY <2>1, <2>2
<1>4. ASSUME NEW r \in Requests, NEW p \in Professionals, Withdraw(r, p)
      PROVE  RequestStep(q)
  <2>1. CASE q = r
    BY <1>4, <2>1 DEF Withdraw, RequestStep, ApplicantMoved, SameChats
  <2>2. CASE q # r
    BY <1>4, <2>2 DEF Withdraw, RequestStep, Untouched, SameChats
  <2>3. QED
    BY <2>1, <2>2
<1>5. ASSUME NEW r \in Requests, NEW p \in Professionals, Select(r, p)
      PROVE  RequestStep(q)
  <2>1. CASE q # r
    BY <1>5, <2>1 DEF Select, RequestStep, Untouched, SameChats
  <2>2. CASE q = r
    <3> DEFINE chosen == [interest[r] EXCEPT ![p] = "selected"]
               full   == Full(r, Cardinality(Having(chosen, "selected")))
    <3>1. chosen \in Row /\ full \in BOOLEAN
      BY <1>5, SelectedRow DEF Select, Row, Full
    <3>2. /\ Receiving(r) /\ interest[r][p] = "applied"
          /\ full => interest'[r] = Finalized(chosen, "not_selected")
          /\ ~full => interest'[r] = chosen
      BY <1>5 DEF Select
    <3>3. full <=> Cardinality(Having(chosen, "selected")) >= Positions[r]
      BY DEF Full
    <3>4. CASE SaveRefused(r)
      <4>1. r \in cut' /\ UNCHANGED <<status, conversation>>
        BY <1>5, <3>4 DEF Select
      <4>2. ApplicantSelected(r, p, chosen, full)
        BY <3>2, <3>3, <4>1 DEF ApplicantSelected
      <4>3. QED
        BY <2>2, <3>1, <4>2 DEF RequestStep
    <3>5. CASE ~SaveRefused(r)
      <4>1. /\ cut' = cut
            /\ status'[r] = IF full THEN "filled" ELSE "partially_filled"
            /\ conversation'[r] = conversation[r] \cup {p}
        BY <1>5, <3>5 DEF Select
      <4>2. ApplicantSelected(r, p, chosen, full)
        BY <3>2, <3>3, <4>1 DEF ApplicantSelected
      <4>3. QED
        BY <2>2, <3>1, <4>2 DEF RequestStep
    <3>6. QED
      BY <3>4, <3>5
  <2>3. QED
    BY <2>1, <2>2
<1>6. ASSUME NEW R \in SUBSET Requests, EndRequests(R),
             \A r \in R : Receiving(r)
      PROVE  RequestStep(q)
  <2>1. CASE q \notin R
    BY <1>6, <2>1 DEF EndRequests, RequestStep, Untouched, SameChats
  <2>2. CASE q \in R
    <3>1. EndInterest(EndStatus(q, Cardinality(Selected(q))))
            \in {"not_selected", "expired"}
      BY DEF EndInterest
    <3>2. interest'[q] = Finalized(interest[q],
                           EndInterest(EndStatus(q, Cardinality(Selected(q)))))
      BY <1>6, <2>2 DEF EndRequests
    <3>3. SameChats(q)
      BY <1>6 DEF EndRequests, SameChats
    <3>4. \/ status'[q] = status[q]
          \/ status'[q] = EndStatus(q, Cardinality(Selected(q)))
      BY <1>6 DEF EndRequests
    <3>5. ApplicantsRefused(q)
      BY <1>6, <2>2, <3>1, <3>2, <3>3, <3>4 DEF ApplicantsRefused
    <3>6. QED
      BY <3>5 DEF RequestStep
  <2>3. QED
    BY <2>1, <2>2
<1>7. ASSUME NEW r \in Requests, Cancel(r)
      PROVE  RequestStep(q)
  <2>1. CASE q = r
    BY <1>7, <2>1 DEF Cancel, RequestStep, ApplicantsRefused, SameChats
  <2>2. CASE q # r
    BY <1>7, <2>2 DEF Cancel, RequestStep, Untouched, SameChats
  <2>3. QED
    BY <2>1, <2>2
<1>8. CASE UNCHANGED vars
  BY <1>8 DEF vars, tables, RequestStep, Untouched, SameChats
<1>9. ASSUME NEW R \in SUBSET Requests, ReachedBySweep(R)
      PROVE  \A r \in R : Receiving(r)
  BY <1>9 DEF ReachedBySweep, Due
<1>10. QED
  BY <1>1, <1>2, <1>3, <1>4, <1>5, <1>6, <1>7, <1>8, <1>9
  DEF Next, Sweep, Close

-----------------------------------------------------------------------------
(* The invariants.                                                         *)

\* Once a request takes no more selections, nobody is left waiting.
THEOREM NobodyLeftWaiting == Spec => []ApplicantsAnswered
<1>1. Init => ApplicantsAnswered
  BY DEF Init, InitTables, ApplicantsAnswered, Having
<1>2. TypeOK /\ ApplicantsAnswered /\ [Next]_vars => ApplicantsAnswered'
  <2> SUFFICES ASSUME TypeOK, ApplicantsAnswered, [Next]_vars,
                      NEW q \in Requests,
                      Having(interest'[q], "applied") # {}
               PROVE  status'[q] \in ReceivingStatus
    BY DEF ApplicantsAnswered, Receiving
  <2>1. interest[q] \in Row
    BY DEF TypeOK, Row
  <2>2. RequestStep(q)
    BY StepOfRequest
  <2>3. CASE Untouched(q) \/ NewlyPublished(q) \/ ApplicantMoved(q)
    BY <2>3 DEF Untouched, NewlyPublished, ApplicantMoved, ApplicantsAnswered,
       Receiving, ReceivingStatus
  <2>4. ASSUME NEW p \in Professionals, NEW chosen \in Row,
               NEW full \in BOOLEAN, ApplicantSelected(q, p, chosen, full)
        PROVE  status'[q] \in ReceivingStatus
    BY <2>4, FinalizedRow DEF ApplicantSelected, Receiving, ReceivingStatus
  <2>5. CASE ApplicantsRefused(q)
    BY <2>1, <2>5, FinalizedRow DEF ApplicantsRefused
  <2>6. QED
    BY <2>2, <2>3, <2>4, <2>5 DEF RequestStep
<1>3. QED
  BY <1>1, <1>2, TypeCorrect, PTL DEF Spec

\* Who may chat about a request is who was selected for it, unless one of its
\* selections was cut short.
THEOREM ChatsMatchSelections == Spec => []ConversationsMatchSelection
<1>1. Init => ConversationsMatchSelection
  BY DEF Init, InitTables, ConversationsMatchSelection, Selected, Having
<1>2. TypeOK /\ ConversationsMatchSelection /\ [Next]_vars
        => ConversationsMatchSelection'
  <2> SUFFICES ASSUME TypeOK, ConversationsMatchSelection, [Next]_vars,
                      NEW q \in Requests
               PROVE  /\ conversation'[q] \subseteq Having(interest'[q], "selected")
                      /\ q \notin cut' =>
                           conversation'[q] = Having(interest'[q], "selected")
    BY DEF ConversationsMatchSelection, Selected
  <2>1. interest[q] \in Row
    BY DEF TypeOK, Row
  <2>2. RequestStep(q)
    BY StepOfRequest
  <2>3. /\ conversation[q] \subseteq Having(interest[q], "selected")
        /\ q \notin cut => conversation[q] = Having(interest[q], "selected")
    BY DEF ConversationsMatchSelection, Selected
  <2>4. CASE Untouched(q) \/ NewlyPublished(q)
    BY <2>3, <2>4 DEF Untouched, NewlyPublished, SameChats
  <2>5. CASE ApplicantMoved(q)
    <3>1. Having(interest'[q], "selected") = Having(interest[q], "selected")
      BY <2>1, <2>5 DEF ApplicantMoved, Having, Row
    <3>2. QED
      BY <2>3, <2>5, <3>1 DEF ApplicantMoved, SameChats
  <2>6. ASSUME NEW p \in Professionals, NEW chosen \in Row,
               NEW full \in BOOLEAN, ApplicantSelected(q, p, chosen, full)
        PROVE  /\ conversation'[q] \subseteq Having(interest'[q], "selected")
               /\ q \notin cut' =>
                    conversation'[q] = Having(interest'[q], "selected")
    <3>1. Having(interest'[q], "selected")
            = Having(interest[q], "selected") \cup {p}
      <4>1. Having(chosen, "selected")
              = Having(interest[q], "selected") \cup {p}
        BY <2>1, <2>6, SelectedRow DEF ApplicantSelected
      <4>2. Having(interest'[q], "selected") = Having(chosen, "selected")
        <5>1. CASE full
          BY <2>6, <5>1, FinalizedRow DEF ApplicantSelected
        <5>2. CASE ~full
          BY <2>6, <5>2 DEF ApplicantSelected
        <5>3. QED
          BY <5>1, <5>2
      <4>3. QED
        BY <4>1, <4>2
    <3>2. QED
      BY <2>3, <2>6, <3>1 DEF ApplicantSelected
  <2>7. CASE ApplicantsRefused(q)
    BY <2>1, <2>3, <2>7, FinalizedRow DEF ApplicantsRefused, SameChats
  <2>8. QED
    BY <2>2, <2>4, <2>5, <2>6, <2>7 DEF RequestStep
<1>3. QED
  BY <1>1, <1>2, TypeCorrect, PTL DEF Spec

\* The status of a request says how many were selected for it, never more
\* than the positions asked for, unless a selection was cut short.
THEOREM StatusTellsSelections == Spec => []StatusMatchesSelection
<1> DEFINE Matches(s, n, m) ==
             /\ s \in {"none", "open", "expired"} => n = 0
             /\ s = "partially_filled" => n > 0 /\ n < m
             /\ s = "filled" => n = m
             /\ n <= m
<1>1. Init => StatusMatchesSelection
  <2> SUFFICES ASSUME Init, NEW q \in Requests
               PROVE  Matches(status[q], Cardinality(Selected(q)), Positions[q])
    BY DEF StatusMatchesSelection
  <2>1. Selected(q) = {}
    BY DEF Init, InitTables, Selected, Having
  <2>2. Cardinality(Selected(q)) = 0
    BY <2>1, FS_EmptySet
  <2>3. QED
    BY <2>2, RequestAssumption DEF Init, InitTables
<1>2. TypeOK /\ StatusMatchesSelection /\ [Next]_vars
        => StatusMatchesSelection'
  <2> SUFFICES ASSUME TypeOK, StatusMatchesSelection, [Next]_vars,
                      NEW q \in Requests, q \notin cut'
               PROVE  Matches(status'[q],
                        Cardinality(Having(interest'[q], "selected")),
                        Positions[q])
    BY DEF StatusMatchesSelection, Selected
  <2> DEFINE n == Cardinality(Having(interest[q], "selected"))
  <2>1. interest[q] \in Row /\ Positions[q] \in Nat \ {0}
    BY RequestAssumption DEF TypeOK, Row
  <2>2. n \in Nat
    BY <2>1, SelectedCount
  <2>3. RequestStep(q)
    BY StepOfRequest
  <2>4. q \notin cut => Matches(status[q], n, Positions[q])
    BY DEF StatusMatchesSelection, Selected
  <2>5. CASE Untouched(q) \/ NewlyPublished(q)
    BY <2>1, <2>2, <2>4, <2>5 DEF Untouched, NewlyPublished, SameChats
  <2>6. CASE ApplicantMoved(q)
    <3>1. Having(interest'[q], "selected") = Having(interest[q], "selected")
      BY <2>1, <2>6 DEF ApplicantMoved, Having, Row
    <3>2. QED
      BY <2>4, <2>6, <3>1 DEF ApplicantMoved, SameChats
  <2>7. ASSUME NEW p \in Professionals, NEW chosen \in Row,
               NEW full \in BOOLEAN, ApplicantSelected(q, p, chosen, full)
        PROVE  Matches(status'[q],
                 Cardinality(Having(interest'[q], "selected")), Positions[q])
    <3>1. /\ Having(chosen, "selected")
               = Having(interest[q], "selected") \cup {p}
          /\ p \notin Having(interest[q], "selected")
      BY <2>1, <2>7, SelectedRow DEF ApplicantSelected
    <3>2. Cardinality(Having(chosen, "selected")) = n + 1
      BY <2>1, <3>1, SelectedCount
    <3>3. n < Positions[q]
      BY <2>1, <2>2, <2>4, <2>7 DEF ApplicantSelected, Receiving, ReceivingStatus
    <3>4. CASE full
      <4>1. Cardinality(Having(interest'[q], "selected")) = n + 1
        BY <2>7, <3>2, <3>4, FinalizedRow DEF ApplicantSelected
      <4>2. n + 1 = Positions[q] /\ status'[q] = "filled"
        BY <2>1, <2>2, <2>7, <3>2, <3>3, <3>4 DEF ApplicantSelected
      <4>3. QED
        BY <2>2, <4>1, <4>2
    <3>5. CASE ~full
      <4>1. Cardinality(Having(interest'[q], "selected")) = n + 1
        BY <2>7, <3>2, <3>5 DEF ApplicantSelected
      <4>2. n + 1 < Positions[q] /\ status'[q] = "partially_filled"
        BY <2>1, <2>2, <2>7, <3>2, <3>3, <3>5 DEF ApplicantSelected
      <4> HIDE DEF n
      <4>3. QED
        BY <2>1, <2>2, <4>1, <4>2
    <3>6. QED
      BY <3>4, <3>5
  <2>8. CASE ApplicantsRefused(q)
    <3>1. Having(interest'[q], "selected") = Having(interest[q], "selected")
      BY <2>1, <2>8, FinalizedRow DEF ApplicantsRefused
    <3>2. Matches(status[q], n, Positions[q])
      BY <2>4, <2>8 DEF ApplicantsRefused, SameChats
    <3>3. \/ status'[q] = status[q]
          \/ status'[q] = EndStatus(q, n)
          \/ status'[q] = "cancelled"
      BY <2>8 DEF ApplicantsRefused, Selected
    <3>4. QED
      BY <2>1, <2>2, <3>1, <3>2, <3>3 DEF EndStatus, Full
  <2>9. QED
    BY <2>3, <2>5, <2>6, <2>7, <2>8 DEF RequestStep
<1>3. QED
  BY <1>1, <1>2, TypeCorrect, PTL DEF Spec

\* The answer an interest in r shows was notified, unless r is in C.
Announced(i, notices, r, C) ==
  /\ i = "not_selected" => "not_selected" \in notices
  /\ i = "expired" => notices \cap {"expired", "cancelled"} # {}
  /\ i = "selected" /\ r \notin C => "selected" \in notices

\* A notice more takes no answer back, and a bulk refusal is announced by the
\* notice that goes with it.
LEMMA TellsMore ==
  ASSUME NEW row \in [Professionals -> SUBSET Notices], NEW ps, NEW notice,
         NEW p \in Professionals
  PROVE  /\ row[p] \subseteq Tell(row, ps, notice)[p]
         /\ p \in ps => notice \in Tell(row, ps, notice)[p]
BY DEF Tell

LEMMA RefusalAnnounced ==
  ASSUME NEW ints \in Row, NEW row \in [Professionals -> SUBSET Notices],
         NEW final \in {"not_selected", "expired"}, NEW notice \in Notices,
         \/ notice = final
         \/ final = "expired" /\ notice = "cancelled",
         NEW p \in Professionals, NEW r, NEW C,
         Announced(ints[p], row[p], r, C)
  PROVE  Announced(Finalized(ints, final)[p],
                   Tell(row, Remaining(ints), notice)[p], r, C)
<1>1. row[p] \subseteq Tell(row, Remaining(ints), notice)[p]
  BY TellsMore
<1>2. CASE ints[p] = "applied"
  <2>1. notice \in Tell(row, Remaining(ints), notice)[p]
    BY <1>2, TellsMore DEF Remaining, Having
  <2>2. Finalized(ints, final)[p] = final
    BY <1>2 DEF Finalized
  <2>3. QED
    BY <2>1, <2>2 DEF Announced
<1>3. CASE ints[p] # "applied"
  <2>1. Finalized(ints, final)[p] = ints[p]
    BY <1>3 DEF Finalized
  <2>2. QED
    BY <1>1, <2>1 DEF Announced
<1>4. QED
  BY <1>2, <1>3

\* Every answer in the tables was notified, with the notice that goes with it,
\* unless a selection on the request was cut short.
THEOREM AnswersTold == Spec => []AnswersAreTold
<1>1. Init => AnswersAreTold
  BY DEF Init, InitTables, AnswersAreTold
<1>2. TypeOK /\ AnswersAreTold /\ [Next]_vars => AnswersAreTold'
  <2> SUFFICES ASSUME TypeOK, AnswersAreTold, [Next]_vars,
                      NEW q \in Requests, NEW p \in Professionals
               PROVE  Announced(interest'[q][p], told'[q][p], q, cut')
    BY DEF AnswersAreTold, Announced
  <2>1. Announced(interest[q][p], told[q][p], q, cut)
    BY DEF AnswersAreTold, Announced
  <2>2. /\ interest[q] \in Row /\ told[q] \in [Professionals -> SUBSET Notices]
        /\ \A r \in Requests : interest[r] \in Row
      BY DEF TypeOK, Row
  <2>3. CASE Tick \/ UNCHANGED vars
    BY <2>1, <2>3 DEF Tick, vars, tables
  <2>4. ASSUME NEW r \in Requests, NEW w \in Windows, Publish(r, w)
        PROVE  Announced(interest'[q][p], told'[q][p], q, cut')
    BY <2>1, <2>4 DEF Publish
  <2>5. ASSUME NEW r \in Requests, NEW v \in Professionals,
               Apply(r, v) \/ Withdraw(r, v)
        PROVE  Announced(interest'[q][p], told'[q][p], q, cut')
    <3>1. told' = told /\ cut' = cut
      BY <2>5 DEF Apply, Withdraw
    <3>2. interest'[q][p] \in {interest[q][p], "applied", "withdrawn"}
      <4>1. \/ interest' = [interest EXCEPT ![r][v] = "applied"]
            \/ interest' = [interest EXCEPT ![r][v] = "withdrawn"]
        BY <2>5 DEF Apply, Withdraw
      <4>2. interest[r] \in Row /\ interest \in [Requests -> Row]
        BY DEF TypeOK, Row
      <4>3. CASE q = r
        BY <4>1, <4>2, <4>3 DEF Row
      <4>4. CASE q # r
        BY <4>1, <4>2, <4>4
      <4>5. QED
        BY <4>3, <4>4
    <3>3. QED
      BY <2>1, <3>1, <3>2 DEF Announced
  <2>6. ASSUME NEW r \in Requests, NEW v \in Professionals, Select(r, v)
        PROVE  Announced(interest'[q][p], told'[q][p], q, cut')
    <3>1. CASE q # r
      <4>1. /\ interest'[q] = interest[q] /\ told'[q] = told[q]
            /\ q \in cut => q \in cut'
        BY <2>6, <3>1 DEF Select, TypeOK
      <4>2. QED
        BY <2>1, <4>1 DEF Announced
    <3>2. CASE q = r
      <4> DEFINE chosen == [interest[q] EXCEPT ![v] = "selected"]
                 full   == Full(q, Cardinality(Having(chosen, "selected")))
                 others == IF full THEN Remaining(chosen) ELSE {}
                 warned == Tell(told[q], others, "not_selected")
                 after  == IF full THEN Finalized(chosen, "not_selected")
                                   ELSE chosen
      <4>1. interest[q][v] = "applied" /\ chosen \in Row
        BY <2>2, <2>6, <3>2, SelectedRow DEF Select
      <4>2. interest'[q] = after
        BY <2>6, <3>2 DEF Select, TypeOK
      <4>3. warned \in [Professionals -> SUBSET Notices]
        BY <2>2, TellRow DEF Notices
      <4>4. Announced(chosen[p], told[q][p], q, {q})
        BY <2>1, <2>2, <4>1 DEF Announced, Row
      <4>5. p # v => Announced(chosen[p], told[q][p], q, cut)
        BY <2>1, <2>2, <4>1 DEF Announced, Row
      <4>6. ASSUME NEW C, Announced(chosen[p], told[q][p], q, C)
            PROVE  Announced(after[p], warned[p], q, C)
        <5>1. CASE full
          BY <2>2, <4>1, <4>6, <5>1, RefusalAnnounced DEF Notices
        <5>2. CASE ~full
          BY <2>2, <4>6, <5>2, TellsMore DEF Announced
        <5>3. QED
          BY <5>1, <5>2
      <4>7. after[v] = "selected"
        BY <2>2, <4>1 DEF Finalized, Row
      <4> HIDE DEF warned, after, chosen
      <4>8. CASE SaveRefused(r)
        <5>1. told'[q] = warned /\ q \in cut'
          BY <2>6, <3>2, <4>8 DEF Select, TypeOK, warned, others, full, chosen
        <5>2. QED
          BY <4>2, <4>4, <4>6, <5>1 DEF Announced
      <4>9. CASE ~SaveRefused(r)
        <5>1. told'[q] = Tell(warned, {v}, "selected") /\ cut' = cut
          BY <2>6, <3>2, <4>9 DEF Select, TypeOK, warned, others, full, chosen
        <5>2. CASE p = v
          <6>1. "selected" \in told'[q][p]
            BY <4>3, <5>1, <5>2, TellsMore
          <6>2. QED
            BY <4>2, <4>7, <5>2, <6>1 DEF Announced
        <5>3. CASE p # v
          <6>1. Announced(after[p], warned[p], q, cut)
            BY <4>5, <4>6, <5>3
          <6>2. warned[p] \subseteq told'[q][p]
            BY <4>3, <5>1, TellsMore
          <6>3. QED
            BY <4>2, <5>1, <6>1, <6>2 DEF Announced
        <5>4. QED
          BY <5>2, <5>3
      <4>10. QED
        BY <4>8, <4>9
    <3>3. QED
      BY <3>1, <3>2
  <2>7. ASSUME NEW R \in SUBSET Requests, EndRequests(R)
        PROVE  Announced(interest'[q][p], told'[q][p], q, cut')
    <3> DEFINE last == EndInterest(EndStatus(q, Cardinality(Selected(q))))
    <3>1. last \in {"not_selected", "expired"} /\ last \in Notices
      BY DEF EndInterest, Notices
    <3>2. cut' = cut
      BY <2>7 DEF EndRequests
    <3>3. CASE q \in R
      <4>1. /\ interest'[q] = Finalized(interest[q], last)
            /\ told'[q] = Tell(told[q], Remaining(interest[q]), last)
        BY <2>7, <3>3 DEF EndRequests
      <4> HIDE DEF last
      <4>2. QED
        BY <2>1, <2>2, <3>1, <3>2, <4>1, RefusalAnnounced
    <3>4. CASE q \notin R
      BY <2>1, <2>7, <3>2, <3>4 DEF EndRequests
    <3>5. QED
      BY <3>3, <3>4
  <2>8. ASSUME NEW r \in Requests, Cancel(r)
        PROVE  Announced(interest'[q][p], told'[q][p], q, cut')
    <3>1. cut' = cut
      BY <2>8 DEF Cancel
    <3>2. CASE q = r
      <4>1. /\ interest'[q] = Finalized(interest[q], "expired")
            /\ told'[q] = Tell(told[q], Remaining(interest[q]), "cancelled")
        BY <2>8, <3>2 DEF Cancel, TypeOK
      <4>2. QED
        BY <2>1, <2>2, <3>1, <4>1, RefusalAnnounced DEF Notices
    <3>3. CASE q # r
      BY <2>1, <2>8, <3>1, <3>3 DEF Cancel, TypeOK
    <3>4. QED
      BY <3>2, <3>3
  <2>9. QED
    BY <2>3, <2>4, <2>5, <2>6, <2>7, <2>8 DEF Next, Sweep, Close
<1>3. QED
  BY <1>1, <1>2, TypeCorrect, PTL DEF Spec

\* Two receiving requests of one client in one category are never closer in
\* time than the window of the duplicate check.
THEOREM NoTwins == Spec => []NoRecentTwins
<1>1. Init => NoRecentTwins
  BY DEF Init, InitTables, NoRecentTwins, Receiving, ReceivingStatus
<1>2. TypeOK /\ NoRecentTwins /\ [Next]_vars => NoRecentTwins'
  <2> SUFFICES ASSUME TypeOK, NoRecentTwins, [Next]_vars PROVE NoRecentTwins'
    OBVIOUS
  <2> DEFINE Kept == /\ publishedAt' = publishedAt
                     /\ \A r \in Requests :
                          status'[r] \in ReceivingStatus => Receiving(r)
  <2>1. ASSUME Kept PROVE NoRecentTwins'
    BY <2>1 DEF NoRecentTwins, Receiving
  <2>2. CASE Tick \/ UNCHANGED vars
    BY <2>1, <2>2 DEF Tick, vars, tables, Receiving
  <2>3. ASSUME NEW r \in Requests, NEW w \in Windows, Publish(r, w)
        PROVE  NoRecentTwins'
    <3>1. \A q \in Requests :
            /\ q # r /\ ClientOf[q] = ClientOf[r]
            /\ CategoryOf[q] = CategoryOf[r] /\ Receiving(q)
            => now > publishedAt[q] + DuplicateWindow
      BY <2>3, RequestAssumption DEF Publish, SaveRefused, Duplicate, TypeOK
    <3>2. publishedAt'[r] = now
      BY <2>3 DEF Publish, TypeOK
    <3>3. \A q \in Requests : q # r =>
            publishedAt'[q] = publishedAt[q] /\ status'[q] = status[q]
      BY <2>3 DEF Publish, TypeOK
    <3>4. QED
      BY <3>1, <3>2, <3>3 DEF NoRecentTwins, Receiving
  <2>4. ASSUME NEW r \in Requests, NEW p \in Professionals,
               Apply(r, p) \/ Withdraw(r, p)
        PROVE  NoRecentTwins'
    BY <2>1, <2>4 DEF Apply, Withdraw, Receiving
  <2>5. ASSUME NEW r \in Requests, NEW p \in Professionals, Select(r, p)
        PROVE  NoRecentTwins'
    <3>1. /\ Receiving(r) /\ publishedAt' = publishedAt
          /\ \A q \in Requests : q # r => status'[q] = status[q]
      BY <2>5 DEF Select, TypeOK
    <3>2. QED
      BY <2>1, <3>1 DEF Receiving
  <2>6. ASSUME NEW R \in SUBSET Requests, EndRequests(R),
               \A r \in R : Receiving(r)
        PROVE  NoRecentTwins'
    <3>1. /\ publishedAt' = publishedAt
          /\ \A q \in Requests : q \notin R => status'[q] = status[q]
      BY <2>6 DEF EndRequests
    <3>2. QED
      BY <2>1, <2>6, <3>1 DEF Receiving
  <2>7. ASSUME NEW r \in Requests, Cancel(r)
        PROVE  NoRecentTwins'
    BY <2>1, <2>7 DEF Cancel, TypeOK, Receiving, ReceivingStatus
  <2>8. ASSUME NEW R \in SUBSET Requests, ReachedBySweep(R)
        PROVE  \A r \in R : Receiving(r)
    BY <2>8 DEF ReachedBySweep, Due
  <2> HIDE DEF Kept
  <2>9. QED
    BY <2>2, <2>3, <2>4, <2>5, <2>6, <2>7, <2>8 DEF Next, Sweep, Close
<1>3. QED
  BY <1>1, <1>2, TypeCorrect, PTL DEF Spec

-----------------------------------------------------------------------------
(* The app implements Recruitment.                                         *)

\* In the eyes of the users, a bulk UPDATE refuses those still applied and
\* nobody else, and does nothing where nobody is.
LEMMA FinalizedAnswers ==
  ASSUME NEW ints \in Row, NEW final \in {"not_selected", "expired"}
  PROVE  /\ AnswersOf(Finalized(ints, final))
              = Promise!Refused(AnswersOf(ints))
         /\ Having(ints, "applied") = {} => Finalized(ints, final) = ints
<1>1. \A p \in Professionals :
         AnswerOf(Finalized(ints, final)[p])
           = IF AnswerOf(ints[p]) = "applied" THEN "refused"
                                              ELSE AnswerOf(ints[p])
  BY DEF Finalized, AnswerOf, Row, InterestStatus
<1>2. AnswersOf(Finalized(ints, final)) = Promise!Refused(AnswersOf(ints))
  BY <1>1 DEF AnswersOf, Promise!Refused
<1>3. Having(ints, "applied") = {} => Finalized(ints, final) = ints
  BY DEF Having, Finalized, Row
<1>4. QED
  BY <1>2, <1>3

\* In the eyes of the users, a new status of p's interest is a new answer to p.
LEMMA MovedAnswers ==
  ASSUME NEW ints \in Row, NEW p \in Professionals, NEW i \in InterestStatus
  PROVE  AnswersOf([ints EXCEPT ![p] = i])
           = [AnswersOf(ints) EXCEPT ![p] = AnswerOf(i)]
BY DEF AnswersOf, Row

LEMMA Answers ==
  /\ AnswerOf("none") = "none" /\ AnswerOf("applied") = "applied"
  /\ AnswerOf("selected") = "hired" /\ AnswerOf("withdrawn") = "gone"
BY DEF AnswerOf

LEMMA PhasesAre ==
  ASSUME NEW s \in RequestStatus
  PROVE  /\ PhaseOf(s) = "unpublished" <=> s = "none"
         /\ PhaseOf(s) = "receiving" <=> s \in ReceivingStatus
         /\ PhaseOf(s) = "over" <=> s \notin ReceivingStatus \cup {"none"}
BY DEF PhaseOf, RequestStatus, ReceivingStatus

\* Every step of the app is a step of Recruitment or changes nothing there:
\* ApplicantsAnswered is what makes cancelling an ended request no step.
THEOREM PromiseKept == Spec => KeepsPromise
<1>1. Init => Promise!Init
  <2>1. PhaseOf("none") = "unpublished" /\ AnswerOf("none") = "none"
    BY Answers DEF PhaseOf, ReceivingStatus
  <2>2. QED
    BY <2>1 DEF Init, InitTables, Promise!Init, phase, answer, AnswersOf
<1>2. TypeOK /\ ApplicantsAnswered /\ [Next]_vars
        => [Promise!Next]_(Promise!vars)
  <2> SUFFICES ASSUME TypeOK, ApplicantsAnswered, [Next]_vars
               PROVE  Promise!Next \/ UNCHANGED Promise!vars
    OBVIOUS
  <2>1. \A q \in Requests : interest[q] \in Row /\ status[q] \in RequestStatus
    BY DEF TypeOK, Row
  <2>2. /\ phase = [q \in Requests |-> PhaseOf(status[q])]
        /\ phase' = [q \in Requests |-> PhaseOf(status'[q])]
        /\ answer = [q \in Requests |-> AnswersOf(interest[q])]
        /\ answer' = [q \in Requests |-> AnswersOf(interest'[q])]
    BY DEF phase, answer, AnswersOf
  <2>3. CASE Tick \/ UNCHANGED vars
    BY <2>2, <2>3 DEF Tick, vars, tables, Promise!vars
  <2>4. ASSUME NEW r \in Requests, NEW w \in Windows, Publish(r, w)
        PROVE  Promise!Publish(r)
    <3>1. /\ PhaseOf(status[r]) = "unpublished" /\ interest' = interest
          /\ status' = [status EXCEPT ![r] = "open"]
      BY <2>4 DEF Publish, PhaseOf, ReceivingStatus
    <3>2. PhaseOf("open") = "receiving"
      BY DEF PhaseOf, ReceivingStatus
    <3>3. phase' = [phase EXCEPT ![r] = "receiving"]
      BY <2>2, <3>1, <3>2 DEF TypeOK
    <3>4. QED
      BY <2>2, <3>1, <3>3 DEF Promise!Publish
  <2>5. ASSUME NEW r \in Requests, NEW p \in Professionals, Apply(r, p)
        PROVE  Promise!Apply(r, p)
    <3>1. /\ phase[r] = "receiving" /\ answer[r][p] = "none"
          /\ phase' = phase
          /\ interest' = [interest EXCEPT ![r] =
                            [interest[r] EXCEPT ![p] = "applied"]]
      BY <2>2, <2>5, Answers DEF Apply, TypeOK, Receiving, PhaseOf,
         ReceivingStatus, AnswersOf
    <3>2. AnswersOf([interest[r] EXCEPT ![p] = "applied"])
            = [AnswersOf(interest[r]) EXCEPT ![p] = "applied"]
      BY <2>1, MovedAnswers, Answers DEF InterestStatus
    <3>3. answer' = [answer EXCEPT ![r] = [answer[r] EXCEPT ![p] = "applied"]]
      BY <2>2, <3>1, <3>2 DEF TypeOK
    <3>4. QED
      BY <3>1, <3>3 DEF Promise!Apply
  <2>6. ASSUME NEW r \in Requests, NEW p \in Professionals, Withdraw(r, p)
        PROVE  Promise!Leave(r, p)
    <3>1. /\ phase[r] = "receiving" /\ answer[r][p] = "applied"
          /\ phase' = phase
          /\ interest' = [interest EXCEPT ![r] =
                            [interest[r] EXCEPT ![p] = "withdrawn"]]
      BY <2>2, <2>6, Answers DEF Withdraw, TypeOK, Receiving, PhaseOf,
         ReceivingStatus, AnswersOf
    <3>2. AnswersOf([interest[r] EXCEPT ![p] = "withdrawn"])
            = [AnswersOf(interest[r]) EXCEPT ![p] = "gone"]
      BY <2>1, MovedAnswers, Answers DEF InterestStatus
    <3>3. answer' = [answer EXCEPT ![r] = [answer[r] EXCEPT ![p] = "gone"]]
      BY <2>2, <3>1, <3>2 DEF TypeOK
    <3>4. QED
      BY <3>1, <3>3 DEF Promise!Leave
  <2>7. ASSUME NEW r \in Requests, NEW p \in Professionals, Select(r, p)
        PROVE  Promise!Hire(r, p) \/ Promise!HireLast(r, p)
    <3> DEFINE chosen == [interest[r] EXCEPT ![p] = "selected"]
               full   == Full(r, Cardinality(Having(chosen, "selected")))
               hired  == [answer[r] EXCEPT ![p] = "hired"]
    <3>1. /\ phase[r] = "receiving" /\ answer[r][p] = "applied"
          /\ interest[r][p] = "applied"
      BY <2>2, <2>7, Answers DEF Select, Receiving, PhaseOf, ReceivingStatus,
         AnswersOf
    <3>2. chosen \in Row
      BY <2>1, <3>1, SelectedRow
    <3>3. AnswersOf(chosen) = hired
      <4>1. AnswersOf(chosen)
              = [AnswersOf(interest[r]) EXCEPT ![p] = AnswerOf("selected")]
        BY <2>1, MovedAnswers DEF InterestStatus
      <4>2. QED
        BY <2>2, <4>1, Answers
    <3>4. interest' = [interest EXCEPT ![r] =
             IF full THEN Finalized(chosen, "not_selected") ELSE chosen]
      BY <2>7 DEF Select
    <3>5. \/ status' = status
          \/ status' = [status EXCEPT ![r] =
                          IF full THEN "filled" ELSE "partially_filled"]
      BY <2>7 DEF Select
    <3>6. /\ PhaseOf("partially_filled") = "receiving"
          /\ PhaseOf("filled") = "over"
      BY DEF PhaseOf, ReceivingStatus
    <3> HIDE DEF chosen, hired
    <3>7. CASE full
      <4>1. AnswersOf(interest'[r]) = Promise!Refused(hired)
        BY <3>2, <3>3, <3>4, <3>7, FinalizedAnswers DEF TypeOK
      <4>2. answer' = [answer EXCEPT ![r] = Promise!Refused(hired)]
        BY <2>2, <3>4, <3>7, <4>1 DEF TypeOK
      <4>3. phase' = phase \/ phase' = [phase EXCEPT ![r] = "over"]
        BY <2>2, <3>5, <3>6, <3>7 DEF TypeOK
      <4>4. QED
        BY <3>1, <4>2, <4>3 DEF Promise!HireLast, hired
    <3>8. CASE ~full
      <4>1. answer' = [answer EXCEPT ![r] = hired]
        BY <2>2, <3>3, <3>4, <3>8 DEF TypeOK
      <4>2. phase' = phase
        <5>1. CASE status' = status
          BY <2>2, <5>1
        <5>2. CASE status' = [status EXCEPT ![r] = "partially_filled"]
          BY <2>2, <3>1, <3>6, <5>2 DEF TypeOK
        <5>3. QED
          BY <3>5, <3>8, <5>1, <5>2
      <4>3. QED
        BY <3>1, <4>1, <4>2 DEF Promise!Hire, hired
    <3>9. QED
      BY <3>7, <3>8
  <2>8. ASSUME NEW R \in SUBSET Requests, EndRequests(R),
               \A r \in R : Receiving(r)
        PROVE  \E E \in SUBSET R : Promise!Settle(R, E)
    <3> DEFINE E == {r \in R : PhaseOf(status'[r]) = "over"}
    <3>1. \A r \in R : phase[r] = "receiving"
      BY <2>2, <2>8 DEF Receiving, PhaseOf, ReceivingStatus
    <3>2. \A q \in Requests : AnswersOf(interest'[q]) =
             IF q \in R THEN Promise!Refused(AnswersOf(interest[q]))
                        ELSE AnswersOf(interest[q])
      <4> SUFFICES ASSUME NEW q \in Requests
                   PROVE  AnswersOf(interest'[q]) =
             IF q \in R THEN Promise!Refused(AnswersOf(interest[q]))
                        ELSE AnswersOf(interest[q])
        OBVIOUS
      <4>1. CASE q \notin R
        BY <2>8, <4>1 DEF EndRequests
      <4>2. CASE q \in R
        <5>1. EndInterest(EndStatus(q, Cardinality(Selected(q))))
                \in {"not_selected", "expired"}
          BY DEF EndInterest
        <5>2. interest'[q] = Finalized(interest[q],
                 EndInterest(EndStatus(q, Cardinality(Selected(q)))))
          BY <2>8, <4>2 DEF EndRequests
        <5>3. QED
          BY <2>1, <4>2, <5>1, <5>2, FinalizedAnswers
      <4>3. QED
        BY <4>1, <4>2
    <3>3. answer' = [q \in Requests |->
             IF q \in R THEN Promise!Refused(answer[q]) ELSE answer[q]]
      BY <2>2, <3>2
    <3>4. \A q \in Requests :
             \/ status'[q] = status[q]
             \/ q \in R /\ status'[q] = EndStatus(q, Cardinality(Selected(q)))
      BY <2>8 DEF EndRequests
    <3>5. \A q \in Requests : PhaseOf(status'[q])
             = IF q \in E THEN "over" ELSE phase[q]
      <4> SUFFICES ASSUME NEW q \in Requests, q \notin E
                   PROVE  PhaseOf(status'[q]) = phase[q]
        OBVIOUS
      <4>1. CASE status'[q] = status[q]
        BY <2>2, <4>1
      <4>2. CASE q \in R /\ status'[q] = EndStatus(q, Cardinality(Selected(q)))
        BY <3>1, <4>2 DEF EndStatus, PhaseOf, ReceivingStatus
      <4>3. QED
        BY <3>4, <4>1, <4>2
    <3>6. phase' = [q \in Requests |-> IF q \in E THEN "over" ELSE phase[q]]
      BY <2>2, <3>5
    <3>7. E \in SUBSET R
      OBVIOUS
    <3> HIDE DEF E
    <3>8. Promise!Settle(R, E)
      BY <3>1, <3>3, <3>6, <3>7 DEF Promise!Settle
    <3>9. QED
      BY <3>7, <3>8
  <2>9. ASSUME NEW r \in Requests, Cancel(r)
        PROVE  Promise!Settle({r}, {r}) \/ UNCHANGED Promise!vars
    <3>1. /\ status' = [status EXCEPT ![r] = "cancelled"]
          /\ interest' = [interest EXCEPT ![r] =
                            Finalized(interest[r], "expired")]
          /\ status[r] # "none"
      BY <2>9 DEF Cancel
    <3>2. PhaseOf("cancelled") = "over"
      BY DEF PhaseOf, ReceivingStatus
    <3>3. phase' = [q \in Requests |-> IF q \in {r} THEN "over" ELSE phase[q]]
      BY <2>2, <3>1, <3>2 DEF TypeOK
    <3>4. AnswersOf(Finalized(interest[r], "expired"))
            = Promise!Refused(AnswersOf(interest[r]))
      BY <2>1, FinalizedAnswers
    <3>5. answer' = [q \in Requests |->
             IF q \in {r} THEN Promise!Refused(answer[q]) ELSE answer[q]]
      BY <2>2, <3>1, <3>4 DEF TypeOK
    <3>6. CASE Receiving(r)
      <4>1. phase[r] = "receiving"
        BY <2>2, <3>6 DEF Receiving, PhaseOf, ReceivingStatus
      <4>2. QED
        BY <3>3, <3>5, <4>1 DEF Promise!Settle
    <3>7. CASE ~Receiving(r)
      <4>1. Finalized(interest[r], "expired") = interest[r]
        BY <2>1, <3>7, FinalizedAnswers DEF ApplicantsAnswered
      <4>2. interest' = interest
        BY <3>1, <4>1 DEF TypeOK
      <4>3. PhaseOf(status[r]) = "over"
        BY <2>1, <3>1, <3>7, PhasesAre DEF Receiving
      <4>4. phase' = phase
        BY <2>2, <3>3, <4>3
      <4>5. QED
        BY <2>2, <4>2, <4>4 DEF Promise!vars
    <3>8. QED
      BY <3>6, <3>7
  <2>10. ASSUME NEW R \in SUBSET Requests, ReachedBySweep(R)
         PROVE  \A r \in R : Receiving(r)
    BY <2>10 DEF ReachedBySweep, Due
  <2>11. CASE \E R \in SUBSET Requests : ReachedBySweep(R) /\ EndRequests(R)
    BY <2>8, <2>10, <2>11 DEF Promise!Next
  <2>12. CASE \E r \in Requests : Close(r)
    BY <2>8, <2>12 DEF Close, Promise!Next
  <2>13. CASE \E r \in Requests, p \in Professionals :
                Apply(r, p) \/ Withdraw(r, p) \/ Select(r, p)
    BY <2>5, <2>6, <2>7, <2>13 DEF Promise!Next
  <2>14. CASE \E r \in Requests, w \in Windows : Publish(r, w)
    BY <2>4, <2>14 DEF Promise!Next
  <2>15. CASE \E r \in Requests : Cancel(r)
    <3>1. PICK r \in Requests : Cancel(r)
      BY <2>15
    <3>2. {r} \in SUBSET Requests /\ {r} \in SUBSET {r}
      OBVIOUS
    <3>3. QED
      BY <2>9, <3>1, <3>2 DEF Promise!Next
  <2>16. QED
    BY <2>3, <2>11, <2>12, <2>13, <2>14, <2>15 DEF Next, Sweep
<1>3. QED
  BY <1>1, <1>2, TypeCorrect, NobodyLeftWaiting, PTL
  DEF Spec, KeepsPromise, Promise!Spec
=============================================================================
