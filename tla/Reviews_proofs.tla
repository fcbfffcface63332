---------------------------- MODULE Reviews_proofs ----------------------------
(***************************************************************************)
(* The properties of Reviews for any number of workers, of answers and of  *)
(* users who took no part.                                                 *)
(***************************************************************************)
EXTENDS Reviews, Confirmations, FiniteSetTheorems, TLAPS

\* What holds a review up: both sides have agreed, and did when a request that
\* is about to write one passed the check.
Agreement ==
  /\ IsLegitimate(answer) => agreed
  /\ \A a \in Authors : reviews[a] > 0 => agreed
  /\ \A w \in Workers : job[w].op = "review" => agreed

\* Who has seen the other side's review has written one, or an outsider has.
SeenAfterWritten == \A s \in peeked : reviews[s] = 1 \/ \E o \in Outsiders : reviews[o] = 1

\* Only a side answers.
SidesAnswer == \A w \in Workers : job[w].op = "answer" => job[w].side \in Sides

Differ == answer["client"] # "none" /\ answer["professional"] # "none"
          /\ answer["client"] # answer["professional"]

\* While a dispute is not in the log and nothing excuses it, the request that
\* saved the last answer is about to log it and knows both.
LastSaverLogs ==
  Differ /\ ~flagged /\ ~crossed /\ ~unlogged =>
    \E w \in Workers : At(w, "answer", "log") /\ job[w].saw = answer
                       /\ job[w].mine = answer[job[w].side]

IInv ==
  TypeOK /\ Agreement /\ SidesAnswer /\ SeenAfterWritten /\ AnswersAreKept /\ LastSaverLogs

-----------------------------------------------------------------------------
(* The type invariant.                                                     *)

LEMMA InitTyped == Init => TypeOK
<1> SUFFICES ASSUME Init PROVE TypeOK
  OBVIOUS
<1>1. answer \in [Sides -> Answers] /\ said \in [Sides -> Answers]
  BY DEF Init, Answers
<1>2. job \in [Workers -> [op : {"idle", "answer", "review", "contest"},
                          at : {"start", "save", "log", "check", "insert"},
                          side : Authors, saw : [Sides -> Answers], mine : Answers]]
  BY DEF Init, Idle, Answers, Authors, Sides
<1>3. /\ agreed \in BOOLEAN /\ flagged \in BOOLEAN
      /\ crossed \in BOOLEAN /\ unlogged \in BOOLEAN /\ due \in BOOLEAN
  BY Zenon DEF Init
<1>4. contested \in [Authors -> BOOLEAN] /\ reviews \in [Authors -> {0, 1}]
  BY DEF Init
<1>5. answers \in 0..MaxAnswers /\ peeked \subseteq Sides
  BY ReviewsAssumption DEF Init
<1> QED BY <1>1, <1>2, <1>3, <1>4, <1>5, Zenon DEF TypeOK

LEMMA BeginTyped ==
  ASSUME TypeOK, NEW w \in Workers, Begin(w)
  PROVE  TypeOK'
<1>1. ASSUME NEW s \in Sides, NEW mine \in {"yes", "no"}, StartAnswer(w, s, mine)
      PROVE  TypeOK'
  BY <1>1, ReviewsAssumption DEF TypeOK, StartAnswer, Start, row, Answers, Authors
<1>2. ASSUME NEW a \in Authors, StartReview(w, a) PROVE TypeOK'
  BY <1>2 DEF TypeOK, StartReview, Start, row, history, Answers
<1>3. ASSUME NEW a \in Authors, StartContest(w, a) PROVE TypeOK'
  BY <1>3 DEF TypeOK, StartContest, Start, row, history, Answers
<1> QED BY <1>1, <1>2, <1>3 DEF Begin

LEMMA StepTyped ==
  ASSUME TypeOK, SidesAnswer, NEW w \in Workers, Step(w)
  PROVE  TypeOK'
<1>1. CASE SaveAnswer(w)
  <2> DEFINE s == job[w].side
  <2>1. /\ s \in Sides /\ job[w].mine \in Answers /\ job[w].saw \in [Sides -> Answers]
        /\ job[w] = [op |-> "answer", at |-> "save", side |-> s, saw |-> job[w].saw,
                     mine |-> job[w].mine]
    BY <1>1 DEF TypeOK, SidesAnswer, SaveAnswer, Saved, At, Authors
  <2>2. answer' \in [Sides -> Answers] /\ said' \in [Sides -> Answers]
    BY <1>1, <2>1 DEF TypeOK, SaveAnswer, Saved
  <2>3. job' \in [Workers -> [op : {"idle", "answer", "review", "contest"},
                             at : {"start", "save", "log", "check", "insert"},
                             side : Authors, saw : [Sides -> Answers], mine : Answers]]
    BY <1>1, <2>1 DEF TypeOK, SaveAnswer, Saved, Authors
  <2>4. /\ agreed' \in BOOLEAN /\ flagged' \in BOOLEAN
        /\ crossed' \in BOOLEAN /\ unlogged' \in BOOLEAN
    BY <1>1, Zenon DEF SaveAnswer, Saved
  <2>5. UNCHANGED <<reviews, contested, due, answers, peeked>>
    BY <1>1 DEF SaveAnswer, Saved
  <2> QED BY <2>2, <2>3, <2>4, <2>5 DEF TypeOK
<1>2. CASE LogAnswer(w)
  BY <1>2 DEF TypeOK, LogAnswer, At, Finish, Idle, row, Sides, Authors, Answers
<1>3. CASE CheckReview(w)
  BY <1>3 DEF TypeOK, CheckReview, Finish, Goto, Idle, row, history, Sides, Authors, Answers
<1>4. CASE InsertReview(w)
  BY <1>4 DEF TypeOK, InsertReview, At, Finish, Idle, row, history, Sides, Authors, Answers
<1>5. CASE SaveContest(w)
  BY <1>5 DEF TypeOK, SaveContest, At, Finish, Idle, row, history, Sides, Authors, Answers, Other
<1> QED BY <1>1, <1>2, <1>3, <1>4, <1>5 DEF Step

LEMMA NextTyped ==
  ASSUME TypeOK, SidesAnswer, [Next]_vars
  PROVE  TypeOK'
<1>1. CASE ServiceStarts
  BY <1>1 DEF TypeOK, ServiceStarts, row, history
<1>2. ASSUME NEW s \in Sides, ReadPage(s) PROVE TypeOK'
  BY <1>2 DEF TypeOK, ReadPage, row
<1>3. ASSUME NEW w \in Workers, Begin(w) PROVE TypeOK'
  BY <1>3, BeginTyped
<1>4. ASSUME NEW w \in Workers, Step(w) PROVE TypeOK'
  BY <1>4, StepTyped
<1>5. ASSUME NEW w \in Workers, Stop(w) PROVE TypeOK'
  <2>1. job' \in [Workers -> [op : {"idle", "answer", "review", "contest"},
                             at : {"start", "save", "log", "check", "insert"},
                             side : Authors, saw : [Sides -> Answers], mine : Answers]]
    BY <1>5 DEF TypeOK, Stop, Finish, Idle, Sides, Authors, Answers
  <2>2. unlogged' \in BOOLEAN
    BY <1>5, Zenon DEF Stop
  <2>3. UNCHANGED <<row, due, answers, said, agreed, flagged, crossed, peeked>>
    BY <1>5 DEF Stop
  <2> QED BY <2>1, <2>2, <2>3 DEF TypeOK, row
<1>6. CASE UNCHANGED vars
  BY <1>6 DEF TypeOK, vars, row, history
<1> QED BY <1>1, <1>2, <1>3, <1>4, <1>5, <1>6 DEF Next

-----------------------------------------------------------------------------
(* The parts of the invariant, action by action.                           *)

LEMMA AgreementHolds ==
  ASSUME TypeOK, Agreement, [Next]_vars
  PROVE  Agreement'
<1>1. CASE ServiceStarts
  BY <1>1 DEF Agreement, ServiceStarts, row, history
<1>2. ASSUME NEW s \in Sides, ReadPage(s) PROVE Agreement'
  BY <1>2 DEF Agreement, ReadPage, row
<1>3. ASSUME NEW w \in Workers, NEW s \in Sides, NEW mine \in {"yes", "no"},
             StartAnswer(w, s, mine)
      PROVE  Agreement'
  BY <1>3 DEF Agreement, TypeOK, StartAnswer, Start, row
<1>4. ASSUME NEW w \in Workers, NEW a \in Authors, StartReview(w, a) PROVE Agreement'
  BY <1>4 DEF Agreement, TypeOK, StartReview, Start, row, history
<1>5. ASSUME NEW w \in Workers, NEW a \in Authors, StartContest(w, a) PROVE Agreement'
  BY <1>5 DEF Agreement, TypeOK, StartContest, Start, row, history
<1>6. ASSUME NEW w \in Workers, SaveAnswer(w) PROVE Agreement'
  <2>1. IsLegitimate(answer)' => agreed'
    BY <1>6, Zenon DEF SaveAnswer, Saved, IsLegitimate
  <2>2. agreed => agreed'
    BY <1>6, Zenon DEF SaveAnswer, Saved
  <2>3. reviews' = reviews /\ \A v \in Workers : job'[v].op = job[v].op
    BY <1>6 DEF TypeOK, SaveAnswer, Saved
  <2> QED BY <2>1, <2>2, <2>3 DEF Agreement
<1>7. ASSUME NEW w \in Workers, LogAnswer(w) PROVE Agreement'
  BY <1>7 DEF Agreement, TypeOK, LogAnswer, Finish, Idle, row
<1>8. ASSUME NEW w \in Workers, CheckReview(w) PROVE Agreement'
  BY <1>8 DEF Agreement, TypeOK, CheckReview, Finish, Goto, Idle, row, history
<1>9. ASSUME NEW w \in Workers, InsertReview(w) PROVE Agreement'
  BY <1>9 DEF Agreement, TypeOK, InsertReview, At, Finish, Idle, history
<1>10. ASSUME NEW w \in Workers, SaveContest(w) PROVE Agreement'
  BY <1>10 DEF Agreement, TypeOK, SaveContest, Finish, Idle, history
<1>11. ASSUME NEW w \in Workers, Stop(w) PROVE Agreement'
  BY <1>11 DEF Agreement, TypeOK, Stop, Finish, Idle, row
<1>12. CASE UNCHANGED vars
  BY <1>12 DEF Agreement, vars, row, history
<1> QED
  BY <1>1, <1>2, <1>3, <1>4, <1>5, <1>6, <1>7, <1>8, <1>9, <1>10, <1>11, <1>12
  DEF Next, Begin, Step

LEMMA SidesHold ==
  ASSUME TypeOK, SidesAnswer, [Next]_vars
  PROVE  SidesAnswer'
<1>1. ASSUME NEW w \in Workers, NEW s \in Sides, NEW mine \in {"yes", "no"},
             StartAnswer(w, s, mine)
      PROVE  SidesAnswer'
  BY <1>1 DEF SidesAnswer, TypeOK, StartAnswer, Start
<1>2. ASSUME NEW w \in Workers, NEW a \in Authors, StartReview(w, a) \/ StartContest(w, a)
      PROVE  SidesAnswer'
  <2>1. CASE StartReview(w, a)
    BY <2>1 DEF SidesAnswer, TypeOK, StartReview, Start
  <2>2. CASE StartContest(w, a)
    BY <2>2 DEF SidesAnswer, TypeOK, StartContest, Start
  <2> QED BY <1>2, <2>1, <2>2
<1>3. ASSUME NEW w \in Workers, SaveAnswer(w) \/ LogAnswer(w) PROVE SidesAnswer'
  BY <1>3 DEF SidesAnswer, TypeOK, SaveAnswer, Saved, LogAnswer, Finish, Idle
<1>4. ASSUME NEW w \in Workers,
             CheckReview(w) \/ InsertReview(w) \/ SaveContest(w) \/ Stop(w)
      PROVE  SidesAnswer'
  <2>1. Finish(w) \/ Goto(w, "insert")
    BY <1>4 DEF CheckReview, InsertReview, SaveContest, Stop
  <2> QED BY <2>1 DEF SidesAnswer, TypeOK, Goto, Finish, Idle
<1>5. ASSUME ServiceStarts \/ (\E s \in Sides : ReadPage(s)) \/ UNCHANGED vars
      PROVE  SidesAnswer'
  BY <1>5 DEF SidesAnswer, ServiceStarts, ReadPage, vars
<1> QED BY <1>1, <1>2, <1>3, <1>4, <1>5 DEF Next, Begin, Step

LEMMA AnswersHold ==
  ASSUME TypeOK, AnswersAreKept, [Next]_vars
  PROVE  AnswersAreKept'
<1>1. ASSUME NEW w \in Workers, SaveAnswer(w) PROVE AnswersAreKept'
  BY <1>1 DEF AnswersAreKept, SaveAnswer, Saved
<1>2. ASSUME NEW w \in Workers, Begin(w) \/ Stop(w) PROVE AnswersAreKept'
  BY <1>2 DEF AnswersAreKept, Begin, StartAnswer, StartReview, StartContest, Stop,
     row, history
<1>3. ASSUME NEW w \in Workers, LogAnswer(w) \/ CheckReview(w) \/ InsertReview(w)
                              \/ SaveContest(w)
      PROVE  AnswersAreKept'
  BY <1>3 DEF AnswersAreKept, LogAnswer, CheckReview, InsertReview, SaveContest,
     row, history
<1>4. ASSUME ServiceStarts \/ (\E s \in Sides : ReadPage(s)) \/ UNCHANGED vars
      PROVE  AnswersAreKept'
  BY <1>4 DEF AnswersAreKept, ServiceStarts, ReadPage, row, history, vars
<1> QED BY <1>1, <1>2, <1>3, <1>4 DEF Next, Step

\* One review of the other side's alone is not two.
LEMMA LoneReview ==
  ASSUME TypeOK, NEW s \in Sides, reviews[Other(s)] > 0, ReviewCount = 2
  PROVE  reviews[s] = 1 \/ \E o \in Outsiders : reviews[o] = 1
<1> SUFFICES ASSUME reviews[s] # 1, \A o \in Outsiders : reviews[o] # 1
             PROVE  FALSE
  OBVIOUS
<1> DEFINE all == UNION {{a} \X (1..reviews[a]) : a \in Authors}
<1>1. Other(s) \in Sides /\ \A t \in Sides : t = s \/ t = Other(s)
  BY DEF Sides, Other
<1>2. \A a \in Authors : reviews[a] \in {0, 1} /\ (reviews[a] = 1 <=> a = Other(s))
  BY <1>1 DEF TypeOK, Authors
<1>3. \A a \in Authors : 1..reviews[a] = IF a = Other(s) THEN {1} ELSE {}
  <2>1. 1..1 = {1} /\ 1..0 = {}
    OBVIOUS
  <2> QED BY <1>2, <2>1
<1>4. Other(s) \in Authors
  BY <1>1 DEF Authors
<1>5. all = {<<Other(s), 1>>}
  <2>1. \A a \in Authors : {a} \X (1..reviews[a]) = IF a = Other(s) THEN {<<a, 1>>} ELSE {}
    <3> SUFFICES ASSUME NEW a \in Authors
                 PROVE  {a} \X (1..reviews[a]) = IF a = Other(s) THEN {<<a, 1>>} ELSE {}
      OBVIOUS
    <3>1. CASE a = Other(s)
      <4>1. 1..reviews[a] = {1}
        BY <1>3, <3>1
      <4> QED BY <3>1, <4>1
    <3>2. CASE a # Other(s)
      BY <1>3, <3>2
    <3> QED BY <3>1, <3>2
  <2> QED BY <2>1, <1>4
<1>6. Cardinality(all) = 1
  BY <1>5, FS_Singleton
<1> QED BY <1>6 DEF ReviewCount

LEMMA SeenHolds ==
  ASSUME TypeOK, SeenAfterWritten, [Next]_vars
  PROVE  SeenAfterWritten'
<1>1. ASSUME NEW s \in Sides, ReadPage(s) PROVE SeenAfterWritten'
  <2>1. reviews[s] = 1 \/ \E o \in Outsiders : reviews[o] = 1
    BY <1>1, LoneReview DEF ReadPage
  <2>2. peeked' = peeked \cup {s} /\ reviews' = reviews
    BY <1>1 DEF ReadPage, row
  <2> QED BY <2>1, <2>2 DEF SeenAfterWritten
<1>2. ASSUME NEW w \in Workers, InsertReview(w) PROVE SeenAfterWritten'
  BY <1>2 DEF SeenAfterWritten, TypeOK, InsertReview, At, history
<1>3. ASSUME NEW w \in Workers, Begin(w) \/ Stop(w) PROVE SeenAfterWritten'
  BY <1>3 DEF SeenAfterWritten, Begin, StartAnswer, StartReview, StartContest, Stop,
     row, history
<1>4. ASSUME NEW w \in Workers, SaveAnswer(w) \/ LogAnswer(w) \/ CheckReview(w)
                              \/ SaveContest(w)
      PROVE  SeenAfterWritten'
  BY <1>4 DEF SeenAfterWritten, SaveAnswer, Saved, LogAnswer, CheckReview, SaveContest,
     row, history
<1>5. ASSUME ServiceStarts \/ UNCHANGED vars PROVE SeenAfterWritten'
  BY <1>5 DEF SeenAfterWritten, ServiceStarts, row, history, vars
<1> QED BY <1>1, <1>2, <1>3, <1>4, <1>5 DEF Next, Step

\* A step that touches neither the confirmation nor its histories, nor a
\* request that is about to log.
Quiet ==
  /\ answer' = answer /\ flagged' = flagged /\ crossed' = crossed /\ unlogged' = unlogged
  /\ \A w \in Workers : At(w, "answer", "log") => job'[w] = job[w]

LEMMA QuietStep ==
  ASSUME LastSaverLogs, Quiet
  PROVE  LastSaverLogs'
<1> SUFFICES ASSUME Differ, ~flagged, ~crossed, ~unlogged
             PROVE  \E w \in Workers : At(w, "answer", "log")' /\ (job[w].saw = answer)'
                                       /\ (job[w].mine = answer[job[w].side])'
  BY Zenon DEF LastSaverLogs, Quiet, Differ
<1> PICK w \in Workers : At(w, "answer", "log") /\ job[w].saw = answer
                         /\ job[w].mine = answer[job[w].side]
  BY DEF LastSaverLogs
<1>1. job'[w] = job[w] /\ answer' = answer
  BY DEF Quiet
<1> QED BY <1>1 DEF At

LEMMA LoggingHolds ==
  ASSUME TypeOK, SidesAnswer, LastSaverLogs, [Next]_vars
  PROVE  LastSaverLogs'
<1>1. ASSUME NEW w \in Workers, SaveAnswer(w) PROVE LastSaverLogs'
  <2> DEFINE s == job[w].side
             o == Other(s)
  <2>1. /\ s \in Sides /\ o \in Sides /\ s # o
        /\ \A t \in Sides : t = s \/ t = o
        /\ job[w].saw \in [Sides -> Answers]
    BY <1>1 DEF TypeOK, SidesAnswer, SaveAnswer, Saved, At, Sides, Other
  <2>2. answer' = [answer EXCEPT ![s] = job[w].mine]
    BY <1>1 DEF SaveAnswer, Saved
  <2>3. /\ job'[w].op = "answer" /\ job'[w].at = "log" /\ job'[w].side = s
        /\ job'[w].mine = job[w].mine
        /\ job'[w].saw = [job[w].saw EXCEPT ![s] = job[w].mine]
    BY <1>1 DEF TypeOK, SaveAnswer, Saved, At
  <2>4. crossed' = (job[w].saw[o] # answer[o])
    BY <1>1 DEF SaveAnswer, Saved
  <2>5. ASSUME ~crossed' PROVE job'[w].saw = answer'
    <3>1. job[w].saw[o] = answer[o]
      BY <2>4, <2>5, Zenon
    <3>2. answer \in [Sides -> Answers] /\ job[w].mine \in Answers
      BY DEF TypeOK
    <3> HIDE DEF s, o
    <3>3. \A t \in Sides : job'[w].saw[t] = answer'[t]
      BY <3>1, <3>2, <2>1, <2>2, <2>3
    <3>4. job'[w].saw \in [Sides -> Answers] /\ answer' \in [Sides -> Answers]
      BY <3>2, <2>1, <2>2, <2>3
    <3> QED BY <3>3, <3>4
  <2>6. job'[w].mine = answer'[s]
    BY <2>1, <2>2, <2>3 DEF TypeOK
  <2> QED BY <2>3, <2>5, <2>6 DEF LastSaverLogs, At
<1>2. ASSUME NEW w \in Workers, LogAnswer(w) PROVE LastSaverLogs'
  <2> SUFFICES ASSUME Differ', ~flagged', ~crossed', ~unlogged'
               PROVE  \E v \in Workers : At(v, "answer", "log")' /\ (job[v].saw = answer)'
                                         /\ (job[v].mine = answer[job[v].side])'
    BY Zenon DEF LastSaverLogs
  <2>1. answer' = answer /\ crossed' = crossed /\ unlogged' = unlogged
    BY <1>2 DEF LogAnswer, row
  <2>2. ~flagged /\ ~(HasDispute(job[w].saw) /\ answer["client"] # answer["professional"])
    BY <1>2, Zenon DEF LogAnswer
  <2>3. Differ /\ ~crossed /\ ~unlogged
    BY <2>1, Zenon DEF Differ
  <2> PICK v \in Workers : At(v, "answer", "log") /\ job[v].saw = answer
                           /\ job[v].mine = answer[job[v].side]
    BY <2>2, <2>3, Zenon DEF LastSaverLogs
  <2>4. v # w
    BY <2>2, <2>3 DEF Differ, HasDispute, Sides
  <2>5. job'[v] = job[v]
    BY <1>2, <2>4 DEF TypeOK, LogAnswer, Finish
  <2> QED BY <2>1, <2>5 DEF At
<1>3. ASSUME NEW w \in Workers, Stop(w) PROVE LastSaverLogs'
  <2>1. CASE At(w, "answer", "log")
    BY <1>3, <2>1, Zenon DEF LastSaverLogs, Stop
  <2>2. CASE ~At(w, "answer", "log")
    <3>1. unlogged' = unlogged
      BY <1>3, <2>2, Zenon DEF Stop, TypeOK
    <3>2. Quiet
      BY <1>3, <2>2, <3>1 DEF Quiet, TypeOK, Stop, Finish, row
    <3> QED BY <3>2, QuietStep
  <2> QED BY <2>1, <2>2
<1>4. ASSUME NEW w \in Workers, Begin(w) PROVE LastSaverLogs'
  <2>2. Quiet
    BY <1>4 DEF Begin, Quiet, TypeOK, At, StartAnswer, StartReview, StartContest, Start, Idle,
       row, history
  <2> QED BY <2>2, QuietStep
<1>5. ASSUME NEW w \in Workers, CheckReview(w) \/ InsertReview(w) \/ SaveContest(w)
      PROVE  LastSaverLogs'
  <2>1. Quiet
    BY <1>5 DEF Quiet, TypeOK, At, CheckReview, InsertReview, SaveContest, Goto, Finish,
       row, history
  <2> QED BY <2>1, QuietStep
<1>6. ASSUME ServiceStarts \/ (\E s \in Sides : ReadPage(s)) \/ UNCHANGED vars
      PROVE  LastSaverLogs'
  <2>1. Quiet
    BY <1>6 DEF Quiet, ServiceStarts, ReadPage, row, history, vars
  <2> QED BY <2>1, QuietStep
<1> QED BY <1>1, <1>2, <1>3, <1>4, <1>5, <1>6 DEF Next, Step

-----------------------------------------------------------------------------
(* The theorems.                                                           *)

LEMMA Inductive == Spec => []IInv
<1>1. Init => IInv
  <2> SUFFICES ASSUME Init PROVE IInv
    OBVIOUS
  <2>1. Agreement /\ SidesAnswer /\ SeenAfterWritten /\ AnswersAreKept
    BY DEF Init, Agreement, SidesAnswer, SeenAfterWritten, AnswersAreKept, IsLegitimate, Idle, Sides
  <2>2. LastSaverLogs
    BY DEF Init, LastSaverLogs, Differ, Sides
  <2> QED BY <2>1, <2>2, InitTyped DEF IInv
<1>2. IInv /\ [Next]_vars => IInv'
  BY NextTyped, AgreementHolds, SidesHold, AnswersHold, SeenHolds, LoggingHolds DEF IInv
<1> QED BY <1>1, <1>2, PTL DEF Spec

\* Every variable keeps its type; in particular no author ever has two reviews
\* (the unique constraint of models.py).
THEOREM ReviewTypes == Spec => []TypeOK
BY Inductive, PTL DEF IInv

\* A review is there only if both sides had confirmed the service at one time
\* (submit_review), however answers change meanwhile.
THEOREM Earned == Spec => []ReviewsWereEarned
<1>1. IInv => ReviewsWereEarned
  BY DEF IInv, Agreement, ReviewsWereEarned
<1> QED BY <1>1, Inductive, PTL

\* No answer is overwritten by a request of the other side (confirm_service
\* saves the fields of one side).
THEOREM Kept == Spec => []AnswersAreKept
BY Inductive, PTL DEF IInv

\* A dispute is in the log or about to be, but for answers that cross and
\* workers that stop (confirm_service).
THEOREM Flagged == Spec => []DisputesAreFlagged
<1>1. IInv => DisputesAreFlagged
  <2> SUFFICES ASSUME IInv, {answer[s] : s \in Sides} = {"yes", "no"},
                      ~flagged, ~crossed, ~unlogged
               PROVE  \E w \in Workers : At(w, "answer", "log")
                                         /\ job[w].mine = answer[job[w].side]
    BY Zenon DEF DisputesAreFlagged
  <2>1. "yes" \in {answer["client"], answer["professional"]}
        /\ "no" \in {answer["client"], answer["professional"]}
    BY DEF Sides
  <2>2. Differ
    BY <2>1 DEF Differ
  <2> QED BY <2>2, Zenon DEF IInv, LastSaverLogs
<1> QED BY <1>1, Inductive, PTL

\* Neither side writes a review after reading the other's, as long as no
\* outsider has written one (the count of get_context_data, and one review per
\* author).
THEOREM Blind == Spec => ReviewsAreBlind
<1>1. ASSUME IInv, [Next]_vars
      PROVE  [\A s \in Sides : reviews'[s] > reviews[s] /\ s \in peeked =>
                \E o \in Outsiders : reviews[o] > 0]_vars
  <2> SUFFICES ASSUME NEW s \in Sides, reviews'[s] > reviews[s], s \in peeked
               PROVE  \E o \in Outsiders : reviews[o] > 0
    OBVIOUS
  <2>1. TypeOK /\ TypeOK' /\ SeenAfterWritten
    BY <1>1, NextTyped DEF IInv
  <2>2. reviews[s] # 1
    BY <2>1 DEF TypeOK, Authors
  <2>3. PICK o \in Outsiders : reviews[o] = 1
    BY <2>1, <2>2 DEF SeenAfterWritten
  <2> QED BY <2>3
<1> QED BY <1>1, Inductive, PTL DEF Spec, ReviewsAreBlind
-----------------------------------------------------------------------------
(* Asking: Notifications and Confirmations.                                *)

\* What any step of the program makes of the tasks: none is forgotten.
TasksStay == \A n \in Notice : task[n] # "none" => task'[n] # "none"

\* A sweep has one confirmation in its hands, from its INSERT to the dispatch
\* to the professional.
OneInHand ==
  IF sweep.at \in {"client", "professional"}
    THEN \E i \in confirmed : sweep.now = {i}
    ELSE sweep.now = {}

AskingIInv ==
  /\ AskingTypeOK
  /\ device = holder
  /\ LastHolderOnly
  /\ OneInHand
  /\ SilenceHasAReason

LEMMA DispatchAdds ==
  ASSUME AskingTypeOK, NEW u \in Users, NEW e \in Events, NEW urgent \in BOOLEAN,
         NEW raised \in BOOLEAN, Dispatch(u, e, urgent, raised)
  PROVE  /\ task' \in [Notice -> {"none", "queued", "sending", "over"}]
         /\ TasksStay
         /\ ~raised => \A c \in Chosen(u, urgent) :
                         task'[[event |-> e, user |-> u, channel |-> c]] # "none"
<1> PICK taken \in SUBSET Chosen(u, urgent) :
      /\ raised <=> taken # Chosen(u, urgent)
      /\ task' = [n \in Notice |->
                    IF n.event = e /\ n.user = u /\ n.channel \in taken
                    THEN "queued" ELSE task[n]]
  BY DEF Dispatch
<1>1. task' \in [Notice -> {"none", "queued", "sending", "over"}]
  BY DEF AskingTypeOK, NotesTypeOK
<1>2. TasksStay
  BY DEF TasksStay
<1>3. ASSUME ~raised, NEW c \in Chosen(u, urgent)
      PROVE  task'[[event |-> e, user |-> u, channel |-> c]] # "none"
  <2>1. c \in taken /\ c \in Channels
    BY <1>3 DEF Chosen, AskingTypeOK, NotesTypeOK
  <2>2. [event |-> e, user |-> u, channel |-> c] \in Notice
    BY <2>1 DEF Notice
  <2> QED BY <2>1, <2>2
<1> QED BY <1>1, <1>2, <1>3

\* Tasks, registrations and preferences move only forward or in step.
LEMMA NotesStep ==
  ASSUME NotesTypeOK, device = holder, LastHolderOnly, NotesNext
  PROVE  /\ NotesTypeOK'
         /\ device' = holder'
         /\ LastHolderOnly'
         /\ TasksStay
<1>1. ASSUME NEW n \in Notice, RunTask(n)
      PROVE  NotesTypeOK' /\ device' = holder' /\ LastHolderOnly' /\ TasksStay
  <2>1. n.user \in Users
    BY DEF Notice
  <2>2. DevicesOf(n.user) \subseteq Devices
    BY DEF DevicesOf
  <2>3. NotesTypeOK' /\ TasksStay
    BY <1>1, <2>2 DEF RunTask, Outcome, NotesTypeOK, TasksStay
  <2>4. device' = holder' /\ UNCHANGED <<device, holder, handed>>
    BY <1>1 DEF RunTask
  <2>5. ASSUME NEW m \in Notice, NEW d \in todo'[m]
        PROVE  m.user = holder'[d] \/ <<m, d>> \in handed'
    <3>1. CASE d \in todo[m]
      BY <3>1, <2>4 DEF LastHolderOnly
    <3>2. CASE d \notin todo[m]
      BY <3>2, <2>4, <2>5, <1>1 DEF RunTask, NotesTypeOK, DevicesOf
    <3> QED BY <3>1, <3>2
  <2> QED BY <2>3, <2>4, <2>5 DEF LastHolderOnly
<1>2. ASSUME NEW n \in Notice, NEW d \in Devices, PushTo(n, d)
      PROVE  NotesTypeOK' /\ device' = holder' /\ LastHolderOnly' /\ TasksStay
  BY <1>2 DEF PushTo, Outcome, NotesTypeOK, LastHolderOnly, TasksStay
<1>3. ASSUME NEW n \in Notice, SendNow(n)
      PROVE  NotesTypeOK' /\ device' = holder' /\ LastHolderOnly' /\ TasksStay
  BY <1>3 DEF SendNow, Outcome, NotesTypeOK, LastHolderOnly, TasksStay
<1>4. ASSUME NEW n \in Notice, TaskEnds(n)
      PROVE  NotesTypeOK' /\ device' = holder' /\ LastHolderOnly' /\ TasksStay
  BY <1>4 DEF TaskEnds, Outcome, NotesTypeOK, LastHolderOnly, TasksStay
<1>5. ASSUME NEW u \in Users, NEW wish \in Wishes[u], UpdatePreference(u, wish)
      PROVE  NotesTypeOK' /\ device' = holder' /\ LastHolderOnly' /\ TasksStay
  BY <1>5, NotificationsAssumption DEF UpdatePreference, NotesTypeOK, LastHolderOnly, TasksStay
<1>6. ASSUME NEW u \in Users, NEW d \in Devices, Subscribe(u, d)
      PROVE  NotesTypeOK' /\ device' = holder' /\ LastHolderOnly' /\ TasksStay
  <2>1. NotesTypeOK' /\ TasksStay /\ device' = holder'
    BY <1>6 DEF Subscribe, Register, NotesTypeOK, TasksStay
  <2>2. ASSUME NEW m \in Notice, NEW x \in todo'[m]
        PROVE  m.user = holder'[x] \/ <<m, x>> \in handed'
    <3>1. x \in todo[m] /\ x \in Devices
      BY <1>6, <2>2 DEF Subscribe, Register, NotesTypeOK
    <3>2. CASE x = d
      BY <3>1, <3>2, <1>6 DEF Subscribe, Register, NotesTypeOK
    <3>3. CASE x # d
      BY <3>1, <3>3, <1>6 DEF Subscribe, Register, NotesTypeOK, LastHolderOnly
    <3> QED BY <3>2, <3>3
  <2> QED BY <2>1, <2>2 DEF LastHolderOnly
<1> QED BY <1>1, <1>2, <1>3, <1>4, <1>5, <1>6 DEF NotesNext, Deliver, UserActs

LEMMA SilenceStays ==
  ASSUME AskingTypeOK, SilenceHasAReason, TasksStay,
         UNCHANGED <<confirmed, sweep, opened, cut, muted>>
  PROVE  SilenceHasAReason'
<1> SUFFICES ASSUME NEW i \in confirmed, NEW u \in Parties(i), NEW c \in {"push", "email"}
             PROVE  \/ task'[[event |-> i, user |-> u, channel |-> c]] # "none"
                    \/ i \in opened
                    \/ <<i, u>> \in cut
                    \/ <<i, u, c>> \in muted
                    \/ i \in sweep.now /\ (sweep.at = "client" \/ u = ProfessionalOf[i])
  BY DEF SilenceHasAReason, Parties
<1>1. [event |-> i, user |-> u, channel |-> c] \in Notice
  BY ConfirmationsAssumption DEF AskingTypeOK, Parties, Notice, Channels
<1> QED BY <1>1 DEF SilenceHasAReason, TasksStay

\* What a dispatch leaves untold is in muted, or in cut when it was refused.
LEMMA AskKeeps ==
  ASSUME AskingIInv, NEW i \in Interests, Ask(i)
  PROVE  AskingIInv'
<1> DEFINE u    == IF sweep.at = "client" THEN ClientOf[i] ELSE ProfessionalOf[i]
           rest == IF sweep.at = "client" THEN Parties(i) ELSE {ProfessionalOf[i]}
           next == IF sweep.at = "client"
                     THEN [sweep EXCEPT !.at = "professional"]
                     ELSE IF sweep.list = {} THEN Resting
                          ELSE [sweep EXCEPT !.at = "create", !.now = {}]
<1> USE DEF AskingIInv
<1>1. u \in Users /\ i \in Events /\ Parties(i) \subseteq Users /\ rest \subseteq Users
  BY ConfirmationsAssumption DEF Parties
<1>2. sweep.at \in {"client", "professional"} /\ sweep.now = {i} /\ i \in confirmed
  BY DEF Ask, OneInHand
<1>3. /\ muted' = muted \cup {<<i, u, c>> : c \in {"push", "email"} \ preference[u]}
      /\ UNCHANGED <<preference, device, todo, holder, handed, started, confirmed, announced,
                     opened>>
  BY DEF Ask
<1>4. PICK raised \in BOOLEAN :
        /\ Dispatch(u, i, FALSE, raised)
        /\ sweep' = IF raised THEN Resting ELSE next
        /\ cut' = IF raised THEN cut \cup ({i} \X rest) ELSE cut
  BY DEF Ask
<1>5. /\ task' \in [Notice -> {"none", "queued", "sending", "over"}]
      /\ TasksStay
      /\ ~raised => \A c \in Chosen(u, FALSE) :
                      task'[[event |-> i, user |-> u, channel |-> c]] # "none"
  BY <1>1, <1>4, DispatchAdds
<1>6. next \in [at : {"rest", "create", "client", "professional"},
                list : SUBSET Interests, now : SUBSET Interests]
  BY DEF AskingTypeOK, Resting
<1>7. AskingTypeOK'
  <2>1. sweep' \in [at : {"rest", "create", "client", "professional"},
                    list : SUBSET Interests, now : SUBSET Interests]
    BY <1>4, <1>6 DEF Resting
  <2>2. cut' \subseteq Interests \X Users
    BY <1>1, <1>4 DEF AskingTypeOK
  <2>3. muted' \subseteq Interests \X Users \X Channels
    BY <1>1, <1>3 DEF AskingTypeOK, Channels
  <2> QED BY <2>1, <2>2, <2>3, <1>3, <1>5 DEF AskingTypeOK, NotesTypeOK
<1>8. (device = holder)' /\ LastHolderOnly'
  BY <1>3 DEF LastHolderOnly
<1>9. OneInHand'
  BY <1>2, <1>3, <1>4 DEF OneInHand, Resting, AskingTypeOK
<1>10. ASSUME NEW j \in confirmed, NEW v \in Parties(j), NEW c \in {"push", "email"}
       PROVE  \/ task'[[event |-> j, user |-> v, channel |-> c]] # "none"
              \/ j \in opened
              \/ <<j, v>> \in cut'
              \/ <<j, v, c>> \in muted'
              \/ j \in sweep'.now /\ (sweep'.at = "client" \/ v = ProfessionalOf[j])
  <2>1. [event |-> j, user |-> v, channel |-> c] \in Notice
    BY ConfirmationsAssumption DEF AskingTypeOK, Parties, Notice, Channels
  <2>2. \/ task[[event |-> j, user |-> v, channel |-> c]] # "none"
        \/ j \in opened
        \/ <<j, v>> \in cut
        \/ <<j, v, c>> \in muted
        \/ j = i /\ (sweep.at = "client" \/ v = ProfessionalOf[i])
    BY <1>2 DEF SilenceHasAReason
  <2>3. CASE ~(j = i /\ (sweep.at = "client" \/ v = ProfessionalOf[i]))
    BY <2>1, <2>2, <2>3, <1>3, <1>4, <1>5 DEF TasksStay
  <2>4. CASE j = i /\ v \in rest /\ raised
    BY <2>4, <1>4
  <2>5. CASE j = i /\ v = u /\ ~raised
    <3>1. CASE c \in preference[u]
      BY <2>5, <3>1, <1>5 DEF Chosen
    <3>2. CASE c \notin preference[u]
      BY <2>5, <3>2, <1>3
    <3> QED BY <3>1, <3>2
  <2>6. CASE j = i /\ v # u /\ sweep.at = "client" /\ ~raised
    <3>1. v = ProfessionalOf[i]
      BY <2>6 DEF Parties
    <3>2. sweep'.now = {i}
      BY <2>6, <1>2, <1>4 DEF AskingTypeOK
    <3> QED BY <3>1, <3>2, <2>6
  <2> QED BY <2>3, <2>4, <2>5, <2>6, <1>2
<1>11. SilenceHasAReason'
  BY <1>3, <1>10 DEF SilenceHasAReason, Parties
<1> QED BY <1>7, <1>8, <1>9, <1>11

LEMMA AskingStart == AskingInit => AskingIInv
BY DEF AskingInit, NotesInit, AskingIInv, AskingTypeOK, NotesTypeOK, LastHolderOnly, OneInHand,
       SilenceHasAReason, Resting

LEMMA AskingStep ==
  ASSUME AskingIInv, [AskingNext]_askingVars
  PROVE  AskingIInv'
<1> USE DEF AskingIInv
<1>1. ASSUME NEW e \in Urgent, NEW u \in Users, Announce(e, u)
      PROVE  AskingIInv'
  <2>1. PICK raised \in BOOLEAN : Dispatch(u, e, TRUE, raised)
    BY <1>1 DEF Announce
  <2>2. /\ task' \in [Notice -> {"none", "queued", "sending", "over"}]
        /\ TasksStay
    BY <2>1, DispatchAdds, ConfirmationsAssumption
  <2>3. UNCHANGED <<preference, device, todo, holder, handed, started, confirmed, sweep,
                    opened, cut, muted>>
    BY <1>1 DEF Announce
  <2>4. AskingTypeOK'
    BY <2>2, <2>3, <1>1 DEF AskingTypeOK, NotesTypeOK, Announce
  <2>5. (device = holder)' /\ LastHolderOnly' /\ OneInHand'
    BY <2>3 DEF LastHolderOnly, OneInHand
  <2>6. SilenceHasAReason'
    BY <2>2, <2>3, SilenceStays
  <2> QED BY <2>4, <2>5, <2>6
<1>2. ASSUME NEW i \in Interests, ServiceIsDue(i)
      PROVE  AskingIInv'
  <2>1. UNCHANGED <<notes, confirmed, sweep, announced, opened, cut, muted>>
    BY <1>2 DEF ServiceIsDue
  <2> QED BY <1>2, <2>1 DEF ServiceIsDue, AskingTypeOK, NotesTypeOK, notes, LastHolderOnly,
                            OneInHand, SilenceHasAReason
<1>3. ASSUME NEW i \in Interests, GetOrCreate(i)
      PROVE  AskingIInv'
  <2>1. UNCHANGED <<notes, started, sweep, announced, cut, muted>>
        /\ confirmed' = confirmed \cup {i} /\ opened' = opened \cup {i}
    BY <1>3 DEF GetOrCreate
  <2>2. AskingTypeOK' /\ (device = holder)' /\ LastHolderOnly' /\ OneInHand'
    BY <2>1 DEF AskingTypeOK, NotesTypeOK, notes, LastHolderOnly, OneInHand
  <2>3. SilenceHasAReason'
    BY <2>1 DEF notes, SilenceHasAReason
  <2> QED BY <2>2, <2>3
<1>4. CASE StartSweep
  <2>1. UNCHANGED <<notes, started, confirmed, announced, opened, cut, muted>>
        /\ sweep.now = {} /\ sweep'.now = {} /\ sweep'.at = "create"
    BY <1>4 DEF StartSweep, Resting, OneInHand
  <2>2. AskingTypeOK' /\ (device = holder)' /\ LastHolderOnly' /\ OneInHand'
    BY <1>4, <2>1 DEF AskingTypeOK, NotesTypeOK, notes, LastHolderOnly, OneInHand, StartSweep,
                      Resting
  <2>3. SilenceHasAReason'
    BY <2>1 DEF notes, SilenceHasAReason
  <2> QED BY <2>2, <2>3
<1>5. ASSUME NEW i \in Interests, CreateConfirmation(i)
      PROVE  AskingIInv'
  <2>1. UNCHANGED <<notes, started, announced, opened, cut, muted>> /\ sweep.now = {}
    BY <1>5 DEF CreateConfirmation, OneInHand
  <2>2. \/ sweep' = Resting /\ confirmed' = confirmed
        \/ confirmed' = confirmed \cup {i}
           /\ sweep' = [at |-> "client", list |-> sweep.list \ {i}, now |-> {i}]
    BY <1>5 DEF CreateConfirmation
  <2>3. AskingTypeOK' /\ (device = holder)' /\ LastHolderOnly' /\ OneInHand'
    BY <2>1, <2>2 DEF AskingTypeOK, NotesTypeOK, notes, LastHolderOnly, OneInHand, Resting
  <2>4. ASSUME NEW j \in confirmed', NEW u \in Parties(j), NEW c \in {"push", "email"}
        PROVE  \/ task[[event |-> j, user |-> u, channel |-> c]] # "none"
               \/ j \in opened
               \/ <<j, u>> \in cut
               \/ <<j, u, c>> \in muted
               \/ j \in sweep'.now /\ (sweep'.at = "client" \/ u = ProfessionalOf[j])
    <3>1. CASE j \in confirmed
      BY <3>1, <2>1 DEF SilenceHasAReason
    <3>2. CASE j \notin confirmed
      BY <3>2, <2>2
    <3> QED BY <3>1, <3>2
  <2>5. SilenceHasAReason'
    BY <2>1, <2>4 DEF notes, SilenceHasAReason, Parties
  <2> QED BY <2>3, <2>5
<1>6. ASSUME NEW i \in Interests, Ask(i)
      PROVE  AskingIInv'
  BY <1>6, AskKeeps
<1>7. CASE SweepStops
  <2>1. UNCHANGED <<notes, started, confirmed, announced, opened, muted>> /\ sweep' = Resting
    BY <1>7 DEF SweepStops
  <2>2. PICK R \in SUBSET (Interests \X Users) :
          /\ cut' = cut \cup R
          /\ \A i \in sweep.now : \A u \in Parties(i) :
               sweep.at = "client" \/ u = ProfessionalOf[i] => <<i, u>> \in R
    <3> DEFINE R == UNION {{i} \X (IF sweep.at = "client" THEN Parties(i)
                                   ELSE {ProfessionalOf[i]}) : i \in sweep.now}
    <3>1. R \in SUBSET (Interests \X Users)
      BY ConfirmationsAssumption DEF Parties, AskingTypeOK
    <3>2. ASSUME NEW i \in sweep.now, NEW u \in Parties(i),
                 sweep.at = "client" \/ u = ProfessionalOf[i]
          PROVE  <<i, u>> \in R
      BY <3>2
    <3> QED BY <3>1, <3>2, <1>7 DEF SweepStops
  <2>3. AskingTypeOK' /\ (device = holder)' /\ LastHolderOnly' /\ OneInHand'
    BY <2>1, <2>2 DEF AskingTypeOK, NotesTypeOK, notes, LastHolderOnly, OneInHand, Resting
  <2>4. SilenceHasAReason'
    BY <2>1, <2>2 DEF notes, SilenceHasAReason, Parties
  <2> QED BY <2>3, <2>4
<1>8. CASE NotesNext /\ Others
  <2>1. UNCHANGED <<started, confirmed, sweep, announced, opened, cut, muted>>
    BY <1>8 DEF Others
  <2>2. NotesTypeOK' /\ (device = holder)' /\ LastHolderOnly' /\ TasksStay
    BY <1>8, NotesStep DEF AskingTypeOK
  <2>3. AskingTypeOK' /\ OneInHand'
    BY <2>1, <2>2 DEF AskingTypeOK, OneInHand
  <2>4. SilenceHasAReason'
    <3>1. AskingTypeOK /\ SilenceHasAReason /\ TasksStay
      BY <2>2
    <3>2. UNCHANGED <<confirmed, sweep, opened, cut, muted>>
      BY <2>1
    <3> QED BY <3>1, <3>2, SilenceStays
  <2> QED BY <2>2, <2>3, <2>4
<1>9. CASE UNCHANGED askingVars
  <2>1. UNCHANGED <<notes, started, confirmed, sweep, announced, opened, cut, muted>>
    BY <1>9 DEF askingVars
  <2>2. AskingTypeOK' /\ (device = holder)' /\ LastHolderOnly' /\ OneInHand'
    BY <2>1 DEF AskingTypeOK, NotesTypeOK, notes, LastHolderOnly, OneInHand
  <2>3. SilenceHasAReason'
    BY <2>1 DEF notes, SilenceHasAReason
  <2> QED BY <2>2, <2>3
<1> QED BY <1>1, <1>2, <1>3, <1>4, <1>5, <1>6, <1>7, <1>8, <1>9
        DEF AskingNext, OpenPage, PostAnswer

LEMMA AskingInductive == AskingSpec => []AskingIInv
BY AskingStart, AskingStep, PTL DEF AskingSpec

\* Tasks, registrations and what the sweep remembers keep their types.
THEOREM AskingTypes == AskingSpec => []AskingTypeOK
BY AskingInductive, PTL DEF AskingIInv

\* A device serves the user who registered it last, but for pushes that were
\* under way when it changed hands (PushSubscriptionCreateView moves the
\* endpoint, send_push_notification works down the list it read).
THEOREM LastHolder == AskingSpec => []LastHolderOnly
BY AskingInductive, PTL DEF AskingIInv

\* Whoever was not told of the question was left out for a reason that is
\* named: create_pending_confirmations forgets nobody.
THEOREM Silence == AskingSpec => []SilenceHasAReason
BY AskingInductive, PTL DEF AskingIInv
=============================================================================
