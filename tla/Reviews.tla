------------------------------- MODULE Reviews -------------------------------
(***************************************************************************)
(* One selected interest after the service: its confirmation, which each   *)
(* side answers and may answer again, and its reviews (apps/reviews).  The *)
(* page and the answers are for the two sides alone; a review, of the      *)
(* professional by the client and of the client by anybody else, is taken  *)
(* from every user.  A request is a job of a worker, one step per database *)
(* statement; nothing holds a lock, and what a job has read goes stale.    *)
(*                                                                         *)
(*   answer    read (the start), save, log                                 *)
(*   review    read (the start), check, insert                             *)
(*   contest   read (the start), save                                      *)
(***************************************************************************)
EXTENDS Integers, FiniteSets

CONSTANTS
  Workers,     \* requests the server can have under way
  Outsiders,   \* users who are neither the client nor the professional
  MaxAnswers   \* bound: answers given

Sides == {"client", "professional"}
Authors == Sides \cup Outsiders

ASSUME ReviewsAssumption ==
  /\ MaxAnswers \in Nat
  /\ Outsiders \cap Sides = {}

VARIABLES
  answer,     \* client_confirmed, professional_confirmed
  reviews,    \* number of reviews by an author
  contested,  \* by author of the review, whose target contests it
  due,        \* the service was to have started
  job,        \* of a worker: what it does and the confirmation it read
  answers,    \* answers given; the bound
  said,       \* history: the last answer each side had saved
  agreed,     \* history: both sides had confirmed at one time
  flagged,    \* history: the dispute that stands is in the log
  crossed,    \* history: the last answer was saved on a stale row
  unlogged,   \* history: a worker stopped between the last answer and its log
  peeked      \* history: the sides that have seen the other's review

row == <<answer, reviews, contested>>
history == <<answers, said, agreed, flagged, crossed, unlogged, peeked>>
vars == <<row, due, job, history>>

Other(s) == IF s = "client" THEN "professional" ELSE "client"
Answers == {"none", "yes", "no"}
Idle == [op |-> "idle", at |-> "start", side |-> "client", saw |-> [s \in Sides |-> "none"],
         mine |-> "none"]

TypeOK ==
  /\ answer \in [Sides -> Answers]
  /\ reviews \in [Authors -> {0, 1}]       \* unique_review_per_author
  /\ contested \in [Authors -> BOOLEAN]
  /\ due \in BOOLEAN
  /\ job \in [Workers -> [op : {"idle", "answer", "review", "contest"},
                          at : {"start", "save", "log", "check", "insert"},
                          side : Authors, saw : [Sides -> Answers], mine : Answers]]
  /\ answers \in 0..MaxAnswers
  /\ said \in [Sides -> Answers]
  /\ agreed \in BOOLEAN /\ flagged \in BOOLEAN /\ crossed \in BOOLEAN /\ unlogged \in BOOLEAN
  /\ peeked \subseteq Sides

Init ==
  /\ answer = [s \in Sides |-> "none"]
  /\ reviews = [a \in Authors |-> 0]
  /\ contested = [a \in Authors |-> FALSE]
  /\ due = FALSE
  /\ job = [w \in Workers |-> Idle]
  /\ answers = 0
  /\ said = answer
  /\ agreed = FALSE /\ flagged = FALSE /\ crossed = FALSE /\ unlogged = FALSE
  /\ peeked = {}

At(w, op, at) == job[w].op = op /\ job[w].at = at
Goto(w, at) == job' = [job EXCEPT ![w].at = at]
Finish(w) == job' = [job EXCEPT ![w] = Idle]
Start(w, op, at, s, mine) ==
  /\ job[w] = Idle
  /\ job' = [job EXCEPT ![w] = [op |-> op, at |-> at, side |-> s, saw |-> answer,
                                mine |-> mine]]

ServiceStarts ==
  /\ ~due
  /\ due' = TRUE
  /\ UNCHANGED <<row, job, history>>

-----------------------------------------------------------------------------
(* Answers.  Posting one asks neither for the start of the service nor for *)
(* the first answer to be the last.                                        *)

\* The properties of ServiceConfirmation, on a row as it was read.
IsLegitimate(a) == a["client"] = "yes" /\ a["professional"] = "yes"

\* Mutant: only a client who denies what the professional confirms.
ClientDenies(a) == a["client"] = "no" /\ a["professional"] = "yes"
HasDispute(a) == "none" \notin {a[s] : s \in Sides} /\ a["client"] # a["professional"]

StartAnswer(w, s, mine) ==
  /\ answers < MaxAnswers                                          \* bound
  /\ answers' = answers + 1
  /\ Start(w, "answer", "save", s, mine)
  /\ UNCHANGED <<row, due, said, agreed, flagged, crossed, unlogged, peeked>>

Saved(w, new) ==
  LET s == job[w].side IN
  /\ At(w, "answer", "save")
  /\ answer' = new
  /\ said' = [said EXCEPT ![s] = job[w].mine]
  /\ agreed' = (agreed \/ IsLegitimate(new))
  /\ flagged' = (flagged /\ new["client"] # new["professional"])
  /\ crossed' = (job[w].saw[Other(s)] # answer[Other(s)])
  /\ unlogged' = FALSE
  /\ job' = [job EXCEPT ![w].at = "log", ![w].saw[s] = job[w].mine]
  /\ UNCHANGED <<reviews, contested, due, answers, peeked>>

\* Mutant: save() without update_fields writes the whole row that was read.
SaveWholeRow(w) == Saved(w, [job[w].saw EXCEPT ![job[w].side] = job[w].mine])

\* Only the fields of one's own side are written.
SaveAnswer(w) == Saved(w, [answer EXCEPT ![job[w].side] = job[w].mine])

\* A disputed or an answered event, by the row as it was read.
LogAnswer(w) ==
  /\ At(w, "answer", "log")
  /\ flagged' = (flagged \/ (HasDispute(job[w].saw) /\ answer["client"] # answer["professional"]))
  /\ Finish(w)
  /\ UNCHANGED <<row, due, answers, said, agreed, crossed, unlogged, peeked>>

-----------------------------------------------------------------------------
(* Reviews.                                                                *)

\* Mutant: the client's confirmation is enough.
StartReviewOfOne(w, a) ==
  /\ answer["client"] = "yes"
  /\ Start(w, "review", "check", a, "none")
  /\ UNCHANGED <<row, due, history>>

\* Nothing asks whether the author took part.
StartReview(w, a) ==
  /\ IsLegitimate(answer)
  /\ Start(w, "review", "check", a, "none")
  /\ UNCHANGED <<row, due, history>>

\* exists()
CheckReview(w) ==
  /\ At(w, "review", "check")
  /\ IF reviews[job[w].side] > 0 THEN Finish(w) ELSE Goto(w, "insert")
  /\ UNCHANGED <<row, due, history>>

\* Mutant: there is no unique constraint.
InsertAlways(w) ==
  /\ At(w, "review", "insert")
  /\ reviews' = [reviews EXCEPT ![job[w].side] = @ + 1]
  /\ Finish(w)
  /\ UNCHANGED <<answer, contested, due, history>>

\* The INSERT, which unique_review_per_author may refuse.
InsertReview(w) ==
  /\ At(w, "review", "insert")
  /\ reviews' = [reviews EXCEPT ![job[w].side] = 1]
  /\ Finish(w)
  /\ UNCHANGED <<answer, contested, due, history>>

ReviewCount == Cardinality(UNION {{a} \X (1..reviews[a]) : a \in Authors})

\* The page shows a review that is not one's own when there are two, whoever
\* wrote them: the newest by created_at, the clocks of the servers that took
\* them, so that it may be the other side's whenever that is one of the two.
ReadPage(s) ==
  /\ due
  /\ ReviewCount = 2
  /\ reviews[Other(s)] > 0
  /\ peeked' = peeked \cup {s}
  /\ UNCHANGED <<row, due, job, answers, said, agreed, flagged, crossed, unlogged>>

\* The target of a's review contests it.
StartContest(w, a) ==
  /\ reviews[a] > 0 /\ ~contested[a]
  /\ Start(w, "contest", "save", a, "none")
  /\ UNCHANGED <<row, due, history>>

SaveContest(w) ==
  /\ At(w, "contest", "save")
  /\ contested' = [contested EXCEPT ![job[w].side] = TRUE]
  /\ Finish(w)
  /\ UNCHANGED <<answer, reviews, due, history>>

\* A worker stops between two statements.
Stop(w) ==
  /\ job[w] # Idle
  /\ Finish(w)
  /\ unlogged' = (unlogged \/ At(w, "answer", "log"))
  /\ UNCHANGED <<row, due, answers, said, agreed, flagged, crossed, peeked>>

Begin(w) ==
  \/ \E s \in Sides, mine \in {"yes", "no"} : StartAnswer(w, s, mine)
  \/ \E a \in Authors : StartReview(w, a) \/ StartContest(w, a)

Step(w) ==
  \/ SaveAnswer(w) \/ LogAnswer(w) \/ CheckReview(w) \/ InsertReview(w)
  \/ SaveContest(w)

Next ==
  \/ ServiceStarts
  \/ \E s \in Sides : ReadPage(s)
  \/ \E w \in Workers : Begin(w) \/ Step(w) \/ Stop(w)

Spec == Init /\ [][Next]_vars

-----------------------------------------------------------------------------
\* A review is there, whoever wrote it, only if both sides once said, at the
\* same time, that the service took place; that one of them says otherwise
\* later does not take the review back.
ReviewsWereEarned == \A a \in Authors : reviews[a] > 0 => agreed

\* Neither side writes a review after reading the other's (views.py:44), as
\* long as nobody else has written one: an outsider's review is counted as if
\* it were the missing side's, and shows the first side's before the second
\* has written.
ReviewsAreBlind ==
  [][\A s \in Sides : reviews'[s] > reviews[s] /\ s \in peeked =>
       \E o \in Outsiders : reviews[o] > 0]_vars

\* What a side said last is what the confirmation holds, whichever requests
\* of the other side were under way.
AnswersAreKept == answer = said

\* Answers that differ are in the log as a dispute, for moderation to see, or
\* are about to be; unless the last one was saved by a request that had read
\* the confirmation before the other side's answer, or its worker stopped.
DisputesAreFlagged ==
  {answer[s] : s \in Sides} = {"yes", "no"} =>
    \/ flagged \/ crossed \/ unlogged
    \/ \E w \in Workers : At(w, "answer", "log") /\ job[w].mine = answer[job[w].side]
=============================================================================
