-------------------------- MODULE Moderation_proofs ---------------------------
(***************************************************************************)
(* The properties of Moderation for any number of cases, users and         *)
(* requests at once.                                                       *)
(***************************************************************************)
EXTENDS Moderation, TLAPS

Busy(w) == job[w] # Idle

\* What the check of an operation has found in the row it read.
Passed(j) ==
  \/ j.op = "review"  /\ j.saw.status = "open"
  \/ j.op = "decide"  /\ j.saw.status \in {"open", "under_review"} /\ j.to \in Decisions
  \/ j.op = "appeal"  /\ j.saw.status = "decided" /\ j.saw.appeal = "none"
  \/ j.op = "resolve" /\ j.saw.status = "appealed" /\ j.to \in {"approved", "rejected"}

\* What the row says when the account is still to follow.
Follows(j) ==
  \/ j.op = "decide"  /\ j.saw.decision = "suspension" /\ j.saw.appeal = "none"
  \/ j.op = "resolve" /\ j.saw.decision = "suspension" /\ j.saw.appeal = "approved"

JobsChecked ==
  \A w \in Workers : Busy(w) =>
    /\ job[w].at = "save" => Passed(job[w])
    /\ job[w].at = "account" /\ job[w].case \notin crossed => Follows(job[w])

\* A row no request has crossed has its columns in step.
RowInStep(row) ==
  /\ row.status \in {"none", "open", "under_review"} =>
       row.decision = "none" /\ row.appeal = "none"
  /\ row.status = "decided" => row.appeal = "none"
  /\ row.status = "appealed" => row.appeal = "pending"

RowsInStep == \A c \in Cases \ crossed : RowInStep(cases[c])

Untouched(u) == CasesAbout(u) \cap (crossed \cup halted) = {}
To(w, op, u) == /\ Busy(w) /\ job[w].at = "account" /\ job[w].op = op
                /\ About[job[w].case] = u

\* A suspended account has a case that suspends it, or is about to be given
\* back.
SuspendedForACase ==
  \A u \in Users : Untouched(u) /\ ~active[u] =>
    \/ \E c \in CasesAbout(u) : Suspends(c) /\ ~Lifted(c)
    \/ \E w \in Workers : To(w, "resolve", u)

\* A case that suspends an active account was overruled by the appeal of
\* another, or the account is about to be suspended.
ActiveDespiteACase ==
  \A u \in Users : Untouched(u) /\ active[u] =>
    \A c \in CasesAbout(u) : Suspends(c) /\ ~Lifted(c) =>
      \/ \E d \in CasesAbout(u) : Lifted(d)
      \/ \E w \in Workers : To(w, "decide", u)

IInv == TypeOK /\ JobsChecked /\ RowsInStep /\ SuspendedForACase /\ ActiveDespiteACase

-----------------------------------------------------------------------------
(* What a step does, so far as the proofs need to know.                    *)

LEMMA IdleIsNoJob == Idle \notin Jobs
<1> SUFFICES ASSUME Idle \in Jobs PROVE FALSE
  OBVIOUS
<1>1. Idle.op \in {"review", "decide", "appeal", "resolve"}
  BY DEF Jobs
<1> QED BY <1>1 DEF Idle

LEMMA BusyJob ==
  ASSUME TypeOK, NEW w \in Workers, Busy(w)
  PROVE  job[w] \in Jobs
BY DEF TypeOK, Busy

\* A request that begins reads the row and has passed its check.
LEMMA BeginStep ==
  ASSUME TypeOK, NEW w \in Workers, NEW c \in Cases, Begin(w, c)
  PROVE  /\ UNCHANGED <<cases, active, crossed, halted>>
         /\ ~Busy(w)
         /\ \E j \in Jobs : /\ job' = [job EXCEPT ![w] = j]
                            /\ j.at = "save" /\ j.case = c /\ Passed(j)
<1> DEFINE Job(op, to) == [op |-> op, at |-> "save", case |-> c, to |-> to, saw |-> cases[c]]
<1>1. cases[c] \in Rows
  BY DEF TypeOK
<1>2. CASE StartReview(w, c)
  <2>1. Job("review", "none") \in Jobs
    BY <1>1 DEF Jobs
  <2>2. Passed(Job("review", "none"))
    BY <1>2 DEF StartReview, Passed
  <2> QED BY <1>2, <2>1, <2>2 DEF StartReview, Start, Busy
<1>3. ASSUME NEW d \in Decisions, StartDecide(w, c, d)
      PROVE  /\ UNCHANGED <<cases, active, crossed, halted>> /\ ~Busy(w)
             /\ \E j \in Jobs : /\ job' = [job EXCEPT ![w] = j]
                                /\ j.at = "save" /\ j.case = c /\ Passed(j)
  <2>1. Job("decide", d) \in Jobs
    BY <1>1 DEF Jobs
  <2>2. Passed(Job("decide", d))
    BY <1>3 DEF StartDecide, Passed
  <2> QED BY <1>3, <2>1, <2>2 DEF StartDecide, Start, Busy
<1>4. CASE StartAppeal(w, c)
  <2>1. Job("appeal", "none") \in Jobs
    BY <1>1 DEF Jobs
  <2>2. Passed(Job("appeal", "none"))
    BY <1>4 DEF StartAppeal, Passed
  <2> QED BY <1>4, <2>1, <2>2 DEF StartAppeal, Start, Busy
<1>5. ASSUME NEW to \in {"approved", "rejected"}, StartResolve(w, c, to)
      PROVE  /\ UNCHANGED <<cases, active, crossed, halted>> /\ ~Busy(w)
             /\ \E j \in Jobs : /\ job' = [job EXCEPT ![w] = j]
                                /\ j.at = "save" /\ j.case = c /\ Passed(j)
  <2>1. Job("resolve", to) \in Jobs
    BY <1>1 DEF Jobs
  <2>2. Passed(Job("resolve", to))
    BY <1>5 DEF StartResolve, Passed
  <2> QED BY <1>5, <2>1, <2>2 DEF StartResolve, Start, Busy
<1> QED BY <1>2, <1>3, <1>4, <1>5 DEF Begin

LEMMA Stages ==
  /\ Stage("none") = 0 /\ Stage("open") = 1 /\ Stage("under_review") = 2
  /\ Stage("decided") = 3 /\ Stage("appealed") = 4 /\ Stage("closed") = 5
BY DEF Stage

\* A checked job writes a row of its type, and a later one.
LEMMA WrittenRow ==
  ASSUME NEW row \in Rows, NEW j \in Jobs, Passed(j)
  PROVE  /\ Written(row, j) \in Rows
         /\ j.saw = row => Stage(row.status) <= Stage(Written(row, j).status)
         /\ j.op # "decide" => Written(row, j).decision = row.decision
         /\ j.op = "decide" => /\ Written(row, j).decision = j.to
                               /\ Written(row, j).status = "decided"
                               /\ Written(row, j).appeal = row.appeal
         /\ j.op = "appeal" => /\ Written(row, j).status = "appealed"
                               /\ Written(row, j).appeal = "pending"
         /\ j.op = "resolve" => /\ Written(row, j).status = "closed"
                                /\ Written(row, j).appeal = j.to
         /\ j.op = "review" => /\ Written(row, j).status = "under_review"
                               /\ Written(row, j).appeal = row.appeal
<1>1. CASE j.op = "review"
  <2>1. Written(row, j) = [row EXCEPT !.status = "under_review"]
    BY <1>1 DEF Written
  <2>2. j.saw.status = "open"
    BY <1>1 DEF Passed
  <2> QED BY <1>1, <2>1, <2>2, Stages DEF Rows
<1>2. CASE j.op = "decide"
  <2>1. Written(row, j) = [status |-> "decided", decision |-> j.to, appeal |-> row.appeal]
    BY <1>2 DEF Written, Rows
  <2>2. j.saw.status \in {"open", "under_review"} /\ j.to \in Decisions
    BY <1>2 DEF Passed
  <2> QED BY <1>2, <2>1, <2>2, Stages DEF Rows, Decisions
<1>3. CASE j.op = "appeal"
  <2>1. Written(row, j) = [status |-> "appealed", decision |-> row.decision,
                           appeal |-> "pending"]
    BY <1>3 DEF Written, Rows
  <2>2. j.saw.status = "decided"
    BY <1>3 DEF Passed
  <2> QED BY <1>3, <2>1, <2>2, Stages DEF Rows
<1>4. CASE j.op = "resolve"
  <2>1. Written(row, j) = [status |-> "closed", decision |-> row.decision, appeal |-> j.to]
    BY <1>4 DEF Written, Rows
  <2>2. j.saw.status = "appealed" /\ j.to \in {"approved", "rejected"}
    BY <1>4 DEF Passed
  <2> QED BY <1>4, <2>1, <2>2, Stages DEF Rows
<1> QED BY <1>1, <1>2, <1>3, <1>4 DEF Jobs

LEMMA ToAccount ==
  ASSUME NEW j \in Jobs, NEW row \in Rows
  PROVE  [j EXCEPT !.at = "account", !.saw = row]
           = [op |-> j.op, at |-> "account", case |-> j.case, to |-> j.to, saw |-> row]
<1> DEFINE k == [j EXCEPT !.at = "account"]
<1>1. /\ k = [op |-> j.op, at |-> "account", case |-> j.case, to |-> j.to, saw |-> j.saw]
      /\ k \in Jobs
  BY DEF Jobs
<1>2. [k EXCEPT !.saw = row]
        = [op |-> k.op, at |-> k.at, case |-> k.case, to |-> k.to, saw |-> row]
  <2> HIDE DEF k
  <2> QED BY <1>1 DEF Jobs
<1>3. /\ [j EXCEPT !.at = "account", !.saw = row] = [k EXCEPT !.saw = row]
      /\ k.op = j.op /\ k.at = "account" /\ k.case = j.case /\ k.to = j.to
  BY <1>1
<1> QED BY <1>2, <1>3, Zenon

LEMMA SaveCaseStep ==
  ASSUME TypeOK, JobsChecked, NEW w \in Workers, SaveCase(w),
         NEW c, c = job[w].case, NEW row, row = Written(cases[c], job[w])
  PROVE  /\ c \in Cases /\ Busy(w) /\ job[w] \in Jobs /\ job[w].at = "save" /\ Passed(job[w])
         /\ cases[c] \in Rows /\ row \in Rows
         /\ cases' = [cases EXCEPT ![c] = row]
         /\ active' = active /\ halted' = halted
         /\ crossed \subseteq crossed' /\ crossed' \subseteq crossed \cup {c}
         /\ c \notin crossed' => cases[c] = job[w].saw
         /\ \A v \in Workers : v # w => job'[v] = job[v]
         /\ IF ChangesAccount(job[w])
              THEN /\ job'[w] \in Jobs /\ job'[w].at = "account" /\ job'[w].op = job[w].op
                   /\ job'[w].case = c /\ job'[w].saw = row
              ELSE job'[w] = Idle
<1>1. Busy(w) /\ job[w] \in Jobs /\ job[w].at = "save" /\ Passed(job[w])
  BY BusyJob DEF SaveCase, Busy, JobsChecked
<1>2. c \in Cases /\ cases[c] \in Rows
  BY <1>1 DEF Jobs, TypeOK
<1>3. row \in Rows
  BY <1>1, <1>2, WrittenRow
<1>4. cases' = [cases EXCEPT ![c] = row] /\ active' = active /\ halted' = halted
  BY DEF SaveCase
<1>5. /\ crossed \subseteq crossed' /\ crossed' \subseteq crossed \cup {c}
      /\ c \notin crossed' => cases[c] = job[w].saw
  BY DEF SaveCase, Late
<1>6. job' = [job EXCEPT ![w] =
               IF ChangesAccount(job[w]) THEN [job[w] EXCEPT !.at = "account", !.saw = row]
                                         ELSE Idle]
  BY DEF SaveCase
<1>7. [job[w] EXCEPT !.at = "account", !.saw = row]
        = [op |-> job[w].op, at |-> "account", case |-> c, to |-> job[w].to, saw |-> row]
  BY <1>1, <1>3, ToAccount
<1>8. [op |-> job[w].op, at |-> "account", case |-> c, to |-> job[w].to, saw |-> row] \in Jobs
  BY <1>1, <1>2, <1>3 DEF Jobs
<1> QED BY <1>1, <1>2, <1>3, <1>4, <1>5, <1>6, <1>7, <1>8 DEF TypeOK

LEMMA SaveAccountStep ==
  ASSUME TypeOK, NEW w \in Workers, SaveAccount(w), NEW c, c = job[w].case
  PROVE  /\ c \in Cases /\ Busy(w) /\ job[w] \in Jobs /\ job[w].at = "account"
         /\ cases' = cases /\ halted' = halted
         /\ About[c] \in Users
         /\ active' = [active EXCEPT ![About[c]] = (job[w].op = "resolve")]
         /\ crossed \subseteq crossed' /\ crossed' \subseteq crossed \cup {c}
         /\ c \notin crossed' => cases[c] = job[w].saw
         /\ job'[w] = Idle
         /\ \A v \in Workers : v # w => job'[v] = job[v]
<1>1. Busy(w) /\ job[w] \in Jobs /\ job[w].at = "account"
  BY BusyJob DEF SaveAccount, Busy
<1>2. c \in Cases /\ About[c] \in Users
  BY <1>1, ModerationAssumption DEF Jobs
<1>3. /\ cases' = cases /\ halted' = halted
      /\ active' = [active EXCEPT ![About[c]] = (job[w].op = "resolve")]
      /\ job' = [job EXCEPT ![w] = Idle]
  BY DEF SaveAccount
<1>4. /\ crossed \subseteq crossed' /\ crossed' \subseteq crossed \cup {c}
      /\ c \notin crossed' => cases[c] = job[w].saw
  BY DEF SaveAccount, Late
<1> QED BY <1>1, <1>2, <1>3, <1>4 DEF TypeOK

LEMMA StopStep ==
  ASSUME TypeOK, NEW w \in Workers, Stop(w)
  PROVE  /\ UNCHANGED <<cases, active, crossed>>
         /\ Busy(w) /\ job[w] \in Jobs /\ job[w].case \in Cases
         /\ halted \subseteq halted' /\ halted' \subseteq Cases \cup halted
         /\ job[w].at = "account" => job[w].case \in halted'
         /\ job'[w] = Idle
         /\ \A v \in Workers : v # w => job'[v] = job[v]
<1>1. Busy(w) /\ job[w] \in Jobs
  BY BusyJob DEF Stop, Busy
<1>2. job[w].case \in Cases
  BY <1>1 DEF Jobs
<1> QED BY <1>1, <1>2 DEF Stop, TypeOK

\* A case written by hand is marked; nothing else moves.
LEMMA EditStep ==
  ASSUME TypeOK, NEW c \in Cases, NEW row \in Edits, EditCase(c, row)
  PROVE  /\ row \in Rows /\ UNCHANGED <<active, job, halted>>
         /\ cases' = [cases EXCEPT ![c] = row]
         /\ crossed' = crossed \cup {c}
         /\ \A d \in Cases \ crossed' : cases'[d] = cases[d]
BY ModerationAssumption DEF EditCase, TypeOK

-----------------------------------------------------------------------------
(* Types and the checks.                                                   *)

Checked(j) == /\ j.at = "save" => Passed(j)
              /\ j.at = "account" /\ j.case \notin crossed => Follows(j)

\* What a request that saved its case knows when the account follows.
LEMMA FollowsCase ==
  ASSUME TypeOK, JobsChecked, RowsInStep, NEW w \in Workers, SaveCase(w),
         ChangesAccount(job[w]), job[w].case \notin crossed'
  PROVE  Follows(job'[w])
<1>1. PICK c, row : c = job[w].case /\ row = Written(cases[c], job[w])
  OBVIOUS
<1>2. /\ c \in Cases /\ job[w] \in Jobs /\ Passed(job[w]) /\ cases[c] \in Rows
      /\ crossed \subseteq crossed' /\ cases[c] = job[w].saw
      /\ job'[w].op = job[w].op /\ job'[w].saw = row
  BY <1>1, SaveCaseStep
<1>3. RowInStep(cases[c])
  BY <1>1, <1>2 DEF RowsInStep
<1>4. CASE job[w].op = "decide"
  <2>1. job[w].to = "suspension" /\ job[w].saw.status \in {"open", "under_review"}
    BY <1>2, <1>4 DEF ChangesAccount, Passed
  <2>2. row.decision = "suspension" /\ row.appeal = cases[c].appeal
    BY <1>1, <1>2, <1>4, <2>1, WrittenRow
  <2> QED BY <1>2, <1>3, <1>4, <2>1, <2>2 DEF RowInStep, Follows
<1>5. CASE job[w].op # "decide"
  <2>1. job[w].op = "resolve" /\ job[w].to = "approved" /\ job[w].saw.decision = "suspension"
    BY <1>5 DEF ChangesAccount
  <2>2. row.decision = cases[c].decision /\ row.appeal = "approved"
    BY <1>1, <1>2, <2>1, WrittenRow
  <2> QED BY <1>2, <2>1, <2>2 DEF Follows
<1> QED BY <1>4, <1>5

LEMMA TypesHold ==
  ASSUME TypeOK, JobsChecked, RowsInStep, [Next]_vars
  PROVE  TypeOK' /\ JobsChecked'
<1>1. ASSUME NEW c \in Cases, OpenCase(c) PROVE TypeOK' /\ JobsChecked'
  <2>1. Opened \in Rows
    BY DEF Opened, Unopened, Rows
  <2> QED BY <1>1, <2>1 DEF OpenCase, TypeOK, JobsChecked, Busy, Passed, Follows
<1>2. ASSUME NEW c \in Cases, NEW w \in Workers, Begin(w, c) PROVE TypeOK' /\ JobsChecked'
  <2> PICK j \in Jobs : job' = [job EXCEPT ![w] = j] /\ j.at = "save" /\ Passed(j)
    BY <1>2, BeginStep
  <2>1. UNCHANGED <<cases, active, crossed, halted>>
    BY <1>2, BeginStep
  <2>2. \A v \in Workers : job'[v] = IF v = w THEN j ELSE job[v]
    BY DEF TypeOK
  <2>3. TypeOK'
    BY <2>1 DEF TypeOK
  <2>4. ASSUME NEW v \in Workers, Busy(v)' PROVE Checked(job[v])'
    BY <2>1, <2>2, <2>4 DEF JobsChecked, Checked, Busy, Passed, Follows
  <2> QED BY <2>3, <2>4 DEF JobsChecked, Checked
<1>3. ASSUME NEW w \in Workers, SaveCase(w) PROVE TypeOK' /\ JobsChecked'
  <2>1. PICK c, row : c = job[w].case /\ row = Written(cases[c], job[w])
    OBVIOUS
  <2>2. /\ c \in Cases /\ row \in Rows /\ cases' = [cases EXCEPT ![c] = row]
        /\ active' = active /\ halted' = halted
        /\ crossed \subseteq crossed' /\ crossed' \subseteq crossed \cup {c}
        /\ \A v \in Workers : v # w => job'[v] = job[v]
        /\ job'[w] \in Jobs \cup {Idle}
        /\ job'[w] # Idle => ChangesAccount(job[w]) /\ job'[w].at = "account"
                             /\ job'[w].case = c
    <3>1. CASE ChangesAccount(job[w])
      BY <1>3, <2>1, <3>1, SaveCaseStep
    <3>2. CASE ~ChangesAccount(job[w])
      BY <1>3, <2>1, <3>2, SaveCaseStep
    <3> QED BY <3>1, <3>2
  <2>3. job' \in [Workers -> Jobs \cup {Idle}]
    BY <1>3, <2>2 DEF SaveCase, TypeOK
  <2>4. TypeOK'
    BY <2>2, <2>3 DEF TypeOK
  <2>5. ASSUME NEW v \in Workers, Busy(v)', v # w PROVE Checked(job[v])'
    BY <2>2, <2>5 DEF JobsChecked, Checked, Busy, Passed, Follows
  <2>6. Busy(w)' => Checked(job[w])'
    BY <1>3, <2>1, <2>2, FollowsCase DEF Checked, Busy, Passed, Follows
  <2> QED BY <2>4, <2>5, <2>6 DEF JobsChecked, Checked
<1>4. ASSUME NEW w \in Workers, SaveAccount(w) PROVE TypeOK' /\ JobsChecked'
  <2>1. job' \in [Workers -> Jobs \cup {Idle}]
    BY <1>4 DEF SaveAccount, TypeOK
  <2>2. active' \in [Users -> BOOLEAN]
    BY <1>4 DEF SaveAccount, TypeOK
  <2>3. /\ cases' = cases /\ halted' = halted /\ crossed \subseteq crossed'
        /\ crossed' \subseteq Cases /\ job'[w] = Idle
        /\ \A v \in Workers : v # w => job'[v] = job[v]
    BY <1>4, SaveAccountStep DEF TypeOK
  <2>4. TypeOK'
    BY <2>1, <2>2, <2>3 DEF TypeOK
  <2>5. JobsChecked'
    BY <2>3 DEF JobsChecked, Busy, Passed, Follows
  <2> QED BY <2>4, <2>5
<1>5. ASSUME NEW w \in Workers, Stop(w) PROVE TypeOK' /\ JobsChecked'
  <2>1. job' \in [Workers -> Jobs \cup {Idle}]
    BY <1>5 DEF Stop, TypeOK
  <2>2. /\ UNCHANGED <<cases, active, crossed>> /\ halted' \subseteq Cases
        /\ job'[w] = Idle /\ \A v \in Workers : v # w => job'[v] = job[v]
    BY <1>5, StopStep DEF TypeOK
  <2> QED BY <2>1, <2>2 DEF TypeOK, JobsChecked, Busy, Passed, Follows
<1>6. ASSUME NEW c \in Cases, NEW row \in Edits, EditCase(c, row) PROVE TypeOK' /\ JobsChecked'
  BY <1>6, EditStep DEF TypeOK, JobsChecked, Busy, Passed, Follows
<1>7. CASE UNCHANGED vars
  BY <1>7 DEF vars, TypeOK, JobsChecked, Busy, Passed, Follows
<1> QED BY <1>1, <1>2, <1>3, <1>4, <1>5, <1>6, <1>7 DEF Next

-----------------------------------------------------------------------------
(* Rows.                                                                   *)

\* A request that does not cross another leaves the row in step; it does not
\* touch a case that was lifted, and decides only one without a decision.
LEMMA SavedRow ==
  ASSUME NEW row \in Rows, RowInStep(row), NEW j \in Jobs, Passed(j), j.saw = row
  PROVE  /\ RowInStep(Written(row, j))
         /\ row.appeal # "approved"
         /\ row.decision # "none" => /\ j.op \in {"appeal", "resolve"}
                                     /\ Written(row, j).decision = row.decision
         /\ Written(row, j).decision # row.decision => j.op = "decide"
<1>1. CASE j.op = "review"
  BY <1>1, WrittenRow DEF Passed, RowInStep
<1>2. CASE j.op = "decide"
  BY <1>2, WrittenRow DEF Passed, RowInStep
<1>3. CASE j.op = "appeal"
  BY <1>3, WrittenRow DEF Passed, RowInStep
<1>4. CASE j.op = "resolve"
  BY <1>4, WrittenRow DEF Passed, RowInStep
<1> QED BY <1>1, <1>2, <1>3, <1>4 DEF Jobs

LEMMA RowsHold ==
  ASSUME TypeOK, JobsChecked, RowsInStep, [Next]_vars
  PROVE  RowsInStep'
<1>1. ASSUME NEW c \in Cases, OpenCase(c) PROVE RowsInStep'
  BY <1>1 DEF OpenCase, TypeOK, RowsInStep, RowInStep, Opened, Unopened
<1>2. ASSUME NEW w \in Workers, SaveCase(w) PROVE RowsInStep'
  <2>1. PICK c, row : c = job[w].case /\ row = Written(cases[c], job[w])
    OBVIOUS
  <2>2. /\ c \in Cases /\ job[w] \in Jobs /\ Passed(job[w]) /\ cases[c] \in Rows
        /\ cases' = [cases EXCEPT ![c] = row]
        /\ crossed \subseteq crossed'
        /\ c \notin crossed' => cases[c] = job[w].saw
    BY <1>2, <2>1, SaveCaseStep
  <2>3. ASSUME c \notin crossed' PROVE RowInStep(row)
    <3>1. RowInStep(cases[c])
      BY <2>2, <2>3 DEF RowsInStep
    <3>2. RowInStep(Written(cases[c], job[w]))
      BY <2>2, <2>3, <3>1, SavedRow
    <3> QED BY <2>1, <3>2
  <2>4. ASSUME NEW d \in Cases, d \notin crossed' PROVE RowInStep(cases'[d])
    <3>1. CASE d = c
      BY <2>2, <2>3, <2>4, <3>1 DEF TypeOK
    <3>2. CASE d # c
      BY <2>2, <2>4, <3>2 DEF TypeOK, RowsInStep
    <3> QED BY <3>1, <3>2
  <2> QED BY <2>4 DEF RowsInStep, RowInStep
<1>3. ASSUME cases' = cases, crossed \subseteq crossed' PROVE RowsInStep'
  BY <1>3 DEF RowsInStep
<1>4. ASSUME NEW c \in Cases, NEW w \in Workers, Begin(w, c) PROVE RowsInStep'
  BY <1>3, <1>4, BeginStep
<1>5. ASSUME NEW w \in Workers, SaveAccount(w) PROVE RowsInStep'
  BY <1>3, <1>5, SaveAccountStep
<1>6. ASSUME NEW w \in Workers, Stop(w) PROVE RowsInStep'
  BY <1>3, <1>6, StopStep
<1>7. ASSUME NEW c \in Cases, NEW row \in Edits, EditCase(c, row) PROVE RowsInStep'
  BY <1>7, EditStep DEF RowsInStep, RowInStep
<1>8. CASE UNCHANGED vars
  BY <1>3, <1>8 DEF vars
<1> QED BY <1>1, <1>2, <1>4, <1>5, <1>6, <1>7, <1>8 DEF Next

-----------------------------------------------------------------------------
(* Accounts.                                                               *)

AccountsInStep == SuspendedForACase /\ ActiveDespiteACase

\* A step that changes neither an account nor who is about to, and of the users
\* still untouched no case that suspends.
LEMMA QuietStep ==
  ASSUME AccountsInStep, active' = active,
         crossed \subseteq crossed', halted \subseteq halted',
         \A c \in Cases : \/ cases'[c] = cases[c] \/ ~(Suspends(c) \/ Suspends(c)')
                         \/ c \in crossed',
         \A u \in Users, w \in Workers, op \in {"decide", "resolve"} :
           Untouched(u)' => (To(w, op, u) => To(w, op, u)')
  PROVE  AccountsInStep'
<1>1. \A u \in Users : Untouched(u)' => Untouched(u)
  BY DEF Untouched, CasesAbout
<1>2. \A c \in Cases \ crossed' : /\ Suspends(c) <=> Suspends(c)'
                                  /\ Lifted(c) <=> Lifted(c)'
  BY DEF Suspends, Lifted
<1> DEFINE Same(u) == \A c \in CasesAbout(u) : /\ Suspends(c) <=> Suspends(c)'
                                               /\ Lifted(c) <=> Lifted(c)'
<1>3. \A u \in Users : Untouched(u)' => Same(u)
  BY <1>2 DEF Untouched, CasesAbout
<1>4. SuspendedForACase'
  BY <1>1, <1>3 DEF AccountsInStep, SuspendedForACase, CasesAbout
<1>5. ActiveDespiteACase'
  BY <1>1, <1>3 DEF AccountsInStep, ActiveDespiteACase, CasesAbout
<1> QED BY <1>4, <1>5 DEF AccountsInStep

LEMMA SavedCaseAccounts ==
  ASSUME TypeOK, JobsChecked, RowsInStep, AccountsInStep, NEW w \in Workers, SaveCase(w)
  PROVE  AccountsInStep'
<1>1. PICK c, row : c = job[w].case /\ row = Written(cases[c], job[w])
  OBVIOUS
<1>2. /\ c \in Cases /\ job[w] \in Jobs /\ job[w].at = "save" /\ Passed(job[w])
      /\ cases[c] \in Rows /\ row \in Rows
      /\ cases' = [cases EXCEPT ![c] = row]
      /\ active' = active /\ halted' = halted /\ crossed \subseteq crossed'
      /\ c \notin crossed' => cases[c] = job[w].saw
      /\ \A v \in Workers : v # w => job'[v] = job[v]
  BY <1>1, SaveCaseStep
<1>3. ChangesAccount(job[w]) =>
        /\ job'[w] \in Jobs /\ job'[w].at = "account" /\ job'[w].op = job[w].op
        /\ job'[w].case = c
  BY <1>1, SaveCaseStep
<1>4. ChangesAccount(job[w]) =>
        \A op \in {"decide", "resolve"} : op = job[w].op => To(w, op, About[c])'
  BY <1>3, IdleIsNoJob DEF To, Busy
<1>5. \A v \in Workers, op \in {"decide", "resolve"}, u \in Users :
        To(v, op, u) => To(v, op, u)'
  BY <1>2 DEF To, Busy
<1>6. \A d \in Cases : d # c => /\ Suspends(d) <=> Suspends(d)'
                                /\ Lifted(d) <=> Lifted(d)'
  BY <1>2 DEF Suspends, Lifted, TypeOK
<1>7. cases'[c] = row
  BY <1>2 DEF TypeOK
<1>8. ASSUME c \notin crossed'
      PROVE  /\ ~Lifted(c)
             /\ Suspends(c) => /\ Suspends(c)'
                               /\ Lifted(c)' => job[w].op = "resolve" /\ ChangesAccount(job[w])
             /\ ~Suspends(c) /\ Suspends(c)' => job[w].op = "decide" /\ ChangesAccount(job[w])
  <2>1. RowInStep(cases[c]) /\ cases[c] = job[w].saw
    BY <1>2, <1>8 DEF RowsInStep
  <2>2. /\ cases[c].appeal # "approved"
        /\ cases[c].decision # "none" => /\ job[w].op \in {"appeal", "resolve"}
                                         /\ row.decision = cases[c].decision
        /\ row.decision # cases[c].decision => job[w].op = "decide"
    BY <1>1, <1>2, <2>1, SavedRow
  <2>3. ~Lifted(c)
    BY <2>2 DEF Lifted
  <2>4. ASSUME Suspends(c)
        PROVE  Suspends(c)' /\ (Lifted(c)' => job[w].op = "resolve" /\ ChangesAccount(job[w]))
    <3>1. cases[c].decision = "suspension" /\ row.decision = "suspension"
      BY <2>2, <2>4 DEF Suspends
    <3>2. Suspends(c)'
      BY <3>1, <1>7 DEF Suspends
    <3>3. ASSUME Lifted(c)' PROVE job[w].op = "resolve" /\ ChangesAccount(job[w])
      <4>1. row.appeal = "approved"
        BY <3>3, <1>7 DEF Lifted
      <4>2. job[w].op = "resolve" /\ row.appeal = job[w].to
        BY <1>1, <1>2, <2>2, <3>1, <4>1, WrittenRow
      <4> QED BY <2>1, <3>1, <4>1, <4>2 DEF ChangesAccount
    <3> QED BY <3>2, <3>3
  <2>5. ASSUME ~Suspends(c), Suspends(c)' PROVE job[w].op = "decide" /\ ChangesAccount(job[w])
    <3>1. row.decision = "suspension" /\ cases[c].decision # "suspension"
      BY <2>5, <1>7 DEF Suspends
    <3>2. job[w].op = "decide" /\ row.decision = job[w].to
      BY <1>1, <1>2, <2>2, <3>1, WrittenRow
    <3> QED BY <3>1, <3>2 DEF ChangesAccount
  <2> QED BY <2>3, <2>4, <2>5
<1>9. \A u \in Users : Untouched(u)' => /\ Untouched(u)
                                        /\ c \in CasesAbout(u) => c \notin crossed'
  BY <1>2 DEF Untouched, CasesAbout
<1>10. ASSUME NEW u \in Users, Untouched(u)', ~active'[u]
       PROVE  \/ \E d \in CasesAbout(u) : Suspends(d)' /\ ~Lifted(d)'
              \/ \E v \in Workers : To(v, "resolve", u)'
  <2>1. CASE \E v \in Workers : To(v, "resolve", u)
    BY <1>5, <2>1
  <2>2. ASSUME NEW d \in CasesAbout(u), Suspends(d), ~Lifted(d)
        PROVE  \/ Suspends(d)' /\ ~Lifted(d)'
               \/ \E v \in Workers : To(v, "resolve", u)'
    <3>1. CASE d # c
      BY <1>6, <2>2, <3>1 DEF CasesAbout
    <3>2. CASE d = c
      BY <1>4, <1>8, <1>9, <1>10, <2>2, <3>2 DEF CasesAbout
    <3> QED BY <3>1, <3>2
  <2> QED BY <1>2, <1>9, <1>10, <2>1, <2>2 DEF AccountsInStep, SuspendedForACase
<1>11. ASSUME NEW u \in Users, Untouched(u)', active'[u],
              NEW d \in CasesAbout(u), Suspends(d)', ~Lifted(d)'
       PROVE  \/ \E e \in CasesAbout(u) : Lifted(e)'
              \/ \E v \in Workers : To(v, "decide", u)'
  <2>1. CASE d = c /\ ~Suspends(c)
    BY <1>4, <1>8, <1>9, <1>11, <2>1 DEF CasesAbout
  <2>2. CASE ~(d = c /\ ~Suspends(c))
    <3>1. Suspends(d) /\ ~Lifted(d)
      BY <1>6, <1>8, <1>9, <1>11, <2>2 DEF CasesAbout
    <3>2. \/ \E e \in CasesAbout(u) : Lifted(e)
          \/ \E v \in Workers : To(v, "decide", u)
      BY <1>2, <1>9, <1>11, <3>1 DEF AccountsInStep, ActiveDespiteACase
    <3>3. ASSUME NEW e \in CasesAbout(u), Lifted(e) PROVE Lifted(e)'
      BY <1>6, <1>8, <1>9, <1>11, <3>3 DEF CasesAbout
    <3> QED BY <1>5, <3>2, <3>3
  <2> QED BY <2>1, <2>2
<1>12. \A u : CasesAbout(u)' = CasesAbout(u)
  BY DEF CasesAbout
<1> QED BY <1>10, <1>11, <1>12 DEF AccountsInStep, SuspendedForACase, ActiveDespiteACase

LEMMA SavedAccountAccounts ==
  ASSUME TypeOK, JobsChecked, AccountsInStep, NEW w \in Workers, SaveAccount(w)
  PROVE  AccountsInStep'
<1>1. PICK c : c = job[w].case
  OBVIOUS
<1>2. /\ c \in Cases /\ Busy(w) /\ job[w] \in Jobs /\ job[w].at = "account"
      /\ cases' = cases /\ halted' = halted /\ About[c] \in Users
      /\ active' = [active EXCEPT ![About[c]] = (job[w].op = "resolve")]
      /\ crossed \subseteq crossed'
      /\ c \notin crossed' => cases[c] = job[w].saw
      /\ job'[w] = Idle
      /\ \A v \in Workers : v # w => job'[v] = job[v]
  BY <1>1, SaveAccountStep
<1>3. \A d \in Cases : (Suspends(d) <=> Suspends(d)') /\ (Lifted(d) <=> Lifted(d)')
  BY <1>2 DEF Suspends, Lifted
<1>4. \A u \in Users : u # About[c] =>
        /\ active'[u] = active[u]
        /\ \A v \in Workers, op \in {"decide", "resolve"} : To(v, op, u) => To(v, op, u)'
  BY <1>1, <1>2 DEF TypeOK, To, Busy
<1>5. \A u \in Users : Untouched(u)' => /\ Untouched(u)
                                        /\ u = About[c] => c \notin crossed'
  BY <1>2 DEF Untouched, CasesAbout
<1>6. c \notin crossed' =>
        /\ Suspends(c)
        /\ Lifted(c) <=> job[w].op = "resolve"
  BY <1>1, <1>2 DEF JobsChecked, Follows, Suspends, Lifted
<1>7. \/ active'[About[c]] = TRUE /\ job[w].op = "resolve"
      \/ active'[About[c]] = FALSE /\ job[w].op # "resolve"
  BY <1>2 DEF TypeOK
<1>8. ASSUME NEW u \in Users, Untouched(u)', ~active'[u]
      PROVE  \/ \E d \in CasesAbout(u) : Suspends(d)' /\ ~Lifted(d)'
             \/ \E v \in Workers : To(v, "resolve", u)'
  <2>1. CASE u = About[c]
    BY <1>2, <1>3, <1>5, <1>6, <1>7, <1>8, <2>1 DEF CasesAbout
  <2>2. CASE u # About[c]
    <3>1. ~active[u] /\ Untouched(u)
      BY <1>4, <1>5, <1>8, <2>2
    <3> QED BY <1>3, <1>4, <2>2, <3>1 DEF AccountsInStep, SuspendedForACase, CasesAbout
  <2> QED BY <2>1, <2>2
<1>9. ASSUME NEW u \in Users, Untouched(u)', active'[u],
             NEW d \in CasesAbout(u), Suspends(d)', ~Lifted(d)'
      PROVE  \/ \E e \in CasesAbout(u) : Lifted(e)'
             \/ \E v \in Workers : To(v, "decide", u)'
  <2>1. CASE u = About[c]
    BY <1>2, <1>3, <1>5, <1>6, <1>7, <1>9, <2>1 DEF CasesAbout
  <2>2. CASE u # About[c]
    <3>1. active[u] /\ Untouched(u) /\ Suspends(d) /\ ~Lifted(d)
      BY <1>3, <1>4, <1>5, <1>9, <2>2 DEF CasesAbout
    <3> QED BY <1>3, <1>4, <2>2, <3>1 DEF AccountsInStep, ActiveDespiteACase, CasesAbout
  <2> QED BY <2>1, <2>2
<1>10. \A u : CasesAbout(u)' = CasesAbout(u)
  BY DEF CasesAbout
<1> QED BY <1>8, <1>9, <1>10 DEF AccountsInStep, SuspendedForACase, ActiveDespiteACase

LEMMA AccountsHold ==
  ASSUME TypeOK, JobsChecked, RowsInStep, AccountsInStep, [Next]_vars
  PROVE  AccountsInStep'
<1>1. ASSUME NEW c \in Cases, OpenCase(c) PROVE AccountsInStep'
  BY <1>1, QuietStep DEF OpenCase, TypeOK, Suspends, Opened, Unopened, To, Busy
<1>2. ASSUME NEW c \in Cases, NEW w \in Workers, Begin(w, c) PROVE AccountsInStep'
  <2>1. /\ UNCHANGED <<cases, active, crossed, halted>> /\ ~Busy(w)
        /\ \A v \in Workers : v # w => job'[v] = job[v]
    BY <1>2, BeginStep DEF TypeOK
  <2>2. \A u \in Users, v \in Workers, op \in {"decide", "resolve"} :
          To(v, op, u) => To(v, op, u)'
    BY <2>1 DEF To, Busy
  <2> QED BY <2>1, <2>2, QuietStep
<1>3. ASSUME NEW w \in Workers, SaveCase(w) PROVE AccountsInStep'
  BY <1>3, SavedCaseAccounts
<1>4. ASSUME NEW w \in Workers, SaveAccount(w) PROVE AccountsInStep'
  BY <1>4, SavedAccountAccounts
<1>5. ASSUME NEW w \in Workers, Stop(w) PROVE AccountsInStep'
  <2>1. /\ UNCHANGED <<cases, active, crossed>> /\ job[w].case \in Cases
        /\ halted \subseteq halted'
        /\ job[w].at = "account" => job[w].case \in halted'
        /\ \A v \in Workers : v # w => job'[v] = job[v]
    BY <1>5, StopStep
  <2>2. \A u \in Users, op \in {"decide", "resolve"} : To(w, op, u) => ~Untouched(u)'
    BY <2>1 DEF To, Untouched, CasesAbout
  <2>3. \A u \in Users, v \in Workers, op \in {"decide", "resolve"} :
          v # w => (To(v, op, u) => To(v, op, u)')
    BY <2>1 DEF To, Busy
  <2>4. \A u \in Users, v \in Workers, op \in {"decide", "resolve"} :
          Untouched(u)' => (To(v, op, u) => To(v, op, u)')
    BY <2>2, <2>3
  <2> QED BY <2>1, <2>4, QuietStep
<1>6. ASSUME NEW c \in Cases, NEW row \in Edits, EditCase(c, row) PROVE AccountsInStep'
  <2>1. /\ UNCHANGED <<active, job, halted>> /\ crossed \subseteq crossed'
        /\ \A d \in Cases : cases'[d] = cases[d] \/ d \in crossed'
    BY <1>6, EditStep
  <2> QED BY <2>1, QuietStep DEF To, Busy
<1>7. CASE UNCHANGED vars
  BY <1>7, QuietStep DEF vars, To, Busy
<1> QED BY <1>1, <1>2, <1>3, <1>4, <1>5, <1>6, <1>7 DEF Next

-----------------------------------------------------------------------------
(* The theorems.                                                           *)

LEMMA Inductive == Spec => []IInv
<1>1. Init => IInv
  <2> SUFFICES ASSUME Init PROVE IInv
    OBVIOUS
  <2>1. Unopened \in Rows
    BY DEF Unopened, Rows
  <2>2. TypeOK
    BY <2>1 DEF Init, TypeOK
  <2>3. JobsChecked /\ RowsInStep
    BY DEF Init, JobsChecked, Busy, RowsInStep, RowInStep, Unopened
  <2>4. SuspendedForACase /\ ActiveDespiteACase
    BY DEF Init, SuspendedForACase, ActiveDespiteACase, Suspends, Unopened, CasesAbout
  <2> QED BY <2>2, <2>3, <2>4 DEF IInv
<1>2. IInv /\ [Next]_vars => IInv'
  BY TypesHold, RowsHold, AccountsHold DEF IInv, AccountsInStep
<1> QED BY <1>1, <1>2, PTL DEF Spec

\* Every column of a case keeps its choices (models.py), whichever requests
\* meet.
THEOREM ModerationTypes == Spec => []TypeOK
BY Inductive, PTL DEF IInv

\* An account is suspended for a case that suspends it and has not been lifted,
\* and active when no case suspends it or an appeal was approved in one of
\* those that do, though the others still stand (services.py decide_case,
\* resolve_appeal) - while no request crosses another or is cut short and no
\* case about the user is written by hand.
THEOREM AccountsFollow == Spec => []AccountsFollowCases
<1>1. IInv => AccountsFollowCases
  <2> SUFFICES ASSUME IInv, NEW u \in Users, Settled(u)
               PROVE  /\ ~active[u] => \E c \in CasesAbout(u) : Suspends(c) /\ ~Lifted(c)
                      /\ active[u] => \A c \in CasesAbout(u) : Suspends(c) /\ ~Lifted(c) =>
                                        \E d \in CasesAbout(u) : Lifted(d)
    BY DEF AccountsFollowCases
  <2>1. Untouched(u) /\ \A w \in Workers, op \in {"decide", "resolve"} : ~To(w, op, u)
    BY DEF Settled, Untouched, To, Busy
  <2> QED BY <2>1 DEF IInv, SuspendedForACase, ActiveDespiteACase
<1> QED BY <1>1, Inductive, PTL

\* A case goes forward and keeps its decision (the checks of services.py),
\* unless a request saves it that had read it before another one did, or staff
\* write it by hand.
THEOREM Forward == Spec => CasesGoForward
<1>1. ASSUME IInv, [Next]_vars
      PROVE  [\A c \in Cases \ crossed' :
                /\ Stage(cases[c].status) <= Stage(cases'[c].status)
                /\ cases[c].decision # "none" => cases'[c].decision = cases[c].decision]_vars
  <2> SUFFICES ASSUME NEW c \in Cases, c \notin crossed'
               PROVE  /\ Stage(cases[c].status) <= Stage(cases'[c].status)
                      /\ cases[c].decision # "none" => cases'[c].decision = cases[c].decision
    OBVIOUS
  <2>1. cases[c] \in Rows /\ Stage(cases[c].status) \in 0..5
    BY <1>1, Stages DEF IInv, TypeOK, Rows
  <2>2. CASE cases'[c] = cases[c]
    BY <2>1, <2>2
  <2>3. ASSUME NEW d \in Cases, OpenCase(d)
        PROVE  /\ Stage(cases[c].status) <= Stage(cases'[c].status)
               /\ cases[c].decision # "none" => cases'[c].decision = cases[c].decision
    <3>1. CASE d = c
      BY <1>1, <2>3, <3>1, Stages DEF IInv, TypeOK, OpenCase, Opened, Unopened
    <3>2. CASE d # c
      BY <1>1, <2>2, <2>3, <3>2 DEF IInv, TypeOK, OpenCase
    <3> QED BY <3>1, <3>2
  <2>4. ASSUME NEW w \in Workers, SaveCase(w)
        PROVE  /\ Stage(cases[c].status) <= Stage(cases'[c].status)
               /\ cases[c].decision # "none" => cases'[c].decision = cases[c].decision
    <3>1. PICK d, row : d = job[w].case /\ row = Written(cases[d], job[w])
      OBVIOUS
    <3>2. /\ d \in Cases /\ job[w] \in Jobs /\ Passed(job[w]) /\ cases[d] \in Rows
          /\ cases' = [cases EXCEPT ![d] = row] /\ crossed \subseteq crossed'
          /\ d \notin crossed' => cases[d] = job[w].saw
      BY <1>1, <2>4, <3>1, SaveCaseStep DEF IInv
    <3>3. CASE d = c
      <4>1. cases[c] = job[w].saw /\ cases'[c] = Written(cases[c], job[w])
        BY <1>1, <3>1, <3>2, <3>3 DEF IInv, TypeOK
      <4>2. RowInStep(cases[c])
        BY <1>1, <3>2 DEF IInv, RowsInStep
      <4>3. Stage(cases[c].status) <= Stage(Written(cases[c], job[w]).status)
        BY <3>2, <3>3, <4>1, WrittenRow
      <4>4. cases[c].decision # "none" =>
              Written(cases[c], job[w]).decision = cases[c].decision
        BY <3>2, <3>3, <4>1, <4>2, SavedRow
      <4> QED BY <4>1, <4>3, <4>4
    <3>4. CASE d # c
      BY <1>1, <2>2, <3>2, <3>4 DEF IInv, TypeOK
    <3> QED BY <3>3, <3>4
  <2>5. ASSUME NEW d \in Cases, NEW w \in Workers, Begin(w, d) PROVE cases' = cases
    BY <1>1, <2>5, BeginStep DEF IInv
  <2>6. ASSUME NEW w \in Workers, SaveAccount(w) \/ Stop(w) PROVE cases' = cases
    BY <2>6 DEF SaveAccount, Stop
  <2>7. ASSUME NEW d \in Cases, NEW row \in Edits, EditCase(d, row)
        PROVE  cases'[c] = cases[c]
    BY <1>1, <2>7, EditStep DEF IInv
  <2>8. CASE UNCHANGED vars
    BY <2>2, <2>8 DEF vars
  <2> QED BY <1>1, <2>2, <2>3, <2>4, <2>5, <2>6, <2>7, <2>8 DEF Next
<1> QED BY <1>1, Inductive, PTL DEF Spec, CasesGoForward
=============================================================================
