----------------------------- MODULE Moderation ------------------------------
(***************************************************************************)
(* Moderation cases, appeals and the suspension of accounts                *)
(* (apps/moderation).  A request reads a case, checks it, and saves the    *)
(* fields it changes; a suspension, or an appeal against one that is       *)
(* approved, then saves the account in a statement of its own.  Admin      *)
(* actions work down a list of cases that was read before; one case of it  *)
(* is a job here, with the row as it was read.                             *)
(***************************************************************************)
EXTENDS Integers

CONSTANTS
  Workers,  \* requests the server can have under way
  Cases,
  Users,
  About,    \* [Cases -> Users], the reported user
  Edits     \* rows that staff write by hand, in the change form of the admin

VARIABLES
  cases,    \* rows; a case that has not been opened has status "none"
  active,   \* is_active of the accounts
  job,      \* of a worker: what it does to which case, and the row it read
  crossed,  \* history: cases a request saved, or whose account it saved, when
            \* the row was no longer the one it had read or written, and cases
            \* written by hand
  halted    \* history: cases whose account was not saved

vars == <<cases, active, job, crossed, halted>>

Decisions == {"dismissed", "warning", "suspension"}
Rows == [status : {"none", "open", "under_review", "decided", "appealed", "closed"},
         decision : Decisions \cup {"none"},
         appeal : {"none", "pending", "approved", "rejected"}]

ASSUME ModerationAssumption ==
  /\ About \in [Cases -> Users]
  /\ Edits \subseteq {row \in Rows : row.status # "none"}

Unopened == [status |-> "none", decision |-> "none", appeal |-> "none"]
Opened == [Unopened EXCEPT !.status = "open"]

Idle == [op |-> "idle"]
Jobs == [op : {"review", "decide", "appeal", "resolve"}, at : {"save", "account"},
         case : Cases, to : Decisions \cup {"none", "approved", "rejected"}, saw : Rows]

TypeOK ==
  /\ cases \in [Cases -> Rows]
  /\ active \in [Users -> BOOLEAN]
  /\ job \in [Workers -> Jobs \cup {Idle}]
  /\ crossed \subseteq Cases
  /\ halted \subseteq Cases

Init ==
  /\ cases = [c \in Cases |-> Unopened]
  /\ active = [u \in Users |-> TRUE]
  /\ job = [w \in Workers |-> Idle]
  /\ crossed = {}
  /\ halted = {}

OpenCase(c) ==
  /\ cases[c] = Unopened
  /\ cases' = [cases EXCEPT ![c] = Opened]
  /\ UNCHANGED <<active, job, crossed, halted>>

\* The change form saves what it shows, whatever the row says meanwhile; it
\* asks for no order of the statuses and leaves the account alone.
EditCase(c, row) ==
  /\ cases[c] # Unopened
  /\ cases' = [cases EXCEPT ![c] = row]
  /\ crossed' = crossed \cup {c}
  /\ UNCHANGED <<active, job, halted>>

-----------------------------------------------------------------------------
(* A request reads the case and checks the row.                            *)

Start(w, c, op, to) ==
  /\ job[w] = Idle
  /\ job' = [job EXCEPT ![w] = [op |-> op, at |-> "save", case |-> c, to |-> to,
                                saw |-> cases[c]]]
  /\ UNCHANGED <<cases, active, crossed, halted>>

StartReview(w, c) == cases[c].status = "open" /\ Start(w, c, "review", "none")

\* Mutant: a case may be decided again.
DecideAgain(w, c, d) ==
  cases[c].status \in {"open", "under_review", "decided"} /\ Start(w, c, "decide", d)

StartDecide(w, c, d) ==
  cases[c].status \in {"open", "under_review"} /\ Start(w, c, "decide", d)

\* The reported user appeals, who has to be logged in, and so active, when the
\* request comes in.
StartAppeal(w, c) ==
  /\ active[About[c]]
  /\ cases[c].status = "decided" /\ cases[c].appeal = "none"
  /\ Start(w, c, "appeal", "none")

StartResolve(w, c, to) == cases[c].status = "appealed" /\ Start(w, c, "resolve", to)

-----------------------------------------------------------------------------
(* It saves the case and then the account.                                 *)

\* The fields each operation saves (update_fields).
Written(row, j) ==
  CASE j.op = "review"  -> [row EXCEPT !.status = "under_review"]
    [] j.op = "decide"  -> [row EXCEPT !.status = "decided", !.decision = j.to]
    [] j.op = "appeal"  -> [row EXCEPT !.status = "appealed", !.appeal = "pending"]
    [] j.op = "resolve" -> [row EXCEPT !.status = "closed", !.appeal = j.to]

\* Mutant: a rejected appeal gives the account back as well.
ChangesAccountAnyway(j) ==
  \/ j.op = "decide" /\ j.to = "suspension"
  \/ j.op = "resolve" /\ j.saw.decision = "suspension"

\* By the row as it was read.
ChangesAccount(j) ==
  \/ j.op = "decide" /\ j.to = "suspension"
  \/ j.op = "resolve" /\ j.to = "approved" /\ j.saw.decision = "suspension"

Late(w) ==
  LET c == job[w].case IN
  crossed' = IF cases[c] = job[w].saw THEN crossed ELSE crossed \cup {c}

SaveCase(w) ==
  /\ job[w] # Idle /\ job[w].at = "save"
  /\ LET c == job[w].case
         row == Written(cases[c], job[w]) IN
     /\ cases' = [cases EXCEPT ![c] = row]
     /\ job' = [job EXCEPT ![w] =
                  IF ChangesAccount(job[w]) THEN [job[w] EXCEPT !.at = "account", !.saw = row]
                                            ELSE Idle]
  /\ Late(w)
  /\ UNCHANGED <<active, halted>>

SaveAccount(w) ==
  /\ job[w] # Idle /\ job[w].at = "account"
  /\ active' = [active EXCEPT ![About[job[w].case]] = (job[w].op = "resolve")]
  /\ job' = [job EXCEPT ![w] = Idle]
  /\ Late(w)
  /\ UNCHANGED <<cases, halted>>

\* The worker stops, or a statement fails.
Stop(w) ==
  /\ job[w] # Idle
  /\ job' = [job EXCEPT ![w] = Idle]
  /\ halted' = IF job[w].at = "account" THEN halted \cup {job[w].case} ELSE halted
  /\ UNCHANGED <<cases, active, crossed>>

Begin(w, c) ==
  \/ StartReview(w, c)
  \/ \E d \in Decisions : StartDecide(w, c, d)
  \/ StartAppeal(w, c)
  \/ \E to \in {"approved", "rejected"} : StartResolve(w, c, to)

Next ==
  \/ \E c \in Cases : OpenCase(c) \/ \E w \in Workers : Begin(w, c)
  \/ \E c \in Cases, row \in Edits : EditCase(c, row)
  \/ \E w \in Workers : SaveCase(w) \/ SaveAccount(w) \/ Stop(w)

Spec == Init /\ [][Next]_vars

-----------------------------------------------------------------------------
CasesAbout(u) == {c \in Cases : About[c] = u}
Suspends(c) == cases[c].decision = "suspension"
Lifted(c) == Suspends(c) /\ cases[c].appeal = "approved"

\* No request is between a case of the user and the account, none was cut short
\* there or crossed another one, and nobody has written a case by hand.
Settled(u) ==
  /\ CasesAbout(u) \cap (crossed \cup halted) = {}
  /\ \A w \in Workers : job[w] # Idle /\ job[w].at = "account" => About[job[w].case] # u

\* A suspended account has a case that suspends it and has not been lifted; an
\* active one has none, unless the appeal of another of its cases was approved,
\* which gives the account back whatever else suspends it.
AccountsFollowCases ==
  \A u \in Users : Settled(u) =>
    /\ ~active[u] => \E c \in CasesAbout(u) : Suspends(c) /\ ~Lifted(c)
    /\ active[u] => \A c \in CasesAbout(u) : Suspends(c) /\ ~Lifted(c) =>
                      \E d \in CasesAbout(u) : Lifted(d)

Stage(s) ==
  CASE s = "none" -> 0 [] s = "open" -> 1 [] s = "under_review" -> 2 [] s = "decided" -> 3
    [] s = "appealed" -> 4 [] s = "closed" -> 5

\* A case never goes back, and keeps its decision once it has one, unless a
\* request saves it that had read it before another one did, or staff write it
\* by hand.
CasesGoForward ==
  [][\A c \in Cases \ crossed' :
       /\ Stage(cases[c].status) <= Stage(cases'[c].status)
       /\ cases[c].decision # "none" => cases'[c].decision = cases[c].decision]_vars
=============================================================================
