----------------------------- MODULE Recruitment ----------------------------
(***************************************************************************)
(* What the requests app promises its two kinds of user, with no clock, no *)
(* save() and no sweep: a request receives applicants until it is over;    *)
(* being hired, refused or gone is an answer that stays; once a request is *)
(* over every applicant has an answer and nothing about it changes.        *)
(* ServiceRequests is shown to implement this module.                      *)
(***************************************************************************)
CONSTANTS Requests, Professionals

VARIABLES
  phase,   \* of a request
  answer   \* what a professional's application to a request has come to

vars == <<phase, answer>>

Phases == {"unpublished", "receiving", "over"}
Answers == {"none", "applied", "hired", "refused", "gone"}

TypeOK ==
  /\ phase \in [Requests -> Phases]
  /\ answer \in [Requests -> [Professionals -> Answers]]

Init ==
  /\ phase = [r \in Requests |-> "unpublished"]
  /\ answer = [r \in Requests |-> [p \in Professionals |-> "none"]]

Refused(row) ==
  [p \in Professionals |-> IF row[p] = "applied" THEN "refused" ELSE row[p]]

Publish(r) ==
  /\ phase[r] = "unpublished"
  /\ phase' = [phase EXCEPT ![r] = "receiving"]
  /\ UNCHANGED answer

Apply(r, p) ==
  /\ phase[r] = "receiving" /\ answer[r][p] = "none"
  /\ answer' = [answer EXCEPT ![r][p] = "applied"]
  /\ UNCHANGED phase

Leave(r, p) ==
  /\ phase[r] = "receiving" /\ answer[r][p] = "applied"
  /\ answer' = [answer EXCEPT ![r][p] = "gone"]
  /\ UNCHANGED phase

\* One applicant is hired and the others keep waiting.
Hire(r, p) ==
  /\ phase[r] = "receiving" /\ answer[r][p] = "applied"
  /\ answer' = [answer EXCEPT ![r][p] = "hired"]
  /\ UNCHANGED phase

\* The hired applicant takes the last position: the others are refused.  A
\* request that could not be ended along with it goes on receiving.
HireLast(r, p) ==
  /\ phase[r] = "receiving" /\ answer[r][p] = "applied"
  /\ answer' = [answer EXCEPT ![r] = Refused([@ EXCEPT ![p] = "hired"])]
  /\ \/ phase' = [phase EXCEPT ![r] = "over"]
     \/ UNCHANGED phase

\* The applicants of the requests in R are refused; those in E, among them,
\* are over.
Settle(R, E) ==
  /\ \A r \in R : phase[r] = "receiving"
  /\ E \subseteq R
  /\ phase' = [r \in Requests |-> IF r \in E THEN "over" ELSE phase[r]]
  /\ answer' = [r \in Requests |->
                  IF r \in R THEN Refused(answer[r]) ELSE answer[r]]

Next ==
  \/ \E r \in Requests : Publish(r)
  \/ \E r \in Requests, p \in Professionals :
       Apply(r, p) \/ Leave(r, p) \/ Hire(r, p) \/ HireLast(r, p)
  \/ \E R \in SUBSET Requests : \E E \in SUBSET R : Settle(R, E)

Spec == Init /\ [][Next]_vars

-----------------------------------------------------------------------------
\* Nobody waits for an answer about a request that is over.
OverMeansAnswered ==
  \A r \in Requests : phase[r] = "over" =>
     \A p \in Professionals : answer[r][p] # "applied"

\* A request that is over stays over, and the answers about it stand.
OverIsFinal ==
  [][\A r \in Requests : phase[r] = "over" =>
       phase'[r] = "over" /\ answer'[r] = answer[r]]_vars
=============================================================================
