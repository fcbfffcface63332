--------------------------- MODULE ServiceRequests ---------------------------
(***************************************************************************)
(* The requests app with every handler, and every pass of the sweep, as    *)
(* one step: what it does when nothing interferes.  RequestHandlers shows  *)
(* what changes when the statements of different handlers interleave.      *)
(***************************************************************************)
EXTENDS RequestModel

vars == <<now, tables>>

Init == InitTables

-----------------------------------------------------------------------------
\* ServiceRequestCreateView.form_valid with ServiceRequest.save.
Publish(r, w) ==
  /\ now + w <= LastTime                                  \* bound
  /\ status[r] = "none"
  /\ ~SaveRefused(r)
  /\ MayPublish(ClientOf[r])
  /\ status' = [status EXCEPT ![r] = "open"]
  /\ publishedAt' = [publishedAt EXCEPT ![r] = now]
  /\ expiresAt' = [expiresAt EXCEPT ![r] = now + w]
  /\ UNCHANGED <<now, closedAt, interest, conversation, told, cut>>

\* InterestCreateView.form_valid with Interest.save: one interest per
\* professional (unique_interest_per_request), whatever became of it.
Apply(r, p) ==
  /\ Receiving(r)
  /\ interest[r][p] = "none"
  /\ interest' = [interest EXCEPT ![r][p] = "applied"]
  /\ UNCHANGED <<now, status, publishedAt, expiresAt, closedAt,
                 conversation, told, cut>>

\* Mutant: the status of the interest is not checked.
WithdrawUnchecked(r, p) ==
  /\ interest[r][p] # "none"
  /\ Receiving(r)
  /\ interest' = [interest EXCEPT ![r][p] = "withdrawn"]
  /\ UNCHANGED <<now, status, publishedAt, expiresAt, closedAt,
                 conversation, told, cut>>

\* withdraw_interest; the guard on the request is Interest.clean's.
Withdraw(r, p) ==
  /\ interest[r][p] = "applied"
  /\ Receiving(r)
  /\ interest' = [interest EXCEPT ![r][p] = "withdrawn"]
  /\ UNCHANGED <<now, status, publishedAt, expiresAt, closedAt,
                 conversation, told, cut>>

\* select_interest.  The interest is saved, and the others are refused when
\* it took the last position, before the request is saved; when that save is
\* refused by the duplicate check the handler ends there.
Select(r, p) ==
  LET chosen == [interest[r] EXCEPT ![p] = "selected"]
      full   == Full(r, Cardinality(Having(chosen, "selected")))
      others == IF full THEN Remaining(chosen) ELSE {}
      warned == Tell(told[r], others, "not_selected")
  IN
  /\ Receiving(r)
  /\ interest[r][p] = "applied"
  /\ interest' = [interest EXCEPT ![r] =
                    IF full THEN Finalized(chosen, "not_selected") ELSE chosen]
  /\ \/ /\ SaveRefused(r)
        /\ told' = [told EXCEPT ![r] = warned]
        /\ cut' = cut \cup {r}
        /\ UNCHANGED <<status, closedAt, conversation>>
     \/ /\ ~SaveRefused(r)
        /\ told' = [told EXCEPT ![r] = Tell(warned, {p}, "selected")]
        /\ status' = [status EXCEPT ![r] =
                        IF full THEN "filled" ELSE "partially_filled"]
        /\ closedAt' = [closedAt EXCEPT ![r] = IF full THEN now ELSE @]
        /\ conversation' = [conversation EXCEPT ![r] = @ \cup {p}]
        /\ UNCHANGED cut
  /\ UNCHANGED <<now, publishedAt, expiresAt>>

\* What close_request_now and one pass of the sweep do to the requests in R:
\* the remaining applicants get their answer, then the row is saved, which
\* the duplicate check refuses for some.
EndRequests(R) ==
  LET end(r)  == EndStatus(r, Cardinality(Selected(r)))
      last(r) == EndInterest(end(r))
      saved   == {r \in R : ~SaveRefused(r)}
  IN
  /\ interest' = [r \in Requests |->
        IF r \in R THEN Finalized(interest[r], last(r)) ELSE interest[r]]
  /\ told' = [r \in Requests |->
        IF r \in R THEN Tell(told[r], Remaining(interest[r]), last(r))
                   ELSE told[r]]
  /\ status' = [r \in Requests |-> IF r \in saved THEN end(r) ELSE status[r]]
  /\ closedAt' = [r \in Requests |-> IF r \in saved THEN now ELSE closedAt[r]]
  /\ UNCHANGED <<now, publishedAt, expiresAt, conversation, cut>>

\* close_request_now
Close(r) == Receiving(r) /\ EndRequests({r})

\* cancel_request: here the row is saved first, so that a refused save leaves
\* everything as it was, and only then the applicants are answered.
Cancel(r) ==
  /\ status[r] \notin {"none", "cancelled", "completed"}
  /\ ~SaveRefused(r)
  /\ status' = [status EXCEPT ![r] = "cancelled"]
  /\ closedAt' = [closedAt EXCEPT ![r] = now]
  /\ interest' = [interest EXCEPT ![r] = Finalized(@, "expired")]
  /\ told' = [told EXCEPT ![r] =
                Tell(@, Remaining(interest[r]), "cancelled")]
  /\ UNCHANGED <<now, publishedAt, expiresAt, conversation, cut>>

\* The requests a pass of expire_due_requests gets to: the newest first
\* (Meta.ordering), up to the first whose save is refused, since nothing
\* catches the exception.  A request that makes another's save refused is
\* not due itself (DuplicateWindow is shorter than every window), so what
\* the pass does to one request does not free another.
ReachedBySweep(R) ==
  LET due   == {r \in Requests : Due(r)}
      stuck == {r \in due : SaveRefused(r)}
  IN
  /\ R \subseteq due
  /\ \/ stuck = {} /\ R = due
     \/ \E b \in stuck :
          /\ R \cap stuck = {b}
          /\ \A r \in due :
               /\ publishedAt[r] > publishedAt[b] => r \in R
               /\ r \in R => publishedAt[r] >= publishedAt[b]

\* expire_due_requests, by Celery beat every 30 seconds whether or not
\* something is due.
Sweep ==
  \E R \in SUBSET Requests : ReachedBySweep(R) /\ EndRequests(R)

Next ==
  \/ Tick
  \/ Sweep
  \/ \E r \in Requests, w \in Windows : Publish(r, w)
  \/ \E r \in Requests, p \in Professionals :
       Apply(r, p) \/ Withdraw(r, p) \/ Select(r, p)
  \/ \E r \in Requests : Close(r) \/ Cancel(r)

Spec == Init /\ [][Next]_vars

\* Time passes, and Celery beat keeps starting the sweep.  Users owe nothing.
FairSpec == Spec /\ WF_vars(Tick) /\ WF_vars(Sweep)

-----------------------------------------------------------------------------
(* Safety.                                                                 *)

\* The status says how many were selected, and never more than the positions
\* asked for: select_interest, close_request_now and the sweep each recount.
\* It fails only after a selection was cut short.
StatusMatchesSelection ==
  \A r \in Requests \ cut :
    LET n == Cardinality(Selected(r)) IN
    /\ status[r] \in {"none", "open", "expired"} => n = 0
    /\ status[r] = "partially_filled" => n > 0 /\ n < Positions[r]
    /\ status[r] = "filled" => n = Positions[r]
    /\ n <= Positions[r]

\* Nobody is left applied to a request that no longer takes selections, from
\* which withdraw_interest could not free him either.
ApplicantsAnswered ==
  \A r \in Requests :
    Having(interest[r], "applied") # {} => Receiving(r)

\* Who may chat about a request (Conversation) is who was selected for it;
\* a cut-short selection leaves a professional selected and without a chat.
ConversationsMatchSelection ==
  \A r \in Requests :
    /\ conversation[r] \subseteq Selected(r)
    /\ r \notin cut => conversation[r] = Selected(r)

\* Every answer the tables show was also notified, with the notice that goes
\* with it, except the one of a cut-short selection.
AnswersAreTold ==
  \A r \in Requests, p \in Professionals :
    /\ interest[r][p] = "not_selected" => "not_selected" \in told[r][p]
    /\ interest[r][p] = "expired" =>
         told[r][p] \cap {"expired", "cancelled"} # {}
    /\ interest[r][p] = "selected" /\ r \notin cut =>
         "selected" \in told[r][p]

\* What the tables mean to the users, and that the app keeps what Recruitment
\* promises them.
PhaseOf(s) ==
  CASE s = "none" -> "unpublished"
    [] s \in ReceivingStatus -> "receiving"
    [] OTHER -> "over"

AnswerOf(i) ==
  CASE i = "selected" -> "hired"
    [] i = "withdrawn" -> "gone"
    [] i \in {"not_selected", "expired"} -> "refused"
    [] OTHER -> i

phase == [r \in Requests |-> PhaseOf(status[r])]
AnswersOf(ints) == [p \in Professionals |-> AnswerOf(ints[p])]
answer == [r \in Requests |-> AnswersOf(interest[r])]

Promise == INSTANCE Recruitment WITH phase <- phase, answer <- answer

KeepsPromise == Promise!Spec

-----------------------------------------------------------------------------
(* Liveness: what the sweep is for.                                        *)

\* Every published request is closed some day, by its client or by the sweep,
\* even if recent twins keep the sweep from saving it for a while.
RequestsEnd ==
  \A r \in Requests : (status[r] = "open") ~> (closedAt[r] # NoTime)

\* Every application gets an answer.
ApplicationsEnd ==
  \A r \in Requests, p \in Professionals :
    (interest[r][p] = "applied") ~> (interest[r][p] # "applied")

-----------------------------------------------------------------------------
(* What tests and messages of the repository say and the code does not do. *)

\* "Este chamado ja esta encerrado" (services.py:84): once closed, a request
\* takes no more interests and is not closed again.
ClosedMeansClosed ==
  \A r \in Requests : closedAt[r] # NoTime => ~Receiving(r)
=============================================================================
