--------------------------- MODULE RequestHandlers ---------------------------
(***************************************************************************)
(* The handlers of the requests app one database statement at a time.      *)
(* The project sets neither ATOMIC_REQUESTS nor transaction.atomic, so     *)
(* every statement commits by itself; web workers and Celery workers run   *)
(* them concurrently, deciding on rows they read earlier, and any of them  *)
(* may stop between two statements.                                        *)
(*                                                                         *)
(* A handler is a job that moves through the statements of its operation:  *)
(*   publish   insert                    (started by the duplicate check)  *)
(*   apply     insert                    (started by reading the request)  *)
(*   withdraw  load, leave               (started by reading the interest) *)
(*   select    load, choose, count, [refuse,] save, chat, notify           *)
(*   close     count, refuse, save       (started by reading the request)  *)
(*   cancel    save, refuse              (started by reading the request)  *)
(*   sweep     count, refuse, save for each row of the due list            *)
(* where refuse is list, update, notify of _finalize_remaining_interests.  *)
(* The duplicate check and the UPDATE of one save() are one step.          *)
(***************************************************************************)
EXTENDS RequestModel

CONSTANTS
  Workers,   \* web workers and Celery workers
  Crashes,   \* BOOLEAN: whether workers may stop halfway
  None       \* no request, no professional

ASSUME HandlerAssumption ==
  /\ Crashes \in BOOLEAN
  /\ None \notin Requests \cup Professionals

VARIABLE
  job   \* of a worker: what it is doing, and what it remembers of its reads

vars == <<now, tables, job>>

Ops == {"idle", "publish", "apply", "withdraw", "select", "close", "cancel",
        "sweep"}
Points == {"start", "insert", "load", "leave", "choose", "count", "list",
           "update", "notify", "save", "chat", "next"}

Idle == [op |-> "idle", at |-> "start", r |-> None, p |-> None,
         outcome |-> "none", notice |-> "none", listed |-> {}, todo |-> {},
         window |-> 0, stamp |-> NoTime]

Jobs ==
  [op : Ops, at : Points, r : Requests \cup {None},
   p : Professionals \cup {None},
   outcome : RequestStatus,             \* status the job will save
   notice : Notices \cup {"none"},      \* what it tells those in listed
   listed : SUBSET Professionals,       \* applicants it has listed
   todo : SUBSET Requests,              \* rows of the due list still to do
   window : Nat, stamp : Nat]           \* instants the job took from the clock

HandlerTypeOK == TypeOK /\ job \in [Workers -> Jobs]

Init == InitTables /\ job = [w \in Workers |-> Idle]

Begin(w, op, at, r, p) ==
  /\ job[w] = Idle
  /\ job' = [job EXCEPT ![w] = [Idle EXCEPT !.op = op, !.at = at,
                                            !.r = r, !.p = p, !.stamp = now]]

At(w, ops, at) == job[w].op \in ops /\ job[w].at = at
Goto(w, at) == job' = [job EXCEPT ![w].at = at]
Finish(w) == job' = [job EXCEPT ![w] = Idle]

SetInterest(r, p, s) == interest' = [interest EXCEPT ![r][p] = s]
OnlyInterest == UNCHANGED <<now, status, publishedAt, expiresAt, closedAt,
                            conversation, told, cut>>
OnlyJob == UNCHANGED <<now, tables>>

-----------------------------------------------------------------------------
(* The statement each operation starts with.  One that finds the operation *)
(* not allowed ends it at once and is not a step.                          *)

StartPublish(w, r, d) ==
  /\ now + d <= LastTime                                  \* bound
  /\ status[r] = "none"
  /\ \A v \in Workers : ~(job[v].op = "publish" /\ job[v].r = r)
  /\ ~SaveRefused(r)
  /\ MayPublish(ClientOf[r])
  /\ job[w] = Idle
  /\ job' = [job EXCEPT ![w] = [Idle EXCEPT !.op = "publish", !.at = "insert",
                                !.r = r, !.window = d, !.stamp = now]]
  /\ OnlyJob

StartApply(w, r, p) ==
  /\ Receiving(r) /\ interest[r][p] = "none"
  /\ Begin(w, "apply", "insert", r, p)
  /\ OnlyJob

StartWithdraw(w, r, p) ==
  /\ interest[r][p] = "applied"
  /\ Begin(w, "withdraw", "load", r, p)
  /\ OnlyJob

StartSelect(w, r, p) ==
  /\ interest[r][p] = "applied"
  /\ Begin(w, "select", "load", r, p)
  /\ OnlyJob

StartClose(w, r) ==
  /\ Receiving(r)
  /\ Begin(w, "close", "count", r, None)
  /\ OnlyJob

StartCancel(w, r) ==
  /\ status[r] \notin {"none", "cancelled", "completed"}
  /\ job[w] = Idle
  /\ job' = [job EXCEPT ![w] = [Idle EXCEPT !.op = "cancel", !.at = "save",
                                !.r = r, !.outcome = "cancelled", !.stamp = now]]
  /\ OnlyJob

\* The rows of the due list are read once, here.
StartSweep(w) ==
  /\ job[w] = Idle
  /\ job' = [job EXCEPT ![w] = [Idle EXCEPT !.op = "sweep", !.at = "next",
                                !.todo = {r \in Requests : Due(r)},
                                !.stamp = now]]
  /\ OnlyJob

-----------------------------------------------------------------------------
(* The other statements.                                                   *)

InsertRequest(w) ==
  LET r == job[w].r IN
  /\ At(w, {"publish"}, "insert")
  /\ status' = [status EXCEPT ![r] = "open"]
  /\ publishedAt' = [publishedAt EXCEPT ![r] = job[w].stamp]
  /\ expiresAt' = [expiresAt EXCEPT ![r] = job[w].stamp + job[w].window]
  /\ Finish(w)
  /\ UNCHANGED <<now, closedAt, interest, conversation, told, cut>>

\* The UNIQUE constraint turns a second INSERT of the pair away.
InsertInterest(w) ==
  LET r == job[w].r
      p == job[w].p IN
  /\ At(w, {"apply"}, "insert")
  /\ IF interest[r][p] = "none" THEN SetInterest(r, p, "applied")
                                ELSE UNCHANGED interest
  /\ Finish(w)
  /\ OnlyInterest

\* Mutant: the conversation is opened before the selection is saved.
LoadRequestThenChat(w) ==
  /\ At(w, {"select", "withdraw"}, "load")
  /\ IF ~Receiving(job[w].r) THEN Finish(w)
     ELSE Goto(w, IF job[w].op = "select" THEN "chat" ELSE "leave")
  /\ OnlyJob

\* The request of the interest at hand, read when the handler first uses it:
\* SelectInterestView's owner check, Interest.clean of a withdrawal.
LoadRequest(w) ==
  /\ At(w, {"select", "withdraw"}, "load")
  /\ IF ~Receiving(job[w].r) THEN Finish(w)
     ELSE Goto(w, IF job[w].op = "select" THEN "choose" ELSE "leave")
  /\ OnlyJob

\* UPDATE of the interest, without looking at what it has become.
SaveWithdrawn(w) ==
  /\ At(w, {"withdraw"}, "leave")
  /\ SetInterest(job[w].r, job[w].p, "withdrawn")
  /\ Finish(w)
  /\ OnlyInterest

SaveSelected(w) ==
  /\ At(w, {"select"}, "choose")
  /\ SetInterest(job[w].r, job[w].p, "selected")
  /\ Goto(w, "count")
  /\ OnlyInterest

\* Mutant: filling a request refuses nobody.
CountSelectedFillsSilently(w) ==
  LET r == job[w].r
      n == Cardinality(Selected(r))
      end == IF job[w].op # "select" THEN EndStatus(r, n)
             ELSE IF Full(r, n) THEN "filled" ELSE "partially_filled"
  IN
  /\ At(w, {"select", "close", "sweep"}, "count")
  /\ job' = [job EXCEPT ![w].outcome = end,
                        ![w].stamp = IF job[w].op = "sweep" THEN @ ELSE now,
                        ![w].at = IF job[w].op # "select" THEN "list" ELSE "save"]
  /\ OnlyJob
CountSelected(w) ==
  LET r == job[w].r
      n == Cardinality(Selected(r))
      end == IF job[w].op # "select" THEN EndStatus(r, n)
             ELSE IF Full(r, n) THEN "filled" ELSE "partially_filled"
      refuse == job[w].op # "select" \/ Full(r, n)
  IN
  /\ At(w, {"select", "close", "sweep"}, "count")
  /\ job' = [job EXCEPT ![w].outcome = end,
                        ![w].stamp = IF job[w].op = "sweep" THEN @ ELSE now,
                        ![w].at = IF refuse THEN "list" ELSE "save"]
  /\ OnlyJob

ListRemaining(w) ==
  /\ At(w, Ops, "list")
  /\ job' = [job EXCEPT ![w].listed = Remaining(interest[job[w].r]),
                        ![w].at = "update"]
  /\ OnlyJob

FinalInterest(w) ==
  IF job[w].op = "cancel" THEN "expired" ELSE EndInterest(job[w].outcome)

UpdateRemaining(w) ==
  LET r == job[w].r IN
  /\ At(w, Ops, "update")
  /\ interest' = [interest EXCEPT ![r] = Finalized(@, FinalInterest(w))]
  /\ job' = [job EXCEPT ![w].at = "notify",
               ![w].notice = IF job[w].op = "cancel" THEN "cancelled"
                                                     ELSE FinalInterest(w)]
  /\ OnlyInterest

\* dispatch_notification for each listed professional, a loop nobody else can
\* see midway unless it ends there (Crash); then a cancellation and a selection
\* that has had its chat are over.
Notify(w) ==
  LET r == job[w].r IN
  /\ At(w, Ops, "notify")
  /\ told' = [told EXCEPT ![r] = Tell(@, job[w].listed, job[w].notice)]
  /\ IF job[w].op = "cancel" \/ job[w].notice = "selected"
     THEN Finish(w) ELSE Goto(w, "save")
  /\ UNCHANGED <<now, status, publishedAt, expiresAt, closedAt, interest,
                 conversation, cut>>

\* closed_at is not among the update_fields of a partial selection.
\* Mutant: of no selection.
SelectKeepsClosedAt(w) == job[w].op = "select"
KeepsClosedAt(w) ==
  job[w].op = "select" /\ job[w].outcome = "partially_filled"

\* ServiceRequest.save of the columns the handler names.  When clean refuses
\* it the handler ends, and the sweep with it.
SaveRequest(w) ==
  LET r == job[w].r
      then == CASE job[w].op = "select" -> "chat"
                [] job[w].op = "cancel" -> "list"
                [] OTHER -> "next"
  IN
  /\ At(w, Ops, "save")
  /\ \/ /\ SaveRefused(r)
        /\ Finish(w)
        /\ cut' = IF job[w].op = "select" THEN cut \cup {r} ELSE cut
        /\ UNCHANGED <<status, closedAt>>
     \/ /\ ~SaveRefused(r)
        /\ status' = [status EXCEPT ![r] = job[w].outcome]
        /\ closedAt' = [closedAt EXCEPT ![r] = IF KeepsClosedAt(w) THEN @
                           ELSE IF job[w].op \in {"sweep", "select"}
                           THEN job[w].stamp
                           ELSE now]
        /\ IF job[w].op = "close" THEN Finish(w) ELSE Goto(w, then)
        /\ UNCHANGED cut
  /\ UNCHANGED <<now, publishedAt, expiresAt, interest, conversation, told>>

\* Mutant: the notice of the selection goes to those the refusal went to.
OpenThenTellTheRest(w) ==
  LET r == job[w].r
      p == job[w].p IN
  /\ At(w, {"select"}, "chat")
  /\ conversation' = [conversation EXCEPT ![r] = @ \cup {p}]
  /\ job' = [job EXCEPT ![w].at = "notify", ![w].notice = "selected"]
  /\ UNCHANGED <<now, status, publishedAt, expiresAt, closedAt, interest,
                 told, cut>>
OpenConversation(w) ==
  LET r == job[w].r
      p == job[w].p IN
  /\ At(w, {"select"}, "chat")
  /\ conversation' = [conversation EXCEPT ![r] = @ \cup {p}]
  /\ job' = [job EXCEPT ![w].at = "notify", ![w].listed = {p},
                        ![w].notice = "selected"]
  /\ UNCHANGED <<now, status, publishedAt, expiresAt, closedAt, interest,
                 told, cut>>

\* The sweep takes its rows newest first.
NextDue(w) ==
  LET todo == job[w].todo IN
  /\ At(w, {"sweep"}, "next")
  /\ \/ todo = {} /\ Finish(w)
     \/ \E r \in todo :
          /\ \A q \in todo : publishedAt[r] >= publishedAt[q]
          /\ job' = [job EXCEPT ![w].r = r, ![w].at = "count",
                                ![w].todo = todo \ {r}]
  /\ OnlyJob

\* The loop over the listed ends before it has told them all.
ToldSome(w) ==
  /\ \E ps \in SUBSET job[w].listed :
       told' = [told EXCEPT ![job[w].r] = Tell(@, ps, job[w].notice)]
  /\ UNCHANGED <<now, status, publishedAt, expiresAt, closedAt, interest,
                 conversation, cut>>

\* The worker is stopped, or a notification raises because the broker is
\* down: what was committed, and sent, stays.
Crash(w) ==
  /\ Crashes
  /\ job[w] # Idle
  /\ Finish(w)
  /\ IF At(w, Ops, "notify") THEN ToldSome(w) ELSE OnlyJob

Step(w) ==
  \/ InsertRequest(w) \/ InsertInterest(w) \/ LoadRequest(w)
  \/ SaveWithdrawn(w) \/ SaveSelected(w) \/ CountSelected(w)
  \/ ListRemaining(w) \/ UpdateRemaining(w) \/ Notify(w)
  \/ SaveRequest(w) \/ OpenConversation(w) \/ NextDue(w)

Start(w) ==
  /\ job[w] = Idle
  /\ \/ \E r \in Requests :
          \/ \E d \in Windows : StartPublish(w, r, d)
          \/ \E p \in Professionals :
               StartApply(w, r, p) \/ StartWithdraw(w, r, p) \/ StartSelect(w, r, p)
          \/ StartClose(w, r) \/ StartCancel(w, r)
     \/ StartSweep(w)

HandlerTick == Tick /\ UNCHANGED job

Next ==
  \/ HandlerTick
  \/ \E w \in Workers : Start(w) \/ Step(w) \/ Crash(w)

Spec == Init /\ [][Next]_vars

-----------------------------------------------------------------------------
(* What survives every interleaving and every crash.                       *)

\* Only the client's and the professional's own clicks decide on a selection:
\* refusing the remaining applicants (one UPDATE filtered by status) never
\* undoes one, though the status it answers to may be stale; and no handler
\* makes anybody an applicant again.
RefusalSparesTheSelected ==
  [][\A r \in Requests, p \in Professionals :
       interest'[r][p] # interest[r][p] =>
         /\ interest'[r][p] \in {"not_selected", "expired"} =>
              interest[r][p] = "applied"
         /\ interest'[r][p] = "applied" => interest[r][p] = "none"]_interest

\* A request that was published is a request for good, and one that got past
\* "open" does not come back to it, whatever stale status is saved over it.
NeverOpenAgain ==
  [][\A r \in Requests :
       status'[r] # status[r] => status'[r] \notin {"none"} /\
                                 (status'[r] = "open" => status[r] = "none")]_status

\* Only a professional who was selected gets a chat with the client; a
\* withdrawal that overtakes the selection is all that can undo it.
ChatMeansSelected ==
  \A r \in Requests : \A p \in conversation[r] :
    interest[r][p] \in {"selected", "withdrawn"}

\* A request that takes no more interests has the time of its end, and it is
\* never before its publication.
EndIsRecorded ==
  \A r \in Requests :
    /\ status[r] \in {"filled", "expired", "cancelled"} => closedAt[r] # NoTime
    /\ closedAt[r] # NoTime => closedAt[r] >= publishedAt[r]

-----------------------------------------------------------------------------
(* What tests and messages say, and interleavings break.                   *)

\* test_filling_all_positions_marks_request_filled_and_rejects_remaining
\* (apps/requests/tests.py:171): no more are selected than asked for.
WithinPositions ==
  \A r \in Requests : Cardinality(Selected(r)) <= Positions[r]

\* NoRecentTwins (test_duplicate_open_request_same_category_is_blocked,
\* tests.py:69) and FreePlanRespected (limits.py:28) of RequestModel fall to two
\* publications that run their checks before either inserts its row.
=============================================================================
