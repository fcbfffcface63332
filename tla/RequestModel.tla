---------------------------- MODULE RequestModel ----------------------------
(***************************************************************************)
(* What the requests app keeps in its tables, and the questions its        *)
(* handlers ask of them (apps/requests/models.py, services.py).            *)
(*                                                                         *)
(* A service request asks for Positions[r] professionals.  Professionals   *)
(* apply to it, the client selects among them, and the request ends by     *)
(* being filled, by the client's hand, or by the periodic sweep.           *)
(* ServiceRequests runs each handler as one step; RequestHandlers runs it  *)
(* one database statement at a time, as the autocommitting program does.   *)
(***************************************************************************)
EXTENDS Integers, FiniteSets

CONSTANTS
  Requests,         \* the rows ServiceRequest may come to have
  Professionals,
  Clients,
  Categories,
  ClientOf,         \* [Requests -> Clients], the foreign key
  CategoryOf,       \* [Requests -> Categories]
  Positions,        \* [Requests -> Nat \ {0}], positions_count
  Windows,          \* durations of the interest windows, in ticks
  DuplicateWindow,  \* the five minutes of the duplicate check, in ticks
  FreeLimit,        \* requests a free client may publish in 30 days
  Premium,          \* clients whose subscription is premium
  LastTime          \* bound: the clock stops here (before 30 days pass)

ASSUME RequestAssumption ==
  /\ IsFiniteSet(Requests) /\ IsFiniteSet(Professionals)
  /\ ClientOf \in [Requests -> Clients]
  /\ CategoryOf \in [Requests -> Categories]
  /\ Positions \in [Requests -> Nat \ {0}]
  /\ Windows \subseteq Nat
  /\ DuplicateWindow \in Nat
  /\ \A w \in Windows : w > DuplicateWindow     \* 2 hours and 5 minutes
  /\ FreeLimit \in Nat
  /\ Premium \subseteq Clients
  /\ LastTime \in Nat

VARIABLES
  now,          \* timezone.now(), in ticks from 1
  status,       \* ServiceRequest.status; "none" before the INSERT
  publishedAt,
  expiresAt,
  closedAt,     \* NoTime while the column is NULL
  interest,     \* Interest.status of (r, p); "none" when there is no row
  conversation, \* professionals with a Conversation on their interest in r
  told,         \* notifications dispatched to p about r
  cut           \* history: requests on which save() cut a selection short

tables == <<status, publishedAt, expiresAt, closedAt, interest,
            conversation, told, cut>>

NoTime == 0

\* "draft" and "completed" are choices of the field that no code assigns.
RequestStatus == {"none", "open", "partially_filled", "filled",
                  "expired", "cancelled"}

\* "shortlisted" is a choice of the field that no code assigns.
InterestStatus == {"none", "applied", "selected", "not_selected",
                   "withdrawn", "expired"}

Notices == {"selected", "not_selected", "expired", "cancelled"}

TypeOK ==
  /\ now \in Nat
  /\ status \in [Requests -> RequestStatus]
  /\ publishedAt \in [Requests -> Nat]
  /\ expiresAt \in [Requests -> Nat]
  /\ closedAt \in [Requests -> Nat]
  /\ interest \in [Requests -> [Professionals -> InterestStatus]]
  /\ conversation \in [Requests -> SUBSET Professionals]
  /\ told \in [Requests -> [Professionals -> SUBSET Notices]]
  /\ cut \subseteq Requests

InitTables ==
  /\ now = 1
  /\ status = [r \in Requests |-> "none"]
  /\ publishedAt = [r \in Requests |-> NoTime]
  /\ expiresAt = [r \in Requests |-> NoTime]
  /\ closedAt = [r \in Requests |-> NoTime]
  /\ interest = [r \in Requests |-> [p \in Professionals |-> "none"]]
  /\ conversation = [r \in Requests |-> {}]
  /\ told = [r \in Requests |-> [p \in Professionals |-> {}]]
  /\ cut = {}

-----------------------------------------------------------------------------
(* The questions the handlers ask.                                         *)

\* The statuses in which a request takes interests and selections.
ReceivingStatus == {"open", "partially_filled"}
Receiving(r) == status[r] \in ReceivingStatus

\* ints is one request's row of the interest table.
Having(ints, s) == {p \in Professionals : ints[p] = s}
Selected(r) == Having(interest[r], "selected")

\* What _finalize_remaining_interests lists, to notify them later.
\* Mutant: the list is made after the UPDATE.
ListedTooLate(ints) == {}
Remaining(ints) == Having(ints, "applied")

\* The bulk UPDATE of _finalize_remaining_interests.
\* Mutant: no filter on the status.
FinalizedUnfiltered(ints, final) ==
  [p \in Professionals |-> IF ints[p] = "none" THEN "none" ELSE final]
Finalized(ints, final) ==
  [p \in Professionals |-> IF ints[p] = "applied" THEN final ELSE ints[p]]

\* Adds one notice to what each professional of ps has been told.
Tell(rowTold, ps, notice) ==
  [p \in Professionals |->
     IF p \in ps THEN rowTold[p] \cup {notice} ELSE rowTold[p]]

\* All positions are taken.
\* Mutants: > for >=; the selection just saved is counted again.
FullOffByOne(r, n) == n > Positions[r]
FullCountsTwice(r, n) == n + 1 >= Positions[r]
Full(r, n) == n >= Positions[r]

\* ServiceRequest.clean refuses to save r, whether it inserts or updates it,
\* while another receiving request of the same client and category was
\* published in the last DuplicateWindow.
\* Mutant: the lookup the wrong way round.
OldDuplicate(q, r) ==
  /\ q # r
  /\ ClientOf[q] = ClientOf[r]
  /\ CategoryOf[q] = CategoryOf[r]
  /\ Receiving(q)
  /\ publishedAt[q] + DuplicateWindow < now
Duplicate(q, r) ==
  /\ q # r
  /\ ClientOf[q] = ClientOf[r]
  /\ CategoryOf[q] = CategoryOf[r]
  /\ Receiving(q)
  /\ publishedAt[q] + DuplicateWindow >= now
SaveRefused(r) == \E q \in Requests : Duplicate(q, r)

Published(c) == {r \in Requests : ClientOf[r] = c /\ status[r] # "none"}
MayPublish(c) == c \in Premium \/ Cardinality(Published(c)) < FreeLimit

\* How close_request_now and the sweep end a request with n selections, and
\* what they make of the interests still applied.
EndStatus(r, n) ==
  IF Full(r, n) THEN "filled"
  ELSE IF n > 0 THEN "partially_filled" ELSE "expired"
EndInterest(s) == IF s = "expired" THEN "expired" ELSE "not_selected"

\* Mutant: only open requests.
OpenAndDue(r) == status[r] = "open" /\ expiresAt[r] <= now
Due(r) == Receiving(r) /\ expiresAt[r] <= now

Tick ==
  /\ now < LastTime
  /\ now' = now + 1
  /\ UNCHANGED tables

-----------------------------------------------------------------------------
(* What the checks made before a publication are for.                      *)

\* Of two receiving requests of one client in one category, one is older
\* than the other by more than the window of the duplicate check.
NoRecentTwins ==
  \A q, r \in Requests :
    /\ q # r /\ Receiving(q) /\ Receiving(r)
    /\ ClientOf[q] = ClientOf[r] /\ CategoryOf[q] = CategoryOf[r]
    => \/ publishedAt[q] > publishedAt[r] + DuplicateWindow
       \/ publishedAt[r] > publishedAt[q] + DuplicateWindow

\* can_client_publish_request: a free client stays within the limit, whatever
\* became of the requests it published.
FreePlanRespected ==
  \A c \in Clients \ Premium : Cardinality(Published(c)) <= FreeLimit
=============================================================================
