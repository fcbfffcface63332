---------------------------- MODULE Confirmations ----------------------------
(***************************************************************************)
(* Asking both sides whether the service took place: the sweep of Celery   *)
(* beat (create_pending_confirmations, apps/reviews/services.py), the      *)
(* pages that create the same row when they are opened first, and the      *)
(* notices the sweep dispatches.  Statements commit one by one; one sweep  *)
(* runs at a time.                                                         *)
(***************************************************************************)
EXTENDS Notifications

CONSTANTS
  Interests,  \* selected interests, about which the parties are asked
  Urgent,     \* requests with a short window
  Compatible, \* [Urgent -> SUBSET Users], professionals of the category
  ClientOf, ProfessionalOf    \* [Interests -> Users]

ASSUME ConfirmationsAssumption ==
  /\ Events = Interests \cup Urgent
  /\ Interests \cap Urgent = {}
  /\ Compatible \in [Urgent -> SUBSET Users]
  /\ ClientOf \in [Interests -> Users]
  /\ ProfessionalOf \in [Interests -> Users]

VARIABLES
  started,    \* interests whose service was to have started
  confirmed,  \* interests with a ServiceConfirmation
  sweep,      \* the sweep: where it is, its list, the interest at hand
  announced,  \* <<request, user>>, urgent requests and who was told
  opened,     \* history: confirmations a page created
  cut,        \* history: <<interest, user>> the sweep ended before telling
  muted       \* history: <<interest, user, channel>> unwanted at dispatch

askingVars == <<notes, started, confirmed, sweep, announced, opened, cut, muted>>

Parties(i) == {ClientOf[i], ProfessionalOf[i]}
Resting == [at |-> "rest", list |-> {}, now |-> {}]

AskingTypeOK ==
  /\ NotesTypeOK
  /\ started \subseteq Interests
  /\ confirmed \subseteq Interests
  /\ sweep \in [at : {"rest", "create", "client", "professional"},
                list : SUBSET Interests, now : SUBSET Interests]
  /\ announced \subseteq Urgent \X Users
  /\ opened \subseteq confirmed
  /\ cut \subseteq Interests \X Users
  /\ muted \subseteq Interests \X Users \X Channels

AskingInit ==
  /\ NotesInit
  /\ started = {} /\ confirmed = {}
  /\ sweep = Resting
  /\ announced = {}
  /\ opened = {} /\ cut = {} /\ muted = {}

\* The requests app has published an urgent request and tells a professional.
Announce(e, u) ==
  /\ u \in Compatible[e] /\ <<e, u>> \notin announced
  /\ announced' = announced \cup {<<e, u>>}
  /\ \E raised \in BOOLEAN : Dispatch(u, e, TRUE, raised)
  /\ UNCHANGED <<preference, device, todo, holder, handed, started, confirmed, sweep,
                 opened, cut, muted>>

ServiceIsDue(i) ==
  /\ i \notin started
  /\ started' = started \cup {i}
  /\ UNCHANGED <<notes, confirmed, sweep, announced, opened, cut, muted>>

\* get_or_create, which survives losing the race for the row.
GetOrCreate(i) ==
  /\ i \notin confirmed
  /\ confirmed' = confirmed \cup {i}
  /\ opened' = opened \cup {i}
  /\ UNCHANGED <<notes, started, sweep, announced, cut, muted>>

\* The page is there once the service was to start; an answer that is posted
\* is taken before.
OpenPage(i) == i \in started /\ GetOrCreate(i)
PostAnswer(i) == GetOrCreate(i)

\* Mutant: the interests that have their confirmation are listed too.
ListAllDue ==
  /\ sweep.at = "rest"
  /\ started # {}
  /\ sweep' = [Resting EXCEPT !.at = "create", !.list = started]
  /\ UNCHANGED <<notes, started, confirmed, announced, opened, cut, muted>>

StartSweep ==
  /\ sweep.at = "rest"
  /\ started \ confirmed # {}
  /\ sweep' = [Resting EXCEPT !.at = "create", !.list = started \ confirmed]
  /\ UNCHANGED <<notes, started, confirmed, announced, opened, cut, muted>>

\* create, not get_or_create: a row that is there by now ends the sweep.
CreateConfirmation(i) ==
  /\ sweep.at = "create" /\ i \in sweep.list
  /\ \/ /\ i \in confirmed
        /\ sweep' = Resting
        /\ UNCHANGED confirmed
     \/ /\ i \notin confirmed
        /\ confirmed' = confirmed \cup {i}
        /\ sweep' = [at |-> "client", list |-> sweep.list \ {i}, now |-> {i}]
  /\ UNCHANGED <<notes, started, announced, opened, cut, muted>>

\* The client first, then the professional.
Ask(i) ==
  LET u    == IF sweep.at = "client" THEN ClientOf[i] ELSE ProfessionalOf[i]
      rest == IF sweep.at = "client" THEN Parties(i) ELSE {ProfessionalOf[i]}
      next == IF sweep.at = "client"
                THEN [sweep EXCEPT !.at = "professional"]
                ELSE IF sweep.list = {} THEN Resting
                     ELSE [sweep EXCEPT !.at = "create", !.now = {}]
  IN
  /\ i \in sweep.now
  /\ \/ /\ Dispatch(u, i, FALSE, FALSE)
        /\ sweep' = next
        /\ UNCHANGED cut
     \/ /\ Dispatch(u, i, FALSE, TRUE)
        /\ sweep' = Resting
        /\ cut' = cut \cup ({i} \X rest)
  /\ muted' = muted \cup {<<i, u, c>> : c \in {"push", "email"} \ preference[u]}
  /\ UNCHANGED <<preference, device, todo, holder, handed, started, confirmed, announced,
                 opened>>

\* The worker stops in the middle of the sweep.
SweepStops ==
  /\ sweep.at # "rest"
  /\ sweep' = Resting
  /\ cut' = cut \cup UNION {{i} \X (IF sweep.at = "client" THEN Parties(i)
                                   ELSE {ProfessionalOf[i]}) : i \in sweep.now}
  /\ UNCHANGED <<notes, started, confirmed, announced, opened, muted>>

Others == UNCHANGED <<started, confirmed, sweep, announced, opened, cut, muted>>

AskingNext ==
  \/ \E e \in Urgent, u \in Users : Announce(e, u)
  \/ \E i \in Interests : ServiceIsDue(i) \/ OpenPage(i) \/ PostAnswer(i)
  \/ StartSweep
  \/ \E i \in Interests : CreateConfirmation(i) \/ Ask(i)
  \/ SweepStops
  \/ NotesNext /\ Others

AskingSpec == AskingInit /\ [][AskingNext]_askingVars

\* Beat starts the sweep every five minutes, whatever became of the last one.
\* A sweep may stop anywhere, but not every time before its next INSERT.
FairSpec ==
  /\ AskingSpec
  /\ WF_askingVars(StartSweep)
  /\ SF_askingVars(\E i \in Interests : CreateConfirmation(i))
  /\ WF_askingVars(\E i \in Interests : Ask(i))

-----------------------------------------------------------------------------
\* Sooner or later there is a confirmation to answer for every service that
\* was to start, however often a page that is opened, a notice that cannot be
\* queued or a worker that stops ends a sweep.
EveryoneIsAsked ==
  \A i \in Interests : i \in started ~> i \in confirmed

\* Nobody is told of the question on a channel only for one of these reasons:
\* the page was opened before the sweep came by, the sweep has not come to
\* them or ended before it did, or they did not want it when it was dispatched.
\* In all other cases the task was queued.
SilenceHasAReason ==
  \A i \in confirmed : \A u \in Parties(i), c \in {"push", "email"} :
    \/ task[[event |-> i, user |-> u, channel |-> c]] # "none"
    \/ i \in opened
    \/ <<i, u>> \in cut
    \/ <<i, u, c>> \in muted
    \/ i \in sweep.now /\ (sweep.at = "client" \/ u = ProfessionalOf[i])
=============================================================================
