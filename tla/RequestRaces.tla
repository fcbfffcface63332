----------------------------- MODULE RequestRaces -----------------------------
(***************************************************************************)
(* What the races of RequestHandlers can and cannot do to the people       *)
(* involved.  The handlers are left as they are; history variables note    *)
(* the steps that cross, and each property says what holds of everything   *)
(* that nothing noted excuses.                                             *)
(***************************************************************************)
EXTENDS RequestHandlers

VARIABLES
  late,       \* <<r, p>>: p applied to r after a handler listed r's applicants,
              \* or when r was over
  abandoned,  \* requests on which a worker stopped between deciding and telling
  crossed,    \* <<q, r>>: q was inserted between the check and the INSERT of r
  revived,    \* requests over, on which a handler saved an older status
  complete    \* requests that had all their positions selected at one moment

noted == <<late, abandoned, crossed, revived, complete>>
racesVars == <<vars, noted>>

Over(r) == status[r] \in {"filled", "expired", "cancelled"}

\* The handler has refused the applicants and tells those it had listed.
TellsRefusal(w) == job[w].at = "notify" /\ job[w].notice # "selected"

\* The handler has listed the applicants it refuses, and is not done with them
\* or has not saved the request yet.
HasListed(w) ==
  \/ job[w].at = "update"
  \/ TellsRefusal(w)
  \/ /\ job[w].at = "save" /\ job[w].op # "cancel"
     /\ job[w].op = "select" => job[w].outcome # "partially_filled"

\* What the handler has committed obliges it to more.
Owes(w) ==
  \/ job[w].op = "cancel" /\ job[w].at \in {"list", "update"}
  \/ job[w].op = "select" /\ job[w].at \notin {"load", "choose"}
  \/ job[w].at = "notify"

RacesTypeOK ==
  /\ HandlerTypeOK
  /\ late \subseteq Requests \X Professionals
  /\ abandoned \subseteq Requests
  /\ crossed \subseteq Requests \X Requests
  /\ revived \subseteq Requests
  /\ complete \subseteq Requests

RacesInit ==
  /\ Init
  /\ late = {} /\ abandoned = {} /\ crossed = {} /\ revived = {} /\ complete = {}

Note ==
  /\ late' = late \cup
       {x \in Requests \X Professionals :
          /\ interest'[x[1]][x[2]] = "applied" /\ interest[x[1]][x[2]] = "none"
          /\ \/ Over(x[1])
             \/ \E w \in Workers : job[w].r = x[1] /\ HasListed(w)}
  /\ crossed' = crossed \cup
       {x \in Requests \X Requests :
          /\ x[1] # x[2] /\ status[x[1]] = "none" /\ status'[x[1]] # "none"
          /\ \E w \in Workers : job[w].op = "publish" /\ job[w].r = x[2]}
  /\ revived' = revived \cup {r \in Requests : Over(r) /\ Receiving(r)'}
  /\ complete' = complete \cup
       {r \in Requests : /\ interest'[r] # interest[r]
                         /\ Cardinality(Selected(r)') >= Positions[r]}

RacesNext ==
  /\ \/ /\ \/ HandlerTick
           \/ \E w \in Workers : Start(w) \/ Step(w)
        /\ UNCHANGED abandoned
     \/ \E w \in Workers :
          /\ Crash(w)
          /\ abandoned' = IF Owes(w) THEN abandoned \cup {job[w].r} ELSE abandoned
  /\ Note

RacesSpec == RacesInit /\ [][RacesNext]_racesVars

-----------------------------------------------------------------------------
\* Nobody is left applied to a request that is over, whatever handlers ran at
\* once, but for an application that came after the applicants were listed,
\* a cancellation still on its way to them and a worker that stopped
\* (InterestCreateView, services.py:18, 132).
NobodyForgotten ==
  \A r \in Requests, p \in Professionals :
    interest[r][p] = "applied" /\ Over(r) =>
      \/ <<r, p>> \in late
      \/ r \in abandoned
      \/ \E w \in Workers : /\ job[w].op = "cancel" /\ job[w].r = r
                            /\ job[w].at \in {"list", "update"}

\* A request is marked as filled only if at one and the same moment as many
\* were selected for it as it asks for: whatever withdraws or selects between
\* the count (services.py:46) and the save, and however old the count is by
\* then, nobody is refused for a request that never was full.
FilledMeansEnough ==
  \A r \in Requests : status[r] = "filled" => r \in complete

Refusals == {"not_selected", "expired", "cancelled"}

\* Whoever is refused is told of a refusal, for all that different handlers
\* list, refuse and tell the same people, except who applied after the list
\* was made (services.py:17-24) and those a stopped worker was to tell.
RefusedAreTold ==
  \A r \in Requests, p \in Professionals :
    interest[r][p] \in {"not_selected", "expired"} =>
      \/ told[r][p] \cap Refusals # {}
      \/ <<r, p>> \in late
      \/ r \in abandoned
      \/ \E w \in Workers : /\ job[w].r = r /\ p \in job[w].listed
                            /\ TellsRefusal(w)

\* Whoever is selected has a chat and is told so, unless the duplicate check
\* refused the save that follows the selection (models.py:97) or the worker
\* stopped, however selections, withdrawals and endings of the request cross.
SelectedAreTold ==
  \A r \in Requests, p \in Professionals :
    interest[r][p] = "selected" =>
      \/ "selected" \in told[r][p] /\ p \in conversation[r]
      \/ r \in cut \cup abandoned
      \/ \E w \in Workers : /\ job[w].op = "select" /\ job[w].r = r /\ job[w].p = p
                            /\ job[w].at \notin {"load", "choose"}

\* Two requests of a client in one category receive interests at a time and
\* were published within the window of the duplicate check (models.py:84)
\* only if one was inserted between the check and the INSERT of the other, or
\* if a stale selection or ending made one of them receive interests again.
TwinsCrossed ==
  \A q, r \in Requests :
    /\ q # r /\ Receiving(q) /\ Receiving(r)
    /\ ClientOf[q] = ClientOf[r] /\ CategoryOf[q] = CategoryOf[r]
    => \/ publishedAt[q] > publishedAt[r] + DuplicateWindow
       \/ publishedAt[r] > publishedAt[q] + DuplicateWindow
       \/ <<q, r>> \in crossed \/ <<r, q>> \in crossed
       \/ q \in revived \/ r \in revived
=============================================================================
