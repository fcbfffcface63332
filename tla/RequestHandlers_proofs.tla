------------------------ MODULE RequestHandlers_proofs ------------------------
(***************************************************************************)
(* What the handlers of the requests app keep, statement by statement, for *)
(* any number of workers, requests and professionals; that one handler at  *)
(* a time, its statements add up to the step it is in ServiceRequests; and *)
(* that only the crossings RequestRaces notes leave anybody forgotten.     *)
(***************************************************************************)
EXTENDS SerialHandlers, RequestRaces, FiniteSetTheorems, TLAPS

\* Statuses a handler saves.
Ends == {"partially_filled", "filled", "expired", "cancelled"}

\* Decided for or against, by a selection or a withdrawal.
IsDecided(r, p) == interest[r][p] \in {"selected", "withdrawn"}

ClockFits == now >= 1 /\ \A r \in Requests : publishedAt[r] <= now

\* Nothing happens to a request before its INSERT.
Unborn ==
  \A r \in Requests : status[r] = "none" =>
    closedAt[r] = NoTime /\ \A p \in Professionals : interest[r][p] = "none"

\* A request that a job took up, in the table since before the job's instant.
Known(r, stamp) ==
  r \in Requests /\ status[r] # "none" /\ publishedAt[r] <= stamp

\* What a job remembers, however stale, is compatible with the tables.
PublishFits(w) == job[w].op = "publish" =>
  job[w].at = "insert" /\ job[w].r \in Requests /\ status[job[w].r] = "none"
StampFits(w) == job[w].op # "idle" => job[w].stamp >= 1 /\ job[w].stamp <= now
RequestFits(w) ==
  job[w].op \notin {"idle", "publish"} /\ job[w].at # "next" =>
    Known(job[w].r, job[w].stamp)
TodoFits(w) == \A r \in job[w].todo : Known(r, job[w].stamp)
SelectFits(w) == job[w].op = "select" =>
  /\ job[w].p \in Professionals /\ job[w].at # "next"
  /\ job[w].at \notin {"load", "choose"} => IsDecided(job[w].r, job[w].p)
OutcomeFits(w) ==
  job[w].at \in {"list", "update", "notify", "save", "chat"} =>
    job[w].outcome \in Ends
PlaceFits(w) ==
  /\ job[w].op = "idle" => job[w] = Idle
  /\ job[w].at = "notify" => job[w].notice # "none"
Fits(w) ==
  /\ PublishFits(w) /\ StampFits(w) /\ RequestFits(w) /\ TodoFits(w)
  /\ SelectFits(w) /\ OutcomeFits(w) /\ PlaceFits(w)

\* No request is inserted twice.
Apart ==
  \A v, w \in Workers :
    job[v].op = "publish" /\ job[w].op = "publish" /\ job[v].r = job[w].r => v = w

TablesFit ==
  /\ ClockFits /\ Unborn
  /\ ChatMeansSelected /\ EndIsRecorded

IInv == HandlerTypeOK /\ TablesFit /\ Apart /\ \A w \in Workers : Fits(w)

-----------------------------------------------------------------------------
(* What every step leaves standing.                                        *)

Onward ==
  /\ now' >= now
  /\ \A r \in Requests : status[r] # "none" =>
       status'[r] # "none" /\ publishedAt'[r] = publishedAt[r]
  /\ \A r \in Requests, p \in Professionals : IsDecided(r, p) => IsDecided(r, p)'

\* A job that does not move goes on fitting.
LEMMA OthersFit ==
  ASSUME HandlerTypeOK, HandlerTypeOK', Onward, NEW v \in Workers, Fits(v),
         job'[v] = job[v],
         job[v].op = "publish" => status'[job[v].r] = "none"
  PROVE  Fits(v)'
<1>1. /\ now \in Nat /\ now' \in Nat /\ job[v] \in Jobs
      /\ \A r \in Requests : publishedAt[r] \in Nat /\ publishedAt'[r] \in Nat
  BY DEF HandlerTypeOK, TypeOK
<1>2. /\ job[v].stamp \in Nat /\ job[v].todo \subseteq Requests
      /\ job[v].outcome \in RequestStatus
  BY <1>1 DEF Jobs
<1>3. \A r : Known(r, job[v].stamp) => Known(r, job[v].stamp)'
  BY DEF Known, Onward
<1>4. PublishFits(v)' /\ StampFits(v)'
  BY <1>1, <1>2 DEF Fits, PublishFits, StampFits, Onward
<1>5. RequestFits(v)' /\ TodoFits(v)'
  BY <1>3 DEF Fits, RequestFits, TodoFits
<1>6. SelectFits(v)'
  <2>1. job[v].op = "select" => job[v].p \in Professionals /\ job[v].r \in Requests
    BY DEF Fits, SelectFits, RequestFits, Known
  <2> QED BY <2>1 DEF Fits, SelectFits, Onward, IsDecided
<1>7. OutcomeFits(v)' /\ PlaceFits(v)'
  BY DEF Fits, OutcomeFits, PlaceFits
<1> QED BY <1>4, <1>5, <1>6, <1>7 DEF Fits

\* The rest of a step once it is known what it does to its own job.
LEMMA Conclude ==
  ASSUME IInv, HandlerTypeOK', Onward, TablesFit', NEW w \in Workers,
         Fits(w)', job'[w].op # "publish",
         \A v \in Workers \ {w} :
           /\ job'[v] = job[v]
           /\ job[v].op = "publish" => status'[job[v].r] = "none"
  PROVE  IInv'
<1>1. \A v \in Workers : Fits(v)'
  BY OthersFit DEF IInv
<1>2. Apart'
  BY DEF IInv, Apart
<1> QED BY <1>1, <1>2 DEF IInv

LEMMA Still ==
  ASSUME IInv, OnlyJob
  PROVE  Onward /\ TablesFit' /\ TypeOK'
<1>1. UNCHANGED <<now, status, publishedAt, expiresAt, closedAt, interest,
                  conversation, told, cut>>
  BY DEF OnlyJob, tables
<1>2. TypeOK' /\ Onward
  BY <1>1 DEF IInv, HandlerTypeOK, TypeOK, Onward, IsDecided
<1>3. ClockFits' /\ Unborn' /\ ChatMeansSelected' /\ EndIsRecorded'
  BY <1>1 DEF IInv, TablesFit, ClockFits, Unborn, ChatMeansSelected, EndIsRecorded
<1> QED BY <1>2, <1>3 DEF TablesFit

\* A step that only reads.
LEMMA Reads ==
  ASSUME IInv, OnlyJob, NEW w \in Workers, job' \in [Workers -> Jobs],
         \A v \in Workers \ {w} : job'[v] = job[v],
         Fits(w)', job'[w].op # "publish"
  PROVE  IInv'
<1>1. Onward /\ TablesFit' /\ HandlerTypeOK'
  BY Still DEF HandlerTypeOK
<1>2. \A v \in Workers : job[v].op = "publish" => status'[job[v].r] = "none"
  BY DEF IInv, Fits, PublishFits, OnlyJob, tables
<1> QED BY <1>1, <1>2, Conclude

LEMMA IdleJob == Idle \in Jobs /\ Idle.op = "idle" /\ Idle.at = "start" /\ Idle.todo = {}
  BY DEF Idle, Jobs, Ops, Points, RequestStatus, NoTime

LEMMA FinishedFits ==
  ASSUME HandlerTypeOK, NEW w \in Workers, Finish(w)
  PROVE  /\ job' \in [Workers -> Jobs] /\ job'[w] = Idle
         /\ \A v \in Workers \ {w} : job'[v] = job[v]
         /\ Fits(w)' /\ job'[w].op # "publish"
<1>1. /\ job' \in [Workers -> Jobs] /\ job'[w] = Idle
      /\ \A v \in Workers \ {w} : job'[v] = job[v]
  BY IdleJob DEF Finish, HandlerTypeOK
<1>2. Fits(w)'
  BY <1>1, IdleJob DEF Fits, PublishFits, StampFits, RequestFits, TodoFits, SelectFits,
     OutcomeFits, PlaceFits
<1> QED BY <1>1, <1>2, IdleJob

LEMMA GoneTo ==
  ASSUME HandlerTypeOK, NEW w \in Workers, NEW at \in Points, Goto(w, at)
  PROVE  /\ job' \in [Workers -> Jobs]
         /\ \A v \in Workers \ {w} : job'[v] = job[v]
         /\ job'[w].at = at /\ job'[w].op = job[w].op /\ job'[w].r = job[w].r
         /\ job'[w].p = job[w].p /\ job'[w].outcome = job[w].outcome
         /\ job'[w].notice = job[w].notice /\ job'[w].stamp = job[w].stamp
         /\ job'[w].todo = job[w].todo /\ job'[w].listed = job[w].listed
  BY DEF Goto, HandlerTypeOK, Jobs

\* What a job under way at a statement is about.
LEMMA AtWork ==
  ASSUME IInv, NEW w \in Workers, job[w].at \notin {"start", "next"},
         job[w].op # "publish"
  PROVE  /\ job[w] \in Jobs /\ job[w].op # "idle"
         /\ Known(job[w].r, job[w].stamp) /\ job[w].r \in Requests
         /\ job[w].stamp \in Nat /\ job[w].stamp >= 1 /\ job[w].stamp <= now
<1>1. job[w] \in Jobs /\ Fits(w)
  BY DEF IInv, HandlerTypeOK
<1>2. job[w].op # "idle"
  BY <1>1, IdleJob DEF Fits, PlaceFits
<1>3. job[w].stamp \in Nat
  BY <1>1 DEF Jobs
<1> QED BY <1>1, <1>2, <1>3 DEF Fits, RequestFits, StampFits, Known

-----------------------------------------------------------------------------
(* Operations begin.                                                       *)

LEMMA ClockNow ==
  ASSUME IInv
  PROVE  now \in Nat /\ now >= 1 /\ \A r \in Requests : publishedAt[r] \in Nat /\ publishedAt[r] <= now
BY DEF IInv, HandlerTypeOK, TypeOK, TablesFit, ClockFits

LEMMA Begun ==
  ASSUME IInv, NEW w \in Workers, NEW op \in Ops \ {"idle", "publish", "sweep"},
         NEW at \in {"insert", "load", "count"}, NEW r \in Requests,
         NEW p \in Professionals \cup {None},
         op = "select" => p \in Professionals /\ at = "load",
         status[r] # "none", Begin(w, op, at, r, p), OnlyJob
  PROVE  IInv'
<1>1. /\ job' \in [Workers -> Jobs]
      /\ \A v \in Workers \ {w} : job'[v] = job[v]
      /\ job'[w].op = op /\ job'[w].at = at /\ job'[w].r = r /\ job'[w].p = p
      /\ job'[w].stamp = now /\ job'[w].todo = {}
  BY ClockNow DEF Begin, IInv, HandlerTypeOK, Jobs, Idle, Points, RequestStatus, Notices
<1>2. /\ status' = status /\ publishedAt' = publishedAt /\ now' = now
  BY DEF OnlyJob, tables
<1>3. Known(r, now)
  BY ClockNow DEF Known
<1>4. Fits(w)'
  <2>1. PublishFits(w)' /\ TodoFits(w)' /\ OutcomeFits(w)' /\ PlaceFits(w)' /\ SelectFits(w)'
    BY <1>1 DEF PublishFits, TodoFits, OutcomeFits, PlaceFits, SelectFits
  <2>2. StampFits(w)' /\ RequestFits(w)'
    BY <1>1, <1>2, <1>3, ClockNow DEF StampFits, RequestFits, Known
  <2> QED BY <2>1, <2>2 DEF Fits
<1> QED BY <1>1, <1>4, Reads

LEMMA AppliedIsThere ==
  ASSUME IInv, NEW r \in Requests, NEW p \in Professionals, interest[r][p] # "none"
  PROVE  status[r] # "none"
BY DEF IInv, TablesFit, Unborn

LEMMA StartsHold ==
  ASSUME IInv, NEW w \in Workers, Start(w)
  PROVE  IInv'
<1>1. ASSUME NEW r \in Requests, NEW d \in Windows, StartPublish(w, r, d) PROVE IInv'
  <2>1. d \in Nat
    BY RequestAssumption
  <2>2. /\ job' \in [Workers -> Jobs]
        /\ \A v \in Workers \ {w} : job'[v] = job[v]
        /\ job'[w].op = "publish" /\ job'[w].at = "insert" /\ job'[w].r = r
        /\ job'[w].stamp = now /\ job'[w].todo = {}
    BY <1>1, <2>1, ClockNow
    DEF StartPublish, IInv, HandlerTypeOK, Jobs, Idle, Points, Ops, RequestStatus, Notices
  <2>3. OnlyJob /\ status[r] = "none"
    BY <1>1 DEF StartPublish
  <2>4. status' = status /\ now' = now
    BY <2>3 DEF OnlyJob, tables
  <2>5. Fits(w)'
    <3>1. RequestFits(w)' /\ TodoFits(w)' /\ OutcomeFits(w)' /\ PlaceFits(w)' /\ SelectFits(w)'
      BY <2>2 DEF RequestFits, TodoFits, OutcomeFits, PlaceFits, SelectFits
    <3>2. StampFits(w)' /\ PublishFits(w)'
      BY <2>2, <2>3, <2>4, ClockNow DEF StampFits, PublishFits
    <3> QED BY <3>1, <3>2 DEF Fits
  <2>6. Onward /\ TablesFit' /\ HandlerTypeOK'
    BY <2>2, <2>3, Still DEF HandlerTypeOK
  <2>7. \A v \in Workers : Fits(v)'
    <3>1. ASSUME NEW v \in Workers, v # w PROVE Fits(v)'
      <4>1. job[v].op = "publish" => status'[job[v].r] = "none"
        BY <2>4 DEF IInv, Fits, PublishFits
      <4> QED BY <3>1, <4>1, <2>2, <2>6, OthersFit DEF IInv
    <3> QED BY <2>5, <3>1
  <2>8. Apart'
    <3>1. \A v \in Workers : ~(job[v].op = "publish" /\ job[v].r = r)
      BY <1>1 DEF StartPublish
    <3> QED BY <2>2, <3>1 DEF IInv, Apart
  <2> QED BY <2>6, <2>7, <2>8 DEF IInv
<1>2. ASSUME NEW r \in Requests, NEW p \in Professionals,
             \/ StartApply(w, r, p) \/ StartWithdraw(w, r, p) \/ StartSelect(w, r, p)
      PROVE  IInv'
  <2>1. CASE StartApply(w, r, p)
    <3>1. status[r] # "none"
      BY <2>1 DEF StartApply, Receiving, ReceivingStatus
    <3> QED BY <2>1, <3>1, Begun DEF StartApply, Ops
  <2>2. CASE StartWithdraw(w, r, p)
    <3>1. status[r] # "none"
      BY <2>2, AppliedIsThere DEF StartWithdraw
    <3> QED BY <2>2, <3>1, Begun DEF StartWithdraw, Ops
  <2>3. CASE StartSelect(w, r, p)
    <3>1. status[r] # "none"
      BY <2>3, AppliedIsThere DEF StartSelect
    <3> QED BY <2>3, <3>1, Begun DEF StartSelect, Ops
  <2> QED BY <1>2, <2>1, <2>2, <2>3
<1>3. ASSUME NEW r \in Requests, StartClose(w, r) PROVE IInv'
  <2>1. status[r] # "none"
    BY <1>3 DEF StartClose, Receiving, ReceivingStatus
  <2> QED BY <1>3, <2>1, Begun DEF StartClose, Ops
<1>4. ASSUME NEW r \in Requests, StartCancel(w, r) PROVE IInv'
  <2>1. /\ job' \in [Workers -> Jobs]
        /\ \A v \in Workers \ {w} : job'[v] = job[v]
        /\ job'[w].op = "cancel" /\ job'[w].at = "save" /\ job'[w].r = r
        /\ job'[w].stamp = now /\ job'[w].todo = {} /\ job'[w].outcome = "cancelled"
    BY <1>4, ClockNow
    DEF StartCancel, IInv, HandlerTypeOK, Jobs, Idle, Points, Ops, RequestStatus, Notices
  <2>2. OnlyJob /\ Known(r, now)
    BY <1>4, ClockNow DEF StartCancel, Known
  <2>3. status' = status /\ publishedAt' = publishedAt /\ now' = now
    BY <2>2 DEF OnlyJob, tables
  <2>4. Fits(w)'
    <3>1. /\ PublishFits(w)' /\ TodoFits(w)' /\ PlaceFits(w)' /\ SelectFits(w)'
          /\ OutcomeFits(w)'
      BY <2>1 DEF PublishFits, TodoFits, OutcomeFits, PlaceFits, SelectFits, Ends
    <3>2. StampFits(w)' /\ RequestFits(w)'
      BY <2>1, <2>2, <2>3, ClockNow DEF StampFits, RequestFits, Known
    <3> QED BY <3>1, <3>2 DEF Fits
  <2> QED BY <2>1, <2>2, <2>4, Reads
<1>5. ASSUME StartSweep(w) PROVE IInv'
  <2>1. /\ job' \in [Workers -> Jobs]
        /\ \A v \in Workers \ {w} : job'[v] = job[v]
        /\ job'[w].op = "sweep" /\ job'[w].at = "next" /\ job'[w].stamp = now
        /\ job'[w].todo = {r \in Requests : Due(r)}
    <3>1. {r \in Requests : Due(r)} \in SUBSET Requests
      OBVIOUS
    <3> QED BY <1>5, <3>1, ClockNow
      DEF StartSweep, IInv, HandlerTypeOK, Jobs, Idle, Points, Ops, RequestStatus, Notices
  <2>2. OnlyJob
    BY <1>5 DEF StartSweep
  <2>3. status' = status /\ publishedAt' = publishedAt /\ now' = now
    BY <2>2 DEF OnlyJob, tables
  <2>4. \A r \in job'[w].todo : Known(r, now)
    BY <2>1, ClockNow DEF Due, Receiving, ReceivingStatus, Known
  <2>5. Fits(w)'
    <3>1. PublishFits(w)' /\ OutcomeFits(w)' /\ PlaceFits(w)' /\ SelectFits(w)' /\ RequestFits(w)'
      BY <2>1 DEF PublishFits, RequestFits, OutcomeFits, PlaceFits, SelectFits
    <3>2. StampFits(w)' /\ TodoFits(w)'
      BY <2>1, <2>3, <2>4, ClockNow DEF StampFits, TodoFits, Known
    <3> QED BY <3>1, <3>2 DEF Fits
  <2> QED BY <2>1, <2>2, <2>5, Reads
<1> QED BY <1>1, <1>2, <1>3, <1>4, <1>5 DEF Start

-----------------------------------------------------------------------------
(* Steps that read.                                                        *)

LEMMA GivesUp ==
  ASSUME IInv, NEW w \in Workers, Finish(w), OnlyJob
  PROVE  IInv'
<1>1. HandlerTypeOK
  BY DEF IInv
<1> QED BY <1>1, FinishedFits, Reads

LEMMA LoadHolds ==
  ASSUME IInv, NEW w \in Workers, LoadRequest(w)
  PROVE  IInv'
<1> DEFINE to == IF job[w].op = "select" THEN "choose" ELSE "leave"
<1>1. OnlyJob /\ job[w].op \in {"select", "withdraw"} /\ job[w].at = "load" /\ HandlerTypeOK
  BY DEF LoadRequest, At, IInv
<1>2. CASE Finish(w)
  BY <1>1, <1>2, GivesUp
<1>3. CASE Goto(w, to)
  <2>1. /\ job' \in [Workers -> Jobs] /\ \A v \in Workers \ {w} : job'[v] = job[v]
        /\ job'[w].at = to /\ job'[w].op = job[w].op /\ job'[w].r = job[w].r
        /\ job'[w].p = job[w].p /\ job'[w].stamp = job[w].stamp
        /\ job'[w].todo = job[w].todo
    BY <1>1, <1>3, GoneTo DEF Points
  <2>2. UNCHANGED <<now, status, publishedAt>>
    BY <1>1 DEF OnlyJob, tables
  <2>3. Fits(w)
    BY DEF IInv
  <2>4. PublishFits(w)' /\ OutcomeFits(w)' /\ PlaceFits(w)'
    BY <1>1, <2>1 DEF PublishFits, OutcomeFits, PlaceFits
  <2>5. StampFits(w)' /\ RequestFits(w)' /\ TodoFits(w)'
    BY <1>1, <2>1, <2>2, <2>3 DEF Fits, StampFits, RequestFits, TodoFits, Known
  <2>6. SelectFits(w)'
    BY <1>1, <2>1, <2>3 DEF Fits, SelectFits
  <2>7. Fits(w)'
    BY <2>4, <2>5, <2>6 DEF Fits
  <2> QED BY <1>1, <2>1, <2>7, Reads
<1> QED BY <1>2, <1>3 DEF LoadRequest

LEMMA CountHolds ==
  ASSUME IInv, NEW w \in Workers, CountSelected(w)
  PROVE  IInv'
<1>1. PICK r, n : r = job[w].r /\ n = Cardinality(Selected(r))
  OBVIOUS
<1>2. PICK end :
        end = IF job[w].op # "select" THEN EndStatus(r, n)
              ELSE IF Full(r, n) THEN "filled" ELSE "partially_filled"
  OBVIOUS
<1>3. PICK to : to = IF job[w].op # "select" \/ Full(r, n) THEN "list" ELSE "save"
  OBVIOUS
<1>4. PICK stamp : stamp = IF job[w].op = "sweep" THEN job[w].stamp ELSE now
  OBVIOUS
<1>5. /\ job[w].op \in {"select", "close", "sweep"} /\ job[w].at = "count" /\ OnlyJob
      /\ job' = [job EXCEPT ![w].outcome = end, ![w].stamp = stamp, ![w].at = to]
  BY <1>1, <1>2, <1>3, <1>4 DEF CountSelected, At
<1>6. /\ job[w] \in Jobs /\ Known(r, job[w].stamp) /\ r \in Requests
      /\ job[w].stamp \in Nat /\ job[w].stamp >= 1 /\ job[w].stamp <= now
  BY <1>1, <1>5, AtWork
<1>7. end \in Ends
  BY <1>2 DEF EndStatus, Ends
<1>8. stamp \in Nat /\ stamp >= 1 /\ stamp <= now /\ Known(r, stamp)
  BY <1>4, <1>6, ClockNow DEF Known
<1>9. /\ job' \in [Workers -> Jobs] /\ \A v \in Workers \ {w} : job'[v] = job[v]
      /\ job'[w].at = to /\ job'[w].op = job[w].op /\ job'[w].r = r
      /\ job'[w].p = job[w].p /\ job'[w].stamp = stamp /\ job'[w].outcome = end
      /\ job'[w].todo = job[w].todo /\ to \in {"list", "save"}
  <2>1. end \in RequestStatus /\ to \in Points /\ to \in {"list", "save"}
    BY <1>3, <1>7 DEF Ends, RequestStatus, Points
  <2>2. job \in [Workers -> Jobs]
    BY DEF IInv, HandlerTypeOK
  <2> QED BY <1>1, <1>5, <1>8, <2>1, <2>2 DEF Jobs
<1>10. UNCHANGED <<now, status, publishedAt, interest>>
  BY <1>5 DEF OnlyJob, tables
<1>11. Fits(w)
  BY DEF IInv
<1>12. PublishFits(w)' /\ PlaceFits(w)'
  BY <1>5, <1>9 DEF PublishFits, PlaceFits
<1>13. StampFits(w)' /\ RequestFits(w)'
  BY <1>8, <1>9, <1>10 DEF StampFits, RequestFits, Known
<1>14. TodoFits(w)'
  <2>1. job[w].op # "sweep" => stamp = now
    BY <1>4
  <2>2. \A q \in job[w].todo : Known(q, stamp)
    BY <1>4, <1>11, ClockNow DEF Fits, TodoFits, Known
  <2> QED BY <1>9, <1>10, <2>2 DEF TodoFits, Known
<1>15. SelectFits(w)'
  BY <1>1, <1>5, <1>9, <1>10, <1>11 DEF Fits, SelectFits, IsDecided
<1>16. OutcomeFits(w)'
  BY <1>7, <1>9, <1>10 DEF OutcomeFits
<1>17. Fits(w)'
  BY <1>12, <1>13, <1>14, <1>15, <1>16 DEF Fits
<1> QED BY <1>5, <1>9, <1>17, Reads

LEMMA ListHolds ==
  ASSUME IInv, NEW w \in Workers, ListRemaining(w)
  PROVE  IInv'
<1>1. /\ job[w].at = "list" /\ OnlyJob
      /\ job' = [job EXCEPT ![w].listed = Remaining(interest[job[w].r]), ![w].at = "update"]
  BY DEF ListRemaining, At
<1>2. Fits(w) /\ job \in [Workers -> Jobs]
  BY DEF IInv, HandlerTypeOK
<1>3. job[w].op # "publish"
  BY <1>1, <1>2 DEF Fits, PublishFits
<1>4. job[w].op # "idle"
  BY <1>1, <1>3, AtWork
<1>5. /\ job' \in [Workers -> Jobs] /\ \A v \in Workers \ {w} : job'[v] = job[v]
      /\ job'[w].at = "update" /\ job'[w].op = job[w].op /\ job'[w].r = job[w].r
      /\ job'[w].p = job[w].p /\ job'[w].stamp = job[w].stamp
      /\ job'[w].outcome = job[w].outcome /\ job'[w].todo = job[w].todo
  <2>1. Remaining(interest[job[w].r]) \in SUBSET Professionals /\ "update" \in Points
    BY DEF Remaining, Having, Points
  <2> QED BY <1>1, <1>2, <2>1 DEF Jobs
<1>6. UNCHANGED <<now, status, publishedAt, interest>>
  BY <1>1 DEF OnlyJob, tables
<1>7. PublishFits(w)' /\ PlaceFits(w)'
  BY <1>3, <1>4, <1>5 DEF PublishFits, PlaceFits
<1>8. StampFits(w)' /\ RequestFits(w)' /\ TodoFits(w)'
  BY <1>1, <1>2, <1>5, <1>6 DEF Fits, StampFits, RequestFits, TodoFits, Known
<1>9. SelectFits(w)'
  BY <1>1, <1>2, <1>5, <1>6 DEF Fits, SelectFits, IsDecided
<1>10. OutcomeFits(w)'
  BY <1>1, <1>2, <1>5, <1>6 DEF Fits, OutcomeFits
<1>11. Fits(w)'
  BY <1>7, <1>8, <1>9, <1>10 DEF Fits
<1> QED BY <1>1, <1>3, <1>5, <1>11, Reads

LEMMA NextDueHolds ==
  ASSUME IInv, NEW w \in Workers, NextDue(w)
  PROVE  IInv'
<1>1. job[w].op = "sweep" /\ job[w].at = "next" /\ OnlyJob /\ Fits(w) /\ job \in [Workers -> Jobs]
  BY DEF NextDue, At, IInv, HandlerTypeOK
<1>2. CASE Finish(w)
  BY <1>1, <1>2, GivesUp
<1>3. ASSUME NEW r \in job[w].todo,
             job' = [job EXCEPT ![w].r = r, ![w].at = "count", ![w].todo = job[w].todo \ {r}]
      PROVE  IInv'
  <2>1. Known(r, job[w].stamp)
    BY <1>1, <1>3 DEF Fits, TodoFits
  <2>2. /\ job' \in [Workers -> Jobs] /\ \A v \in Workers \ {w} : job'[v] = job[v]
        /\ job'[w].at = "count" /\ job'[w].op = "sweep" /\ job'[w].r = r
        /\ job'[w].stamp = job[w].stamp /\ job'[w].todo = job[w].todo \ {r}
    <3>1. r \in Requests /\ "count" \in Points
      BY <2>1 DEF Known, Points
    <3> QED BY <1>1, <1>3, <3>1 DEF Jobs
  <2>3. UNCHANGED <<now, status, publishedAt>>
    BY <1>1 DEF OnlyJob, tables
  <2>4. PublishFits(w)' /\ PlaceFits(w)' /\ SelectFits(w)' /\ OutcomeFits(w)'
    BY <2>2 DEF PublishFits, PlaceFits, SelectFits, OutcomeFits
  <2>5. StampFits(w)' /\ RequestFits(w)' /\ TodoFits(w)'
    BY <1>1, <2>1, <2>2, <2>3 DEF Fits, StampFits, RequestFits, TodoFits, Known
  <2>6. Fits(w)'
    BY <2>4, <2>5 DEF Fits
  <2> QED BY <1>1, <2>2, <2>6, Reads
<1> QED BY <1>2, <1>3 DEF NextDue

-----------------------------------------------------------------------------
(* Steps that write an interest.                                           *)

\* Conversations outlast a step that lets the decided be.
LEMMA DecidedStay ==
  ASSUME IInv, HandlerTypeOK', Onward, conversation' = conversation, status' = status
  PROVE  ChatMeansSelected'
<1>1. \A r \in Requests : conversation[r] \subseteq Professionals
  BY DEF IInv, HandlerTypeOK, TypeOK
<1> QED BY <1>1 DEF IInv, TablesFit, ChatMeansSelected, Onward, IsDecided

LEMMA InterestWritten ==
  ASSUME IInv, NEW w \in Workers, OnlyInterest,
         interest' \in [Requests -> [Professionals -> InterestStatus]],
         job' \in [Workers -> Jobs],
         \A v \in Workers \ {w} : job'[v] = job[v],
         \A r \in Requests, p \in Professionals : interest'[r][p] # interest[r][p] =>
           status[r] # "none" /\ (IsDecided(r, p) => IsDecided(r, p)')
  PROVE  /\ Onward
         /\ Fits(w)' /\ job'[w].op # "publish" => IInv'
<1>1. UNCHANGED <<now, status, publishedAt, expiresAt, closedAt, conversation, told, cut>>
  BY DEF OnlyInterest
<1>2. HandlerTypeOK'
  BY <1>1 DEF IInv, HandlerTypeOK, TypeOK
<1>3. Onward
  BY <1>1, ClockNow DEF Onward, IsDecided
<1>4. ClockFits' /\ EndIsRecorded' /\ Unborn'
  BY <1>1 DEF IInv, TablesFit, ClockFits, EndIsRecorded, Unborn
<1>5. TablesFit'
  BY <1>1, <1>2, <1>3, <1>4, DecidedStay DEF TablesFit
<1>6. \A v \in Workers : job[v].op = "publish" => status'[job[v].r] = "none"
  BY <1>1 DEF IInv, Fits, PublishFits
<1> QED BY <1>2, <1>3, <1>5, <1>6, Conclude

LEMMA InsertInterestHolds ==
  ASSUME IInv, NEW w \in Workers, InsertInterest(w)
  PROVE  IInv'
<1>1. /\ job[w].op = "apply" /\ job[w].at = "insert" /\ OnlyInterest /\ Finish(w)
      /\ HandlerTypeOK
  BY DEF InsertInterest, At, IInv
<1>2. Known(job[w].r, job[w].stamp)
  BY <1>1, AtWork
<1>3. \/ interest' = interest
      \/ /\ interest[job[w].r][job[w].p] = "none"
         /\ interest' = [interest EXCEPT ![job[w].r][job[w].p] = "applied"]
  BY DEF InsertInterest, SetInterest
<1>4. /\ interest' \in [Requests -> [Professionals -> InterestStatus]]
      /\ \A r \in Requests, p \in Professionals : interest'[r][p] # interest[r][p] =>
           r = job[w].r /\ interest[r][p] = "none"
  <2>1. interest \in [Requests -> [Professionals -> InterestStatus]]
    BY <1>1 DEF HandlerTypeOK, TypeOK
  <2>2. CASE interest' = interest
    BY <2>1, <2>2
  <2>3. CASE /\ interest[job[w].r][job[w].p] = "none"
             /\ interest' = [interest EXCEPT ![job[w].r][job[w].p] = "applied"]
    BY <2>1, <2>3 DEF InterestStatus
  <2> QED BY <1>3, <2>2, <2>3
<1>5. \A r \in Requests, p \in Professionals : interest'[r][p] # interest[r][p] =>
        status[r] # "none" /\ (IsDecided(r, p) => IsDecided(r, p)')
  BY <1>2, <1>4 DEF Known, IsDecided
<1> QED BY <1>1, <1>4, <1>5, FinishedFits, InterestWritten

LEMMA WithdrawnHolds ==
  ASSUME IInv, NEW w \in Workers, SaveWithdrawn(w)
  PROVE  IInv'
<1>1. /\ job[w].op = "withdraw" /\ job[w].at = "leave" /\ OnlyInterest /\ Finish(w)
      /\ HandlerTypeOK /\ interest' = [interest EXCEPT ![job[w].r][job[w].p] = "withdrawn"]
  BY DEF SaveWithdrawn, SetInterest, At, IInv
<1>2. Known(job[w].r, job[w].stamp)
  BY <1>1, AtWork
<1>3. interest' \in [Requests -> [Professionals -> InterestStatus]]
  BY <1>1 DEF HandlerTypeOK, TypeOK, InterestStatus
<1>4. \A r \in Requests, p \in Professionals : interest'[r][p] # interest[r][p] =>
        r = job[w].r /\ interest'[r][p] = "withdrawn"
  BY <1>1 DEF HandlerTypeOK, TypeOK
<1>5. \A r \in Requests, p \in Professionals : interest'[r][p] # interest[r][p] =>
        status[r] # "none" /\ (IsDecided(r, p) => IsDecided(r, p)')
  BY <1>2, <1>4 DEF Known, IsDecided
<1> QED BY <1>1, <1>3, <1>5, FinishedFits, InterestWritten

LEMMA SelectedHolds ==
  ASSUME IInv, NEW w \in Workers, SaveSelected(w)
  PROVE  IInv'
<1>1. /\ job[w].op = "select" /\ job[w].at = "choose" /\ OnlyInterest /\ Goto(w, "count")
      /\ HandlerTypeOK /\ interest' = [interest EXCEPT ![job[w].r][job[w].p] = "selected"]
      /\ Fits(w)
  BY DEF SaveSelected, SetInterest, At, IInv
<1>2. Known(job[w].r, job[w].stamp) /\ job[w].r \in Requests /\ job[w].p \in Professionals
  BY <1>1, AtWork DEF Fits, SelectFits
<1>3. interest' \in [Requests -> [Professionals -> InterestStatus]]
  BY <1>1 DEF HandlerTypeOK, TypeOK, InterestStatus
<1>4. \A r \in Requests, p \in Professionals : interest'[r][p] # interest[r][p] =>
        r = job[w].r /\ interest'[r][p] = "selected"
  BY <1>1 DEF HandlerTypeOK, TypeOK
<1>5. \A r \in Requests, p \in Professionals : interest'[r][p] # interest[r][p] =>
        status[r] # "none" /\ (IsDecided(r, p) => IsDecided(r, p)')
  BY <1>2, <1>4 DEF Known, IsDecided
<1>6. /\ job' \in [Workers -> Jobs] /\ \A v \in Workers \ {w} : job'[v] = job[v]
      /\ job'[w].at = "count" /\ job'[w].op = "select" /\ job'[w].r = job[w].r
      /\ job'[w].p = job[w].p /\ job'[w].stamp = job[w].stamp
      /\ job'[w].todo = job[w].todo
  BY <1>1, GoneTo DEF Points
<1>7. UNCHANGED <<now, status, publishedAt>>
  BY <1>1 DEF OnlyInterest
<1>8. Fits(w)'
  <2>1. PublishFits(w)' /\ PlaceFits(w)' /\ OutcomeFits(w)'
    BY <1>6 DEF PublishFits, PlaceFits, OutcomeFits
  <2>2. StampFits(w)' /\ RequestFits(w)' /\ TodoFits(w)'
    BY <1>1, <1>2, <1>6, <1>7 DEF Fits, StampFits, RequestFits, TodoFits, Known
  <2>3. interest'[job[w].r][job[w].p] = "selected"
    BY <1>1, <1>2 DEF HandlerTypeOK, TypeOK
  <2>4. SelectFits(w)'
    BY <1>2, <1>6, <2>3 DEF SelectFits, IsDecided
  <2> QED BY <2>1, <2>2, <2>4 DEF Fits
<1> QED BY <1>1, <1>3, <1>5, <1>6, <1>8, InterestWritten

LEMMA UpdateHolds ==
  ASSUME IInv, NEW w \in Workers, UpdateRemaining(w)
  PROVE  IInv'
<1>1. PICK final : final = FinalInterest(w)
  OBVIOUS
<1>2. PICK notice : notice = IF job[w].op = "cancel" THEN "cancelled" ELSE final
  OBVIOUS
<1>3. /\ job[w].at = "update" /\ OnlyInterest /\ HandlerTypeOK /\ Fits(w)
      /\ job[w].op # "publish"
      /\ interest' = [interest EXCEPT ![job[w].r] = Finalized(@, final)]
      /\ job' = [job EXCEPT ![w].at = "notify", ![w].notice = notice]
  BY <1>1, <1>2 DEF UpdateRemaining, At, IInv, Fits, PublishFits
<1>4. Known(job[w].r, job[w].stamp) /\ job[w].r \in Requests /\ job[w].op # "idle"
  BY <1>3, AtWork
<1>5. final \in {"not_selected", "expired"} /\ notice \in Notices
  BY <1>1, <1>2 DEF FinalInterest, EndInterest, Notices
<1>6. \A r \in Requests, p \in Professionals :
        interest'[r][p] = IF r = job[w].r /\ interest[r][p] = "applied"
                            THEN final ELSE interest[r][p]
  BY <1>3 DEF HandlerTypeOK, TypeOK, Finalized
<1>7. interest' \in [Requests -> [Professionals -> InterestStatus]]
  <2>1. Finalized(interest[job[w].r], final) \in [Professionals -> InterestStatus]
    BY <1>3, <1>4, <1>5 DEF HandlerTypeOK, TypeOK, Finalized, InterestStatus
  <2> QED BY <1>3, <2>1 DEF HandlerTypeOK, TypeOK
<1>8. \A r \in Requests, p \in Professionals : interest'[r][p] # interest[r][p] =>
        status[r] # "none" /\ (IsDecided(r, p) => IsDecided(r, p)')
  BY <1>4, <1>6 DEF Known, IsDecided
<1>9. /\ job' \in [Workers -> Jobs] /\ \A v \in Workers \ {w} : job'[v] = job[v]
      /\ job'[w].at = "notify" /\ job'[w].op = job[w].op /\ job'[w].r = job[w].r
      /\ job'[w].p = job[w].p /\ job'[w].stamp = job[w].stamp
      /\ job'[w].notice = notice /\ job'[w].outcome = job[w].outcome
      /\ job'[w].todo = job[w].todo
  <2>1. /\ job \in [Workers -> Jobs] /\ "notify" \in Points
        /\ notice \in Notices \cup {"none"}
        /\ job' = [job EXCEPT ![w].at = "notify", ![w].notice = notice]
    BY <1>3, <1>5 DEF HandlerTypeOK, Points
  <2> QED BY <2>1 DEF Jobs
<1>10. UNCHANGED <<now, status, publishedAt>>
  BY <1>3 DEF OnlyInterest
<1>11. Onward /\ HandlerTypeOK'
  BY <1>3, <1>7, <1>8, <1>9, InterestWritten DEF HandlerTypeOK, TypeOK, OnlyInterest
<1>12. Fits(w)'
  <2>1. PublishFits(w)' /\ PlaceFits(w)'
    BY <1>3, <1>4, <1>5, <1>9 DEF PublishFits, PlaceFits, Notices
  <2>2. StampFits(w)' /\ RequestFits(w)' /\ TodoFits(w)'
    BY <1>3, <1>4, <1>9, <1>10 DEF Fits, StampFits, RequestFits, TodoFits, Known
  <2>3. SelectFits(w)'
    BY <1>3, <1>4, <1>9, <1>11 DEF Fits, SelectFits, Onward, IsDecided
  <2>4. OutcomeFits(w)'
    BY <1>3, <1>9 DEF Fits, OutcomeFits
  <2> QED BY <2>1, <2>2, <2>3, <2>4 DEF Fits
<1> QED BY <1>3, <1>7, <1>8, <1>9, <1>12, InterestWritten

-----------------------------------------------------------------------------
(* Steps that write a request, a conversation or a notice.                 *)

LEMMA InsertRequestHolds ==
  ASSUME IInv, NEW w \in Workers, InsertRequest(w)
  PROVE  IInv'
<1>1. PICK r, stamp, until :
        r = job[w].r /\ stamp = job[w].stamp /\ until = stamp + job[w].window
  OBVIOUS
<1>2. /\ job[w].op = "publish" /\ Finish(w) /\ Fits(w) /\ HandlerTypeOK
      /\ status' = [status EXCEPT ![r] = "open"]
      /\ publishedAt' = [publishedAt EXCEPT ![r] = stamp]
      /\ expiresAt' = [expiresAt EXCEPT ![r] = until]
      /\ UNCHANGED <<now, closedAt, interest, conversation, told, cut>>
  BY <1>1 DEF InsertRequest, At, IInv
<1>3. /\ r \in Requests /\ status[r] = "none" /\ until \in Nat
      /\ stamp \in Nat /\ stamp >= 1 /\ stamp <= now
  <2>1. job[w] \in Jobs
    BY <1>2 DEF HandlerTypeOK
  <2>2. job[w].stamp \in Nat /\ job[w].window \in Nat
    BY <2>1 DEF Jobs
  <2> QED BY <1>1, <1>2, <2>2 DEF Fits, PublishFits, StampFits
<1>4. /\ job' \in [Workers -> Jobs] /\ \A v \in Workers \ {w} : job'[v] = job[v]
      /\ Fits(w)' /\ job'[w].op # "publish"
  BY <1>2, FinishedFits
<1>5. HandlerTypeOK'
  BY <1>2, <1>3, <1>4 DEF HandlerTypeOK, TypeOK, RequestStatus
<1>6. /\ status' = [q \in Requests |-> IF q = r THEN "open" ELSE status[q]]
      /\ publishedAt' = [q \in Requests |-> IF q = r THEN stamp ELSE publishedAt[q]]
  BY <1>2 DEF HandlerTypeOK, TypeOK
<1>7. Onward
  BY <1>2, <1>3, <1>6, ClockNow DEF Onward, IsDecided
<1>8. ClockFits' /\ Unborn' /\ ChatMeansSelected'
  BY <1>2, <1>3, <1>6
  DEF IInv, TablesFit, ClockFits, Unborn, ChatMeansSelected
<1>9. EndIsRecorded'
  <2>1. closedAt[r] = NoTime
    BY <1>3 DEF IInv, TablesFit, Unborn
  <2> QED BY <1>2, <1>6, <2>1 DEF IInv, TablesFit, EndIsRecorded
<1>11. TablesFit'
  BY <1>8, <1>9 DEF TablesFit
<1>12. \A v \in Workers \ {w} : job[v].op = "publish" => status'[job[v].r] = "none"
  BY <1>1, <1>2, <1>6 DEF IInv, Apart, Fits, PublishFits
<1> QED BY <1>4, <1>5, <1>7, <1>11, <1>12, Conclude

\* Telling some of those listed leaves the rest of the tables alone.
LEMMA Told ==
  ASSUME IInv, NEW w \in Workers, job[w].at = "notify", NEW ps,
         told' = [told EXCEPT ![job[w].r] = Tell(@, ps, job[w].notice)],
         UNCHANGED <<now, status, publishedAt, expiresAt, closedAt, interest,
                     conversation, cut>>,
         job' \in [Workers -> Jobs], \A v \in Workers \ {w} : job'[v] = job[v],
         Fits(w)', job'[w].op # "publish"
  PROVE  IInv'
<1>1. Fits(w) /\ HandlerTypeOK /\ job[w].op # "publish"
  BY DEF IInv, Fits, PublishFits
<1>2. job[w] \in Jobs /\ job[w].r \in Requests
  BY <1>1, AtWork
<1>3. told' \in [Requests -> [Professionals -> SUBSET Notices]]
  <2>1. told[job[w].r] \in [Professionals -> SUBSET Notices] /\ job[w].notice \in Notices
    BY <1>1, <1>2 DEF HandlerTypeOK, TypeOK, Jobs, Fits, PlaceFits
  <2>2. Tell(told[job[w].r], ps, job[w].notice) \in [Professionals -> SUBSET Notices]
    BY <2>1 DEF Tell
  <2> QED BY <1>1, <2>2 DEF HandlerTypeOK, TypeOK
<1>4. Onward
  BY ClockNow DEF Onward, IsDecided
<1>5. HandlerTypeOK'
  BY <1>1, <1>3 DEF HandlerTypeOK, TypeOK
<1>6. TablesFit'
  <2>1. ClockFits' /\ Unborn' /\ EndIsRecorded'
    BY DEF IInv, TablesFit, ClockFits, Unborn, EndIsRecorded
  <2> QED BY <1>4, <1>5, <2>1, DecidedStay DEF TablesFit
<1>7. \A v \in Workers : job[v].op = "publish" => status'[job[v].r] = "none"
  BY DEF IInv, Fits, PublishFits
<1> QED BY <1>4, <1>5, <1>6, <1>7, Conclude

LEMMA NotifyHolds ==
  ASSUME IInv, NEW w \in Workers, Notify(w)
  PROVE  IInv'
<1>1. /\ job[w].at = "notify" /\ Fits(w) /\ HandlerTypeOK /\ job[w].op # "publish"
      /\ told' = [told EXCEPT ![job[w].r] = Tell(@, job[w].listed, job[w].notice)]
      /\ UNCHANGED <<now, status, publishedAt, expiresAt, closedAt, interest,
                     conversation, cut>>
  BY DEF Notify, At, IInv, Fits, PublishFits
<1>2. job[w] \in Jobs /\ Known(job[w].r, job[w].stamp) /\ job[w].op # "idle"
  BY <1>1, AtWork
<1>3. /\ job' \in [Workers -> Jobs] /\ \A v \in Workers \ {w} : job'[v] = job[v]
      /\ Fits(w)' /\ job'[w].op # "publish"
  <2>1. CASE Finish(w)
    BY <1>1, <2>1, FinishedFits
  <2>2. CASE Goto(w, "save")
    <3>1. /\ job' \in [Workers -> Jobs] /\ \A v \in Workers \ {w} : job'[v] = job[v]
          /\ job'[w].at = "save" /\ job'[w].op = job[w].op /\ job'[w].r = job[w].r
          /\ job'[w].p = job[w].p /\ job'[w].stamp = job[w].stamp
          /\ job'[w].outcome = job[w].outcome /\ job'[w].todo = job[w].todo
      BY <1>1, <2>2, GoneTo DEF Points
    <3>2. PublishFits(w)' /\ PlaceFits(w)'
      BY <1>1, <1>2, <3>1 DEF PublishFits, PlaceFits
    <3>3. StampFits(w)' /\ RequestFits(w)' /\ TodoFits(w)'
      BY <1>1, <1>2, <3>1 DEF Fits, StampFits, RequestFits, TodoFits, Known
    <3>4. SelectFits(w)' /\ OutcomeFits(w)'
      BY <1>1, <3>1 DEF Fits, SelectFits, OutcomeFits, IsDecided
    <3> QED BY <1>1, <3>1, <3>2, <3>3, <3>4 DEF Fits
  <2> QED BY <2>1, <2>2 DEF Notify
<1> QED BY <1>1, <1>3, Told

\* A worker that stops has told some of those it listed, or nobody.
LEMMA CrashHolds ==
  ASSUME IInv, NEW w \in Workers, Crash(w)
  PROVE  IInv'
<1>1. CASE OnlyJob
  BY <1>1, GivesUp DEF Crash
<1>2. CASE At(w, Ops, "notify")
  <2>1. /\ job' \in [Workers -> Jobs] /\ \A v \in Workers \ {w} : job'[v] = job[v]
        /\ Fits(w)' /\ job'[w].op # "publish"
    BY FinishedFits DEF Crash, IInv
  <2>2. job[w].at = "notify" /\ ToldSome(w)
    BY <1>2 DEF Crash, At
  <2> QED BY <2>1, <2>2, Told DEF ToldSome
<1> QED BY <1>1, <1>2 DEF Crash

LEMMA ConversationHolds ==
  ASSUME IInv, NEW w \in Workers, OpenConversation(w)
  PROVE  IInv'
<1>1. PICK r, p : r = job[w].r /\ p = job[w].p
  OBVIOUS
<1>2. /\ job[w].op = "select" /\ job[w].at = "chat" /\ Fits(w) /\ HandlerTypeOK
      /\ conversation' = [conversation EXCEPT ![r] = @ \cup {p}]
      /\ job' = [job EXCEPT ![w].at = "notify", ![w].listed = {p}, ![w].notice = "selected"]
      /\ UNCHANGED <<now, status, publishedAt, expiresAt, closedAt, interest, told, cut>>
  BY <1>1 DEF OpenConversation, At, IInv
<1>3. job[w] \in Jobs /\ Known(r, job[w].stamp) /\ r \in Requests
  BY <1>1, <1>2, AtWork
<1>4. p \in Professionals /\ IsDecided(r, p)
  BY <1>1, <1>2 DEF Fits, SelectFits
<1>5. /\ job' \in [Workers -> Jobs] /\ \A v \in Workers \ {w} : job'[v] = job[v]
      /\ job'[w].at = "notify" /\ job'[w].op = "select" /\ job'[w].r = r
      /\ job'[w].p = p /\ job'[w].stamp = job[w].stamp /\ job'[w].notice = "selected"
      /\ job'[w].outcome = job[w].outcome /\ job'[w].todo = job[w].todo
  <2>1. /\ job \in [Workers -> Jobs] /\ "notify" \in Points /\ "selected" \in Notices
        /\ {p} \in SUBSET Professionals
    BY <1>2, <1>4 DEF HandlerTypeOK, Points, Notices
  <2>2. PICK new : new = [job[w] EXCEPT !.at = "notify", !.listed = {p}, !.notice = "selected"]
    OBVIOUS
  <2>3. /\ new \in Jobs /\ new.at = "notify" /\ new.op = job[w].op /\ new.r = job[w].r
        /\ new.p = job[w].p /\ new.stamp = job[w].stamp /\ new.notice = "selected"
        /\ new.outcome = job[w].outcome /\ new.todo = job[w].todo
    BY <1>3, <2>1, <2>2 DEF Jobs
  <2>4. job' = [job EXCEPT ![w] = new]
    BY <1>2, <2>1, <2>2
  <2>5. job' \in [Workers -> Jobs] /\ \A v \in Workers \ {w} : job'[v] = job[v]
    BY <2>1, <2>3, <2>4
  <2>6. job'[w] = new
    BY <2>1, <2>4
  <2>7. job[w].op = "select" /\ job[w].r = r /\ job[w].p = p
    BY <1>1, <1>2
  <2> QED BY <2>3, <2>5, <2>6, <2>7
<1>6. conversation' \in [Requests -> SUBSET Professionals]
  BY <1>2, <1>4 DEF HandlerTypeOK, TypeOK
<1>7. HandlerTypeOK' /\ Onward
  BY <1>2, <1>5, <1>6, ClockNow DEF HandlerTypeOK, TypeOK, Onward, IsDecided
<1>8. Fits(w)'
  <2>1. PublishFits(w)' /\ PlaceFits(w)'
    BY <1>5 DEF PublishFits, PlaceFits
  <2>2. StampFits(w)' /\ RequestFits(w)' /\ TodoFits(w)'
    BY <1>2, <1>3, <1>5 DEF Fits, StampFits, RequestFits, TodoFits, Known
  <2>3. SelectFits(w)'
    BY <1>2, <1>4, <1>5 DEF SelectFits, IsDecided
  <2>4. OutcomeFits(w)'
    BY <1>1, <1>2, <1>5 DEF Fits, OutcomeFits
  <2> QED BY <2>1, <2>2, <2>3, <2>4 DEF Fits
<1>9. TablesFit'
  <2>1. ClockFits' /\ Unborn' /\ EndIsRecorded'
    BY <1>2 DEF IInv, TablesFit, ClockFits, Unborn, EndIsRecorded
  <2>2. ChatMeansSelected'
    <3>1. \A q \in Requests : \A v \in conversation'[q] :
            v \in conversation[q] \/ (q = r /\ v = p)
      BY <1>2 DEF HandlerTypeOK, TypeOK
    <3> QED BY <1>2, <1>4, <3>1 DEF IInv, TablesFit, ChatMeansSelected, IsDecided
  <2> QED BY <2>1, <2>2 DEF TablesFit
<1>10. \A v \in Workers : job[v].op = "publish" => status'[job[v].r] = "none"
  BY <1>2 DEF IInv, Fits, PublishFits
<1> QED BY <1>5, <1>7, <1>8, <1>9, <1>10, Conclude

LEMMA TickHolds ==
  ASSUME IInv, HandlerTick
  PROVE  IInv'
<1>1. /\ now' = now + 1 /\ now \in Nat /\ UNCHANGED job
      /\ UNCHANGED <<status, publishedAt, expiresAt, closedAt, interest,
                     conversation, told, cut>>
  BY ClockNow DEF HandlerTick, Tick, tables
<1>2. HandlerTypeOK' /\ HandlerTypeOK
  BY <1>1 DEF IInv, HandlerTypeOK, TypeOK
<1>3. Onward
  BY <1>1 DEF Onward, IsDecided
<1>4. ClockFits'
  BY <1>1, ClockNow DEF ClockFits
<1>5. Unborn' /\ EndIsRecorded'
  BY <1>1 DEF IInv, TablesFit, Unborn, EndIsRecorded
<1>6. TablesFit'
  BY <1>1, <1>2, <1>3, <1>4, <1>5, DecidedStay DEF TablesFit
<1>7. ASSUME NEW v \in Workers PROVE Fits(v)'
  <2>1. job[v].op = "publish" => status'[job[v].r] = "none"
    BY <1>1 DEF IInv, Fits, PublishFits
  <2> QED BY <1>1, <1>2, <1>3, <2>1, OthersFit DEF IInv
<1> QED BY <1>1, <1>2, <1>6, <1>7 DEF IInv, Apart

\* A save that clean refuses changes no table but the history.
LEMMA RefusedHolds ==
  ASSUME IInv, NEW w \in Workers, At(w, Ops, "save"), Finish(w),
         cut' \subseteq Requests,
         UNCHANGED <<now, status, publishedAt, expiresAt, closedAt, interest,
                     conversation, told>>
  PROVE  IInv'
<1>1. /\ job' \in [Workers -> Jobs] /\ \A v \in Workers \ {w} : job'[v] = job[v]
      /\ Fits(w)' /\ job'[w].op # "publish"
  BY FinishedFits DEF IInv
<1>2. HandlerTypeOK' /\ Onward
  BY <1>1, ClockNow DEF IInv, HandlerTypeOK, TypeOK, Onward, IsDecided
<1>3. TablesFit'
  <2>1. ClockFits' /\ Unborn' /\ EndIsRecorded'
    BY DEF IInv, TablesFit, ClockFits, Unborn, EndIsRecorded
  <2> QED BY <1>2, <2>1, DecidedStay DEF TablesFit
<1>4. \A v \in Workers : job[v].op = "publish" => status'[job[v].r] = "none"
  BY DEF IInv, Fits, PublishFits
<1> QED BY <1>1, <1>2, <1>3, <1>4, Conclude

LEMMA SavedHolds ==
  ASSUME IInv, NEW w \in Workers, At(w, Ops, "save"), NEW end \in Nat,
         status' = [status EXCEPT ![job[w].r] = job[w].outcome],
         closedAt' = [closedAt EXCEPT ![job[w].r] = end],
         \/ end = closedAt[job[w].r] /\ job[w].outcome = "partially_filled"
         \/ end = job[w].stamp \/ end = now,
         \/ Finish(w)
         \/ Goto(w, CASE job[w].op = "select" -> "chat"
                      [] job[w].op = "cancel" -> "list"
                      [] OTHER -> "next"),
         UNCHANGED <<cut, now, publishedAt, expiresAt, interest, conversation, told>>
  PROVE  IInv'
<1>1. PICK r, outcome : r = job[w].r /\ outcome = job[w].outcome
  OBVIOUS
<1>2. /\ job[w].at = "save" /\ Fits(w) /\ HandlerTypeOK /\ job[w].op # "publish"
      /\ outcome \in Ends
  BY <1>1 DEF At, IInv, Fits, PublishFits, OutcomeFits
<1>3. /\ job[w].op # "idle" /\ Known(r, job[w].stamp) /\ r \in Requests
      /\ job[w].stamp \in Nat /\ job[w].stamp >= 1 /\ job[w].stamp <= now
  BY <1>1, <1>2, AtWork
<1>4. /\ status' = [q \in Requests |-> IF q = r THEN outcome ELSE status[q]]
      /\ closedAt' = [q \in Requests |-> IF q = r THEN end ELSE closedAt[q]]
  BY <1>1, <1>2 DEF HandlerTypeOK, TypeOK
<1>5. Onward
  BY <1>2, <1>3, <1>4, ClockNow DEF Onward, IsDecided, Ends, Known
<1>6. /\ job' \in [Workers -> Jobs] /\ \A v \in Workers \ {w} : job'[v] = job[v]
      /\ Fits(w)' /\ job'[w].op # "publish"
  <2>1. CASE Finish(w)
    BY <1>2, <2>1, FinishedFits
  <2>2. ASSUME NEW to \in Points, Goto(w, to), to \in {"chat", "list", "next"},
               job[w].op = "select" => to = "chat"
        PROVE  /\ job' \in [Workers -> Jobs] /\ \A v \in Workers \ {w} : job'[v] = job[v]
               /\ Fits(w)' /\ job'[w].op # "publish"
    <3>1. /\ job' \in [Workers -> Jobs] /\ \A v \in Workers \ {w} : job'[v] = job[v]
          /\ job'[w].at = to /\ job'[w].op = job[w].op /\ job'[w].r = r
          /\ job'[w].p = job[w].p /\ job'[w].stamp = job[w].stamp
          /\ job'[w].outcome = outcome /\ job'[w].todo = job[w].todo
      BY <1>1, <1>2, <2>2, GoneTo
    <3>2. PublishFits(w)' /\ PlaceFits(w)'
      BY <1>2, <1>3, <2>2, <3>1 DEF PublishFits, PlaceFits
    <3>3. \A q, s : Known(q, s) => Known(q, s)'
      BY <1>5 DEF Known, Onward
    <3>4. StampFits(w)' /\ RequestFits(w)' /\ TodoFits(w)'
      BY <1>2, <1>3, <3>1, <3>3 DEF Fits, StampFits, RequestFits, TodoFits
    <3>5. SelectFits(w)'
      BY <1>1, <1>2, <2>2, <3>1 DEF Fits, SelectFits, IsDecided
    <3>6. OutcomeFits(w)'
      BY <1>2, <3>1 DEF OutcomeFits
    <3> QED BY <1>2, <3>1, <3>2, <3>4, <3>5, <3>6 DEF Fits
  <2> QED BY <2>1, <2>2 DEF Points
<1>7. HandlerTypeOK'
  <2>1. outcome \in RequestStatus
    BY <1>2 DEF Ends, RequestStatus
  <2>2. /\ status' \in [Requests -> RequestStatus]
        /\ closedAt' \in [Requests -> Nat]
    <3>1. status \in [Requests -> RequestStatus] /\ closedAt \in [Requests -> Nat]
      BY <1>2 DEF HandlerTypeOK, TypeOK
    <3>2. status' \in [Requests -> RequestStatus]
      BY <1>4, <2>1, <3>1
    <3>3. closedAt' \in [Requests -> Nat]
      BY <1>4, <3>1
    <3> QED BY <3>2, <3>3
  <2>3. job' \in [Workers -> Jobs] /\ TypeOK
    BY <1>2, <1>6 DEF HandlerTypeOK
  <2> QED BY <2>2, <2>3 DEF HandlerTypeOK, TypeOK
<1>8. ClockFits' /\ Unborn' /\ ChatMeansSelected'
  BY <1>2, <1>4 DEF IInv, TablesFit, ClockFits, Unborn, ChatMeansSelected, Ends
<1>9. EndIsRecorded'
  <2>1. EndIsRecorded /\ publishedAt[r] \in Nat /\ publishedAt[r] <= now /\ now >= 1
    BY <1>3, ClockNow DEF IInv, TablesFit
  <2>2. \/ end = closedAt[r] /\ outcome = "partially_filled"
        \/ end = job[w].stamp \/ end = now
    BY <1>1
  <2>3. /\ outcome \in {"filled", "expired", "cancelled"} => end # NoTime
        /\ end # NoTime => end >= publishedAt[r]
    BY <1>3, <2>1, <2>2 DEF EndIsRecorded, NoTime, Known
  <2> QED BY <1>3, <1>4, <2>1, <2>3 DEF EndIsRecorded
<1>11. TablesFit'
  BY <1>8, <1>9 DEF TablesFit
<1>12. \A v \in Workers : job[v].op = "publish" => status'[job[v].r] = "none"
  BY <1>3, <1>4 DEF IInv, Fits, PublishFits, Known
<1> QED BY <1>5, <1>6, <1>7, <1>11, <1>12, Conclude

LEMMA SaveHolds ==
  ASSUME IInv, NEW w \in Workers, SaveRequest(w)
  PROVE  IInv'
<1>1. At(w, Ops, "save") /\ HandlerTypeOK /\ Fits(w)
  BY DEF SaveRequest, IInv
<1>2. /\ job[w] \in Jobs /\ job[w].r \in Requests /\ job[w].stamp \in Nat
      /\ closedAt[job[w].r] \in Nat /\ now \in Nat
  <2>1. job[w].op # "publish" /\ job[w].at = "save"
    BY <1>1 DEF At, Fits, PublishFits
  <2> QED BY <1>1, <2>1, AtWork, ClockNow DEF HandlerTypeOK, TypeOK
<1>3. PICK end : end = IF KeepsClosedAt(w) THEN closedAt[job[w].r]
                       ELSE IF job[w].op \in {"sweep", "select"} THEN job[w].stamp ELSE now
  OBVIOUS
<1>4. CASE SaveRefused(job[w].r)
  BY <1>1, <1>2, <1>4, RefusedHolds DEF SaveRequest, HandlerTypeOK, TypeOK
<1>5. CASE ~SaveRefused(job[w].r)
  <2>1. /\ status' = [status EXCEPT ![job[w].r] = job[w].outcome]
        /\ closedAt' = [closedAt EXCEPT ![job[w].r] = end]
        /\ \/ Finish(w)
           \/ Goto(w, CASE job[w].op = "select" -> "chat"
                        [] job[w].op = "cancel" -> "list"
                        [] OTHER -> "next")
        /\ UNCHANGED <<cut, now, publishedAt, expiresAt, interest, conversation, told>>
    BY <1>3, <1>5 DEF SaveRequest
  <2>2. /\ end \in Nat
        /\ \/ end = closedAt[job[w].r] /\ job[w].outcome = "partially_filled"
           \/ end = job[w].stamp \/ end = now
    BY <1>2, <1>3 DEF KeepsClosedAt
  <2> QED BY <1>1, <2>1, <2>2, SavedHolds
<1> QED BY <1>4, <1>5

-----------------------------------------------------------------------------
LEMMA Starts == Init => IInv
<1> SUFFICES ASSUME Init PROVE IInv
  OBVIOUS
<1>1. HandlerTypeOK
  BY IdleJob DEF Init, InitTables, HandlerTypeOK, TypeOK, RequestStatus, InterestStatus, NoTime
<1>2. TablesFit
  BY DEF Init, InitTables, TablesFit, ClockFits, Unborn, ChatMeansSelected, EndIsRecorded, NoTime
<1>3. Apart
  BY IdleJob DEF Init, Apart
<1>4. \A w \in Workers : Fits(w)
  BY IdleJob DEF Init, Fits, PublishFits, StampFits, RequestFits, TodoFits, SelectFits,
     OutcomeFits, PlaceFits
<1> QED BY <1>1, <1>2, <1>3, <1>4 DEF IInv

LEMMA Inductive == IInv /\ [Next]_vars => IInv'
<1> SUFFICES ASSUME IInv, [Next]_vars PROVE IInv'
  OBVIOUS
<1>1. CASE UNCHANGED vars
  <2>1. OnlyJob /\ job' = job
    BY <1>1 DEF vars, OnlyJob
  <2>2. Onward /\ TablesFit' /\ HandlerTypeOK'
    BY <2>1, Still DEF IInv, HandlerTypeOK
  <2>3. ASSUME NEW v \in Workers PROVE Fits(v)'
    <3>1. job[v].op = "publish" => status'[job[v].r] = "none"
      BY <2>1 DEF IInv, Fits, PublishFits, OnlyJob, tables
    <3> QED BY <2>1, <2>2, <3>1, OthersFit DEF IInv
  <2> QED BY <2>1, <2>2, <2>3 DEF IInv, Apart
<1>2. CASE HandlerTick
  BY <1>2, TickHolds
<1>3. ASSUME NEW w \in Workers, Start(w) PROVE IInv'
  BY <1>3, StartsHold
<1>4. ASSUME NEW w \in Workers, Step(w) PROVE IInv'
  BY <1>4, InsertRequestHolds, InsertInterestHolds, LoadHolds, WithdrawnHolds, SelectedHolds,
     CountHolds, ListHolds, UpdateHolds, NotifyHolds, SaveHolds, ConversationHolds, NextDueHolds
  DEF Step
<1>5. ASSUME NEW w \in Workers, Crash(w) PROVE IInv'
  BY <1>5, CrashHolds
<1> QED BY <1>1, <1>2, <1>3, <1>4, <1>5 DEF Next

-----------------------------------------------------------------------------
\* The tables and the jobs of any number of workers hold what the model says.
THEOREM HandlerTypes == Spec => []HandlerTypeOK
<1>1. IInv => HandlerTypeOK
  BY DEF IInv
<1> QED BY <1>1, Starts, Inductive, PTL DEF Spec

\* A conversation (select_interest) is only ever with somebody the client
\* selected, whatever other handlers do between its statements.
THEOREM Chats == Spec => []ChatMeansSelected
<1>1. IInv => ChatMeansSelected
  BY DEF IInv, TablesFit
<1> QED BY <1>1, Starts, Inductive, PTL DEF Spec

\* closed_at is there when a request has ended, and not before its publication,
\* though handlers save an instant they took earlier.
THEOREM EndsRecorded == Spec => []EndIsRecorded
<1>1. IInv => EndIsRecorded
  BY DEF IInv, TablesFit
<1> QED BY <1>1, Starts, Inductive, PTL DEF Spec

-----------------------------------------------------------------------------
(* What a step may do to an interest or a status.                          *)

LEMMA StatusStep ==
  ASSUME IInv, [Next]_vars, NEW r \in Requests, status'[r] # status[r]
  PROVE  status'[r] # "none" /\ (status'[r] = "open" => status[r] = "none")
<1>1. ASSUME NEW w \in Workers, InsertRequest(w)
      PROVE  status'[r] # "none" /\ (status'[r] = "open" => status[r] = "none")
  <2>1. job[w].op = "publish" /\ Fits(w) /\ status' = [status EXCEPT ![job[w].r] = "open"]
        /\ status \in [Requests -> RequestStatus]
    BY <1>1 DEF InsertRequest, At, IInv, HandlerTypeOK, TypeOK
  <2> QED BY <2>1 DEF Fits, PublishFits
<1>2. ASSUME NEW w \in Workers, SaveRequest(w)
      PROVE  status'[r] # "none" /\ (status'[r] = "open" => status[r] = "none")
  <2>1. /\ job[w].at = "save" /\ Fits(w) /\ status \in [Requests -> RequestStatus]
        /\ status' = status \/ status' = [status EXCEPT ![job[w].r] = job[w].outcome]
    BY <1>2 DEF SaveRequest, At, IInv, HandlerTypeOK, TypeOK
  <2>2. job[w].outcome \in Ends
    BY <2>1 DEF Fits, OutcomeFits
  <2> QED BY <2>1, <2>2 DEF Ends
<1>3. ASSUME NEW w \in Workers, Start(w) \/ Crash(w) PROVE status' = status
  BY <1>3 DEF Start, Crash, StartPublish, StartApply, StartWithdraw, StartSelect, StartClose,
     StartCancel, StartSweep, ToldSome, OnlyJob, tables
<1>4. ASSUME NEW w \in Workers,
             \/ InsertInterest(w) \/ LoadRequest(w) \/ SaveWithdrawn(w) \/ SaveSelected(w)
             \/ CountSelected(w) \/ ListRemaining(w) \/ UpdateRemaining(w) \/ Notify(w)
             \/ OpenConversation(w) \/ NextDue(w)
      PROVE  status' = status
  BY <1>4 DEF InsertInterest, LoadRequest, SaveWithdrawn, SaveSelected, CountSelected,
     ListRemaining, UpdateRemaining, Notify, OpenConversation, NextDue, OnlyJob,
     OnlyInterest, tables
<1>5. CASE UNCHANGED vars \/ HandlerTick
  BY <1>5 DEF vars, tables, HandlerTick, Tick
<1> QED BY <1>1, <1>2, <1>3, <1>4, <1>5 DEF Next, Step

\* A published request stays published and never opens again (status is saved
\* by select_interest, close_request_now, cancel_request and the sweep from
\* what they read before).
THEOREM NeverOpens == Spec => NeverOpenAgain
<1>1. IInv /\ [Next]_vars => [\A r \in Requests :
        status'[r] # status[r] => status'[r] \notin {"none"} /\
                                  (status'[r] = "open" => status[r] = "none")]_status
  BY StatusStep
<1> QED BY <1>1, Starts, Inductive, PTL DEF Spec, NeverOpenAgain

LEMMA InterestStep ==
  ASSUME IInv, [Next]_vars, NEW r \in Requests, NEW p \in Professionals,
         interest'[r][p] # interest[r][p]
  PROVE  /\ interest'[r][p] \in {"not_selected", "expired"} => interest[r][p] = "applied"
         /\ interest'[r][p] = "applied" => interest[r][p] = "none"
<1> DEFINE Spared ==
      /\ interest'[r][p] \in {"not_selected", "expired"} => interest[r][p] = "applied"
      /\ interest'[r][p] = "applied" => interest[r][p] = "none"
<1>0. interest \in [Requests -> [Professionals -> InterestStatus]]
  BY DEF IInv, HandlerTypeOK, TypeOK
<1>1. ASSUME NEW w \in Workers, InsertInterest(w) PROVE Spared
  <2>1. \/ interest' = interest
        \/ /\ interest[job[w].r][job[w].p] = "none"
           /\ interest' = [interest EXCEPT ![job[w].r][job[w].p] = "applied"]
    BY <1>1 DEF InsertInterest, SetInterest
  <2> QED BY <1>0, <2>1
<1>2. ASSUME NEW w \in Workers, SaveWithdrawn(w) PROVE Spared
  BY <1>0, <1>2 DEF SaveWithdrawn, SetInterest
<1>3. ASSUME NEW w \in Workers, SaveSelected(w) PROVE Spared
  BY <1>0, <1>3 DEF SaveSelected, SetInterest
<1>4. ASSUME NEW w \in Workers, UpdateRemaining(w) PROVE Spared
  <2>1. FinalInterest(w) \in {"not_selected", "expired"}
    BY DEF FinalInterest, EndInterest
  <2>2. interest' = [interest EXCEPT ![job[w].r] = Finalized(@, FinalInterest(w))]
    BY <1>4 DEF UpdateRemaining
  <2> QED BY <1>0, <2>1, <2>2 DEF Finalized
<1>5. ASSUME NEW w \in Workers, Start(w) \/ Crash(w) PROVE interest' = interest
  BY <1>5 DEF Start, Crash, StartPublish, StartApply, StartWithdraw, StartSelect, StartClose,
     StartCancel, StartSweep, ToldSome, OnlyJob, tables
<1>6. ASSUME NEW w \in Workers,
             \/ InsertRequest(w) \/ LoadRequest(w) \/ CountSelected(w) \/ ListRemaining(w)
             \/ Notify(w) \/ SaveRequest(w) \/ OpenConversation(w) \/ NextDue(w)
      PROVE  interest' = interest
  BY <1>6 DEF InsertRequest, LoadRequest, CountSelected, ListRemaining, Notify, SaveRequest,
     OpenConversation, NextDue, OnlyJob, tables
<1>7. CASE UNCHANGED vars \/ HandlerTick
  BY <1>7 DEF vars, tables, HandlerTick, Tick
<1> QED BY <1>1, <1>2, <1>3, <1>4, <1>5, <1>6, <1>7 DEF Next, Step

\* The bulk UPDATE of _finalize_remaining_interests refuses applicants only,
\* however stale the decision it follows from, and nobody applies twice.
THEOREM Spares == Spec => RefusalSparesTheSelected
<1>1. IInv /\ [Next]_vars => [\A r \in Requests, p \in Professionals :
        interest'[r][p] # interest[r][p] =>
          /\ interest'[r][p] \in {"not_selected", "expired"} => interest[r][p] = "applied"
          /\ interest'[r][p] = "applied" => interest[r][p] = "none"]_interest
  BY InterestStep
<1> QED BY <1>1, Starts, Inductive, PTL DEF Spec, RefusalSparesTheSelected

-----------------------------------------------------------------------------
(* One handler at a time is the handler in one step.                       *)

\* The tables as the running handler found them.
status0    == before[1]
published0 == before[2]
expires0   == before[3]
closed0    == before[4]
interest0  == before[5]
chats0     == before[6]
told0      == before[7]
cut0       == before[8]

BeforeTyped ==
  /\ status0 \in [Requests -> RequestStatus]
  /\ published0 \in [Requests -> Nat]
  /\ expires0 \in [Requests -> Nat]
  /\ closed0 \in [Requests -> Nat]
  /\ interest0 \in [Requests -> [Professionals -> InterestStatus]]
  /\ chats0 \in [Requests -> SUBSET Professionals]
  /\ told0 \in [Requests -> [Professionals -> SUBSET Notices]]
  /\ cut0 \subseteq Requests

RowsKept == publishedAt = published0 /\ expiresAt = expires0
NotSaved == status = status0 /\ closedAt = closed0 /\ conversation = chats0 /\ cut = cut0
Untouched == RowsKept /\ NotSaved /\ interest = interest0 /\ told = told0

\* What the duplicate check, the count and the due list say of those tables.
Refused0(r) ==
  \E q \in Requests :
    /\ q # r /\ ClientOf[q] = ClientOf[r] /\ CategoryOf[q] = CategoryOf[r]
    /\ status0[q] \in ReceivingStatus /\ published0[q] + DuplicateWindow >= now
Receiving0(r) == status0[r] \in ReceivingStatus
End0(r) == EndStatus(r, Cardinality(Having(interest0[r], "selected")))
Due0 == {r \in Requests : Receiving0(r) /\ expires0[r] <= now}

\* What a selection of p makes of them.
Chosen0(r, p) == [interest0[r] EXCEPT ![p] = "selected"]
Full0(r, p) == Full(r, Cardinality(Having(Chosen0(r, p), "selected")))
Refusals0(r, p) == IF Full0(r, p) THEN Remaining(Chosen0(r, p)) ELSE {}
Interests1(r, p) ==
  [interest0 EXCEPT ![r] = IF Full0(r, p) THEN Finalized(Chosen0(r, p), "not_selected")
                                          ELSE Chosen0(r, p)]
Told1(r, p) == [told0 EXCEPT ![r] = Tell(told0[r], Refusals0(r, p), "not_selected")]
Status1(r, p) == IF Full0(r, p) THEN "filled" ELSE "partially_filled"

\* What the end of the requests in R makes of them.
InterestsEnded(R) ==
  [q \in Requests |-> IF q \in R THEN Finalized(interest0[q], EndInterest(End0(q)))
                                 ELSE interest0[q]]
ToldEnded(R) ==
  [q \in Requests |->
     IF q \in R THEN Tell(told0[q], Remaining(interest0[q]), EndInterest(End0(q)))
                ELSE told0[q]]
StatusEnded(R) == [q \in Requests |-> IF q \in R THEN End0(q) ELSE status0[q]]
ClosedEnded(R) == [q \in Requests |-> IF q \in R THEN now ELSE closed0[q]]

\* What the job at work has made of the tables so far, and remembers.
PublishMemory(j) ==
  /\ j.op = "publish" /\ j.at = "insert" /\ Untouched
  /\ j.r \in Requests /\ j.window \in Windows
  /\ now + j.window <= LastTime /\ status[j.r] = "none"
  /\ ~SaveRefused(j.r) /\ MayPublish(ClientOf[j.r])

ApplyMemory(j) ==
  /\ j.op = "apply" /\ j.at = "insert" /\ Untouched
  /\ j.r \in Requests /\ j.p \in Professionals
  /\ Receiving0(j.r) /\ interest0[j.r][j.p] = "none"

WithdrawMemory(j) ==
  /\ j.op = "withdraw" /\ Untouched
  /\ j.r \in Requests /\ j.p \in Professionals /\ interest0[j.r][j.p] = "applied"
  /\ \/ j.at = "load"
     \/ j.at = "leave" /\ Receiving0(j.r)

\* From the UPDATE of the interest to the save of the request.
ChosenMemory(j) ==
  /\ NotSaved
  /\ \/ /\ j.at \in {"count", "list", "update"} /\ told = told0
        /\ interest = [interest0 EXCEPT ![j.r] = Chosen0(j.r, j.p)]
     \/ /\ j.at = "notify" /\ j.notice = "not_selected" /\ told = told0
        /\ interest = Interests1(j.r, j.p)
     \/ /\ j.at = "save" /\ told = Told1(j.r, j.p)
        /\ interest = Interests1(j.r, j.p)
  /\ j.at # "count" => j.outcome = Status1(j.r, j.p)
  /\ j.at \in {"list", "update", "notify"} => Full0(j.r, j.p)
  /\ j.at \in {"update", "notify"} => j.listed = Remaining(Chosen0(j.r, j.p))

\* Afterwards.
SavedMemory(j) ==
  /\ ~Refused0(j.r)
  /\ interest = Interests1(j.r, j.p) /\ told = Told1(j.r, j.p) /\ cut = cut0
  /\ status = [status0 EXCEPT ![j.r] = Status1(j.r, j.p)]
  /\ closedAt = [closed0 EXCEPT ![j.r] = IF Full0(j.r, j.p) THEN now ELSE @]
  /\ \/ j.at = "chat" /\ conversation = chats0
     \/ /\ j.at = "notify" /\ j.notice = "selected" /\ j.listed = {j.p}
        /\ conversation = [chats0 EXCEPT ![j.r] = @ \cup {j.p}]

SelectMemory(j) ==
  /\ j.op = "select" /\ RowsKept
  /\ j.r \in Requests /\ j.p \in Professionals /\ interest0[j.r][j.p] = "applied"
  /\ \/ j.at = "load" /\ Untouched
     \/ /\ Receiving0(j.r)
        /\ \/ j.at = "choose" /\ Untouched
           \/ ChosenMemory(j)
           \/ SavedMemory(j)

CancelMemory(j) ==
  /\ j.op = "cancel" /\ RowsKept /\ j.r \in Requests
  /\ status0[j.r] \notin {"none", "cancelled", "completed"}
  /\ conversation = chats0 /\ cut = cut0 /\ told = told0 /\ j.outcome = "cancelled"
  /\ \/ j.at = "save" /\ Untouched
     \/ /\ j.at \in {"list", "update", "notify"} /\ ~Refused0(j.r)
        /\ status = [status0 EXCEPT ![j.r] = "cancelled"]
        /\ closedAt = [closed0 EXCEPT ![j.r] = now]
        /\ j.at # "list" => j.listed = Remaining(interest0[j.r])
        /\ IF j.at = "notify"
             THEN /\ j.notice = "cancelled"
                  /\ interest = [interest0 EXCEPT ![j.r] = Finalized(@, "expired")]
             ELSE interest = interest0

\* A closing ends one request, a sweep all that are due, in their order.
Targets(j) == IF j.op = "close" THEN {j.r} ELSE Due0
Current(j) == IF j.at = "next" THEN {} ELSE {j.r}
Done(j) == Targets(j) \ (j.todo \cup Current(j))
Answered(j) == Done(j) \cup IF j.at \in {"notify", "save"} THEN {j.r} ELSE {}
Notified(j) == Done(j) \cup IF j.at = "save" THEN {j.r} ELSE {}

InOrder(j) ==
  /\ \A x \in Done(j) \cup Current(j), y \in j.todo : published0[x] >= published0[y]
  /\ \A x \in Done(j), y \in Current(j) : published0[x] >= published0[y]
  /\ \A x \in Done(j) : ~Refused0(x)

EndingMemory(j) ==
  /\ j.op \in {"close", "sweep"} /\ RowsKept /\ conversation = chats0 /\ cut = cut0
  /\ j.op = "close" =>
       j.at # "next" /\ j.r \in Requests /\ Receiving0(j.r) /\ j.todo = {}
  /\ j.todo \subseteq Targets(j) /\ Current(j) \subseteq Targets(j) \ j.todo
  /\ InOrder(j)
  /\ status = StatusEnded(Done(j)) /\ closedAt = ClosedEnded(Done(j))
  /\ interest = InterestsEnded(Answered(j)) /\ told = ToldEnded(Notified(j))
  /\ j.at \in {"next", "count", "list", "update", "notify", "save"}
  /\ j.at \in {"list", "update", "notify", "save"} => j.outcome = End0(j.r)
  /\ j.at \in {"update", "notify"} => j.listed = Remaining(interest0[j.r])
  /\ j.at = "notify" => j.notice = EndInterest(End0(j.r))

Memory(j) ==
  /\ j.stamp = now
  /\ \/ PublishMemory(j) \/ ApplyMemory(j) \/ WithdrawMemory(j)
     \/ SelectMemory(j) \/ CancelMemory(j) \/ EndingMemory(j)

\* Every window outlasts the duplicate check.
WindowsFit ==
  \A r \in Requests : status[r] # "none" => expiresAt[r] > publishedAt[r] + DuplicateWindow

Alone == \A v, w \in Workers : job[v] # Idle /\ job[w] # Idle => v = w

SerialInv ==
  /\ IInv /\ BeforeTyped /\ WindowsFit /\ Alone
  /\ Quiet => Untouched
  /\ \A w \in Workers : job[w] # Idle => Memory(job[w])

\* The tables of ServiceRequests are those before the handler at work, and when
\* it ends, those it leaves.
Mapped ==
  /\ Table(1) = status0 /\ Table(2) = published0 /\ Table(3) = expires0
  /\ Table(4) = closed0 /\ Table(5) = interest0 /\ Table(6) = chats0
  /\ Table(7) = told0 /\ Table(8) = cut0

Landed ==
  /\ now' = now
  /\ Table(1)' = status' /\ Table(2)' = publishedAt' /\ Table(3)' = expiresAt'
  /\ Table(4)' = closedAt' /\ Table(5)' = interest' /\ Table(6)' = conversation'
  /\ Table(7)' = told' /\ Table(8)' = cut'

AtomicStep == Atomic!Next \/ UNCHANGED Atomic!vars

\* The columns a handler does not write, or has not written when it ends.
RowsStay == publishedAt' = published0 /\ expiresAt' = expires0
NotSaved0 ==
  status' = status0 /\ closedAt' = closed0 /\ conversation' = chats0 /\ cut' = cut0

LEMMA MapsBack == ASSUME Quiet => Untouched PROVE Mapped
BY DEF Mapped, Table, tables, Untouched, RowsKept, NotSaved, status0, published0, expires0, closed0,
       interest0, chats0, told0, cut0

LEMMA MapsOn == ASSUME Quiet', now' = now PROVE Landed
BY DEF Landed, Table, tables

-----------------------------------------------------------------------------
(* The ends of the handlers, as steps of ServiceRequests.                  *)

LEMMA SameQuestions ==
  /\ \A S : Atomic!Cardinality(S) = Cardinality(S)
  /\ \A ints, s : Atomic!Having(ints, s) = Having(ints, s)
  /\ \A ints : Atomic!Remaining(ints) = Remaining(ints)
  /\ \A ints, s : Atomic!Finalized(ints, s) = Finalized(ints, s)
  /\ \A row, ps, s : Atomic!Tell(row, ps, s) = Tell(row, ps, s)
  /\ \A r, n : Atomic!Full(r, n) <=> Full(r, n)
  /\ \A r, n : Atomic!EndStatus(r, n) = EndStatus(r, n)
  /\ \A s : Atomic!EndInterest(s) = EndInterest(s)
<1>1. \A ints, s : Atomic!Having(ints, s) = Having(ints, s)
  BY DEF Atomic!Having, Having
<1>2. \A ints : Atomic!Remaining(ints) = Remaining(ints)
  BY <1>1 DEF Atomic!Remaining, Remaining
<1>3. \A ints, s : Atomic!Finalized(ints, s) = Finalized(ints, s)
  BY DEF Atomic!Finalized, Finalized
<1>4. \A row, ps, s : Atomic!Tell(row, ps, s) = Tell(row, ps, s)
  BY DEF Atomic!Tell, Tell
<1>5. \A r, n : Atomic!Full(r, n) <=> Full(r, n)
  BY DEF Atomic!Full, Full
<1>6. \A r, n : Atomic!EndStatus(r, n) = EndStatus(r, n)
  BY <1>5 DEF Atomic!EndStatus, EndStatus
<1>7. \A s : Atomic!EndInterest(s) = EndInterest(s)
  BY DEF Atomic!EndInterest, EndInterest
<1>8. \A S : Atomic!Cardinality(S) = Cardinality(S)
  BY DEF Atomic!Cardinality, Cardinality
<1> QED BY <1>1, <1>2, <1>3, <1>4, <1>5, <1>6, <1>7, <1>8

LEMMA SameChecks ==
  ASSUME Mapped, NEW r \in Requests
  PROVE  /\ Atomic!SaveRefused(r) <=> Refused0(r)
         /\ Atomic!Receiving(r) <=> Receiving0(r)
         /\ Atomic!Due(r) <=> r \in Due0
<1>1. Atomic!ReceivingStatus = ReceivingStatus
  BY DEF Atomic!ReceivingStatus, ReceivingStatus
<1>2. \A q : Atomic!Receiving(q) <=> Receiving0(q)
  BY <1>1 DEF Mapped, Atomic!Receiving, Receiving0
<1>3. Atomic!SaveRefused(r) <=> Refused0(r)
  BY <1>2 DEF Mapped, Refused0, Receiving0, Atomic!SaveRefused, Atomic!Duplicate
<1>4. Atomic!Due(r) <=> r \in Due0
  BY <1>2 DEF Mapped, Atomic!Due, Due0
<1> QED BY <1>2, <1>3, <1>4

LEMMA AsPublish ==
  ASSUME Mapped, Landed, NEW r \in Requests, NEW d \in Windows, Untouched,
         now + d <= LastTime, status[r] = "none", ~SaveRefused(r), MayPublish(ClientOf[r]),
         status' = [status EXCEPT ![r] = "open"],
         publishedAt' = [publishedAt EXCEPT ![r] = now],
         expiresAt' = [expiresAt EXCEPT ![r] = now + d],
         UNCHANGED <<closedAt, interest, conversation, told, cut>>
  PROVE  Atomic!Next
<1>1. /\ Table(1) = status /\ Table(2) = publishedAt /\ Table(3) = expiresAt
      /\ Table(4) = closedAt /\ Table(5) = interest /\ Table(6) = conversation
      /\ Table(7) = told /\ Table(8) = cut
  BY DEF Mapped, Untouched, RowsKept, NotSaved
<1>2. ~Atomic!SaveRefused(r)
  BY <1>1 DEF Atomic!SaveRefused, Atomic!Duplicate, Atomic!Receiving, Atomic!ReceivingStatus,
              SaveRefused, Duplicate, Receiving, ReceivingStatus
<1>3. Atomic!MayPublish(ClientOf[r])
  <2>1. Atomic!Published(ClientOf[r]) = Published(ClientOf[r])
    BY <1>1 DEF Atomic!Published, Published
  <2> QED BY <2>1, SameQuestions DEF Atomic!MayPublish, MayPublish
<1>4. Atomic!Publish(r, d)
  BY <1>1, <1>2, <1>3 DEF Landed, Atomic!Publish
<1> QED BY <1>4 DEF Atomic!Next

LEMMA AsApply ==
  ASSUME Mapped, Landed, NEW r \in Requests, NEW p \in Professionals,
         Receiving0(r), interest0[r][p] = "none", RowsStay, NotSaved0,
         interest' = [interest0 EXCEPT ![r][p] = "applied"], told' = told0
  PROVE  Atomic!Next
<1>1. Atomic!Apply(r, p)
  BY SameChecks DEF Mapped, Landed, RowsStay, NotSaved0, Atomic!Apply
<1> QED BY <1>1 DEF Atomic!Next

LEMMA AsWithdraw ==
  ASSUME Mapped, Landed, NEW r \in Requests, NEW p \in Professionals,
         Receiving0(r), interest0[r][p] = "applied", RowsStay, NotSaved0,
         interest' = [interest0 EXCEPT ![r][p] = "withdrawn"], told' = told0
  PROVE  Atomic!Next
<1>1. Atomic!Withdraw(r, p)
  BY SameChecks DEF Mapped, Landed, RowsStay, NotSaved0, Atomic!Withdraw
<1> QED BY <1>1 DEF Atomic!Next

LEMMA AsStutter ==
  ASSUME Mapped, Landed, RowsStay, NotSaved0, interest' = interest0, told' = told0
  PROVE  UNCHANGED Atomic!vars
BY DEF Mapped, Landed, RowsStay, NotSaved0, Atomic!vars, Atomic!tables

\* A selection whose save is refused, and one that goes to its end.
LEMMA AsSelect ==
  ASSUME Mapped, Landed, BeforeTyped, NEW r \in Requests, NEW p \in Professionals,
         Receiving0(r), interest0[r][p] = "applied", RowsStay,
         interest' = Interests1(r, p),
         \/ /\ Refused0(r) /\ told' = Told1(r, p) /\ cut' = cut0 \cup {r}
            /\ status' = status0 /\ closedAt' = closed0 /\ conversation' = chats0
         \/ /\ ~Refused0(r) /\ cut' = cut0
            /\ told' = [Told1(r, p) EXCEPT ![r] = Tell(@, {p}, "selected")]
            /\ status' = [status0 EXCEPT ![r] = Status1(r, p)]
            /\ closedAt' = [closed0 EXCEPT ![r] = IF Full0(r, p) THEN now ELSE @]
            /\ conversation' = [chats0 EXCEPT ![r] = @ \cup {p}]
  PROVE  Atomic!Next
<1> DEFINE chosen == Chosen0(r, p)
           full   == Full0(r, p)
           others == Refusals0(r, p)
           warned == Tell(told0[r], others, "not_selected")
<1>1. /\ Table(5)[r] = interest0[r] /\ [Table(5)[r] EXCEPT ![p] = "selected"] = chosen
      /\ Table(7)[r] = told0[r]
  BY DEF Mapped, Chosen0
<1>2. Atomic!Full(r, Atomic!Cardinality(Atomic!Having(chosen, "selected"))) <=> full
  BY SameQuestions DEF Full0
<1>3. (IF full THEN Atomic!Remaining(chosen) ELSE {}) = others
  BY SameQuestions DEF Refusals0
<1>4. Atomic!Tell(Table(7)[r], others, "not_selected") = warned
      /\ Atomic!Tell(warned, {p}, "selected") = Tell(warned, {p}, "selected")
  BY <1>1, SameQuestions
<1>5. Table(5)' = [Table(5) EXCEPT ![r] =
                     IF full THEN Atomic!Finalized(chosen, "not_selected") ELSE chosen]
  BY SameQuestions DEF Mapped, Landed, Interests1
<1>6. Atomic!Receiving(r) /\ Table(5)[r][p] = "applied"
      /\ UNCHANGED <<now, Table(2), Table(3)>>
  BY SameChecks DEF Mapped, Landed, RowsStay
<1>7. Told1(r, p) = [Table(7) EXCEPT ![r] = warned]
  BY DEF Mapped, Told1
<1>8. \/ /\ Atomic!SaveRefused(r)
         /\ Table(7)' = [Table(7) EXCEPT ![r] = warned]
         /\ Table(8)' = Table(8) \cup {r}
         /\ UNCHANGED <<Table(1), Table(4), Table(6)>>
      \/ /\ ~Atomic!SaveRefused(r)
         /\ Table(7)' = [Table(7) EXCEPT ![r] = Atomic!Tell(warned, {p}, "selected")]
         /\ Table(1)' = [Table(1) EXCEPT ![r] = IF full THEN "filled" ELSE "partially_filled"]
         /\ Table(4)' = [Table(4) EXCEPT ![r] = IF full THEN now ELSE @]
         /\ Table(6)' = [Table(6) EXCEPT ![r] = @ \cup {p}]
         /\ UNCHANGED Table(8)
  <2>1. Atomic!SaveRefused(r) <=> Refused0(r)
    BY SameChecks
  <2>2. CASE Refused0(r)
    BY <2>1, <2>2, <1>7 DEF Mapped, Landed
  <2>3. CASE ~Refused0(r)
    <3>1. told' = [Told1(r, p) EXCEPT ![r] = Tell(@, {p}, "selected")]
      BY <2>3
    <3>2. told' = [told0 EXCEPT ![r] = Tell(warned, {p}, "selected")]
      BY <3>1 DEF Told1, BeforeTyped
    <3>3. Table(7)' = [Table(7) EXCEPT ![r] = Atomic!Tell(warned, {p}, "selected")]
      BY <3>2, <1>4 DEF Mapped, Landed
    <3> QED BY <2>1, <2>3, <3>3 DEF Mapped, Landed, Status1
  <2> QED BY <2>2, <2>3
<1> HIDE DEF chosen, full, others, warned
<1>9. Atomic!Select(r, p)
  BY <1>1, <1>2, <1>3, <1>4, <1>5, <1>6, <1>8 DEF Atomic!Select
<1> QED BY <1>9 DEF Atomic!Next

LEMMA AsCancel ==
  ASSUME Mapped, Landed, NEW r \in Requests,
         status0[r] \notin {"none", "cancelled", "completed"}, ~Refused0(r), RowsStay,
         status' = [status0 EXCEPT ![r] = "cancelled"],
         closedAt' = [closed0 EXCEPT ![r] = now],
         interest' = [interest0 EXCEPT ![r] = Finalized(@, "expired")],
         told' = [told0 EXCEPT ![r] = Tell(@, Remaining(interest0[r]), "cancelled")],
         conversation' = chats0, cut' = cut0
  PROVE  Atomic!Next
<1>1. ~Atomic!SaveRefused(r)
  BY SameChecks
<1>2. /\ Table(5)' = [Table(5) EXCEPT ![r] = Atomic!Finalized(@, "expired")]
      /\ Table(7)' = [Table(7) EXCEPT ![r] =
                        Atomic!Tell(@, Atomic!Remaining(Table(5)[r]), "cancelled")]
  BY SameQuestions DEF Mapped, Landed
<1>3. Atomic!Cancel(r)
  BY <1>1, <1>2 DEF Mapped, Landed, RowsStay, Atomic!Cancel
<1> QED BY <1>3 DEF Atomic!Next

\* The requests of R end, and those of S are saved.
LEMMA AsEnd ==
  ASSUME Mapped, Landed, NEW R \in SUBSET Requests, NEW S,
         S = {r \in R : ~Refused0(r)}, RowsStay,
         interest' = InterestsEnded(R), told' = ToldEnded(R),
         status' = StatusEnded(S), closedAt' = ClosedEnded(S),
         conversation' = chats0, cut' = cut0
  PROVE  Atomic!EndRequests(R)
<1> DEFINE end(r)  == Atomic!EndStatus(r, Atomic!Cardinality(Atomic!Selected(r)))
           last(r) == Atomic!EndInterest(end(r))
           saved   == {r \in R : ~Atomic!SaveRefused(r)}
<1>1. \A r \in Requests : end(r) = End0(r) /\ last(r) = EndInterest(End0(r))
  <2>1. \A r \in Requests : Atomic!Selected(r) = Having(interest0[r], "selected")
    BY SameQuestions DEF Mapped, Atomic!Selected
  <2> QED BY <2>1, SameQuestions DEF End0
<1>2. saved = S
  BY SameChecks
<1>3. Table(5)' = [r \in Requests |->
        IF r \in R THEN Atomic!Finalized(Table(5)[r], last(r)) ELSE Table(5)[r]]
  BY <1>1, SameQuestions DEF Mapped, Landed, InterestsEnded
<1>4. Table(7)' = [r \in Requests |->
        IF r \in R THEN Atomic!Tell(Table(7)[r], Atomic!Remaining(Table(5)[r]), last(r))
                   ELSE Table(7)[r]]
  BY <1>1, SameQuestions DEF Mapped, Landed, ToldEnded
<1>5. Table(1)' = [r \in Requests |-> IF r \in saved THEN end(r) ELSE Table(1)[r]]
  BY <1>1, <1>2 DEF Mapped, Landed, StatusEnded
<1>6. Table(4)' = [r \in Requests |-> IF r \in saved THEN now ELSE Table(4)[r]]
  BY <1>2 DEF Mapped, Landed, ClosedEnded
<1>7. UNCHANGED <<now, Table(2), Table(3), Table(6), Table(8)>>
  BY DEF Mapped, Landed, RowsStay
<1> QED BY <1>3, <1>4, <1>5, <1>6, <1>7 DEF Atomic!EndRequests

LEMMA AsClose ==
  ASSUME Mapped, NEW r \in Requests, Receiving0(r), Atomic!EndRequests({r})
  PROVE  Atomic!Next
BY SameChecks DEF Atomic!Close, Atomic!Next

LEMMA AsSweep ==
  ASSUME Mapped, NEW R \in SUBSET Due0, Atomic!EndRequests(R),
         \/ R = Due0 /\ \A r \in R : ~Refused0(r)
         \/ \E b \in R :
              /\ \A r \in R : Refused0(r) <=> r = b
              /\ \A r \in R : published0[r] >= published0[b]
              /\ \A r \in Due0 \ R : ~(published0[r] > published0[b])
  PROVE  Atomic!Next
<1> DEFINE due   == {r \in Requests : Atomic!Due(r)}
           stuck == {r \in due : Atomic!SaveRefused(r)}
<1>1. due = Due0
  BY SameChecks DEF Due0
<1>2. stuck = {r \in Due0 : Refused0(r)}
  <2>1. \A r \in Due0 : Atomic!SaveRefused(r) <=> Refused0(r)
    BY SameChecks DEF Due0
  <2> QED BY <1>1, <2>1
<1>3. R \in SUBSET Requests /\ R \subseteq due
  BY <1>1 DEF Due0
<1>4. CASE R = Due0 /\ \A r \in R : ~Refused0(r)
  <2>1. stuck = {} /\ R = due
    BY <1>1, <1>2, <1>4
  <2> QED BY <2>1, <1>3 DEF Atomic!Next, Atomic!Sweep, Atomic!ReachedBySweep
<1>5. ASSUME NEW b \in R,
             \A r \in R : Refused0(r) <=> r = b,
             \A r \in R : published0[r] >= published0[b],
             \A r \in Due0 \ R : ~(published0[r] > published0[b])
      PROVE  Atomic!Next
  <2>1. b \in stuck /\ R \cap stuck = {b}
    BY <1>2, <1>5
  <2>2. \A r \in due : /\ Table(2)[r] > Table(2)[b] => r \in R
                       /\ r \in R => Table(2)[r] >= Table(2)[b]
    BY <1>1, <1>5 DEF Mapped
  <2> QED BY <2>1, <2>2, <1>3 DEF Atomic!Next, Atomic!Sweep, Atomic!ReachedBySweep
<1> QED BY <1>4, <1>5

-----------------------------------------------------------------------------
(* The statements of a handler at work.                                    *)

\* What was read before stays while a handler is at work.
LEMMA SameBefore ==
  ASSUME before' = before, now' = now
  PROVE  /\ UNCHANGED <<status0, published0, expires0, closed0, interest0, chats0, told0, cut0>>
         /\ \A r : Refused0(r)' <=> Refused0(r)
         /\ \A r : Receiving0(r)' <=> Receiving0(r)
         /\ \A r : End0(r)' = End0(r)
         /\ Due0' = Due0
         /\ \A r, p : Chosen0(r, p)' = Chosen0(r, p)
         /\ \A r, p : Full0(r, p)' <=> Full0(r, p)
         /\ \A r, p : Refusals0(r, p)' = Refusals0(r, p)
         /\ \A r, p : Interests1(r, p)' = Interests1(r, p)
         /\ \A r, p : Told1(r, p)' = Told1(r, p)
         /\ \A r, p : Status1(r, p)' = Status1(r, p)
         /\ \A R : InterestsEnded(R)' = InterestsEnded(R)
         /\ \A R : ToldEnded(R)' = ToldEnded(R)
         /\ \A R : StatusEnded(R)' = StatusEnded(R)
         /\ \A R : ClosedEnded(R)' = ClosedEnded(R)
<1>1. UNCHANGED <<status0, published0, expires0, closed0, interest0, chats0, told0, cut0>>
  BY DEF status0, published0, expires0, closed0, interest0, chats0, told0, cut0
<1>2. /\ \A r : Refused0(r)' <=> Refused0(r)
      /\ \A r : Receiving0(r)' <=> Receiving0(r)
      /\ Due0' = Due0
  BY <1>1 DEF Refused0, Receiving0, Due0
<1>3. \A r : End0(r)' = End0(r)
  BY <1>1 DEF End0
<1>4. \A r, p : Chosen0(r, p)' = Chosen0(r, p)
  BY <1>1 DEF Chosen0
<1>5. \A r, p : Full0(r, p)' <=> Full0(r, p)
  BY <1>4 DEF Full0
<1>6. \A r, p : Refusals0(r, p)' = Refusals0(r, p)
  BY <1>4, <1>5 DEF Refusals0
<1>7. /\ \A r, p : Interests1(r, p)' = Interests1(r, p)
      /\ \A r, p : Told1(r, p)' = Told1(r, p)
      /\ \A r, p : Status1(r, p)' = Status1(r, p)
  BY <1>1, <1>4, <1>5, <1>6 DEF Interests1, Told1, Status1
<1>8. /\ \A R : InterestsEnded(R)' = InterestsEnded(R)
      /\ \A R : ToldEnded(R)' = ToldEnded(R)
      /\ \A R : StatusEnded(R)' = StatusEnded(R)
      /\ \A R : ClosedEnded(R)' = ClosedEnded(R)
  BY <1>1, <1>3 DEF InterestsEnded, ToldEnded, StatusEnded, ClosedEnded
<1> QED BY <1>1, <1>2, <1>3, <1>4, <1>5, <1>6, <1>7, <1>8

\* A statement of the one handler that is at work.
StatementOf(w) ==
  /\ SerialInv /\ IInv' /\ WindowsFit' /\ now' = now
  /\ job[w] # Idle /\ \A v \in Workers \ {w} : job'[v] = job[v]
  /\ before' = IF Quiet' THEN tables' ELSE before

LEMMA OthersIdle ==
  ASSUME NEW w \in Workers, StatementOf(w)
  PROVE  /\ \A v \in Workers \ {w} : job[v] = Idle /\ job'[v] = Idle
         /\ Quiet' <=> job'[w] = Idle
         /\ Mapped
<1>1. \A v \in Workers \ {w} : job[v] = Idle /\ job'[v] = Idle
  BY DEF StatementOf, SerialInv, Alone
<1>2. Quiet' <=> job'[w] = Idle
  BY <1>1 DEF Quiet
<1>3. Mapped
  BY MapsBack DEF StatementOf, SerialInv
<1> QED BY <1>1, <1>2, <1>3

LEMMA GoesOn ==
  ASSUME NEW w \in Workers, StatementOf(w), job'[w] # Idle,
         before' = before => Memory(job[w])'
  PROVE  SerialInv' /\ AtomicStep
<1>1. before' = before /\ now' = now /\ ~Quiet'
  BY OthersIdle DEF StatementOf
<1>2. BeforeTyped'
  BY <1>1, SameBefore DEF StatementOf, SerialInv, BeforeTyped
<1>3. Alone' /\ \A v \in Workers : job'[v] # Idle => Memory(job[v])'
  BY <1>1, OthersIdle DEF Alone
<1>4. ~Quiet
  BY DEF StatementOf, Quiet
<1>5. /\ UNCHANGED <<Table(1), Table(2), Table(3), Table(4)>>
      /\ UNCHANGED <<Table(5), Table(6), Table(7), Table(8)>>
  BY <1>1, <1>4 DEF Table
<1> QED BY <1>1, <1>2, <1>3, <1>5 DEF StatementOf, SerialInv, AtomicStep, Atomic!vars, Atomic!tables

LEMMA Finishes ==
  ASSUME NEW w \in Workers, StatementOf(w), job'[w] = Idle,
         Mapped /\ Landed => AtomicStep
  PROVE  SerialInv' /\ AtomicStep
<1>1. before' = tables' /\ now' = now /\ Quiet'
  BY OthersIdle DEF StatementOf
<1>2. /\ status0' = status' /\ published0' = publishedAt' /\ expires0' = expiresAt'
      /\ closed0' = closedAt' /\ interest0' = interest' /\ chats0' = conversation'
      /\ told0' = told' /\ cut0' = cut'
  BY <1>1 DEF tables, status0, published0, expires0, closed0, interest0, chats0, told0, cut0
<1>3. BeforeTyped'
  BY <1>2 DEF StatementOf, IInv, HandlerTypeOK, TypeOK, BeforeTyped
<1>4. Untouched'
  BY <1>2 DEF Untouched, RowsKept, NotSaved
<1>5. Alone' /\ \A v \in Workers : job'[v] = Idle
  BY <1>1 DEF Alone, Quiet
<1>6. AtomicStep
  BY <1>1, OthersIdle, MapsOn
<1> QED BY <1>3, <1>4, <1>5, <1>6 DEF StatementOf, SerialInv

LEMMA WhichMemory ==
  ASSUME NEW w \in Workers, StatementOf(w)
  PROVE  /\ job[w] \in Jobs /\ job[w].stamp = now /\ job \in [Workers -> Jobs]
         /\ job[w].op \in Ops \ {"idle"}
         /\ job[w].op = "publish" => PublishMemory(job[w])
         /\ job[w].op = "apply" => ApplyMemory(job[w])
         /\ job[w].op = "withdraw" => WithdrawMemory(job[w])
         /\ job[w].op = "select" => SelectMemory(job[w])
         /\ job[w].op = "cancel" => CancelMemory(job[w])
         /\ job[w].op \in {"close", "sweep"} => EndingMemory(job[w])
<1>1. Memory(job[w]) /\ job[w] \in Jobs /\ Fits(w) /\ job \in [Workers -> Jobs]
  BY DEF StatementOf, SerialInv, IInv, HandlerTypeOK
<1>2. job[w].op \in Ops \ {"idle"}
  BY <1>1 DEF StatementOf, Fits, PlaceFits, Jobs
<1>3. job[w].stamp = now
  BY <1>1 DEF Memory
<1>4. \/ job[w].op = "publish" /\ PublishMemory(job[w])
      \/ job[w].op = "apply" /\ ApplyMemory(job[w])
      \/ job[w].op = "withdraw" /\ WithdrawMemory(job[w])
      \/ job[w].op = "select" /\ SelectMemory(job[w])
      \/ job[w].op = "cancel" /\ CancelMemory(job[w])
      \/ job[w].op \in {"close", "sweep"} /\ EndingMemory(job[w])
  BY <1>1 DEF Memory, PublishMemory, ApplyMemory, WithdrawMemory, SelectMemory, CancelMemory,
              EndingMemory
<1> QED BY <1>1, <1>2, <1>3, <1>4

LEMMA FinishIsIdle ==
  ASSUME NEW w \in Workers, StatementOf(w), Finish(w)
  PROVE  job'[w] = Idle
BY WhichMemory DEF Finish

LEMMA GotoIsNot ==
  ASSUME NEW w \in Workers, job'[w].at # "start"
  PROVE  job'[w] # Idle
BY IdleJob

LEMMA SerialInsertRequest ==
  ASSUME NEW w \in Workers, StatementOf(w), InsertRequest(w)
  PROVE  SerialInv' /\ AtomicStep
<1>1. job[w].op = "publish" /\ Finish(w)
  BY DEF InsertRequest, At
<1>2. PublishMemory(job[w]) /\ job[w].stamp = now
  BY <1>1, WhichMemory
<1>3. ASSUME Mapped, Landed PROVE Atomic!Next
  BY <1>2, <1>3, AsPublish DEF PublishMemory, InsertRequest
<1> QED BY <1>1, <1>3, FinishIsIdle, Finishes DEF AtomicStep

LEMMA SerialInsertInterest ==
  ASSUME NEW w \in Workers, StatementOf(w), InsertInterest(w)
  PROVE  SerialInv' /\ AtomicStep
<1> DEFINE r == job[w].r
           p == job[w].p
<1>1. job[w].op = "apply" /\ Finish(w)
  BY DEF InsertInterest, At
<1>2. ApplyMemory(job[w])
  BY <1>1, WhichMemory
<1>3. RowsStay /\ NotSaved0 /\ told' = told0 /\ interest' = [interest0 EXCEPT ![r][p] = "applied"]
  BY <1>2 DEF ApplyMemory, Untouched, RowsKept, NotSaved, RowsStay, NotSaved0, InsertInterest,
              OnlyInterest, SetInterest
<1>4. ASSUME Mapped, Landed PROVE Atomic!Next
  BY <1>2, <1>3, <1>4, AsApply DEF ApplyMemory
<1> QED BY <1>1, <1>4, FinishIsIdle, Finishes DEF AtomicStep

LEMMA SerialWithdrawn ==
  ASSUME NEW w \in Workers, StatementOf(w), SaveWithdrawn(w)
  PROVE  SerialInv' /\ AtomicStep
<1> DEFINE r == job[w].r
           p == job[w].p
<1>1. job[w].op = "withdraw" /\ job[w].at = "leave" /\ Finish(w)
  BY DEF SaveWithdrawn, At
<1>2. WithdrawMemory(job[w])
  BY <1>1, WhichMemory
<1>3. RowsStay /\ NotSaved0 /\ told' = told0 /\ interest' = [interest0 EXCEPT ![r][p] = "withdrawn"]
  BY <1>2 DEF WithdrawMemory, Untouched, RowsKept, NotSaved, RowsStay, NotSaved0, SaveWithdrawn,
              OnlyInterest, SetInterest
<1>4. ASSUME Mapped, Landed PROVE Atomic!Next
  BY <1>1, <1>2, <1>3, <1>4, AsWithdraw DEF WithdrawMemory
<1> QED BY <1>1, <1>4, FinishIsIdle, Finishes DEF AtomicStep

LEMMA SerialLoad ==
  ASSUME NEW w \in Workers, StatementOf(w), LoadRequest(w)
  PROVE  SerialInv' /\ AtomicStep
<1> DEFINE j == job[w]
           to == IF j.op = "select" THEN "choose" ELSE "leave"
<1>1. j.op \in {"select", "withdraw"} /\ j.at = "load"
      /\ UNCHANGED <<now, status, publishedAt, expiresAt, closedAt, interest, conversation, told, cut>>
  BY DEF LoadRequest, At, OnlyJob, tables
<1>2. /\ j.op = "select" => SelectMemory(j)
      /\ j.op = "withdraw" => WithdrawMemory(j)
  BY <1>1, WhichMemory
<1>3. Untouched
  BY <1>1, <1>2 DEF SelectMemory, WithdrawMemory, ChosenMemory, SavedMemory
<1>4. CASE Finish(w)
  <2>1. ASSUME Mapped, Landed PROVE UNCHANGED Atomic!vars
    BY <1>1, <1>3, <2>1, AsStutter DEF Untouched, RowsKept, NotSaved, RowsStay, NotSaved0
  <2> QED BY <1>4, <2>1, FinishIsIdle, Finishes DEF AtomicStep
<1>5. CASE Receiving(j.r) /\ Goto(w, to)
  <2>1. /\ job'[w].at = to /\ job'[w].op = j.op /\ job'[w].r = j.r /\ job'[w].p = j.p
        /\ job'[w].stamp = j.stamp
    BY <1>5, WhichMemory DEF Goto, Jobs
  <2>2. Receiving0(j.r)
    BY <1>3, <1>5 DEF Receiving, Receiving0, Untouched, NotSaved
  <2>3. ASSUME before' = before PROVE Memory(job[w])'
    <3>1. now' = now /\ j.stamp = now /\ job'[w].stamp = now'
      BY <1>1, <2>1, WhichMemory
    <3>2. Untouched' /\ RowsKept'
      BY <1>1, <1>3, <2>3, <3>1, SameBefore DEF Untouched, RowsKept, NotSaved
    <3>3. Receiving0(job[w].r)'
      BY <2>1, <2>2, <2>3, <3>1, SameBefore
    <3>4. j.r \in Requests /\ j.p \in Professionals /\ interest0[j.r][j.p] = "applied"
      BY <1>1, <1>2 DEF SelectMemory, WithdrawMemory
    <3>5. interest0' = interest0
      BY <2>3, <3>1, SameBefore
    <3>6. CASE j.op = "select"
      <4>1. SelectMemory(job[w])'
        BY <2>1, <3>2, <3>3, <3>4, <3>5, <3>6 DEF SelectMemory
      <4> QED BY <3>1, <4>1 DEF Memory
    <3>7. CASE j.op = "withdraw"
      <4>1. WithdrawMemory(job[w])'
        BY <2>1, <3>2, <3>3, <3>4, <3>5, <3>7 DEF WithdrawMemory
      <4> QED BY <3>1, <4>1 DEF Memory
    <3> QED BY <1>1, <3>6, <3>7
  <2> QED BY <2>1, <2>3, GotoIsNot, GoesOn
<1> QED BY <1>4, <1>5 DEF LoadRequest

-----------------------------------------------------------------------------
(* The statements of a selection.                                          *)

\* Where a selection is after the save of the interest.
LEMMA AfterChoice ==
  ASSUME NEW w \in Workers, StatementOf(w), job[w].op = "select",
         job[w].at \notin {"load", "choose"}
  PROVE  /\ job[w].r \in Requests /\ job[w].p \in Professionals
         /\ interest0[job[w].r][job[w].p] = "applied" /\ Receiving0(job[w].r) /\ RowsKept
         /\ ChosenMemory(job[w]) \/ SavedMemory(job[w])
         /\ job[w].at \notin {"notify", "chat"} => ChosenMemory(job[w])
         /\ job[w].at = "chat" => SavedMemory(job[w])
<1>1. SelectMemory(job[w])
  BY WhichMemory
<1> QED BY <1>1 DEF SelectMemory, ChosenMemory, SavedMemory

\* A selection that goes on, one statement further.
LEMMA SelectGoesOn ==
  ASSUME NEW w \in Workers, StatementOf(w), job[w].op = "select",
         job'[w].op = "select", job'[w].r = job[w].r, job'[w].p = job[w].p,
         job'[w].stamp = now, job'[w].at # "start", Receiving0(job[w].r),
         RowsKept, UNCHANGED <<publishedAt, expiresAt>>,
         job[w].r \in Requests, job[w].p \in Professionals,
         interest0[job[w].r][job[w].p] = "applied",
         before' = before => ChosenMemory(job[w])' \/ SavedMemory(job[w])'
  PROVE  SerialInv' /\ AtomicStep
<1>1. ASSUME before' = before PROVE Memory(job[w])'
  <2>1. now' = now
    BY DEF StatementOf
  <2>2. UNCHANGED <<published0, expires0, interest0>> /\ Receiving0(job[w].r)'
    BY <1>1, <2>1, SameBefore
  <2>3. SelectMemory(job[w])'
    BY <1>1, <2>2 DEF SelectMemory, RowsKept
  <2> QED BY <2>1, <2>3 DEF Memory
<1> QED BY <1>1, GotoIsNot, GoesOn

LEMMA SerialSelected ==
  ASSUME NEW w \in Workers, StatementOf(w), SaveSelected(w)
  PROVE  SerialInv' /\ AtomicStep
<1> DEFINE j == job[w]
<1>1. /\ j.op = "select" /\ j.at = "choose" /\ Goto(w, "count")
      /\ interest' = [interest EXCEPT ![j.r][j.p] = "selected"]
      /\ UNCHANGED <<now, status, publishedAt, expiresAt, closedAt, conversation, told, cut>>
  BY DEF SaveSelected, At, SetInterest, OnlyInterest
<1>2. Receiving0(j.r) /\ Untouched /\ j.r \in Requests /\ j.p \in Professionals
      /\ interest0[j.r][j.p] = "applied" /\ RowsKept
  <2>1. SelectMemory(j)
    BY <1>1, WhichMemory
  <2> QED BY <1>1, <2>1 DEF SelectMemory, ChosenMemory, SavedMemory
<1>3. /\ job'[w].at = "count" /\ job'[w].op = j.op /\ job'[w].r = j.r /\ job'[w].p = j.p
      /\ job'[w].stamp = now
  BY <1>1, WhichMemory DEF Goto, Jobs
<1>4. ASSUME before' = before PROVE ChosenMemory(job[w])'
  <2>1. NotSaved' /\ told' = told0'
    BY <1>1, <1>2, <1>4, SameBefore DEF Untouched, NotSaved
  <2>2. interest' = [interest0 EXCEPT ![j.r] = Chosen0(j.r, j.p)]
    BY <1>1, <1>2 DEF Untouched, Chosen0
  <2>3. now' = now /\ interest0' = interest0
    BY <1>1, <1>4, SameBefore
  <2>4. Chosen0(job[w].r, job[w].p)' = Chosen0(j.r, j.p)
    BY <1>3, <1>4, <2>3, SameBefore
  <2>5. interest' = [interest0 EXCEPT ![job[w].r] = Chosen0(job[w].r, job[w].p)]'
    BY <1>3, <2>2, <2>3, <2>4
  <2> QED BY <1>3, <2>1, <2>5 DEF ChosenMemory
<1> QED BY <1>1, <1>2, <1>3, <1>4, SelectGoesOn

LEMMA SerialSelectCounts ==
  ASSUME NEW w \in Workers, StatementOf(w), CountSelected(w), job[w].op = "select"
  PROVE  SerialInv' /\ AtomicStep
<1> DEFINE j == job[w]
           r == j.r
           p == j.p
<1>1. j.at = "count" /\ now' = now
      /\ UNCHANGED <<status, publishedAt, expiresAt, closedAt, interest, conversation, told, cut>>
  BY DEF CountSelected, At, OnlyJob, tables
<1>2. /\ r \in Requests /\ p \in Professionals /\ interest0[r][p] = "applied"
      /\ Receiving0(r) /\ RowsKept /\ ChosenMemory(j)
  BY <1>1, AfterChoice
<1>3. NotSaved /\ told = told0 /\ interest = [interest0 EXCEPT ![r] = Chosen0(r, p)]
  BY <1>1, <1>2 DEF ChosenMemory
<1>4. Full(r, Cardinality(Selected(r))) <=> Full0(r, p)
  <2>1. interest[r] = Chosen0(r, p)
    BY <1>2, <1>3 DEF StatementOf, SerialInv, BeforeTyped
  <2> QED BY <2>1 DEF Full0, Selected
<1>5. /\ job'[w].op = "select" /\ job'[w].r = r /\ job'[w].p = p
      /\ job'[w].outcome = Status1(r, p) /\ job'[w].stamp = now
      /\ job'[w].at = IF Full0(r, p) THEN "list" ELSE "save"
  BY <1>4, WhichMemory DEF CountSelected, Jobs, Status1
<1>6. ASSUME before' = before PROVE ChosenMemory(job[w])'
  <2>1. NotSaved' /\ told' = told0'
    BY <1>1, <1>3, <1>6, SameBefore DEF NotSaved
  <2>2. job'[w].outcome = Status1(job[w].r, job[w].p)'
    BY <1>1, <1>5, <1>6, SameBefore
  <2>3. CASE Full0(r, p)
    <3>1. Full0(job[w].r, job[w].p)'
      BY <1>1, <1>5, <1>6, <2>3, SameBefore
    <3>2. interest' = [interest0 EXCEPT ![job[w].r] = Chosen0(job[w].r, job[w].p)]'
      BY <1>1, <1>3, <1>5, <1>6, SameBefore
    <3> QED BY <1>5, <2>1, <2>2, <2>3, <3>1, <3>2 DEF ChosenMemory
  <2>4. CASE ~Full0(r, p)
    <3>1. interest = Interests1(r, p)
      BY <1>3, <2>4 DEF Interests1
    <3>2. told0 = Told1(r, p)
      <4>1. Refusals0(r, p) = {}
        BY <2>4 DEF Refusals0
      <4>2. told0 \in [Requests -> [Professionals -> SUBSET Notices]]
        BY DEF StatementOf, SerialInv, BeforeTyped
      <4>3. Tell(told0[r], {}, "not_selected") = told0[r]
        BY <1>2, <4>2 DEF Tell
      <4> QED BY <1>2, <4>1, <4>2, <4>3 DEF Told1
    <3>3. /\ Interests1(job[w].r, job[w].p)' = Interests1(r, p)
          /\ Told1(job[w].r, job[w].p)' = Told1(r, p)
      BY <1>1, <1>5, <1>6, SameBefore
    <3>4. interest' = Interests1(job[w].r, job[w].p)' /\ told' = Told1(job[w].r, job[w].p)'
      BY <1>1, <1>3, <3>1, <3>2, <3>3
    <3> QED BY <1>5, <2>1, <2>2, <2>4, <3>4 DEF ChosenMemory
  <2> QED BY <2>3, <2>4
<1> QED BY <1>1, <1>2, <1>5, <1>6, SelectGoesOn

LEMMA SerialSelectLists ==
  ASSUME NEW w \in Workers, StatementOf(w), ListRemaining(w), job[w].op = "select"
  PROVE  SerialInv' /\ AtomicStep
<1> DEFINE j == job[w]
           r == j.r
           p == j.p
<1>1. j.at = "list" /\ now' = now
      /\ UNCHANGED <<status, publishedAt, expiresAt, closedAt, interest, conversation, told, cut>>
  BY DEF ListRemaining, At, OnlyJob, tables
<1>2. /\ r \in Requests /\ p \in Professionals /\ interest0[r][p] = "applied"
      /\ Receiving0(r) /\ RowsKept /\ ChosenMemory(j)
  BY <1>1, AfterChoice
<1>3. /\ NotSaved /\ told = told0 /\ interest = [interest0 EXCEPT ![r] = Chosen0(r, p)]
      /\ j.outcome = Status1(r, p) /\ Full0(r, p)
  BY <1>1, <1>2 DEF ChosenMemory
<1>4. interest[r] = Chosen0(r, p)
  BY <1>2, <1>3 DEF StatementOf, SerialInv, BeforeTyped
<1>5. /\ job'[w].op = "select" /\ job'[w].r = r /\ job'[w].p = p
      /\ job'[w].outcome = j.outcome /\ job'[w].stamp = now
      /\ job'[w].at = "update" /\ job'[w].listed = Remaining(Chosen0(r, p))
  BY <1>4, WhichMemory DEF ListRemaining, Jobs
<1>6. ASSUME before' = before PROVE ChosenMemory(job[w])'
  <2>1. NotSaved' /\ told' = told0'
    BY <1>1, <1>3, <1>6, SameBefore DEF NotSaved
  <2>2. /\ job'[w].outcome = Status1(job[w].r, job[w].p)'
        /\ Full0(job[w].r, job[w].p)'
        /\ Chosen0(job[w].r, job[w].p)' = Chosen0(r, p)
    BY <1>1, <1>3, <1>5, <1>6, SameBefore
  <2>3. interest' = [interest0 EXCEPT ![job[w].r] = Chosen0(job[w].r, job[w].p)]'
    BY <1>1, <1>3, <1>5, <1>6, SameBefore
  <2>4. job'[w].listed = Remaining(Chosen0(job[w].r, job[w].p)')
    BY <1>5, <2>2
  <2> QED BY <1>5, <2>1, <2>2, <2>3, <2>4 DEF ChosenMemory
<1> QED BY <1>1, <1>2, <1>5, <1>6, SelectGoesOn

LEMMA SerialSelectUpdates ==
  ASSUME NEW w \in Workers, StatementOf(w), UpdateRemaining(w), job[w].op = "select"
  PROVE  SerialInv' /\ AtomicStep
<1> DEFINE j == job[w]
           r == j.r
           p == j.p
<1>1. j.at = "update" /\ now' = now
      /\ UNCHANGED <<status, publishedAt, expiresAt, closedAt, conversation, told, cut>>
  BY DEF UpdateRemaining, At, OnlyInterest
<1>2. /\ r \in Requests /\ p \in Professionals /\ interest0[r][p] = "applied"
      /\ Receiving0(r) /\ RowsKept /\ ChosenMemory(j)
  BY <1>1, AfterChoice
<1>3. /\ NotSaved /\ told = told0 /\ interest = [interest0 EXCEPT ![r] = Chosen0(r, p)]
      /\ j.outcome = Status1(r, p) /\ Full0(r, p) /\ j.listed = Remaining(Chosen0(r, p))
  BY <1>1, <1>2 DEF ChosenMemory
<1>4. FinalInterest(w) = "not_selected"
  BY <1>3 DEF FinalInterest, Status1, EndInterest
<1>5. /\ job'[w].op = "select" /\ job'[w].r = r /\ job'[w].p = p
      /\ job'[w].outcome = j.outcome /\ job'[w].stamp = now /\ job'[w].listed = j.listed
      /\ job'[w].at = "notify" /\ job'[w].notice = "not_selected"
  BY <1>4, WhichMemory DEF UpdateRemaining, Jobs
<1>6. interest' = Interests1(r, p)
  <2>1. interest' = [interest EXCEPT ![r] = Finalized(@, "not_selected")]
    BY <1>4 DEF UpdateRemaining
  <2>2. interest0 \in [Requests -> [Professionals -> InterestStatus]]
    BY DEF StatementOf, SerialInv, BeforeTyped
  <2> QED BY <1>2, <1>3, <2>1, <2>2 DEF Interests1
<1>7. ASSUME before' = before PROVE ChosenMemory(job[w])'
  <2>1. NotSaved' /\ told' = told0'
    BY <1>1, <1>3, <1>7, SameBefore DEF NotSaved
  <2>2. /\ job'[w].outcome = Status1(job[w].r, job[w].p)'
        /\ Full0(job[w].r, job[w].p)'
        /\ Chosen0(job[w].r, job[w].p)' = Chosen0(r, p)
        /\ interest' = Interests1(job[w].r, job[w].p)'
    BY <1>1, <1>3, <1>5, <1>6, <1>7, SameBefore
  <2>3. job'[w].listed = Remaining(Chosen0(job[w].r, job[w].p)')
    BY <1>3, <1>5, <2>2
  <2> QED BY <1>5, <2>1, <2>2, <2>3 DEF ChosenMemory
<1> QED BY <1>1, <1>2, <1>5, <1>7, SelectGoesOn

LEMMA SerialSelectNotifies ==
  ASSUME NEW w \in Workers, StatementOf(w), Notify(w), job[w].op = "select"
  PROVE  SerialInv' /\ AtomicStep
<1> DEFINE j == job[w]
           r == j.r
           p == j.p
<1>1. j.at = "notify" /\ now' = now
      /\ UNCHANGED <<status, publishedAt, expiresAt, closedAt, interest, conversation, cut>>
      /\ told' = [told EXCEPT ![r] = Tell(@, j.listed, j.notice)]
  BY DEF Notify, At
<1>2. /\ r \in Requests /\ p \in Professionals /\ interest0[r][p] = "applied"
      /\ Receiving0(r) /\ RowsKept /\ (ChosenMemory(j) \/ SavedMemory(j))
  BY <1>1, AfterChoice
<1>3. CASE ChosenMemory(j)
  <2>1. /\ NotSaved /\ told = told0 /\ interest = Interests1(r, p) /\ j.notice = "not_selected"
        /\ j.outcome = Status1(r, p) /\ Full0(r, p) /\ j.listed = Remaining(Chosen0(r, p))
    BY <1>1, <1>3 DEF ChosenMemory
  <2>2. told' = Told1(r, p)
    BY <1>1, <2>1 DEF Told1, Refusals0
  <2>3. /\ job'[w].op = "select" /\ job'[w].r = r /\ job'[w].p = p
        /\ job'[w].outcome = j.outcome /\ job'[w].stamp = now /\ job'[w].at = "save"
    BY <2>1, WhichMemory DEF Notify, Goto, Jobs
  <2>4. ASSUME before' = before PROVE ChosenMemory(job[w])'
    <3>1. NotSaved'
      BY <1>1, <2>1, <2>4, SameBefore DEF NotSaved
    <3>2. /\ Status1(job[w].r, job[w].p)' = Status1(r, p)
          /\ Interests1(job[w].r, job[w].p)' = Interests1(r, p)
          /\ Told1(job[w].r, job[w].p)' = Told1(r, p)
      BY <1>1, <2>3, <2>4, SameBefore
    <3>3. /\ job'[w].outcome = Status1(job[w].r, job[w].p)'
          /\ interest' = Interests1(job[w].r, job[w].p)'
          /\ told' = Told1(job[w].r, job[w].p)'
      BY <1>1, <2>1, <2>2, <2>3, <3>2
    <3> QED BY <2>3, <3>1, <3>3 DEF ChosenMemory
  <2>5. job'[w].at # "start" /\ UNCHANGED <<publishedAt, expiresAt>>
    BY <1>1, <2>3
  <2> QED BY <1>2, <2>3, <2>4, <2>5, SelectGoesOn
<1>4. CASE SavedMemory(j)
  <2>1. /\ ~Refused0(r) /\ interest = Interests1(r, p) /\ told = Told1(r, p) /\ cut = cut0
        /\ status = [status0 EXCEPT ![r] = Status1(r, p)]
        /\ closedAt = [closed0 EXCEPT ![r] = IF Full0(r, p) THEN now ELSE @]
        /\ conversation = [chats0 EXCEPT ![r] = @ \cup {p}]
        /\ j.notice = "selected" /\ j.listed = {p}
    BY <1>1, <1>4 DEF SavedMemory
  <2>2. Finish(w)
    BY <2>1 DEF Notify
  <2>3. ASSUME Mapped, Landed PROVE Atomic!Next
    <3>1. BeforeTyped /\ RowsStay
      <4>1. BeforeTyped
        BY DEF StatementOf, SerialInv
      <4>2. RowsStay
        BY <1>1, <1>2 DEF RowsKept, RowsStay
      <4> QED BY <4>1, <4>2
    <3>2. told' = [Told1(r, p) EXCEPT ![r] = Tell(@, {p}, "selected")]
      BY <1>1, <2>1
    <3>3. /\ interest' = Interests1(r, p) /\ cut' = cut0
          /\ status' = [status0 EXCEPT ![r] = Status1(r, p)]
          /\ closedAt' = [closed0 EXCEPT ![r] = IF Full0(r, p) THEN now ELSE @]
          /\ conversation' = [chats0 EXCEPT ![r] = @ \cup {p}]
      BY <1>1, <2>1
    <3> QED BY <1>2, <2>1, <2>3, <3>1, <3>2, <3>3, AsSelect
  <2> QED BY <2>2, <2>3, FinishIsIdle, Finishes DEF AtomicStep
<1> QED BY <1>2, <1>3, <1>4

LEMMA SerialSelectSaves ==
  ASSUME NEW w \in Workers, StatementOf(w), SaveRequest(w), job[w].op = "select"
  PROVE  SerialInv' /\ AtomicStep
<1> DEFINE j == job[w]
           r == j.r
           p == j.p
<1>1. j.at = "save" /\ UNCHANGED <<now, publishedAt, expiresAt, interest, conversation, told>>
  BY DEF SaveRequest, At
<1>2. /\ r \in Requests /\ p \in Professionals /\ interest0[r][p] = "applied"
      /\ Receiving0(r) /\ RowsKept /\ ChosenMemory(j)
  BY <1>1, AfterChoice
<1>3. /\ NotSaved /\ told = Told1(r, p) /\ interest = Interests1(r, p)
      /\ j.outcome = Status1(r, p)
  BY <1>1, <1>2 DEF ChosenMemory
<1>4. SaveRefused(r) <=> Refused0(r)
  BY <1>2, <1>3 DEF NotSaved, RowsKept, SaveRefused, Duplicate, Receiving, Refused0
<1>5. CASE SaveRefused(r)
  <2>1. Finish(w) /\ cut' = cut \cup {r} /\ UNCHANGED <<status, closedAt>>
    BY <1>5 DEF SaveRequest
  <2>2. ASSUME Mapped, Landed PROVE Atomic!Next
    <3>1. BeforeTyped /\ RowsStay
      <4>1. BeforeTyped
        BY DEF StatementOf, SerialInv
      <4>2. RowsStay
        BY <1>1, <1>2 DEF RowsKept, RowsStay
      <4> QED BY <4>1, <4>2
    <3>2. /\ Refused0(r) /\ told' = Told1(r, p) /\ cut' = cut0 \cup {r}
          /\ status' = status0 /\ closedAt' = closed0 /\ conversation' = chats0
      BY <1>1, <1>3, <1>4, <1>5, <2>1 DEF NotSaved
    <3>3. interest' = Interests1(r, p)
      BY <1>1, <1>3
    <3> QED BY <1>2, <2>2, <3>1, <3>2, <3>3, AsSelect
  <2> QED BY <2>1, <2>2, FinishIsIdle, Finishes DEF AtomicStep
<1>6. CASE ~SaveRefused(r)
  <2>1. /\ status' = [status EXCEPT ![r] = j.outcome] /\ Goto(w, "chat") /\ cut' = cut
        /\ closedAt' = [closedAt EXCEPT ![r] = IF KeepsClosedAt(w) THEN @ ELSE j.stamp]
    BY <1>6 DEF SaveRequest
  <2>2. KeepsClosedAt(w) <=> ~Full0(r, p)
    BY <1>3 DEF KeepsClosedAt, Status1
  <2>3. /\ job'[w].op = "select" /\ job'[w].r = r /\ job'[w].p = p
        /\ job'[w].stamp = now /\ job'[w].at = "chat" /\ j.stamp = now
    BY <2>1, WhichMemory DEF Goto, Jobs
  <2>4. closedAt' = [closed0 EXCEPT ![r] = IF Full0(r, p) THEN now ELSE @]
    BY <1>3, <2>1, <2>2, <2>3 DEF NotSaved
  <2>5. status' = [status0 EXCEPT ![r] = Status1(r, p)]
    BY <1>3, <2>1 DEF NotSaved
  <2>6. ASSUME before' = before PROVE SavedMemory(job[w])'
    <3>1. /\ UNCHANGED <<status0, closed0, chats0, cut0, now>>
          /\ (Full0(job[w].r, job[w].p)' <=> Full0(r, p))
          /\ Status1(job[w].r, job[w].p)' = Status1(r, p)
      BY <1>1, <2>3, <2>6, SameBefore
    <3>2. /\ ~Refused0(job[w].r)'
          /\ interest' = Interests1(job[w].r, job[w].p)'
          /\ told' = Told1(job[w].r, job[w].p)'
      BY <1>1, <1>3, <1>4, <1>6, <2>3, <2>6, SameBefore
    <3>3. cut' = cut0' /\ conversation' = chats0'
      BY <1>1, <1>3, <2>1, <3>1 DEF NotSaved
    <3>4. /\ status' = [status0 EXCEPT ![job[w].r] = Status1(job[w].r, job[w].p)]'
          /\ closedAt' = [closed0 EXCEPT ![job[w].r] = IF Full0(job[w].r, job[w].p) THEN now ELSE @]'
      BY <2>3, <2>4, <2>5, <3>1
    <3> QED BY <2>3, <3>2, <3>3, <3>4 DEF SavedMemory
  <2> QED BY <1>1, <1>2, <2>3, <2>6, SelectGoesOn
<1> QED BY <1>5, <1>6

LEMMA SerialChat ==
  ASSUME NEW w \in Workers, StatementOf(w), OpenConversation(w)
  PROVE  SerialInv' /\ AtomicStep
<1> DEFINE j == job[w]
           r == j.r
           p == j.p
<1>1. /\ j.op = "select" /\ j.at = "chat"
      /\ UNCHANGED <<now, status, publishedAt, expiresAt, closedAt, interest, told, cut>>
      /\ conversation' = [conversation EXCEPT ![r] = @ \cup {p}]
  BY DEF OpenConversation, At
<1>2. /\ r \in Requests /\ p \in Professionals /\ interest0[r][p] = "applied"
      /\ Receiving0(r) /\ RowsKept /\ SavedMemory(j)
  BY <1>1, AfterChoice
<1>3. /\ job'[w].op = "select" /\ job'[w].r = r /\ job'[w].p = p /\ job'[w].stamp = now
      /\ job'[w].at = "notify" /\ job'[w].listed = {p} /\ job'[w].notice = "selected"
  BY <1>1, WhichMemory DEF OpenConversation, Jobs
<1>4. /\ ~Refused0(r) /\ interest = Interests1(r, p) /\ told = Told1(r, p) /\ cut = cut0
      /\ status = [status0 EXCEPT ![r] = Status1(r, p)]
      /\ closedAt = [closed0 EXCEPT ![r] = IF Full0(r, p) THEN now ELSE @]
      /\ conversation = chats0
  BY <1>1, <1>2 DEF SavedMemory
<1>5. ASSUME before' = before PROVE SavedMemory(job[w])'
  <2>1. /\ UNCHANGED <<status0, closed0, chats0, cut0, now>>
        /\ (Full0(job[w].r, job[w].p)' <=> Full0(r, p))
        /\ Status1(job[w].r, job[w].p)' = Status1(r, p)
    BY <1>1, <1>3, <1>5, SameBefore
  <2>2. /\ ~Refused0(job[w].r)'
        /\ interest' = Interests1(job[w].r, job[w].p)'
        /\ told' = Told1(job[w].r, job[w].p)'
    BY <1>1, <1>3, <1>4, <1>5, SameBefore
  <2>3. /\ status' = [status0 EXCEPT ![job[w].r] = Status1(job[w].r, job[w].p)]'
        /\ closedAt' = [closed0 EXCEPT ![job[w].r] = IF Full0(job[w].r, job[w].p) THEN now ELSE @]'
        /\ conversation' = [chats0 EXCEPT ![job[w].r] = @ \cup {job[w].p}]'
        /\ cut' = cut0'
    BY <1>1, <1>3, <1>4, <2>1
  <2> QED BY <1>3, <2>2, <2>3 DEF SavedMemory
<1> QED BY <1>1, <1>2, <1>3, <1>5, SelectGoesOn

-----------------------------------------------------------------------------
(* The statements of a closing and of the sweep.                           *)

\* Where they are while a request is at hand.
LEMMA EndingAt ==
  ASSUME NEW w \in Workers, StatementOf(w), job[w].op \in {"close", "sweep"},
         job[w].at # "next"
  PROVE  /\ EndingMemory(job[w]) /\ RowsKept /\ conversation = chats0 /\ cut = cut0
         /\ job[w].r \in Requests /\ Receiving0(job[w].r)
         /\ job[w].r \in Targets(job[w]) /\ job[w].r \notin job[w].todo
         /\ job[w].r \notin Done(job[w]) /\ Done(job[w]) \subseteq Requests
         /\ job[w].op = "close" => Done(job[w]) = {} /\ job[w].todo = {}
         /\ job[w].op = "sweep" =>
              /\ job[w].r \in Due0 /\ Done(job[w]) \subseteq Due0 /\ job[w].todo \subseteq Due0
              /\ Due0 = Done(job[w]) \cup {job[w].r} \cup job[w].todo
         /\ interest = InterestsEnded(Answered(job[w])) /\ told = ToldEnded(Notified(job[w]))
         /\ status = StatusEnded(Done(job[w])) /\ closedAt = ClosedEnded(Done(job[w]))
<1> DEFINE j == job[w]
<1>1. EndingMemory(j)
  BY WhichMemory
<1>2. Current(j) = {j.r}
  BY DEF Current
<1>3. j.todo \subseteq Targets(j) /\ j.r \in Targets(j) /\ j.r \notin j.todo
  BY <1>1, <1>2 DEF EndingMemory
<1>4. Done(j) = Targets(j) \ (j.todo \cup {j.r})
  BY <1>2 DEF Done
<1>5. Due0 \subseteq Requests /\ \A x \in Due0 : Receiving0(x)
  BY DEF Due0
<1>6. CASE j.op = "close"
  <2>1. Targets(j) = {j.r} /\ j.r \in Requests /\ Receiving0(j.r) /\ j.todo = {}
    BY <1>1, <1>6 DEF Targets, EndingMemory
  <2> QED BY <1>1, <1>3, <1>4, <1>6, <2>1 DEF EndingMemory
<1>7. CASE j.op = "sweep"
  <2>1. Targets(j) = Due0
    BY <1>7 DEF Targets
  <2>2. Due0 = Done(j) \cup {j.r} \cup j.todo
    BY <1>3, <1>4, <2>1
  <2> QED BY <1>1, <1>3, <1>4, <1>5, <1>7, <2>1, <2>2 DEF EndingMemory
<1> QED BY <1>6, <1>7

\* They go on with the request at hand.
LEMMA EndingGoesOn ==
  ASSUME NEW w \in Workers, StatementOf(w), job[w].op \in {"close", "sweep"},
         job[w].at # "next",
         job'[w].op = job[w].op, job'[w].r = job[w].r, job'[w].todo = job[w].todo,
         job'[w].stamp = now, job'[w].at \in {"list", "update", "notify", "save"},
         UNCHANGED <<status, publishedAt, expiresAt, closedAt, conversation, cut>>,
         interest' = InterestsEnded(Done(job[w]) \cup
                       IF job'[w].at \in {"notify", "save"} THEN {job[w].r} ELSE {}),
         told' = ToldEnded(Done(job[w]) \cup IF job'[w].at = "save" THEN {job[w].r} ELSE {}),
         job'[w].outcome = End0(job[w].r),
         job'[w].at \in {"update", "notify"} => job'[w].listed = Remaining(interest0[job[w].r]),
         job'[w].at = "notify" => job'[w].notice = EndInterest(End0(job[w].r))
  PROVE  SerialInv' /\ AtomicStep
<1> DEFINE j == job[w]
           D == Done(j)
<1>1. ASSUME before' = before PROVE Memory(job[w])'
  <2>1. now' = now /\ j.stamp = now /\ job'[w].stamp = now'
    BY WhichMemory DEF StatementOf
  <2>2. /\ UNCHANGED <<published0, expires0, interest0, chats0, cut0>>
        /\ Due0' = Due0
    BY <1>1, <2>1, SameBefore
  <2>3. Targets(job[w])' = Targets(j) /\ Current(job[w])' = Current(j) /\ Done(job[w])' = D
    BY <2>2 DEF Targets, Current, Done
  <2>4. /\ Answered(job[w])' = D \cup IF job'[w].at \in {"notify", "save"} THEN {j.r} ELSE {}
        /\ Notified(job[w])' = D \cup IF job'[w].at = "save" THEN {j.r} ELSE {}
    BY <2>3 DEF Answered, Notified
  <2>5. /\ InterestsEnded(Answered(job[w])') = interest'
        /\ ToldEnded(Notified(job[w])') = told'
    BY <2>4
  <2>6. /\ InterestsEnded(Answered(job[w]))' = InterestsEnded(Answered(job[w])')
        /\ ToldEnded(Notified(job[w]))' = ToldEnded(Notified(job[w])')
        /\ StatusEnded(Done(job[w]))' = StatusEnded(D) /\ ClosedEnded(Done(job[w]))' = ClosedEnded(D)
    BY <1>1, <2>1, <2>3, SameBefore
  <2>7. InOrder(job[w])'
    <3>1. InOrder(j)
      BY EndingAt DEF EndingMemory
    <3>2. \A x : Refused0(x)' <=> Refused0(x)
      BY <1>1, <2>1, SameBefore
    <3> QED BY <2>2, <2>3, <3>1, <3>2 DEF InOrder
  <2>8. (End0(job[w].r)' = End0(j.r)) /\ (Receiving0(job[w].r)' <=> Receiving0(j.r))
    BY <1>1, <2>1, SameBefore
  <2>9. EndingMemory(j)
    BY EndingAt
  <2>10. (RowsKept /\ conversation = chats0 /\ cut = cut0)'
    BY <2>2, <2>9 DEF EndingMemory, RowsKept
  <2>11. (status = StatusEnded(Done(job[w])) /\ closedAt = ClosedEnded(Done(job[w])))'
    BY <2>6, <2>9 DEF EndingMemory
  <2>12. (interest = InterestsEnded(Answered(job[w])) /\ told = ToldEnded(Notified(job[w])))'
    BY <2>5, <2>6
  <2>13. /\ (job[w].op = "close" =>
               job[w].at # "next" /\ job[w].r \in Requests /\ Receiving0(job[w].r) /\ job[w].todo = {})'
         /\ (job[w].todo \subseteq Targets(job[w]) /\ Current(job[w]) \subseteq Targets(job[w]) \ job[w].todo)'
    BY <2>3, <2>8, <2>9 DEF EndingMemory
  <2>14. /\ (job[w].outcome = End0(job[w].r))'
         /\ (job[w].at \in {"update", "notify"} => job[w].listed = Remaining(interest0[job[w].r]))'
         /\ (job[w].at = "notify" => job[w].notice = EndInterest(End0(job[w].r)))'
    BY <2>2, <2>8 DEF Remaining, Having, EndInterest
  <2>15. EndingMemory(job[w])'
    BY <2>7, <2>10, <2>11, <2>12, <2>13, <2>14 DEF EndingMemory
  <2> QED BY <2>1, <2>15 DEF Memory
<1> QED BY <1>1, GotoIsNot, GoesOn

\* The row of the request at hand, before and after its applicants are answered.
LEMMA AnsweredRow ==
  ASSUME BeforeTyped, NEW D \in SUBSET Requests, NEW r \in Requests \ D
  PROVE  /\ InterestsEnded(D)[r] = interest0[r]
         /\ [InterestsEnded(D) EXCEPT ![r] = Finalized(@, EndInterest(End0(r)))]
              = InterestsEnded(D \cup {r})
         /\ [ToldEnded(D) EXCEPT ![r] = Tell(@, Remaining(interest0[r]), EndInterest(End0(r)))]
              = ToldEnded(D \cup {r})
         /\ [StatusEnded(D) EXCEPT ![r] = End0(r)] = StatusEnded(D \cup {r})
         /\ [ClosedEnded(D) EXCEPT ![r] = now] = ClosedEnded(D \cup {r})
<1>1. InterestsEnded(D)[r] = interest0[r]
  BY DEF InterestsEnded
<1>2. [InterestsEnded(D) EXCEPT ![r] = Finalized(@, EndInterest(End0(r)))]
        = InterestsEnded(D \cup {r})
  BY DEF InterestsEnded
<1>3. [ToldEnded(D) EXCEPT ![r] = Tell(@, Remaining(interest0[r]), EndInterest(End0(r)))]
        = ToldEnded(D \cup {r})
  BY DEF ToldEnded
<1>4. [StatusEnded(D) EXCEPT ![r] = End0(r)] = StatusEnded(D \cup {r})
  BY DEF StatusEnded
<1>5. [ClosedEnded(D) EXCEPT ![r] = now] = ClosedEnded(D \cup {r})
  BY DEF ClosedEnded
<1> QED BY <1>1, <1>2, <1>3, <1>4, <1>5

LEMMA SerialEndCounts ==
  ASSUME NEW w \in Workers, StatementOf(w), CountSelected(w), job[w].op \in {"close", "sweep"}
  PROVE  SerialInv' /\ AtomicStep
<1> DEFINE j == job[w]
           r == j.r
           D == Done(j)
<1>1. j.at = "count" /\ now' = now
      /\ UNCHANGED <<status, publishedAt, expiresAt, closedAt, interest, conversation, told, cut>>
  BY DEF CountSelected, At, OnlyJob, tables
<1>2. r \in Requests \ D /\ D \in SUBSET Requests
  BY <1>1, EndingAt
<1>3. interest = InterestsEnded(D) /\ told = ToldEnded(D)
  <2>1. Answered(j) = D /\ Notified(j) = D
    BY <1>1 DEF Answered, Notified
  <2> QED BY <1>1, <2>1, EndingAt
<1>4. EndStatus(r, Cardinality(Selected(r))) = End0(r)
  <2>1. interest[r] = interest0[r]
    BY <1>2, <1>3, AnsweredRow DEF StatementOf, SerialInv
  <2> QED BY <2>1 DEF End0, Selected
<1>5. /\ job'[w].op = j.op /\ job'[w].r = r /\ job'[w].todo = j.todo
      /\ job'[w].outcome = End0(r) /\ job'[w].stamp = now /\ job'[w].at = "list"
  BY <1>4, WhichMemory DEF CountSelected, Jobs
<1> QED BY <1>1, <1>3, <1>5, EndingGoesOn

LEMMA SerialEndLists ==
  ASSUME NEW w \in Workers, StatementOf(w), ListRemaining(w), job[w].op \in {"close", "sweep"}
  PROVE  SerialInv' /\ AtomicStep
<1> DEFINE j == job[w]
           r == j.r
           D == Done(j)
<1>1. j.at = "list" /\ now' = now
      /\ UNCHANGED <<status, publishedAt, expiresAt, closedAt, interest, conversation, told, cut>>
  BY DEF ListRemaining, At, OnlyJob, tables
<1>2. r \in Requests \ D /\ D \in SUBSET Requests /\ j.outcome = End0(r)
  BY <1>1, EndingAt DEF EndingMemory
<1>3. interest = InterestsEnded(D) /\ told = ToldEnded(D)
  <2>1. Answered(j) = D /\ Notified(j) = D
    BY <1>1 DEF Answered, Notified
  <2> QED BY <1>1, <2>1, EndingAt
<1>4. interest[r] = interest0[r]
  BY <1>2, <1>3, AnsweredRow DEF StatementOf, SerialInv
<1>5. /\ job'[w].op = j.op /\ job'[w].r = r /\ job'[w].todo = j.todo
      /\ job'[w].outcome = End0(r) /\ job'[w].stamp = now /\ job'[w].at = "update"
      /\ job'[w].listed = Remaining(interest0[r])
  BY <1>2, <1>4, WhichMemory DEF ListRemaining, Jobs
<1> QED BY <1>1, <1>3, <1>5, EndingGoesOn

LEMMA SerialEndUpdates ==
  ASSUME NEW w \in Workers, StatementOf(w), UpdateRemaining(w), job[w].op \in {"close", "sweep"}
  PROVE  SerialInv' /\ AtomicStep
<1> DEFINE j == job[w]
           r == j.r
           D == Done(j)
<1>1. j.at = "update" /\ now' = now
      /\ UNCHANGED <<status, publishedAt, expiresAt, closedAt, conversation, told, cut>>
  BY DEF UpdateRemaining, At, OnlyInterest
<1>2. /\ r \in Requests \ D /\ D \in SUBSET Requests /\ j.outcome = End0(r)
      /\ j.listed = Remaining(interest0[r])
  BY <1>1, EndingAt DEF EndingMemory
<1>3. interest = InterestsEnded(D) /\ told = ToldEnded(D)
  <2>1. Answered(j) = D /\ Notified(j) = D
    BY <1>1 DEF Answered, Notified
  <2> QED BY <1>1, <2>1, EndingAt
<1>4. FinalInterest(w) = EndInterest(End0(r))
  BY <1>2 DEF FinalInterest
<1>5. interest' = InterestsEnded(D \cup {r})
  <2>1. interest' = [interest EXCEPT ![r] = Finalized(@, EndInterest(End0(r)))]
    BY <1>4 DEF UpdateRemaining
  <2>2. BeforeTyped
    BY DEF StatementOf, SerialInv
  <2> QED BY <1>2, <1>3, <2>1, <2>2, AnsweredRow
<1>6. /\ job'[w].op = j.op /\ job'[w].r = r /\ job'[w].todo = j.todo
      /\ job'[w].outcome = End0(r) /\ job'[w].stamp = now /\ job'[w].at = "notify"
      /\ job'[w].listed = Remaining(interest0[r]) /\ job'[w].notice = EndInterest(End0(r))
  BY <1>2, <1>4, WhichMemory DEF UpdateRemaining, Jobs
<1> QED BY <1>1, <1>3, <1>5, <1>6, EndingGoesOn

LEMMA SerialEndNotifies ==
  ASSUME NEW w \in Workers, StatementOf(w), Notify(w), job[w].op \in {"close", "sweep"}
  PROVE  SerialInv' /\ AtomicStep
<1> DEFINE j == job[w]
           r == j.r
           D == Done(j)
<1>1. j.at = "notify" /\ now' = now
      /\ UNCHANGED <<status, publishedAt, expiresAt, closedAt, interest, conversation, cut>>
      /\ told' = [told EXCEPT ![r] = Tell(@, j.listed, j.notice)]
  BY DEF Notify, At
<1>2. /\ r \in Requests \ D /\ D \in SUBSET Requests /\ j.outcome = End0(r)
      /\ j.listed = Remaining(interest0[r]) /\ j.notice = EndInterest(End0(r))
  BY <1>1, EndingAt DEF EndingMemory
<1>3. interest = InterestsEnded(D \cup {r}) /\ told = ToldEnded(D)
  <2>1. Answered(j) = D \cup {r} /\ Notified(j) = D
    BY <1>1 DEF Answered, Notified
  <2> QED BY <1>1, <2>1, EndingAt
<1>4. told' = ToldEnded(D \cup {r})
  <2>1. told' = [told EXCEPT ![r] = Tell(@, Remaining(interest0[r]), EndInterest(End0(r)))]
    BY <1>1, <1>2
  <2>2. BeforeTyped
    BY DEF StatementOf, SerialInv
  <2> QED BY <1>2, <1>3, <2>1, <2>2, AnsweredRow
<1>5. Goto(w, "save")
  BY <1>2 DEF Notify, EndInterest
<1>6. /\ job'[w].op = j.op /\ job'[w].r = r /\ job'[w].todo = j.todo
      /\ job'[w].outcome = End0(r) /\ job'[w].stamp = now /\ job'[w].at = "save"
  BY <1>2, <1>5, WhichMemory DEF Goto, Jobs
<1> QED BY <1>1, <1>3, <1>4, <1>6, EndingGoesOn

\* The rows that a sweep has ended are too old to make another's save refused.
LEMMA EndedDoNotRefuse ==
  ASSUME NEW w \in Workers, StatementOf(w), job[w].op \in {"close", "sweep"}, job[w].at = "save"
  PROVE  SaveRefused(job[w].r) <=> Refused0(job[w].r)
<1> DEFINE r == job[w].r
           D == Done(job[w])
<1>1. /\ publishedAt = published0 /\ expiresAt = expires0 /\ status = StatusEnded(D)
      /\ D \subseteq Requests /\ D \subseteq Due0
  BY EndingAt DEF RowsKept
<1>2. ASSUME NEW x \in D PROVE ~(published0[x] + DuplicateWindow >= now)
  <2>1. x \in Requests /\ expires0[x] <= now
    BY <1>1, <1>2 DEF Due0
  <2>2. status[x] # "none"
    BY <1>1, <2>1 DEF StatusEnded, End0, EndStatus
  <2>3. expires0[x] > published0[x] + DuplicateWindow
    BY <1>1, <2>1, <2>2 DEF StatementOf, SerialInv, WindowsFit
  <2>4. /\ now \in Nat /\ DuplicateWindow \in Nat
        /\ published0[x] \in Nat /\ expires0[x] \in Nat
    BY <2>1, RequestAssumption DEF StatementOf, SerialInv, BeforeTyped, IInv, HandlerTypeOK, TypeOK
  <2> QED BY <2>1, <2>3, <2>4
<1>3. \A q \in Requests :
        /\ Receiving(q) /\ publishedAt[q] + DuplicateWindow >= now
        <=> status0[q] \in ReceivingStatus /\ published0[q] + DuplicateWindow >= now
  BY <1>1, <1>2 DEF Receiving, StatusEnded
<1> QED BY <1>3 DEF SaveRefused, Duplicate, Refused0

LEMMA SerialEndSaves ==
  ASSUME NEW w \in Workers, StatementOf(w), SaveRequest(w), job[w].op \in {"close", "sweep"}
  PROVE  SerialInv' /\ AtomicStep
<1> DEFINE j == job[w]
           r == j.r
           D == Done(j)
           E == D \cup {r}
<1>1. /\ j.at = "save" /\ now' = now
      /\ UNCHANGED <<publishedAt, expiresAt, interest, conversation, told>>
  BY DEF SaveRequest, At
<1>2. r \in Requests \ D /\ D \in SUBSET Requests /\ E \in SUBSET Requests
  BY <1>1, EndingAt
<1>3. /\ interest = InterestsEnded(E) /\ told = ToldEnded(E)
      /\ status = StatusEnded(D) /\ closedAt = ClosedEnded(D)
      /\ conversation = chats0 /\ cut = cut0 /\ RowsKept
  <2>1. Answered(j) = E /\ Notified(j) = E
    BY <1>1 DEF Answered, Notified
  <2> QED BY <1>1, <2>1, EndingAt
<1>4. InOrder(j) /\ j.outcome = End0(r) /\ Current(j) = {r}
  BY <1>1, EndingAt DEF EndingMemory, Current
<1>5. \A x \in D : ~Refused0(x)
  BY <1>4 DEF InOrder
<1>6. RowsStay
  BY <1>1, <1>3 DEF RowsKept, RowsStay
<1>7. BeforeTyped
  BY DEF StatementOf, SerialInv
<1>8. CASE SaveRefused(r)
  <2>1. Finish(w) /\ UNCHANGED <<status, closedAt, cut>>
    BY <1>8 DEF SaveRequest
  <2>2. Refused0(r)
    BY <1>1, <1>8, EndedDoNotRefuse
  <2>3. ASSUME Mapped, Landed PROVE Atomic!Next
    <3>1. D = {x \in E : ~Refused0(x)}
      BY <1>2, <1>5, <2>2
    <3>2. /\ interest' = InterestsEnded(E) /\ told' = ToldEnded(E)
          /\ status' = StatusEnded(D) /\ closedAt' = ClosedEnded(D)
          /\ conversation' = chats0 /\ cut' = cut0
      BY <1>1, <1>3, <2>1
    <3>3. Atomic!EndRequests(E)
      BY <1>2, <1>6, <2>3, <3>1, <3>2, AsEnd
    <3>4. CASE j.op = "close"
      <4>1. E = {r} /\ Receiving0(r)
        BY <1>1, <3>4, EndingAt
      <4> QED BY <1>2, <2>3, <3>3, <4>1, AsClose
    <3>5. CASE j.op = "sweep"
      <4>1. E \in SUBSET Due0 /\ Due0 \ E \subseteq j.todo
        BY <1>1, <3>5, EndingAt
      <4>2. \A x \in E : Refused0(x) <=> x = r
        BY <1>2, <1>5, <2>2
      <4>3. \A x \in Requests : published0[x] \in Nat
        BY <1>7 DEF BeforeTyped
      <4>4. \A x \in E : published0[x] >= published0[r]
        BY <1>2, <1>4, <4>3 DEF InOrder
      <4>5. \A x \in Due0 \ E : ~(published0[x] > published0[r])
        <5>1. \A x \in Due0 \ E : published0[r] >= published0[x] /\ x \in Requests
          BY <1>4, <4>1 DEF InOrder, Due0
        <5> QED BY <1>2, <4>3, <5>1
      <4> QED BY <2>3, <3>3, <4>1, <4>2, <4>4, <4>5, AsSweep
    <3> QED BY <3>4, <3>5
  <2> QED BY <2>1, <2>3, FinishIsIdle, Finishes DEF AtomicStep
<1>9. CASE ~SaveRefused(r)
  <2>1. ~Refused0(r)
    BY <1>1, <1>9, EndedDoNotRefuse
  <2>2. /\ status' = [status EXCEPT ![r] = End0(r)] /\ cut' = cut
        /\ closedAt' = [closedAt EXCEPT ![r] = now]
    <3>1. j.stamp = now
      BY WhichMemory
    <3> QED BY <1>4, <1>9, <3>1 DEF SaveRequest, KeepsClosedAt
  <2>3. status' = StatusEnded(E) /\ closedAt' = ClosedEnded(E)
    BY <1>2, <1>3, <1>7, <2>2, AnsweredRow
  <2>4. /\ interest' = InterestsEnded(E) /\ told' = ToldEnded(E)
        /\ conversation' = chats0 /\ cut' = cut0
    BY <1>1, <1>3, <2>2
  <2>5. CASE j.op = "close"
    <3>1. Finish(w)
      BY <1>9, <2>5 DEF SaveRequest
    <3>2. ASSUME Mapped, Landed PROVE Atomic!Next
      <4>1. E = {r} /\ Receiving0(r)
        BY <1>1, <2>5, EndingAt
      <4>2. E = {x \in E : ~Refused0(x)}
        BY <2>1, <4>1
      <4>3. Atomic!EndRequests(E)
        BY <1>2, <1>6, <2>3, <2>4, <3>2, <4>2, AsEnd
      <4> QED BY <1>2, <3>2, <4>1, <4>3, AsClose
    <3> QED BY <3>1, <3>2, FinishIsIdle, Finishes DEF AtomicStep
  <2>6. CASE j.op = "sweep"
    <3>1. Goto(w, "next")
      BY <1>9, <2>6 DEF SaveRequest
    <3>2. /\ job'[w].op = "sweep" /\ job'[w].at = "next" /\ job'[w].todo = j.todo
          /\ job'[w].stamp = now
      BY <2>6, <3>1, WhichMemory DEF Goto, Jobs
    <3>3. ASSUME before' = before PROVE Memory(job[w])'
      <4>1. /\ now' = now /\ Due0' = Due0
            /\ UNCHANGED <<published0, expires0, chats0, cut0>>
        BY <1>1, <3>3, SameBefore
      <4>2. /\ Due0 = D \cup {r} \cup j.todo /\ r \notin j.todo /\ D \cap j.todo = {}
            /\ j.todo \subseteq Due0
        BY <1>1, <2>6, EndingAt DEF Done
      <4>3. Targets(job[w])' = Due0 /\ Current(job[w])' = {} /\ Done(job[w])' = E
        BY <3>2, <4>1, <4>2 DEF Targets, Current, Done
      <4>4. Answered(job[w])' = E /\ Notified(job[w])' = E
        BY <3>2, <4>3 DEF Answered, Notified
      <4>5. InOrder(job[w])'
        <5>1. \A x \in E, y \in j.todo : published0[x] >= published0[y]
          BY <1>4 DEF InOrder
        <5>2. \A x \in E : ~Refused0(x)'
          BY <1>1, <1>5, <2>1, <3>3, SameBefore
        <5> QED BY <3>2, <4>1, <4>3, <5>1, <5>2 DEF InOrder
      <4>6. /\ InterestsEnded(Answered(job[w]))' = InterestsEnded(E)
            /\ ToldEnded(Notified(job[w]))' = ToldEnded(E)
            /\ StatusEnded(Done(job[w]))' = StatusEnded(E)
            /\ ClosedEnded(Done(job[w]))' = ClosedEnded(E)
        BY <1>1, <3>3, <4>3, <4>4, SameBefore
      <4>7. RowsKept'
        BY <1>1, <1>3, <4>1 DEF RowsKept
      <4>8. EndingMemory(job[w])'
        BY <2>3, <2>4, <3>2, <4>1, <4>2, <4>3, <4>5, <4>6, <4>7 DEF EndingMemory
      <4> QED BY <3>2, <4>1, <4>8 DEF Memory
    <3> QED BY <3>2, <3>3, GotoIsNot, GoesOn
  <2> QED BY <2>5, <2>6
<1> QED BY <1>8, <1>9

LEMMA SerialNextDue ==
  ASSUME NEW w \in Workers, StatementOf(w), NextDue(w)
  PROVE  SerialInv' /\ AtomicStep
<1> DEFINE j == job[w]
           D == Done(j)
<1>1. /\ j.op = "sweep" /\ j.at = "next" /\ now' = now
      /\ UNCHANGED <<status, publishedAt, expiresAt, closedAt, interest, conversation, told, cut>>
  BY DEF NextDue, At, OnlyJob, tables
<1>2. EndingMemory(j)
  BY <1>1, WhichMemory
<1>3. /\ D = Due0 \ j.todo /\ j.todo \subseteq Due0 /\ Due0 \subseteq Requests
      /\ Answered(j) = D /\ Notified(j) = D
  BY <1>1, <1>2 DEF EndingMemory, Targets, Current, Done, Answered, Notified, Due0
<1>4. /\ interest = InterestsEnded(D) /\ told = ToldEnded(D)
      /\ status = StatusEnded(D) /\ closedAt = ClosedEnded(D)
      /\ conversation = chats0 /\ cut = cut0 /\ RowsKept /\ InOrder(j)
  BY <1>2, <1>3 DEF EndingMemory
<1>5. CASE j.todo = {} /\ Finish(w)
  <2>1. D = Due0 /\ \A x \in Due0 : ~Refused0(x)
    BY <1>3, <1>4, <1>5 DEF InOrder
  <2>2. ASSUME Mapped, Landed PROVE Atomic!Next
    <3>1. Due0 = {x \in Due0 : ~Refused0(x)} /\ Due0 \in SUBSET Requests
      BY <1>3, <2>1
    <3>2. RowsStay
      BY <1>1, <1>4 DEF RowsKept, RowsStay
    <3>3. /\ interest' = InterestsEnded(Due0) /\ told' = ToldEnded(Due0)
          /\ status' = StatusEnded(Due0) /\ closedAt' = ClosedEnded(Due0)
          /\ conversation' = chats0 /\ cut' = cut0
      BY <1>1, <1>4, <2>1
    <3>4. Atomic!EndRequests(Due0)
      BY <2>2, <3>1, <3>2, <3>3, AsEnd
    <3> QED BY <2>1, <2>2, <3>4, AsSweep
  <2> QED BY <1>5, <2>2, FinishIsIdle, Finishes DEF AtomicStep
<1>6. ASSUME NEW r \in j.todo,
             \A q \in j.todo : publishedAt[r] >= publishedAt[q],
             job' = [job EXCEPT ![w].r = r, ![w].at = "count", ![w].todo = j.todo \ {r}]
      PROVE  SerialInv' /\ AtomicStep
  <2>1. /\ job'[w].op = "sweep" /\ job'[w].at = "count" /\ job'[w].r = r
        /\ job'[w].todo = j.todo \ {r} /\ job'[w].stamp = now
    BY <1>1, <1>6, WhichMemory DEF Jobs
  <2>2. ASSUME before' = before PROVE Memory(job[w])'
    <3>1. Due0' = Due0 /\ UNCHANGED <<published0, expires0, chats0, cut0>>
      BY <1>1, <2>2, SameBefore
    <3>2. Targets(job[w])' = Due0 /\ Current(job[w])' = {r} /\ Done(job[w])' = D
      BY <1>3, <2>1, <3>1 DEF Targets, Current, Done
    <3>3. Answered(job[w])' = D /\ Notified(job[w])' = D
      BY <2>1, <3>2 DEF Answered, Notified
    <3>4. InOrder(job[w])'
      <4>1. \A q \in j.todo : published0[r] >= published0[q]
        BY <1>4, <1>6 DEF RowsKept
      <4>2. \A x \in D, y \in j.todo : published0[x] >= published0[y]
        BY <1>4 DEF InOrder
      <4>3. \A x \in D : ~Refused0(x)'
        BY <1>1, <1>4, <2>2, SameBefore DEF InOrder
      <4> QED BY <2>1, <3>1, <3>2, <4>1, <4>2, <4>3 DEF InOrder
    <3>5. /\ InterestsEnded(Answered(job[w]))' = InterestsEnded(D)
          /\ ToldEnded(Notified(job[w]))' = ToldEnded(D)
          /\ StatusEnded(Done(job[w]))' = StatusEnded(D)
          /\ ClosedEnded(Done(job[w]))' = ClosedEnded(D)
      BY <1>1, <2>2, <3>2, <3>3, SameBefore
    <3>6. RowsKept'
      BY <1>1, <1>4, <3>1 DEF RowsKept
    <3>7. EndingMemory(job[w])'
      BY <1>1, <1>3, <1>4, <2>1, <3>1, <3>2, <3>4, <3>5, <3>6 DEF EndingMemory
    <3> QED BY <1>1, <2>1, <3>7 DEF Memory
  <2> QED BY <2>1, <2>2, GotoIsNot, GoesOn
<1> QED BY <1>5, <1>6 DEF NextDue

-----------------------------------------------------------------------------
(* The statements of a cancellation.                                       *)

LEMMA CancelGoesOn ==
  ASSUME NEW w \in Workers, StatementOf(w), job[w].op = "cancel",
         job'[w].op = "cancel", job'[w].r = job[w].r, job'[w].stamp = now,
         job'[w].outcome = "cancelled", ~Refused0(job[w].r),
         UNCHANGED <<publishedAt, expiresAt, conversation, told, cut>>,
         status' = [status0 EXCEPT ![job[w].r] = "cancelled"],
         closedAt' = [closed0 EXCEPT ![job[w].r] = now],
         \/ job'[w].at = "list" /\ interest' = interest0
         \/ /\ job'[w].at = "update" /\ interest' = interest0
            /\ job'[w].listed = Remaining(interest0[job[w].r])
         \/ /\ job'[w].at = "notify" /\ job'[w].notice = "cancelled"
            /\ job'[w].listed = Remaining(interest0[job[w].r])
            /\ interest' = [interest0 EXCEPT ![job[w].r] = Finalized(@, "expired")]
  PROVE  SerialInv' /\ AtomicStep
<1> DEFINE j == job[w]
           r == j.r
<1>1. CancelMemory(j)
  BY WhichMemory
<1>2. ASSUME before' = before PROVE Memory(job[w])'
  <2>1. now' = now
    BY DEF StatementOf
  <2>2. UNCHANGED <<status0, published0, expires0, closed0, interest0, chats0, told0, cut0>>
    BY <1>2, <2>1, SameBefore
  <2>3. ~Refused0(job[w].r)'
    BY <1>2, <2>1, SameBefore
  <2>4. /\ r \in Requests /\ status0[r] \notin {"none", "cancelled", "completed"}
        /\ RowsKept /\ conversation = chats0 /\ cut = cut0 /\ told = told0
    BY <1>1 DEF CancelMemory
  <2>5. RowsKept'
    BY <2>2, <2>4 DEF RowsKept
  <2>6. /\ conversation' = chats0' /\ cut' = cut0' /\ told' = told0'
        /\ (job[w].r \in Requests /\ status0[job[w].r] \notin {"none", "cancelled", "completed"})'
    BY <2>2, <2>4
  <2>7. /\ (status = [status0 EXCEPT ![job[w].r] = "cancelled"])'
        /\ (closedAt = [closed0 EXCEPT ![job[w].r] = now])'
    BY <2>1, <2>2
  <2>8. /\ (job[w].at \in {"list", "update", "notify"})'
        /\ (job[w].at # "list" => job[w].listed = Remaining(interest0[job[w].r]))'
    BY <2>2 DEF Remaining, Having
  <2>9. (IF job[w].at = "notify"
           THEN /\ job[w].notice = "cancelled"
                /\ interest = [interest0 EXCEPT ![job[w].r] = Finalized(@, "expired")]
           ELSE interest = interest0)'
    BY <2>2 DEF Finalized
  <2>10. CancelMemory(job[w])'
    BY <2>3, <2>5, <2>6, <2>7, <2>8, <2>9 DEF CancelMemory
  <2> QED BY <2>1, <2>10 DEF Memory
<1> QED BY <1>2, GotoIsNot, GoesOn

LEMMA SerialCancelSaves ==
  ASSUME NEW w \in Workers, StatementOf(w), SaveRequest(w), job[w].op = "cancel"
  PROVE  SerialInv' /\ AtomicStep
<1> DEFINE j == job[w]
           r == j.r
<1>1. /\ j.at = "save" /\ now' = now
      /\ UNCHANGED <<publishedAt, expiresAt, interest, conversation, told>>
  BY DEF SaveRequest, At
<1>2. CancelMemory(j)
  BY WhichMemory
<1>3. Untouched /\ j.outcome = "cancelled"
  BY <1>1, <1>2 DEF CancelMemory
<1>4. SaveRefused(r) <=> Refused0(r)
  BY <1>3 DEF Untouched, NotSaved, RowsKept, SaveRefused, Duplicate, Receiving, Refused0
<1>5. CASE SaveRefused(r)
  <2>1. Finish(w) /\ UNCHANGED <<status, closedAt, cut>>
    BY <1>1, <1>5 DEF SaveRequest
  <2>2. ASSUME Mapped, Landed PROVE UNCHANGED Atomic!vars
    BY <1>1, <1>3, <2>1, <2>2, AsStutter DEF Untouched, RowsKept, NotSaved, RowsStay, NotSaved0
  <2> QED BY <2>1, <2>2, FinishIsIdle, Finishes DEF AtomicStep
<1>6. CASE ~SaveRefused(r)
  <2>1. /\ status' = [status EXCEPT ![r] = "cancelled"] /\ Goto(w, "list") /\ cut' = cut
        /\ closedAt' = [closedAt EXCEPT ![r] = now]
    BY <1>3, <1>6 DEF SaveRequest, KeepsClosedAt
  <2>2. /\ job'[w].op = "cancel" /\ job'[w].r = r /\ job'[w].stamp = now
        /\ job'[w].outcome = "cancelled" /\ job'[w].at = "list"
    BY <1>3, <2>1, WhichMemory DEF Goto, Jobs
  <2>3. /\ status' = [status0 EXCEPT ![r] = "cancelled"]
        /\ closedAt' = [closed0 EXCEPT ![r] = now] /\ interest' = interest0
    BY <1>1, <1>3, <2>1 DEF Untouched, NotSaved
  <2> QED BY <1>1, <1>4, <1>6, <2>1, <2>2, <2>3, CancelGoesOn
<1> QED BY <1>5, <1>6

\* What a cancellation has made of the tables once its row is saved.
LEMMA CancelSaved ==
  ASSUME NEW w \in Workers, StatementOf(w), job[w].op = "cancel", job[w].at # "save"
  PROVE  /\ ~Refused0(job[w].r) /\ job[w].r \in Requests /\ job[w].outcome = "cancelled"
         /\ status0[job[w].r] \notin {"none", "cancelled", "completed"}
         /\ status = [status0 EXCEPT ![job[w].r] = "cancelled"]
         /\ closedAt = [closed0 EXCEPT ![job[w].r] = now]
         /\ RowsKept /\ conversation = chats0 /\ cut = cut0 /\ told = told0
         /\ job[w].at # "list" => job[w].listed = Remaining(interest0[job[w].r])
         /\ job[w].at # "notify" => interest = interest0
         /\ job[w].at = "notify" =>
              /\ job[w].notice = "cancelled"
              /\ interest = [interest0 EXCEPT ![job[w].r] = Finalized(@, "expired")]
<1>1. CancelMemory(job[w])
  BY WhichMemory
<1> QED BY <1>1 DEF CancelMemory

LEMMA SerialCancelLists ==
  ASSUME NEW w \in Workers, StatementOf(w), ListRemaining(w), job[w].op = "cancel"
  PROVE  SerialInv' /\ AtomicStep
<1> DEFINE j == job[w]
           r == j.r
<1>1. /\ j.at = "list" /\ now' = now
      /\ UNCHANGED <<status, publishedAt, expiresAt, closedAt, interest, conversation, told, cut>>
  BY DEF ListRemaining, At, OnlyJob, tables
<1>2. interest' = interest0
  BY <1>1, CancelSaved
<1>3. /\ job'[w].op = "cancel" /\ job'[w].r = r /\ job'[w].stamp = now
      /\ job'[w].outcome = "cancelled" /\ job'[w].at = "update"
      /\ job'[w].listed = Remaining(interest0[r])
  BY <1>1, <1>2, CancelSaved, WhichMemory DEF ListRemaining, Jobs
<1> QED BY <1>1, <1>2, <1>3, CancelSaved, CancelGoesOn

LEMMA SerialCancelUpdates ==
  ASSUME NEW w \in Workers, StatementOf(w), UpdateRemaining(w), job[w].op = "cancel"
  PROVE  SerialInv' /\ AtomicStep
<1> DEFINE j == job[w]
           r == j.r
<1>1. /\ j.at = "update" /\ now' = now
      /\ UNCHANGED <<status, publishedAt, expiresAt, closedAt, conversation, told, cut>>
  BY DEF UpdateRemaining, At, OnlyInterest
<1>2. FinalInterest(w) = "expired"
  BY DEF FinalInterest
<1>3. interest' = [interest0 EXCEPT ![r] = Finalized(@, "expired")]
  BY <1>1, <1>2, CancelSaved DEF UpdateRemaining
<1>4. /\ job'[w].op = "cancel" /\ job'[w].r = r /\ job'[w].stamp = now
      /\ job'[w].outcome = "cancelled" /\ job'[w].at = "notify"
      /\ job'[w].notice = "cancelled" /\ job'[w].listed = Remaining(interest0[r])
  BY <1>1, CancelSaved, WhichMemory DEF UpdateRemaining, Jobs
<1> QED BY <1>1, <1>3, <1>4, CancelSaved, CancelGoesOn

LEMMA SerialCancelNotifies ==
  ASSUME NEW w \in Workers, StatementOf(w), Notify(w), job[w].op = "cancel"
  PROVE  SerialInv' /\ AtomicStep
<1> DEFINE j == job[w]
           r == j.r
<1>1. /\ j.at = "notify" /\ now' = now /\ Finish(w)
      /\ UNCHANGED <<status, publishedAt, expiresAt, closedAt, interest, conversation, cut>>
      /\ told' = [told EXCEPT ![r] = Tell(@, j.listed, j.notice)]
  BY DEF Notify, At
<1>2. /\ told' = [told0 EXCEPT ![r] = Tell(@, Remaining(interest0[r]), "cancelled")]
      /\ RowsStay
  BY <1>1, CancelSaved DEF RowsKept, RowsStay
<1>3. /\ status' = [status0 EXCEPT ![r] = "cancelled"]
      /\ closedAt' = [closed0 EXCEPT ![r] = now]
      /\ interest' = [interest0 EXCEPT ![r] = Finalized(@, "expired")]
      /\ conversation' = chats0 /\ cut' = cut0
  BY <1>1, CancelSaved
<1>4. ASSUME Mapped, Landed PROVE Atomic!Next
  <2>1. /\ ~Refused0(r) /\ r \in Requests /\ status0[r] \notin {"none", "cancelled", "completed"}
    BY <1>1, CancelSaved
  <2> QED BY <1>2, <1>3, <1>4, <2>1, AsCancel
<1> QED BY <1>1, <1>4, FinishIsIdle, Finishes DEF AtomicStep

-----------------------------------------------------------------------------
(* Every step of SerialHandlers.                                           *)

LEMMA StepWorks ==
  ASSUME IInv, NEW w \in Workers, Step(w)
  PROVE  /\ job[w] # Idle /\ now' = now
         /\ \A v \in Workers \ {w} : job'[v] = job[v]
<1>1. job[w].at # "start"
  BY DEF Step, At, InsertRequest, InsertInterest, LoadRequest, SaveWithdrawn, SaveSelected,
         CountSelected, ListRemaining, UpdateRemaining, Notify, SaveRequest, OpenConversation, NextDue
<1>2. now' = now
  BY DEF Step, InsertRequest, InsertInterest, LoadRequest, SaveWithdrawn, SaveSelected,
         CountSelected, ListRemaining, UpdateRemaining, Notify, SaveRequest, OpenConversation, NextDue,
         OnlyJob, OnlyInterest
<1>3. job \in [Workers -> Jobs]
  BY DEF IInv, HandlerTypeOK
<1>4. \A v \in Workers \ {w} : job'[v] = job[v]
  <2>1. \A at : Goto(w, at) => \A v \in Workers \ {w} : job'[v] = job[v]
    BY <1>3 DEF Goto
  <2>2. Finish(w) => \A v \in Workers \ {w} : job'[v] = job[v]
    BY <1>3 DEF Finish
  <2>3. InsertRequest(w) \/ InsertInterest(w) \/ LoadRequest(w) \/ SaveWithdrawn(w) \/ SaveSelected(w)
          => \A v \in Workers \ {w} : job'[v] = job[v]
    BY <2>1, <2>2 DEF InsertRequest, InsertInterest, LoadRequest, SaveWithdrawn, SaveSelected
  <2>4. Notify(w) \/ SaveRequest(w) => \A v \in Workers \ {w} : job'[v] = job[v]
    BY <2>1, <2>2 DEF Notify, SaveRequest
  <2>5. CountSelected(w) \/ ListRemaining(w) \/ UpdateRemaining(w) \/ OpenConversation(w)
          => \A v \in Workers \ {w} : job'[v] = job[v]
    BY <1>3 DEF CountSelected, ListRemaining, UpdateRemaining, OpenConversation
  <2>6. NextDue(w) => \A v \in Workers \ {w} : job'[v] = job[v]
    BY <1>3, <2>2 DEF NextDue
  <2> QED BY <2>3, <2>4, <2>5, <2>6 DEF Step
<1> QED BY <1>1, <1>2, <1>4, IdleJob

LEMMA WindowsGoOnFitting ==
  ASSUME SerialInv, NEW w \in Workers, Step(w)
  PROVE  WindowsFit'
<1>1. /\ job[w] \in Jobs /\ Memory(job[w])
      /\ status \in [Requests -> RequestStatus]
      /\ publishedAt \in [Requests -> Nat] /\ expiresAt \in [Requests -> Nat]
  BY StepWorks DEF SerialInv, IInv, HandlerTypeOK, TypeOK
<1>2. CASE InsertRequest(w)
  <2> DEFINE r == job[w].r
  <2>1. job[w].op = "publish"
    BY <1>2 DEF InsertRequest, At
  <2>2. PublishMemory(job[w])
    BY <1>1, <2>1 DEF Memory, ApplyMemory, WithdrawMemory, SelectMemory, CancelMemory, EndingMemory
  <2>3. job[w].window \in Windows /\ job[w].window > DuplicateWindow /\ r \in Requests
    BY <2>2, RequestAssumption DEF PublishMemory
  <2>4. job[w].window \in Nat /\ job[w].stamp \in Nat /\ DuplicateWindow \in Nat
    BY <1>1, <2>3, RequestAssumption DEF Jobs
  <2>5. publishedAt'[r] = job[w].stamp /\ expiresAt'[r] = job[w].stamp + job[w].window
    BY <1>1, <1>2, <2>3 DEF InsertRequest
  <2>6. expiresAt'[r] > publishedAt'[r] + DuplicateWindow
    BY <2>3, <2>4, <2>5
  <2>7. \A q \in Requests \ {r} : /\ status'[q] = status[q] /\ publishedAt'[q] = publishedAt[q]
                                  /\ expiresAt'[q] = expiresAt[q]
    BY <1>1, <1>2 DEF InsertRequest
  <2> QED BY <2>6, <2>7 DEF SerialInv, WindowsFit
<1>3. CASE SaveRequest(w)
  <2>1. job[w].at = "save" /\ job[w].op # "publish"
    BY <1>3 DEF SaveRequest, At, SerialInv, IInv, Fits, PublishFits
  <2>2. job[w].r \in Requests /\ status[job[w].r] # "none"
    BY <2>1, AtWork DEF SerialInv, Known
  <2>3. /\ publishedAt' = publishedAt /\ expiresAt' = expiresAt
        /\ \A q \in Requests : status'[q] = status[q] \/ q = job[w].r
    BY <1>1, <1>3 DEF SaveRequest
  <2> QED BY <2>2, <2>3 DEF SerialInv, WindowsFit
<1>4. CASE \/ InsertInterest(w) \/ LoadRequest(w) \/ SaveWithdrawn(w) \/ SaveSelected(w)
           \/ CountSelected(w) \/ ListRemaining(w) \/ UpdateRemaining(w) \/ Notify(w)
           \/ OpenConversation(w) \/ NextDue(w)
  <2>1. UNCHANGED <<status, publishedAt, expiresAt>>
    BY <1>4 DEF InsertInterest, LoadRequest, SaveWithdrawn, SaveSelected, CountSelected, ListRemaining,
                UpdateRemaining, Notify, OpenConversation, NextDue, OnlyJob, OnlyInterest, tables
  <2> QED BY <2>1 DEF SerialInv, WindowsFit
<1> QED BY <1>2, <1>3, <1>4 DEF Step

LEMMA SerialStep ==
  ASSUME SerialInv, NEW w \in Workers, Step(w), before' = IF Quiet' THEN tables' ELSE before
  PROVE  SerialInv' /\ AtomicStep
<1>1. IInv /\ [Next]_vars
  BY DEF SerialInv, Next
<1>2. StatementOf(w)
  BY <1>1, Inductive, StepWorks, WindowsGoOnFitting DEF StatementOf
<1>3. job[w].op \in Ops \ {"idle"}
  BY <1>2, WhichMemory
<1>4. CASE CountSelected(w)
  <2>1. job[w].op \in {"select", "close", "sweep"}
    BY <1>4 DEF CountSelected, At
  <2> QED BY <1>2, <1>4, <2>1, SerialSelectCounts, SerialEndCounts
<1>5. CASE ListRemaining(w) \/ UpdateRemaining(w) \/ Notify(w) \/ SaveRequest(w)
  <2>1. job[w].at \in {"list", "update", "notify", "save"}
    BY <1>5 DEF ListRemaining, UpdateRemaining, Notify, SaveRequest, At
  <2>2. job[w].op \in {"select", "cancel", "close", "sweep"}
    BY <1>2, <1>3, <2>1, WhichMemory DEF Ops, PublishMemory, ApplyMemory, WithdrawMemory
  <2> QED BY <1>2, <1>5, <2>2, SerialSelectLists, SerialSelectUpdates, SerialSelectNotifies,
             SerialSelectSaves, SerialEndLists, SerialEndUpdates, SerialEndNotifies, SerialEndSaves,
             SerialCancelLists, SerialCancelUpdates, SerialCancelNotifies, SerialCancelSaves
<1>6. CASE InsertRequest(w) \/ InsertInterest(w) \/ LoadRequest(w) \/ SaveWithdrawn(w)
           \/ SaveSelected(w) \/ OpenConversation(w) \/ NextDue(w)
  BY <1>2, <1>6, SerialInsertRequest, SerialInsertInterest, SerialLoad, SerialWithdrawn,
     SerialSelected, SerialChat, SerialNextDue
<1> QED BY <1>4, <1>5, <1>6 DEF Step

\* A handler begins: the tables it will work on are those of this moment.
LEMMA Begins ==
  ASSUME SerialInv, IInv', Quiet, NEW w \in Workers, job'[w] # Idle, OnlyJob,
         \A v \in Workers \ {w} : job'[v] = job[v],
         before' = IF Quiet' THEN tables' ELSE before,
         before' = before /\ Untouched' /\ now' = now => Memory(job[w])'
  PROVE  SerialInv' /\ AtomicStep
<1>1. /\ ~Quiet' /\ before' = before /\ now' = now
      /\ UNCHANGED <<status, publishedAt, expiresAt, closedAt, interest, conversation, told, cut>>
  BY DEF Quiet, OnlyJob, tables
<1>2. UNCHANGED <<status0, published0, expires0, closed0, interest0, chats0, told0, cut0>>
  BY <1>1, SameBefore
<1>3. Untouched /\ Mapped
  BY MapsBack DEF SerialInv
<1>4. Untouched'
  BY <1>1, <1>2, <1>3 DEF Untouched, RowsKept, NotSaved
<1>5. BeforeTyped'
  BY <1>2 DEF SerialInv, BeforeTyped
<1>6. WindowsFit'
  BY <1>1 DEF SerialInv, WindowsFit
<1>7. Alone' /\ \A v \in Workers : job'[v] # Idle => Memory(job[v])'
  BY <1>1, <1>4 DEF Alone, Quiet
<1>8. UNCHANGED Atomic!vars
  <2>1. /\ Table(1)' = status0' /\ Table(2)' = published0' /\ Table(3)' = expires0'
        /\ Table(4)' = closed0' /\ Table(5)' = interest0' /\ Table(6)' = chats0'
        /\ Table(7)' = told0' /\ Table(8)' = cut0'
    BY <1>1 DEF Table, status0, published0, expires0, closed0, interest0, chats0, told0, cut0
  <2> QED BY <1>1, <1>2, <1>3, <2>1 DEF Mapped, Atomic!vars, Atomic!tables
<1> QED BY <1>1, <1>5, <1>6, <1>7, <1>8 DEF SerialInv, AtomicStep

\* A closing or a sweep that has not ended any request yet.
LEMMA NothingEnded ==
  ASSUME NEW w \in Workers, SerialInv, before' = before, now' = now, Untouched',
         job'[w].op \in {"close", "sweep"}, job'[w].at \in {"next", "count"},
         Done(job[w])' = {}, job'[w].todo = {} \/ Current(job[w])' = {},
         (job[w].op = "close" => job[w].at # "next" /\ job[w].r \in Requests
            /\ Receiving0(job[w].r) /\ job[w].todo = {})',
         (job[w].todo \subseteq Targets(job[w]))',
         (Current(job[w]) \subseteq Targets(job[w]) \ job[w].todo)'
  PROVE  EndingMemory(job[w])'
<1>1. BeforeTyped'
  BY SameBefore DEF SerialInv, BeforeTyped
<1>2. Answered(job[w])' = {} /\ Notified(job[w])' = {}
  BY DEF Answered, Notified
<1>3. /\ StatusEnded(Done(job[w]))' = status0' /\ ClosedEnded(Done(job[w]))' = closed0'
      /\ InterestsEnded(Answered(job[w]))' = interest0'
      /\ ToldEnded(Notified(job[w]))' = told0'
  BY <1>1, <1>2 DEF StatusEnded, ClosedEnded, InterestsEnded, ToldEnded, BeforeTyped
<1>4. InOrder(job[w])'
  BY DEF InOrder
<1> QED BY <1>3, <1>4 DEF EndingMemory, Untouched, NotSaved

LEMMA SerialBegun ==
  ASSUME SerialInv, IInv', Quiet, NEW w \in Workers,
         NEW op \in {"apply", "withdraw", "select", "close"}, NEW at, NEW r \in Requests,
         NEW p \in Professionals \cup {None}, Begin(w, op, at, r, p), OnlyJob,
         before' = IF Quiet' THEN tables' ELSE before,
         \/ op = "apply" /\ at = "insert" /\ p \in Professionals /\ Receiving(r) /\ interest[r][p] = "none"
         \/ op \in {"withdraw", "select"} /\ at = "load" /\ p \in Professionals /\ interest[r][p] = "applied"
         \/ op = "close" /\ at = "count" /\ Receiving(r)
  PROVE  SerialInv' /\ AtomicStep
<1>1. /\ job'[w].op = op /\ job'[w].at = at /\ job'[w].r = r /\ job'[w].p = p
      /\ job'[w].stamp = now /\ job'[w].todo = {}
      /\ \A v \in Workers \ {w} : job'[v] = job[v]
  BY DEF Begin, SerialInv, IInv, HandlerTypeOK, Idle
<1>2. job'[w] # Idle
  BY <1>1, IdleJob
<1>3. ASSUME before' = before, Untouched', now' = now PROVE Memory(job[w])'
  <2>1. UNCHANGED <<status, publishedAt, expiresAt, closedAt, interest, conversation, told, cut>>
    BY DEF OnlyJob, tables
  <2>2. interest0' = interest /\ status0' = status /\ RowsKept'
    BY <1>3, <2>1 DEF Untouched, NotSaved
  <2>3. Receiving(r) => Receiving0(job[w].r)'
    BY <1>1, <2>2 DEF Receiving, Receiving0
  <2>4. CASE op = "apply"
    <3>1. ApplyMemory(job[w])'
      BY <1>1, <1>3, <2>2, <2>3, <2>4 DEF ApplyMemory
    <3> QED BY <1>1, <1>3, <3>1 DEF Memory
  <2>5. CASE op = "withdraw"
    <3>1. WithdrawMemory(job[w])'
      BY <1>1, <1>3, <2>2, <2>5 DEF WithdrawMemory
    <3> QED BY <1>1, <1>3, <3>1 DEF Memory
  <2>6. CASE op = "select"
    <3>1. SelectMemory(job[w])'
      BY <1>1, <1>3, <2>2, <2>6 DEF SelectMemory
    <3> QED BY <1>1, <1>3, <3>1 DEF Memory
  <2>7. CASE op = "close"
    <3>1. Receiving0(job[w].r)' /\ at = "count"
      BY <2>3, <2>7
    <3>2. Targets(job[w])' = {r} /\ Current(job[w])' = {r} /\ Done(job[w])' = {}
      BY <1>1, <2>7, <3>1 DEF Targets, Current, Done
    <3>3. EndingMemory(job[w])'
      BY <1>1, <1>3, <2>7, <3>1, <3>2, NothingEnded
    <3> QED BY <1>1, <1>3, <3>3 DEF Memory
  <2> QED BY <2>4, <2>5, <2>6, <2>7
<1> QED BY <1>1, <1>2, <1>3, Begins

LEMMA SerialStart ==
  ASSUME SerialInv, Quiet, NEW w \in Workers, Start(w),
         before' = IF Quiet' THEN tables' ELSE before
  PROVE  SerialInv' /\ AtomicStep
<1>1. IInv' /\ job \in [Workers -> Jobs]
  BY Inductive DEF SerialInv, Next, IInv, HandlerTypeOK
<1>2. ASSUME NEW r \in Requests, NEW d \in Windows, StartPublish(w, r, d)
      PROVE  SerialInv' /\ AtomicStep
  <2>1. /\ job'[w].op = "publish" /\ job'[w].at = "insert" /\ job'[w].r = r
        /\ job'[w].window = d /\ job'[w].stamp = now /\ OnlyJob
        /\ \A v \in Workers \ {w} : job'[v] = job[v]
    BY <1>1, <1>2 DEF StartPublish, Idle
  <2>2. UNCHANGED <<now, status, publishedAt>>
    BY <2>1 DEF OnlyJob, tables
  <2>3. /\ now + d <= LastTime /\ status[r] = "none" /\ ~SaveRefused(r) /\ MayPublish(ClientOf[r])
    BY <1>2 DEF StartPublish
  <2>4. ~SaveRefused(job[w].r)' /\ MayPublish(ClientOf[job[w].r])'
    BY <2>1, <2>2, <2>3
    DEF SaveRefused, Duplicate, Receiving, MayPublish, Published
  <2>5. ASSUME Untouched' PROVE Memory(job[w])'
    <3>1. PublishMemory(job[w])'
      BY <2>1, <2>2, <2>3, <2>4, <2>5 DEF PublishMemory
    <3> QED BY <2>1, <2>2, <3>1 DEF Memory
  <2> QED BY <1>1, <2>1, <2>5, IdleJob, Begins
<1>3. ASSUME NEW r \in Requests, NEW p \in Professionals,
             \/ StartApply(w, r, p) \/ StartWithdraw(w, r, p) \/ StartSelect(w, r, p)
      PROVE  SerialInv' /\ AtomicStep
  <2>1. CASE StartApply(w, r, p)
    BY <1>1, <2>1, SerialBegun DEF StartApply
  <2>2. CASE StartWithdraw(w, r, p)
    BY <1>1, <2>2, SerialBegun DEF StartWithdraw
  <2>3. CASE StartSelect(w, r, p)
    BY <1>1, <2>3, SerialBegun DEF StartSelect
  <2> QED BY <1>3, <2>1, <2>2, <2>3
<1>4. ASSUME NEW r \in Requests, StartClose(w, r) PROVE SerialInv' /\ AtomicStep
  BY <1>1, <1>4, SerialBegun DEF StartClose
<1>5. ASSUME NEW r \in Requests, StartCancel(w, r) PROVE SerialInv' /\ AtomicStep
  <2>1. /\ job'[w].op = "cancel" /\ job'[w].at = "save" /\ job'[w].r = r
        /\ job'[w].outcome = "cancelled" /\ job'[w].stamp = now /\ OnlyJob
        /\ \A v \in Workers \ {w} : job'[v] = job[v]
    BY <1>1, <1>5 DEF StartCancel, Idle
  <2>2. UNCHANGED <<now, status>> /\ status[r] \notin {"none", "cancelled", "completed"}
    BY <1>5, <2>1 DEF StartCancel, OnlyJob, tables
  <2>3. ASSUME Untouched' PROVE Memory(job[w])'
    <3>1. CancelMemory(job[w])'
      BY <2>1, <2>2, <2>3 DEF CancelMemory, Untouched, NotSaved
    <3> QED BY <2>1, <2>2, <3>1 DEF Memory
  <2> QED BY <1>1, <2>1, <2>3, IdleJob, Begins
<1>6. CASE StartSweep(w)
  <2>1. /\ job'[w].op = "sweep" /\ job'[w].at = "next" /\ job'[w].stamp = now /\ OnlyJob
        /\ job'[w].todo = {r \in Requests : Due(r)}
        /\ \A v \in Workers \ {w} : job'[v] = job[v]
    BY <1>1, <1>6 DEF StartSweep, Idle
  <2>2. UNCHANGED <<status, expiresAt>>
    BY <2>1 DEF OnlyJob, tables
  <2>3. ASSUME before' = before, Untouched', now' = now PROVE Memory(job[w])'
    <3>1. job'[w].todo = Due0'
      BY <2>1, <2>2, <2>3 DEF Due0, Due, Receiving, Receiving0, Untouched, RowsKept, NotSaved
    <3>2. Targets(job[w])' = Due0' /\ Current(job[w])' = {} /\ Done(job[w])' = {}
      BY <2>1, <3>1 DEF Targets, Current, Done
    <3>3. EndingMemory(job[w])'
      BY <2>1, <2>3, <3>1, <3>2, NothingEnded
    <3> QED BY <2>1, <2>3, <3>3 DEF Memory
  <2> QED BY <1>1, <2>1, <2>3, IdleJob, Begins
<1> QED BY <1>2, <1>3, <1>4, <1>5, <1>6 DEF Start

LEMMA SerialTick ==
  ASSUME SerialInv, Quiet, HandlerTick, before' = IF Quiet' THEN tables' ELSE before
  PROVE  SerialInv' /\ AtomicStep
<1>1. IInv'
  BY Inductive DEF SerialInv, Next
<1>2. Quiet' /\ before' = tables'
      /\ UNCHANGED <<status, publishedAt, expiresAt, closedAt, interest, conversation, told, cut>>
  BY DEF HandlerTick, Tick, tables, Quiet
<1>3. Untouched'
  BY <1>2 DEF Untouched, RowsKept, NotSaved, tables, status0, published0, expires0, closed0, interest0,
         chats0, told0, cut0
<1>4. BeforeTyped'
  BY <1>1, <1>3 DEF IInv, HandlerTypeOK, TypeOK, BeforeTyped, Untouched, RowsKept, NotSaved
<1>5. WindowsFit' /\ Alone' /\ \A w \in Workers : job'[w] = Idle
  BY <1>2 DEF SerialInv, WindowsFit, Alone, Quiet
<1>6. Atomic!Tick
  BY <1>2 DEF HandlerTick, Tick, Atomic!Tick, Atomic!tables, Table, tables
<1> QED BY <1>1, <1>3, <1>4, <1>5, <1>6 DEF SerialInv, AtomicStep, Atomic!Next

\* Nothing happens.
LEMMA MemoryLasts ==
  ASSUME UNCHANGED serialVars, NEW w \in Workers, Memory(job[w])
  PROVE  Memory(job[w])'
<1>1. /\ before' = before /\ now' = now /\ job' = job
      /\ UNCHANGED <<status, publishedAt, expiresAt, closedAt, interest, conversation, told, cut>>
  BY DEF serialVars, vars, tables
<1>2. UNCHANGED <<status0, published0, expires0, closed0, interest0, chats0, told0, cut0>>
  BY <1>1, SameBefore
<1>3. (Untouched' <=> Untouched) /\ (RowsKept' <=> RowsKept) /\ (NotSaved' <=> NotSaved)
  BY <1>1, <1>2 DEF Untouched, RowsKept, NotSaved
<1>4. PublishMemory(job[w]) => PublishMemory(job[w])'
  BY <1>1, <1>3 DEF PublishMemory, SaveRefused, Duplicate, Receiving, MayPublish, Published
<1>5. /\ ApplyMemory(job[w]) => ApplyMemory(job[w])'
      /\ WithdrawMemory(job[w]) => WithdrawMemory(job[w])'
  BY <1>1, <1>2, <1>3 DEF ApplyMemory, WithdrawMemory, Receiving0
<1>6. SelectMemory(job[w]) => SelectMemory(job[w])'
  <2>1. ChosenMemory(job[w]) => ChosenMemory(job[w])'
    <3>1. \A r, p : /\ Chosen0(r, p)' = Chosen0(r, p) /\ Interests1(r, p)' = Interests1(r, p)
                    /\ Told1(r, p)' = Told1(r, p) /\ Status1(r, p)' = Status1(r, p)
                    /\ Full0(r, p)' <=> Full0(r, p)
      BY <1>1, SameBefore
    <3> QED BY <1>1, <1>2, <1>3, <3>1 DEF ChosenMemory, Remaining, Having
  <2>2. SavedMemory(job[w]) => SavedMemory(job[w])'
    <3>1. \A r, p : /\ Interests1(r, p)' = Interests1(r, p)
                    /\ Told1(r, p)' = Told1(r, p) /\ Status1(r, p)' = Status1(r, p)
                    /\ Full0(r, p)' <=> Full0(r, p)
      BY <1>1, SameBefore
    <3>2. \A r : Refused0(r)' <=> Refused0(r)
      BY <1>1, SameBefore
    <3> QED BY <1>1, <1>2, <3>1, <3>2 DEF SavedMemory
  <2>3. Receiving0(job[w].r)' <=> Receiving0(job[w].r)
    BY <1>1, SameBefore
  <2> QED BY <1>1, <1>2, <1>3, <2>1, <2>2, <2>3 DEF SelectMemory
<1>7. CancelMemory(job[w]) => CancelMemory(job[w])'
  <2>1. \A r : Refused0(r)' <=> Refused0(r)
    BY <1>1, SameBefore
  <2> QED BY <1>1, <1>2, <1>3, <2>1 DEF CancelMemory, Remaining, Having, Finalized
<1>8. EndingMemory(job[w]) => EndingMemory(job[w])'
  <2>1. /\ Targets(job[w])' = Targets(job[w]) /\ Current(job[w])' = Current(job[w])
        /\ Done(job[w])' = Done(job[w])
    BY <1>1, SameBefore DEF Targets, Current, Done
  <2>2. Answered(job[w])' = Answered(job[w]) /\ Notified(job[w])' = Notified(job[w])
    BY <1>1, <2>1 DEF Answered, Notified
  <2>3. InOrder(job[w]) => InOrder(job[w])'
    BY <1>1, <1>2, <2>1, SameBefore DEF InOrder
  <2>4. /\ StatusEnded(Done(job[w]))' = StatusEnded(Done(job[w]))
        /\ ClosedEnded(Done(job[w]))' = ClosedEnded(Done(job[w]))
        /\ InterestsEnded(Answered(job[w]))' = InterestsEnded(Answered(job[w]))
        /\ ToldEnded(Notified(job[w]))' = ToldEnded(Notified(job[w]))
        /\ End0(job[w].r)' = End0(job[w].r)
        /\ Receiving0(job[w].r)' <=> Receiving0(job[w].r)
    BY <1>1, <2>1, <2>2, SameBefore
  <2> QED BY <1>1, <1>2, <1>3, <2>1, <2>3, <2>4
      DEF EndingMemory, Remaining, Having, EndInterest
<1> QED BY <1>1, <1>4, <1>5, <1>6, <1>7, <1>8 DEF Memory

LEMMA SerialStutters ==
  ASSUME SerialInv, UNCHANGED serialVars
  PROVE  SerialInv' /\ AtomicStep
<1>1. /\ UNCHANGED vars /\ before' = before /\ job' = job /\ tables' = tables /\ now' = now
      /\ UNCHANGED <<status, publishedAt, expiresAt, closedAt, interest, conversation, told, cut>>
  BY DEF serialVars, vars, tables
<1>2. IInv'
  BY <1>1, Inductive DEF SerialInv
<1>3. UNCHANGED <<status0, published0, expires0, closed0, interest0, chats0, told0, cut0>>
  BY <1>1, SameBefore
<1>4. BeforeTyped' /\ WindowsFit' /\ Alone' /\ (Quiet => Untouched)'
  BY <1>1, <1>3 DEF SerialInv, BeforeTyped, WindowsFit, Alone, Quiet, Untouched, RowsKept, NotSaved
<1>5. \A w \in Workers : job'[w] # Idle => Memory(job[w])'
  BY <1>1, MemoryLasts DEF SerialInv
<1>6. UNCHANGED Atomic!vars
  BY <1>1 DEF Atomic!vars, Atomic!tables, Table, Quiet
<1> QED BY <1>2, <1>4, <1>5, <1>6 DEF SerialInv, AtomicStep

LEMMA SerialNextHolds ==
  ASSUME SerialInv, [SerialNext]_serialVars
  PROVE  SerialInv' /\ [Atomic!Next]_(Atomic!vars)
<1>1. CASE UNCHANGED serialVars
  BY <1>1, SerialStutters DEF AtomicStep
<1>2. CASE SerialNext
  BY <1>2, SerialTick, SerialStart, SerialStep DEF SerialNext, AtomicStep
<1> QED BY <1>1, <1>2

LEMMA SerialStarts ==
  ASSUME SerialInit
  PROVE  SerialInv /\ Atomic!Init
<1>1. IInv
  BY Starts DEF SerialInit
<1>2. Untouched
  BY DEF SerialInit, Untouched, RowsKept, NotSaved, tables, status0, published0, expires0, closed0,
         interest0, chats0, told0, cut0
<1>3. BeforeTyped
  BY <1>1, <1>2 DEF IInv, HandlerTypeOK, TypeOK, BeforeTyped, Untouched, RowsKept, NotSaved
<1>4. Quiet
  BY DEF SerialInit, Init, Quiet
<1>5. WindowsFit
  BY DEF SerialInit, Init, InitTables, WindowsFit
<1>6. SerialInv
  BY <1>1, <1>2, <1>3, <1>4, <1>5 DEF SerialInv, Alone, Quiet
<1>7. Atomic!Init
  BY <1>4 DEF SerialInit, Init, InitTables, Atomic!Init, Atomic!InitTables, Atomic!NoTime, NoTime,
     Table, tables
<1> QED BY <1>6, <1>7

\* As long as one handler runs at a time, the statements of every handler, with
\* what each of them remembers of its reads and the place where a refused
\* save() ends it, add up to the one step it is in ServiceRequests.
THEOREM HandlersAddUp == SerialSpec => ImplementsHandlers
<1>1. SerialInit => SerialInv /\ Atomic!Init
  BY SerialStarts
<1>2. SerialInv /\ [SerialNext]_serialVars => SerialInv' /\ [Atomic!Next]_(Atomic!vars)
  BY SerialNextHolds
<1> QED BY <1>1, <1>2, PTL DEF SerialSpec, ImplementsHandlers, Atomic!Spec

-----------------------------------------------------------------------------
(* What the crossing steps of several handlers leave behind.               *)

\* Whoever is still applied when a handler has listed the applicants is on its
\* list or came too late for it.
ListFits(w) ==
  \A p \in Professionals :
    HasListed(w) /\ interest[job[w].r][p] = "applied" =>
      \/ <<job[w].r, p>> \in late
      \/ job[w].at = "update" /\ p \in job[w].listed

\* Whom a selection has still to tell is the one selected, who has his chat.
ChatFits(w) ==
  job[w].op = "select" /\ job[w].at = "notify" /\ job[w].notice = "selected" =>
    job[w].listed = {job[w].p} /\ job[w].p \in conversation[job[w].r]

Alike(q, r) == q # r /\ ClientOf[q] = ClientOf[r] /\ CategoryOf[q] = CategoryOf[r]

\* What the duplicate check found out before an INSERT holds until then.
CheckFits(w) ==
  job[w].op = "publish" =>
    \A q \in Requests :
      Alike(q, job[w].r) /\ Receiving(q) =>
        \/ publishedAt[q] + DuplicateWindow < job[w].stamp
        \/ <<q, job[w].r>> \in crossed
        \/ q \in revived

\* A request that has all its positions selected has been noted.
FullNoted ==
  \A r \in Requests : Cardinality(Selected(r)) >= Positions[r] => r \in complete

RacesInv ==
  /\ IInv /\ RacesTypeOK /\ FullNoted
  /\ NobodyForgotten /\ RefusedAreTold /\ SelectedAreTold /\ TwinsCrossed
  /\ \A w \in Workers : ListFits(w) /\ ChatFits(w) /\ CheckFits(w)

\* Any step but the acting worker's own part of it.
Races == [Next]_vars /\ Note /\ abandoned \subseteq abandoned'

LEMMA RacesGoOn ==
  ASSUME RacesNext, RacesTypeOK
  PROVE  Races
<1>1. Next /\ Note
  BY DEF RacesNext, Next
<1>2. abandoned \subseteq abandoned'
  BY DEF RacesNext
<1> QED BY <1>1, <1>2 DEF Races

\* What is noted stays noted.
LEMMA Noted ==
  ASSUME Races
  PROVE  late \subseteq late' /\ crossed \subseteq crossed' /\ revived \subseteq revived'
         /\ abandoned \subseteq abandoned' /\ complete \subseteq complete'
BY DEF Races, Note

\* Only a change of its interests makes a request full.
LEMMA FullStaysNoted ==
  ASSUME Races, FullNoted
  PROVE  FullNoted'
<1> SUFFICES ASSUME NEW r \in Requests, Cardinality(Selected(r)') >= Positions[r]
             PROVE  r \in complete'
  BY DEF FullNoted
<1>1. CASE interest'[r] = interest[r]
  <2>1. Selected(r)' = Selected(r)
    BY <1>1 DEF Selected, Having
  <2>2. r \in complete
    BY <2>1 DEF FullNoted
  <2> QED BY <2>2, Noted
<1>2. CASE interest'[r] # interest[r]
  BY <1>2 DEF Races, Note
<1> QED BY <1>1, <1>2

\* A published request keeps its instant.
LEMMA InstantsStay ==
  ASSUME IInv, [Next]_vars, NEW r \in Requests, status[r] # "none"
  PROVE  publishedAt'[r] = publishedAt[r]
<1>1. ASSUME NEW w \in Workers, InsertRequest(w) PROVE publishedAt'[r] = publishedAt[r]
  <2>1. status[job[w].r] = "none" /\ job[w].r \in Requests
    BY <1>1 DEF InsertRequest, At, IInv, Fits, PublishFits
  <2> QED BY <1>1, <2>1 DEF InsertRequest, IInv, HandlerTypeOK, TypeOK
<1>2. ASSUME NEW w \in Workers, Start(w) \/ Crash(w) PROVE publishedAt' = publishedAt
  BY <1>2 DEF Start, Crash, StartPublish, StartApply, StartWithdraw, StartSelect, StartClose,
     StartCancel, StartSweep, ToldSome, OnlyJob, tables
<1>3. ASSUME NEW w \in Workers,
             \/ InsertInterest(w) \/ LoadRequest(w) \/ SaveWithdrawn(w) \/ SaveSelected(w)
             \/ CountSelected(w) \/ ListRemaining(w) \/ UpdateRemaining(w) \/ Notify(w)
             \/ OpenConversation(w) \/ NextDue(w) \/ SaveRequest(w)
      PROVE  publishedAt' = publishedAt
  BY <1>3 DEF InsertInterest, LoadRequest, SaveWithdrawn, SaveSelected, CountSelected,
     ListRemaining, UpdateRemaining, Notify, OpenConversation, NextDue, SaveRequest, OnlyJob,
     OnlyInterest, tables
<1>4. CASE UNCHANGED vars \/ HandlerTick
  BY <1>4 DEF vars, tables, HandlerTick, Tick
<1> QED BY <1>1, <1>2, <1>3, <1>4 DEF Next, Step

\* A list goes on fitting while its handler rests, whoever applies meanwhile.
LEMMA OthersListed ==
  ASSUME RacesInv, Races, NEW v \in Workers, job'[v] = job[v]
  PROVE  ListFits(v)'
<1> SUFFICES ASSUME NEW p \in Professionals, HasListed(v)', interest'[job'[v].r][p] = "applied"
             PROVE  <<job[v].r, p>> \in late' \/ (job[v].at = "update" /\ p \in job[v].listed)
  BY DEF ListFits
<1>1. HasListed(v)
  BY DEF HasListed, TellsRefusal
<1>2. job[v].r \in Requests
  <2>1. job[v].at \in {"update", "notify", "save"}
    BY <1>1 DEF HasListed, TellsRefusal
  <2>2. job[v].op # "publish"
    BY <2>1 DEF RacesInv, IInv, Fits, PublishFits
  <2> QED BY <2>1, <2>2, AtWork DEF RacesInv
<1>3. CASE interest[job[v].r][p] = "applied"
  BY <1>1, <1>3, Noted DEF RacesInv, ListFits
<1>4. CASE interest[job[v].r][p] # "applied"
  <2>1. interest[job[v].r][p] = "none"
    BY <1>2, <1>4, InterestStep DEF RacesInv, Races
  <2> QED BY <1>1, <1>2, <2>1 DEF Races, Note
<1> QED BY <1>3, <1>4

\* What changes a request to receiving is noted, but its own INSERT.
LEMMA WhoReceives ==
  ASSUME RacesInv, Races, NEW q \in Requests, Receiving(q)'
  PROVE  \/ Receiving(q) /\ publishedAt'[q] = publishedAt[q]
         \/ q \in revived'
         \/ status[q] = "none" /\ status'[q] # "none"
<1>1. status[q] \in RequestStatus
  BY DEF RacesInv, IInv, HandlerTypeOK, TypeOK
<1>2. CASE Over(q)
  BY <1>2 DEF Races, Note
<1>3. CASE Receiving(q)
  BY <1>3, InstantsStay DEF RacesInv, Races, Receiving, ReceivingStatus
<1>4. status[q] = "none" => status'[q] # "none"
  BY DEF Receiving, ReceivingStatus
<1> QED BY <1>1, <1>2, <1>3, <1>4 DEF RequestStatus, Over, Receiving, ReceivingStatus

LEMMA OthersChecked ==
  ASSUME RacesInv, Races, NEW v \in Workers, job'[v] = job[v]
  PROVE  CheckFits(v)'
<1> SUFFICES ASSUME job[v].op = "publish", NEW q \in Requests, Alike(q, job[v].r), Receiving(q)'
             PROVE  \/ publishedAt'[q] + DuplicateWindow < job[v].stamp
                    \/ <<q, job[v].r>> \in crossed'
                    \/ q \in revived'
  BY DEF CheckFits, Alike
<1>1. job[v].r \in Requests
  BY DEF RacesInv, IInv, Fits, PublishFits
<1>2. CASE Receiving(q) /\ publishedAt'[q] = publishedAt[q]
  BY <1>2, Noted DEF RacesInv, CheckFits
<1>3. CASE status[q] = "none" /\ status'[q] # "none"
  BY <1>1, <1>3 DEF Alike, Races, Note
<1> QED BY <1>2, <1>3, WhoReceives

-----------------------------------------------------------------------------
(* What one worker's step has to see to for the others' sake.              *)

Cancelling(w, r) ==
  job[w].op = "cancel" /\ job[w].r = r /\ job[w].at \in {"list", "update"}
Refusing(w, r, p) == job[w].r = r /\ p \in job[w].listed /\ TellsRefusal(w)
Selecting(w, r, p) ==
  /\ job[w].op = "select" /\ job[w].r = r /\ job[w].p = p
  /\ job[w].at \notin {"load", "choose"}

TablesGrow ==
  /\ cut \subseteq cut'
  /\ \A r \in Requests :
       /\ conversation[r] \subseteq conversation'[r]
       /\ \A p \in Professionals : told[r][p] \subseteq told'[r][p]

\* A request is over only once its applicants were listed, or by a
\* cancellation that will list them.
EndsWell(w) ==
  \A r \in Requests :
    /\ Over(r)' /\ ~Over(r) =>
         /\ interest' = interest
         /\ Cancelling(w, r)' \/ (job[w].r = r /\ job[w].at = "save" /\ HasListed(w))
    /\ Cancelling(w, r) =>
         \/ Cancelling(w, r)'
         \/ \A p \in Professionals : interest'[r][p] # "applied"
         \/ r \in abandoned'

RefusesWell(w) ==
  \A r \in Requests, p \in Professionals :
    /\ interest'[r][p] \in {"not_selected", "expired"} =>
         \/ interest[r][p] \in {"not_selected", "expired"}
         \/ job[w].r = r /\ job[w].at = "update" /\ TellsRefusal(w)' /\ job'[w].r = r
            /\ job'[w].listed = job[w].listed
    /\ Refusing(w, r, p) =>
         Refusing(w, r, p)' \/ told'[r][p] \cap Refusals # {} \/ r \in abandoned'

SelectsWell(w) ==
  \A r \in Requests, p \in Professionals :
    /\ interest'[r][p] = "selected" => interest[r][p] = "selected" \/ Selecting(w, r, p)'
    /\ Selecting(w, r, p) =>
         \/ Selecting(w, r, p)'
         \/ "selected" \in told'[r][p] /\ p \in conversation'[r]
         \/ r \in cut' \cup abandoned'

StepsWell(w) ==
  /\ TablesGrow /\ EndsWell(w) /\ RefusesWell(w) /\ SelectsWell(w)
  /\ ListFits(w)' /\ ChatFits(w)' /\ CheckFits(w)'
  /\ \A v \in Workers \ {w} : job'[v] = job[v]

LEMMA ForgottenKept ==
  ASSUME RacesInv, Races, NEW w \in Workers, StepsWell(w)
  PROVE  NobodyForgotten'
<1> SUFFICES ASSUME NEW r \in Requests, NEW p \in Professionals,
                    interest'[r][p] = "applied", Over(r)'
             PROVE  <<r, p>> \in late' \/ r \in abandoned' \/ \E v \in Workers : Cancelling(v, r)'
  BY DEF NobodyForgotten, Cancelling
<1>1. CASE interest[r][p] # "applied"
  <2>1. interest[r][p] = "none"
    BY <1>1, InterestStep DEF RacesInv, Races
  <2>2. CASE Over(r)
    BY <2>1, <2>2 DEF Races, Note
  <2>3. CASE ~Over(r)
    BY <1>1, <2>3 DEF StepsWell, EndsWell
  <2> QED BY <2>2, <2>3
<1>2. CASE interest[r][p] = "applied" /\ Over(r)
  <2>1. <<r, p>> \in late \/ r \in abandoned \/ \E v \in Workers : Cancelling(v, r)
    BY <1>2 DEF RacesInv, NobodyForgotten, Cancelling
  <2>2. ASSUME NEW v \in Workers, v # w, Cancelling(v, r) PROVE Cancelling(v, r)'
    BY <2>2 DEF StepsWell, Cancelling
  <2>3. Cancelling(w, r) => Cancelling(w, r)' \/ r \in abandoned'
    BY DEF StepsWell, EndsWell
  <2> QED BY <2>1, <2>2, <2>3, Noted
<1>3. CASE interest[r][p] = "applied" /\ ~Over(r)
  <2>1. CASE Cancelling(w, r)'
    BY <2>1
  <2>2. CASE job[w].r = r /\ job[w].at = "save" /\ HasListed(w)
    BY <1>3, <2>2, Noted DEF RacesInv, ListFits
  <2> QED BY <1>3, <2>1, <2>2 DEF StepsWell, EndsWell
<1> QED BY <1>1, <1>2, <1>3

LEMMA RefusedKept ==
  ASSUME RacesInv, Races, NEW w \in Workers, StepsWell(w)
  PROVE  RefusedAreTold'
<1> SUFFICES ASSUME NEW r \in Requests, NEW p \in Professionals,
                    interest'[r][p] \in {"not_selected", "expired"}
             PROVE  \/ told'[r][p] \cap Refusals # {} \/ <<r, p>> \in late' \/ r \in abandoned'
                    \/ \E v \in Workers : Refusing(v, r, p)'
  BY DEF RefusedAreTold, Refusing
<1>1. CASE interest[r][p] \in {"not_selected", "expired"}
  <2>1. \/ told[r][p] \cap Refusals # {} \/ <<r, p>> \in late \/ r \in abandoned
        \/ \E v \in Workers : Refusing(v, r, p)
    BY <1>1 DEF RacesInv, RefusedAreTold, Refusing
  <2>2. ASSUME NEW v \in Workers, v # w, Refusing(v, r, p) PROVE Refusing(v, r, p)'
    BY <2>2 DEF StepsWell, Refusing, TellsRefusal
  <2>3. Refusing(w, r, p) =>
          Refusing(w, r, p)' \/ told'[r][p] \cap Refusals # {} \/ r \in abandoned'
    BY DEF StepsWell, RefusesWell
  <2>4. told[r][p] \cap Refusals # {} => told'[r][p] \cap Refusals # {}
    BY DEF StepsWell, TablesGrow
  <2> QED BY <2>1, <2>2, <2>3, <2>4, Noted
<1>2. CASE interest[r][p] \notin {"not_selected", "expired"}
  <2>1. /\ job[w].r = r /\ job[w].at = "update" /\ TellsRefusal(w)' /\ job'[w].r = r
        /\ job'[w].listed = job[w].listed
    BY <1>2 DEF StepsWell, RefusesWell
  <2>2. interest[r][p] = "applied"
    BY <1>2, InterestStep DEF RacesInv, Races
  <2>3. <<r, p>> \in late \/ p \in job[w].listed
    BY <2>1, <2>2 DEF RacesInv, ListFits, HasListed, TellsRefusal
  <2> QED BY <2>1, <2>3, Noted DEF Refusing
<1> QED BY <1>1, <1>2

LEMMA SelectedKept ==
  ASSUME RacesInv, Races, NEW w \in Workers, StepsWell(w)
  PROVE  SelectedAreTold'
<1> SUFFICES ASSUME NEW r \in Requests, NEW p \in Professionals, interest'[r][p] = "selected"
             PROVE  \/ "selected" \in told'[r][p] /\ p \in conversation'[r]
                    \/ r \in cut' \cup abandoned'
                    \/ \E v \in Workers : Selecting(v, r, p)'
  BY DEF SelectedAreTold, Selecting
<1>1. CASE interest[r][p] = "selected"
  <2>1. \/ "selected" \in told[r][p] /\ p \in conversation[r]
        \/ r \in cut \cup abandoned
        \/ \E v \in Workers : Selecting(v, r, p)
    BY <1>1 DEF RacesInv, SelectedAreTold, Selecting
  <2>2. ASSUME NEW v \in Workers, v # w, Selecting(v, r, p) PROVE Selecting(v, r, p)'
    BY <2>2 DEF StepsWell, Selecting
  <2>3. Selecting(w, r, p) =>
          \/ Selecting(w, r, p)'
          \/ "selected" \in told'[r][p] /\ p \in conversation'[r]
          \/ r \in cut' \cup abandoned'
    BY DEF StepsWell, SelectsWell
  <2> QED BY <2>1, <2>2, <2>3, Noted DEF StepsWell, TablesGrow
<1>2. CASE interest[r][p] # "selected"
  BY <1>2 DEF StepsWell, SelectsWell
<1> QED BY <1>1, <1>2

\* Twins need a birth, and the checks remembered until then exclude them.
LEMMA TwinsKept ==
  ASSUME RacesInv, Races,
         \A r \in Requests : status[r] = "none" /\ status'[r] # "none" =>
           /\ \E w \in Workers : /\ job[w].op = "publish" /\ job[w].r = r
                                 /\ publishedAt'[r] = job[w].stamp
           /\ \A q \in Requests \ {r} : status'[q] = status[q]
  PROVE  TwinsCrossed'
<1> DEFINE Clear(q, r) ==
      \/ publishedAt'[q] > publishedAt'[r] + DuplicateWindow
      \/ publishedAt'[r] > publishedAt'[q] + DuplicateWindow
      \/ <<q, r>> \in crossed' \/ <<r, q>> \in crossed'
      \/ q \in revived' \/ r \in revived'
<1> SUFFICES ASSUME NEW q \in Requests, NEW r \in Requests, Alike(q, r),
                    Receiving(q)', Receiving(r)'
             PROVE  Clear(q, r)
  BY DEF TwinsCrossed, Alike
<1>0. \A x \in Requests : publishedAt[x] \in Nat /\ publishedAt'[x] \in Nat /\ DuplicateWindow \in Nat
  BY Inductive, RequestAssumption DEF RacesInv, Races, IInv, HandlerTypeOK, TypeOK
<1>1. ASSUME NEW x \in Requests, NEW y \in Requests, Alike(x, y), Receiving(x)', Receiving(y)',
             status[y] = "none", status'[y] # "none"
      PROVE  Clear(x, y)
  <2>1. PICK w \in Workers : /\ job[w].op = "publish" /\ job[w].r = y
                             /\ publishedAt'[y] = job[w].stamp
    BY <1>1
  <2>2. status'[x] = status[x] /\ Receiving(x)
    BY <1>1 DEF Alike, Receiving
  <2>3. status[x] # "none" /\ publishedAt'[x] = publishedAt[x]
    BY <2>2, InstantsStay DEF Receiving, ReceivingStatus, RacesInv, Races
  <2>4. \/ publishedAt[x] + DuplicateWindow < job[w].stamp
        \/ <<x, y>> \in crossed \/ x \in revived
    BY <1>1, <2>1, <2>2 DEF RacesInv, CheckFits
  <2> QED BY <1>0, <2>1, <2>3, <2>4, Noted
<1>2. CASE status[r] = "none" /\ status'[r] # "none"
  BY <1>1, <1>2
<1>3. CASE status[q] = "none" /\ status'[q] # "none"
  <2>1. Alike(r, q)
    BY DEF Alike
  <2>2. Clear(r, q)
    BY <1>1, <1>3, <2>1
  <2> QED BY <2>2
<1>4. CASE /\ Receiving(q) /\ publishedAt'[q] = publishedAt[q]
           /\ Receiving(r) /\ publishedAt'[r] = publishedAt[r]
  <2>1. \/ publishedAt[q] > publishedAt[r] + DuplicateWindow
        \/ publishedAt[r] > publishedAt[q] + DuplicateWindow
        \/ <<q, r>> \in crossed \/ <<r, q>> \in crossed
        \/ q \in revived \/ r \in revived
    BY <1>4 DEF RacesInv, TwinsCrossed, Alike
  <2> QED BY <1>4, <2>1, Noted
<1> QED BY <1>2, <1>3, <1>4, WhoReceives

-----------------------------------------------------------------------------
(* Steps that only read see to it.                                         *)

\* A handler that has nothing listed, checked or selected fits.
LEMMA NothingToFit ==
  ASSUME NEW w \in Workers,
         job'[w].op \notin {"publish"}, job'[w].at \notin {"update", "notify", "save"}
  PROVE  ListFits(w)' /\ ChatFits(w)' /\ CheckFits(w)'
BY DEF ListFits, ChatFits, CheckFits, HasListed, TellsRefusal

LEMMA IdleFits ==
  ASSUME NEW w \in Workers, job'[w] = Idle
  PROVE  ListFits(w)' /\ ChatFits(w)' /\ CheckFits(w)'
BY NothingToFit DEF Idle

\* A step that only reads.
LEMMA ReadsWell ==
  ASSUME RacesInv, NEW w \in Workers, OnlyJob, \A v \in Workers \ {w} : job'[v] = job[v],
         ListFits(w)', ChatFits(w)', CheckFits(w)',
         \A r \in Requests :
           /\ Cancelling(w, r) => Cancelling(w, r)' \/ r \in abandoned'
           /\ \A p \in Professionals :
                /\ Refusing(w, r, p) => Refusing(w, r, p)' \/ r \in abandoned'
                /\ Selecting(w, r, p) => Selecting(w, r, p)' \/ r \in abandoned'
  PROVE  StepsWell(w)
<1>1. UNCHANGED <<now, status, publishedAt, expiresAt, closedAt, interest,
                  conversation, told, cut>>
  BY DEF OnlyJob, tables
<1>2. TablesGrow
  BY <1>1 DEF TablesGrow
<1>3. EndsWell(w)
  BY <1>1 DEF EndsWell, Over
<1>4. RefusesWell(w)
  BY <1>1 DEF RefusesWell
<1>5. SelectsWell(w)
  BY <1>1 DEF SelectsWell
<1> QED BY <1>2, <1>3, <1>4, <1>5 DEF StepsWell

\* The operations a job has nothing to do with as yet.
LEMMA Uninvolved ==
  ASSUME NEW w \in Workers,
         \/ job[w].op \notin {"select", "cancel", "close", "sweep"}
         \/ job[w].op = "select" /\ job[w].at \in {"load", "choose"}
         \/ job[w].op \in {"close", "sweep", "cancel"} /\ job[w].at \notin {"list", "update", "notify"},
         job[w].at # "update" /\ job[w].at # "notify"
  PROVE  \A r, p : ~Cancelling(w, r) /\ ~Refusing(w, r, p) /\ ~Selecting(w, r, p)
BY DEF Cancelling, Refusing, TellsRefusal, Selecting

\* What a job other than a publication starts with.
Looking(w) ==
  /\ \A v \in Workers \ {w} : job'[v] = job[v]
  /\ \/ job'[w].at \in {"insert", "load", "count", "next"} /\ job'[w].op # "publish"
     \/ job'[w].at = "save" /\ job'[w].op = "cancel"

LEMMA StartsWell ==
  ASSUME RacesInv, Races, NEW w \in Workers, Start(w)
  PROVE  StepsWell(w)
<1>1. job[w] = Idle /\ OnlyJob
  BY DEF Start, StartPublish, StartApply, StartWithdraw, StartSelect, StartClose, StartCancel,
     StartSweep, Begin
<1>2. \A r, p : ~Cancelling(w, r) /\ ~Refusing(w, r, p) /\ ~Selecting(w, r, p)
  BY <1>1, Uninvolved DEF Idle
<1>3. job \in [Workers -> Jobs]
  BY DEF RacesInv, IInv, HandlerTypeOK
<1>4. ASSUME NEW r \in Requests, NEW d \in Windows, StartPublish(w, r, d) PROVE StepsWell(w)
  <2>1. /\ \A v \in Workers \ {w} : job'[v] = job[v]
        /\ job'[w].op = "publish" /\ job'[w].at = "insert" /\ job'[w].r = r
        /\ job'[w].stamp = now
    BY <1>3, <1>4 DEF StartPublish, Idle
  <2>2. ListFits(w)' /\ ChatFits(w)'
    BY <2>1 DEF ListFits, ChatFits, HasListed, TellsRefusal
  <2>3. CheckFits(w)'
    <3>1. ASSUME NEW q \in Requests, Alike(q, r), Receiving(q)
          PROVE  publishedAt[q] + DuplicateWindow < now
      <4>1. ~Duplicate(q, r)
        BY <1>4 DEF StartPublish, SaveRefused
      <4>2. ~(publishedAt[q] + DuplicateWindow >= now)
        BY <3>1, <4>1 DEF Duplicate, Alike
      <4> QED BY <4>2, ClockNow, RequestAssumption DEF RacesInv
    <3>2. status' = status /\ publishedAt' = publishedAt
      BY <1>1 DEF OnlyJob, tables
    <3> QED BY <2>1, <3>1, <3>2 DEF CheckFits, Alike, Receiving
  <2> QED BY <1>1, <1>2, <2>1, <2>2, <2>3, ReadsWell
<1>5. CASE \A r \in Requests, d \in Windows : ~StartPublish(w, r, d)
  <2>1. Looking(w)
    <3>1. ASSUME NEW op \in {"apply", "withdraw", "select", "close"},
                 NEW at \in {"insert", "load", "count"}, NEW r, NEW p, Begin(w, op, at, r, p)
          PROVE  Looking(w)
      BY <1>3, <3>1 DEF Looking, Begin, Idle
    <3>2. ASSUME NEW r \in Requests, StartCancel(w, r) PROVE Looking(w)
      BY <1>3, <3>2 DEF StartCancel, Idle, Looking
    <3>3. CASE StartSweep(w)
      BY <1>3, <3>3 DEF StartSweep, Idle, Looking
    <3> QED BY <1>5, <3>1, <3>2, <3>3 DEF Start, StartApply, StartWithdraw, StartSelect, StartClose
  <2>2. ListFits(w)' /\ ChatFits(w)' /\ CheckFits(w)'
    BY <2>1 DEF Looking, ListFits, ChatFits, CheckFits, HasListed, TellsRefusal
  <2> QED BY <1>1, <1>2, <2>1, <2>2, ReadsWell DEF Looking
<1> QED BY <1>4, <1>5

LEMMA CrashesWell ==
  ASSUME RacesInv, Races, NEW w \in Workers, Crash(w),
         abandoned' = IF Owes(w) THEN abandoned \cup {job[w].r} ELSE abandoned
  PROVE  StepsWell(w)
<1>1. /\ job'[w] = Idle /\ HandlerTypeOK
      /\ \A v \in Workers \ {w} : job'[v] = job[v]
  BY FinishedFits DEF Crash, RacesInv, IInv
<1>2. UNCHANGED <<status, interest, conversation, cut>>
  BY DEF Crash, ToldSome, OnlyJob, tables
<1>3. \A r \in Requests, p \in Professionals : told[r][p] \subseteq told'[r][p]
  <2>1. CASE OnlyJob
    BY <2>1 DEF OnlyJob, tables
  <2>2. CASE ToldSome(w)
    <3>1. PICK ps : told' = [told EXCEPT ![job[w].r] = Tell(@, ps, job[w].notice)]
      BY <2>2 DEF ToldSome
    <3> QED BY <1>1, <3>1 DEF HandlerTypeOK, TypeOK, Tell
  <2> QED BY <2>1, <2>2 DEF Crash
<1>4. TablesGrow
  BY <1>2, <1>3 DEF TablesGrow
<1>5. \A r, p : Cancelling(w, r) \/ Refusing(w, r, p) \/ Selecting(w, r, p) =>
               r \in abandoned'
  BY DEF Cancelling, Refusing, TellsRefusal, Selecting, Owes
<1>6. EndsWell(w)
  BY <1>2, <1>5 DEF EndsWell, Over
<1>7. RefusesWell(w) /\ SelectsWell(w)
  BY <1>2, <1>5 DEF RefusesWell, SelectsWell
<1> QED BY <1>1, <1>4, <1>6, <1>7, IdleFits DEF StepsWell

LEMMA LoadsWell ==
  ASSUME RacesInv, Races, NEW w \in Workers, LoadRequest(w)
  PROVE  StepsWell(w)
<1>1. \A r, p : ~Cancelling(w, r) /\ ~Refusing(w, r, p) /\ ~Selecting(w, r, p)
  BY Uninvolved DEF LoadRequest, At
<1>2. job \in [Workers -> Jobs]
  BY DEF RacesInv, IInv, HandlerTypeOK
<1>3. /\ OnlyJob
      /\ \A v \in Workers \ {w} : job'[v] = job[v]
      /\ job'[w] = Idle \/ (job'[w].at \in {"choose", "leave"} /\ job'[w].op = job[w].op)
  BY <1>2 DEF LoadRequest, Finish, Goto, Jobs
<1>4. ListFits(w)' /\ ChatFits(w)' /\ CheckFits(w)'
  BY <1>3, IdleFits, NothingToFit DEF LoadRequest, At
<1> QED BY <1>1, <1>3, <1>4, ReadsWell

LEMMA NextDueWell ==
  ASSUME RacesInv, Races, NEW w \in Workers, NextDue(w)
  PROVE  StepsWell(w)
<1>1. \A r, p : ~Cancelling(w, r) /\ ~Refusing(w, r, p) /\ ~Selecting(w, r, p)
  BY Uninvolved DEF NextDue, At
<1>2. job \in [Workers -> Jobs]
  BY DEF RacesInv, IInv, HandlerTypeOK
<1>3. /\ OnlyJob
      /\ \A v \in Workers \ {w} : job'[v] = job[v]
      /\ job'[w] = Idle \/ (job'[w].at = "count" /\ job'[w].op = "sweep")
  BY <1>2 DEF NextDue, Finish, Jobs, At
<1>4. ListFits(w)' /\ ChatFits(w)' /\ CheckFits(w)'
  BY <1>3, IdleFits, NothingToFit
<1> QED BY <1>1, <1>3, <1>4, ReadsWell

LEMMA CountsWell ==
  ASSUME RacesInv, Races, NEW w \in Workers, CountSelected(w)
  PROVE  StepsWell(w)
<1>1. job \in [Workers -> Jobs] /\ job[w].op \in {"select", "close", "sweep"} /\ job[w].at = "count"
  BY DEF RacesInv, IInv, HandlerTypeOK, CountSelected, At
<1>2. /\ OnlyJob
      /\ \A v \in Workers \ {w} : job'[v] = job[v]
      /\ job'[w].op = job[w].op /\ job'[w].r = job[w].r /\ job'[w].p = job[w].p
      /\ \/ job'[w].at = "list"
         \/ job'[w].at = "save" /\ job[w].op = "select" /\ job'[w].outcome = "partially_filled"
  BY <1>1 DEF CountSelected, Jobs
<1>3. ListFits(w)' /\ ChatFits(w)' /\ CheckFits(w)'
  BY <1>1, <1>2 DEF ListFits, ChatFits, CheckFits, HasListed, TellsRefusal
<1>4. \A r, p : /\ ~Cancelling(w, r) /\ ~Refusing(w, r, p)
                /\ Selecting(w, r, p) => Selecting(w, r, p)'
  BY <1>1, <1>2 DEF Cancelling, Refusing, TellsRefusal, Selecting
<1> QED BY <1>2, <1>3, <1>4, ReadsWell

LEMMA ListsWell ==
  ASSUME RacesInv, Races, NEW w \in Workers, ListRemaining(w)
  PROVE  StepsWell(w)
<1>1. job \in [Workers -> Jobs] /\ job[w].at = "list"
  BY DEF RacesInv, IInv, HandlerTypeOK, ListRemaining, At
<1>2. /\ OnlyJob
      /\ \A v \in Workers \ {w} : job'[v] = job[v]
      /\ job'[w].op = job[w].op /\ job'[w].r = job[w].r /\ job'[w].p = job[w].p
      /\ job'[w].at = "update" /\ job'[w].listed = Remaining(interest[job[w].r])
  BY <1>1 DEF ListRemaining, Jobs
<1>3. job[w].op # "publish" /\ interest' = interest
  BY <1>1, <1>2 DEF RacesInv, IInv, Fits, PublishFits, OnlyJob, tables
<1>4. ListFits(w)' /\ ChatFits(w)' /\ CheckFits(w)'
  BY <1>2, <1>3 DEF ListFits, ChatFits, CheckFits, Remaining, Having
<1>5. \A r, p : /\ Cancelling(w, r) => Cancelling(w, r)'
                /\ ~Refusing(w, r, p)
                /\ Selecting(w, r, p) => Selecting(w, r, p)'
  BY <1>1, <1>2 DEF Cancelling, Refusing, TellsRefusal, Selecting
<1> QED BY <1>2, <1>4, <1>5, ReadsWell

-----------------------------------------------------------------------------
(* Steps that write see to it.                                             *)

\* A step that writes an interest, and neither refuses nor is about to.
LEMMA WritesWell ==
  ASSUME RacesInv, NEW w \in Workers, OnlyInterest,
         job'[w] = Idle \/ (job'[w].op = "select" /\ job'[w].at = "count"),
         \A v \in Workers \ {w} : job'[v] = job[v],
         \A r, p : ~Cancelling(w, r) /\ ~Refusing(w, r, p) /\ ~Selecting(w, r, p),
         \A r \in Requests, p \in Professionals : interest'[r][p] # interest[r][p] =>
           \/ interest'[r][p] \in {"applied", "withdrawn"}
           \/ interest'[r][p] = "selected" /\ Selecting(w, r, p)'
  PROVE  StepsWell(w)
<1>1. UNCHANGED <<status, conversation, told, cut>>
  BY DEF OnlyInterest
<1>2. TablesGrow
  BY <1>1 DEF TablesGrow
<1>3. EndsWell(w)
  BY <1>1 DEF EndsWell, Over
<1>4. RefusesWell(w)
  BY DEF RefusesWell
<1>5. SelectsWell(w)
  BY DEF SelectsWell
<1>6. ListFits(w)' /\ ChatFits(w)' /\ CheckFits(w)'
  BY IdleFits, NothingToFit
<1> QED BY <1>2, <1>3, <1>4, <1>5, <1>6 DEF StepsWell

LEMMA InsertsWell ==
  ASSUME RacesInv, NEW w \in Workers, InsertInterest(w)
  PROVE  StepsWell(w)
<1>1. /\ job[w].op = "apply" /\ job[w].at = "insert" /\ OnlyInterest /\ Finish(w)
      /\ \/ interest' = interest
         \/ interest' = [interest EXCEPT ![job[w].r][job[w].p] = "applied"]
      /\ HandlerTypeOK
  BY DEF InsertInterest, SetInterest, At, RacesInv, IInv
<1>2. job'[w] = Idle /\ \A v \in Workers \ {w} : job'[v] = job[v]
  BY <1>1, FinishedFits
<1>3. \A r, p : ~Cancelling(w, r) /\ ~Refusing(w, r, p) /\ ~Selecting(w, r, p)
  BY <1>1, Uninvolved
<1>4. \A r \in Requests, p \in Professionals :
        interest'[r][p] # interest[r][p] => interest'[r][p] = "applied"
  <2>1. interest \in [Requests -> [Professionals -> InterestStatus]]
    BY <1>1 DEF HandlerTypeOK, TypeOK
  <2> QED BY <1>1, <2>1
<1> QED BY <1>1, <1>2, <1>3, <1>4, WritesWell

LEMMA WithdrawsWell ==
  ASSUME RacesInv, NEW w \in Workers, SaveWithdrawn(w)
  PROVE  StepsWell(w)
<1>1. /\ job[w].op = "withdraw" /\ job[w].at = "leave" /\ OnlyInterest /\ Finish(w)
      /\ interest' = [interest EXCEPT ![job[w].r][job[w].p] = "withdrawn"]
      /\ HandlerTypeOK
  BY DEF SaveWithdrawn, SetInterest, At, RacesInv, IInv
<1>2. job'[w] = Idle /\ \A v \in Workers \ {w} : job'[v] = job[v]
  BY <1>1, FinishedFits
<1>3. \A r, p : ~Cancelling(w, r) /\ ~Refusing(w, r, p) /\ ~Selecting(w, r, p)
  BY <1>1, Uninvolved
<1>4. \A r \in Requests, p \in Professionals :
        interest'[r][p] # interest[r][p] => interest'[r][p] = "withdrawn"
  BY <1>1 DEF HandlerTypeOK, TypeOK
<1> QED BY <1>1, <1>2, <1>3, <1>4, WritesWell

LEMMA ChoosesWell ==
  ASSUME RacesInv, NEW w \in Workers, SaveSelected(w)
  PROVE  StepsWell(w)
<1>1. /\ job[w].op = "select" /\ job[w].at = "choose" /\ OnlyInterest /\ Goto(w, "count")
      /\ interest' = [interest EXCEPT ![job[w].r][job[w].p] = "selected"]
      /\ HandlerTypeOK
  BY DEF SaveSelected, SetInterest, At, RacesInv, IInv
<1>2. /\ job'[w].op = "select" /\ job'[w].at = "count"
      /\ job'[w].r = job[w].r /\ job'[w].p = job[w].p
      /\ \A v \in Workers \ {w} : job'[v] = job[v]
  BY <1>1, GoneTo DEF Points
<1>3. \A r, p : ~Cancelling(w, r) /\ ~Refusing(w, r, p) /\ ~Selecting(w, r, p)
  BY <1>1, Uninvolved
<1>4. \A r \in Requests, p \in Professionals : interest'[r][p] # interest[r][p] =>
        interest'[r][p] = "selected" /\ r = job[w].r /\ p = job[w].p
  BY <1>1 DEF HandlerTypeOK, TypeOK
<1>5. \A r \in Requests, p \in Professionals : interest'[r][p] # interest[r][p] =>
        interest'[r][p] = "selected" /\ Selecting(w, r, p)'
  BY <1>2, <1>4 DEF Selecting
<1> QED BY <1>1, <1>2, <1>3, <1>5, WritesWell

LEMMA UpdatesWell ==
  ASSUME RacesInv, NEW w \in Workers, UpdateRemaining(w)
  PROVE  StepsWell(w)
<1>1. PICK final : final = FinalInterest(w)
  OBVIOUS
<1>2. PICK notice : notice = IF job[w].op = "cancel" THEN "cancelled" ELSE final
  OBVIOUS
<1>3. /\ job[w].at = "update" /\ OnlyInterest /\ HandlerTypeOK /\ job[w].op # "publish"
      /\ interest' = [interest EXCEPT ![job[w].r] = Finalized(@, final)]
      /\ job' = [job EXCEPT ![w].at = "notify", ![w].notice = notice]
  BY <1>1, <1>2 DEF UpdateRemaining, At, RacesInv, IInv, Fits, PublishFits
<1>4. final \in {"not_selected", "expired"} /\ notice # "selected"
  BY <1>1, <1>2 DEF FinalInterest, EndInterest
<1>5. \A r \in Requests, p \in Professionals :
        interest'[r][p] = IF r = job[w].r /\ interest[r][p] = "applied"
                            THEN final ELSE interest[r][p]
  BY <1>3 DEF HandlerTypeOK, TypeOK, Finalized
<1>6. /\ \A v \in Workers \ {w} : job'[v] = job[v]
      /\ job'[w].at = "notify" /\ job'[w].op = job[w].op /\ job'[w].r = job[w].r
      /\ job'[w].p = job[w].p /\ job'[w].listed = job[w].listed /\ job'[w].notice = notice
  BY <1>3 DEF HandlerTypeOK, Jobs
<1>7. UNCHANGED <<status, conversation, told, cut>>
  BY <1>3 DEF OnlyInterest
<1>8. TablesGrow
  BY <1>7 DEF TablesGrow
<1>9. EndsWell(w)
  BY <1>4, <1>5, <1>7 DEF EndsWell, Over, Cancelling
<1>10. RefusesWell(w)
  <2>1. TellsRefusal(w)'
    BY <1>4, <1>6 DEF TellsRefusal
  <2>2. ~TellsRefusal(w)
    BY <1>3 DEF TellsRefusal
  <2> QED BY <1>3, <1>5, <1>6, <2>1, <2>2 DEF RefusesWell, Refusing
<1>11. SelectsWell(w)
  BY <1>4, <1>5, <1>6 DEF SelectsWell, Selecting
<1>12. job[w].r \in Requests
  BY <1>3, AtWork DEF RacesInv
<1>13. ListFits(w)' /\ ChatFits(w)' /\ CheckFits(w)'
  BY <1>3, <1>4, <1>5, <1>6, <1>12 DEF ListFits, ChatFits, CheckFits
<1> QED BY <1>6, <1>8, <1>9, <1>10, <1>11, <1>13 DEF StepsWell

LEMMA InsertsRequestWell ==
  ASSUME RacesInv, NEW w \in Workers, InsertRequest(w)
  PROVE  StepsWell(w)
<1>1. /\ job[w].op = "publish" /\ job[w].at = "insert" /\ Finish(w) /\ HandlerTypeOK
      /\ status' = [status EXCEPT ![job[w].r] = "open"]
      /\ UNCHANGED <<interest, conversation, told, cut>>
  BY DEF InsertRequest, At, RacesInv, IInv
<1>2. job'[w] = Idle /\ \A v \in Workers \ {w} : job'[v] = job[v]
  BY <1>1, FinishedFits
<1>3. \A r, p : ~Cancelling(w, r) /\ ~Refusing(w, r, p) /\ ~Selecting(w, r, p)
  BY <1>1, Uninvolved
<1>4. \A r \in Requests : Over(r)' => Over(r)
  BY <1>1 DEF Over, HandlerTypeOK, TypeOK
<1>5. TablesGrow
  BY <1>1 DEF TablesGrow
<1>6. EndsWell(w) /\ RefusesWell(w) /\ SelectsWell(w)
  BY <1>1, <1>3, <1>4 DEF EndsWell, RefusesWell, SelectsWell
<1> QED BY <1>2, <1>5, <1>6, IdleFits DEF StepsWell

LEMMA NotifiesWell ==
  ASSUME RacesInv, Races, NEW w \in Workers, Notify(w)
  PROVE  StepsWell(w)
<1>1. /\ job[w].at = "notify" /\ Fits(w) /\ HandlerTypeOK /\ job[w].op # "publish"
      /\ told' = [told EXCEPT ![job[w].r] = Tell(@, job[w].listed, job[w].notice)]
      /\ UNCHANGED <<status, interest, conversation, cut>>
  BY DEF Notify, At, RacesInv, IInv, Fits, PublishFits
<1>2. job[w] \in Jobs /\ job[w].r \in Requests
  BY <1>1, AtWork DEF RacesInv
<1>3. job[w].notice \in Refusals \cup {"selected"}
  BY <1>1, <1>2 DEF Jobs, Fits, PlaceFits, Notices, Refusals
<1>4. \A r \in Requests, p \in Professionals :
        /\ told[r][p] \subseteq told'[r][p]
        /\ r = job[w].r /\ p \in job[w].listed => job[w].notice \in told'[r][p]
  <2>1. \A r \in Requests, p \in Professionals :
          told'[r][p] = IF r = job[w].r /\ p \in job[w].listed
                          THEN told[r][p] \cup {job[w].notice} ELSE told[r][p]
    BY <1>1 DEF HandlerTypeOK, TypeOK, Tell
  <2> QED BY <2>1
<1>5. \/ job'[w] = Idle /\ (job[w].op = "cancel" \/ job[w].notice = "selected")
      \/ /\ job'[w].at = "save" /\ job'[w].op = job[w].op /\ job'[w].r = job[w].r
         /\ job'[w].p = job[w].p /\ job'[w].listed = job[w].listed
         /\ job[w].op # "cancel" /\ job[w].notice # "selected"
  <2>1. CASE job[w].op = "cancel" \/ job[w].notice = "selected"
    <3>1. Finish(w)
      BY <2>1 DEF Notify
    <3> QED BY <1>1, <2>1, <3>1, FinishedFits
  <2>2. CASE ~(job[w].op = "cancel" \/ job[w].notice = "selected")
    <3>1. Goto(w, "save") /\ "save" \in Points
      BY <2>2 DEF Notify, Points
    <3> QED BY <1>1, <2>2, <3>1, GoneTo
  <2> QED BY <2>1, <2>2
<1>6. \A v \in Workers \ {w} : job'[v] = job[v]
  <2>1. Finish(w) \/ (Goto(w, "save") /\ "save" \in Points)
    BY DEF Notify, Points
  <2> QED BY <1>1, <2>1, FinishedFits, GoneTo
<1>7. TablesGrow
  <2>1. conversation' = conversation /\ cut' = cut
    BY <1>1
  <2> QED BY <1>4, <2>1 DEF TablesGrow
<1>8. EndsWell(w)
  BY <1>1 DEF EndsWell, Over, Cancelling
<1>9. RefusesWell(w)
  <2>1. interest' = interest
    BY <1>1
  <2>2. ASSUME NEW r \in Requests, NEW p \in Professionals, Refusing(w, r, p)
        PROVE  told'[r][p] \cap Refusals # {}
    <3>1. job[w].notice \in Refusals /\ job[w].notice \in told'[r][p]
      BY <1>3, <1>4, <2>2 DEF Refusing, TellsRefusal
    <3> QED BY <3>1
  <2> QED BY <2>1, <2>2 DEF RefusesWell
<1>10. SelectsWell(w)
  <2>1. ASSUME NEW r \in Requests, NEW p \in Professionals, Selecting(w, r, p)
        PROVE  Selecting(w, r, p)' \/ ("selected" \in told'[r][p] /\ p \in conversation'[r])
    <3>1. CASE job[w].notice = "selected"
      <4>1. job[w].listed = {p} /\ p \in conversation[r] /\ job[w].r = r
        BY <1>1, <2>1, <3>1 DEF Selecting, RacesInv, ChatFits
      <4>2. conversation' = conversation
        BY <1>1
      <4> QED BY <1>4, <3>1, <4>1, <4>2
    <3>2. CASE job[w].notice # "selected"
      BY <1>5, <2>1, <3>2 DEF Selecting
    <3> QED BY <3>1, <3>2
  <2> QED BY <1>1, <2>1 DEF SelectsWell
<1>11. ListFits(w)' /\ ChatFits(w)' /\ CheckFits(w)'
  <2>1. CASE job'[w] = Idle
    BY <2>1, IdleFits
  <2>2. CASE /\ job'[w].at = "save" /\ job'[w].op = job[w].op /\ job'[w].r = job[w].r
             /\ job[w].notice # "selected"
    <3>1. HasListed(w)
      BY <1>1, <2>2 DEF HasListed, TellsRefusal
    <3>2. \A p \in Professionals : interest[job[w].r][p] = "applied" =>
            <<job[w].r, p>> \in late'
      BY <1>1, <3>1, Noted DEF RacesInv, ListFits
    <3> QED BY <1>1, <2>2, <3>2 DEF ListFits, ChatFits, CheckFits
  <2> QED BY <1>5, <2>1, <2>2
<1> QED BY <1>6, <1>7, <1>8, <1>9, <1>10, <1>11 DEF StepsWell

LEMMA ChatsWell ==
  ASSUME RacesInv, NEW w \in Workers, OpenConversation(w)
  PROVE  StepsWell(w)
<1>1. PICK r, p : r = job[w].r /\ p = job[w].p
  OBVIOUS
<1>2. /\ job[w].op = "select" /\ job[w].at = "chat" /\ Fits(w) /\ HandlerTypeOK
      /\ conversation' = [conversation EXCEPT ![r] = @ \cup {p}]
      /\ job' = [job EXCEPT ![w].at = "notify", ![w].listed = {p}, ![w].notice = "selected"]
      /\ UNCHANGED <<status, interest, told, cut>>
  BY <1>1 DEF OpenConversation, At, RacesInv, IInv
<1>3. r \in Requests
  BY <1>1, <1>2, AtWork DEF RacesInv
<1>4. /\ \A v \in Workers \ {w} : job'[v] = job[v]
      /\ job'[w].at = "notify" /\ job'[w].op = "select" /\ job'[w].r = r
      /\ job'[w].p = p /\ job'[w].notice = "selected" /\ job'[w].listed = {p}
  <2>1. job \in [Workers -> Jobs]
    BY <1>2 DEF HandlerTypeOK
  <2> QED BY <1>1, <1>2, <2>1 DEF Jobs
<1>5. \A q \in Requests :
        conversation'[q] = IF q = r THEN conversation[q] \cup {p} ELSE conversation[q]
  BY <1>2 DEF HandlerTypeOK, TypeOK
<1>6. TablesGrow
  BY <1>2, <1>5 DEF TablesGrow
<1>7. EndsWell(w) /\ RefusesWell(w)
  BY <1>2 DEF EndsWell, Over, Cancelling, RefusesWell, Refusing, TellsRefusal
<1>8. SelectsWell(w)
  BY <1>1, <1>2, <1>4 DEF SelectsWell, Selecting
<1>9. ListFits(w)' /\ ChatFits(w)' /\ CheckFits(w)'
  BY <1>3, <1>4, <1>5 DEF ListFits, ChatFits, CheckFits, HasListed, TellsRefusal
<1> QED BY <1>4, <1>6, <1>7, <1>8, <1>9 DEF StepsWell

LEMMA SavesWell ==
  ASSUME RacesInv, NEW w \in Workers, SaveRequest(w)
  PROVE  StepsWell(w)
<1>1. PICK r, outcome : r = job[w].r /\ outcome = job[w].outcome
  OBVIOUS
<1>2. /\ job[w].at = "save" /\ Fits(w) /\ HandlerTypeOK /\ job[w].op # "publish"
      /\ UNCHANGED <<interest, conversation, told>>
  BY DEF SaveRequest, At, RacesInv, IInv, Fits, PublishFits
<1>3. r \in Requests
  BY <1>1, <1>2, AtWork DEF RacesInv
<1>4. \A q, p : ~Cancelling(w, q) /\ ~Refusing(w, q, p)
  BY <1>2 DEF Cancelling, Refusing, TellsRefusal
<1>5. CASE SaveRefused(r)
  <2>1. /\ Finish(w) /\ status' = status
        /\ cut' = IF job[w].op = "select" THEN cut \cup {r} ELSE cut
    BY <1>1, <1>5 DEF SaveRequest
  <2>2. job'[w] = Idle /\ \A v \in Workers \ {w} : job'[v] = job[v]
    BY <1>2, <2>1, FinishedFits
  <2>3. TablesGrow
    BY <1>2, <2>1 DEF TablesGrow
  <2>4. EndsWell(w) /\ RefusesWell(w)
    BY <1>2, <1>4, <2>1 DEF EndsWell, RefusesWell, Over
  <2>5. SelectsWell(w)
    BY <1>1, <1>2, <2>1 DEF SelectsWell, Selecting
  <2> QED BY <2>2, <2>3, <2>4, <2>5, IdleFits DEF StepsWell
<1>6. CASE ~SaveRefused(r)
  <2>1. /\ status' = [status EXCEPT ![r] = outcome] /\ cut' = cut
        /\ IF job[w].op = "close" THEN Finish(w)
           ELSE Goto(w, CASE job[w].op = "select" -> "chat"
                          [] job[w].op = "cancel" -> "list"
                          [] OTHER -> "next")
    BY <1>1, <1>6 DEF SaveRequest
  <2>2. ASSUME NEW to \in {"chat", "list", "next"}, Goto(w, to)
        PROVE  /\ \A v \in Workers \ {w} : job'[v] = job[v]
               /\ job'[w].at = to /\ job'[w].op = job[w].op
               /\ job'[w].r = r /\ job'[w].p = job[w].p
    BY <1>1, <1>2, <2>2, GoneTo DEF Points
  <2>3. \/ job'[w] = Idle /\ job[w].op = "close"
        \/ /\ job'[w].op = job[w].op /\ job'[w].r = r /\ job'[w].p = job[w].p
           /\ job'[w].at \in {"chat", "list", "next"}
           /\ job[w].op = "cancel" => job'[w].at = "list"
           /\ job[w].op = "select" => job'[w].at = "chat"
    BY <1>2, <2>1, <2>2, FinishedFits
  <2>4. \A v \in Workers \ {w} : job'[v] = job[v]
    BY <1>2, <2>1, <2>2, FinishedFits
  <2>5. TablesGrow
    BY <1>2, <2>1 DEF TablesGrow
  <2>6. EndsWell(w)
    <3>1. ASSUME NEW q \in Requests, Over(q)', ~Over(q)
          PROVE  Cancelling(w, q)' \/ (job[w].r = q /\ HasListed(w))
      <4>1. q = r /\ outcome # "partially_filled"
        BY <1>2, <1>3, <2>1, <3>1 DEF Over, HandlerTypeOK, TypeOK
      <4>2. CASE job[w].op = "cancel"
        BY <2>3, <4>1, <4>2 DEF Cancelling
      <4>3. CASE job[w].op # "cancel"
        BY <1>1, <1>2, <4>1, <4>3 DEF HasListed
      <4> QED BY <4>2, <4>3
    <3> QED BY <1>2, <1>4, <3>1 DEF EndsWell
  <2>7. RefusesWell(w)
    BY <1>2, <1>4 DEF RefusesWell
  <2>8. SelectsWell(w)
    BY <1>1, <1>2, <2>3 DEF SelectsWell, Selecting
  <2>9. ListFits(w)' /\ ChatFits(w)' /\ CheckFits(w)'
    BY <1>2, <2>3, IdleFits, NothingToFit
  <2> QED BY <2>4, <2>5, <2>6, <2>7, <2>8, <2>9 DEF StepsWell
<1> QED BY <1>5, <1>6

-----------------------------------------------------------------------------
(* So do all of them.                                                      *)

\* A request comes to be by its own INSERT, and nothing else does then.
LEMMA Births ==
  ASSUME RacesInv, Races, NEW r \in Requests, status[r] = "none", status'[r] # "none"
  PROVE  /\ \E w \in Workers : /\ job[w].op = "publish" /\ job[w].r = r
                               /\ publishedAt'[r] = job[w].stamp
         /\ \A q \in Requests \ {r} : status'[q] = status[q]
<1> DEFINE Born ==
      /\ \E w \in Workers : /\ job[w].op = "publish" /\ job[w].r = r
                            /\ publishedAt'[r] = job[w].stamp
      /\ \A q \in Requests \ {r} : status'[q] = status[q]
<1>0. status \in [Requests -> RequestStatus] /\ publishedAt \in [Requests -> Nat]
  BY DEF RacesInv, IInv, HandlerTypeOK, TypeOK
<1>1. ASSUME NEW w \in Workers, InsertRequest(w) PROVE Born
  <2>1. /\ job[w].op = "publish"
        /\ status' = [status EXCEPT ![job[w].r] = "open"]
        /\ publishedAt' = [publishedAt EXCEPT ![job[w].r] = job[w].stamp]
    BY <1>1 DEF InsertRequest, At
  <2>2. job[w].r = r
    BY <1>0, <2>1
  <2> QED BY <1>0, <2>1, <2>2
<1>2. ASSUME NEW w \in Workers, SaveRequest(w) PROVE FALSE
  <2>1. /\ job[w].at = "save" /\ Fits(w)
        /\ status' = status \/ status' = [status EXCEPT ![job[w].r] = job[w].outcome]
    BY <1>2 DEF SaveRequest, At, RacesInv, IInv
  <2>2. status[job[w].r] # "none"
    <3>1. job[w].op # "publish"
      BY <2>1 DEF Fits, PublishFits
    <3> QED BY <2>1, <3>1, AtWork DEF RacesInv, Known
  <2> QED BY <1>0, <2>1, <2>2
<1>3. ASSUME NEW w \in Workers, Start(w) \/ Crash(w) PROVE FALSE
  BY <1>3 DEF Start, Crash, StartPublish, StartApply, StartWithdraw, StartSelect, StartClose,
     StartCancel, StartSweep, ToldSome, OnlyJob, tables
<1>4. ASSUME NEW w \in Workers,
             \/ InsertInterest(w) \/ LoadRequest(w) \/ SaveWithdrawn(w) \/ SaveSelected(w)
             \/ CountSelected(w) \/ ListRemaining(w) \/ UpdateRemaining(w) \/ Notify(w)
             \/ OpenConversation(w) \/ NextDue(w)
      PROVE  FALSE
  BY <1>4 DEF InsertInterest, LoadRequest, SaveWithdrawn, SaveSelected, CountSelected,
     ListRemaining, UpdateRemaining, Notify, OpenConversation, NextDue, OnlyJob,
     OnlyInterest, tables
<1>5. CASE UNCHANGED vars \/ HandlerTick
  BY <1>5 DEF vars, tables, HandlerTick, Tick
<1> QED BY <1>1, <1>2, <1>3, <1>4, <1>5 DEF Races, Next, Step

\* What is noted of a step is of requests, professionals and pairs of them.
LEMMA NotesFit ==
  ASSUME RacesInv, [RacesNext]_racesVars
  PROVE  RacesTypeOK' /\ IInv'
<1>1. [Next]_vars
  BY DEF RacesNext, racesVars, Next
<1>2. IInv'
  BY <1>1, Inductive DEF RacesInv
<1>3. HandlerTypeOK' /\ RacesTypeOK
  BY <1>2 DEF IInv, RacesInv
<1>4. CASE UNCHANGED racesVars
  BY <1>2, <1>3, <1>4 DEF RacesTypeOK, racesVars, noted
<1>5. CASE RacesNext
  <2>1. Note
    BY <1>5 DEF RacesNext
  <2>2. /\ late' \subseteq Requests \X Professionals
        /\ crossed' \subseteq Requests \X Requests /\ revived' \subseteq Requests
        /\ complete' \subseteq Requests
    BY <1>3, <2>1 DEF Note, RacesTypeOK
  <2>3. ASSUME NEW w \in Workers, Owes(w) PROVE job[w].r \in Requests
    <3>1. Fits(w)
      BY DEF RacesInv, IInv
    <3>2. CASE job[w].op = "cancel" \/ job[w].op = "select"
      <4>1. job[w].at # "next"
        BY <2>3, <3>1, <3>2 DEF Fits, SelectFits, Owes
      <4> QED BY <3>1, <3>2, <4>1 DEF Fits, RequestFits, Known
    <3>3. CASE job[w].at = "notify"
      <4>1. job[w].op # "publish"
        BY <3>1, <3>3 DEF Fits, PublishFits
      <4> QED BY <3>3, <4>1, AtWork DEF RacesInv
    <3> QED BY <2>3, <3>2, <3>3 DEF Owes
  <2>4. abandoned' \subseteq Requests
    BY <1>3, <1>5, <2>3 DEF RacesNext, RacesTypeOK
  <2>5. HandlerTypeOK'
    BY <1>3
  <2> QED BY <1>2, <2>2, <2>4, <2>5 DEF RacesTypeOK
<1> QED BY <1>2, <1>4, <1>5

\* A step of one worker.
LEMMA OneActs ==
  ASSUME RacesInv, Races, RacesTypeOK', IInv', NEW w \in Workers, StepsWell(w)
  PROVE  RacesInv'
<1>1. NobodyForgotten' /\ RefusedAreTold' /\ SelectedAreTold'
  BY ForgottenKept, RefusedKept, SelectedKept
<1>2. TwinsCrossed'
  BY Births, TwinsKept
<1>3. ASSUME NEW v \in Workers PROVE ListFits(v)' /\ ChatFits(v)' /\ CheckFits(v)'
  <2>1. CASE v = w
    BY <2>1 DEF StepsWell
  <2>2. CASE v # w
    <3>1. job'[v] = job[v]
      BY <2>2 DEF StepsWell
    <3>2. ListFits(v)' /\ CheckFits(v)'
      BY <3>1, OthersListed, OthersChecked
    <3>3. ChatFits(v)'
      <4>1. job[v].op = "select" /\ job[v].at = "notify" => job[v].r \in Requests
        BY AtWork DEF RacesInv
      <4> QED BY <3>1, <4>1 DEF RacesInv, ChatFits, StepsWell, TablesGrow
    <3> QED BY <3>2, <3>3
  <2> QED BY <2>1, <2>2
<1>4. FullNoted'
  BY FullStaysNoted DEF RacesInv
<1> QED BY <1>1, <1>2, <1>3, <1>4 DEF RacesInv

\* A step of nobody.
LEMMA NobodyActs ==
  ASSUME RacesInv, Races, RacesTypeOK', IInv',
         UNCHANGED <<job, status, interest, conversation, told, cut>>
  PROVE  RacesInv'
<1>1. NobodyForgotten'
  BY Noted DEF RacesInv, NobodyForgotten, Over
<1>2. RefusedAreTold'
  BY Noted DEF RacesInv, RefusedAreTold, TellsRefusal
<1>3. SelectedAreTold'
  BY Noted DEF RacesInv, SelectedAreTold
<1>4. TwinsCrossed'
  BY Births, TwinsKept
<1>5. ASSUME NEW v \in Workers PROVE ListFits(v)' /\ ChatFits(v)' /\ CheckFits(v)'
  BY OthersListed, OthersChecked DEF RacesInv, ChatFits
<1>6. FullNoted'
  BY FullStaysNoted DEF RacesInv
<1> QED BY <1>1, <1>2, <1>3, <1>4, <1>5, <1>6 DEF RacesInv

LEMMA RacesInductive == RacesInv /\ [RacesNext]_racesVars => RacesInv'
<1> SUFFICES ASSUME RacesInv, [RacesNext]_racesVars PROVE RacesInv'
  OBVIOUS
<1>1. RacesTypeOK' /\ IInv'
  BY NotesFit
<1>2. CASE UNCHANGED racesVars
  <2>1. UNCHANGED vars /\ UNCHANGED noted
    BY <1>2 DEF racesVars
  <2>2. UNCHANGED <<job, status, interest, conversation, told, cut>>
    BY <2>1 DEF vars, tables
  <2>3. Note
    <3>1. interest' = interest
      BY <2>2
    <3> QED BY <2>1, <2>2, <3>1 DEF Note, noted, Over, Receiving, ReceivingStatus
  <2>4. Races
    BY <2>1, <2>3 DEF Races, noted
  <2> QED BY <1>1, <2>2, <2>4, NobodyActs
<1>3. CASE RacesNext
  <2>1. Races
    BY <1>3, RacesGoOn DEF RacesInv
  <2>2. CASE HandlerTick
    <3>1. UNCHANGED <<job, status, interest, conversation, told, cut>>
      BY <2>2 DEF HandlerTick, Tick, tables
    <3> QED BY <1>1, <2>1, <3>1, NobodyActs
  <2>3. ASSUME NEW w \in Workers, Start(w) PROVE RacesInv'
    BY <1>1, <2>1, <2>3, StartsWell, OneActs
  <2>4. ASSUME NEW w \in Workers, Step(w) PROVE RacesInv'
    <3>1. StepsWell(w)
      BY <2>1, <2>4, InsertsRequestWell, InsertsWell, LoadsWell, WithdrawsWell, ChoosesWell,
         CountsWell, ListsWell, UpdatesWell, NotifiesWell, SavesWell, ChatsWell, NextDueWell
      DEF Step
    <3> QED BY <1>1, <2>1, <3>1, OneActs
  <2>5. ASSUME NEW w \in Workers, Crash(w),
               abandoned' = IF Owes(w) THEN abandoned \cup {job[w].r} ELSE abandoned
        PROVE  RacesInv'
    BY <1>1, <2>1, <2>5, CrashesWell, OneActs
  <2> QED BY <1>3, <2>2, <2>3, <2>4, <2>5 DEF RacesNext
<1> QED BY <1>2, <1>3

LEMMA RacesStart == RacesInit => RacesInv
<1> SUFFICES ASSUME RacesInit PROVE RacesInv
  OBVIOUS
<1>1. IInv
  BY Starts DEF RacesInit
<1>2. /\ status = [r \in Requests |-> "none"]
      /\ interest = [r \in Requests |-> [p \in Professionals |-> "none"]]
      /\ job = [w \in Workers |-> Idle]
  BY DEF RacesInit, Init, InitTables
<1>3. RacesTypeOK
  BY <1>1 DEF RacesInit, RacesTypeOK, IInv
<1>4. NobodyForgotten /\ RefusedAreTold /\ SelectedAreTold /\ TwinsCrossed
  BY <1>2 DEF NobodyForgotten, RefusedAreTold, SelectedAreTold, TwinsCrossed, Receiving,
     ReceivingStatus
<1>5. \A w \in Workers : ListFits(w) /\ ChatFits(w) /\ CheckFits(w)
  BY <1>2, IdleJob DEF ListFits, ChatFits, CheckFits, HasListed, TellsRefusal
<1>6. FullNoted
  <2>1. \A r \in Requests : Selected(r) = {}
    BY <1>2 DEF Selected, Having
  <2> QED BY <2>1, FS_EmptySet, RequestAssumption DEF FullNoted
<1> QED BY <1>1, <1>3, <1>4, <1>5, <1>6 DEF RacesInv

-----------------------------------------------------------------------------
(* Filled requests were full.                                              *)

Counted == {"list", "update", "notify", "save", "chat"}

\* A job that is to save "filled" has counted a full request.
CountFits(w) ==
  job[w].at \in Counted /\ job[w].outcome = "filled" => job[w].r \in complete

FilledInv == RacesInv /\ FilledMeansEnough /\ \A w \in Workers : CountFits(w)

\* What a worker's step does to its own job that the count has no part in.
Carries(w) ==
  /\ \A v \in Workers \ {w} : job'[v] = job[v]
  /\ \/ job'[w].at \notin Counted
     \/ job'[w].outcome # "filled"
     \/ job[w].at \in Counted /\ job'[w].outcome = job[w].outcome /\ job'[w].r = job[w].r

LEMMA CarriedOn ==
  ASSUME FilledInv, complete \subseteq complete', NEW w \in Workers, Carries(w)
  PROVE  \A v \in Workers : CountFits(v)'
BY DEF FilledInv, CountFits, Carries

LEMMA FinishCarries ==
  ASSUME HandlerTypeOK, NEW w \in Workers, Finish(w)
  PROVE  Carries(w)
BY FinishedFits, IdleJob DEF Carries, Counted

LEMMA GotoCarries ==
  ASSUME HandlerTypeOK, NEW w \in Workers, NEW at \in Points, Goto(w, at),
         at \notin Counted \/ job[w].at \in Counted
  PROVE  Carries(w)
BY GoneTo DEF Carries

LEMMA StartCarries ==
  ASSUME HandlerTypeOK, NEW w \in Workers, Start(w)
  PROVE  Carries(w)
<1>1. job \in [Workers -> Jobs]
  BY DEF HandlerTypeOK
<1>2. ASSUME NEW op, NEW at \in {"insert", "load", "count"}, NEW r, NEW p,
             Begin(w, op, at, r, p)
      PROVE  Carries(w)
  BY <1>1, <1>2 DEF Begin, Idle, Carries, Counted
<1>3. ASSUME NEW r \in Requests, NEW d \in Windows, StartPublish(w, r, d)
      PROVE  Carries(w)
  BY <1>1, <1>3 DEF StartPublish, Idle, Carries, Counted
<1>4. ASSUME NEW r \in Requests, StartCancel(w, r) PROVE Carries(w)
  BY <1>1, <1>4 DEF StartCancel, Idle, Carries
<1>5. CASE StartSweep(w)
  BY <1>1, <1>5 DEF StartSweep, Idle, Carries, Counted
<1> QED BY <1>2, <1>3, <1>4, <1>5
    DEF Start, StartApply, StartWithdraw, StartSelect, StartClose

LEMMA StepCarries ==
  ASSUME HandlerTypeOK, NEW w \in Workers, Step(w), ~CountSelected(w)
  PROVE  Carries(w)
<1>1. job \in [Workers -> Jobs]
  BY DEF HandlerTypeOK
<1>2. CASE \/ InsertRequest(w) \/ InsertInterest(w) \/ SaveWithdrawn(w)
  BY <1>2, FinishCarries DEF InsertRequest, InsertInterest, SaveWithdrawn
<1>3. CASE LoadRequest(w) \/ SaveSelected(w)
  BY <1>3, FinishCarries, GotoCarries DEF LoadRequest, SaveSelected, Points, Counted
<1>4. CASE ListRemaining(w)
  <2>1. /\ job[w].at = "list"
        /\ job' = [job EXCEPT ![w].listed = Remaining(interest[job[w].r]), ![w].at = "update"]
    BY <1>4 DEF ListRemaining, At
  <2> QED BY <1>1, <2>1 DEF Carries, Counted, Jobs
<1>5. CASE UpdateRemaining(w)
  <2>1. PICK notice : job' = [job EXCEPT ![w].at = "notify", ![w].notice = notice]
    BY <1>5 DEF UpdateRemaining
  <2>2. job[w].at = "update"
    BY <1>5 DEF UpdateRemaining, At
  <2> QED BY <1>1, <2>1, <2>2 DEF Carries, Counted, Jobs
<1>6. CASE Notify(w)
  BY <1>6, FinishCarries, GotoCarries DEF Notify, At, Points, Counted
<1>7. CASE SaveRequest(w)
  <2>1. \/ Finish(w)
        \/ Goto(w, CASE job[w].op = "select" -> "chat"
                     [] job[w].op = "cancel" -> "list"
                     [] OTHER -> "next")
    BY <1>7 DEF SaveRequest
  <2>2. job[w].at \in Counted
    BY <1>7 DEF SaveRequest, At, Counted
  <2> QED BY <2>1, <2>2, FinishCarries, GotoCarries DEF Points
<1>8. CASE OpenConversation(w)
  <2>1. /\ job[w].at = "chat"
        /\ job' = [job EXCEPT ![w].at = "notify", ![w].listed = {job[w].p},
                              ![w].notice = "selected"]
    BY <1>8 DEF OpenConversation, At
  <2> QED BY <1>1, <2>1 DEF Carries, Counted, Jobs
<1>9. CASE NextDue(w)
  <2>1. CASE Finish(w)
    BY <2>1, FinishCarries
  <2>2. ASSUME NEW r, job' = [job EXCEPT ![w].r = r, ![w].at = "count",
                                         ![w].todo = job[w].todo \ {r}]
        PROVE  Carries(w)
    BY <1>1, <2>2 DEF Carries, Counted, Jobs
  <2> QED BY <1>9, <2>1, <2>2 DEF NextDue
<1> QED BY <1>2, <1>3, <1>4, <1>5, <1>6, <1>7, <1>8, <1>9 DEF Step

\* Only a count finds a request full, and only a save marks it as filled.
LEMMA FilledInductive == FilledInv /\ [RacesNext]_racesVars => FilledInv'
<1> SUFFICES ASSUME FilledInv, [RacesNext]_racesVars PROVE FilledInv'
  OBVIOUS
<1>1. RacesInv' /\ HandlerTypeOK /\ IInv
  BY RacesInductive DEF FilledInv, RacesInv, IInv
<1>2. complete \subseteq complete'
  BY DEF RacesNext, Note, racesVars, noted
<1>3. status \in [Requests -> RequestStatus] /\ job \in [Workers -> Jobs]
  BY <1>1 DEF HandlerTypeOK, TypeOK
<1>4. ASSUME NEW w \in Workers, CountSelected(w) PROVE \A v \in Workers : CountFits(v)'
  <2>1. PICK r, n : r = job[w].r /\ n = Cardinality(Selected(r))
    OBVIOUS
  <2>2. PICK end :
          end = IF job[w].op # "select" THEN EndStatus(r, n)
                ELSE IF Full(r, n) THEN "filled" ELSE "partially_filled"
    OBVIOUS
  <2>3. PICK to : to = IF job[w].op # "select" \/ Full(r, n) THEN "list" ELSE "save"
    OBVIOUS
  <2>4. PICK stamp : stamp = IF job[w].op = "sweep" THEN job[w].stamp ELSE now
    OBVIOUS
  <2>5. job' = [job EXCEPT ![w].outcome = end, ![w].stamp = stamp, ![w].at = to]
    BY <1>4, <2>1, <2>2, <2>3, <2>4 DEF CountSelected
  <2>6. r \in Requests
    BY <1>1, <1>4, <2>1, AtWork DEF CountSelected, At
  <2>7. end = "filled" => r \in complete
    <3>1. end = "filled" => Full(r, n)
      BY <2>2 DEF EndStatus
    <3> QED BY <2>1, <2>6, <3>1 DEF Full, FilledInv, RacesInv, FullNoted
  <2>8. job'[w].outcome = end /\ job'[w].r = r /\ \A v \in Workers \ {w} : job'[v] = job[v]
    BY <1>3, <2>1, <2>5 DEF Jobs
  <2> QED BY <1>2, <2>7, <2>8 DEF FilledInv, CountFits
<1>5. ASSUME NEW w \in Workers, SaveRequest(w) PROVE FilledMeansEnough'
  <2>1. /\ job[w].at \in Counted
        /\ status' = status \/ status' = [status EXCEPT ![job[w].r] = job[w].outcome]
    BY <1>5 DEF SaveRequest, At, Counted
  <2> QED BY <1>2, <1>3, <2>1 DEF FilledInv, CountFits, FilledMeansEnough
<1>6. ASSUME NEW w \in Workers, InsertRequest(w) PROVE FilledMeansEnough'
  BY <1>2, <1>3, <1>6 DEF InsertRequest, FilledInv, FilledMeansEnough
<1>7. ASSUME status' = status PROVE FilledMeansEnough'
  BY <1>2, <1>7 DEF FilledInv, FilledMeansEnough
<1>8. ASSUME NEW w \in Workers, Step(w) PROVE FilledMeansEnough' /\ \A v \in Workers : CountFits(v)'
  <2>1. \A v \in Workers : CountFits(v)'
    BY <1>1, <1>2, <1>4, <1>8, StepCarries, CarriedOn
  <2>2. CASE SaveRequest(w) \/ InsertRequest(w)
    BY <1>5, <1>6, <2>1, <2>2
  <2>3. CASE ~SaveRequest(w) /\ ~InsertRequest(w)
    <3>1. status' = status
      BY <1>8, <2>3 DEF Step, InsertInterest, LoadRequest, SaveWithdrawn, SaveSelected,
         CountSelected, ListRemaining, UpdateRemaining, Notify, OpenConversation, NextDue,
         OnlyJob, OnlyInterest, tables
    <3> QED BY <1>7, <2>1, <3>1
  <2> QED BY <2>1, <2>2, <2>3
<1>9. ASSUME NEW w \in Workers, Start(w) PROVE FilledMeansEnough' /\ \A v \in Workers : CountFits(v)'
  <2>1. status' = status
    BY <1>9 DEF Start, StartPublish, StartApply, StartWithdraw, StartSelect, StartClose,
       StartCancel, StartSweep, OnlyJob, tables
  <2> QED BY <1>1, <1>2, <1>7, <1>9, <2>1, StartCarries, CarriedOn
<1>10. ASSUME NEW w \in Workers, Crash(w) PROVE FilledMeansEnough' /\ \A v \in Workers : CountFits(v)'
  <2>1. status' = status /\ Finish(w)
    BY <1>10 DEF Crash, ToldSome, OnlyJob, tables
  <2> QED BY <1>1, <1>2, <1>7, <2>1, FinishCarries, CarriedOn
<1>11. CASE HandlerTick \/ UNCHANGED racesVars
  <2>1. status' = status /\ job' = job
    BY <1>11 DEF HandlerTick, Tick, racesVars, vars, tables
  <2>2. \A v \in Workers : CountFits(v)'
    BY <1>2, <2>1 DEF FilledInv, CountFits
  <2> QED BY <1>1, <1>7, <2>1, <2>2 DEF FilledInv
<1> QED BY <1>1, <1>8, <1>9, <1>10, <1>11 DEF RacesNext, FilledInv

LEMMA FilledStart == RacesInit => FilledInv
<1> SUFFICES ASSUME RacesInit PROVE FilledInv
  OBVIOUS
<1>1. FilledMeansEnough
  BY DEF RacesInit, Init, InitTables, FilledMeansEnough
<1>2. \A w \in Workers : CountFits(w)
  BY IdleJob DEF RacesInit, Init, CountFits, Counted
<1> QED BY <1>1, <1>2, RacesStart DEF FilledInv

-----------------------------------------------------------------------------
\* What is noted of the crossing steps is about requests and professionals of
\* the tables, and noting it disturbs neither tables nor jobs.
THEOREM RacesTypes == RacesSpec => []RacesTypeOK
<1>1. RacesInv => RacesTypeOK
  BY DEF RacesInv
<1> QED BY <1>1, RacesStart, RacesInductive, PTL DEF RacesSpec

\* A request is filled only if at one and the same moment as many were selected
\* for it as it asks for, however old the count (services.py:46) is when
\* "filled" is saved, and whatever was withdrawn meanwhile.
THEOREM Filled == RacesSpec => []FilledMeansEnough
<1>1. FilledInv => FilledMeansEnough
  BY DEF FilledInv
<1> QED BY <1>1, FilledStart, FilledInductive, PTL DEF RacesSpec

\* Nobody is left applied to a request that is over but who applied after its
\* applicants were listed, or was to be refused by a worker that stopped or is
\* still at it (_finalize_remaining_interests and its callers).
THEOREM Forgotten == RacesSpec => []NobodyForgotten
<1>1. RacesInv => NobodyForgotten
  BY DEF RacesInv
<1> QED BY <1>1, RacesStart, RacesInductive, PTL DEF RacesSpec

\* Whoever is refused is told of a refusal, but who applied after the applicants
\* were listed and those whom a worker that stopped, or is still at it, was to
\* tell (_finalize_remaining_interests).
THEOREM RefusalsTold == RacesSpec => []RefusedAreTold
<1>1. RacesInv => RefusedAreTold
  BY DEF RacesInv
<1> QED BY <1>1, RacesStart, RacesInductive, PTL DEF RacesSpec

\* Whoever is selected has a chat and is told so, unless clean refused the save
\* of the request or the worker stopped (select_interest).
THEOREM SelectionsTold == RacesSpec => []SelectedAreTold
<1>1. RacesInv => SelectedAreTold
  BY DEF RacesInv
<1> QED BY <1>1, RacesStart, RacesInductive, PTL DEF RacesSpec

\* The duplicate check (ServiceRequest.clean) lets two requests of a client in
\* one category receive interests within its window only when their
\* publications cross or a stale status revived one of them.
THEOREM TwinsHaveCrossed == RacesSpec => []TwinsCrossed
<1>1. RacesInv => TwinsCrossed
  BY DEF RacesInv
<1> QED BY <1>1, RacesStart, RacesInductive, PTL DEF RacesSpec
=============================================================================
