------------------------- MODULE Subscriptions_proofs -------------------------
(***************************************************************************)
(* The properties of Subscriptions for any number of workers, preapprovals *)
(* and changes, and any free limit.                                        *)
(***************************************************************************)
EXTENDS Subscriptions, FiniteSetTheorems, TLAPS

Jobs == [op : {"idle", "checkout", "cancel", "webhook", "boost", "publish"},
         at : {"start", "remote", "count", "save"},
         saw : Rows, notice : Bodies]

\* What a webhook was given is a notification, or a body the provider never
\* sent.
JobsHeard == \A w \in Workers : job[w].op = "webhook" => job[w].notice \in notices \cup Unsent

\* Somebody said the premium was authorised.
Granted == Paid \/ claimed

\* Wherever premium is written, or about to be, it was granted.
PaidFirst ==
  /\ sub.plan = "premium" => Granted
  /\ boosted => Granted
  /\ \A w \in Workers : job[w].saw.plan = "premium" => Granted
  /\ \A w \in Workers : job[w].op = "boost" => Granted

\* The notifications tell the changes of the provider, one each.
NoticesFit ==
  /\ \A n \in notices :
       /\ n.change <= changes[n.id]
       /\ n.change = changes[n.id] => n.status = remote[n.id]
       /\ n.status = "pending" => n.change = 1
       /\ n.status = "authorized" => n.change >= 2
  /\ \A k \in Preapprovals :
       /\ remote[k] = "none" <=> changes[k] = 0
       /\ remote[k] = "authorized" => WasAuthorized(k)
       /\ heard[k] <= changes[k]

\* Requests that are to be inserted, each counted on the free plan.
AboutToInsert == {w \in Workers : At(w, "publish", "save")}
CountedFit ==
  ~Granted => published + Cardinality(AboutToInsert) <= FreeLimit + Cardinality(Workers) - 1

IInv == TypeOK /\ JobsHeard /\ PaidFirst /\ NoticesFit /\ PremiumFollowsProvider /\ CountedFit

-----------------------------------------------------------------------------
(* The provider.                                                           *)

LEMMA BecomesTyped ==
  ASSUME TypeOK, NEW k \in Preapprovals, NEW status \in RemoteStatus, Becomes(k, status)
  PROVE  /\ remote' \in [Preapprovals -> RemoteStatus]
         /\ changes' \in [Preapprovals -> Nat]
         /\ notices' \subseteq Notices /\ notices \subseteq notices'
         /\ Paid => Paid'
         /\ posted' = posted
<1>1. [id |-> k, change |-> changes[k] + 1, status |-> status] \in Notices
  BY DEF TypeOK, Notices
<1>2. notices' = notices \cup {[id |-> k, change |-> changes[k] + 1, status |-> status]}
  BY DEF Becomes
<1>3. Paid => Paid'
  BY <1>2 DEF Paid, WasAuthorized
<1> QED BY <1>1, <1>2, <1>3 DEF Becomes, TypeOK

LEMMA BecomesFits ==
  ASSUME TypeOK, NoticesFit, NEW k \in Preapprovals, NEW status \in RemoteStatus,
         Becomes(k, status), heard' = heard, status # "none",
         status = "pending" => remote[k] = "none",
         status = "authorized" => remote[k] # "none"
  PROVE  NoticesFit'
<1> DEFINE news == [id |-> k, change |-> changes[k] + 1, status |-> status]
<1>1. /\ remote' = [remote EXCEPT ![k] = status]
      /\ changes' = [changes EXCEPT ![k] = @ + 1]
      /\ notices' = notices \cup {news}
  BY DEF Becomes
<1>2. /\ remote'[k] = status /\ changes'[k] = changes[k] + 1 /\ changes[k] \in Nat
      /\ \A j \in Preapprovals : j # k => remote'[j] = remote[j] /\ changes'[j] = changes[j]
  BY <1>1 DEF TypeOK
<1>3. \A n \in notices : n \in Notices
  BY DEF TypeOK
<1>4. ASSUME NEW n \in notices'
      PROVE  /\ n.change <= changes'[n.id]
             /\ n.change = changes'[n.id] => n.status = remote'[n.id]
             /\ n.status = "pending" => n.change = 1
             /\ n.status = "authorized" => n.change >= 2
  <2>1. CASE n = news
    <3>1. n.id = k /\ n.change = changes[k] + 1 /\ n.status = status
      BY <2>1
    <3>2. changes[k] = 0 <=> remote[k] = "none"
      BY DEF NoticesFit
    <3> QED BY <1>2, <3>1, <3>2
  <2>2. CASE n \in notices
    <3>1. n.id \in Preapprovals /\ n.change \in Nat
      BY <1>3, <2>2 DEF Notices
    <3> QED BY <1>2, <2>2, <3>1 DEF NoticesFit
  <2> QED BY <1>1, <2>1, <2>2
<1>5. ASSUME NEW j \in Preapprovals
      PROVE  /\ remote'[j] = "none" <=> changes'[j] = 0
             /\ remote'[j] = "authorized" => WasAuthorized(j)'
             /\ heard'[j] <= changes'[j]
  <2>1. WasAuthorized(j) => WasAuthorized(j)'
    BY <1>1 DEF WasAuthorized
  <2>2. CASE j # k
    BY <1>2, <2>1, <2>2 DEF NoticesFit
  <2>3. CASE j = k
    <3>0. news \in notices' /\ news.id = k /\ news.status = status
      BY <1>1
    <3>1. status = "authorized" => WasAuthorized(k)'
      <4> HIDE DEF news
      <4> QED BY <3>0 DEF WasAuthorized
    <3>2. heard[k] <= changes[k] /\ heard[k] \in Nat
      BY DEF NoticesFit, TypeOK
    <3> QED BY <1>2, <2>3, <3>1, <3>2
  <2> QED BY <2>2, <2>3
<1> QED BY <1>4, <1>5 DEF NoticesFit

\* A preapproval that stops being authorized has a change to be heard of.
LEMMA BecomesFollowed ==
  ASSUME TypeOK, NoticesFit, PremiumFollowsProvider, NEW k \in Preapprovals,
         NEW status \in RemoteStatus, Becomes(k, status),
         heard' = heard, sub' = sub, stale' = stale, unsent' = unsent
  PROVE  PremiumFollowsProvider'
<1>1. /\ remote' = [remote EXCEPT ![k] = status]
      /\ changes' = [changes EXCEPT ![k] = @ + 1]
      /\ notices \subseteq notices'
  BY DEF Becomes
<1>2. \A j \in Preapprovals : /\ WasAuthorized(j) => WasAuthorized(j)'
                              /\ changes'[j] >= changes[j]
                              /\ j # k => remote'[j] = remote[j]
                              /\ heard[j] \in Nat /\ changes[j] \in Nat /\ changes'[j] \in Nat
                              /\ heard[j] <= changes[j]
  BY <1>1 DEF WasAuthorized, TypeOK, NoticesFit
<1>3. changes'[k] = changes[k] + 1
  BY <1>1 DEF TypeOK
<1> SUFFICES ASSUME IsPremium(sub), ~stale, ~unsent
             PROVE  \/ \E j \in Preapprovals : remote'[j] = "authorized"
                    \/ \E j \in Preapprovals : WasAuthorized(j)' /\ heard'[j] < changes'[j]
  BY DEF PremiumFollowsProvider, IsPremium
<1>4. CASE \E j \in Preapprovals : remote[j] = "authorized"
  <2>1. PICK j \in Preapprovals : remote[j] = "authorized"
    BY <1>4
  <2>2. WasAuthorized(j)
    BY <2>1 DEF NoticesFit
  <2> QED BY <1>2, <1>3, <2>1, <2>2
<1>5. CASE \E j \in Preapprovals : WasAuthorized(j) /\ heard[j] < changes[j]
  BY <1>2, <1>5
<1> QED BY <1>4, <1>5 DEF PremiumFollowsProvider

-----------------------------------------------------------------------------
(* Types.                                                                  *)

LEMMA RowTypes ==
  /\ NewRow \in Rows
  /\ NoNotice \in Bodies
  /\ Idle \in Jobs
  /\ \A row \in Rows : /\ row.plan \in {"free", "premium"}
                       /\ row.id \in Preapprovals \cup {None}
                       /\ [NewRow EXCEPT !.id = row.id] \in Rows
                       /\ [row EXCEPT !.plan = "free", !.status = "cancelled"] \in Rows
  /\ \A row \in Rows, n \in Bodies : Noticed(row, n) \in Rows
  /\ \A n \in Bodies : /\ n.id \in Preapprovals \cup {None} /\ n.change \in Nat
                       /\ n.change > 0 => n \in Notices
                       /\ n \in Notices => n.change > 0 /\ n.id \in Preapprovals
<1>1. NewRow \in Rows
  BY DEF NewRow, Rows
<1>2. NoNotice \in Bodies /\ Idle \in Jobs
  <2>1. NoNotice \in Bodies
    BY DEF NoNotice, Bodies, Unsent
  <2> QED BY <1>1, <2>1 DEF Idle, Jobs
<1>3. \A row \in Rows : /\ row.plan \in {"free", "premium"}
                        /\ row.id \in Preapprovals \cup {None}
                        /\ [row EXCEPT !.plan = "free", !.status = "cancelled"] \in Rows
  BY DEF Rows
<1>4. \A row \in Rows : [NewRow EXCEPT !.id = row.id] \in Rows
  BY <1>1 DEF Rows
<1>5. ASSUME NEW n \in Bodies
      PROVE  /\ n.id \in Preapprovals \cup {None} /\ n.change \in Nat
             /\ n.change > 0 => n \in Notices
             /\ n \in Notices => n.change > 0 /\ n.id \in Preapprovals
  BY DEF Bodies, Notices, Unsent
<1>6. ASSUME NEW row \in Rows, NEW n \in Bodies PROVE Noticed(row, n) \in Rows
  <2>1. WithId(row, n) \in Rows
    BY <1>5 DEF WithId, Rows
  <2> HIDE DEF WithId
  <2> QED BY <2>1 DEF Noticed, Rows
<1> QED BY <1>1, <1>2, <1>3, <1>4, <1>5, <1>6

\* What a worker does with its job.
LEMMA JobTypes ==
  ASSUME TypeOK, NEW w \in Workers
  PROVE  /\ job \in [Workers -> Jobs]
         /\ Finish(w) => job' \in [Workers -> Jobs]
         /\ \A at \in {"remote", "count", "save"} : Goto(w, at) => job' \in [Workers -> Jobs]
         /\ \A op \in {"checkout", "cancel", "webhook", "boost", "publish"},
              at \in {"remote", "count", "save"}, saw \in Rows, n \in Bodies :
              Start(w, op, at, saw, n) => job' \in [Workers -> Jobs]
<1>1. job \in [Workers -> Jobs]
  BY DEF TypeOK, Jobs
<1>2. Finish(w) => job' \in [Workers -> Jobs]
  BY <1>1, RowTypes DEF Finish
<1>3. ASSUME NEW at \in {"remote", "count", "save"}, Goto(w, at) PROVE job' \in [Workers -> Jobs]
  <2>1. [job[w] EXCEPT !.at = at] \in Jobs
    BY <1>1 DEF Jobs
  <2>2. job' = [job EXCEPT ![w] = [job[w] EXCEPT !.at = at]]
    BY <1>3 DEF Goto
  <2> QED BY <1>1, <2>1, <2>2
<1>4. ASSUME NEW op \in {"checkout", "cancel", "webhook", "boost", "publish"},
             NEW at \in {"remote", "count", "save"}, NEW saw \in Rows,
             NEW n \in Bodies, Start(w, op, at, saw, n)
      PROVE  job' \in [Workers -> Jobs]
  <2>1. [op |-> op, at |-> at, saw |-> saw, notice |-> n] \in Jobs
    BY DEF Jobs
  <2> QED BY <1>1, <1>4, <2>1 DEF Start
<1> QED BY <1>1, <1>2, <1>3, <1>4

LEMMA TypesHold ==
  ASSUME TypeOK, JobsHeard, [Next]_vars
  PROVE  TypeOK' /\ (Granted => Granted') /\ notices \subseteq notices'
<1> DEFINE Good == TypeOK' /\ (Granted => Granted') /\ notices \subseteq notices'
<1>0. job' \in [Workers -> Jobs] /\ UNCHANGED <<sub, outside, boosted, published, history>> => Good
  BY DEF outside, history, TypeOK, Jobs, Granted, Paid, WasAuthorized
<1>1. ASSUME NEW k \in Preapprovals, ProviderActs(k) PROVE Good
  <2>1. \A status \in RemoteStatus : Becomes(k, status) =>
          /\ remote' \in [Preapprovals -> RemoteStatus]
          /\ changes' \in [Preapprovals -> Nat]
          /\ notices' \subseteq Notices /\ notices \subseteq notices'
          /\ Paid => Paid'
          /\ posted' = posted
    BY BecomesTyped
  <2>2. \E status \in RemoteStatus : Becomes(k, status)
    BY <1>1 DEF ProviderActs, RemoteStatus
  <2> QED BY <1>1, <2>1, <2>2 DEF ProviderActs, history, TypeOK, Granted
<1>2. ASSUME NEW w \in Workers, StartCheckout(w) PROVE Good
  <2>0. sub' = sub /\ boosted' = boosted /\ published' = published
        /\ UNCHANGED history
    BY <1>2 DEF StartCheckout
  <2>1. CASE UNCHANGED outside /\ Start(w, "checkout", "save", NewRow, NoNotice)
    <3>1. job' \in [Workers -> Jobs]
      BY <2>1, RowTypes, JobTypes
    <3> QED BY <1>0, <2>0, <2>1, <3>1
  <2>2. ASSUME NEW k \in Preapprovals, Becomes(k, "pending"),
               Start(w, "checkout", "save", NewRow, [id |-> k, change |-> 1, status |-> "pending"])
        PROVE  Good
    <3>1. "pending" \in RemoteStatus /\ [id |-> k, change |-> 1, status |-> "pending"] \in Bodies
      BY DEF RemoteStatus, Notices, Bodies
    <3>2. job' \in [Workers -> Jobs]
      BY <2>2, <3>1, RowTypes, JobTypes
    <3>3. /\ remote' \in [Preapprovals -> RemoteStatus]
          /\ changes' \in [Preapprovals -> Nat]
          /\ notices' \subseteq Notices /\ notices \subseteq notices'
          /\ Paid => Paid'
          /\ posted' = posted
      BY <2>2, <3>1, BecomesTyped
    <3> QED BY <2>0, <3>2, <3>3 DEF TypeOK, Jobs, Granted, history
  <2> QED BY <1>2, <2>1, <2>2 DEF StartCheckout
<1>3. ASSUME NEW w \in Workers, StartCancel(w) PROVE Good
  <2>1. [NewRow EXCEPT !.id = sub.id] \in Rows
    BY RowTypes DEF TypeOK
  <2>2. job' \in [Workers -> Jobs]
    BY <1>3, <2>1, RowTypes, JobTypes DEF StartCancel
  <2> QED BY <1>0, <1>3, <2>2 DEF StartCancel
<1>4. ASSUME NEW w \in Workers, StartBoost(w) PROVE Good
  <2>1. job' \in [Workers -> Jobs]
    BY <1>4, RowTypes, JobTypes DEF StartBoost
  <2> QED BY <1>0, <1>4, <2>1 DEF StartBoost
<1>5. ASSUME NEW w \in Workers, StartPublish(w) PROVE Good
  <2>1. job' \in [Workers -> Jobs]
    BY <1>5, RowTypes, JobTypes DEF StartPublish
  <2> QED BY <1>0, <1>5, <2>1 DEF StartPublish
<1>6. ASSUME NEW w \in Workers, NEW n \in notices \cup Posted, StartWebhook(w, n) PROVE Good
  <2>1. job' \in [Workers -> Jobs]
    <3>1. sub \in Rows /\ n \in Bodies
      BY SubscriptionsAssumption DEF TypeOK, Bodies
    <3> QED BY <1>6, <3>1, JobTypes DEF StartWebhook
  <2>2. posted' \in 0..MaxUnsent
    BY <1>6, SubscriptionsAssumption DEF StartWebhook, TypeOK
  <2> QED BY <1>6, <2>1, <2>2 DEF StartWebhook, history, TypeOK, Jobs, Granted, Paid, WasAuthorized
<1>7. ASSUME NEW w \in Workers, SaveCheckout(w) PROVE Good
  <2>1. job' \in [Workers -> Jobs]
    BY <1>7, JobTypes DEF SaveCheckout
  <2>2. sub' \in Rows
    <3>1. job[w].notice.id \in Preapprovals \cup {None}
      BY RowTypes DEF TypeOK
    <3> QED BY <1>7, <3>1 DEF SaveCheckout, TypeOK, Rows
  <2> QED BY <1>7, <2>1, <2>2 DEF SaveCheckout, outside, TypeOK, Jobs, Granted, Paid, WasAuthorized
<1>8. ASSUME NEW w \in Workers, CancelRemote(w) PROVE Good
  <2>1. job' \in [Workers -> Jobs]
    BY <1>8, JobTypes DEF CancelRemote
  <2>2. CASE UNCHANGED outside
    BY <1>0, <1>8, <2>1, <2>2 DEF CancelRemote
  <2>3. CASE job[w].saw.id # None /\ Becomes(job[w].saw.id, "cancelled")
    <3>1. job[w].saw.id \in Preapprovals /\ "cancelled" \in RemoteStatus
      BY <2>3 DEF TypeOK, Rows, RemoteStatus
    <3>2. /\ remote' \in [Preapprovals -> RemoteStatus]
          /\ changes' \in [Preapprovals -> Nat]
          /\ notices' \subseteq Notices /\ notices \subseteq notices'
          /\ Paid => Paid'
          /\ posted' = posted
      BY <2>3, <3>1, BecomesTyped
    <3> QED BY <1>8, <2>1, <3>2 DEF CancelRemote, history, TypeOK, Jobs, Granted
  <2> QED BY <1>8, <2>2, <2>3 DEF CancelRemote
<1>9. ASSUME NEW w \in Workers, SaveCancel(w) PROVE Good
  <2>1. job' \in [Workers -> Jobs]
    BY <1>9, JobTypes DEF SaveCancel
  <2>2. sub' \in Rows
    BY <1>9, RowTypes DEF SaveCancel, TypeOK
  <2> QED BY <1>9, <2>1, <2>2 DEF SaveCancel, outside, TypeOK, Jobs, Granted, Paid, WasAuthorized
<1>10. ASSUME NEW w \in Workers, SaveWebhook(w) PROVE Good
  <2>1. job' \in [Workers -> Jobs]
    BY <1>10, JobTypes DEF SaveWebhook
  <2>2. /\ job[w].notice \in Bodies /\ job[w].saw \in Rows /\ job[w].notice.change \in Nat
        /\ job[w].notice.change > 0 => job[w].notice.id \in Preapprovals
    BY RowTypes DEF TypeOK
  <2>3. sub' \in Rows
    BY <1>10, <2>2, RowTypes DEF SaveWebhook
  <2>4. stale' \in BOOLEAN /\ unsent' \in BOOLEAN /\ claimed' \in BOOLEAN /\ (claimed => claimed')
    <3>1. /\ stale' = (job[w].saw # sub
                        \/ (job[w].notice.change > 0
                              /\ job[w].notice.change < heard[job[w].notice.id])
                        \/ (stale /\ IsPremium(sub)))
          /\ unsent' = IF Gives(job[w].notice) \/ Takes(job[w].notice)
                         THEN ~(job[w].notice.change > 0) ELSE unsent
          /\ claimed' = (claimed \/ (Gives(job[w].notice) /\ ~(job[w].notice.change > 0)))
      BY <1>10 DEF SaveWebhook
    <3>2. unsent \in BOOLEAN
      BY DEF TypeOK
    <3> QED BY <3>1, <3>2, Zenon
  <2>5. heard' \in [Preapprovals -> Nat]
    BY <1>10, <2>2 DEF SaveWebhook, TypeOK
  <2>6. UNCHANGED <<outside, boosted, published>>
    BY <1>10 DEF SaveWebhook
  <2> QED BY <2>1, <2>3, <2>4, <2>5, <2>6 DEF outside, TypeOK, Jobs, Granted, Paid, WasAuthorized
<1>11. ASSUME NEW w \in Workers, CreateBoost(w) PROVE Good
  <2>1. job' \in [Workers -> Jobs]
    BY <1>11, JobTypes DEF CreateBoost
  <2> QED BY <1>11, <2>1 DEF CreateBoost, outside, history, TypeOK, Jobs, Granted, Paid, WasAuthorized
<1>12. ASSUME NEW w \in Workers, CountPublished(w) PROVE Good
  <2>1. job' \in [Workers -> Jobs]
    BY <1>12, JobTypes DEF CountPublished
  <2> QED BY <1>0, <1>12, <2>1 DEF CountPublished
<1>13. ASSUME NEW w \in Workers, InsertRequest(w) PROVE Good
  <2>1. job' \in [Workers -> Jobs]
    BY <1>13, JobTypes DEF InsertRequest
  <2>2. published' \in Nat
    BY <1>13 DEF InsertRequest, TypeOK
  <2> QED BY <1>13, <2>1, <2>2 DEF InsertRequest, outside, history, TypeOK, Jobs, Granted, Paid, WasAuthorized
<1>14. ASSUME NEW w \in Workers, Stop(w) PROVE Good
  <2>1. job' \in [Workers -> Jobs]
    BY <1>14, JobTypes DEF Stop
  <2> QED BY <1>0, <1>14, <2>1 DEF Stop
<1>15. CASE UNCHANGED vars
  BY <1>15 DEF vars, outside, history, TypeOK, Granted, Paid, WasAuthorized
<1> QED BY <1>1, <1>2, <1>3, <1>4, <1>5, <1>6, <1>7, <1>8, <1>9, <1>10, <1>11, <1>12, <1>13,
           <1>14, <1>15 DEF Next, Begin, Step
\* A step of a worker leaves the other jobs alone, and what its own job has
\* read.
LEMMA JobFields ==
  ASSUME TypeOK, NEW w \in Workers
  PROVE  /\ Finish(w) => \A v \in Workers : job'[v] = IF v = w THEN Idle ELSE job[v]
         /\ \A at : Goto(w, at) =>
              \A v \in Workers :
                /\ v # w => job'[v] = job[v]
                /\ job'[v].op = job[v].op /\ job'[v].saw = job[v].saw
                /\ job'[v].notice = job[v].notice
                /\ job'[w].at = at
         /\ \A op, at, saw, n : Start(w, op, at, saw, n) =>
              /\ job[w] = Idle
              /\ \A v \in Workers : v # w => job'[v] = job[v]
              /\ job'[w].op = op /\ job'[w].at = at /\ job'[w].saw = saw /\ job'[w].notice = n
<1>1. job \in [Workers -> Jobs]
  BY DEF TypeOK, Jobs
<1>2. Finish(w) => \A v \in Workers : job'[v] = IF v = w THEN Idle ELSE job[v]
  BY <1>1 DEF Finish
<1>3. ASSUME NEW at, Goto(w, at), NEW v \in Workers
      PROVE  /\ v # w => job'[v] = job[v]
             /\ job'[v].op = job[v].op /\ job'[v].saw = job[v].saw
             /\ job'[v].notice = job[v].notice
             /\ job'[w].at = at
  <2>1. /\ [job[w] EXCEPT !.at = at].op = job[w].op /\ [job[w] EXCEPT !.at = at].saw = job[w].saw
        /\ [job[w] EXCEPT !.at = at].notice = job[w].notice
        /\ [job[w] EXCEPT !.at = at].at = at
    BY <1>1 DEF Jobs
  <2>2. job' = [job EXCEPT ![w] = [job[w] EXCEPT !.at = at]]
    BY <1>3 DEF Goto
  <2> QED BY <1>1, <2>1, <2>2
<1>4. ASSUME NEW op, NEW at, NEW saw, NEW n, Start(w, op, at, saw, n)
      PROVE  /\ job[w] = Idle
             /\ \A v \in Workers : v # w => job'[v] = job[v]
             /\ job'[w].op = op /\ job'[w].at = at /\ job'[w].saw = saw /\ job'[w].notice = n
  <2>1. job[w] = Idle /\ job'[w] = [op |-> op, at |-> at, saw |-> saw, notice |-> n]
    BY <1>1, <1>4 DEF Start
  <2>2. \A v \in Workers : v # w => job'[v] = job[v]
    BY <1>1, <1>4 DEF Start
  <2> QED BY <2>1, <2>2
<1> QED BY <1>2, <1>3, <1>4

LEMMA HeardHolds ==
  ASSUME TypeOK, JobsHeard, notices \subseteq notices', [Next]_vars
  PROVE  JobsHeard'
<1>1. ASSUME NEW w \in Workers, Finish(w) PROVE JobsHeard'
  BY <1>1, JobFields DEF JobsHeard, Idle
<1>2. ASSUME NEW w \in Workers, NEW at, Goto(w, at) PROVE JobsHeard'
  BY <1>2, JobFields DEF JobsHeard
<1>3. ASSUME NEW w \in Workers, NEW op, NEW at, NEW saw, NEW n, Start(w, op, at, saw, n),
             op = "webhook" => n \in notices \cup Unsent
      PROVE  JobsHeard'
  <2>1. /\ \A v \in Workers : v # w => job'[v] = job[v]
        /\ job'[w].op = op /\ job'[w].notice = n
    BY <1>3, JobFields
  <2> QED BY <1>3, <2>1 DEF JobsHeard
<1>4. job' = job => JobsHeard'
  BY DEF JobsHeard
<1>5. \A k \in Preapprovals : ProviderActs(k) => job' = job
  BY DEF ProviderActs
<1>6. \A w \in Workers : Begin(w) =>
        \E op, at, saw, n : Start(w, op, at, saw, n) /\ (op = "webhook" => n \in notices \cup Unsent)
  <2> SUFFICES ASSUME NEW w \in Workers, Begin(w)
               PROVE  \E op, at, saw, n : /\ Start(w, op, at, saw, n)
                                          /\ op = "webhook" => n \in notices \cup Unsent
    OBVIOUS
  <2>1. CASE StartCheckout(w)
    <3>1. \E n : Start(w, "checkout", "save", NewRow, n)
      BY <2>1 DEF StartCheckout
    <3> QED BY <3>1
  <2>2. CASE StartCancel(w)
    <3>1. Start(w, "cancel", "remote", [NewRow EXCEPT !.id = sub.id], NoNotice)
      BY <2>2 DEF StartCancel
    <3> QED BY <3>1
  <2>3. CASE StartBoost(w)
    <3>1. Start(w, "boost", "save", NewRow, NoNotice)
      BY <2>3 DEF StartBoost
    <3> QED BY <3>1
  <2>4. CASE StartPublish(w)
    <3>1. Start(w, "publish", IF IsPremium(sub) THEN "save" ELSE "count", NewRow, NoNotice)
      BY <2>4 DEF StartPublish
    <3> QED BY <3>1
  <2>5. ASSUME NEW n \in notices \cup Posted, StartWebhook(w, n)
        PROVE  \E op, at, saw, m : /\ Start(w, op, at, saw, m)
                                   /\ op = "webhook" => m \in notices \cup Unsent
    <3>1. Start(w, "webhook", "save", sub, n)
      BY <2>5 DEF StartWebhook
    <3>2. n \in notices \cup Unsent
      BY SubscriptionsAssumption
    <3> QED BY <3>1, <3>2
  <2> QED BY <2>1, <2>2, <2>3, <2>4, <2>5 DEF Begin
<1>7. \A w \in Workers : Step(w) \/ Stop(w) => Finish(w) \/ \E at : Goto(w, at)
  BY DEF Step, Stop, SaveCheckout, CancelRemote, SaveCancel, SaveWebhook, CreateBoost,
         CountPublished, InsertRequest
<1>8. CASE UNCHANGED vars
  BY <1>4, <1>8 DEF vars
<1> QED BY <1>1, <1>2, <1>3, <1>4, <1>5, <1>6, <1>7, <1>8 DEF Next

-----------------------------------------------------------------------------
(* Premium is paid for.                                                    *)

LEMMA PaidHolds ==
  ASSUME TypeOK, JobsHeard, PaidFirst, Granted => Granted', [Next]_vars
  PROVE  PaidFirst'
<1> DEFINE JobsPaid == \A v \in Workers : job'[v].saw.plan = "premium" \/ job'[v].op = "boost" => Granted'
<1>1. ASSUME NEW w \in Workers, Finish(w) PROVE JobsPaid
  BY <1>1, JobFields DEF PaidFirst, Idle, NewRow
<1>2. ASSUME NEW w \in Workers, NEW at, Goto(w, at) PROVE JobsPaid
  BY <1>2, JobFields DEF PaidFirst
<1>3. ASSUME NEW w \in Workers, NEW op, NEW at, NEW saw, NEW n, Start(w, op, at, saw, n),
             saw.plan = "premium" \/ op = "boost" => Granted
      PROVE  JobsPaid
  <2>1. /\ \A v \in Workers : v # w => job'[v] = job[v]
        /\ job'[w].op = op /\ job'[w].saw = saw
    BY <1>3, JobFields
  <2> QED BY <1>3, <2>1 DEF PaidFirst
<1>4. job' = job => JobsPaid
  BY DEF PaidFirst
<1>5. JobsPaid /\ (sub'.plan = "premium" => Granted') /\ (boosted' => Granted') => PaidFirst'
  BY DEF PaidFirst
<1>6. sub' = sub /\ boosted' = boosted =>
        /\ sub'.plan = "premium" => Granted'
        /\ boosted' => Granted'
  BY DEF PaidFirst
<1>7. ASSUME NEW k \in Preapprovals, ProviderActs(k) PROVE PaidFirst'
  BY <1>4, <1>5, <1>6, <1>7 DEF ProviderActs
<1>8. ASSUME NEW w \in Workers, Begin(w) PROVE PaidFirst'
  <2>1. sub' = sub /\ boosted' = boosted
    BY <1>8 DEF Begin, StartCheckout, StartCancel, StartBoost, StartPublish, StartWebhook
  <2>2. CASE StartCheckout(w)
    <3>1. \E n : Start(w, "checkout", "save", NewRow, n)
      BY <2>2 DEF StartCheckout
    <3>2. NewRow.plan # "premium"
      BY DEF NewRow
    <3> QED BY <1>3, <1>5, <1>6, <2>1, <3>1, <3>2
  <2>3. CASE StartCancel(w)
    <3>1. Start(w, "cancel", "remote", [NewRow EXCEPT !.id = sub.id], NoNotice)
      BY <2>3 DEF StartCancel
    <3>2. [NewRow EXCEPT !.id = sub.id].plan # "premium"
      BY DEF NewRow
    <3> QED BY <1>3, <1>5, <1>6, <2>1, <3>1, <3>2
  <2>4. CASE StartBoost(w)
    <3>1. Start(w, "boost", "save", NewRow, NoNotice) /\ Granted
      BY <2>4 DEF StartBoost, IsPremium, PaidFirst
    <3> QED BY <1>3, <1>5, <1>6, <2>1, <3>1
  <2>5. CASE StartPublish(w)
    <3>1. Start(w, "publish", IF IsPremium(sub) THEN "save" ELSE "count", NewRow, NoNotice)
      BY <2>5 DEF StartPublish
    <3>2. NewRow.plan # "premium"
      BY DEF NewRow
    <3> QED BY <1>3, <1>5, <1>6, <2>1, <3>1, <3>2
  <2>6. ASSUME NEW n \in notices \cup Posted, StartWebhook(w, n) PROVE PaidFirst'
    <3>1. Start(w, "webhook", "save", sub, n) /\ (sub.plan = "premium" => Granted)
      BY <2>6 DEF StartWebhook, PaidFirst
    <3> QED BY <1>3, <1>5, <1>6, <2>1, <3>1
  <2> QED BY <1>8, <2>2, <2>3, <2>4, <2>5, <2>6 DEF Begin
<1>9. ASSUME NEW w \in Workers, Step(w) \/ Stop(w) PROVE PaidFirst'
  <2>1. JobsPaid
    <3>1. Finish(w) \/ \E at : Goto(w, at)
      BY <1>9 DEF Step, Stop, SaveCheckout, CancelRemote, SaveCancel, SaveWebhook, CreateBoost,
             CountPublished, InsertRequest
    <3> QED BY <1>1, <1>2, <3>1
  <2>2. boosted' => Granted'
    <3>1. CASE CreateBoost(w)
      BY <3>1 DEF CreateBoost, At, PaidFirst
    <3>2. CASE ~CreateBoost(w)
      <4>1. boosted' = boosted
        BY <1>9, <3>2 DEF Step, Stop, SaveCheckout, CancelRemote, SaveCancel, SaveWebhook,
               CountPublished, InsertRequest
      <4> QED BY <4>1 DEF PaidFirst
    <3> QED BY <3>1, <3>2
  <2>3. sub'.plan = "premium" => Granted'
    <3>1. CASE SaveWebhook(w)
      <4>1. /\ sub' = Noticed(job[w].saw, job[w].notice)
            /\ job[w].notice \in notices \cup Unsent /\ job[w].saw \in Rows
            /\ job[w].notice \in Bodies
        BY <3>1 DEF SaveWebhook, At, JobsHeard, TypeOK
      <4>2. CASE Gives(job[w].notice) /\ job[w].notice \in notices
        <5>1. job[w].notice.id \in Preapprovals
          BY <4>2 DEF TypeOK, Notices
        <5>2. job[w].notice \in notices'
          BY <3>1, <4>2 DEF SaveWebhook, outside
        <5> QED BY <4>2, <5>1, <5>2 DEF Gives, Granted, Paid, WasAuthorized
      <4>3. CASE Gives(job[w].notice) /\ job[w].notice \in Unsent
        <5>1. ~(job[w].notice.change > 0)
          BY <4>3 DEF Unsent
        <5> QED BY <3>1, <4>3, <5>1 DEF SaveWebhook, Granted
      <4>4. CASE ~Gives(job[w].notice)
        <5>1. WithId(job[w].saw, job[w].notice).plan = job[w].saw.plan
              /\ WithId(job[w].saw, job[w].notice) \in Rows
          BY <4>1, RowTypes DEF WithId, Rows
        <5>2. sub'.plan = "premium" => job[w].saw.plan = "premium"
          <6> HIDE DEF WithId
          <6> QED BY <4>1, <4>4, <5>1 DEF Noticed, Rows
        <5> QED BY <5>2 DEF PaidFirst
      <4> QED BY <4>1, <4>2, <4>3, <4>4
    <3>2. CASE SaveCheckout(w)
      <4>1. sub' = [sub EXCEPT !.id = job[w].notice.id, !.status = "past_due"]
        BY <3>2 DEF SaveCheckout
      <4>2. sub'.plan = sub.plan
        BY <4>1 DEF TypeOK, Rows
      <4> QED BY <4>2 DEF PaidFirst
    <3>3. CASE SaveCancel(w)
      <4>1. sub' = [sub EXCEPT !.plan = "free", !.status = "cancelled"]
        BY <3>3 DEF SaveCancel
      <4>2. sub'.plan = "free"
        BY <4>1 DEF TypeOK, Rows
      <4> QED BY <4>2
    <3>4. CASE ~(SaveWebhook(w) \/ SaveCheckout(w) \/ SaveCancel(w))
      <4>1. sub' = sub
        BY <1>9, <3>4 DEF Step, Stop, CancelRemote, CreateBoost, CountPublished, InsertRequest
      <4> QED BY <4>1 DEF PaidFirst
    <3> QED BY <3>1, <3>2, <3>3, <3>4
  <2> QED BY <1>5, <2>1, <2>2, <2>3
<1>10. CASE UNCHANGED vars
  BY <1>4, <1>5, <1>6, <1>10 DEF vars
<1> QED BY <1>7, <1>8, <1>9, <1>10 DEF Next
-----------------------------------------------------------------------------
(* Premium follows the provider.                                           *)

\* What a processed notification leaves.
LEMMA NoticeFollows ==
  ASSUME TypeOK, NoticesFit, PremiumFollowsProvider, NEW w \in Workers, SaveWebhook(w),
         job[w].notice \in notices
  PROVE  NoticesFit' /\ PremiumFollowsProvider'
<1>1. PICK n \in notices : n = job[w].notice
  OBVIOUS
<1>2. PICK k \in Preapprovals : k = n.id /\ n.change > 0 /\ n.id # None
  BY SubscriptionsAssumption DEF TypeOK, Notices
<1>3. /\ sub' = Noticed(job[w].saw, n)
      /\ stale' = (job[w].saw # sub \/ (n.change > 0 /\ n.change < heard[n.id])
                     \/ (stale /\ IsPremium(sub)))
      /\ unsent' = IF Gives(n) \/ Takes(n) THEN ~(n.change > 0) ELSE unsent
      /\ heard' = IF n.change > 0 /\ n.change > heard[n.id]
                    THEN [heard EXCEPT ![n.id] = n.change] ELSE heard
      /\ remote' = remote /\ changes' = changes /\ notices' = notices
  BY <1>1 DEF SaveWebhook, outside
<1>4. /\ n.change \in Nat /\ n.change <= changes[k] /\ heard[k] \in Nat /\ changes[k] \in Nat
      /\ heard[k] <= changes[k] /\ job[w].saw \in Rows
      /\ n.status = "pending" => n.change = 1
      /\ n.change = changes[k] => n.status = remote[k]
  BY <1>2 DEF TypeOK, Notices, NoticesFit
<1>5. /\ heard'[k] = IF n.change > heard[k] THEN n.change ELSE heard[k]
      /\ \A j \in Preapprovals : j # k => heard'[j] = heard[j]
  BY <1>2, <1>3 DEF TypeOK
<1>6. \A j \in Preapprovals : WasAuthorized(j)' <=> WasAuthorized(j)
  BY <1>3 DEF WasAuthorized
<1>7. NoticesFit'
  <2>1. \A j \in Preapprovals : heard'[j] <= changes'[j]
    BY <1>3, <1>4, <1>5 DEF NoticesFit
  <2> QED BY <1>3, <1>6, <2>1 DEF NoticesFit
<1>8. ASSUME IsPremium(sub)', ~stale', ~unsent'
      PROVE  \/ \E j \in Preapprovals : remote[j] = "authorized"
             \/ \E j \in Preapprovals : WasAuthorized(j) /\ heard'[j] < changes[j]
  <2>1. job[w].saw = sub /\ ~(n.change < heard[k]) /\ ~(stale /\ IsPremium(sub))
    BY <1>2, <1>3, <1>8
  <2>2. CASE Gives(n)
    <3>1. WasAuthorized(k)
      BY <1>2, <2>2 DEF WasAuthorized, Gives
    <3>2. CASE n.change = changes[k]
      BY <1>4, <2>2, <3>2 DEF Gives
    <3>3. CASE n.change # changes[k]
      BY <1>4, <1>5, <2>1, <3>1, <3>3
    <3> QED BY <3>2, <3>3
  <2>3. CASE Takes(n)
    <3>1. sub'.plan = "free"
      <4>1. WithId(job[w].saw, n) \in Rows
        BY <1>2, <1>4 DEF WithId, Rows
      <4>2. ~Gives(n)
        BY <2>3 DEF Gives, Takes
      <4> HIDE DEF WithId
      <4> QED BY <1>3, <2>3, <4>1, <4>2 DEF Noticed, Rows
    <3> QED BY <1>8, <3>1 DEF IsPremium
  <2>4. CASE ~Gives(n) /\ ~Takes(n)
    <3>1. n.status \in {"none", "pending"}
      BY <2>4 DEF TypeOK, Notices, RemoteStatus, Gives, Takes
    <3>2. sub' = [sub EXCEPT !.id = n.id]
      BY <1>2, <1>3, <2>1, <2>4 DEF Noticed, WithId
    <3>3. sub'.plan = sub.plan /\ sub'.status = sub.status
      BY <3>2 DEF TypeOK, Rows
    <3>4. IsPremium(sub) /\ ~stale /\ ~unsent
      BY <1>3, <1>8, <2>1, <2>4, <3>3 DEF IsPremium
    <3>5. CASE \E j \in Preapprovals : remote[j] = "authorized"
      BY <3>5
    <3>6. CASE \E j \in Preapprovals : WasAuthorized(j) /\ heard[j] < changes[j]
      <4>1. PICK j \in Preapprovals : WasAuthorized(j) /\ heard[j] < changes[j]
        BY <3>6
      <4>2. CASE j # k
        BY <1>5, <4>1, <4>2
      <4>3. CASE j = k
        <5>1. PICK m \in notices : m.id = k /\ m.status = "authorized"
          BY <4>1, <4>3 DEF WasAuthorized
        <5>2. changes[k] >= 2 /\ remote[k] # "none"
          <6>1. m.change \in Nat /\ m.change >= 2 /\ m.change <= changes[k]
            BY <5>1 DEF NoticesFit, TypeOK, Notices
          <6> QED BY <1>4, <6>1 DEF NoticesFit
        <5>3. n.change < changes[k]
          <6>1. CASE n.status = "pending"
            BY <1>4, <5>2, <6>1
          <6>2. CASE n.status = "none"
            BY <1>4, <5>2, <6>2
          <6> QED BY <3>1, <6>1, <6>2
        <5> QED BY <1>4, <1>5, <4>1, <4>3, <5>3
      <4> QED BY <4>2, <4>3
    <3> QED BY <3>4, <3>5, <3>6 DEF PremiumFollowsProvider
  <2> QED BY <2>2, <2>3, <2>4
<1>9. PremiumFollowsProvider'
  BY <1>3, <1>6, <1>8 DEF PremiumFollowsProvider
<1> QED BY <1>7, <1>9

\* A body the provider never sent changes no history of its notifications; if
\* it leaves premium as it was, so does it leave what excuses it.
LEMMA WebhookFollows ==
  ASSUME TypeOK, JobsHeard, NoticesFit, PremiumFollowsProvider, NEW w \in Workers, SaveWebhook(w)
  PROVE  NoticesFit' /\ PremiumFollowsProvider'
<1> DEFINE n == job[w].notice
<1>1. CASE n \in notices
  BY <1>1, NoticeFollows
<1>2. CASE n \in Unsent
  <2>1. ~(n.change > 0) /\ n \in Bodies /\ job[w].saw \in Rows
    BY <1>2 DEF Unsent, Bodies, TypeOK
  <2>2. /\ sub' = Noticed(job[w].saw, n)
        /\ stale' = (job[w].saw # sub \/ (stale /\ IsPremium(sub)))
        /\ unsent' = IF Gives(n) \/ Takes(n) THEN TRUE ELSE unsent
        /\ UNCHANGED <<remote, changes, notices, heard>>
    BY <2>1 DEF SaveWebhook, outside
  <2>3. NoticesFit' /\ (PremiumFollowsProvider /\ IsPremium(sub) /\ ~stale /\ ~unsent =>
                          PremiumFollowsProvider')
    BY <2>2 DEF NoticesFit, PremiumFollowsProvider, WasAuthorized
  <2>4. ASSUME IsPremium(sub)', ~stale', ~unsent'
        PROVE  IsPremium(sub) /\ ~stale /\ ~unsent
    <3>1. job[w].saw = sub /\ ~(stale /\ IsPremium(sub)) /\ ~Gives(n) /\ ~Takes(n) /\ ~unsent
      BY <2>2, <2>4
    <3>2. sub' = WithId(sub, n)
      BY <2>2, <3>1 DEF Noticed
    <3>3. sub'.plan = sub.plan /\ sub'.status = sub.status
      BY <2>1, <3>1, <3>2 DEF WithId, Rows
    <3> QED BY <2>4, <3>1, <3>3 DEF IsPremium
  <2>5. PremiumFollowsProvider'
    BY <2>3, <2>4 DEF PremiumFollowsProvider
  <2> QED BY <2>3, <2>5
<1> QED BY <1>1, <1>2 DEF SaveWebhook, At, JobsHeard

LEMMA FollowHolds ==
  ASSUME TypeOK, JobsHeard, NoticesFit, PremiumFollowsProvider, [Next]_vars
  PROVE  NoticesFit' /\ PremiumFollowsProvider'
<1>1. /\ UNCHANGED <<remote, changes, notices, heard>> => NoticesFit'
      /\ UNCHANGED <<remote, changes, notices, heard, sub, stale, unsent>> => PremiumFollowsProvider'
      /\ UNCHANGED <<remote, changes, notices, heard>> /\ ~IsPremium(sub)' => PremiumFollowsProvider'
  BY DEF NoticesFit, PremiumFollowsProvider, WasAuthorized, IsPremium
<1>2. ASSUME NEW k \in Preapprovals, NEW status \in RemoteStatus, Becomes(k, status),
             UNCHANGED <<heard, sub, stale, unsent>>, status # "none",
             status = "pending" => remote[k] = "none",
             status = "authorized" => remote[k] # "none"
      PROVE  NoticesFit' /\ PremiumFollowsProvider'
  BY <1>2, BecomesFits, BecomesFollowed
<1>3. ASSUME NEW k \in Preapprovals, ProviderActs(k) PROVE NoticesFit' /\ PremiumFollowsProvider'
  <2>1. UNCHANGED <<heard, sub, stale, unsent>>
    BY <1>3 DEF ProviderActs, history
  <2>2. \E status \in RemoteStatus \ {"none", "pending"} :
          Becomes(k, status) /\ (status = "authorized" => remote[k] # "none")
    BY <1>3 DEF ProviderActs, RemoteStatus
  <2> QED BY <1>2, <2>1, <2>2
<1>4. ASSUME NEW w \in Workers, StartCheckout(w) PROVE NoticesFit' /\ PremiumFollowsProvider'
  <2>1. UNCHANGED <<heard, sub, stale, unsent>>
    BY <1>4 DEF StartCheckout, history
  <2>2. CASE UNCHANGED outside
    BY <1>1, <2>1, <2>2 DEF outside
  <2>3. ASSUME NEW k \in Preapprovals, remote[k] = "none", Becomes(k, "pending")
        PROVE  NoticesFit' /\ PremiumFollowsProvider'
    BY <1>2, <2>1, <2>3 DEF RemoteStatus
  <2> QED BY <1>4, <2>2, <2>3 DEF StartCheckout
<1>5. ASSUME NEW w \in Workers, CancelRemote(w) PROVE NoticesFit' /\ PremiumFollowsProvider'
  <2>1. UNCHANGED <<heard, sub, stale, unsent>>
    BY <1>5 DEF CancelRemote, history
  <2>2. CASE UNCHANGED outside
    BY <1>1, <2>1, <2>2 DEF outside
  <2>3. CASE job[w].saw.id # None /\ Becomes(job[w].saw.id, "cancelled")
    <3>1. job[w].saw.id \in Preapprovals
      BY <2>3 DEF TypeOK, Rows
    <3> QED BY <1>2, <2>1, <2>3, <3>1 DEF RemoteStatus
  <2> QED BY <1>5, <2>2, <2>3 DEF CancelRemote
<1>6. ASSUME NEW w \in Workers, SaveCheckout(w) PROVE NoticesFit' /\ PremiumFollowsProvider'
  <2>1. sub' = [sub EXCEPT !.id = job[w].notice.id, !.status = "past_due"]
    BY <1>6 DEF SaveCheckout
  <2>2. sub'.status = "past_due"
    BY <2>1 DEF TypeOK, Rows
  <2> QED BY <1>1, <1>6, <2>2 DEF SaveCheckout, outside, IsPremium
<1>7. ASSUME NEW w \in Workers, SaveCancel(w) PROVE NoticesFit' /\ PremiumFollowsProvider'
  <2>1. sub' = [sub EXCEPT !.plan = "free", !.status = "cancelled"]
    BY <1>7 DEF SaveCancel
  <2>2. sub'.status = "cancelled"
    BY <2>1 DEF TypeOK, Rows
  <2> QED BY <1>1, <1>7, <2>2 DEF SaveCancel, outside, IsPremium
<1>8. \A w \in Workers : StartCancel(w) \/ StartBoost(w) \/ StartPublish(w) \/ CreateBoost(w)
                         \/ CountPublished(w) \/ InsertRequest(w) \/ Stop(w)
                         \/ (\E n \in notices \cup Posted : StartWebhook(w, n))
        => NoticesFit' /\ PremiumFollowsProvider'
  BY <1>1 DEF StartCancel, StartBoost, StartPublish, CreateBoost, CountPublished, InsertRequest,
              Stop, StartWebhook, outside, history
<1>9. CASE UNCHANGED vars
  BY <1>1, <1>9 DEF vars, outside, history
<1> QED BY <1>3, <1>4, <1>5, <1>6, <1>7, <1>8, <1>9, WebhookFollows DEF Next, Begin, Step

-----------------------------------------------------------------------------
(* The free limit.                                                         *)

LEMMA CountHolds ==
  ASSUME TypeOK, TypeOK', PaidFirst, CountedFit, Granted => Granted', [Next]_vars
  PROVE  CountedFit'
<1> DEFINE Set == AboutToInsert
<1>1. /\ IsFiniteSet(Workers) /\ Set \in SUBSET Workers /\ AboutToInsert' \in SUBSET Workers
      /\ IsFiniteSet(Set)
      /\ Cardinality(Set) \in Nat /\ Cardinality(AboutToInsert') \in Nat
      /\ Cardinality(Set) <= Cardinality(Workers)
      /\ Cardinality(AboutToInsert') <= Cardinality(Workers)
      /\ Cardinality(Workers) \in Nat
      /\ published \in Nat /\ published' \in Nat /\ FreeLimit \in Nat
  <2>1. IsFiniteSet(Workers) /\ Set \in SUBSET Workers /\ AboutToInsert' \in SUBSET Workers
        /\ published \in Nat /\ published' \in Nat /\ FreeLimit \in Nat
    BY SubscriptionsAssumption DEF AboutToInsert, TypeOK
  <2> QED BY <2>1, FS_Subset, FS_CardinalityType
<1> SUFFICES ASSUME ~Granted', ~Granted
             PROVE  published' + Cardinality(AboutToInsert')
                      <= FreeLimit + Cardinality(Workers) - 1
  BY DEF CountedFit
<1>2. published + Cardinality(Set) <= FreeLimit + Cardinality(Workers) - 1
  BY DEF CountedFit
<1>3. published' = published /\ AboutToInsert' \subseteq AboutToInsert
        => published' + Cardinality(AboutToInsert') <= FreeLimit + Cardinality(Workers) - 1
  <2> SUFFICES ASSUME published' = published, AboutToInsert' \subseteq AboutToInsert
               PROVE  Cardinality(AboutToInsert') <= Cardinality(Set)
    BY <1>1, <1>2
  <2> QED BY <1>1, FS_Subset
<1>4. ASSUME NEW w \in Workers, Finish(w) PROVE AboutToInsert' \subseteq AboutToInsert \ {w}
  BY <1>4, JobFields DEF AboutToInsert, At, Idle
<1>5. ASSUME NEW w \in Workers, NEW op, NEW at, NEW saw, NEW n, Start(w, op, at, saw, n),
             ~(op = "publish" /\ at = "save")
      PROVE  AboutToInsert' \subseteq AboutToInsert
  <2>1. /\ \A v \in Workers : v # w => job'[v] = job[v]
        /\ job'[w].op = op /\ job'[w].at = at
    BY <1>5, JobFields
  <2> QED BY <1>5, <2>1 DEF AboutToInsert, At
<1>6. ASSUME NEW w \in Workers, CountPublished(w)
      PROVE  published' + Cardinality(AboutToInsert') <= FreeLimit + Cardinality(Workers) - 1
  <2>1. published' = published
    BY <1>6 DEF CountPublished
  <2>2. CASE published >= FreeLimit
    BY <1>3, <1>4, <1>6, <2>1, <2>2 DEF CountPublished
  <2>3. CASE ~(published >= FreeLimit)
    BY <1>1, <2>1, <2>3
  <2> QED BY <2>2, <2>3
<1>7. ASSUME NEW w \in Workers, InsertRequest(w)
      PROVE  published' + Cardinality(AboutToInsert') <= FreeLimit + Cardinality(Workers) - 1
  <2>1. AboutToInsert' \subseteq AboutToInsert \ {w} /\ w \in AboutToInsert
    BY <1>4, <1>7 DEF InsertRequest, AboutToInsert
  <2>2. /\ Cardinality(Set \ {w}) = Cardinality(Set) - 1
        /\ IsFiniteSet(Set \ {w})
    BY <1>1, <2>1, FS_RemoveElement
  <2>3. Cardinality(AboutToInsert') <= Cardinality(Set \ {w})
    BY <2>1, <2>2, FS_Subset
  <2>4. published' <= published + 1
    BY <1>1, <1>7 DEF InsertRequest
  <2> QED BY <1>1, <1>2, <2>2, <2>3, <2>4
<1>8. ASSUME NEW w \in Workers, Begin(w)
      PROVE  published' = published /\ AboutToInsert' \subseteq AboutToInsert
  <2>1. published' = published
    BY <1>8 DEF Begin, StartCheckout, StartCancel, StartBoost, StartPublish, StartWebhook
  <2>2. \E op, at, saw, n : Start(w, op, at, saw, n) /\ ~(op = "publish" /\ at = "save")
    <3>1. CASE StartCheckout(w)
      <4>1. \E n : Start(w, "checkout", "save", NewRow, n)
        BY <3>1 DEF StartCheckout
      <4> QED BY <4>1
    <3>2. CASE StartCancel(w)
      <4>1. Start(w, "cancel", "remote", [NewRow EXCEPT !.id = sub.id], NoNotice)
        BY <3>2 DEF StartCancel
      <4> QED BY <4>1
    <3>3. CASE StartBoost(w)
      <4>1. Start(w, "boost", "save", NewRow, NoNotice)
        BY <3>3 DEF StartBoost
      <4> QED BY <4>1
    <3>4. CASE StartPublish(w)
      <4>1. ~IsPremium(sub)
        BY DEF PaidFirst, IsPremium
      <4>2. Start(w, "publish", "count", NewRow, NoNotice)
        BY <3>4, <4>1 DEF StartPublish
      <4> QED BY <4>2
    <3>5. CASE \E n \in notices \cup Posted : StartWebhook(w, n)
      <4>1. \E n : Start(w, "webhook", "save", sub, n)
        BY <3>5 DEF StartWebhook
      <4> QED BY <4>1
    <3> QED BY <1>8, <3>1, <3>2, <3>3, <3>4, <3>5 DEF Begin
  <2> QED BY <1>5, <2>1, <2>2
<1>9. ASSUME NEW w \in Workers,
             SaveCheckout(w) \/ SaveCancel(w) \/ SaveWebhook(w) \/ CreateBoost(w) \/ Stop(w)
      PROVE  published' = published /\ AboutToInsert' \subseteq AboutToInsert
  BY <1>4, <1>9 DEF SaveCheckout, SaveCancel, SaveWebhook, CreateBoost, Stop
<1>10. ASSUME NEW w \in Workers, CancelRemote(w)
       PROVE  published' = published /\ AboutToInsert' \subseteq AboutToInsert
  <2>1. Goto(w, "save") /\ published' = published /\ job[w].op = "cancel"
    BY <1>10 DEF CancelRemote, At
  <2>2. \A v \in Workers : v # w => job'[v] = job[v]
    BY <2>1, JobFields
  <2>3. job'[w].op = "cancel"
    BY <2>1, JobFields
  <2> QED BY <2>1, <2>2, <2>3 DEF AboutToInsert, At
<1>11. ASSUME UNCHANGED vars \/ \E k \in Preapprovals : ProviderActs(k)
       PROVE  published' = published /\ AboutToInsert' \subseteq AboutToInsert
  BY <1>11 DEF vars, ProviderActs, AboutToInsert, At
<1> QED BY <1>3, <1>6, <1>7, <1>8, <1>9, <1>10, <1>11 DEF Next, Step

-----------------------------------------------------------------------------
LEMMA Starts == Init => IInv
<1> SUFFICES ASSUME Init PROVE IInv
  OBVIOUS
<1>1. TypeOK
  <2>1. job \in [Workers -> Jobs] /\ sub \in Rows
    BY RowTypes DEF Init
  <2>2. remote \in [Preapprovals -> RemoteStatus] /\ notices \subseteq Notices
    BY DEF Init, RemoteStatus
  <2>3. /\ changes \in [Preapprovals -> Nat] /\ heard \in [Preapprovals -> Nat]
        /\ posted \in 0..MaxUnsent /\ published \in Nat
    BY SubscriptionsAssumption DEF Init
  <2>4. boosted \in BOOLEAN /\ stale \in BOOLEAN /\ unsent \in BOOLEAN /\ claimed \in BOOLEAN
    BY Zenon DEF Init
  <2> QED BY <2>1, <2>2, <2>3, <2>4 DEF TypeOK, Jobs
<1>2. JobsHeard /\ PaidFirst /\ PremiumFollowsProvider
  BY DEF Init, JobsHeard, PaidFirst, PremiumFollowsProvider, Idle, NewRow, IsPremium
<1>3. NoticesFit
  BY DEF Init, NoticesFit
<1>4. CountedFit
  <2>1. AboutToInsert = {}
    BY DEF Init, AboutToInsert, At, Idle
  <2>2. /\ Cardinality(AboutToInsert) = 0 /\ published = 0
        /\ Cardinality(Workers) \in Nat /\ FreeLimit \in Nat \ {0}
    BY <2>1, FS_EmptySet, FS_CardinalityType, SubscriptionsAssumption DEF Init
  <2> QED BY <2>2 DEF CountedFit
<1> QED BY <1>1, <1>2, <1>3, <1>4 DEF IInv

LEMMA Inductive == IInv /\ [Next]_vars => IInv'
<1> SUFFICES ASSUME IInv, [Next]_vars PROVE IInv'
  OBVIOUS
<1>1. TypeOK' /\ (Granted => Granted') /\ notices \subseteq notices'
  BY TypesHold DEF IInv
<1> QED BY <1>1, HeardHolds, PaidHolds, FollowHolds, CountHolds DEF IInv

\* The row, the requests and the provider hold what the model says.
THEOREM SubscriptionTypes == Spec => []TypeOK
<1>1. IInv => TypeOK
  BY DEF IInv
<1> QED BY <1>1, Starts, Inductive, PTL DEF Spec

\* Premium and boosts only after the provider authorised a preapproval, or
\* after a body it never sent said so, in whatever order notifications and
\* requests come (handle_webhook and the views).
THEOREM WasPaid == Spec => []PremiumWasPaid
<1>1. IInv => PremiumWasPaid
  BY DEF IInv, PaidFirst, PremiumWasPaid, IsPremium, Granted
<1> QED BY <1>1, Starts, Inductive, PTL DEF Spec

\* Premium ends with the authorisation, unless a newer notification is still
\* to come, an old one was processed late, or the plan comes from a body the
\* provider never sent (handle_webhook writes the status it is given, not the
\* provider's).
THEOREM Follows == Spec => []PremiumFollowsProvider
<1>1. IInv => PremiumFollowsProvider
  BY DEF IInv
<1> QED BY <1>1, Starts, Inductive, PTL DEF Spec

\* While nobody said the premium was authorised, concurrent publications pass
\* the free limit by one less than the workers (can_client_publish_request
\* counts before the INSERT).
THEOREM FreePlan == Spec => []FreePlanRespected
<1>1. IInv => FreePlanRespected
  <2>1. IsFiniteSet(Workers) /\ AboutToInsert \in SUBSET Workers
    BY SubscriptionsAssumption DEF AboutToInsert
  <2>2. /\ Cardinality(AboutToInsert) \in Nat
        /\ Cardinality(Workers) \in Nat
    BY <2>1, FS_Subset, FS_CardinalityType
  <2> QED BY <2>2, SubscriptionsAssumption DEF IInv, CountedFit, FreePlanRespected, TypeOK, Granted
<1> QED BY <1>1, Starts, Inductive, PTL DEF Spec
=============================================================================
