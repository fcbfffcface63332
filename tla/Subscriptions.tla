---------------------------- MODULE Subscriptions ----------------------------
(***************************************************************************)
(* The subscription of one user (apps/subscriptions), the payment provider *)
(* that keeps its preapprovals and notifies their changes, and what the    *)
(* premium plan allows: boosts, and publications past the free limit.      *)
(*                                                                         *)
(* A request is a job of a worker, one step per statement on the database  *)
(* and per call of the provider.  A notification may come late, again and  *)
(* out of order; and as the webhook asks nobody who he is, the body it is  *)
(* given need not be a notification of the provider at all.                *)
(*                                                                         *)
(*   checkout  (create: the start) save                                    *)
(*   cancel    (read: the start) remote, save                              *)
(*   webhook   (read: the start) save                                      *)
(*   boost     (check: the start) save                                     *)
(*   publish   (plan: the start) count, save                               *)
(***************************************************************************)
EXTENDS Integers, FiniteSets

CONSTANTS
  Workers,       \* requests the server can have under way
  Preapprovals,  \* what the provider may create for the user
  MaxChanges,    \* bound: changes of all preapprovals
  Posted,        \* bodies that may be posted though the provider never sent them
  MaxUnsent,     \* bound: how many of them are
  FreeLimit,     \* FREE_MONTHLY_REQUEST_LIMIT
  None

VARIABLES
  sub,        \* the row: plan, status, preapproval id
  remote,     \* the provider: status of a preapproval
  changes,    \* the provider: number of its changes, each notified
  notices,    \* notifications sent so far
  posted,     \* bodies posted that the provider never sent; the bound
  job,        \* of a worker: what it does and what it needs of the row it read
  boosted,    \* there is a Boost
  published,  \* requests of the last 30 days, which is all the time there is
  heard,      \* history: the last change of a preapproval that was processed
  stale,      \* history: the plan comes from a webhook that had read the row
              \* before another save, or whose notice was not the newest heard
  unsent,     \* history: the plan comes from a body the provider never sent
  claimed     \* history: such a body has said "authorized" at some time

outside == <<remote, changes, notices, posted>>
history == <<heard, stale, unsent, claimed>>
vars == <<sub, outside, job, boosted, published, history>>

Rows == [plan : {"free", "premium"}, status : {"active", "cancelled", "past_due"},
         id : Preapprovals \cup {None}]
RemoteStatus == {"none", "pending", "authorized", "paused", "cancelled"}
Notices == [id : Preapprovals, change : Nat \ {0}, status : RemoteStatus]

\* Bodies the provider never sent, by what handle_webhook tells apart: with an
\* id or without, and a status that gives premium, takes it, or neither.
Unsent == [id : Preapprovals \cup {None}, change : {0},
           status : {"authorized", "cancelled", "none"}]
Bodies == Notices \cup Unsent

ASSUME SubscriptionsAssumption ==
  /\ IsFiniteSet(Workers)
  /\ MaxChanges \in Nat /\ MaxUnsent \in Nat /\ FreeLimit \in Nat \ {0}
  /\ None \notin Preapprovals
  /\ Posted \subseteq Unsent

NewRow == [plan |-> "free", status |-> "active", id |-> None]
NoNotice == [id |-> None, change |-> 0, status |-> "none"]
Idle == [op |-> "idle", at |-> "start", saw |-> NewRow, notice |-> NoNotice]

TypeOK ==
  /\ sub \in Rows
  /\ remote \in [Preapprovals -> RemoteStatus]
  /\ changes \in [Preapprovals -> Nat]
  /\ notices \subseteq Notices
  /\ posted \in 0..MaxUnsent
  /\ job \in [Workers -> [op : {"idle", "checkout", "cancel", "webhook", "boost", "publish"},
                          at : {"start", "remote", "count", "save"},
                          saw : Rows, notice : Bodies]]
  /\ boosted \in BOOLEAN
  /\ published \in Nat
  /\ heard \in [Preapprovals -> Nat]
  /\ stale \in BOOLEAN /\ unsent \in BOOLEAN /\ claimed \in BOOLEAN

\* The row is made by the first for_user.
Init ==
  /\ sub = NewRow
  /\ remote = [k \in Preapprovals |-> "none"]
  /\ changes = [k \in Preapprovals |-> 0]
  /\ notices = {}
  /\ posted = 0
  /\ job = [w \in Workers |-> Idle]
  /\ boosted = FALSE
  /\ published = 0
  /\ heard = [k \in Preapprovals |-> 0]
  /\ stale = FALSE /\ unsent = FALSE /\ claimed = FALSE

IsPremium(row) == row.plan = "premium" /\ row.status = "active"

At(w, op, at) == job[w].op = op /\ job[w].at = at
Goto(w, at) == job' = [job EXCEPT ![w].at = at]
Finish(w) == job' = [job EXCEPT ![w] = Idle]
Start(w, op, at, saw, notice) ==
  /\ job[w] = Idle
  /\ job' = [job EXCEPT ![w] = [op |-> op, at |-> at, saw |-> saw, notice |-> notice]]

-----------------------------------------------------------------------------
(* The provider.                                                           *)

Becomes(k, status) ==
  /\ Cardinality(notices) < MaxChanges                             \* bound
  /\ remote' = [remote EXCEPT ![k] = status]
  /\ changes' = [changes EXCEPT ![k] = @ + 1]
  /\ notices' = notices \cup {[id |-> k, change |-> changes[k] + 1, status |-> status]}
  /\ posted' = posted

ProviderActs(k) ==
  /\ \/ remote[k] \in {"pending", "paused"} /\ Becomes(k, "authorized")
     \/ remote[k] = "authorized" /\ Becomes(k, "paused")
     \/ remote[k] \in {"pending", "authorized", "paused"} /\ Becomes(k, "cancelled")
  /\ UNCHANGED <<sub, job, boosted, published, history>>

-----------------------------------------------------------------------------
(* Checkout.                                                               *)

\* With signups on and the provider configured; it creates a preapproval, or
\* answers without one.
StartCheckout(w) ==
  /\ \/ \E k \in Preapprovals :
          /\ remote[k] = "none"
          /\ Becomes(k, "pending")
          /\ Start(w, "checkout", "save", NewRow, [id |-> k, change |-> 1, status |-> "pending"])
     \/ UNCHANGED outside /\ Start(w, "checkout", "save", NewRow, NoNotice)
  /\ UNCHANGED <<sub, boosted, published, history>>

\* Mutant: the plan starts with the checkout.
SaveTrial(w) ==
  /\ At(w, "checkout", "save")
  /\ sub' = [plan |-> "premium", status |-> "active", id |-> job[w].notice.id]
  /\ stale' = FALSE /\ unsent' = FALSE
  /\ Finish(w)
  /\ UNCHANGED <<outside, boosted, published, heard, claimed>>

\* Past due until a notification says otherwise, whatever it was before.
SaveCheckout(w) ==
  /\ At(w, "checkout", "save")
  /\ sub' = [sub EXCEPT !.id = job[w].notice.id, !.status = "past_due"]
  /\ stale' = FALSE /\ unsent' = FALSE
  /\ Finish(w)
  /\ UNCHANGED <<outside, boosted, published, heard, claimed>>

-----------------------------------------------------------------------------
(* Cancellation.                                                           *)

StartCancel(w) ==
  /\ Start(w, "cancel", "remote", [NewRow EXCEPT !.id = sub.id], NoNotice)
  /\ UNCHANGED <<sub, outside, boosted, published, history>>

\* The provider is asked to cancel what the row named; its refusal is logged
\* and no more.
CancelRemote(w) ==
  LET k == job[w].saw.id IN
  /\ At(w, "cancel", "remote")
  /\ \/ k # None /\ remote[k] \notin {"none", "cancelled"} /\ Becomes(k, "cancelled")
     \/ UNCHANGED outside
  /\ Goto(w, "save")
  /\ UNCHANGED <<sub, boosted, published, history>>

SaveCancel(w) ==
  /\ At(w, "cancel", "save")
  /\ sub' = [sub EXCEPT !.plan = "free", !.status = "cancelled"]
  /\ stale' = FALSE /\ unsent' = FALSE
  /\ Finish(w)
  /\ UNCHANGED <<outside, boosted, published, heard, claimed>>

-----------------------------------------------------------------------------
(* Notifications of the provider, and bodies that look like one.           *)

\* Any body that names this user; nothing asks where it comes from.
StartWebhook(w, n) ==
  /\ \/ n \in notices /\ posted' = posted
     \/ n \in Posted /\ posted < MaxUnsent /\ posted' = posted + 1  \* bound
  /\ Start(w, "webhook", "save", sub, n)
  /\ UNCHANGED <<sub, remote, changes, notices, boosted, published, history>>

Gives(n) == n.status = "authorized"
Takes(n) == n.status \in {"cancelled", "paused"}
WithId(row, n) == [row EXCEPT !.id = IF n.id = None THEN @ ELSE n.id]

\* Mutant: a pause leaves the plan.
NoticedUnpaused(row, n) ==
  CASE Gives(n) -> [WithId(row, n) EXCEPT !.plan = "premium", !.status = "active"]
    [] n.status = "cancelled" -> [WithId(row, n) EXCEPT !.plan = "free", !.status = "cancelled"]
    [] OTHER -> WithId(row, n)

Noticed(row, n) ==
  CASE Gives(n) -> [WithId(row, n) EXCEPT !.plan = "premium", !.status = "active"]
    [] Takes(n) -> [WithId(row, n) EXCEPT !.plan = "free", !.status = "cancelled"]
    [] OTHER -> WithId(row, n)

\* save() writes the whole row as it was read and changed.
SaveWebhook(w) ==
  LET n == job[w].notice
      sent == n.change > 0
  IN
  /\ At(w, "webhook", "save")
  /\ sub' = Noticed(job[w].saw, n)
  /\ stale' = \/ job[w].saw # sub
              \/ sent /\ n.change < heard[n.id]
              \/ stale /\ IsPremium(sub)
  /\ unsent' = IF Gives(n) \/ Takes(n) THEN ~sent ELSE unsent
  /\ claimed' = (claimed \/ (Gives(n) /\ ~sent))
  /\ heard' = IF sent /\ n.change > heard[n.id] THEN [heard EXCEPT ![n.id] = n.change] ELSE heard
  /\ Finish(w)
  /\ UNCHANGED <<outside, boosted, published>>

-----------------------------------------------------------------------------
(* What premium allows.                                                    *)

StartBoost(w) ==
  /\ IsPremium(sub)
  /\ Start(w, "boost", "save", NewRow, NoNotice)
  /\ UNCHANGED <<sub, outside, boosted, published, history>>

CreateBoost(w) ==
  /\ At(w, "boost", "save")
  /\ boosted' = TRUE
  /\ Finish(w)
  /\ UNCHANGED <<sub, outside, published, history>>

StartPublish(w) ==
  /\ Start(w, "publish", IF IsPremium(sub) THEN "save" ELSE "count", NewRow,
           NoNotice)
  /\ UNCHANGED <<sub, outside, boosted, published, history>>

\* Mutant: one more.
CountOneMore(w) ==
  /\ At(w, "publish", "count")
  /\ IF published > FreeLimit THEN Finish(w) ELSE Goto(w, "save")
  /\ UNCHANGED <<sub, outside, boosted, published, history>>

CountPublished(w) ==
  /\ At(w, "publish", "count")
  /\ IF published >= FreeLimit THEN Finish(w) ELSE Goto(w, "save")
  /\ UNCHANGED <<sub, outside, boosted, published, history>>

\* The bound stops premium users, who have no limit.
InsertRequest(w) ==
  /\ At(w, "publish", "save")
  /\ published' = IF published < FreeLimit + Cardinality(Workers)  \* bound
                    THEN published + 1 ELSE published
  /\ Finish(w)
  /\ UNCHANGED <<sub, outside, boosted, history>>

\* An exception, or the worker stops.
Stop(w) ==
  /\ job[w] # Idle
  /\ Finish(w)
  /\ UNCHANGED <<sub, outside, boosted, published, history>>

Begin(w) ==
  \/ StartCheckout(w) \/ StartCancel(w) \/ StartBoost(w) \/ StartPublish(w)
  \/ \E n \in notices \cup Posted : StartWebhook(w, n)

Step(w) ==
  \/ SaveCheckout(w) \/ CancelRemote(w) \/ SaveCancel(w) \/ SaveWebhook(w)
  \/ CreateBoost(w) \/ CountPublished(w) \/ InsertRequest(w)

Next ==
  \/ \E k \in Preapprovals : ProviderActs(k)
  \/ \E w \in Workers : Begin(w) \/ Step(w) \/ Stop(w)

Spec == Init /\ [][Next]_vars

-----------------------------------------------------------------------------
WasAuthorized(k) == \E n \in notices : n.id = k /\ n.status = "authorized"
Paid == \E k \in Preapprovals : WasAuthorized(k)

\* Premium, and what it gives, only after the provider has authorised a
\* preapproval of this user, or after a body that said so and that it never
\* sent: no checkout, cancellation or row read earlier makes one up.  ("nunca
\* ativa Premium sem confirmacao real", gateway.py:3, is so of the provider's
\* own notifications.)
PremiumWasPaid ==
  IsPremium(sub) \/ boosted => Paid \/ claimed

\* Premium does not outlast the authorisation: while the provider authorises
\* nothing, a newer notification is still to be processed, or an old one was
\* processed late or over a row that had changed meanwhile, or the plan comes
\* from a body the provider never sent.
PremiumFollowsProvider ==
  IsPremium(sub) =>
    \/ \E k \in Preapprovals : remote[k] = "authorized"
    \/ \E k \in Preapprovals : WasAuthorized(k) /\ heard[k] < changes[k]
    \/ stale \/ unsent

\* As long as nobody said this user's premium was authorised, the free plan is
\* passed only by publications that count at the same time: one less than
\* there are workers.
FreePlanRespected ==
  ~Paid /\ ~claimed => published <= FreeLimit + Cardinality(Workers) - 1
=============================================================================
