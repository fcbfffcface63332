# Tucano in TLA+

Tucano is a marketplace that brings together clients, who publish service
requests (*chamados*), and self-employed professionals, who apply to them. This
directory models its behaviour in TLA+, checks the models with TLC and proves
the central facts about them with TLAPS. Every definition is translated from the
code; `PROJECT.json` (`map`) gives the lines it stands for, and lists under
`hazards` what is hard to test, each at the line where it bites.

## 1. The system

Two programs live in the repository, sharing no state:

* the **Django application** (`apps/`, `config/`): all of the marketplace's
  logic. Web workers, WebSocket consumers and Celery workers share a PostgreSQL
  database and a Redis cache. `config/settings.py` does not set
  `ATOMIC_REQUESTS` and `transaction.atomic` is used nowhere, so each database
  statement commits by itself. Celery beat starts the expiry sweep every 30 s
  and the confirmation sweep every 300 s (settings.py:152-165);
* the **Go API** (`cmd/`, `internal/`, `queries/`, `migrations/`) with the
  **SvelteKit** client (`web/`): accounts, sessions, professional profiles,
  portfolios and search. It uses explicit transactions for most, not all, of
  its operations.

| component | state | operations | interacts with | module |
|---|---|---|---|---|
| requests (Django) | ServiceRequest, Interest | publish, apply, withdraw, select, close, cancel, sweep | chat (creates the Conversation), notifications, subscriptions (limit), audit | RequestModel, ServiceRequests, RequestHandlers, RequestRaces, SerialHandlers, Recruitment |
| subscriptions (Django) | Subscription, Boost | checkout, cancel, webhook, boost | payment provider; limits requests; orders the search | Subscriptions |
| chat (Django) | Conversation, Message, Block | load, connect, send, block | requests; channel layer | Chat |
| reviews (Django) | ServiceConfirmation, Review | ask (sweep), answer, review, contest | requests, notifications | Confirmations, Reviews |
| moderation (Django) | ModerationCase, Verification, FeatureFlag | report, review, decide, appeal, resolve | suspends users | Moderation |
| notifications (Django) | NotificationPreference, PushSubscription, NotificationLog | dispatch, send, subscribe | Celery, e-mail, push, WhatsApp | Notifications |
| rate limit (Django) | counters in the cache | enforce | the POST views that mix it in | - |
| clients, professionals (Django) | profiles, favourites, portfolio | forms, toggle, search | boosts | - |
| audit, backup (Django) | AuditEvent; dump files | append; dump and prune | - | - |
| accounts (Go) | users, refresh_tokens, account_action_tokens, profiles | register, verify, login, refresh, logout, reset, add profile | browser cookie, mailer | Sessions |
| professionals (Go) | profile, availabilities, portfolio rows and files | update, upload, delete, search | accounts (role check) | Availability, Professionals |
| platform, processes (Go) | - | routing, JSON, configuration, pool, audit INSERT | all | - |
| web client | access token per tab, cookie per browser | restore session, calls | Go API | Sessions |

What is hard here, component by component:

* **requests** - handlers read rows, decide, and save the rows they read:
  statements of a selection, a withdrawal, a cancellation and the sweep
  interleave; the worker may stop between two statements; `ServiceRequest.save`
  runs a duplicate check that can refuse *any* save, in the middle of a handler
  or of a sweep; the sweep works down a list it read once.
* **accounts (Go)** - refresh-token rotation against concurrent refreshes,
  logouts and password resets; action tokens invalidated and created outside a
  transaction; a cookie shared by tabs; row locks.
* **professionals (Go)** - rows and files that must agree across failures; forms
  and uploads at once; overlaps looked for in an order of texts.
* **notifications, confirmations** - a broker that refuses a task, a sweep that
  stops, a page that creates the row the sweep was to create, a device that
  changes hands while a notice is sent.
* **reviews** - an answer changed after it was relied upon; a count of reviews
  that does not ask who wrote them.
* **subscriptions** - notifications late, repeated, out of order, or not the
  provider's at all, and saves of whole rows that were read before.
* **moderation** - decisions that cross, one account with several cases, cases
  written by hand.
* **chat** - limits checked before the insert, a message between the history and
  the socket of a page.

What makes each correct: *requests* - nobody is left without an answer, a
conversation exists for the selected only, no more are selected than asked for,
every request ends; *accounts* - a login has at most one live refresh token, a
reset ends earlier sessions, locks never close into a circle; *professionals* -
each row has its file, the limit and the form hold; *reviews* - only a service
both confirmed is reviewed, and blind; *subscriptions* - premium was authorised
and follows the provider's last word, so far as the notifications are its own;
*moderation* - accounts follow the cases; *chat* - limits
and blocks hold but for what was under way, open pages miss nothing.

## 2. The modules

    RequestModel            tables of the requests app and the questions asked of them
      ServiceRequests       each handler in one step  --implements-->  Recruitment
      RequestHandlers       each handler statement by statement, workers, crashes
        RequestRaces        the same steps, with the crossings of handlers noted
        SerialHandlers      one handler at a time     --implements-->  ServiceRequests
    Sessions                one account of the Go API, its tokens, links and browsers
    Availability            periods of a profile form and the check they pass
      Professionals         profile, availability, portfolio and files of the Go API
    Notifications           dispatch, queue, channels, devices
      Confirmations         the sweep that asks whether a service took place
    Reviews                 the confirmation of one service and its reviews
    Subscriptions           one user's plan and the payment provider
    Moderation              cases, appeals, accounts
    Chat                    one conversation, its pages and consumers
    X_proofs                theorems about X (those of RequestRaces and SerialHandlers
                            are in RequestHandlers_proofs, of Confirmations in
                            Reviews_proofs)
    MCX                     an instance of X for TLC

A request of the Django application, in every module but the first ones, is a
`job` of a worker: the operation, the statement it is at and the rows it has
read. The first action of an operation is named `Start...` and makes the
checks and the reads that precede its first write; each later statement is an
action of its own; `Stop` or `Crash` ends a job anywhere. Variables marked
*history* are written and never read by the program's actions: properties use
them to say what excuses a deviation.

**RequestModel** holds the columns that matter (`status`, `publishedAt`,
`expiresAt`, `closedAt`, `interest`, `conversation`), what has been dispatched to
whom (`told`), the clock, and `cut`, a history of requests on which a save was
refused after the selection had been committed. Its operators are the
code's queries: `Full` is `selected_count >= positions_count`, `SaveRefused` is
the duplicate check of `ServiceRequest.clean`, which runs in every `save()`,
`Finalized` is the filtered bulk UPDATE of `_finalize_remaining_interests`,
`EndStatus` and `EndInterest` the branches of `close_request_now` shared with
the sweep, `MayPublish` is `can_client_publish_request`.

**ServiceRequests** has one action per handler: `Publish`
(ServiceRequestCreateView), `Apply` (InterestCreateView), `Withdraw`, `Select`,
`Close`, `Cancel` (services.py) and `Sweep` (`expire_due_requests`). `Select`
has two outcomes, since the request's own save may be refused when the interest
is already saved; `ReachedBySweep` says which of the due requests a pass gets
to before the first refused save ends it.

**Recruitment** is the abstract promise: a request is unpublished, receiving or
over; an answer, once given, stays; over means everybody is answered. The
refinement mapping of ServiceRequests (`phase`, `answer`) reads it off the
status columns.

**RequestHandlers** gives every worker a `job`: the operation, the statement it
is at and what it remembers of the rows it read (the status to be saved, the
listed applicants, the due list, the instant it took from the clock). `Crash`
ends a job between two statements, and also stands for a notification that
raises because the broker is down. The loop that tells the listed applicants is
one step, `Notify`, when it runs to its end; a `Crash` in it leaves any part of
them told (`ToldSome`; in which order the loop goes is not modelled).

**RequestRaces** leaves the handlers as they are and notes the steps that cross:
`late`, who applied to a request after a handler had listed its applicants or
once it was over; `abandoned`, requests on which a worker stopped that had
committed something and owed more (`Owes`); `crossed`, requests inserted between
the duplicate check and the INSERT of another; `revived`, requests that were over
and on which a handler saved an older status; `complete`, requests for which at
one moment as many were selected as they ask for. Its properties say what the code
promises to everybody those notes do not excuse: that an ended request leaves
nobody applied, that the refused and the selected are told, that twins are kept
apart. A note excuses one professional on one request, or one request, never the
whole system.

**SerialHandlers** lets one job run at a time and shows that the statements then
add up to the one-step handlers, order of statements, refused saves and
remembered values included. The abstract tables are those of the last quiet
moment, kept in `before`.

**Sessions** is the Go service's account: its rows (`verified`, `password`,
`profiles`, `links`, `refresh`) and the clients' side of a session (`cookie` of a
browser, `access` of a tab). A tab sends a request (`Ask`, `StartLogin`,
`StartRefresh`, `StartLogout`, `StartReset`), which then takes the steps other
requests can see: a statement where the service runs outside a transaction
(`IssueLogin`, `InvalidateLinks`, `StoreLink`, `Logout`), and for a transaction
the statement that takes the row locks and the end (`Consume`, `CommitRefresh`
or `RollbackRefresh`; `StartReset`, `FindTokens`, `CommitReset` or
`RollbackReset`). PostgreSQL's default isolation, read committed, is modelled by
what it does here: an UPDATE sees the rows committed when it starts, waits for
those another transaction holds (`Held`, `HeldLink`) and looks at them again.
Transactions nothing can observe midway are one step (`Register`, `VerifyEmail`,
`AddProfile`). The reply is a step of its own, delivered or lost (`Deliver`,
`Lose`); a COMMIT may succeed without the handler learning of it. `login`,
`mark` and `lost` are histories.

**Availability** is the check of `validateProfileInput`: periods sorted by day and
by the *text* of their start, neighbours compared by the clock. `Clocks`,
`MinuteOf` and `TextRank` are constants because `parseClock` accepts texts whose
order is not that of the hours ("9:00" after "10:00").

**Professionals** runs a request in one read-committed transaction: what it has
written stays in its `job` until the commit (`CommitUpdate`, `CommitUpload`,
`CommitDelete`). `lock` is the row lock of the profile, taken by the UPDATE of a
form and by the SELECT FOR UPDATE of an upload; a deletion does not take it.
`files` are written before the row and unlinked after it is gone. `Fail` is any
statement's error, after which the request gives up (an upload removes its
file), `Crash` a stopped server; a COMMIT that goes through unheard is an
outcome of the commit actions. `Found` and `Covers` are the part of the search
that says who is listed and with which image. `stray`, `unheard`, `thinned` are
histories.

**Notifications** makes a notice a task per event, user and channel. `Dispatch`
queues the tasks for the channels the preference allows, or stops midway when
the broker refuses one; `RunTask` takes a task and reads the preference
again; a push goes to the listed devices one by one (`PushTo`). What a dispatch
queued is a prefix of the chosen channels in `Order`; a whole prefix is the
dispatch that was not refused. `Subscribe` moves
a device to the user who registers it (`update_or_create` by endpoint).

**Confirmations** composes it with `create_pending_confirmations`:
`StartSweep` reads the due list, `CreateConfirmation` is the `create` of one row,
which the unique constraint refuses and the sweep ends by if a page was there
first, `Ask` the two dispatches, `SweepStops` a worker that stops; `OpenPage`
and `PostAnswer` are the views that make the same row with `get_or_create`.
`opened`, `cut` and `muted` are histories. `Announce` is the other sender of urgent notices, the publication of
a request with a short window.

**Reviews** is one selected interest after its service: `StartAnswer`, `SaveAnswer`
(`update_fields`, so one column), `LogAnswer` (the dispute goes to the audit log
for moderation); `StartReview`, `CheckReview`, `InsertReview` under the unique
constraint; `StartContest`, `SaveContest`. The page and the answers are for the
two sides, but `ReviewCreateView` and `submit_review` never ask whether the
author is one of them: `Outsiders` are users who are not, and whose reviews are
stored like any other. `ReadPage` shows a side the other's review once there are
two reviews, which is how views.py:44 counts them, whoever wrote them. So the
promise of CODEX.md:235, that reviews are revealed when both sides have sent
theirs, holds only while nobody else has reviewed, and `ReviewsAreBlind` says
just that; how outsiders' reviews enter is kept in the model so that the
property cannot claim more.

**Subscriptions** has the provider as an environment: `ProviderActs` changes a
preapproval and leaves a notice which the webhook may be given at any later
time, any number of times, in any order. The webhook, the cancellation and the
checkout read the row and save it whole. The webhook's view is exempt from CSRF,
checks no signature and asks the provider nothing back: `handle_webhook` takes
the user, the preapproval and the status from the body it is given, as the
repository's own tests do (apps/subscriptions/tests.py:72-76, 92-99), so
`StartWebhook` takes, besides the provider's notices, any body of `Posted`, a
constant that may hold anything of `Unsent`: with a preapproval of this user or
without, and a status that gives premium, takes it, or neither. The theorems hold
for every such set. "Nunca ativa Premium sem confirmação real"
(gateway.py:3) holds of what the provider sends, and the properties name the
rest: `unsent` (the plan comes from such a body) and `claimed` (one has said
"authorized") are histories, as are `heard` and `stale`. `StartPublish`, `CountPublished`, `InsertRequest` are the publication
limit of the free plan with its check apart from the insert.

**Moderation** has rows of cases and the accounts' `is_active`. `SaveCase` writes
the row with the columns of the operation, `SaveAccount` the account, in two
statements; the admin's bulk actions are one job per listed case. `EditCase` is
the admin's change form, which saves any status, decision and appeal over the
row and leaves the account alone; `crossed` notes it.

**Chat** is one conversation: `LoadPage` renders the history, `Connect` joins the
group, `Receive`, `CountRecent`, `CreateMessage`, `GroupSend` are the statements of the
consumer's `receive`. A consumer handles one message at a time; consumers
of different pages share only the database and the channel layer.

## 3. The runs

| run | shows | bounds |
|---|---|---|
| `handlers_atomic` | with each handler one step: status agrees with selections, answers are notified, Recruitment is implemented (so that all applicants of an ended request are answered); under fairness every request ends and every application is answered | two requests of one client and category (so that each can make the other's save fail), one for two professionals and one for one; two applicants; three ticks, windows of one, no twin within a tick |
| `interleaved` | what survives all interleavings and crashes: a conversation belongs to somebody selected, a request marked FILLED once had all its positions selected at one moment, an end is recorded, refusals spare the selected; nobody is forgotten on a request that is over, the refused are told, the selected are told and have their chat, but for what `late`, `abandoned` and `cut` name | RequestRaces: one request for one, two applicants, two workers, two ticks (2.1 million states) |
| `one_at_a_time` | SerialHandlers implements ServiceRequests | two requests, two applicants, three ticks |
| `closed_means_closed` | fails: a request closed partially filled goes on receiving | as `handlers_atomic`, five ticks |
| `within_positions` | fails: two selections at once overfill a request | one request for one, two applicants, two workers |
| `sessions` | one live token per login, a login that is over stays over, a reset revokes what it found, links act once, the jar never keeps a revoked token but for a lost reply, lock waits never close into a circle | two tabs sharing a cookie, three refresh tokens, one link of each kind, two types of profile (1.5 million states) |
| `profiles` | the limit of images, files for rows and rows for files, forms saved whole, disjoint periods, a stable cover | one professional, two requests at once, limit of two, three uploads, six forms (250 000 states) |
| `asking` | under fairness every service is asked about; silence on a channel has one of the listed reasons; a device serves its last holder | two interests, an urgent request, client and professional, one device |
| `reviews` | reviews were earned and, while no outsider has written one, are blind; answers are kept, disputes are logged | two requests at once, four answers, two outsiders (1.0 million states) |
| `subscriptions` | premium was authorised, follows the provider, free limit, but for bodies the provider never sent | two requests at once, two preapprovals, three changes, one body the provider never sent, which gives premium or takes it (2.6 million states) |
| `moderation` | accounts follow the cases, cases go forward, but for cases written by hand | two cases against one user, two requests at once, two rows to write by hand (3.8 million states) |
| `chat` | rate limit, blocks, nothing missed | two pages of one user and one of the other, three messages, limit and history of one (4.3 million states) |

Why the bounds are enough. *Requests*: the handlers look at one request, except
for the duplicate check and the sweep, which relate pairs; two requests with the
same client and category make each other's save refused, and one of them with
two positions has all the branches of `select_interest`. In `handlers_atomic`
windows last one tick and the duplicate window less than one: a request published
at 1 is due at 2, and its twin, published at 2, keeps the sweep from saving it
until 3, which is what `RequestsEnd` and `ApplicationsEnd` have to outlive. Two workers suffice for
every pairwise race. `interleaved` has one position, so that every selection
fills and refuses, and the two applicants can each be selected while the other is
refused; partial selections are in the other two runs and in the proofs. A tick
stands for however long the duplicate window lasts; every interest window is
longer than it (2 hours against 5 minutes), and the bound `LastTime` keeps 30
days from passing, so that the count of the free plan only grows. Publications are only made early enough for their window to end
before `LastTime`. *Accounts*: two tabs of one browser are the hardest case of
the cookie, and a tab does all that a second browser can do to the rows; three
tokens are two logins and a rotation or two rotations of one. *Professionals*:
no statement relates two profiles; a limit of two with three uploads lets a
deletion and an upload meet at the limit. The forms include one that passes
only because neighbours are looked for in text order. *Reviews*: two requests
at once are the two answers that cross, or an answer and a review; four answers
are one of each side, changed once; two outsiders are enough for reviews to be
two without a side's. *Subscriptions*: three changes are a
checkout, its authorisation and its pause or cancellation, or two checkouts and
an authorisation; one body the provider never sent is enough to give the plan or
to take it. *Moderation*: two cases of one user are what an account can tell
apart; by hand, staff reopen a case or put down a decision without its
consequences. *Chat*: two pages of one sender for the limits, the other's for the
block; one message per minute and in the history so that both limits bite at the
second message; three messages, since two pages of one sender may pass the limit
together with two, and the third is the one that must not get through. Beyond
these bounds the safety properties are proved (section 4).

Deadlock is checked except in `sessions`, `reviews` and `moderation`: there all
tokens and links may be spent, all answers given, or all cases closed, and
nothing is left to do.

Fairness. `FairSpec` of ServiceRequests: weak fairness of the clock and of
`Sweep`, which Celery beat starts every 30 seconds whatever happened to the
previous pass. Users owe nothing. With more than two requests a sweep that
aborts can starve a third for as long as twins keep being published; with two
the younger twin cannot block for longer than the duplicate window. `FairSpec`
of Confirmations: weak fairness of `StartSweep` (beat, every five minutes) and of
the two dispatches; strong fairness of the INSERT, since a sweep may stop
anywhere but not for ever before its first statement. `SweepStops` is owed to
nobody, and no user has to open a page.

The two failing runs state what a test of the repository says and are reported
under `findings`. Symmetry is used in safety runs only.

## 4. The proofs

Eight modules hold proofs. All theorems are for any number of requests, users,
workers, tokens, images, messages and so on, from the named assumption of their
module alone. The type invariants are proved and not repeated in the runs.

| module | theorems | property |
|---|---|---|
| ServiceRequests_proofs | `TypeCorrect`, `NobodyLeftWaiting`, `ChatsMatchSelections`, `StatusTellsSelections`, `AnswersTold`, `NoTwins`, `PromiseKept` | types; ApplicantsAnswered, ConversationsMatchSelection, StatusMatchesSelection, AnswersAreTold; no twins; the refinement KeepsPromise |
| RequestHandlers_proofs | `HandlerTypes`, `Chats`, `EndsRecorded`, `NeverOpens`, `Spares`; `HandlersAddUp`; `RacesTypes`, `Filled`, `Forgotten`, `RefusalsTold`, `SelectionsTold`, `TwinsHaveCrossed` | types; ChatMeansSelected, EndIsRecorded, NeverOpenAgain, RefusalSparesTheSelected; the refinement ImplementsHandlers; types of RequestRaces, FilledMeansEnough, NobodyForgotten, RefusedAreTold, SelectedAreTold, TwinsCrossed |
| Sessions_proofs | `SessionTypes`, `OneTokenPerLogin`, `ResetRevokesAll`, `OverIsOver`, `OnceOnly`, `JarIsCurrent` | types; OneLivePerLogin, ResetEndsSessions, ClosedForGood, LinksWorkOnce, JarHoldsACurrentToken |
| Professionals_proofs | `ProfessionalTypes`, `PortfolioLimit`, `ImagesServed`, `Remembered`, `SavedWhole`, `Disjoint`, `Cover` | types, all six properties of the run |
| Reviews_proofs | `ReviewTypes`, `Earned`, `Kept`, `Flagged`, `Blind`; `AskingTypes`, `LastHolder`, `Silence` | types, all four of Reviews; types, LastHolderOnly, SilenceHasAReason of Confirmations |
| Subscriptions_proofs | `SubscriptionTypes`, `WasPaid`, `Follows`, `FreePlan` | types, all three |
| Moderation_proofs | `ModerationTypes`, `AccountsFollow`, `Forward` | types and both |
| Chat_proofs | `ChatTypes`, `Rate`, `Block`, `Missed` | types, all three |

The arguments, each around an inductive invariant:

* **ServiceRequests.** What a step does to *one* request is one of five things
  (`RequestStep`: untouched, newly published, an applicant moved, an applicant
  selected, applicants refused); `StepOfRequest` proves this once, with one case
  per action, and the invariants are then per-request facts checked against
  those five. With `TypeOK` each is inductive as it stands.
  `StatusMatchesSelection` needs the cardinality lemma `SelectedCount` (one
  selection adds exactly one), so `Professionals` has to be finite. The
  refinement needs `ApplicantsAnswered`: cancelling a request that is already
  over is a stutter of Recruitment only because no applicant is left to refuse.
* **RequestHandlers.** The properties speak of tables, but what breaks them is
  what a job remembers. `Fits` says of every job that its memory, however stale,
  is compatible with the tables: its request is there since before its instant;
  the interest of a selection past its save has been decided; its outcome is one
  a request can end with. Since interests once decided stay decided (`Onward`), a job that fits goes on fitting whatever
  others do.
* **RequestRaces.** `RacesInv` adds to `IInv` and the four properties what a job is
  still good for: whoever is applied after a handler listed the applicants is on
  its list or in `late` (`ListFits`), and stays so until the handler has saved the
  request, which is why an ending leaves nobody applied; the one a selection
  tells is the one selected, who has his chat (`ChatFits`); whatever would be a
  twin of a request about to be inserted is older than the window, `crossed` or
  `revived` (`CheckFits`). An outcome "filled" was counted at a moment that is in
  `complete` (`FullNoted`), and stays in a job's memory however many withdraw
  before it is saved, which gives `FilledMeansEnough`. The others' jobs are kept by any step (`OthersListed`,
  `OthersChecked`: what disturbs them is noted), so each action is only asked
  what it does for its own job and tables (`StepsWell`), and the four properties
  follow from that once (`ForgottenKept`, `RefusedKept`, `SelectedKept`,
  `TwinsKept`). `RefusedAreTold` was first stated with jobs before their UPDATE
  among those who have still to tell; that is not inductive, since such a job may
  stop owing nothing, and the proof needs, and shows, the stronger form.
* **SerialHandlers.** `HandlersAddUp` shows that every statement maps to a stutter
  of ServiceRequests, but for the last of a handler, which maps to the handler.
  The invariant `SerialInv` says what the tables are at each statement as a
  function of `before` and of the job: `Memory` has one disjunct per handler
  (`PublishMemory`, `ApplyMemory`, `WithdrawMemory`, `SelectMemory`,
  `CancelMemory`, `EndingMemory`) and, within it, one case per statement; when no
  job is at work the tables are `before` itself (`Untouched`). A sweep is the long
  case: `EndingMemory` knows which of the due requests it has ended (`Done`), that
  their applicants were answered and told, and that the rest is untouched. The
  atomic `Sweep` decides on the first tables which saves are refused, the
  statements decide on tables the sweep has already changed; `EndedDoNotRefuse`
  closes the gap: a row the sweep ended was published too long ago to refuse
  another's save, because every window outlasts the duplicate check
  (`WindowsFit`, from `RequestAssumption`). With a window shorter than five
  minutes the refinement would fail.
* **Sessions.** The properties share the invariant `Rotation`: a token not yet
  issued is neither live nor of any login; a held token is live and held once,
  which is what the row lock gives; what a reset's UPDATE found includes every
  live token there was when it began. Most steps leave the tokens alone
  (`QuietStep`) or only end the life of tokens nobody holds (`FadingStep`).
  `OverIsOver` follows from `BornOfLive`: a token comes to life as the successor
  of a live one or as the first of a login. `OnceOnly` needs `LinksHeld`: the link
  of an open reset is live and no two resets are open at once. `JarIsCurrent`
  needs to know where a token can be (`JarInvariant`): one on its way to a
  browser is in no jar and presented by nobody, so only a reset can have revoked
  it, and what is in a jar is presented by tabs of that browser only (`Home`), so
  that who revokes it owes the jar a reply.
* **Professionals.** An upload fits if its key is its own and, while it holds the
  lock, the portfolio is no larger than it counted (deletions only lower it);
  this gives the limit. While nothing was deleted, orders lie below the count,
  so a new image comes last. `SortedApart` shows that comparing neighbours in
  text order keeps *every* two periods apart: otherwise take, among the periods
  between two that overlap, one with the least rank (`HasLeast`, from the
  library's well-foundedness of the naturals); this needs each period to end
  after its start.
* **Reviews.** Whoever is past the check of a review saw both sides agree
  (`Agreement`); while a dispute is unlogged the saver of the last answer is
  about to log it and has seen both answers (`LastSaverLogs`). Reviews are blind
  because, while only sides have written, two reviews are one of each: whoever
  has peeked has already written his (`SeenAfterWritten`, `LoneReview`), and the unique
  constraint takes no second one.
* **Confirmations.** `AskingIInv` adds two facts to the properties: a device is
  held by whom its row names, so whoever lists devices lists the ones of their
  last holder; and a sweep that is about to tell somebody has exactly one interest in
  hand (`OneInHand`), whose row it made, so that no interest leaves its hand
  but with both parties told, or in `cut`. Tasks never go back to "none", so who was
  told stays told.
* **Subscriptions.** Wherever premium is written or remembered it was paid, or
  claimed by a body the provider never sent (`PaidFirst`); the provider's notices are the provider's changes, one each (`NoticesFit`),
  so one about the last change tells the present status; publications about to
  be inserted were each counted below the limit (`CountedFit`).
* **Moderation.** A job knows what it checked (`JobsChecked`); rows no request
  crossed have their columns in step (`RowsInStep`); an account out of step with
  its cases has a job on its way to it (`SuspendedForACase`,
  `ActiveDespiteACase`). A case written by hand is crossed, so it drops out of
  all three, and its user with it.
* **Chat.** Counting a page that has passed a check as if its message were
  stored (`CountedFit`, `PassedFit`) makes limit and block inductive; the
  messages of a loaded page are accounted for before it connects (`Accounted`).

Four theorems state what no run lists: `NobodyLeftWaiting`, which the refinement
of Recruitment checked by `handlers_atomic` implies; `ChatsMatchSelections`, whose
two directions `interleaved` checks statement by statement (ChatMeansSelected,
SelectedAreTold); `NeverOpens`, on the statuses alone; and `TwinsHaveCrossed`,
which takes two requests, applicants and two workers, too many for a run
(without applicants, or with one, TLC found `TwinsCrossed` to hold).

Only model-checked: liveness under fairness (`RequestsEnd`, `ApplicationsEnd`,
`EveryoneIsAsked`), which the provers do not reach, and `NobodyWaitsInACircle`,
which says which steps are ENABLED and would lose what it says if the guards were
written out in its place.

## 5. Not modelled

* `scheduled_start`: it and the window are validated at publication only and
  never change; publications are assumed to pass that form check.
* The audit log (`log_event`), but for disputes: written, never read. The
  database backup is a subprocess.
* Ownership checks of the views: each action is performed by the user it
  belongs to.
* Statuses no code assigns (`draft`, `completed`, `shortlisted`).
* The duplicate check and the UPDATE of one `save()` are one step in
  RequestHandlers (two statements of the same call); for publication, where the
  gap matters most, they are two.
* In Sessions: accounts that are suspended or deleted (no code of the Go service
  makes them so), several accounts (no statement touches rows of two), password
  hashing, the mailer (a link may or may not arrive), the limit per address of
  the router, and the operations that only read (`Me`, `HasRole`). What a reset
  does not reach is in the model and stated with `ResetEndsSessions`: a token
  stored by a request already under way, after the rows to revoke were found.
* In Professionals: image decoding, the text and distance of the search, paging.
  The search also asks for an active account with a confirmed address
  (professionals.sql:117); owners are taken to have one, for no operation of the
  module changes it.
* In Confirmations and Notifications: what a provider does with a message it
  took. When a service was to have started is an event, whatever the hour.
* The admin's forms, by which staff can write any row of the Django application,
  except for the change form of moderation cases (`EditCase`): accounts
  (`is_active` included), requests, interests, subscriptions, confirmations and
  reviews change by the application's own handlers only. Nor do staff add or
  delete cases there, or change whom one is about.
* In Reviews: the reveal of reviews after thirty days, which is time only.
* In Subscriptions: the end of a boost; that the provider's reply to a checkout
  may be lost (the user's next checkout makes another preapproval). A body that
  names no user is answered and forgotten, and not modelled.
* In Moderation: verifications, which one UPDATE of the admin changes, and
  feature flags, which only refuse a checkout (subscriptions/views.py:37) or
  leave boosts out of the order of a search (professionals/views.py:116).
* In Chat: the channel layer may drop messages when a consumer is slow; it is
  assumed to deliver. A page that is loaded between the INSERT and the broadcast
  shows the message twice, which is layout. The rate limit counts the messages
  of a sender in all conversations; with one conversation that is the same.
* The rate limiter of the Django application: requests at once are counted as
  one and each restarts the window; the repository promises no more than
  "suficiente para o MVP" (apps/accounts/ratelimit.py:7).
* Django's profiles, favourites and searches: single-statement forms, a toggle
  under a unique constraint, read-only queries.
* The HTTP platform, configuration, pool and processes of the Go program:
  stateless; its worker registers no task.

## 6. Plan

What is left, in order of use:

1. The invariants of ServiceRequests stated of SerialHandlers, at its quiet
   moments. They follow from `HandlersAddUp`, but tlapm does not expand a theorem
   cited through an INSTANCE, so each needs a proof over the mapped tables.
2. Selections composed with Subscriptions and Chat for several conversations,
   should handlers come to depend on more than one.
