------------------------------ MODULE Sessions ------------------------------
(***************************************************************************)
(* One account of the Go service and the browsers signed in to it: the     *)
(* rotation of refresh tokens, the links sent by e-mail and the cookie     *)
(* each browser keeps (internal/accounts, queries/accounts.sql,            *)
(* web/src/lib/api.ts).                                                    *)
(*                                                                         *)
(* A tab has at most one request under way; the tabs of a browser share    *)
(* its cookie and nothing else.  (A request the server still runs after    *)
(* its tab was reloaded is the request of another tab whose reply is       *)
(* lost.)  A request is as many steps as it has committed statements or    *)
(* waits for row locks, then a reply the browser receives or loses.        *)
(* Refresh tokens are numbered in the order in which their rows become     *)
(* visible.  No code changes users.status, which stays "active".           *)
(***************************************************************************)
EXTENDS Integers, FiniteSets

CONSTANTS
  Tabs,
  Browsers,
  BrowserOf,      \* [Tabs -> Browsers]
  ProfileTypes,   \* "professional" and "client"
  MaxTokens,      \* bound: refresh tokens ever stored
  MaxLinks        \* bound: links sent, for each purpose

Purposes == {"verify_email", "reset_password"}

ASSUME SessionAssumption ==
  /\ BrowserOf \in [Tabs -> Browsers]
  /\ MaxTokens \in Nat
  /\ MaxLinks \in [Purposes -> Nat]

VARIABLES
  profiles,   \* profile rows of the account; none before it registers
  verified,   \* email_verified_at is set
  password,   \* how often password_hash was replaced
  links,      \* account_action_tokens, by purpose and number
  refresh,    \* refresh_tokens, by number
  issued,     \* how many refresh tokens there are
  login,      \* history: the login a token goes back to, by its first token
  mark,       \* history: tokens there were when a later committed reset
              \* began to revoke
  cookie,     \* the refresh token in the browser's jar, 0 when there is none
  lost,       \* history: browsers that lost a reply
  access,     \* tabs with an unexpired access token in memory
  job         \* the request a tab has under way

account == <<profiles, verified, password>>
client == <<cookie, lost, access>>
tokens == <<refresh, issued, login>>
vars == <<account, links, tokens, mark, client, job>>

Tokens == 1..MaxTokens
Links(p) == 1..MaxLinks[p]
None == 0

\* What a row of refresh_tokens is worth, from revoked_at and expires_at.
TokenState == {"absent", "live", "expired", "revoked"}
\* "void": used_at was set by a later link, or the link expired.
LinkState == {"absent", "live", "spent", "void"}

Steps == {"idle",
  "checked",    \* login: password and verification checked
  "presented",  \* refresh: the cookie has arrived
  "consumed",   \* refresh: its row is updated, the transaction open
  "leaving",    \* logout: the cookie has arrived
  "asking",     \* forgot-password or resend-verification: account read
  "voided",     \* the same: earlier links invalidated, new one not stored
  "resetting",  \* reset: link consumed, password updated, not committed
  "revoking",   \* reset: its UPDATE of refresh_tokens is running
  "granted", "refused", "failed", "left", "changed"}  \* replies on their way

\* Replies that set or clear the refresh cookie.
Replies == {"granted", "refused", "failed", "left", "changed"}

Jobs == [step: Steps,
         token: 0..MaxTokens,    \* the token presented
         new: 0..MaxTokens,      \* the token granted
         purpose: Purposes,
         link: Nat,
         doomed: SUBSET Tokens,  \* rows the revoking UPDATE has found
         seen: 0..MaxTokens]     \* history: tokens there were when it began

Idle == [step |-> "idle", token |-> None, new |-> None,
         purpose |-> "verify_email", link |-> 0, doomed |-> {}, seen |-> 0]

TypeOK ==
  /\ profiles \subseteq ProfileTypes
  /\ verified \in BOOLEAN
  /\ password \in Nat
  /\ \A p \in Purposes : links[p] \in [Links(p) -> LinkState]
  /\ DOMAIN links = Purposes
  /\ refresh \in [Tokens -> TokenState]
  /\ issued \in 0..MaxTokens
  /\ login \in [Tokens -> 0..MaxTokens]
  /\ mark \in 0..MaxTokens
  /\ cookie \in [Browsers -> 0..MaxTokens]
  /\ lost \subseteq Browsers
  /\ access \subseteq Tabs
  /\ job \in [Tabs -> Jobs]

Init ==
  /\ profiles = {}
  /\ verified = FALSE
  /\ password = 0
  /\ links = [p \in Purposes |-> [l \in Links(p) |-> "absent"]]
  /\ refresh = [k \in Tokens |-> "absent"]
  /\ issued = 0
  /\ login = [k \in Tokens |-> None]
  /\ mark = 0
  /\ cookie = [b \in Browsers |-> None]
  /\ lost = {}
  /\ access = {}
  /\ job = [t \in Tabs |-> Idle]

-----------------------------------------------------------------------------
(* Rows and the locks open transactions hold on them.                      *)

Registered == profiles # {}

LiveTokens == {k \in Tokens : refresh[k] = "live"}
LiveLinks(p) == {l \in Links(p) : links[p][l] = "live"}

\* A refresh holds the row of the token it consumed until it ends.
Held(k) == \E t \in Tabs : job[t].step = "consumed" /\ job[t].token = k

\* A reset holds the row of its link and the row of the user.
InReset(t) == job[t].step \in {"resetting", "revoking"}
Resetting == \E t \in Tabs : InReset(t)
HeldLink(p, l) == /\ p = "reset_password"
                  /\ \E t \in Tabs : InReset(t) /\ job[t].link = l

Become(t, step) == job' = [job EXCEPT ![t].step = step]
End(t) == job' = [job EXCEPT ![t] = Idle]
Start(t, step, token) ==
  /\ job[t] = Idle
  /\ job' = [job EXCEPT ![t] = [Idle EXCEPT !.step = step, !.token = token]]

Sent(t) == cookie[BrowserOf[t]]

\* issueActionToken stores a link that was not there before.
Store(p, l) == /\ links[p][l] = "absent"
               /\ \A i \in 1..(l - 1) : links[p][i] # "absent"
               /\ links' = [links EXCEPT ![p][l] = "live"]

\* CreateRefreshToken becomes visible, as token issued + 1.
Issue(k, first) ==
  /\ issued' = k
  /\ login' = [login EXCEPT ![k] = first]

-----------------------------------------------------------------------------
(* Account and links: single transactions that nothing can observe midway. *)

Register(type) ==
  /\ ~Registered                              \* users_email_unique
  /\ profiles' = {type}
  /\ \E l \in Links("verify_email") : Store("verify_email", l)
  /\ UNCHANGED <<verified, password, tokens, mark, client, job>>

AddProfile(t, type) ==
  /\ job[t] = Idle /\ t \in access
  /\ type \notin profiles                     \* UNIQUE (user_id)
  /\ profiles' = profiles \cup {type}
  /\ UNCHANGED <<verified, password, links, tokens, mark, client, job>>

VerifyEmail(l) ==
  /\ l \in LiveLinks("verify_email")
  /\ ~Resetting                               \* the row of the user
  /\ links' = [links EXCEPT !["verify_email"][l] = "spent"]
  /\ verified' = TRUE
  /\ UNCHANGED <<profiles, password, tokens, mark, client, job>>

\* RequestPasswordReset and ResendVerification, one statement at a time.
Ask(t, p) ==
  /\ Registered
  /\ p = "verify_email" => ~verified
  /\ job[t] = Idle
  /\ job' = [job EXCEPT ![t] = [Idle EXCEPT !.step = "asking", !.purpose = p]]
  /\ UNCHANGED <<account, links, tokens, mark, client>>

InvalidateLinks(t) ==
  /\ job[t].step = "asking"
  /\ LET p == job[t].purpose IN
       /\ \A l \in LiveLinks(p) : ~HeldLink(p, l)
       /\ links' = [links EXCEPT ![p] =
            [l \in Links(p) |-> IF l \in LiveLinks(p) THEN "void" ELSE @[l]]]
  /\ Become(t, "voided")
  /\ UNCHANGED <<account, tokens, mark, client>>

StoreLink(t) ==
  /\ job[t].step = "voided"
  /\ \/ \E l \in Links(job[t].purpose) : Store(job[t].purpose, l)
     \/ UNCHANGED links                       \* the INSERT fails
  /\ End(t)
  /\ UNCHANGED <<account, tokens, mark, client>>

-----------------------------------------------------------------------------
(* Login, refresh and logout.                                              *)

StartLogin(t) ==
  /\ verified
  /\ Start(t, "checked", None)
  /\ UNCHANGED <<account, links, tokens, mark, client>>

\* issueSession outside a transaction, then userView and recordAudit: a
\* failure after the INSERT leaves a token nobody was given.
IssueLogin(t) ==
  /\ job[t].step = "checked"
  /\ \/ /\ End(t)
        /\ UNCHANGED tokens
     \/ /\ issued < MaxTokens
        /\ refresh' = [refresh EXCEPT ![issued + 1] = "live"]
        /\ Issue(issued + 1, issued + 1)
        /\ \/ End(t)
           \/ job' = [job EXCEPT ![t].step = "granted", ![t].new = issued + 1]
  /\ UNCHANGED <<account, links, mark, client>>

\* restoreSession; without a cookie the handler refuses at once.
StartRefresh(t) ==
  /\ t \notin access
  /\ Start(t, IF Sent(t) = None THEN "refused" ELSE "presented", Sent(t))
  /\ UNCHANGED <<account, links, tokens, mark, client>>

\* Mutants: the row is read and not waited for; revoked_at is not looked at.
ConsumeUnlocked(t) ==
  /\ job[t].step = "presented"
  /\ Become(t, IF refresh[job[t].token] = "live" THEN "consumed" ELSE "refused")
  /\ UNCHANGED <<account, links, tokens, mark, client>>

ConsumeRevoked(t) ==
  /\ job[t].step = "presented"
  /\ ~Held(job[t].token)
  /\ Become(t, IF refresh[job[t].token] # "expired" THEN "consumed" ELSE "refused")
  /\ UNCHANGED <<account, links, tokens, mark, client>>

\* ConsumeRefreshToken waits for the row, then looks at it again.
Consume(t) ==
  /\ job[t].step = "presented"
  /\ ~Held(job[t].token)
  /\ Become(t, IF refresh[job[t].token] = "live" THEN "consumed" ELSE "refused")
  /\ UNCHANGED <<account, links, tokens, mark, client>>

\* Mutant: the refresh also updates the row of the user.
CommitRefreshOfUser(t) ==
  /\ job[t].step = "consumed"
  /\ ~Resetting
  /\ issued < MaxTokens
  /\ LET old == job[t].token
         new == issued + 1 IN
       /\ refresh' = [refresh EXCEPT ![old] = "revoked", ![new] = "live"]
       /\ Issue(new, login[old])
       /\ \/ job' = [job EXCEPT ![t].step = "granted", ![t].new = new]
          \/ Become(t, "failed")
  /\ UNCHANGED <<account, links, mark, client>>

\* Rotation; the handler may not learn that its COMMIT succeeded.
CommitRefresh(t) ==
  /\ job[t].step = "consumed"
  /\ issued < MaxTokens
  /\ LET old == job[t].token
         new == issued + 1 IN
       /\ refresh' = [refresh EXCEPT ![old] = "revoked", ![new] = "live"]
       /\ Issue(new, login[old])
       /\ \/ job' = [job EXCEPT ![t].step = "granted", ![t].new = new]
          \/ Become(t, "failed")
  /\ UNCHANGED <<account, links, mark, client>>

RollbackRefresh(t) ==
  /\ job[t].step = "consumed"
  /\ Become(t, "failed")
  /\ UNCHANGED <<account, links, tokens, mark, client>>

\* The account page offers it, whether or not the access token expired.
StartLogout(t) ==
  /\ Start(t, "leaving", Sent(t))
  /\ UNCHANGED <<account, links, tokens, mark, client>>

\* ConsumeRefreshToken and RevokeRefreshToken leave the row revoked whatever
\* the first found; the handler only logs a failure.
Logout(t) ==
  /\ job[t].step = "leaving"
  /\ \/ UNCHANGED refresh
     \/ LET k == job[t].token IN
          /\ k # None
          /\ ~Held(k)
          /\ refresh' = [refresh EXCEPT ![k] = "revoked"]
  /\ Become(t, "left")
  /\ UNCHANGED <<account, links, issued, login, mark, client>>

-----------------------------------------------------------------------------
(* Password reset: one transaction that stays open over its statements.    *)

\* Mutant: used_at is not looked at.
StartResetUsed(t, l) ==
  /\ job[t] = Idle
  /\ links["reset_password"][l] # "absent"
  /\ ~Resetting
  /\ job' = [job EXCEPT ![t] = [Idle EXCEPT !.step = "resetting",
                                            !.purpose = "reset_password",
                                            !.link = l]]
  /\ UNCHANGED <<account, links, tokens, mark, client>>

StartReset(t, l) ==
  /\ job[t] = Idle
  /\ l \in LiveLinks("reset_password")
  /\ ~Resetting
  /\ job' = [job EXCEPT ![t] = [Idle EXCEPT !.step = "resetting",
                                            !.purpose = "reset_password",
                                            !.link = l]]
  /\ UNCHANGED <<account, links, tokens, mark, client>>

\* RevokeAllUserRefreshTokens sees the rows committed when it starts.
FindTokens(t) ==
  /\ job[t].step = "resetting"
  /\ job' = [job EXCEPT ![t].step = "revoking",
       ![t].seen = issued,
       ![t].doomed = {k \in Tokens : refresh[k] \in {"live", "expired"}}]
  /\ UNCHANGED <<account, links, tokens, mark, client>>

\* Mutant: rows a refresh holds are skipped and not waited for.
CommitResetSkipping(t) ==
  /\ job[t].step = "revoking"
  /\ refresh' = [k \in Tokens |-> IF k \in job[t].doomed /\ ~Held(k) THEN "revoked"
                                  ELSE refresh[k]]
  /\ password' = password + 1
  /\ links' = [links EXCEPT !["reset_password"][job[t].link] = "spent"]
  /\ mark' = job[t].seen
  /\ Become(t, "changed")
  /\ UNCHANGED <<profiles, verified, issued, login, client>>

\* It waits for the rows a refresh holds; what it then finds revoked it skips.
CommitReset(t) ==
  /\ job[t].step = "revoking"
  /\ \A k \in job[t].doomed : ~Held(k)
  /\ refresh' = [k \in Tokens |-> IF k \in job[t].doomed THEN "revoked"
                                  ELSE refresh[k]]
  /\ password' = password + 1
  /\ links' = [links EXCEPT !["reset_password"][job[t].link] = "spent"]
  /\ mark' = job[t].seen
  /\ Become(t, "changed")
  /\ UNCHANGED <<profiles, verified, issued, login, client>>

RollbackReset(t) ==
  /\ InReset(t)
  /\ End(t)
  /\ UNCHANGED <<account, links, tokens, mark, client>>

-----------------------------------------------------------------------------
(* What happens around the handlers.                                       *)

\* Mutant: a refused refresh leaves the cookie.
DeliverKeepingCookie(t) ==
  /\ job[t].step \in Replies
  /\ cookie' = [cookie EXCEPT ![BrowserOf[t]] =
                  CASE job[t].step = "granted" -> job[t].new
                    [] job[t].step \in {"refused", "failed"} -> @
                    [] OTHER -> None]
  /\ access' = CASE job[t].step = "granted" -> access \cup {t}
                 [] job[t].step = "left" -> access \ {t}
                 [] OTHER -> access
  /\ End(t)
  /\ UNCHANGED <<account, links, tokens, mark, lost>>

\* setRefreshCookie and clearRefreshCookie, keepSession and the finally of
\* logout: what a reply does to the jar and to the tab.
Deliver(t) ==
  /\ job[t].step \in Replies
  /\ cookie' = [cookie EXCEPT ![BrowserOf[t]] =
                  IF job[t].step = "granted" THEN job[t].new ELSE None]
  /\ access' = CASE job[t].step = "granted" -> access \cup {t}
                 [] job[t].step = "left" -> access \ {t}
                 [] OTHER -> access
  /\ End(t)
  /\ UNCHANGED <<account, links, tokens, mark, lost>>

\* A reply is lost, or the server dies: open transactions roll back.
Lose(t) ==
  /\ job[t] # Idle
  /\ lost' = IF job[t].step \in Replies THEN lost \cup {BrowserOf[t]} ELSE lost
  /\ access' = IF job[t].step \in {"leaving", "left"} THEN access \ {t} ELSE access
  /\ End(t)
  /\ UNCHANGED <<account, links, tokens, mark, cookie>>

\* Fifteen minutes pass, or the page is loaded again.
AccessEnds(t) ==
  /\ job[t] = Idle /\ t \in access
  /\ access' = access \ {t}
  /\ UNCHANGED <<account, links, tokens, mark, cookie, lost, job>>

\* expires_at passes; a row already consumed is past that check.
ExpireToken(k) ==
  /\ refresh[k] = "live" /\ ~Held(k)
  /\ refresh' = [refresh EXCEPT ![k] = "expired"]
  /\ UNCHANGED <<account, links, issued, login, mark, client, job>>

ExpireLink(p, l) ==
  /\ l \in LiveLinks(p) /\ ~HeldLink(p, l)
  /\ links' = [links EXCEPT ![p][l] = "void"]
  /\ UNCHANGED <<account, tokens, mark, client, job>>

\* The steps of a handler once its request has arrived, and its reply.
Serve(t) ==
  \/ InvalidateLinks(t) \/ StoreLink(t)
  \/ IssueLogin(t)
  \/ Consume(t) \/ CommitRefresh(t) \/ RollbackRefresh(t)
  \/ Logout(t)
  \/ FindTokens(t) \/ CommitReset(t) \/ RollbackReset(t)
  \/ Deliver(t)

Send(t) ==
  \/ \E p \in Purposes : Ask(t, p)
  \/ StartLogin(t) \/ StartRefresh(t) \/ StartLogout(t)
  \/ \E l \in Links("reset_password") : StartReset(t, l)
  \/ \E type \in ProfileTypes : AddProfile(t, type)

Next ==
  \/ \E type \in ProfileTypes : Register(type)
  \/ \E l \in Links("verify_email") : VerifyEmail(l)
  \/ \E t \in Tabs : Send(t) \/ Serve(t) \/ Lose(t) \/ AccessEnds(t)
  \/ \E k \in Tokens : ExpireToken(k)
  \/ \E p \in Purposes : \E l \in Links(p) : ExpireLink(p, l)

Spec == Init /\ [][Next]_vars

-----------------------------------------------------------------------------
(* Properties.                                                             *)

\* Rotation keeps one token per login: however the requests of several tabs
\* and browsers interleave, and whatever fails between consuming a token
\* (service.go:172) and storing the next (service.go:319), a login never has
\* two tokens that can be refreshed.
OneLivePerLogin ==
  \A j, k \in LiveTokens : login[j] = login[k] => j = k

Open(first) == \E k \in LiveTokens : login[k] = first

\* A login whose token was revoked by logout, by a reset or by time is over:
\* no refresh still under way brings it back.
ClosedForGood ==
  [][\A k \in Tokens : login[k] = k /\ ~Open(k) => ~Open(k)']_vars

\* A committed reset leaves no token alive of those stored when its UPDATE
\* began, not even one a refresh held and gave back (service.go:235).  A
\* token stored later, by a login or refresh that was under way, it does not
\* reach.
ResetEndsSessions ==
  \A k \in Tokens : k <= mark => refresh[k] # "live"

\* A link acts once, and only if its transaction commits: every replacement
\* of the password has its own spent link, and the address counts as
\* verified exactly when a verification link was spent (service.go:359).
LinksWorkOnce ==
  /\ password = Cardinality({l \in Links("reset_password") : links["reset_password"][l] = "spent"})
  /\ verified <=> \E l \in Links("verify_email") : links["verify_email"][l] = "spent"

\* The reply to a request that presented k is still on its way.
Awaited(k, b) ==
  \E t \in Tabs : BrowserOf[t] = b /\ job[t].step \in Replies /\ job[t].token = k

\* The tabs of a browser share one cookie and their replies come in any
\* order, yet the jar never keeps a revoked token: unless a reset revoked
\* it, a reply that replaces or clears it is on its way or was lost
\* (handler.go:143, 147, 158).
JarHoldsACurrentToken ==
  \A b \in Browsers :
    LET k == cookie[b] IN
      k # None /\ refresh[k] = "revoked" =>
        k <= mark \/ b \in lost \/ Awaited(k, b)

\* What brings a request that has begun closer to its reply.  A failure is
\* owed to no one, except where the bound on tokens stands in for one.
Proceed(t) ==
  \/ InvalidateLinks(t) \/ StoreLink(t)
  \/ IssueLogin(t)
  \/ Consume(t) \/ CommitRefresh(t)
  \/ issued = MaxTokens /\ RollbackRefresh(t)
  \/ Logout(t)
  \/ FindTokens(t) \/ CommitReset(t)
  \/ Deliver(t)

HoldsRows(t) == job[t].step = "consumed" \/ InReset(t)

\* The waits for row locks never close into a circle (service.go:235): while a
\* request that has begun cannot go on, one that holds rows can.
NobodyWaitsInACircle ==
  \A t \in Tabs : job[t] # Idle /\ ~ENABLED Proceed(t) =>
    \E u \in Tabs : HoldsRows(u) /\ ENABLED Proceed(u)
=============================================================================
