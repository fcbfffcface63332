-------------------------- MODULE Sessions_proofs --------------------------
(***************************************************************************)
(* What Sessions guarantees for any number of tabs, browsers, tokens and   *)
(* links.                                                                  *)
(***************************************************************************)
EXTENDS Sessions, FiniteSetTheorems, TLAPS

-----------------------------------------------------------------------------
(* Types.                                                                  *)

LEMMA IdleType == Idle \in Jobs
BY SessionAssumption DEF Idle, Jobs, Steps, Purposes, None

\* A refresh that reached the database has a token to show for it.  TypeOK
\* needs it: CommitRefresh looks up the login of that token.
Presents ==
  \A t \in Tabs : job[t].step \in {"presented", "consumed"} => job[t].token \in Tokens

LEMMA TypeInit == Init => TypeOK
<1>. SUFFICES ASSUME Init PROVE TypeOK
  OBVIOUS
<1>. USE DEF Init
<1>1. job \in [Tabs -> Jobs]
  BY IdleType
<1>2. /\ \A p \in Purposes : links[p] \in [Links(p) -> LinkState]
      /\ DOMAIN links = Purposes
  BY DEF LinkState
<1>3. refresh \in [Tokens -> TokenState] /\ login \in [Tokens -> 0..MaxTokens]
  BY SessionAssumption DEF TokenState, None
<1>4. cookie \in [Browsers -> 0..MaxTokens]
  BY SessionAssumption DEF None
<1>5. issued \in 0..MaxTokens /\ mark \in 0..MaxTokens
  BY SessionAssumption
<1>. QED  BY <1>1, <1>2, <1>3, <1>4, <1>5 DEF TypeOK

LEMMA TypeNext == TypeOK /\ Presents /\ [Next]_vars => TypeOK'
<1>. SUFFICES ASSUME TypeOK, Presents, [Next]_vars PROVE TypeOK'
  OBVIOUS
<1>. USE SessionAssumption, IdleType DEF TypeOK
<1>1. ASSUME NEW type \in ProfileTypes, Register(type) PROVE TypeOK'
  BY <1>1 DEF Register, Store, LinkState, Purposes, tokens, client
<1>2. ASSUME NEW l \in Links("verify_email"), VerifyEmail(l) PROVE TypeOK'
  BY <1>2 DEF VerifyEmail, LinkState, Purposes, tokens, client
<1>3. ASSUME NEW t \in Tabs, Send(t) PROVE TypeOK'
  <2>1. ASSUME NEW p \in Purposes, Ask(t, p) PROVE TypeOK'
    <3>1. [Idle EXCEPT !.step = "asking", !.purpose = p] \in Jobs
      BY DEF Jobs, Steps
    <3>. QED  BY <2>1, <3>1 DEF Ask, account, tokens, client
  <2>2. ASSUME StartLogin(t) PROVE TypeOK'
    <3>0. None \in 0..MaxTokens
      BY DEF None
    <3>1. [Idle EXCEPT !.step = "checked", !.token = None] \in Jobs
      BY <3>0 DEF Jobs, Steps
    <3>. QED  BY <2>2, <3>1 DEF StartLogin, Start, account, tokens, client
  <2>3. Sent(t) \in 0..MaxTokens
    BY DEF Sent
  <2>4. ASSUME StartRefresh(t) PROVE TypeOK'
    <3>. DEFINE step == IF Sent(t) = None THEN "refused" ELSE "presented"
    <3>1. [Idle EXCEPT !.step = step, !.token = Sent(t)] \in Jobs
      BY <2>3 DEF Jobs, Steps
    <3>. QED  BY <2>4, <3>1 DEF StartRefresh, Start, account, tokens, client
  <2>5. ASSUME StartLogout(t) PROVE TypeOK'
    <3>1. [Idle EXCEPT !.step = "leaving", !.token = Sent(t)] \in Jobs
      BY <2>3 DEF Jobs, Steps
    <3>. QED  BY <2>5, <3>1 DEF StartLogout, Start, account, tokens, client
  <2>6. ASSUME NEW l \in Links("reset_password"), StartReset(t, l) PROVE TypeOK'
    <3>0. "reset_password" \in Purposes /\ l \in Nat
      BY DEF Purposes, Links
    <3>1. [Idle EXCEPT !.step = "resetting", !.purpose = "reset_password",
                       !.link = l] \in Jobs
      BY <3>0 DEF Jobs, Steps
    <3>. QED  BY <2>6, <3>1 DEF StartReset, account, tokens, client
  <2>7. ASSUME NEW type \in ProfileTypes, AddProfile(t, type) PROVE TypeOK'
    BY <2>7 DEF AddProfile, tokens, client
  <2>. QED  BY <1>3, <2>1, <2>2, <2>4, <2>5, <2>6, <2>7 DEF Send
<1>4. ASSUME NEW t \in Tabs, Serve(t) PROVE TypeOK'
  <2>. job[t] \in Jobs
    OBVIOUS
  <2>a. ASSUME NEW step \in Steps, Become(t, step) PROVE job' \in [Tabs -> Jobs]
    <3>1. [job[t] EXCEPT !.step = step] \in Jobs
      BY DEF Jobs
    <3>. QED  BY <2>a, <3>1 DEF Become
  <2>b. ASSUME End(t) PROVE job' \in [Tabs -> Jobs]
    BY <2>b DEF End
  <2>c. ASSUME issued < MaxTokens
        PROVE  issued + 1 \in 0..MaxTokens /\ issued + 1 \in Tokens
    BY <2>c DEF Tokens
  <2>d. ASSUME issued < MaxTokens,
               job' = [job EXCEPT ![t].step = "granted", ![t].new = issued + 1]
        PROVE  job' \in [Tabs -> Jobs]
    <3>1. [job[t] EXCEPT !.step = "granted", !.new = issued + 1] \in Jobs
      BY <2>c, <2>d DEF Jobs, Steps
    <3>. QED  BY <2>d, <3>1
  <2>1. ASSUME InvalidateLinks(t) PROVE TypeOK'
    <3>1. job' \in [Tabs -> Jobs]
      BY <2>1, <2>a DEF InvalidateLinks, Steps
    <3>2. job[t].purpose \in Purposes
      BY DEF Jobs
    <3>3. /\ \A p \in Purposes : links'[p] \in [Links(p) -> LinkState]
          /\ DOMAIN links' = Purposes
      BY <2>1, <3>2, ZenonT(30) DEF InvalidateLinks, LinkState
    <3>. QED  BY <2>1, <3>1, <3>3 DEF InvalidateLinks, account, tokens, client
  <2>2. ASSUME StoreLink(t) PROVE TypeOK'
    <3>1. job' \in [Tabs -> Jobs]
      BY <2>2, <2>b DEF StoreLink
    <3>2. job[t].purpose \in Purposes
      BY DEF Jobs
    <3>3. /\ \A p \in Purposes : links'[p] \in [Links(p) -> LinkState]
          /\ DOMAIN links' = Purposes
      <4>1. ASSUME NEW l \in Links(job[t].purpose), Store(job[t].purpose, l)
            PROVE  /\ \A p \in Purposes : links'[p] \in [Links(p) -> LinkState]
                   /\ DOMAIN links' = Purposes
        BY <3>2, <4>1 DEF Store, LinkState
      <4>. QED  BY <2>2, <4>1 DEF StoreLink
    <3>. QED  BY <2>2, <3>1, <3>3 DEF StoreLink, account, tokens, client
  <2>3. ASSUME IssueLogin(t) PROVE TypeOK'
    <3>1. job' \in [Tabs -> Jobs]
      BY <2>3, <2>b, <2>d DEF IssueLogin
    <3>2. refresh' \in [Tokens -> TokenState] /\ issued' \in 0..MaxTokens
          /\ login' \in [Tokens -> 0..MaxTokens]
      BY <2>3, <2>c DEF IssueLogin, Issue, TokenState, tokens
    <3>. QED  BY <2>3, <3>1, <3>2 DEF IssueLogin, account, client
  <2>4. ASSUME Consume(t) PROVE TypeOK'
    <3>1. job' \in [Tabs -> Jobs]
      BY <2>4, <2>a DEF Consume, Steps
    <3>. QED  BY <2>4, <3>1 DEF Consume, account, tokens, client
  <2>5. ASSUME CommitRefresh(t) PROVE TypeOK'
    <3>1. job' \in [Tabs -> Jobs]
      BY <2>5, <2>a, <2>d DEF CommitRefresh, Steps
    <3>2. refresh' \in [Tokens -> TokenState]
      BY <2>5 DEF CommitRefresh, TokenState
    <3>3. PICK first : login' = [login EXCEPT ![issued + 1] = first]
                       /\ first = login[job[t].token]
      BY <2>5 DEF CommitRefresh, Issue
    <3>4. job[t].token \in Tokens
      BY <2>5 DEF CommitRefresh, Presents
    <3>5. login' \in [Tokens -> 0..MaxTokens]
      BY <3>3, <3>4
    <3>. QED  BY <2>5, <2>c, <3>1, <3>2, <3>5
              DEF CommitRefresh, Issue, account, client
  <2>6. ASSUME RollbackRefresh(t) PROVE TypeOK'
    <3>1. job' \in [Tabs -> Jobs]
      BY <2>6, <2>a DEF RollbackRefresh, Steps
    <3>. QED  BY <2>6, <3>1 DEF RollbackRefresh, account, tokens, client
  <2>7. ASSUME Logout(t) PROVE TypeOK'
    <3>1. job' \in [Tabs -> Jobs]
      BY <2>7, <2>a DEF Logout, Steps
    <3>2. refresh' \in [Tokens -> TokenState]
      BY <2>7 DEF Logout, TokenState
    <3>. QED  BY <2>7, <3>1, <3>2 DEF Logout, account, client
  <2>8. ASSUME FindTokens(t) PROVE TypeOK'
    <3>. DEFINE found == {k \in Tokens : refresh[k] \in {"live", "expired"}}
    <3>1. [job[t] EXCEPT !.step = "revoking", !.seen = issued,
                         !.doomed = found] \in Jobs
      BY DEF Jobs, Steps
    <3>2. job' \in [Tabs -> Jobs]
      BY <2>8, <3>1 DEF FindTokens
    <3>. QED  BY <2>8, <3>2 DEF FindTokens, account, tokens, client
  <2>9. ASSUME CommitReset(t) PROVE TypeOK'
    <3>1. job' \in [Tabs -> Jobs]
      BY <2>9, <2>a DEF CommitReset, Steps
    <3>2. job[t].seen \in 0..MaxTokens
      BY DEF Jobs
    <3>3. /\ \A p \in Purposes : links'[p] \in [Links(p) -> LinkState]
          /\ DOMAIN links' = Purposes
      BY <2>9 DEF CommitReset, LinkState
    <3>4. refresh' \in [Tokens -> TokenState]
      BY <2>9 DEF CommitReset, TokenState
    <3>. QED  BY <2>9, <3>1, <3>2, <3>3, <3>4 DEF CommitReset, client
  <2>10. ASSUME RollbackReset(t) PROVE TypeOK'
    BY <2>10, <2>b DEF RollbackReset, account, tokens, client
  <2>11. ASSUME Deliver(t) PROVE TypeOK'
    <3>1. job' \in [Tabs -> Jobs]
      BY <2>11, <2>b DEF Deliver
    <3>2. cookie' \in [Browsers -> 0..MaxTokens]
      BY <2>11 DEF Deliver, None, Jobs
    <3>3. access' \subseteq Tabs
      BY <2>11 DEF Deliver
    <3>. QED  BY <2>11, <3>1, <3>2, <3>3 DEF Deliver, account, tokens
  <2>. QED  BY <1>4, <2>1, <2>2, <2>3, <2>4, <2>5, <2>6, <2>7, <2>8, <2>9,
               <2>10, <2>11 DEF Serve
<1>5. ASSUME NEW t \in Tabs, Lose(t) PROVE TypeOK'
  BY <1>5 DEF Lose, End, account, tokens
<1>6. ASSUME NEW t \in Tabs, AccessEnds(t) PROVE TypeOK'
  BY <1>6 DEF AccessEnds, account, tokens
<1>7. ASSUME NEW k \in Tokens, ExpireToken(k) PROVE TypeOK'
  BY <1>7 DEF ExpireToken, TokenState, account, client
<1>8. ASSUME NEW p \in Purposes, NEW l \in Links(p), ExpireLink(p, l) PROVE TypeOK'
  BY <1>8 DEF ExpireLink, LinkState, account, tokens, client
<1>9. CASE UNCHANGED vars
  BY <1>9 DEF vars, account, tokens, client
<1>. QED  BY <1>1, <1>2, <1>3, <1>4, <1>5, <1>6, <1>7, <1>8, <1>9 DEF Next

LEMMA PresentsNext == TypeOK /\ Presents /\ [Next]_vars => Presents'
<1>. SUFFICES ASSUME TypeOK, Presents, [Next]_vars PROVE Presents'
  OBVIOUS
<1>. USE DEF Presents
<1>a. job \in [Tabs -> Jobs] /\ cookie \in [Browsers -> 0..MaxTokens]
  BY DEF TypeOK
<1>b. CASE UNCHANGED job
  BY <1>b
<1>c. ASSUME NEW t \in Tabs,
             \A u \in Tabs \ {t} : job'[u] = job[u],
             job'[t].step \in {"presented", "consumed"} => job'[t].token \in Tokens
      PROVE  Presents'
  BY <1>c
<1>1. ASSUME NEW t \in Tabs, Send(t) PROVE Presents'
  <2>1. ASSUME NEW p \in Purposes, Ask(t, p) PROVE Presents'
    BY <1>a, <1>c, <2>1 DEF Ask, Idle
  <2>2. CASE StartLogin(t)
    BY <1>a, <1>c, <2>2 DEF StartLogin, Start, Idle
  <2>3. CASE StartRefresh(t)
    <3>1. Sent(t) \in 0..MaxTokens
      BY <1>a, SessionAssumption DEF Sent
    <3>2. Sent(t) # None => Sent(t) \in Tokens
      BY <3>1, SessionAssumption DEF None, Tokens
    <3>. QED  BY <1>a, <1>c, <2>3, <3>2 DEF StartRefresh, Start, Idle
  <2>4. CASE StartLogout(t)
    BY <1>a, <1>c, <2>4 DEF StartLogout, Start, Idle
  <2>5. ASSUME NEW l \in Links("reset_password"), StartReset(t, l) PROVE Presents'
    BY <1>a, <1>c, <2>5 DEF StartReset, Idle
  <2>6. ASSUME NEW type \in ProfileTypes, AddProfile(t, type) PROVE Presents'
    BY <1>b, <2>6 DEF AddProfile
  <2>. QED  BY <1>1, <2>1, <2>2, <2>3, <2>4, <2>5, <2>6 DEF Send
<1>2. ASSUME NEW t \in Tabs, Serve(t) PROVE Presents'
  <2>a. ASSUME NEW step \in Steps \ {"presented"}, Become(t, step),
               step = "consumed" => job[t].step = "presented"
        PROVE  Presents'
    BY <1>a, <1>c, <2>a DEF Become, Jobs
  <2>b. CASE End(t)
    BY <1>a, <1>c, <2>b DEF End, Idle
  <2>c. ASSUME job' = [job EXCEPT ![t].step = "granted", ![t].new = issued + 1]
        PROVE  Presents'
    BY <1>a, <1>c, <2>c DEF Jobs
  <2>1. CASE InvalidateLinks(t)
    BY <2>1, <2>a DEF InvalidateLinks, Steps
  <2>2. CASE StoreLink(t)
    BY <2>2, <2>b DEF StoreLink
  <2>3. CASE IssueLogin(t)
    BY <2>3, <2>b, <2>c DEF IssueLogin
  <2>4. CASE Consume(t)
    BY <2>4, <2>a DEF Consume, Steps
  <2>5. CASE CommitRefresh(t)
    BY <2>5, <2>a, <2>c DEF CommitRefresh, Steps
  <2>6. CASE RollbackRefresh(t)
    BY <2>6, <2>a DEF RollbackRefresh, Steps
  <2>7. CASE Logout(t)
    BY <2>7, <2>a DEF Logout, Steps
  <2>8. CASE FindTokens(t)
    BY <1>a, <1>c, <2>8 DEF FindTokens, Jobs
  <2>9. CASE CommitReset(t)
    BY <2>9, <2>a DEF CommitReset, Steps
  <2>10. CASE RollbackReset(t)
    BY <2>10, <2>b DEF RollbackReset
  <2>11. CASE Deliver(t)
    BY <2>11, <2>b DEF Deliver
  <2>. QED  BY <1>2, <2>1, <2>2, <2>3, <2>4, <2>5, <2>6, <2>7, <2>8, <2>9,
               <2>10, <2>11 DEF Serve
<1>3. ASSUME NEW t \in Tabs, Lose(t) PROVE Presents'
  BY <1>a, <1>c, <1>3 DEF Lose, End, Idle
<1>4. ASSUME \/ \E type \in ProfileTypes : Register(type)
             \/ \E l \in Links("verify_email") : VerifyEmail(l)
             \/ \E t \in Tabs : AccessEnds(t)
             \/ \E k \in Tokens : ExpireToken(k)
             \/ \E p \in Purposes : \E l \in Links(p) : ExpireLink(p, l)
             \/ UNCHANGED vars
      PROVE  Presents'
  BY <1>b, <1>4 DEF Register, VerifyEmail, AccessEnds, ExpireToken, ExpireLink, vars
<1>. QED  BY <1>1, <1>2, <1>3, <1>4 DEF Next

\* Every variable keeps its type whatever the bounds.
THEOREM SessionTypes == Spec => []TypeOK
<1>1. Init => Presents
  BY DEF Init, Presents, Idle
<1>. QED  BY <1>1, TypeInit, TypeNext, PresentsNext, PTL DEF Spec

-----------------------------------------------------------------------------
(* Rotation.  Alone, OneLivePerLogin is not inductive: two refreshes could *)
(* hold one token and store two, or a token could be live before it is     *)
(* issued.  Rotation adds what the row locks give: a held token is live    *)
(* and held once; and for the reset: what its UPDATE found is at least     *)
(* everything alive among the tokens there were.                           *)

Unissued ==
  \A k \in Tokens : /\ k > issued => refresh[k] # "live" /\ login[k] = None
                    /\ login[k] <= issued

Holds(t, k) == job[t].step = "consumed" /\ job[t].token = k

HeldIsLive == \A t \in Tabs, k \in Tokens : Holds(t, k) => refresh[k] = "live"

HeldOnce == \A s, t \in Tabs, k \in Tokens : Holds(s, k) /\ Holds(t, k) => s = t

FoundAll ==
  \A t \in Tabs : job[t].step = "revoking" =>
    /\ job[t].seen <= issued
    /\ \A k \in Tokens : k <= job[t].seen /\ refresh[k] = "live" => k \in job[t].doomed

Rotation ==
  /\ Unissued
  /\ HeldIsLive
  /\ HeldOnce
  /\ FoundAll
  /\ OneLivePerLogin
  /\ mark <= issued /\ ResetEndsSessions

LEMMA RotationInit == Init => Rotation
<1>. SUFFICES ASSUME Init PROVE Rotation
  OBVIOUS
<1>1. refresh = [k \in Tokens |-> "absent"] /\ login = [k \in Tokens |-> None]
      /\ issued = 0 /\ mark = 0
  BY DEF Init
<1>2. \A t \in Tabs : job[t].step = "idle"
  BY DEF Init, Idle
<1>. QED  BY <1>1, <1>2 DEF Rotation, Unissued, Holds, HeldIsLive, HeldOnce, FoundAll,
          OneLivePerLogin, LiveTokens, ResetEndsSessions, None

\* Steps that leave the tokens alone.
LEMMA QuietStep ==
  ASSUME Rotation, UNCHANGED <<tokens, mark>>, NEW t \in Tabs,
         \A u \in Tabs \ {t} : job'[u] = job[u],
         job'[t] = job[t] \/ job'[t].step \notin {"consumed", "revoking"}
  PROVE  Rotation'
<1>1. refresh' = refresh /\ issued' = issued /\ login' = login /\ mark' = mark
  BY DEF tokens
<1>2. \A u \in Tabs, k \in Tokens : Holds(u, k)' => Holds(u, k)
  BY DEF Holds
<1>3. HeldIsLive' /\ HeldOnce'
  BY <1>1, <1>2 DEF Rotation, HeldIsLive, HeldOnce
<1>4. FoundAll'
  BY <1>1 DEF Rotation, FoundAll
<1>. QED  BY <1>1, <1>3, <1>4 DEF Rotation, Unissued, OneLivePerLogin, LiveTokens,
          ResetEndsSessions

\* Steps that only take life from tokens, and from no held one.
LEMMA FadingStep ==
  ASSUME Rotation, NEW t \in Tabs,
         issued' = issued, login' = login, mark' = mark,
         \A k \in Tokens : refresh'[k] = "live" => refresh[k] = "live",
         \A k \in Tokens : Held(k) => refresh'[k] = refresh[k],
         \A u \in Tabs \ {t} : job'[u] = job[u],
         job'[t] = job[t] \/ job'[t].step \notin {"consumed", "revoking"}
  PROVE  Rotation'
<1>1. \A u \in Tabs, k \in Tokens : Holds(u, k)' => Holds(u, k)
  BY DEF Holds
<1>2. \A u \in Tabs, k \in Tokens : Holds(u, k) => Held(k)
  BY DEF Holds, Held
<1>3. HeldIsLive' /\ HeldOnce'
  BY <1>1, <1>2 DEF Rotation, HeldIsLive, HeldOnce
<1>4. FoundAll'
  BY DEF Rotation, FoundAll
<1>5. Unissued'
  BY DEF Rotation, Unissued
<1>6. OneLivePerLogin' /\ (mark <= issued /\ ResetEndsSessions)'
  BY DEF Rotation, OneLivePerLogin, LiveTokens, ResetEndsSessions
<1>. QED  BY <1>3, <1>4, <1>5, <1>6 DEF Rotation

\* A login stores a token of its own.
LEMMA IssueLoginKeeps ==
  ASSUME TypeOK, Rotation, NEW t \in Tabs, IssueLogin(t)
  PROVE  Rotation'
<1>1. CASE End(t) /\ UNCHANGED tokens
  BY <1>1, QuietStep DEF IssueLogin, End, Idle, TypeOK
<1>2. CASE /\ issued < MaxTokens
           /\ refresh' = [refresh EXCEPT ![issued + 1] = "live"]
           /\ Issue(issued + 1, issued + 1)
           /\ \/ End(t)
              \/ job' = [job EXCEPT ![t].step = "granted", ![t].new = issued + 1]
  <2>. DEFINE new == issued + 1
  <2>1. issued \in Nat /\ new \in Tokens /\ mark' = mark /\ issued' = new
    BY <1>2, SessionAssumption DEF TypeOK, Tokens, Issue, IssueLogin
  <2>2. \A k \in Tokens : k # new => refresh'[k] = refresh[k] /\ login'[k] = login[k]
    BY <1>2 DEF TypeOK, Issue
  <2>3. refresh'[new] = "live" /\ login'[new] = new /\ refresh[new] # "live"
    BY <1>2, <2>1 DEF TypeOK, Issue, Rotation, Unissued
  <2>4. /\ \A u \in Tabs \ {t} : job'[u] = job[u]
        /\ job'[t].step \notin {"consumed", "revoking"}
    BY <1>2 DEF End, Idle, TypeOK, Jobs
  <2>5. Unissued'
    <3>. SUFFICES ASSUME NEW k \in Tokens
                  PROVE  /\ k > new => refresh'[k] # "live" /\ login'[k] = None
                         /\ login'[k] <= new
      BY <2>1 DEF Unissued
    <3>1. k \in Nat /\ login[k] \in Nat
      BY SessionAssumption DEF Tokens, TypeOK
    <3>. QED  BY <2>1, <2>2, <2>3, <3>1 DEF Rotation, Unissued
  <2>6. \A u \in Tabs, k \in Tokens : Holds(u, k)' => Holds(u, k)
    BY <2>4 DEF Holds
  <2>7. HeldIsLive' /\ HeldOnce'
    BY <2>2, <2>3, <2>6 DEF Rotation, HeldIsLive, HeldOnce
  <2>8. FoundAll'
    <3>. SUFFICES ASSUME NEW u \in Tabs, (job[u].step = "revoking")'
                  PROVE  /\ (job[u].seen <= issued)'
                         /\ \A k \in Tokens : (k <= job[u].seen /\ refresh[k] = "live")'
                                               => (k \in job[u].doomed)'
      BY DEF FoundAll
    <3>1. u # t /\ job'[u] = job[u]
      BY <2>4
    <3>2. job[u].seen \in Nat /\ job[u].seen <= issued
      BY <3>1, SessionAssumption DEF Rotation, FoundAll, TypeOK, Jobs
    <3>. QED  BY <2>1, <2>2, <3>1, <3>2 DEF Rotation, FoundAll
  <2>9. OneLivePerLogin'
    <3>1. \A k \in Tokens : login[k] <= issued /\ login[k] \in Nat
      BY SessionAssumption DEF Rotation, Unissued, TypeOK
    <3>. QED  BY <2>1, <2>2, <2>3, <3>1 DEF Rotation, OneLivePerLogin, LiveTokens
  <2>10. (mark <= issued /\ ResetEndsSessions)'
    BY <2>1, <2>2, SessionAssumption DEF Rotation, ResetEndsSessions, TypeOK, Tokens
  <2>. QED  BY <2>5, <2>7, <2>8, <2>9, <2>10 DEF Rotation
<1>. QED  BY <1>1, <1>2 DEF IssueLogin

\* A refresh puts one token in the place of the one it holds.
LEMMA CommitRefreshKeeps ==
  ASSUME TypeOK, Presents, Rotation, NEW t \in Tabs, CommitRefresh(t)
  PROVE  Rotation'
<1>. DEFINE old == job[t].token
            new == issued + 1
<1>1. /\ issued \in Nat /\ issued < MaxTokens /\ new \in Tokens
      /\ mark' = mark /\ issued' = new
  BY SessionAssumption DEF TypeOK, Tokens, Issue, CommitRefresh
<1>2. old \in Tokens /\ Holds(t, old) /\ refresh[old] = "live"
  BY DEF CommitRefresh, Presents, Rotation, HeldIsLive, Holds
<1>3. refresh[new] # "live" /\ old # new
  BY <1>1, <1>2 DEF Rotation, Unissued
<1>4. refresh' = [refresh EXCEPT ![old] = "revoked", ![new] = "live"]
      /\ login' = [login EXCEPT ![new] = login[old]]
  BY DEF CommitRefresh, Issue
<1>5. /\ \A k \in Tokens \ {old, new} : refresh'[k] = refresh[k]
      /\ \A k \in Tokens \ {new} : login'[k] = login[k]
      /\ refresh'[old] = "revoked" /\ refresh'[new] = "live"
      /\ login'[new] = login[old]
  BY <1>1, <1>2, <1>3, <1>4 DEF TypeOK
<1>6. /\ \A u \in Tabs \ {t} : job'[u] = job[u]
      /\ job'[t].step \notin {"consumed", "revoking"}
  BY DEF CommitRefresh, Become, TypeOK, Jobs
<1>7. \A k \in Tokens : login[k] \in Nat /\ login[k] <= issued /\ k \in Nat
  BY SessionAssumption DEF Rotation, Unissued, TypeOK, Tokens
<1>8. Unissued'
  <2>. SUFFICES ASSUME NEW k \in Tokens
                PROVE  /\ k > new => refresh'[k] # "live" /\ login'[k] = None
                       /\ login'[k] <= new
    BY <1>1 DEF Unissued
  <2>1. CASE k = new
    <3>0. login'[k] = login[old]
      BY <2>1, <1>5
    <3>a. login[old] \in Nat /\ login[old] <= issued
      BY <1>2, <1>7
    <3>1. login'[k] = login[old] /\ login[old] <= new
      BY <3>0, <3>a, <1>1
    <3>2. ~(new > new)
      BY <1>1
    <3>. QED  BY <2>1, <3>1, <3>2
  <2>2. CASE k # new
    <3>1. login'[k] = login[k] /\ login[k] <= new
      BY <2>2, <1>1, <1>5, <1>7
    <3>2. k > new => k > issued
      BY <1>1, <1>7
    <3>3. k > issued => refresh[k] # "live" /\ login[k] = None
      BY DEF Rotation, Unissued
    <3>4. k > issued => k # old
      BY <1>2, <3>3
    <3>5. k > issued => refresh'[k] = refresh[k]
      BY <2>2, <3>4, <1>5
    <3>. QED  BY <3>1, <3>2, <3>3, <3>5
  <2>. QED  BY <2>1, <2>2
<1>9. \A u \in Tabs, k \in Tokens : Holds(u, k)' => Holds(u, k) /\ u # t
  BY <1>6 DEF Holds
<1>10. HeldIsLive'
  <2>. SUFFICES ASSUME NEW u \in Tabs, NEW k \in Tokens, Holds(u, k)'
                PROVE  refresh'[k] = "live"
    BY DEF HeldIsLive
  <2>1. Holds(u, k) /\ u # t
    BY <1>9
  <2>2. refresh[k] = "live" /\ k # old
    BY <2>1, <1>2 DEF Rotation, HeldIsLive, HeldOnce
  <2>. QED  BY <2>2, <1>3, <1>5
<1>11. HeldOnce'
  BY <1>9 DEF Rotation, HeldOnce
<1>12. FoundAll'
  <2>. SUFFICES ASSUME NEW u \in Tabs, (job[u].step = "revoking")'
                PROVE  /\ (job[u].seen <= issued)'
                       /\ \A k \in Tokens : (k <= job[u].seen /\ refresh[k] = "live")'
                                             => (k \in job[u].doomed)'
    BY DEF FoundAll
  <2>1. u # t /\ job'[u] = job[u]
    BY <1>6
  <2>2. job[u].seen \in Nat /\ job[u].seen <= issued
    BY <2>1, SessionAssumption DEF Rotation, FoundAll, TypeOK, Jobs
  <2>. QED  BY <1>1, <1>5, <2>1, <2>2 DEF Rotation, FoundAll
<1>13. OneLivePerLogin'
  <2>. SUFFICES ASSUME NEW j \in Tokens, NEW k \in Tokens,
                       refresh'[j] = "live", refresh'[k] = "live", login'[j] = login'[k]
                PROVE  j = k
    BY DEF OneLivePerLogin, LiveTokens
  <2>1. \A i \in Tokens \ {new} : refresh'[i] = "live" =>
          i # old /\ refresh[i] = "live" /\ login'[i] = login[i] /\ login[i] # login[old]
    BY <1>2, <1>5 DEF Rotation, OneLivePerLogin, LiveTokens
  <2>. QED  BY <2>1, <1>5 DEF Rotation, OneLivePerLogin, LiveTokens
<1>14. (mark <= issued /\ ResetEndsSessions)'
  BY <1>1, <1>5, <1>7, SessionAssumption DEF Rotation, ResetEndsSessions, TypeOK
<1>. QED  BY <1>8, <1>10, <1>11, <1>12, <1>13, <1>14 DEF Rotation

\* Consuming a token takes its row, which nobody else holds.
LEMMA ConsumeKeeps ==
  ASSUME TypeOK, Presents, Rotation, NEW t \in Tabs, Consume(t)
  PROVE  Rotation'
<1>1. refresh' = refresh /\ issued' = issued /\ login' = login /\ mark' = mark
  BY DEF Consume, tokens
<1>2. /\ \A u \in Tabs \ {t} : job'[u] = job[u]
      /\ job'[t].step \in {"consumed", "refused"} /\ job'[t].token = job[t].token
      /\ job'[t].step = "consumed" => refresh[job[t].token] = "live"
  BY DEF Consume, Become, TypeOK, Jobs
<1>3. \A u \in Tabs : ~Holds(u, job[t].token)
  BY DEF Consume, Held, Holds
<1>4. HeldIsLive' /\ HeldOnce'
  BY <1>1, <1>2, <1>3 DEF Rotation, HeldIsLive, HeldOnce, Holds
<1>5. FoundAll'
  BY <1>1, <1>2 DEF Rotation, FoundAll
<1>. QED  BY <1>1, <1>4, <1>5 DEF Rotation, Unissued, OneLivePerLogin, LiveTokens,
          ResetEndsSessions

\* The UPDATE of a reset finds every live row there is.
LEMMA FindTokensKeeps ==
  ASSUME TypeOK, Rotation, NEW t \in Tabs, FindTokens(t)
  PROVE  Rotation'
<1>1. refresh' = refresh /\ issued' = issued /\ login' = login /\ mark' = mark
  BY DEF FindTokens, tokens
<1>2. /\ \A u \in Tabs \ {t} : job'[u] = job[u]
      /\ job'[t].step = "revoking" /\ job'[t].seen = issued
      /\ job'[t].doomed = {k \in Tokens : refresh[k] \in {"live", "expired"}}
  BY DEF FindTokens, TypeOK, Jobs
<1>3. issued \in Nat
  BY SessionAssumption DEF TypeOK
<1>4. \A u \in Tabs, k \in Tokens : Holds(u, k)' => Holds(u, k)
  BY <1>2 DEF Holds
<1>5. HeldIsLive' /\ HeldOnce'
  BY <1>1, <1>4 DEF Rotation, HeldIsLive, HeldOnce
<1>6. FoundAll'
  BY <1>1, <1>2, <1>3 DEF Rotation, FoundAll
<1>. QED  BY <1>1, <1>5, <1>6 DEF Rotation, Unissued, OneLivePerLogin, LiveTokens,
          ResetEndsSessions

\* Its COMMIT revokes what it found, and waits for what is held.
LEMMA CommitResetKeeps ==
  ASSUME TypeOK, Rotation, NEW t \in Tabs, CommitReset(t)
  PROVE  Rotation'
<1>1. /\ issued' = issued /\ login' = login /\ mark' = job[t].seen
      /\ refresh' = [k \in Tokens |-> IF k \in job[t].doomed THEN "revoked"
                                       ELSE refresh[k]]
      /\ \A k \in job[t].doomed : ~Held(k)
  BY DEF CommitReset
<1>2. /\ \A u \in Tabs \ {t} : job'[u] = job[u]
      /\ job'[t].step = "changed"
  BY DEF CommitReset, Become, TypeOK, Jobs
<1>3. \A k \in Tokens : /\ refresh'[k] = "live" => refresh[k] = "live"
                        /\ Held(k) => refresh'[k] = refresh[k]
  BY <1>1
<1>4. \A u \in Tabs, k \in Tokens : Holds(u, k)' => Holds(u, k) /\ Held(k)
  BY <1>2 DEF Holds, Held
<1>5. HeldIsLive' /\ HeldOnce'
  BY <1>3, <1>4 DEF Rotation, HeldIsLive, HeldOnce
<1>6. FoundAll'
  BY <1>1, <1>2, <1>3 DEF Rotation, FoundAll
<1>7. Unissued' /\ OneLivePerLogin'
  BY <1>1, <1>3 DEF Rotation, Unissued, OneLivePerLogin, LiveTokens
<1>8. (mark <= issued /\ ResetEndsSessions)'
  <2>1. job[t].seen <= issued
        /\ \A k \in Tokens : k <= job[t].seen /\ refresh[k] = "live" => k \in job[t].doomed
    BY DEF CommitReset, Rotation, FoundAll
  <2>. QED  BY <1>1, <2>1 DEF ResetEndsSessions
<1>. QED  BY <1>5, <1>6, <1>7, <1>8 DEF Rotation

LEMMA RotationNext == TypeOK /\ Presents /\ Rotation /\ [Next]_vars => Rotation'
<1>. SUFFICES ASSUME TypeOK, Presents, Rotation, [Next]_vars PROVE Rotation'
  OBVIOUS
<1>a. job \in [Tabs -> Jobs]
  BY DEF TypeOK
<1>1. ASSUME NEW t \in Tabs, Send(t) PROVE Rotation'
  <2>1. UNCHANGED <<tokens, mark>>
    BY <1>1 DEF Send, Ask, StartLogin, StartRefresh, StartLogout, StartReset, AddProfile
  <2>2. ASSUME NEW p \in Purposes, Ask(t, p) PROVE Rotation'
    BY <1>a, <2>1, <2>2, QuietStep DEF Ask, Idle
  <2>3. CASE StartLogin(t)
    BY <1>a, <2>1, <2>3, QuietStep DEF StartLogin, Start, Idle
  <2>4. CASE StartRefresh(t)
    BY <1>a, <2>1, <2>4, QuietStep DEF StartRefresh, Start, Idle
  <2>5. CASE StartLogout(t)
    BY <1>a, <2>1, <2>5, QuietStep DEF StartLogout, Start, Idle
  <2>6. ASSUME NEW l \in Links("reset_password"), StartReset(t, l) PROVE Rotation'
    BY <1>a, <2>1, <2>6, QuietStep DEF StartReset, Idle
  <2>7. ASSUME NEW type \in ProfileTypes, AddProfile(t, type) PROVE Rotation'
    BY <2>1, <2>7, QuietStep DEF AddProfile
  <2>. QED  BY <1>1, <2>2, <2>3, <2>4, <2>5, <2>6, <2>7 DEF Send
<1>2. ASSUME NEW t \in Tabs, Serve(t) PROVE Rotation'
  <2>a. ASSUME NEW step \in Steps \ {"consumed", "revoking"}, Become(t, step)
        PROVE  /\ \A u \in Tabs \ {t} : job'[u] = job[u]
               /\ job'[t].step \notin {"consumed", "revoking"}
    BY <1>a, <2>a DEF Become, Jobs
  <2>b. ASSUME End(t)
        PROVE  /\ \A u \in Tabs \ {t} : job'[u] = job[u]
               /\ job'[t].step \notin {"consumed", "revoking"}
    BY <1>a, <2>b DEF End, Idle
  <2>1. CASE InvalidateLinks(t)
    BY <2>1, <2>a, QuietStep DEF InvalidateLinks, Steps
  <2>2. CASE StoreLink(t)
    BY <2>2, <2>b, QuietStep DEF StoreLink
  <2>3. CASE IssueLogin(t)
    BY <2>3, IssueLoginKeeps
  <2>4. CASE Consume(t)
    BY <2>4, ConsumeKeeps
  <2>5. CASE CommitRefresh(t)
    BY <2>5, CommitRefreshKeeps
  <2>6. CASE RollbackRefresh(t)
    BY <2>6, <2>a, QuietStep DEF RollbackRefresh, Steps
  <2>7. CASE Logout(t)
    <3>1. /\ \A u \in Tabs \ {t} : job'[u] = job[u]
          /\ job'[t].step \notin {"consumed", "revoking"}
      BY <2>7, <2>a DEF Logout, Steps
    <3>2. /\ \A k \in Tokens : refresh'[k] = "live" => refresh[k] = "live"
          /\ \A k \in Tokens : Held(k) => refresh'[k] = refresh[k]
      BY <2>7 DEF Logout, TypeOK
    <3>. QED  BY <2>7, <3>1, <3>2, FadingStep DEF Logout
  <2>8. CASE FindTokens(t)
    BY <2>8, FindTokensKeeps
  <2>9. CASE CommitReset(t)
    BY <2>9, CommitResetKeeps
  <2>10. CASE RollbackReset(t)
    BY <2>10, <2>b, QuietStep DEF RollbackReset
  <2>11. CASE Deliver(t)
    BY <2>11, <2>b, QuietStep DEF Deliver
  <2>. QED  BY <1>2, <2>1, <2>2, <2>3, <2>4, <2>5, <2>6, <2>7, <2>8, <2>9,
               <2>10, <2>11 DEF Serve
<1>3. ASSUME NEW t \in Tabs, Lose(t) PROVE Rotation'
  BY <1>a, <1>3, QuietStep DEF Lose, End, Idle
<1>4. ASSUME NEW k \in Tokens, ExpireToken(k) PROVE Rotation'
  <2>1. /\ \A i \in Tokens : refresh'[i] = "live" => refresh[i] = "live"
        /\ \A i \in Tokens : Held(i) => refresh'[i] = refresh[i]
        /\ issued' = issued /\ login' = login /\ mark' = mark /\ job' = job
    BY <1>4 DEF ExpireToken, TypeOK
  <2>2. CASE Tabs = {}
    BY <2>1, <2>2 DEF Rotation, Unissued, HeldIsLive, HeldOnce, FoundAll,
                      OneLivePerLogin, LiveTokens, ResetEndsSessions
  <2>3. ASSUME NEW t \in Tabs PROVE Rotation'
    BY <2>1, <2>3, FadingStep
  <2>. QED  BY <2>2, <2>3
<1>5. ASSUME UNCHANGED <<tokens, mark, job>> PROVE Rotation'
  BY <1>5 DEF tokens, Rotation, Unissued, Holds, HeldIsLive, HeldOnce, FoundAll,
              OneLivePerLogin, LiveTokens, ResetEndsSessions
<1>6. ASSUME \/ \E type \in ProfileTypes : Register(type)
             \/ \E l \in Links("verify_email") : VerifyEmail(l)
             \/ \E t \in Tabs : AccessEnds(t)
             \/ \E p \in Purposes : \E l \in Links(p) : ExpireLink(p, l)
             \/ UNCHANGED vars
      PROVE  Rotation'
  <2>1. UNCHANGED <<tokens, mark, job>>
    BY <1>6 DEF Register, VerifyEmail, AccessEnds, ExpireLink, vars, tokens
  <2>. QED  BY <2>1, <1>5
<1>. QED  BY <1>1, <1>2, <1>3, <1>4, <1>6 DEF Next

LEMMA RotationInvariant == Spec => [](TypeOK /\ Presents /\ Rotation)
<1>1. Init => Presents
  BY DEF Init, Presents, Idle
<1>. QED  BY <1>1, TypeInit, TypeNext, PresentsNext, RotationInit, RotationNext, PTL
          DEF Spec

\* A login never has two tokens that can be refreshed.
THEOREM OneTokenPerLogin == Spec => []OneLivePerLogin
<1>1. Rotation => OneLivePerLogin
  BY DEF Rotation
<1>. QED  BY <1>1, RotationInvariant, PTL

\* A committed reset leaves none of the earlier tokens alive.
THEOREM ResetRevokesAll == Spec => []ResetEndsSessions
<1>1. Rotation => ResetEndsSessions
  BY DEF Rotation
<1>. QED  BY <1>1, RotationInvariant, PTL

-----------------------------------------------------------------------------
(* A token comes to life only as a successor of a live one or as the first *)
(* of a login.                                                             *)

LEMMA BornOfLive ==
  ASSUME TypeOK, Presents, Rotation, [Next]_vars, NEW j \in Tokens, refresh'[j] = "live"
  PROVE  \/ refresh[j] = "live" /\ login'[j] = login[j]
         \/ \E old \in Tokens : refresh[old] = "live" /\ login'[j] = login[old]
         \/ login'[j] = j /\ login[j] = None
<1>. USE DEF TypeOK
<1>1. ASSUME NEW t \in Tabs, IssueLogin(t)
      PROVE  \/ refresh[j] = "live" /\ login'[j] = login[j]
             \/ login'[j] = j /\ login[j] = None
  <2>1. CASE UNCHANGED tokens
    BY <2>1 DEF tokens
  <2>2. CASE refresh' = [refresh EXCEPT ![issued + 1] = "live"]
             /\ Issue(issued + 1, issued + 1)
    <3>1. j > issued => login[j] = None
      BY DEF Rotation, Unissued
    <3>2. j = issued + 1 => j > issued
      BY SessionAssumption DEF Tokens
    <3>. QED  BY <2>2, <3>1, <3>2 DEF Issue
  <2>. QED  BY <1>1, <2>1, <2>2 DEF IssueLogin
<1>2. ASSUME NEW t \in Tabs, CommitRefresh(t)
      PROVE  \/ refresh[j] = "live" /\ login'[j] = login[j]
             \/ \E old \in Tokens : refresh[old] = "live" /\ login'[j] = login[old]
  <2>1. job[t].token \in Tokens /\ refresh[job[t].token] = "live"
    BY <1>2 DEF CommitRefresh, Presents, Rotation, HeldIsLive, Holds
  <2>. QED  BY <1>2, <2>1 DEF CommitRefresh, Issue
<1>3. ASSUME NEW t \in Tabs, Logout(t) \/ CommitReset(t)
      PROVE  refresh[j] = "live" /\ login'[j] = login[j]
  BY <1>3 DEF Logout, CommitReset
<1>4. ASSUME NEW k \in Tokens, ExpireToken(k)
      PROVE  refresh[j] = "live" /\ login'[j] = login[j]
  BY <1>4 DEF ExpireToken
<1>5. ASSUME UNCHANGED tokens PROVE refresh[j] = "live" /\ login'[j] = login[j]
  BY <1>5 DEF tokens
<1>6. ASSUME NEW t \in Tabs, Send(t) PROVE UNCHANGED tokens
  BY <1>6 DEF Send, Ask, StartLogin, StartRefresh, StartLogout, StartReset, AddProfile
<1>7. ASSUME NEW t \in Tabs, Serve(t) PROVE
        \/ UNCHANGED tokens
        \/ IssueLogin(t) \/ CommitRefresh(t) \/ Logout(t) \/ CommitReset(t)
  BY <1>7 DEF Serve, InvalidateLinks, StoreLink, Consume, RollbackRefresh, FindTokens,
              RollbackReset, Deliver
<1>8. CASE UNCHANGED vars
  BY <1>8, <1>5 DEF vars, tokens
<1>9. CASE \/ \E type \in ProfileTypes : Register(type)
           \/ \E l \in Links("verify_email") : VerifyEmail(l)
           \/ \E t \in Tabs : Lose(t) \/ AccessEnds(t)
           \/ \E p \in Purposes : \E l \in Links(p) : ExpireLink(p, l)
  BY <1>9, <1>5 DEF Register, VerifyEmail, Lose, AccessEnds, ExpireLink
<1>. QED  BY <1>1, <1>2, <1>3, <1>4, <1>5, <1>6, <1>7, <1>8, <1>9 DEF Next

\* A login that is over stays over, whatever is still under way.
THEOREM OverIsOver == Spec => ClosedForGood
<1>1. ASSUME TypeOK, Presents, Rotation, [Next]_vars
      PROVE  [\A k \in Tokens : login[k] = k /\ ~Open(k) => ~Open(k)']_vars
  <2>. SUFFICES ASSUME NEW k \in Tokens, login[k] = k, ~Open(k), Open(k)'
                PROVE  FALSE
    OBVIOUS
  <2>1. PICK j \in Tokens : refresh'[j] = "live" /\ login'[j] = k
    BY DEF Open, LiveTokens
  <2>2. k # None
    BY SessionAssumption DEF Tokens, None
  <2>3. ~(login'[j] = j /\ login[j] = None)
    BY <2>1, <2>2
  <2>4. \E i \in Tokens : refresh[i] = "live" /\ login[i] = k
    BY <1>1, <2>1, <2>3, BornOfLive
  <2>. QED  BY <2>4 DEF Open, LiveTokens
<1>. QED  BY <1>1, RotationInvariant, PTL DEF Spec, ClosedForGood

-----------------------------------------------------------------------------
(* Links.  The transaction of a reset holds the row of a live link, and no *)
(* two resets are open at once; so each COMMIT spends a link of its own.   *)

Reset == "reset_password"
Verify == "verify_email"
SpentLinks(p) == {l \in Links(p) : links[p][l] = "spent"}

LinksHeld ==
  /\ \A t \in Tabs : InReset(t) => job[t].link \in LiveLinks(Reset)
  /\ \A s, t \in Tabs : InReset(s) /\ InReset(t) => s = t

LinkInvariant == LinksHeld /\ LinksWorkOnce

LEMMA LinkInit == Init => LinkInvariant
<1>. SUFFICES ASSUME Init PROVE LinkInvariant
  OBVIOUS
<1>1. /\ links = [p \in Purposes |-> [l \in Links(p) |-> "absent"]]
      /\ password = 0 /\ verified = FALSE
      /\ \A t \in Tabs : job[t].step = "idle"
  BY DEF Init, Idle
<1>2. SpentLinks(Reset) = {} /\ SpentLinks(Verify) = {}
  BY <1>1 DEF SpentLinks, Purposes, Reset, Verify
<1>3. LinksHeld
  BY <1>1 DEF LinksHeld, InReset
<1>. QED  BY <1>1, <1>2, <1>3, FS_EmptySet DEF LinkInvariant, LinksWorkOnce, SpentLinks,
          Reset, Verify

\* Steps that spend no link and take the life of none that is held.
LEMMA LinkStep ==
  ASSUME TypeOK, LinkInvariant,
         password' = password, verified' = verified,
         \A p \in Purposes : \A l \in Links(p) : links'[p][l] = "spent" <=> links[p][l] = "spent",
         \A l \in Links(Reset) : HeldLink(Reset, l) => links'[Reset][l] = links[Reset][l],
         \A t \in Tabs : InReset(t)' => InReset(t) /\ job'[t].link = job[t].link
  PROVE  LinkInvariant'
<1>1. Reset \in Purposes /\ Verify \in Purposes
  BY DEF Reset, Verify, Purposes
<1>2. SpentLinks(Reset)' = SpentLinks(Reset) /\ SpentLinks(Verify)' = SpentLinks(Verify)
  BY <1>1 DEF SpentLinks
<1>3. LinksWorkOnce'
  BY <1>2 DEF LinkInvariant, LinksWorkOnce, SpentLinks, Reset, Verify
<1>4. ASSUME NEW t \in Tabs, InReset(t)' PROVE (job[t].link \in LiveLinks(Reset))'
  <2>1. InReset(t) /\ job'[t].link = job[t].link /\ job[t].link \in LiveLinks(Reset)
    BY <1>4 DEF LinkInvariant, LinksHeld
  <2>2. HeldLink(Reset, job[t].link)
    BY <2>1 DEF HeldLink, Reset
  <2>. QED  BY <2>1, <2>2 DEF LiveLinks
<1>5. LinksHeld'
  BY <1>4 DEF LinkInvariant, LinksHeld
<1>. QED  BY <1>3, <1>5 DEF LinkInvariant

LEMMA CommitResetSpends ==
  ASSUME TypeOK, LinkInvariant, NEW t \in Tabs, CommitReset(t)
  PROVE  LinkInvariant'
<1>. DEFINE mine == job[t].link
<1>1. Reset \in Purposes /\ Verify \in Purposes /\ Reset # Verify
  BY DEF Reset, Verify, Purposes
<1>2. InReset(t) /\ mine \in Links(Reset) /\ links[Reset][mine] = "live"
  BY DEF CommitReset, InReset, LinkInvariant, LinksHeld, LiveLinks
<1>3. /\ links'[Reset] = [links[Reset] EXCEPT ![mine] = "spent"]
      /\ links'[Verify] = links[Verify]
      /\ password' = password + 1 /\ verified' = verified
  BY <1>1 DEF CommitReset, TypeOK, Reset
<1>4. SpentLinks(Reset)' = SpentLinks(Reset) \cup {mine} /\ mine \notin SpentLinks(Reset)
  BY <1>1, <1>2, <1>3 DEF SpentLinks, TypeOK
<1>5. IsFiniteSet(SpentLinks(Reset))
  <2>1. IsFiniteSet(Links(Reset))
    BY <1>1, FS_Interval, SessionAssumption DEF Links
  <2>. QED  BY <2>1, FS_Subset DEF SpentLinks
<1>6. Cardinality(SpentLinks(Reset)') = Cardinality(SpentLinks(Reset)) + 1
  BY <1>4, <1>5, FS_AddElement
<1>7. SpentLinks(Verify)' = SpentLinks(Verify)
  BY <1>3 DEF SpentLinks
<1>8. LinksWorkOnce'
  BY <1>3, <1>6, <1>7 DEF LinkInvariant, LinksWorkOnce, SpentLinks, Reset, Verify
<1>9. \A u \in Tabs : ~InReset(u)'
  BY <1>2 DEF CommitReset, Become, InReset, LinkInvariant, LinksHeld, TypeOK, Jobs
<1>. QED  BY <1>8, <1>9 DEF LinkInvariant, LinksHeld

LEMMA LinkNext == TypeOK /\ LinkInvariant /\ [Next]_vars => LinkInvariant'
<1>. SUFFICES ASSUME TypeOK, LinkInvariant, [Next]_vars PROVE LinkInvariant'
  OBVIOUS
<1>a. job \in [Tabs -> Jobs]
  BY DEF TypeOK
<1>b. Reset \in Purposes /\ Verify \in Purposes /\ Reset # Verify
  BY DEF Reset, Verify, Purposes
<1>c. ASSUME password' = password, verified' = verified, links' = links,
             \A t \in Tabs : InReset(t)' => InReset(t) /\ job'[t].link = job[t].link
      PROVE  LinkInvariant'
  BY <1>c, LinkStep
<1>d. ASSUME NEW p \in Purposes, NEW l \in Links(p), Store(p, l)
      PROVE  /\ \A q \in Purposes : \A i \in Links(q) :
                   links'[q][i] = "spent" <=> links[q][i] = "spent"
             /\ \A i \in LiveLinks(Reset) : links'[Reset][i] = links[Reset][i]
  BY <1>b, <1>d DEF Store, TypeOK, LiveLinks
<1>e. \A l : HeldLink(Reset, l) => l \in LiveLinks(Reset)
  BY DEF HeldLink, LinkInvariant, LinksHeld
<1>1. ASSUME NEW type \in ProfileTypes, Register(type) PROVE LinkInvariant'
  <2>1. PICK l \in Links(Verify) : Store(Verify, l)
    BY <1>1 DEF Register, Verify
  <2>2. password' = password /\ verified' = verified /\ job' = job
    BY <1>1 DEF Register
  <2>. QED  BY <1>b, <1>d, <1>e, <2>1, <2>2, LinkStep DEF InReset
<1>2. ASSUME NEW l \in Links(Verify), VerifyEmail(l) PROVE LinkInvariant'
  <2>1. /\ links'[Verify] = [links[Verify] EXCEPT ![l] = "spent"]
        /\ links'[Reset] = links[Reset] /\ verified' = TRUE
        /\ password' = password /\ job' = job
    BY <1>2, <1>b DEF VerifyEmail, TypeOK, Verify
  <2>2. links'[Verify][l] = "spent"
    BY <2>1, <1>b DEF TypeOK
  <2>. QED  BY <2>1, <2>2 DEF LinkInvariant, LinksHeld, LinksWorkOnce, InReset, LiveLinks,
                Reset, Verify
<1>3. ASSUME NEW t \in Tabs, Send(t) PROVE LinkInvariant'
  <2>a. ASSUME UNCHANGED <<password, verified, links>>,
               \A u \in Tabs \ {t} : job'[u] = job[u],
               job'[t] = job[t] \/ job'[t].step \notin {"resetting", "revoking"}
        PROVE  LinkInvariant'
    <3>1. \A u \in Tabs : InReset(u)' => InReset(u) /\ job'[u].link = job[u].link
      BY <2>a DEF InReset
    <3>. QED  BY <2>a, <3>1, <1>c
  <2>1. ASSUME NEW p \in Purposes, Ask(t, p) PROVE LinkInvariant'
    BY <1>a, <2>1, <2>a DEF Ask, Idle, account
  <2>2. CASE StartLogin(t)
    BY <1>a, <2>2, <2>a DEF StartLogin, Start, Idle, account
  <2>3. CASE StartRefresh(t)
    BY <1>a, <2>3, <2>a DEF StartRefresh, Start, Idle, account
  <2>4. CASE StartLogout(t)
    BY <1>a, <2>4, <2>a DEF StartLogout, Start, Idle, account
  <2>5. ASSUME NEW l \in Links(Reset), StartReset(t, l) PROVE LinkInvariant'
    <3>1. /\ l \in LiveLinks(Reset) /\ \A u \in Tabs : ~InReset(u)
          /\ UNCHANGED <<password, verified, links>>
          /\ \A u \in Tabs \ {t} : job'[u] = job[u]
          /\ job'[t].link = l
      BY <1>a, <2>5 DEF StartReset, Resetting, account, Idle, Reset
    <3>2. \A u \in Tabs \ {t} : ~InReset(u)'
      BY <3>1 DEF InReset
    <3>3. LinksHeld'
      BY <3>1, <3>2 DEF LinksHeld, LiveLinks
    <3>. QED  BY <3>1, <3>3 DEF LinkInvariant, LinksWorkOnce
  <2>6. ASSUME NEW type \in ProfileTypes, AddProfile(t, type) PROVE LinkInvariant'
    BY <2>6, <2>a DEF AddProfile
  <2>. QED  BY <1>3, <2>1, <2>2, <2>3, <2>4, <2>5, <2>6 DEF Send, Reset
<1>4. ASSUME NEW t \in Tabs, Serve(t) PROVE LinkInvariant'
  <2>a. ASSUME NEW step \in Steps \ {"resetting", "revoking"},
               Become(t, step) \/ End(t)
        PROVE  \A u \in Tabs : InReset(u)' => InReset(u) /\ job'[u].link = job[u].link
    <3>1. /\ \A u \in Tabs \ {t} : job'[u] = job[u]
          /\ job'[t].step \notin {"resetting", "revoking"}
      BY <1>a, <2>a DEF Become, End, Idle, Jobs
    <3>. QED  BY <3>1 DEF InReset
  <2>b. "idle" \in Steps \ {"resetting", "revoking"}
    BY DEF Steps
  <2>1. CASE InvalidateLinks(t)
    <3>. DEFINE p == job[t].purpose
    <3>1. p \in Purposes
      BY <1>a DEF Jobs
    <3>2. /\ \A q \in Purposes \ {p} : links'[q] = links[q]
          /\ \A l \in Links(p) : links'[p][l] = IF l \in LiveLinks(p) THEN "void"
                                               ELSE links[p][l]
          /\ \A l \in LiveLinks(p) : ~HeldLink(p, l)
          /\ password' = password /\ verified' = verified
      BY <2>1, <3>1 DEF InvalidateLinks, TypeOK, account
    <3>3. \A q \in Purposes : \A l \in Links(q) : links'[q][l] = "spent" <=> links[q][l] = "spent"
      BY <3>2 DEF LiveLinks
    <3>4. \A l \in Links(Reset) : HeldLink(Reset, l) => links'[Reset][l] = links[Reset][l]
      BY <3>2, <1>b
    <3>5. \A u \in Tabs : InReset(u)' => InReset(u) /\ job'[u].link = job[u].link
      BY <2>1, <2>a DEF InvalidateLinks, Steps
    <3>. QED  BY <3>2, <3>3, <3>4, <3>5, LinkStep
  <2>2. CASE StoreLink(t)
    <3>1. job[t].purpose \in Purposes
      BY <1>a DEF Jobs
    <3>2. password' = password /\ verified' = verified
      BY <2>2 DEF StoreLink, account
    <3>3. \A u \in Tabs : InReset(u)' => InReset(u) /\ job'[u].link = job[u].link
      BY <2>2, <2>a, <2>b DEF StoreLink
    <3>4. CASE UNCHANGED links
      BY <3>2, <3>3, <3>4, <1>c
    <3>5. ASSUME NEW l \in Links(job[t].purpose), Store(job[t].purpose, l)
          PROVE  LinkInvariant'
      BY <3>1, <3>2, <3>3, <3>5, <1>d, <1>e, LinkStep
    <3>. QED  BY <2>2, <3>4, <3>5 DEF StoreLink
  <2>3. CASE IssueLogin(t)
    <3>1. UNCHANGED <<password, verified, links>>
      BY <2>3 DEF IssueLogin, account
    <3>2. CASE End(t)
      BY <3>1, <3>2, <2>a, <2>b, <1>c
    <3>3. CASE job' = [job EXCEPT ![t].step = "granted", ![t].new = issued + 1]
      <4>1. \A u \in Tabs : InReset(u)' => InReset(u) /\ job'[u].link = job[u].link
        BY <1>a, <3>3 DEF InReset, Jobs
      <4>. QED  BY <3>1, <4>1, <1>c
    <3>. QED  BY <2>3, <3>2, <3>3 DEF IssueLogin
  <2>4. CASE Consume(t)
    BY <2>4, <2>a, <1>c DEF Consume, account, Steps
  <2>5. CASE CommitRefresh(t)
    <3>1. UNCHANGED <<password, verified, links>>
      BY <2>5 DEF CommitRefresh, account
    <3>2. CASE Become(t, "failed")
      BY <3>1, <3>2, <2>a, <1>c DEF Steps
    <3>3. CASE job' = [job EXCEPT ![t].step = "granted", ![t].new = issued + 1]
      <4>1. \A u \in Tabs : InReset(u)' => InReset(u) /\ job'[u].link = job[u].link
        BY <1>a, <3>3 DEF InReset, Jobs
      <4>. QED  BY <3>1, <4>1, <1>c
    <3>. QED  BY <2>5, <3>2, <3>3 DEF CommitRefresh
  <2>6. CASE RollbackRefresh(t)
    BY <2>6, <2>a, <1>c DEF RollbackRefresh, account, Steps
  <2>7. CASE Logout(t)
    BY <2>7, <2>a, <1>c DEF Logout, account, Steps
  <2>8. CASE FindTokens(t)
    <3>1. \A u \in Tabs : InReset(u)' => InReset(u) /\ job'[u].link = job[u].link
      BY <1>a, <2>8 DEF FindTokens, InReset, Jobs
    <3>. QED  BY <2>8, <3>1, <1>c DEF FindTokens, account
  <2>9. CASE CommitReset(t)
    BY <2>9, CommitResetSpends
  <2>10. CASE RollbackReset(t)
    BY <2>10, <2>a, <2>b, <1>c DEF RollbackReset, account
  <2>11. CASE Deliver(t)
    BY <2>11, <2>a, <2>b, <1>c DEF Deliver, account
  <2>. QED  BY <1>4, <2>1, <2>2, <2>3, <2>4, <2>5, <2>6, <2>7, <2>8, <2>9,
               <2>10, <2>11 DEF Serve
<1>5. ASSUME NEW t \in Tabs, Lose(t) PROVE LinkInvariant'
  <2>1. \A u \in Tabs : InReset(u)' => InReset(u) /\ job'[u].link = job[u].link
    BY <1>a, <1>5 DEF Lose, End, Idle, InReset
  <2>. QED  BY <1>5, <2>1, <1>c DEF Lose, account
<1>6. ASSUME NEW p \in Purposes, NEW l \in Links(p), ExpireLink(p, l) PROVE LinkInvariant'
  <2>1. /\ \A q \in Purposes : \A i \in Links(q) :
             links'[q][i] = "spent" <=> links[q][i] = "spent"
        /\ \A i \in Links(Reset) : HeldLink(Reset, i) => links'[Reset][i] = links[Reset][i]
    BY <1>6, <1>b DEF ExpireLink, LiveLinks, TypeOK
  <2>. QED  BY <1>6, <2>1, LinkStep DEF ExpireLink, account, InReset
<1>7. ASSUME \/ \E t \in Tabs : AccessEnds(t)
             \/ \E k \in Tokens : ExpireToken(k)
             \/ UNCHANGED vars
      PROVE  LinkInvariant'
  <2>1. UNCHANGED <<password, verified, links, job>>
    BY <1>7 DEF AccessEnds, ExpireToken, vars, account
  <2>. QED  BY <2>1, <1>c DEF InReset
<1>. QED  BY <1>1, <1>2, <1>3, <1>4, <1>5, <1>6, <1>7 DEF Next, Verify

\* Every change of the password has its own spent link, and the address is
\* verified by a spent link only.
THEOREM OnceOnly == Spec => []LinksWorkOnce
<1>1. LinkInvariant => LinksWorkOnce
  BY DEF LinkInvariant
<1>2. Init => Presents
  BY DEF Init, Presents, Idle
<1>. QED  BY <1>1, <1>2, LinkInit, LinkNext, TypeInit, TypeNext, PresentsNext, PTL DEF Spec
-----------------------------------------------------------------------------
(* The jar.  What it holds and what requests present goes back to a reply  *)
(* that one browser got; a token on its way is known to nobody else, so    *)
(* that only a reset can have revoked it.                                  *)

NotYet == \A k \in Tokens : k > issued => refresh[k] = "absent"

Known ==
  /\ \A b \in Browsers : cookie[b] <= issued
  /\ \A t \in Tabs : job[t].token <= issued

FoundFits(t) ==
  job[t].step = "revoking" =>
    /\ mark <= job[t].seen /\ job[t].seen <= issued
    /\ \A k \in job[t].doomed : k <= job[t].seen

Fresh(t) ==
  job[t].step = "granted" =>
    /\ job[t].new \in Tokens /\ job[t].new <= issued
    /\ refresh[job[t].new] = "revoked" => job[t].new <= mark
    /\ \A b \in Browsers : cookie[b] # job[t].new
    /\ \A u \in Tabs : /\ job[u].token # job[t].new
                       /\ job[u].step = "granted" /\ job[u].new = job[t].new => u = t

Home ==
  \A b \in Browsers : cookie[b] # None =>
    /\ \A c \in Browsers : cookie[c] = cookie[b] => c = b
    /\ \A t \in Tabs : job[t].token = cookie[b] => BrowserOf[t] = b

JarInvariant ==
  /\ NotYet /\ Known /\ Home
  /\ \A t \in Tabs : FoundFits(t) /\ Fresh(t)
  /\ JarHoldsACurrentToken

LEMMA JarInit == Init => JarInvariant
<1>. SUFFICES ASSUME Init PROVE JarInvariant
  OBVIOUS
<1>1. /\ refresh = [k \in Tokens |-> "absent"] /\ issued = 0 /\ mark = 0
      /\ cookie = [b \in Browsers |-> None]
      /\ \A t \in Tabs : job[t].step = "idle" /\ job[t].token = None
  BY DEF Init, Idle
<1>. QED  BY <1>1 DEF JarInvariant, NotYet, Known, Home, FoundFits, Fresh,
          JarHoldsACurrentToken, None

\* Steps that neither serve a request nor revoke a token.
LEMMA JarStill ==
  ASSUME TypeOK, JarInvariant, UNCHANGED <<issued, mark, cookie, lost, job>>,
         \A k \in Tokens : /\ refresh'[k] = "revoked" => refresh[k] = "revoked"
                           /\ refresh[k] = "absent" => refresh'[k] = "absent"
  PROVE  JarInvariant'
<1>1. NotYet' /\ Known' /\ Home'
  BY DEF JarInvariant, NotYet, Known, Home
<1>2. \A t \in Tabs : FoundFits(t)' /\ Fresh(t)'
  BY DEF JarInvariant, FoundFits, Fresh
<1>3. ASSUME NEW b \in Browsers, cookie[b] # None, refresh'[cookie[b]] = "revoked"
      PROVE  cookie[b] <= mark \/ b \in lost \/ Awaited(cookie[b], b)
  <2>1. cookie[b] \in Tokens
    BY <1>3, SessionAssumption DEF TypeOK, Tokens, None
  <2>. QED  BY <1>3, <2>1 DEF JarInvariant, JarHoldsACurrentToken
<1>4. JarHoldsACurrentToken'
  BY <1>3 DEF JarHoldsACurrentToken, Awaited
<1>. QED  BY <1>1, <1>2, <1>4 DEF JarInvariant

\* A request that has no reply yet: it may present the cookie, issue the next
\* token, and revoke the one it presented, in which case it has a reply then.
LEMMA JarServes ==
  ASSUME TypeOK, JarInvariant, NEW t \in Tabs,
         UNCHANGED <<mark, cookie, lost>>,
         \/ issued' = issued
         \/ issued < MaxTokens /\ issued' = issued + 1 /\ refresh'[issued + 1] = "live",
         \A k \in Tokens : k > issued' => refresh'[k] = refresh[k],
         \A k \in Tokens : k <= issued /\ refresh'[k] = "revoked" =>
            \/ refresh[k] = "revoked"
            \/ /\ k = job[t].token /\ job'[t].token = k
               /\ job'[t].step \in Replies,
         \A u \in Tabs \ {t} : job'[u] = job[u],
         job[t].step \notin Replies,
         job'[t].token \in {None, job[t].token, cookie[BrowserOf[t]]},
         job'[t].step = "granted" => issued' = issued + 1 /\ job'[t].new = issued + 1,
         FoundFits(t)'
  PROVE  JarInvariant'
<1>. USE SessionAssumption
<1>0. /\ issued \in 0..MaxTokens /\ mark \in 0..MaxTokens
      /\ cookie \in [Browsers -> 0..MaxTokens]
      /\ \A u \in Tabs : job[u].token \in 0..MaxTokens /\ job[u].new \in 0..MaxTokens
      /\ BrowserOf[t] \in Browsers
      /\ issued' \in {issued, issued + 1} /\ issued' \in 0..MaxTokens
  BY DEF TypeOK, Jobs
<1>1. NotYet'
  BY <1>0 DEF JarInvariant, NotYet, Tokens
<1>2. job'[t].token <= issued
  BY <1>0 DEF JarInvariant, Known, None
<1>3. Known'
  <2>1. \A b \in Browsers : cookie[b] <= issued /\ cookie[b] <= issued'
    BY <1>0 DEF JarInvariant, Known
  <2>2. \A u \in Tabs : job'[u].token <= issued
    BY <1>2 DEF JarInvariant, Known
  <2>3. \A u \in Tabs : job'[u].token \in 0..MaxTokens
    BY <1>0, SessionAssumption DEF None
  <2>4. \A u \in Tabs : job'[u].token <= issued'
    BY <1>0, <2>2, <2>3
  <2>. QED  BY <2>1, <2>4 DEF Known
<1>4. Home'
  <2>1. ASSUME NEW b \in Browsers, cookie[b] # None, job'[t].token = cookie[b]
        PROVE  BrowserOf[t] = b
    BY <1>0, <2>1 DEF JarInvariant, Home
  <2>. QED  BY <2>1 DEF JarInvariant, Home
<1>5. ASSUME NEW u \in Tabs PROVE FoundFits(u)'
  BY <1>0, <1>5 DEF JarInvariant, FoundFits, TypeOK, Jobs
<1>6. ASSUME NEW u \in Tabs PROVE Fresh(u)'
  <2>. SUFFICES ASSUME job'[u].step = "granted" PROVE Fresh(u)'
    BY DEF Fresh
  <2>1. CASE u = t
    <3>1. issued' = issued + 1 /\ job'[t].new = issued + 1 /\ issued + 1 \in Tokens
      BY <1>0, <2>1 DEF Tokens
    <3>2. refresh'[issued + 1] = "live"
      BY <1>0, <3>1
    <3>3. \A b \in Browsers : cookie'[b] # issued + 1
      BY <1>0 DEF JarInvariant, Known
    <3>4. \A v \in Tabs : job'[v].token # issued + 1
      BY <1>0, <1>2 DEF JarInvariant, Known
    <3>5. \A v \in Tabs : v # t /\ job'[v].step = "granted" => job'[v].new # issued + 1
      BY <1>0 DEF JarInvariant, Fresh
    <3>. QED  BY <1>0, <2>1, <3>1, <3>2, <3>3, <3>4, <3>5 DEF Fresh
  <2>2. CASE u # t
    <3>. DEFINE k == job[u].new
    <3>1. job'[u] = job[u] /\ job[u].step = "granted"
      BY <2>2
    <3>2. /\ k \in Tokens /\ k <= issued /\ job[t].token # k
          /\ refresh[k] = "revoked" => k <= mark
          /\ \A b \in Browsers : cookie[b] # k
          /\ \A v \in Tabs : /\ job[v].token # k
                             /\ job[v].step = "granted" /\ job[v].new = k => v = u
      BY <3>1 DEF JarInvariant, Fresh
    <3>3. refresh'[k] = "revoked" => k <= mark
      BY <3>2
    <3>4. job'[t].token # k
      BY <1>0, <3>2 DEF Tokens, None
    <3>5. \A v \in Tabs : /\ job'[v].token # k
                          /\ job'[v].step = "granted" /\ job'[v].new = k => v = u
      BY <1>0, <2>2, <3>2, <3>4
    <3>. QED  BY <1>0, <3>1, <3>2, <3>3, <3>5 DEF Fresh
  <2>. QED  BY <2>1, <2>2
<1>7. ASSUME NEW b \in Browsers, cookie[b] # None, refresh'[cookie[b]] = "revoked"
      PROVE  cookie[b] <= mark \/ b \in lost \/ Awaited(cookie[b], b)'
  <2>1. cookie[b] \in Tokens /\ cookie[b] <= issued
    BY <1>0, <1>7 DEF JarInvariant, Known, Tokens, None
  <2>2. CASE refresh[cookie[b]] = "revoked"
    <3>1. cookie[b] <= mark \/ b \in lost \/ Awaited(cookie[b], b)
      BY <1>7, <2>2 DEF JarInvariant, JarHoldsACurrentToken
    <3>2. Awaited(cookie[b], b) => Awaited(cookie[b], b)'
      BY DEF Awaited
    <3>. QED  BY <3>1, <3>2
  <2>3. CASE refresh[cookie[b]] # "revoked"
    <3>1. /\ cookie[b] = job[t].token /\ job'[t].token = cookie[b]
          /\ job'[t].step \in Replies
      BY <1>7, <2>1, <2>3
    <3>2. BrowserOf[t] = b
      BY <1>7, <3>1 DEF JarInvariant, Home
    <3>. QED  BY <3>1, <3>2 DEF Awaited
  <2>. QED  BY <2>2, <2>3
<1>8. JarHoldsACurrentToken'
  BY <1>7 DEF JarHoldsACurrentToken
<1>. QED  BY <1>1, <1>3, <1>4, <1>5, <1>6, <1>8 DEF JarInvariant

LEMMA JarReset ==
  ASSUME TypeOK, JarInvariant, LinksHeld, NEW t \in Tabs, CommitReset(t)
  PROVE  JarInvariant'
<1>. USE SessionAssumption
<1>0. /\ issued \in 0..MaxTokens /\ mark \in 0..MaxTokens
      /\ cookie \in [Browsers -> 0..MaxTokens]
      /\ job[t] \in Jobs /\ job \in [Tabs -> Jobs]
  BY DEF TypeOK
<1>1. /\ job[t].step = "revoking" /\ mark' = job[t].seen
      /\ UNCHANGED <<issued, cookie, lost>>
      /\ \A k \in Tokens : refresh'[k] = "revoked" =>
           k \in job[t].doomed \/ refresh[k] = "revoked"
      /\ \A k \in Tokens : k \notin job[t].doomed => refresh'[k] = refresh[k]
      /\ job' = [job EXCEPT ![t].step = "changed"]
  BY DEF CommitReset, Become, client
<1>2. /\ mark <= mark' /\ mark' <= issued
      /\ \A k \in job[t].doomed : k <= mark'
      /\ mark' \in 0..MaxTokens
  BY <1>0, <1>1 DEF JarInvariant, FoundFits, Jobs
<1>3. /\ \A u \in Tabs : job'[u].token = job[u].token /\ job'[u].new = job[u].new
      /\ \A u \in Tabs \ {t} : job'[u] = job[u]
      /\ job'[t].step = "changed"
  BY <1>0, <1>1 DEF Jobs
<1>4. NotYet'
  BY <1>0, <1>1, <1>2 DEF JarInvariant, NotYet, Tokens
<1>5. Known' /\ Home'
  BY <1>1, <1>3 DEF JarInvariant, Known, Home
<1>6. ASSUME NEW u \in Tabs PROVE FoundFits(u)'
  <2>1. u # t => job[u].step # "revoking"
    BY <1>1 DEF LinksHeld, InReset
  <2>. QED  BY <1>3, <2>1 DEF FoundFits
<1>7. ASSUME NEW u \in Tabs PROVE Fresh(u)'
  <2>. SUFFICES ASSUME job'[u].step = "granted" PROVE Fresh(u)'
    BY DEF Fresh
  <2>1. u # t /\ job'[u] = job[u] /\ job[u].step = "granted"
    BY <1>3
  <2>2. /\ job[u].new \in Tokens /\ job[u].new <= issued
        /\ refresh[job[u].new] = "revoked" => job[u].new <= mark
        /\ \A b \in Browsers : cookie[b] # job[u].new
        /\ \A v \in Tabs : /\ job[v].token # job[u].new
                           /\ job[v].step = "granted" /\ job[v].new = job[u].new => v = u
    BY <2>1 DEF JarInvariant, Fresh
  <2>3. refresh'[job[u].new] = "revoked" => job[u].new <= mark'
    BY <1>0, <1>1, <1>2, <2>2 DEF Tokens
  <2>4. \A v \in Tabs : job'[v].step = "granted" => job[v].step = "granted"
    BY <1>3
  <2>. QED  BY <1>1, <1>3, <2>1, <2>2, <2>3, <2>4 DEF Fresh
<1>8. ASSUME NEW b \in Browsers, cookie[b] # None, refresh'[cookie[b]] = "revoked"
      PROVE  cookie[b] <= mark' \/ b \in lost \/ Awaited(cookie[b], b)'
  <2>1. cookie[b] \in Tokens
    BY <1>0, <1>8 DEF Tokens, None
  <2>2. CASE cookie[b] \in job[t].doomed
    BY <1>2, <2>2
  <2>3. CASE refresh[cookie[b]] = "revoked"
    <3>1. cookie[b] <= mark \/ b \in lost \/ Awaited(cookie[b], b)
      BY <1>8, <2>3 DEF JarInvariant, JarHoldsACurrentToken
    <3>2. Awaited(cookie[b], b) => Awaited(cookie[b], b)'
      <4>. SUFFICES ASSUME NEW u \in Tabs, BrowserOf[u] = b, job[u].step \in Replies,
                           job[u].token = cookie[b]
                    PROVE  job'[u] = job[u]
        BY <1>1 DEF Awaited
      <4>. QED  BY <1>1, <1>3 DEF Replies
    <3>3. cookie[b] <= mark => cookie[b] <= mark'
      BY <1>0, <1>2
    <3>. QED  BY <3>1, <3>2, <3>3
  <2>. QED  BY <1>1, <1>8, <2>1, <2>2, <2>3
<1>9. JarHoldsACurrentToken'
  BY <1>1, <1>8 DEF JarHoldsACurrentToken
<1>. QED  BY <1>4, <1>5, <1>6, <1>7, <1>9 DEF JarInvariant

\* A reply that arrives.
LEMMA JarDelivers ==
  ASSUME TypeOK, JarInvariant, NEW t \in Tabs, Deliver(t)
  PROVE  JarInvariant'
<1>. USE SessionAssumption
<1>. DEFINE b == BrowserOf[t]
            k == IF job[t].step = "granted" THEN job[t].new ELSE None
<1>0. /\ issued \in 0..MaxTokens /\ b \in Browsers
      /\ cookie \in [Browsers -> 0..MaxTokens]
      /\ job \in [Tabs -> Jobs]
  BY DEF TypeOK
<1>1. /\ UNCHANGED <<refresh, issued, mark, lost>>
      /\ cookie' = [cookie EXCEPT ![b] = k]
      /\ job' = [job EXCEPT ![t] = Idle]
  BY DEF Deliver, End, tokens
<1>2. /\ \A u \in Tabs \ {t} : job'[u] = job[u]
      /\ job'[t].step = "idle" /\ job'[t].token = None
  BY <1>0, <1>1 DEF Idle
<1>3. /\ \A c \in Browsers \ {b} : cookie'[c] = cookie[c]
      /\ cookie'[b] = k
  BY <1>0, <1>1
<1>4. k # None =>
        /\ job[t].step = "granted" /\ k = job[t].new
        /\ k \in Tokens /\ k <= issued
        /\ refresh[k] = "revoked" => k <= mark
        /\ \A c \in Browsers : cookie[c] # k
        /\ \A u \in Tabs : /\ job[u].token # k
                           /\ job[u].step = "granted" /\ job[u].new = k => u = t
  BY DEF JarInvariant, Fresh
<1>. HIDE DEF k, b
<1>5. NotYet' /\ Known'
  BY <1>0, <1>1, <1>2, <1>3, <1>4 DEF JarInvariant, NotYet, Known, None
<1>6. ASSUME NEW c \in Browsers, cookie'[c] # None
      PROVE  /\ \A d \in Browsers : cookie'[d] = cookie'[c] => d = c
             /\ \A u \in Tabs : job'[u].token = cookie'[c] => BrowserOf[u] = c
  <2>1. CASE c = b
    BY <1>2, <1>3, <1>4, <1>6, <2>1
  <2>2. CASE c # b
    BY <1>2, <1>3, <1>4, <1>6, <2>2 DEF JarInvariant, Home
  <2>. QED  BY <2>1, <2>2
<1>7. Home'
  BY <1>6 DEF Home
<1>8. ASSUME NEW u \in Tabs PROVE FoundFits(u)' /\ Fresh(u)'
  <2>1. FoundFits(u)'
    BY <1>1, <1>2 DEF JarInvariant, FoundFits
  <2>2. ASSUME job'[u].step = "granted" PROVE Fresh(u)'
    <3>1. u # t /\ job'[u] = job[u] /\ job[u].step = "granted"
      BY <1>2, <2>2
    <3>2. /\ job[u].new \in Tokens /\ job[u].new <= issued
          /\ refresh[job[u].new] = "revoked" => job[u].new <= mark
          /\ \A c \in Browsers : cookie[c] # job[u].new
          /\ \A v \in Tabs : /\ job[v].token # job[u].new
                             /\ job[v].step = "granted" /\ job[v].new = job[u].new => v = u
      BY <3>1 DEF JarInvariant, Fresh
    <3>3. job[u].new # None
      BY <3>2 DEF Tokens, None
    <3>4. k # job[u].new
      BY <1>4, <3>1, <3>3
    <3>5. \A c \in Browsers : cookie'[c] # job[u].new
      BY <1>3, <3>2, <3>4
    <3>6. \A v \in Tabs : /\ job'[v].token # job[u].new
                          /\ job'[v].step = "granted" /\ job'[v].new = job[u].new => v = u
      BY <1>2, <3>2, <3>3
    <3>. QED  BY <1>1, <3>1, <3>2, <3>5, <3>6 DEF Fresh
  <2>. QED  BY <2>1, <2>2 DEF Fresh
<1>9. ASSUME NEW c \in Browsers, cookie'[c] # None, refresh[cookie'[c]] = "revoked"
      PROVE  cookie'[c] <= mark \/ c \in lost \/ Awaited(cookie[c], c)'
  <2>1. CASE c = b
    BY <1>3, <1>4, <1>9, <2>1
  <2>2. CASE c # b
    <3>1. cookie'[c] = cookie[c]
      BY <1>3, <2>2
    <3>2. cookie[c] <= mark \/ c \in lost \/ Awaited(cookie[c], c)
      BY <1>9, <3>1 DEF JarInvariant, JarHoldsACurrentToken
    <3>3. Awaited(cookie[c], c) => Awaited(cookie[c], c)'
      BY <1>2, <2>2, <3>1 DEF Awaited, b
    <3>. QED  BY <3>1, <3>2, <3>3
  <2>. QED  BY <2>1, <2>2
<1>10. JarHoldsACurrentToken'
  BY <1>1, <1>9 DEF JarHoldsACurrentToken
<1>. QED  BY <1>5, <1>7, <1>8, <1>10 DEF JarInvariant

\* A reply or a request that is lost.
LEMMA JarLoses ==
  ASSUME TypeOK, JarInvariant, NEW t \in Tabs, Lose(t)
  PROVE  JarInvariant'
<1>. USE SessionAssumption
<1>1. /\ UNCHANGED <<refresh, issued, mark, cookie>> /\ lost \subseteq lost'
      /\ job[t].step \in Replies => BrowserOf[t] \in lost'
      /\ \A u \in Tabs \ {t} : job'[u] = job[u]
      /\ job'[t].step = "idle" /\ job'[t].token = None
  BY DEF Lose, End, Idle, tokens, TypeOK
<1>2. NotYet' /\ Known'
  BY <1>1 DEF JarInvariant, NotYet, Known, None, TypeOK
<1>3. Home'
  BY <1>1 DEF JarInvariant, Home
<1>4. ASSUME NEW u \in Tabs PROVE FoundFits(u)'
  BY <1>1 DEF JarInvariant, FoundFits
<1>5. ASSUME NEW u \in Tabs PROVE Fresh(u)'
  BY <1>1 DEF JarInvariant, Fresh, Tokens, None
<1>6. ASSUME NEW c \in Browsers, cookie[c] # None, refresh[cookie[c]] = "revoked"
      PROVE  cookie[c] <= mark \/ c \in lost' \/ Awaited(cookie[c], c)'
  <2>1. cookie[c] <= mark \/ c \in lost \/ Awaited(cookie[c], c)
    BY <1>6 DEF JarInvariant, JarHoldsACurrentToken
  <2>2. Awaited(cookie[c], c) => c \in lost' \/ Awaited(cookie[c], c)'
    BY <1>1 DEF Awaited
  <2>. QED  BY <1>1, <2>1, <2>2
<1>7. JarHoldsACurrentToken'
  BY <1>1, <1>6 DEF JarHoldsACurrentToken
<1>. QED  BY <1>2, <1>3, <1>4, <1>5, <1>7 DEF JarInvariant

LEMMA JarNext ==
  TypeOK /\ Presents /\ Rotation /\ LinksHeld /\ JarInvariant /\ [Next]_vars => JarInvariant'
<1>. SUFFICES ASSUME TypeOK, Presents, Rotation, LinksHeld, JarInvariant, [Next]_vars PROVE JarInvariant'
  OBVIOUS
<1>a. /\ job \in [Tabs -> Jobs] /\ issued \in 0..MaxTokens /\ mark \in 0..MaxTokens
      /\ refresh \in [Tokens -> TokenState]
      /\ \A k \in Tokens : k > issued => refresh[k] = "absent"
  BY DEF TypeOK, JarInvariant, NotYet
<1>1. ASSUME NEW t \in Tabs, Send(t) PROVE JarInvariant'
  <2>a. ASSUME UNCHANGED <<tokens, mark, client>>, job[t] = Idle,
               NEW new \in Jobs, job' = [job EXCEPT ![t] = new],
               new.step \notin {"granted", "revoking"},
               new.token \in {None, Sent(t)}
        PROVE  JarInvariant'
    <3>1. job'[t] = new /\ \A u \in Tabs \ {t} : job'[u] = job[u]
      BY <1>a, <2>a
    <3>2. job[t].step \notin Replies
      BY <2>a DEF Idle, Replies
    <3>3. FoundFits(t)'
      BY <2>a, <3>1 DEF FoundFits
    <3>. QED  BY <1>a, <2>a, <3>1, <3>2, <3>3, JarServes DEF tokens, client, Sent
  <2>. USE SessionAssumption, IdleType
  <2>0. Sent(t) \in 0..MaxTokens /\ None \in 0..MaxTokens
    BY DEF Sent, TypeOK, None
  <2>1. ASSUME NEW p \in Purposes, Ask(t, p) PROVE JarInvariant'
    <3>1. [Idle EXCEPT !.step = "asking", !.purpose = p] \in Jobs
      BY DEF Jobs, Steps
    <3>. QED  BY <2>1, <2>a, <3>1 DEF Ask, Idle
  <2>2. CASE StartLogin(t)
    <3>1. [Idle EXCEPT !.step = "checked", !.token = None] \in Jobs
      BY <2>0 DEF Jobs, Steps
    <3>. QED  BY <2>2, <2>a, <3>1 DEF StartLogin, Start, Idle
  <2>3. CASE StartRefresh(t)
    <3>. DEFINE step == IF Sent(t) = None THEN "refused" ELSE "presented"
    <3>1. [Idle EXCEPT !.step = step, !.token = Sent(t)] \in Jobs
      BY <2>0 DEF Jobs, Steps
    <3>. QED  BY <2>3, <2>a, <3>1 DEF StartRefresh, Start, Idle
  <2>4. CASE StartLogout(t)
    <3>1. [Idle EXCEPT !.step = "leaving", !.token = Sent(t)] \in Jobs
      BY <2>0 DEF Jobs, Steps
    <3>. QED  BY <2>4, <2>a, <3>1 DEF StartLogout, Start, Idle
  <2>5. ASSUME NEW l \in Links("reset_password"), StartReset(t, l) PROVE JarInvariant'
    <3>0. "reset_password" \in Purposes /\ l \in Nat
      BY DEF Purposes, Links
    <3>1. [Idle EXCEPT !.step = "resetting", !.purpose = "reset_password",
                       !.link = l] \in Jobs
      BY <3>0 DEF Jobs, Steps
    <3>. QED  BY <2>5, <2>a, <3>1 DEF StartReset, Idle
  <2>6. ASSUME NEW type \in ProfileTypes, AddProfile(t, type) PROVE JarInvariant'
    BY <2>6, JarStill DEF AddProfile, tokens, client
  <2>. QED  BY <1>1, <2>1, <2>2, <2>3, <2>4, <2>5, <2>6 DEF Send
<1>2. ASSUME NEW t \in Tabs, Serve(t), ~CommitReset(t), ~Deliver(t) PROVE JarInvariant'
  <2>. USE SessionAssumption
  <2>a. ASSUME UNCHANGED <<tokens, mark, client>>, job[t].step \notin Replies,
               \A u \in Tabs \ {t} : job'[u] = job[u],
               job'[t].step # "granted", FoundFits(t)',
               job'[t].token \in {None, job[t].token}
        PROVE  JarInvariant'
    BY <2>a, JarServes DEF tokens, client
  <2>b. ASSUME NEW step, Become(t, step)
        PROVE  /\ \A u \in Tabs \ {t} : job'[u] = job[u]
               /\ job'[t].step = step /\ job'[t].token = job[t].token
    BY <1>a, <2>b DEF Become, Jobs
  <2>c. ASSUME End(t)
        PROVE  /\ \A u \in Tabs \ {t} : job'[u] = job[u]
               /\ job'[t].step = "idle" /\ job'[t].token = None
    BY <1>a, <2>c DEF End, Idle
  <2>d. ASSUME job' = [job EXCEPT ![t].step = "granted", ![t].new = issued + 1]
        PROVE  /\ \A u \in Tabs \ {t} : job'[u] = job[u]
               /\ job'[t].step = "granted" /\ job'[t].token = job[t].token
               /\ job'[t].new = issued + 1
    BY <1>a, <2>d DEF Jobs
  <2>1. CASE InvalidateLinks(t)
    BY <2>1, <2>a, <2>b DEF InvalidateLinks, FoundFits, Replies
  <2>2. CASE StoreLink(t)
    BY <2>2, <2>a, <2>c DEF StoreLink, FoundFits, Replies
  <2>3. CASE IssueLogin(t)
    <3>1. CASE UNCHANGED tokens /\ End(t)
      BY <2>3, <3>1, <2>a, <2>c DEF IssueLogin, FoundFits, Replies
    <3>2. CASE /\ issued < MaxTokens
               /\ refresh' = [refresh EXCEPT ![issued + 1] = "live"]
               /\ Issue(issued + 1, issued + 1)
               /\ \/ End(t)
                  \/ job' = [job EXCEPT ![t].step = "granted", ![t].new = issued + 1]
      <4>1. /\ UNCHANGED <<mark, cookie, lost>> /\ job[t].step \notin Replies
            /\ issued' = issued + 1
        BY <2>3, <3>2 DEF IssueLogin, Issue, client, Replies
      <4>2. /\ refresh'[issued + 1] = "live"
            /\ \A k \in Tokens : k # issued + 1 => refresh'[k] = refresh[k]
        BY <1>a, <3>2 DEF Tokens
      <4>3. /\ \A u \in Tabs \ {t} : job'[u] = job[u]
            /\ job'[t].step \in {"idle", "granted"}
            /\ job'[t].token \in {None, job[t].token}
            /\ job'[t].step = "granted" => job'[t].new = issued + 1
        BY <3>2, <2>c, <2>d
      <4>4. /\ \A k \in Tokens : k > issued' => refresh'[k] = refresh[k]
            /\ \A k \in Tokens : k <= issued => refresh'[k] = refresh[k]
        BY <1>a, <4>1, <4>2 DEF Tokens
      <4>. QED  BY <3>2, <4>1, <4>2, <4>3, <4>4, JarServes DEF FoundFits
    <3>. QED  BY <2>3, <3>1, <3>2 DEF IssueLogin
  <2>4. CASE Consume(t)
    BY <2>4, <2>a, <2>b DEF Consume, FoundFits, Replies
  <2>5. CASE CommitRefresh(t)
    <3>1. /\ UNCHANGED <<mark, cookie, lost>> /\ job[t].step \notin Replies
          /\ issued < MaxTokens /\ issued' = issued + 1
          /\ refresh' = [refresh EXCEPT ![job[t].token] = "revoked", ![issued + 1] = "live"]
      BY <2>5 DEF CommitRefresh, Issue, client, Replies
    <3>2. job[t].token \in Tokens
      BY <2>5 DEF CommitRefresh, Presents
    <3>3. /\ refresh'[issued + 1] = "live"
          /\ \A k \in Tokens : k \notin {issued + 1, job[t].token} => refresh'[k] = refresh[k]
      BY <1>a, <3>1 DEF Tokens
    <3>4. /\ \A u \in Tabs \ {t} : job'[u] = job[u]
          /\ job'[t].step \in {"failed", "granted"} /\ job'[t].token = job[t].token
          /\ job'[t].step = "granted" => job'[t].new = issued + 1
      BY <2>5, <2>b, <2>d DEF CommitRefresh
    <3>5. job[t].token <= issued
      BY DEF JarInvariant, Known
    <3>6. /\ \A k \in Tokens : k > issued' => refresh'[k] = refresh[k]
          /\ \A k \in Tokens : k <= issued /\ k # job[t].token => refresh'[k] = refresh[k]
      BY <1>a, <3>1, <3>2, <3>3, <3>5 DEF Tokens
    <3>. QED  BY <3>1, <3>3, <3>4, <3>6, JarServes DEF FoundFits, Replies
  <2>6. CASE RollbackRefresh(t)
    BY <2>6, <2>a, <2>b DEF RollbackRefresh, FoundFits, Replies
  <2>7. CASE Logout(t)
    <3>1. /\ UNCHANGED <<issued, mark, cookie, lost>> /\ job[t].step \notin Replies
          /\ \A u \in Tabs \ {t} : job'[u] = job[u]
          /\ job'[t].step = "left" /\ job'[t].token = job[t].token
      BY <2>7, <2>b DEF Logout, client, Replies
    <3>2. \A k \in Tokens : k # job[t].token => refresh'[k] = refresh[k]
      BY <1>a, <2>7 DEF Logout
    <3>3. job[t].token <= issued /\ job[t].token \in 0..MaxTokens
      BY <1>a DEF JarInvariant, Known, Jobs
    <3>4. \A k \in Tokens : k > issued => refresh'[k] = refresh[k]
      BY <1>a, <3>2, <3>3 DEF Tokens
    <3>. QED  BY <3>1, <3>2, <3>4, JarServes DEF FoundFits, Replies
  <2>8. CASE FindTokens(t)
    <3>1. /\ \A u \in Tabs \ {t} : job'[u] = job[u]
          /\ job'[t].step = "revoking" /\ job'[t].token = job[t].token
          /\ job'[t].seen = issued
          /\ job'[t].doomed = {k \in Tokens : refresh[k] \in {"live", "expired"}}
      BY <1>a, <2>8 DEF FindTokens, Jobs
    <3>2. UNCHANGED <<issued, mark>>
      BY <2>8 DEF FindTokens, tokens
    <3>3. \A k \in job'[t].doomed : k <= issued
      BY <1>a, <3>1 DEF Tokens
    <3>4. mark <= issued
      BY DEF Rotation
    <3>5. FoundFits(t)'
      BY <1>a, <3>1, <3>2, <3>3, <3>4 DEF FoundFits
    <3>. QED  BY <2>8, <2>a, <3>1, <3>5 DEF FindTokens, Replies
  <2>9. CASE RollbackReset(t)
    BY <2>9, <2>a, <2>c DEF RollbackReset, InReset, FoundFits, Replies
  <2>. QED  BY <1>2, <2>1, <2>2, <2>3, <2>4, <2>5, <2>6, <2>7, <2>8, <2>9 DEF Serve
<1>3. ASSUME NEW k \in Tokens, ExpireToken(k) PROVE JarInvariant'
  BY <1>a, <1>3, JarStill DEF ExpireToken, client
<1>4. ASSUME \/ \E type \in ProfileTypes : Register(type)
             \/ \E l \in Links("verify_email") : VerifyEmail(l)
             \/ \E t \in Tabs : AccessEnds(t)
             \/ \E p \in Purposes : \E l \in Links(p) : ExpireLink(p, l)
             \/ UNCHANGED vars
      PROVE  JarInvariant'
  BY <1>4, JarStill DEF Register, VerifyEmail, AccessEnds, ExpireLink, vars, tokens, client
<1>. QED  BY <1>1, <1>2, <1>3, <1>4, JarReset, JarDelivers, JarLoses DEF Next

\* Whatever replies cross, the jar keeps no revoked token, unless a reset
\* revoked it or the reply that replaces it is on its way or was lost.
THEOREM JarIsCurrent == Spec => []JarHoldsACurrentToken
<1>1. JarInvariant => JarHoldsACurrentToken
  BY DEF JarInvariant
<1>2. Init => Presents
  BY DEF Init, Presents, Idle
<1>3. LinkInvariant => LinksHeld
  BY DEF LinkInvariant
<1>. QED  BY <1>1, <1>2, <1>3, TypeInit, TypeNext, PresentsNext, RotationInit, RotationNext,
             LinkInit, LinkNext, JarInit, JarNext, PTL DEF Spec

=============================================================================
