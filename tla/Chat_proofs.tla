----------------------------- MODULE Chat_proofs ------------------------------
(***************************************************************************)
(* The properties of Chat for any number of pages, messages and limits.    *)
(***************************************************************************)
EXTENDS Chat, FiniteSetTheorems, TLAPS

\* A consumer has a message of its own exactly when it is about to send it.
OneMessageEach == \A p \in Pages : at[p] = "send" <=> message[p] # 0

\* Pages of u whose consumer is at one of the steps.
AtSteps(u, steps) == {p \in PagesOf(u) : at[p] \in steps}

\* The messages of the last minute and those that have been counted.
CountedFit ==
  \A u \in Users :
    recent[u] + Cardinality(AtSteps(u, {"create"})) <= Limit - 1 + Cardinality(PagesOf(u))

\* Messages stored since a block, and those that had passed the check before.
PassedFit ==
  \A u \in Users :
    /\ ~IsBlocked(u) => since[u] = 0
    /\ since[u] + Cardinality(AtSteps(u, {"count", "create"})) <= Cardinality(PagesOf(u))

\* What a loaded page can be sure to show, before and after it connects.
Accounted ==
  \A p \in Pages : page[p] # "closed" =>
    \A m \in 1..stored : \/ m \in seen[p] \cup missed[p] \cup unsent
                         \/ \E q \in Pages : message[q] = m

IInv == TypeOK /\ OneMessageEach /\ CountedFit /\ PassedFit /\ Accounted

-----------------------------------------------------------------------------
LEMMA TypesHold ==
  ASSUME TypeOK, OneMessageEach, [Next]_vars
  PROVE  TypeOK' /\ OneMessageEach'
<1> USE ChatAssumption
<1>1. ASSUME NEW p \in Pages, LoadPage(p) PROVE TypeOK' /\ OneMessageEach'
  <2>1. \A S \in {{m \in 1..stored : m > stored - HistoryLimit},
                  {m \in 1..stored : m <= stored - HistoryLimit}} : S \in SUBSET Messages
    BY DEF TypeOK, Messages
  <2> QED BY <1>1, <2>1 DEF LoadPage, TypeOK, OneMessageEach
<1>2. ASSUME NEW p \in Pages, Connect(p) PROVE TypeOK' /\ OneMessageEach'
  BY <1>2 DEF Connect, TypeOK, OneMessageEach
<1>3. ASSUME NEW p \in Pages, Leave(p) PROVE TypeOK' /\ OneMessageEach'
  BY <1>3 DEF Leave, TypeOK, OneMessageEach
<1>4. ASSUME NEW p \in Pages, Receive(p) PROVE TypeOK' /\ OneMessageEach'
  BY <1>4 DEF Receive, Goto, TypeOK, OneMessageEach
<1>5. ASSUME NEW p \in Pages, CountRecent(p) PROVE TypeOK' /\ OneMessageEach'
  BY <1>5 DEF CountRecent, Goto, TypeOK, OneMessageEach
<1>6. ASSUME NEW p \in Pages, CreateMessage(p) PROVE TypeOK' /\ OneMessageEach'
  <2>1. UserOf[p] \in Users /\ stored + 1 \in 1..MaxMessages
    BY <1>6 DEF CreateMessage, TypeOK
  <2> QED BY <1>6, <2>1 DEF CreateMessage, Goto, TypeOK, OneMessageEach
<1>7. ASSUME NEW p \in Pages, GroupSend(p) PROVE TypeOK' /\ OneMessageEach'
  <2>1. message[p] \in Messages
    BY <1>7 DEF GroupSend, Shown, TypeOK, OneMessageEach, Messages
  <2> QED BY <1>7, <2>1 DEF GroupSend, Shown, Goto, TypeOK, OneMessageEach
<1>8. ASSUME NEW p \in Pages, Stop(p) PROVE TypeOK' /\ OneMessageEach'
  <2>1. at[p] = "send" => message[p] \in Messages
    BY DEF TypeOK, OneMessageEach, Messages
  <2> QED BY <1>8, <2>1 DEF Stop, Goto, TypeOK, OneMessageEach
<1>9. ASSUME NEW u \in Users, Minute(u) PROVE TypeOK' /\ OneMessageEach'
  BY <1>9 DEF Minute, TypeOK, OneMessageEach
<1>10. ASSUME NEW u \in Users, BlockUser(u) PROVE TypeOK' /\ OneMessageEach'
  <2>1. Other(u) \in Users
    <3>1. \E v \in Users : v # u
      <4>1. Users # {u}
        BY FS_Singleton
      <4> QED BY <4>1
    <3> QED BY <3>1 DEF Other
  <2> QED BY <1>10, <2>1 DEF BlockUser, TypeOK, OneMessageEach
<1>11. CASE UNCHANGED vars
  BY <1>11 DEF vars, TypeOK, OneMessageEach
<1> QED BY <1>1, <1>2, <1>3, <1>4, <1>5, <1>6, <1>7, <1>8, <1>9, <1>10, <1>11 DEF Next

-----------------------------------------------------------------------------
(* Counting consumers.                                                     *)

LEMMA AtStepsFinite ==
  ASSUME NEW u, NEW steps
  PROVE  /\ IsFiniteSet(PagesOf(u)) /\ IsFiniteSet(AtSteps(u, steps))
         /\ Cardinality(PagesOf(u)) \in Nat /\ Cardinality(AtSteps(u, steps)) \in Nat
         /\ Cardinality(AtSteps(u, steps)) <= Cardinality(PagesOf(u))
<1>1. PagesOf(u) \in SUBSET Pages /\ AtSteps(u, steps) \in SUBSET PagesOf(u)
  BY DEF PagesOf, AtSteps
<1>2. IsFiniteSet(PagesOf(u))
  BY <1>1, FS_Subset, ChatAssumption
<1>3. /\ IsFiniteSet(AtSteps(u, steps))
      /\ Cardinality(AtSteps(u, steps)) <= Cardinality(PagesOf(u))
  BY <1>1, <1>2, FS_Subset
<1> QED BY <1>2, <1>3, FS_CardinalityType

\* A consumer that leaves the steps lowers the number by one.
LEMMA Leaves ==
  ASSUME TypeOK, NEW p \in Pages, NEW steps, NEW to, at[p] \in steps, to \notin steps,
         at' = [at EXCEPT ![p] = to], NEW u, u = UserOf[p]
  PROVE  Cardinality(AtSteps(u, steps)') = Cardinality(AtSteps(u, steps)) - 1
<1>1. AtSteps(u, steps)' = AtSteps(u, steps) \ {p}
  BY DEF AtSteps, PagesOf, TypeOK
<1>2. p \in AtSteps(u, steps)
  BY DEF AtSteps, PagesOf
<1> QED BY <1>1, <1>2, AtStepsFinite, FS_RemoveElement

\* A consumer that goes anywhere else than to the steps does not raise it.
LEMMA DoesNotEnter ==
  ASSUME TypeOK, NEW p \in Pages, NEW steps, NEW to, to \in steps => at[p] \in steps,
         at' = [at EXCEPT ![p] = to], NEW u
  PROVE  Cardinality(AtSteps(u, steps)') <= Cardinality(AtSteps(u, steps))
<1>1. AtSteps(u, steps)' \in SUBSET AtSteps(u, steps)
  BY DEF AtSteps, PagesOf, TypeOK
<1> QED BY <1>1, AtStepsFinite, FS_Subset

\* The consumer of another user does not change it.
LEMMA OfAnother ==
  ASSUME TypeOK, NEW p \in Pages, NEW steps, NEW to, at' = [at EXCEPT ![p] = to],
         NEW u, u # UserOf[p]
  PROVE  AtSteps(u, steps)' = AtSteps(u, steps)
BY DEF AtSteps, PagesOf, TypeOK

\* What keeps the two counts: nothing is stored, forgotten or blocked, and no
\* consumer gets past a check.
LEMMA QuietCounts ==
  ASSUME TypeOK, TypeOK', CountedFit, PassedFit,
         recent' = recent, since' = since, blocks' = blocks,
         \A u \in Users, steps \in {{"create"}, {"count", "create"}} :
           Cardinality(AtSteps(u, steps)') <= Cardinality(AtSteps(u, steps))
  PROVE  CountedFit' /\ PassedFit'
<1>1. \A u \in Users, steps \in {{"create"}, {"count", "create"}} :
        /\ Cardinality(AtSteps(u, steps)') \in Nat /\ Cardinality(AtSteps(u, steps)) \in Nat
        /\ Cardinality(PagesOf(u)) \in Nat /\ PagesOf(u)' = PagesOf(u)
  <2> SUFFICES ASSUME NEW u \in Users, NEW steps
               PROVE  /\ Cardinality(AtSteps(u, steps)') \in Nat
                      /\ Cardinality(AtSteps(u, steps)) \in Nat
                      /\ Cardinality(PagesOf(u)) \in Nat /\ PagesOf(u)' = PagesOf(u)
    OBVIOUS
  <2>1. AtSteps(u, steps)' \in SUBSET PagesOf(u) /\ PagesOf(u)' = PagesOf(u)
    BY DEF AtSteps, PagesOf
  <2> QED BY <2>1, AtStepsFinite, FS_Subset, FS_CardinalityType
<1>2. \A u \in Users : /\ recent[u] \in Nat /\ since[u] \in Nat
                       /\ IsBlocked(u)' <=> IsBlocked(u)
  BY DEF TypeOK, IsBlocked, Other
<1>3. CountedFit'
  BY <1>1, <1>2, ChatAssumption DEF CountedFit
<1>4. PassedFit'
  BY <1>1, <1>2 DEF PassedFit
<1> QED BY <1>3, <1>4

\* A counted message among few: whatever the consumers do, the limit is kept.
LEMMA AfterCount ==
  ASSUME TypeOK, TypeOK', CountedFit, PassedFit, NEW p \in Pages, CountRecent(p)
  PROVE  CountedFit' /\ PassedFit'
<1> DEFINE to == IF recent[UserOf[p]] >= Limit THEN "idle" ELSE "create"
<1>1. at' = [at EXCEPT ![p] = to] /\ at[p] = "count" /\ recent' = recent /\ since' = since
      /\ blocks' = blocks
  BY DEF CountRecent, Goto
<1>2. ASSUME NEW u \in Users PROVE (PassedFit!(u))'
  <2>1. Cardinality(AtSteps(u, {"count", "create"})') <= Cardinality(AtSteps(u, {"count", "create"}))
    <3> HIDE DEF to
    <3> QED BY <1>1, DoesNotEnter
  <2>2. /\ AtSteps(u, {"count", "create"})' \in SUBSET PagesOf(u)
        /\ PagesOf(u)' = PagesOf(u)
        /\ IsBlocked(u)' <=> IsBlocked(u)
    BY <1>1 DEF AtSteps, PagesOf, IsBlocked, Other
  <2>3. /\ Cardinality(AtSteps(u, {"count", "create"})') \in Nat
        /\ Cardinality(AtSteps(u, {"count", "create"})) \in Nat
        /\ Cardinality(PagesOf(u)) \in Nat
    BY <2>2, AtStepsFinite, FS_Subset, FS_CardinalityType
  <2> QED BY <1>1, <2>1, <2>2, <2>3 DEF PassedFit, TypeOK
<1>3. ASSUME NEW u \in Users
      PROVE  recent'[u] + Cardinality(AtSteps(u, {"create"})') <= Limit - 1 + Cardinality(PagesOf(u))
  <2>1. /\ AtSteps(u, {"create"})' \in SUBSET PagesOf(u)
        /\ recent[u] \in Nat /\ Limit \in Nat
    BY ChatAssumption DEF AtSteps, PagesOf, TypeOK
  <2>2. /\ Cardinality(AtSteps(u, {"create"})') \in Nat
        /\ Cardinality(AtSteps(u, {"create"})') <= Cardinality(PagesOf(u))
        /\ Cardinality(AtSteps(u, {"create"})) \in Nat
        /\ Cardinality(PagesOf(u)) \in Nat
    BY <2>1, AtStepsFinite, FS_Subset, FS_CardinalityType
  <2>3. recent[u] + Cardinality(AtSteps(u, {"create"})) <= Limit - 1 + Cardinality(PagesOf(u))
    BY DEF CountedFit
  <2>4. CASE u = UserOf[p] /\ recent[u] < Limit
    BY <1>1, <2>1, <2>2, <2>4
  <2>5. CASE u # UserOf[p]
    <3>1. AtSteps(u, {"create"})' = AtSteps(u, {"create"})
      <4> HIDE DEF to
      <4> QED BY <1>1, <2>5, OfAnother
    <3> QED BY <1>1, <2>3, <3>1
  <2>6. CASE u = UserOf[p] /\ ~(recent[u] < Limit)
    <3>1. at' = [at EXCEPT ![p] = "idle"]
      <4>1. recent[UserOf[p]] >= Limit
        BY <2>1, <2>6
      <4> QED BY <1>1, <4>1
    <3>2. Cardinality(AtSteps(u, {"create"})') <= Cardinality(AtSteps(u, {"create"}))
      BY <3>1, DoesNotEnter
    <3> QED BY <1>1, <2>1, <2>2, <2>3, <3>2
  <2> QED BY <2>4, <2>5, <2>6
<1>4. CountedFit'
  <2>1. \A u \in Users : PagesOf(u)' = PagesOf(u)
    BY DEF PagesOf
  <2> QED BY <1>3, <2>1 DEF CountedFit
<1> QED BY <1>2, <1>4 DEF PassedFit

\* A message of a user is one more of the last minute and one less that has
\* been counted.
LEMMA AfterCreate ==
  ASSUME TypeOK, TypeOK', CountedFit, PassedFit, NEW p \in Pages, CreateMessage(p)
  PROVE  CountedFit' /\ PassedFit'
<1>1. /\ at' = [at EXCEPT ![p] = "send"] /\ at[p] = "create"
      /\ recent' = [recent EXCEPT ![UserOf[p]] = @ + 1]
      /\ since' = [since EXCEPT ![UserOf[p]] = IF IsBlocked(UserOf[p]) THEN @ + 1 ELSE @]
      /\ blocks' = blocks /\ UserOf[p] \in Users
  BY ChatAssumption DEF CreateMessage, Goto
<1>2. \A u \in Users : /\ PagesOf(u)' = PagesOf(u)
                       /\ IsBlocked(u)' <=> IsBlocked(u)
                       /\ recent[u] \in Nat /\ since[u] \in Nat
  BY <1>1 DEF PagesOf, IsBlocked, Other, TypeOK
<1>3. ASSUME NEW u \in Users, u # UserOf[p], NEW steps
      PROVE  AtSteps(u, steps)' = AtSteps(u, steps)
  BY <1>1, <1>3, OfAnother
<1>4. ASSUME NEW u \in Users, u = UserOf[p], NEW steps, "create" \in steps, "send" \notin steps
      PROVE  Cardinality(AtSteps(u, steps)') = Cardinality(AtSteps(u, steps)) - 1
  BY <1>1, <1>4, Leaves
<1>5. \A u \in Users : /\ Cardinality(AtSteps(u, {"create"})) \in Nat
                       /\ Cardinality(AtSteps(u, {"count", "create"})) \in Nat
                       /\ Cardinality(PagesOf(u)) \in Nat
  BY AtStepsFinite
<1>6. ASSUME NEW u \in Users PROVE (CountedFit!(u))'
  <2>1. CASE u = UserOf[p]
    <3>1. Cardinality(AtSteps(u, {"create"})') = Cardinality(AtSteps(u, {"create"})) - 1
      BY <1>4, <2>1
    <3>2. recent'[u] = recent[u] + 1
      BY <1>1, <2>1 DEF TypeOK
    <3> QED BY <1>2, <1>5, <3>1, <3>2, ChatAssumption DEF CountedFit
  <2>2. CASE u # UserOf[p]
    <3>1. recent'[u] = recent[u] /\ AtSteps(u, {"create"})' = AtSteps(u, {"create"})
      BY <1>1, <1>3, <2>2 DEF TypeOK
    <3> QED BY <1>2, <3>1 DEF CountedFit
  <2> QED BY <2>1, <2>2
<1>7. ASSUME NEW u \in Users PROVE (PassedFit!(u))'
  <2>1. CASE u = UserOf[p]
    <3>1. Cardinality(AtSteps(u, {"count", "create"})')
            = Cardinality(AtSteps(u, {"count", "create"})) - 1
      BY <1>4, <2>1
    <3>2. since'[u] = IF IsBlocked(u) THEN since[u] + 1 ELSE since[u]
      BY <1>1, <2>1 DEF TypeOK
    <3> QED BY <1>2, <1>5, <3>1, <3>2 DEF PassedFit
  <2>2. CASE u # UserOf[p]
    <3>1. /\ since'[u] = since[u]
          /\ AtSteps(u, {"count", "create"})' = AtSteps(u, {"count", "create"})
      BY <1>1, <1>3, <2>2 DEF TypeOK
    <3> QED BY <1>2, <3>1 DEF PassedFit
  <2> QED BY <2>1, <2>2
<1> QED BY <1>6, <1>7 DEF CountedFit, PassedFit
LEMMA CountsHold ==
  ASSUME TypeOK, TypeOK', CountedFit, PassedFit, [Next]_vars
  PROVE  CountedFit' /\ PassedFit'
<1> DEFINE Passing == {{"create"}, {"count", "create"}}
<1>1. \A p \in Pages : LoadPage(p) \/ Connect(p) \/ Leave(p) => CountedFit' /\ PassedFit'
  <2>1. at' = at => \A u \in Users, steps \in Passing : AtSteps(u, steps)' = AtSteps(u, steps)
    BY DEF AtSteps, PagesOf
  <2>2. \A u \in Users, steps \in Passing : Cardinality(AtSteps(u, steps)) \in Nat
    BY AtStepsFinite
  <2> QED BY <2>1, <2>2, QuietCounts DEF LoadPage, Connect, Leave
<1>2. ASSUME NEW p \in Pages, Receive(p) PROVE CountedFit' /\ PassedFit'
  <2>1. at' = [at EXCEPT ![p] = "count"] /\ at[p] = "idle" /\ recent' = recent
        /\ since' = since /\ blocks' = blocks /\ ~IsBlocked(UserOf[p])
    BY <1>2 DEF Receive, Goto
  <2>2. \A u \in Users : /\ PagesOf(u)' = PagesOf(u)
                         /\ IsBlocked(u)' <=> IsBlocked(u)
                         /\ AtSteps(u, {"create"})' = AtSteps(u, {"create"})
                         /\ AtSteps(u, {"count", "create"})' \in SUBSET PagesOf(u)
                         /\ since[u] \in Nat
    BY <2>1 DEF PagesOf, IsBlocked, Other, AtSteps, TypeOK
  <2>3. CountedFit'
    BY <2>1, <2>2 DEF CountedFit
  <2>4. ASSUME NEW u \in Users PROVE (PassedFit!(u))'
    <3>1. /\ Cardinality(AtSteps(u, {"count", "create"})') \in Nat
          /\ Cardinality(AtSteps(u, {"count", "create"})') <= Cardinality(PagesOf(u))
          /\ Cardinality(PagesOf(u)) \in Nat
      BY <2>2, AtStepsFinite, FS_Subset, FS_CardinalityType
    <3>2. CASE u = UserOf[p]
      BY <2>1, <2>2, <3>1, <3>2 DEF PassedFit
    <3>3. CASE u # UserOf[p]
      <4>1. AtSteps(u, {"count", "create"})' = AtSteps(u, {"count", "create"})
        BY <2>1, <3>3, OfAnother
      <4> QED BY <2>1, <2>2, <4>1 DEF PassedFit
    <3> QED BY <3>2, <3>3
  <2> QED BY <2>3, <2>4 DEF PassedFit
<1>3. ASSUME NEW p \in Pages, CountRecent(p) PROVE CountedFit' /\ PassedFit'
  BY <1>3, AfterCount
<1>4. ASSUME NEW p \in Pages, CreateMessage(p) PROVE CountedFit' /\ PassedFit'
  BY <1>4, AfterCreate
<1>5. \A p \in Pages : GroupSend(p) \/ Stop(p) => CountedFit' /\ PassedFit'
  <2> SUFFICES ASSUME NEW p \in Pages, GroupSend(p) \/ Stop(p)
               PROVE  CountedFit' /\ PassedFit'
    OBVIOUS
  <2>1. at' = [at EXCEPT ![p] = "idle"] /\ recent' = recent /\ since' = since /\ blocks' = blocks
    BY DEF GroupSend, Shown, Stop, Goto
  <2>2. \A u \in Users, steps \in Passing :
          Cardinality(AtSteps(u, steps)') <= Cardinality(AtSteps(u, steps))
    BY <2>1, DoesNotEnter
  <2> QED BY <2>1, <2>2, QuietCounts
<1>6. ASSUME NEW u \in Users, Minute(u) PROVE CountedFit' /\ PassedFit'
  <2>1. \A v \in Users :
          /\ AtSteps(v, {"create"})' = AtSteps(v, {"create"})
          /\ AtSteps(v, {"count", "create"})' = AtSteps(v, {"count", "create"})
          /\ PagesOf(v)' = PagesOf(v)
          /\ IsBlocked(v)' <=> IsBlocked(v)
    BY <1>6 DEF Minute, AtSteps, PagesOf, IsBlocked, Other
  <2>2. PassedFit'
    BY <1>6, <2>1 DEF PassedFit, Minute
  <2>3. \A v \in Users : /\ recent'[v] \in Nat /\ recent[v] \in Nat /\ recent'[v] <= recent[v]
    BY <1>6 DEF Minute, TypeOK
  <2>4. \A v \in Users : /\ Cardinality(AtSteps(v, {"create"})) \in Nat
                         /\ Cardinality(PagesOf(v)) \in Nat
    BY AtStepsFinite
  <2>5. CountedFit'
    BY <2>1, <2>3, <2>4, ChatAssumption DEF CountedFit
  <2> QED BY <2>2, <2>5
<1>7. ASSUME NEW u \in Users, BlockUser(u) PROVE CountedFit' /\ PassedFit'
  <2>1. \A v \in Users : /\ AtSteps(v, {"create"})' = AtSteps(v, {"create"})
                         /\ AtSteps(v, {"count", "create"})' = AtSteps(v, {"count", "create"})
                         /\ PagesOf(v)' = PagesOf(v)
    BY <1>7 DEF BlockUser, AtSteps, PagesOf
  <2>2. \A v \in Users : IsBlocked(v) => IsBlocked(v)'
    BY <1>7 DEF BlockUser, IsBlocked, Other
  <2>3. recent' = recent /\ since' = since
    BY <1>7 DEF BlockUser
  <2> QED BY <2>1, <2>2, <2>3 DEF CountedFit, PassedFit
<1>8. CASE UNCHANGED vars
  <2>1. \A v \in Users : /\ AtSteps(v, {"create"})' = AtSteps(v, {"create"})
                         /\ AtSteps(v, {"count", "create"})' = AtSteps(v, {"count", "create"})
                         /\ PagesOf(v)' = PagesOf(v)
                         /\ IsBlocked(v)' <=> IsBlocked(v)
    BY <1>8 DEF vars, AtSteps, PagesOf, IsBlocked, Other
  <2>2. recent' = recent /\ since' = since
    BY <1>8 DEF vars
  <2> QED BY <2>1, <2>2 DEF CountedFit, PassedFit
<1> QED BY <1>1, <1>2, <1>3, <1>4, <1>5, <1>6, <1>7, <1>8 DEF Next

-----------------------------------------------------------------------------
(* What the pages show.                                                    *)

LEMMA AccountedHolds ==
  ASSUME TypeOK, TypeOK', OneMessageEach, Accounted, [Next]_vars
  PROVE  Accounted'
<1>1. ASSUME NEW p \in Pages, LoadPage(p) PROVE Accounted'
  <2>1. /\ page' = [page EXCEPT ![p] = "loaded"]
        /\ seen' = [seen EXCEPT ![p] = {m \in 1..stored : m > stored - HistoryLimit}]
        /\ missed' = [missed EXCEPT ![p] = {m \in 1..stored : m <= stored - HistoryLimit}]
        /\ message' = message /\ stored' = stored /\ unsent' = unsent
    BY <1>1 DEF LoadPage
  <2>2. \A m \in 1..stored : m \in seen'[p] \cup missed'[p]
    <3>1. stored \in Int /\ HistoryLimit \in Int
      BY ChatAssumption DEF TypeOK
    <3>2. \A m \in 1..stored : m > stored - HistoryLimit \/ m <= stored - HistoryLimit
      BY <3>1
    <3>3. /\ seen'[p] = {m \in 1..stored : m > stored - HistoryLimit}
          /\ missed'[p] = {m \in 1..stored : m <= stored - HistoryLimit}
      BY <2>1 DEF TypeOK
    <3> QED BY <3>2, <3>3
  <2>3. \A q \in Pages : q # p => page'[q] = page[q] /\ seen'[q] = seen[q] /\ missed'[q] = missed[q]
    BY <2>1 DEF TypeOK
  <2> QED BY <2>1, <2>2, <2>3 DEF Accounted
<1>2. ASSUME NEW p \in Pages, Connect(p) PROVE Accounted'
  BY <1>2 DEF Connect, Accounted, TypeOK
<1>3. ASSUME NEW p \in Pages, Leave(p) PROVE Accounted'
  BY <1>3 DEF Leave, Accounted, TypeOK
<1>4. \A p \in Pages : Receive(p) \/ CountRecent(p) => Accounted'
  BY DEF Receive, CountRecent, Accounted
<1>5. ASSUME NEW p \in Pages, CreateMessage(p) PROVE Accounted'
  <2>1. /\ stored' = stored + 1 /\ at[p] = "create"
        /\ message' = [message EXCEPT ![p] = stored + 1]
        /\ page' = page /\ seen' = seen /\ missed' = missed /\ unsent' = unsent
    BY <1>5 DEF CreateMessage
  <2>2. message[p] = 0 /\ message'[p] = stored + 1 /\ stored \in Nat
    BY <2>1 DEF TypeOK, OneMessageEach
  <2>3. \A q \in Pages : q # p => message'[q] = message[q]
    BY <2>1 DEF TypeOK
  <2>4. ASSUME NEW r \in Pages, page'[r] # "closed", NEW m \in 1..stored'
        PROVE  m \in seen'[r] \cup missed'[r] \cup unsent' \/ \E q \in Pages : message'[q] = m
    <3>1. CASE m = stored + 1
      BY <2>2, <3>1
    <3>2. CASE m # stored + 1
      <4>1. m \in 1..stored /\ m # 0
        BY <2>1, <2>2, <3>2
      <4> QED BY <2>1, <2>2, <2>3, <2>4, <4>1 DEF Accounted
    <3> QED BY <3>1, <3>2
  <2> QED BY <2>4 DEF Accounted
<1>6. ASSUME NEW p \in Pages, GroupSend(p) PROVE Accounted'
  <2>1. /\ message' = [message EXCEPT ![p] = 0] /\ page' = page /\ stored' = stored
        /\ unsent' = unsent
    BY <1>6 DEF GroupSend, Shown
  <2>2. \A q \in Pages :
          /\ seen[q] \subseteq seen'[q] /\ missed[q] \subseteq missed'[q]
          /\ page[q] # "closed" => message[p] \in seen'[q] \cup missed'[q]
    BY <1>6 DEF GroupSend, Shown, TypeOK
  <2>3. \A q \in Pages : q # p => message'[q] = message[q]
    BY <2>1 DEF TypeOK
  <2> QED BY <2>1, <2>2, <2>3 DEF Accounted
<1>7. ASSUME NEW p \in Pages, Stop(p) PROVE Accounted'
  <2>1. /\ message' = [message EXCEPT ![p] = 0] /\ page' = [page EXCEPT ![p] = "closed"]
        /\ stored' = stored
        /\ unsent' = IF at[p] = "send" THEN unsent \cup {message[p]} ELSE unsent
    BY <1>7 DEF Stop
  <2>2. \A q \in Pages : q # p => /\ message'[q] = message[q] /\ page'[q] = page[q]
                                  /\ seen'[q] = seen[q] /\ missed'[q] = missed[q]
    BY <1>7 DEF Stop, TypeOK
  <2>3. page'[p] = "closed"
    BY <2>1 DEF TypeOK
  <2>4. message[p] # 0 => message[p] \in unsent'
    BY <2>1 DEF OneMessageEach
  <2>5. unsent \subseteq unsent' /\ stored \in Nat
    BY <2>1 DEF TypeOK
  <2>6. ASSUME NEW r \in Pages, page'[r] # "closed", NEW m \in 1..stored'
        PROVE  m \in seen'[r] \cup missed'[r] \cup unsent' \/ \E q \in Pages : message'[q] = m
    <3>1. r # p /\ m # 0 /\ m \in 1..stored
      BY <2>1, <2>3, <2>5, <2>6
    <3>2. m \in seen[r] \cup missed[r] \cup unsent \/ \E q \in Pages : message[q] = m
      BY <2>2, <2>6, <3>1 DEF Accounted
    <3> QED BY <2>2, <2>4, <2>5, <3>1, <3>2
  <2> QED BY <2>6 DEF Accounted
<1>8. \A u \in Users : Minute(u) \/ BlockUser(u) => Accounted'
  BY DEF Minute, BlockUser, Accounted
<1>9. CASE UNCHANGED vars
  BY <1>9 DEF vars, Accounted
<1> QED BY <1>1, <1>2, <1>3, <1>4, <1>5, <1>6, <1>7, <1>8, <1>9 DEF Next

-----------------------------------------------------------------------------
LEMMA Starts == Init => IInv
<1> SUFFICES ASSUME Init PROVE IInv
  OBVIOUS
<1>1. TypeOK /\ OneMessageEach /\ Accounted
  BY ChatAssumption DEF Init, TypeOK, OneMessageEach, Accounted
<1>2. ASSUME NEW u \in Users, NEW steps \in {{"create"}, {"count", "create"}}
      PROVE  Cardinality(AtSteps(u, steps)) = 0
  <2>1. AtSteps(u, steps) = {}
    BY <1>2 DEF Init, AtSteps, PagesOf
  <2> QED BY <2>1, FS_EmptySet
<1>3. \A u \in Users : Cardinality(PagesOf(u)) \in Nat /\ recent[u] = 0 /\ since[u] = 0
  BY AtStepsFinite DEF Init
<1>4. CountedFit /\ PassedFit
  BY <1>2, <1>3, ChatAssumption DEF CountedFit, PassedFit
<1> QED BY <1>1, <1>4 DEF IInv

LEMMA Inductive == IInv /\ [Next]_vars => IInv'
BY TypesHold, CountsHold, AccountedHolds DEF IInv

\* The state of the pages, consumers and messages is what the model says.
THEOREM ChatTypes == Spec => []TypeOK
<1>1. IInv => TypeOK
  BY DEF IInv
<1> QED BY <1>1, Starts, Inductive, PTL DEF Spec

\* The limit per minute is passed only by messages counted at the same time
\* (MAX_MESSAGES_PER_MINUTE in the chat services).
THEOREM Rate == Spec => []RateHolds
<1>1. IInv => RateHolds
  <2>1. \A u \in Users : /\ Cardinality(AtSteps(u, {"create"})) \in Nat
                         /\ Cardinality(PagesOf(u)) \in Nat
    BY AtStepsFinite
  <2> QED BY <2>1, ChatAssumption DEF IInv, CountedFit, RateHolds, TypeOK
<1> QED BY <1>1, Starts, Inductive, PTL DEF Spec

\* A block lets through what had passed the check when it was made (is_blocked
\* comes before the INSERT in send_message), and nothing else.
THEOREM Block == Spec => []BlockHolds
<1>1. IInv => BlockHolds
  <2>1. \A u \in Users : /\ Cardinality(AtSteps(u, {"count", "create"})) \in Nat
                         /\ Cardinality(PagesOf(u)) \in Nat
    BY AtStepsFinite
  <2> QED BY <2>1 DEF IInv, PassedFit, BlockHolds, TypeOK
<1> QED BY <1>1, Starts, Inductive, PTL DEF Spec

\* An open page shows all messages, but those it came too late for and those
\* of a consumer that is about to send or stopped before it.
THEOREM Missed == Spec => []NothingMissed
<1>1. IInv => NothingMissed
  BY DEF IInv, Accounted, NothingMissed
<1> QED BY <1>1, Starts, Inductive, PTL DEF Spec
=============================================================================
