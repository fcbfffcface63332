-------------------------------- MODULE Chat ---------------------------------
(***************************************************************************)
(* One conversation (apps/chat): the pages its two users have open, each   *)
(* with the WebSocket of a consumer, the messages and the blocks.  A       *)
(* consumer handles one message at a time:                                 *)
(*                                                                         *)
(*   receive   is there a block?                                           *)
(*   count     how many messages in the last minute?                       *)
(*   create    the INSERT                                                  *)
(*   send      group_send to all consumers of the conversation             *)
(*                                                                         *)
(* Consumers may run in different server processes, joined by the Redis    *)
(* channel layer; they share nothing but the database.                     *)
(***************************************************************************)
EXTENDS Integers, FiniteSets

CONSTANTS
  Users,          \* the two of the conversation
  Pages,          \* pages with a socket
  UserOf,         \* [Pages -> Users]
  Limit,          \* MAX_MESSAGES_PER_MINUTE
  HistoryLimit,   \* MESSAGE_HISTORY_LIMIT
  MaxMessages     \* bound: messages stored

ASSUME ChatAssumption ==
  /\ IsFiniteSet(Pages) /\ Cardinality(Users) = 2
  /\ UserOf \in [Pages -> Users]
  /\ Limit \in Nat \ {0} /\ HistoryLimit \in Nat /\ MaxMessages \in Nat

VARIABLES
  page,      \* state of a page: its socket follows once it is loaded
  at,        \* where its consumer is with a message
  message,   \* the message its consumer has created
  stored,    \* messages there are, numbered as they are created
  recent,    \* messages of a user in the last minute
  blocks,    \* pairs <<blocker, blocked>>
  seen,      \* messages a page shows
  missed,    \* history: messages a page could not show: too old for the
             \* history, or sent before its socket was in the group
  unsent,    \* history: messages whose consumer stopped before the group_send
  since      \* history: messages of a user stored after a block by the other

vars == <<page, at, message, stored, recent, blocks, seen, missed, unsent, since>>

Messages == 1..MaxMessages
PagesOf(u) == {p \in Pages : UserOf[p] = u}
Other(u) == CHOOSE v \in Users : v # u

TypeOK ==
  /\ page \in [Pages -> {"closed", "loaded", "open"}]
  /\ at \in [Pages -> {"idle", "count", "create", "send"}]
  /\ message \in [Pages -> 0..MaxMessages]
  /\ stored \in 0..MaxMessages
  /\ recent \in [Users -> Nat]
  /\ blocks \subseteq Users \X Users
  /\ seen \in [Pages -> SUBSET Messages]
  /\ missed \in [Pages -> SUBSET Messages]
  /\ unsent \subseteq Messages
  /\ since \in [Users -> Nat]

Init ==
  /\ page = [p \in Pages |-> "closed"]
  /\ at = [p \in Pages |-> "idle"]
  /\ message = [p \in Pages |-> 0]
  /\ stored = 0
  /\ recent = [u \in Users |-> 0]
  /\ blocks = {}
  /\ seen = [p \in Pages |-> {}]
  /\ missed = [p \in Pages |-> {}]
  /\ unsent = {}
  /\ since = [u \in Users |-> 0]

-----------------------------------------------------------------------------
(* Pages and their sockets.                                                *)

LoadPage(p) ==
  /\ page[p] = "closed"
  /\ page' = [page EXCEPT ![p] = "loaded"]
  /\ seen' = [seen EXCEPT ![p] = {m \in 1..stored : m > stored - HistoryLimit}]
  /\ missed' = [missed EXCEPT ![p] = {m \in 1..stored : m <= stored - HistoryLimit}]
  /\ UNCHANGED <<at, message, stored, recent, blocks, unsent, since>>

Connect(p) ==
  /\ page[p] = "loaded"
  /\ page' = [page EXCEPT ![p] = "open"]
  /\ UNCHANGED <<at, message, stored, recent, blocks, seen, missed, unsent, since>>

\* disconnect, which waits for the message at hand.
Leave(p) ==
  /\ page[p] # "closed" /\ at[p] = "idle"
  /\ page' = [page EXCEPT ![p] = "closed"]
  /\ seen' = [seen EXCEPT ![p] = {}]
  /\ missed' = [missed EXCEPT ![p] = {}]
  /\ UNCHANGED <<at, message, stored, recent, blocks, unsent, since>>

\* A message gets older than a minute.
Minute(u) ==
  /\ recent[u] > 0
  /\ recent' = [recent EXCEPT ![u] = @ - 1]
  /\ UNCHANGED <<page, at, message, stored, blocks, seen, missed, unsent, since>>

-----------------------------------------------------------------------------
(* A message.                                                              *)

Goto(p, step) == at' = [at EXCEPT ![p] = step]

IsBlocked(u) == <<Other(u), u>> \in blocks

\* Mutant: the block the sender made counts, not the one against the sender.
ReceiveUnlessBlocking(p) ==
  /\ page[p] = "open" /\ at[p] = "idle" /\ ~IsBlocked(Other(UserOf[p]))
  /\ Goto(p, "count")
  /\ UNCHANGED <<page, message, stored, recent, blocks, seen, missed, unsent, since>>

Receive(p) ==
  /\ page[p] = "open" /\ at[p] = "idle" /\ ~IsBlocked(UserOf[p])
  /\ Goto(p, "count")
  /\ UNCHANGED <<page, message, stored, recent, blocks, seen, missed, unsent, since>>

\* Mutant: one more.
CountOneMore(p) ==
  /\ at[p] = "count"
  /\ Goto(p, IF recent[UserOf[p]] > Limit THEN "idle" ELSE "create")
  /\ UNCHANGED <<page, message, stored, recent, blocks, seen, missed, unsent, since>>

CountRecent(p) ==
  /\ at[p] = "count"
  /\ Goto(p, IF recent[UserOf[p]] >= Limit THEN "idle" ELSE "create")
  /\ UNCHANGED <<page, message, stored, recent, blocks, seen, missed, unsent, since>>

CreateMessage(p) ==
  LET u == UserOf[p] IN
  /\ at[p] = "create" /\ stored < MaxMessages                      \* bound
  /\ stored' = stored + 1
  /\ message' = [message EXCEPT ![p] = stored + 1]
  /\ recent' = [recent EXCEPT ![u] = @ + 1]
  /\ since' = [since EXCEPT ![u] = IF IsBlocked(u) THEN @ + 1 ELSE @]
  /\ Goto(p, "send")
  /\ UNCHANGED <<page, blocks, seen, missed, unsent>>

Shown(p, readers) ==
  /\ at[p] = "send"
  /\ seen' = [q \in Pages |-> seen[q] \cup IF q \in readers THEN {message[p]} ELSE {}]
  /\ missed' = [q \in Pages |-> missed[q] \cup IF page[q] = "loaded" THEN {message[p]} ELSE {}]
  /\ message' = [message EXCEPT ![p] = 0]
  /\ Goto(p, "idle")
  /\ UNCHANGED <<page, stored, recent, blocks, unsent, since>>

\* Mutant: the message goes to the other user's pages and the sender's page,
\* not to other pages of the sender.
SendToOther(p) ==
  Shown(p, {p} \cup {q \in Pages : page[q] = "open" /\ UserOf[q] # UserOf[p]})

GroupSend(p) == Shown(p, {q \in Pages : page[q] = "open"})

\* Any user of the conversation may block the other; nothing unblocks.
BlockUser(u) ==
  /\ blocks' = blocks \cup {<<u, Other(u)>>}
  /\ UNCHANGED <<page, at, message, stored, recent, seen, missed, unsent, since>>

\* The consumer stops: its socket closes, the message stays as it is.
Stop(p) ==
  /\ at[p] # "idle"
  /\ Goto(p, "idle")
  /\ page' = [page EXCEPT ![p] = "closed"]
  /\ seen' = [seen EXCEPT ![p] = {}]
  /\ missed' = [missed EXCEPT ![p] = {}]
  /\ unsent' = IF at[p] = "send" THEN unsent \cup {message[p]} ELSE unsent
  /\ message' = [message EXCEPT ![p] = 0]
  /\ UNCHANGED <<stored, recent, blocks, since>>

Next ==
  \/ \E p \in Pages :
       \/ LoadPage(p) \/ Connect(p) \/ Leave(p)
       \/ Receive(p) \/ CountRecent(p) \/ CreateMessage(p) \/ GroupSend(p)
       \/ Stop(p)
  \/ \E u \in Users : Minute(u) \/ BlockUser(u)

Spec == Init /\ [][Next]_vars

-----------------------------------------------------------------------------
\* The limit per minute is passed only by messages that are counted at the
\* same time, one on each page of the sender.
RateHolds == \A u \in Users : recent[u] <= Limit - 1 + Cardinality(PagesOf(u))

\* A block lets through no more than the messages that had passed the check
\* when it was made, one on each page of the sender.
BlockHolds == \A u \in Users : since[u] <= Cardinality(PagesOf(u))

\* A page in the group shows every message there is, but those about to be
\* sent, those whose consumer stopped, and those it came too late for.
NothingMissed ==
  \A p \in Pages : page[p] = "open" =>
    1..stored \subseteq seen[p] \cup missed[p] \cup unsent \cup {message[q] : q \in Pages}
=============================================================================
