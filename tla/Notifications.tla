---------------------------- MODULE Notifications ----------------------------
(***************************************************************************)
(* Notices to users (apps/accounts): dispatch_notification reads which     *)
(* channels the user wants and puts one task in the Celery queue for each; *)
(* a worker takes a task, which acknowledges it, reads the preference      *)
(* again and sends.  A notice is a task: one event, one user, one channel. *)
(* A task is over when NotificationLog says that it was sent, failed or    *)
(* was skipped, which no code reads, or when its worker stopped.           *)
(***************************************************************************)
EXTENDS Integers

CONSTANTS
  Users,
  Events,      \* what notices are about
  Devices,     \* push endpoints
  Wishes,      \* [Users -> sets of channels], what the form may be set to
  Reachable,   \* [Users -> channels an address or number is known for]
  Configured,  \* channels with credentials in the settings
  Nobody

Channels == {"push", "whatsapp", "email"}
Notice == [event : Events, user : Users, channel : Channels]

ASSUME NotificationsAssumption ==
  /\ Wishes \in [Users -> SUBSET SUBSET Channels]
  /\ Reachable \in [Users -> SUBSET Channels]
  /\ Configured \subseteq Channels
  /\ Nobody \notin Users

VARIABLES
  preference,  \* channels a user wants
  device,      \* user of a push endpoint, or Nobody
  task,        \* what became of a notice
  todo,        \* devices a push under way has still to reach
  holder,      \* history: who registered an endpoint last
  handed       \* history: pushes under way when their device changed hands

notes == <<preference, device, task, todo, holder, handed>>

NotesTypeOK ==
  /\ preference \in [Users -> SUBSET Channels]
  /\ device \in [Devices -> Users \cup {Nobody}]
  /\ task \in [Notice -> {"none", "queued", "sending", "over"}]
  /\ todo \in [Notice -> SUBSET Devices]
  /\ holder \in [Devices -> Users \cup {Nobody}]
  /\ handed \subseteq Notice \X Devices

NotesInit ==
  /\ preference \in [Users -> SUBSET Channels]
  /\ \A u \in Users : preference[u] \in Wishes[u]
  /\ device = [d \in Devices |-> Nobody]
  /\ task = [n \in Notice |-> "none"]
  /\ todo = [n \in Notice |-> {}]
  /\ holder = [d \in Devices |-> Nobody]
  /\ handed = {}

\* The channels are tried in this order.
Order == [push |-> 1, whatsapp |-> 2, email |-> 3]

\* Mutant: mail is kept for what is urgent.
ChosenPushFirst(u, urgent) == {c \in preference[u] : c # "push" => urgent}

\* The channels of a notice.
Chosen(u, urgent) == {c \in preference[u] : c = "whatsapp" => urgent}

\* A dispatch puts a task in the queue for one channel after the other.  The
\* broker may refuse any of them, and then the caller is raised at.
Dispatch(u, e, urgent, raised) ==
  \E taken \in SUBSET Chosen(u, urgent) :
    /\ \A c \in taken, d \in Chosen(u, urgent) : Order[d] < Order[c] => d \in taken
    /\ raised <=> taken # Chosen(u, urgent)
    /\ task' = [n \in Notice |->
                  IF n.event = e /\ n.user = u /\ n.channel \in taken
                  THEN "queued" ELSE task[n]]

DevicesOf(u) == {d \in Devices : device[d] = u}

Outcome(n, result) == task' = [task EXCEPT ![n] = result]

EmailReady(u) == "email" \in preference[u] \cap Reachable[u]
WhatsAppReady(u) == "whatsapp" \in preference[u] \cap Reachable[u] \cap Configured
PushReady(u) ==
  "push" \in preference[u] \cap Configured /\ DevicesOf(u) # {}

Ready(n) ==
  \/ n.channel = "email" /\ EmailReady(n.user)
  \/ n.channel = "whatsapp" /\ WhatsAppReady(n.user)
  \/ n.channel = "push" /\ PushReady(n.user)

\* notify_user_task up to the sending; what cannot be sent is logged as skipped.
RunTask(n) ==
  /\ task[n] = "queued"
  /\ \/ /\ Ready(n)
        /\ Outcome(n, "sending")
        /\ todo' = [todo EXCEPT ![n] = IF n.channel = "push"
                                         THEN DevicesOf(n.user) ELSE {}]
     \/ ~Ready(n) /\ Outcome(n, "over") /\ UNCHANGED todo
  /\ UNCHANGED <<preference, device, holder, handed>>

\* One device at a time, sent or failed and logged.
PushTo(n, d) ==
  /\ d \in todo[n]
  /\ todo' = [todo EXCEPT ![n] = @ \ {d}]
  /\ Outcome(n, IF todo[n] = {d} THEN "over" ELSE "sending")
  /\ UNCHANGED <<preference, device, holder, handed>>

\* Mail and WhatsApp go out and are logged, sent or failed.
SendNow(n) ==
  /\ task[n] = "sending" /\ n.channel # "push"
  /\ Outcome(n, "over")
  /\ UNCHANGED <<preference, device, todo, holder, handed>>

\* The worker stops, or an error no clause names ends the task.  It was
\* acknowledged when it was taken, and nobody runs it again.
TaskEnds(n) ==
  /\ task[n] = "sending"
  /\ Outcome(n, "over")
  /\ todo' = [todo EXCEPT ![n] = {}]
  /\ UNCHANGED <<preference, device, holder, handed>>

UpdatePreference(u, wish) ==
  /\ wish \in Wishes[u]
  /\ preference' = [preference EXCEPT ![u] = wish]
  /\ UNCHANGED <<device, task, todo, holder, handed>>

Register(u, d, owner) ==
  /\ device' = [device EXCEPT ![d] = owner]
  /\ holder' = [holder EXCEPT ![d] = u]
  /\ handed' = handed \cup {<<n, d>> : n \in {m \in Notice : d \in todo[m] /\ m.user # u}}
  /\ UNCHANGED <<preference, task, todo>>

\* Mutant: get_or_create, which leaves an endpoint with its first user.
SubscribeFirst(u, d) ==
  Register(u, d, IF device[d] = Nobody THEN u ELSE device[d])

\* update_or_create by endpoint: a device that is registered again changes
\* hands.
Subscribe(u, d) == Register(u, d, u)

Deliver == \E n \in Notice : RunTask(n) \/ SendNow(n) \/ \E d \in Devices : PushTo(n, d)

UserActs ==
  \E u \in Users : \/ \E wish \in Wishes[u] : UpdatePreference(u, wish)
                   \/ \E d \in Devices : Subscribe(u, d)

NotesNext == Deliver \/ UserActs \/ \E n \in Notice : TaskEnds(n)

-----------------------------------------------------------------------------
\* A device is used for the user who registered it last.  What still goes to
\* an earlier one was on its way when the device changed hands.
LastHolderOnly ==
  \A n \in Notice : \A d \in todo[n] :
    n.user = holder[d] \/ <<n, d>> \in handed
=============================================================================
