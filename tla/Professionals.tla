---------------------------- MODULE Professionals ----------------------------
(***************************************************************************)
(* The profile of a professional, its availability and its portfolio       *)
(* (internal/professionals).  A request runs in one READ COMMITTED         *)
(* transaction, statement by statement; what it writes is pending in its   *)
(* job until it commits.  The row of the profile is locked by the UPDATE   *)
(* of the form and by the SELECT FOR UPDATE of an upload; a deletion locks *)
(* only the row of the item.                                               *)
(*                                                                         *)
(*   update   load, save, periods, commit                                  *)
(*   upload   lock, count, write, insert, commit                           *)
(*   delete   commit, unlink                 (started by the DELETE)       *)
(*                                                                         *)
(* Images are files beside the database, written before the row that names *)
(* them and unlinked after the row is gone.                                *)
(***************************************************************************)
EXTENDS Availability, FiniteSets

CONSTANTS
  Owners,         \* professionals
  Workers,        \* requests the server can have under way
  Forms,          \* what profile forms hold, once normalised
  OpenCategories, \* the active ones
  Limit,          \* maxPortfolioItems
  MaxUploads,     \* bound: uploads begun
  Crashes,        \* BOOLEAN: whether a request may stop halfway
  None

ASSUME ProfessionalsAssumption ==
  /\ IsFiniteSet(Owners)
  /\ \A f \in Forms :
       /\ f.fits \in BOOLEAN       \* lengths, ranges, time zone, coordinates
       /\ f.placed \in BOOLEAN     \* latitude and longitude are given
       /\ f.now \in BOOLEAN        \* available_now
       /\ f.periods \in Seq(FormPeriods)
  /\ Limit \in Nat \ {0}
  /\ MaxUploads \in Nat
  /\ Crashes \in BOOLEAN
  /\ None \notin Owners \cup Workers \cup Forms

VARIABLES
  form,      \* the form the columns of the profile come from, or None
  located,   \* service_location IS NOT NULL
  periods,   \* rows of availabilities
  items,     \* rows of portfolio_items: upload and sort_order
  files,     \* files in uploadDir, by the upload that wrote them
  lock,      \* who holds the lock on the row of the profile
  job,       \* of a worker: what it is doing and what it has read
  uploads,   \* uploads begun; numbers them, as created_at orders them
  unheard,   \* history: uploads committed whose worker saw COMMIT fail
  stray,     \* history: files a stopped worker or a failed unlink left
  thinned    \* history: professionals who deleted an item

rows == <<form, located, periods, items>>
history == <<uploads, unheard, stray, thinned>>
vars == <<rows, files, lock, job, history>>

Uploads == 1..MaxUploads
Item == [key : Uploads, order : Nat]

Idle == [op |-> "idle", at |-> "start", p |-> None, form |-> None,
         key |-> 0, order |-> 0, old |-> {}]
Jobs == [op : {"idle", "update", "upload", "delete"},
         at : {"start", "load", "save", "periods", "lock", "count", "write",
               "insert", "commit", "unlink"},
         p : Owners \cup {None}, form : Forms \cup {None},
         key : Uploads \cup {0},
         order : Nat,             \* items counted
         old : SUBSET Rows]       \* periods its DELETE removes

TypeOK ==
  /\ form \in [Owners -> Forms \cup {None}]
  /\ located \in [Owners -> BOOLEAN]
  /\ periods \in [Owners -> SUBSET Rows]
  /\ items \in [Owners -> SUBSET Item]
  /\ files \subseteq Uploads
  /\ lock \in [Owners -> Workers \cup {None}]
  /\ job \in [Workers -> Jobs]
  /\ uploads \in 0..MaxUploads
  /\ unheard \subseteq Uploads
  /\ stray \subseteq Uploads
  /\ thinned \subseteq Owners

\* Registration leaves an empty profile.
Init ==
  /\ form = [p \in Owners |-> None]
  /\ located = [p \in Owners |-> FALSE]
  /\ periods = [p \in Owners |-> {}]
  /\ items = [p \in Owners |-> {}]
  /\ files = {}
  /\ lock = [p \in Owners |-> None]
  /\ job = [w \in Workers |-> Idle]
  /\ uploads = 0
  /\ unheard = {}
  /\ stray = {}
  /\ thinned = {}

At(w, op, at) == job[w].op = op /\ job[w].at = at
Goto(w, at) == job' = [job EXCEPT ![w].at = at]
\* Commit and rollback alike give the locks back.
Finish(w) ==
  /\ job' = [job EXCEPT ![w] = Idle]
  /\ lock' = [p \in Owners |-> IF lock[p] = w THEN None ELSE lock[p]]
Take(w, p) == lock[p] = None /\ lock' = [lock EXCEPT ![p] = w]

KeysOf(p) == {i.key : i \in items[p]}

-----------------------------------------------------------------------------
(* PUT /professional/profile                                               *)

FormAccepted(f) == f.fits /\ PeriodsAccepted(f.periods)

\* A form the checks refuse is answered at once.
StartUpdate(w, p, f) ==
  /\ job[w] = Idle
  /\ FormAccepted(f)
  /\ job' = [job EXCEPT ![w] = [Idle EXCEPT !.op = "update", !.at = "load",
                                            !.p = p, !.form = f]]
  /\ UNCHANGED <<rows, files, lock, history>>

\* Reads the profile, without locking it, and the category.
LoadProfile(w) ==
  LET f  == job[w].form
      ok == /\ located[job[w].p] \/ f.placed
            /\ f.category \in OpenCategories
  IN
  /\ At(w, "update", "load")
  /\ \/ ok /\ Goto(w, "save") /\ UNCHANGED lock
     \/ ~ok /\ Finish(w)
  /\ UNCHANGED <<rows, files, history>>

\* Mutant: the periods are replaced before the row of the profile is locked.
SaveWithoutLock(w) ==
  /\ At(w, "update", "save")
  /\ Goto(w, "periods")
  /\ UNCHANGED <<rows, files, lock, history>>

\* The UPDATE waits for the lock.
SaveProfile(w) ==
  /\ At(w, "update", "save")
  /\ Take(w, job[w].p)
  /\ Goto(w, "periods")
  /\ UNCHANGED <<rows, files, history>>

\* The DELETE removes the periods committed by now; the INSERTs follow.
ReplacePeriods(w) ==
  /\ At(w, "update", "periods")
  /\ job' = [job EXCEPT ![w].old = periods[job[w].p], ![w].at = "commit"]
  /\ UNCHANGED <<rows, files, lock, history>>

\* Audit and COMMIT: all that was pending shows.  A form without a place
\* keeps the one there is.
CommitUpdate(w) ==
  LET p == job[w].p
      f == job[w].form IN
  /\ At(w, "update", "commit")
  /\ form' = [form EXCEPT ![p] = f]
  /\ located' = [located EXCEPT ![p] = @ \/ f.placed]
  /\ periods' = [periods EXCEPT ![p] = (@ \ job[w].old) \cup RowsOf(f.periods)]
  /\ Finish(w)
  /\ UNCHANGED <<items, files, history>>

-----------------------------------------------------------------------------
(* POST /professional/portfolio                                            *)

StartUpload(w, p) ==
  /\ job[w] = Idle
  /\ uploads < MaxUploads                                          \* bound
  /\ uploads' = uploads + 1
  /\ job' = [job EXCEPT ![w] = [Idle EXCEPT !.op = "upload", !.at = "lock",
                                            !.p = p, !.key = uploads + 1]]
  /\ UNCHANGED <<rows, files, lock, unheard, stray, thinned>>

\* Mutant: the profile is read without FOR UPDATE.
ReadProfile(w) ==
  /\ At(w, "upload", "lock")
  /\ Goto(w, "count")
  /\ UNCHANGED <<rows, files, lock, history>>

LockProfile(w) ==
  /\ At(w, "upload", "lock")
  /\ Take(w, job[w].p)
  /\ Goto(w, "count")
  /\ UNCHANGED <<rows, files, history>>

\* Mutants: every image is put first; the count starts before the first.
CountItemsForLimit(w) ==
  LET n == Cardinality(items[job[w].p]) IN
  /\ At(w, "upload", "count")
  /\ \/ n >= Limit /\ Finish(w)
     \/ n < Limit /\ Goto(w, "write") /\ UNCHANGED lock
  /\ UNCHANGED <<rows, files, history>>

CountItems(w) ==
  LET n == Cardinality(items[job[w].p]) IN
  /\ At(w, "upload", "count")
  /\ \/ n >= Limit /\ Finish(w)
     \/ /\ n < Limit
        /\ job' = [job EXCEPT ![w].order = n, ![w].at = "write"]
        /\ UNCHANGED lock
  /\ UNCHANGED <<rows, files, history>>

\* An image whose length is not the announced one is removed again.
WriteFile(w) ==
  /\ At(w, "upload", "write")
  /\ \/ files' = files \cup {job[w].key} /\ Goto(w, "insert") /\ UNCHANGED lock
     \/ UNCHANGED files /\ Finish(w)
  /\ UNCHANGED <<rows, history>>

\* Mutant: an error of the database leaves the file.
GiveUpKeepingFile(w) ==
  /\ files' = files
  /\ stray' = stray
  /\ Finish(w)

\* os.Remove, whose own error is ignored, and the deferred rollback.
GiveUp(w) ==
  /\ \/ files' = files \ {job[w].key} /\ UNCHANGED stray
     \/ files' = files /\ stray' = stray \cup {job[w].key}
  /\ Finish(w)

\* The INSERT and the audit event.
InsertItem(w) ==
  /\ At(w, "upload", "insert")
  /\ \/ Goto(w, "commit") /\ UNCHANGED <<files, lock, stray>>
     \/ GiveUp(w)
  /\ UNCHANGED <<rows, uploads, unheard, thinned>>

\* COMMIT succeeds, or fails, or fails for all the worker knows.
CommitUpload(w) ==
  LET p    == job[w].p
      item == [key |-> job[w].key, order |-> job[w].order] IN
  /\ At(w, "upload", "commit")
  /\ \/ /\ items' = [items EXCEPT ![p] = @ \cup {item}]
        /\ Finish(w)
        /\ UNCHANGED <<files, unheard, stray>>
     \/ /\ GiveUp(w)
        /\ UNCHANGED <<items, unheard>>
     \/ /\ items' = [items EXCEPT ![p] = @ \cup {item}]
        /\ unheard' = unheard \cup {item.key}
        /\ GiveUp(w)
  /\ UNCHANGED <<form, located, periods, uploads, thinned>>

-----------------------------------------------------------------------------
(* DELETE /professional/portfolio/{itemID}                                 *)

\* The DELETE waits for another one of the same item, and finds it gone or,
\* after a rollback, still there.
DeleteItem(w, p, k) ==
  /\ job[w] = Idle
  /\ k \in KeysOf(p)
  /\ \A v \in Workers : ~(At(v, "delete", "commit") /\ job[v].key = k)
  /\ job' = [job EXCEPT ![w] = [Idle EXCEPT !.op = "delete", !.at = "commit",
                                            !.p = p, !.key = k]]
  /\ UNCHANGED <<rows, files, lock, history>>

\* Mutant: the file goes before the row.
UnlinkThenCommit(w) ==
  LET p == job[w].p
      k == job[w].key IN
  /\ At(w, "delete", "commit")
  /\ files' = files \ {k}
  /\ \/ /\ items' = [items EXCEPT ![p] = {i \in @ : i.key # k}]
        /\ thinned' = thinned \cup {p}
     \/ UNCHANGED <<items, thinned>>
  /\ Finish(w)
  /\ UNCHANGED <<form, located, periods, uploads, unheard, stray>>

\* After a COMMIT that fails, or seems to, the file is not unlinked.
CommitDelete(w) ==
  LET p == job[w].p
      k == job[w].key
      gone == /\ items' = [items EXCEPT ![p] = {i \in @ : i.key # k}]
              /\ thinned' = thinned \cup {p}
  IN
  /\ At(w, "delete", "commit")
  /\ \/ gone /\ Goto(w, "unlink") /\ UNCHANGED <<lock, stray>>
     \/ UNCHANGED <<items, thinned, stray>> /\ Finish(w)
     \/ gone /\ stray' = stray \cup {k} /\ Finish(w)
  /\ UNCHANGED <<form, located, periods, files, uploads, unheard>>

Unlink(w) ==
  /\ At(w, "delete", "unlink")
  /\ GiveUp(w)
  /\ UNCHANGED <<rows, uploads, unheard, thinned>>

-----------------------------------------------------------------------------
(* Failures.                                                               *)

\* A statement of an update fails, or one of an upload before its file is
\* there: the transaction is rolled back.
Fail(w) ==
  /\ \/ job[w].op = "update"
     \/ job[w].op = "upload" /\ job[w].at \in {"lock", "count", "write"}
  /\ Finish(w)
  /\ UNCHANGED <<rows, files, history>>

\* The server stops: the database rolls back, the file stays.
Crash(w) ==
  /\ Crashes
  /\ \/ job[w].op = "upload" /\ job[w].at \in {"insert", "commit"}
     \/ At(w, "delete", "unlink")
  /\ Finish(w)
  /\ stray' = stray \cup {job[w].key}
  /\ UNCHANGED <<rows, files, uploads, unheard, thinned>>

Start(w) ==
  \E p \in Owners :
    \/ \E f \in Forms : StartUpdate(w, p, f)
    \/ StartUpload(w, p)
    \/ \E k \in KeysOf(p) : DeleteItem(w, p, k)

Step(w) ==
  \/ LoadProfile(w) \/ SaveProfile(w) \/ ReplacePeriods(w) \/ CommitUpdate(w)
  \/ LockProfile(w) \/ CountItems(w) \/ WriteFile(w) \/ InsertItem(w)
  \/ CommitUpload(w) \/ CommitDelete(w) \/ Unlink(w)

Next == \E w \in Workers : Start(w) \/ Step(w) \/ Fail(w) \/ Crash(w)

Spec == Init /\ [][Next]_vars

-----------------------------------------------------------------------------
(* What the readers see.                                                   *)

\* Who a search of category c finds near enough, all or those available now.
\* The search also asks for an active account with a confirmed address, which
\* the owners of this module are taken to have: only the accounts can change it.
Found(p, c, onlyNow) ==
  /\ form[p] # None /\ form[p].category = c
  /\ c \in OpenCategories
  /\ located[p]
  /\ onlyNow => form[p].now

\* The image shown for a professional found: first by sort_order, created_at.
Before(i, j) == i.order < j.order \/ (i.order = j.order /\ i.key < j.key)
Covers(p) == {i \in items[p] : \A j \in items[p] \ {i} : Before(i, j)}

\* GET /uploads/{storageKey} answers from the directory alone.
Served(k) == k \in files

-----------------------------------------------------------------------------
(* Safety.                                                                 *)

\* The portfolio never grows past its limit, however many uploads run at
\* once and whatever their workers hear of the COMMIT.
WithinLimit == \A p \in Owners : Cardinality(items[p]) <= Limit

\* Every image of a portfolio can be served: its file is written before its
\* row and unlinked after it.  Only an upload whose COMMIT went through
\* unheard has its file removed under its row.
ImagesAreServed ==
  \A p \in Owners : \A k \in KeysOf(p) : Served(k) \/ k \in unheard

\* Every file belongs to an item or to a request under way, unless a stopped
\* worker or a failed removal left it behind.
NoFileForgotten ==
  \A k \in files :
    \/ \E p \in Owners : k \in KeysOf(p)
    \/ \E w \in Workers : job[w].key = k
    \/ k \in stray

\* Of forms sent at the same time one is saved whole: the availability is the
\* one of the form in the columns, and a search of its category finds its
\* professional.
FormsAreSavedWhole ==
  \A p \in Owners :
    \/ form[p] = None /\ periods[p] = {}
    \/ /\ form[p] # None
       /\ periods[p] = RowsOf(form[p].periods)
       /\ Found(p, form[p].category, form[p].now)

\* No hour is in two periods of a professional, though the check compares
\* neighbours in the order of their texts only.
PeriodsDisjoint ==
  \A p \in Owners : \A q, r \in periods[p] : q # r => ~Overlap(q, r)

\* A new image takes the cover from an old one only in a portfolio from which
\* something was deleted (sort_order is the count, and so comes again).
CoverStays ==
  [][\A p \in Owners : \A i \in Covers(p) :
       i \in items'[p] /\ p \notin thinned' => i \in Covers(p)']_items
=============================================================================
