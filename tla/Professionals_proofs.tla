------------------------- MODULE Professionals_proofs -------------------------
(***************************************************************************)
(* The properties of Professionals for any number of professionals,        *)
(* requests, forms, images and any limit.                                  *)
(***************************************************************************)
EXTENDS Professionals, FiniteSetTheorems, WellFoundedInduction, TLAPS

\* What the checks and the read of an update leave to be saved.
UpdateFits(w) ==
  LET f == job[w].form
      p == job[w].p IN
  /\ p \in Owners /\ f \in Forms /\ FormAccepted(f)
  /\ job[w].key = 0
  /\ job[w].at \in {"load", "save", "periods", "commit"}
  /\ job[w].at # "load" => (located[p] \/ f.placed) /\ f.category \in OpenCategories
  /\ job[w].at \in {"periods", "commit"} => lock[p] = w
  /\ job[w].at = "commit" => job[w].old = periods[p]

\* The image of an upload is its own, and the count stands while it is locked:
\* only deletions change the portfolio, and lower it.
UploadFits(w) ==
  LET p == job[w].p IN
  /\ p \in Owners /\ job[w].key \in 1..uploads
  /\ \A q \in Owners : job[w].key \notin KeysOf(q)
  /\ job[w].at \in {"lock", "count", "write", "insert", "commit"}
  /\ job[w].at \in {"insert", "commit"} <=> job[w].key \in files
  /\ job[w].at # "lock" => lock[p] = w
  /\ job[w].at \in {"write", "insert", "commit"} =>
       /\ job[w].order < Limit
       /\ Cardinality(items[p]) <= job[w].order
       /\ p \notin thinned => Cardinality(items[p]) = job[w].order

DeleteFits(w) ==
  LET p == job[w].p IN
  /\ p \in Owners /\ job[w].key \in 1..uploads
  /\ job[w].at \in {"commit", "unlink"}
  /\ job[w].at = "commit" => job[w].key \in KeysOf(p)
  /\ job[w].at = "unlink" => \A q \in Owners : job[w].key \notin KeysOf(q)

Fits(w) ==
  /\ job[w].op = "idle" => job[w].key = 0
  /\ job[w].op = "update" => UpdateFits(w)
  /\ job[w].op = "upload" => UploadFits(w)
  /\ job[w].op = "delete" => DeleteFits(w)

\* Images are of one request, one item and one professional.
KeysApart ==
  /\ \A v, w \in Workers : v # w /\ job[v].key # 0 => job[v].key # job[w].key
  /\ \A p, q \in Owners : \A i \in items[p], j \in items[q] : i.key = j.key => p = q /\ i = j
  /\ \A p \in Owners : KeysOf(p) \subseteq 1..uploads
  /\ files \subseteq 1..uploads

\* While nothing has been deleted the orders are those of the items.
ItemsFit ==
  \A p \in Owners :
    /\ IsFiniteSet(items[p]) /\ Cardinality(items[p]) <= Limit
    /\ p \notin thinned => \A i \in items[p] : i.order < Cardinality(items[p])

IInv ==
  /\ TypeOK /\ KeysApart /\ ItemsFit
  /\ \A w \in Workers : Fits(w)
  /\ ImagesAreServed /\ NoFileForgotten /\ FormsAreSavedWhole /\ PeriodsDisjoint

-----------------------------------------------------------------------------
(* Availability periods.                                                   *)

LEMMA HasLeast ==
  ASSUME NEW S \in SUBSET Nat, S # {}
  PROVE  \E n \in S : \A m \in S : n <= m
<1> DEFINE R == OpToRel(<, Nat)
<1>1. IsWellFoundedOn(R, Nat)
  BY NatLessThanWellFounded
<1>2. \A x, y \in Nat : y < x => <<y, x>> \in R
  BY DEF OpToRel
<1> HIDE DEF R
<1>3. PICK n \in S : \A m \in S : ~(<<m, n>> \in R)
  BY <1>1, WFMin
<1>4. \A m \in S : n <= m
  <2> SUFFICES ASSUME NEW m \in S PROVE ~(m < n)
    OBVIOUS
  <2>1. m \in Nat /\ n \in Nat
    OBVIOUS
  <2> QED BY <1>2, <1>3, <2>1
<1> QED BY <1>4

\* Not only neighbours: between two periods that are wrong lie others, and two
\* that are nearer to each other are wrong then, down to neighbours.
LEMMA SortedApart ==
  ASSUME NEW ps \in Seq(FormPeriods), PeriodsAccepted(ps),
         NEW i \in DOMAIN ps, NEW j \in DOMAIN ps, i # j, ps[i].day = ps[j].day,
         TextRank[ps[i].start] <= TextRank[ps[j].start]
  PROVE  MinuteOf[ps[i].end] <= MinuteOf[ps[j].start]
<1> DEFINE Left(h, k) == /\ h # k /\ ps[h].day = ps[k].day
                           /\ TextRank[ps[h].start] <= TextRank[ps[k].start]
           Apart(h, k) == MinuteOf[ps[h].end] <= MinuteOf[ps[k].start]
           Gap(h, k) == TextRank[ps[k].start] - TextRank[ps[h].start]
           Wrong == {n \in Nat : \E h, k \in DOMAIN ps :
                                   Left(h, k) /\ ~Apart(h, k) /\ Gap(h, k) = n}
<1>1. \A k \in DOMAIN ps : /\ TextRank[ps[k].start] \in Nat
                           /\ MinuteOf[ps[k].start] \in Nat /\ MinuteOf[ps[k].end] \in Nat
                           /\ MinuteOf[ps[k].start] < MinuteOf[ps[k].end]
  <2>1. \A k \in DOMAIN ps : ps[k] \in FormPeriods
    OBVIOUS
  <2>2. \A k \in DOMAIN ps : ps[k].start \in Clocks /\ ps[k].end \in Clocks
    BY <2>1 DEF FormPeriods
  <2> QED BY <2>2, ClockAssumption DEF PeriodsAccepted
<1>2. ASSUME NEW h \in DOMAIN ps, NEW k \in DOMAIN ps, Left(h, k), ~Apart(h, k)
      PROVE  \E m \in Wrong : m < Gap(h, k)
  <2>1. ~Neighbours(ps, h, k)
    BY <1>2 DEF PeriodsAccepted
  <2>2. PICK l \in DOMAIN ps : /\ ps[l].day = ps[h].day
                               /\ TextRank[ps[h].start] < TextRank[ps[l].start]
                               /\ TextRank[ps[l].start] < TextRank[ps[k].start]
    BY <1>2, <2>1 DEF Neighbours
  <2>3. Left(h, l) /\ Left(l, k)
    BY <1>1, <1>2, <2>2
  <2>4. Gap(h, l) \in Nat /\ Gap(l, k) \in Nat /\ Gap(h, l) < Gap(h, k) /\ Gap(l, k) < Gap(h, k)
    <3>1. /\ TextRank[ps[h].start] \in Nat /\ TextRank[ps[l].start] \in Nat
          /\ TextRank[ps[k].start] \in Nat
      BY <1>1
    <3>2. \A x, y, z \in Nat : x < y /\ y < z =>
            y - x \in Nat /\ z - y \in Nat /\ y - x < z - x /\ z - y < z - x
      OBVIOUS
    <3> QED BY <2>2, <3>1, <3>2
  <2>5. ~Apart(h, l) \/ ~Apart(l, k)
    BY <1>1, <1>2
  <2>6. (~Apart(h, l) => Gap(h, l) \in Wrong) /\ (~Apart(l, k) => Gap(l, k) \in Wrong)
    BY <2>3, <2>4
  <2> QED BY <2>4, <2>5, <2>6
<1>3. Wrong = {}
  <2> SUFFICES ASSUME Wrong # {} PROVE FALSE
    OBVIOUS
  <2>1. PICK n \in Wrong : \A m \in Wrong : n <= m
    <3> HIDE DEF Wrong
    <3>1. Wrong \in SUBSET Nat
      BY DEF Wrong
    <3> QED BY <3>1, HasLeast
  <2>2. PICK h \in DOMAIN ps, k \in DOMAIN ps : Left(h, k) /\ ~Apart(h, k) /\ Gap(h, k) = n
    OBVIOUS
  <2>3. PICK m \in Wrong : m < n
    BY <1>2, <2>2
  <2> QED BY <2>1, <2>3
<1>4. Gap(i, j) \in Nat
  BY <1>1
<1> QED BY <1>3, <1>4

LEMMA AcceptedDisjoint ==
  ASSUME NEW ps \in Seq(FormPeriods), PeriodsAccepted(ps)
  PROVE  \A q, r \in RowsOf(ps) : q # r => ~Overlap(q, r)
<1> SUFFICES ASSUME NEW i \in DOMAIN ps, NEW j \in DOMAIN ps, Row(ps[i]) # Row(ps[j]),
                    Overlap(Row(ps[i]), Row(ps[j]))
             PROVE  FALSE
  BY DEF RowsOf
<1>1. ps[i] \in FormPeriods /\ ps[j] \in FormPeriods /\ i # j
  OBVIOUS
<1>2. /\ ps[i].day = ps[j].day
      /\ MinuteOf[ps[i].start] < MinuteOf[ps[j].end]
      /\ MinuteOf[ps[j].start] < MinuteOf[ps[i].end]
  BY DEF Overlap, Row
<1>3. /\ TextRank[ps[i].start] \in Nat /\ TextRank[ps[j].start] \in Nat
      /\ MinuteOf[ps[i].start] \in Nat /\ MinuteOf[ps[j].start] \in Nat
      /\ MinuteOf[ps[i].end] \in Nat /\ MinuteOf[ps[j].end] \in Nat
  BY <1>1, ClockAssumption DEF FormPeriods
<1>4. CASE TextRank[ps[i].start] <= TextRank[ps[j].start]
  BY <1>1, <1>2, <1>3, <1>4, SortedApart
<1>5. CASE TextRank[ps[j].start] <= TextRank[ps[i].start]
  BY <1>1, <1>2, <1>3, <1>5, SortedApart
<1> QED BY <1>3, <1>4, <1>5

-----------------------------------------------------------------------------
(* Jobs.                                                                   *)

LEMMA JobFields ==
  ASSUME TypeOK, NEW w \in Workers
  PROVE  /\ Finish(w) =>
              /\ job' \in [Workers -> Jobs]
              /\ job'[w] = Idle
              /\ \A v \in Workers : v # w => job'[v] = job[v]
              /\ lock' \in [Owners -> Workers \cup {None}]
              /\ \A p \in Owners : lock[p] # w => lock'[p] = lock[p]
         /\ \A at \in {"save", "periods", "count", "insert", "commit", "write", "unlink"} :
              Goto(w, at) =>
                /\ job' \in [Workers -> Jobs]
                /\ job'[w] = [op |-> job[w].op, at |-> at, p |-> job[w].p, form |-> job[w].form,
                              key |-> job[w].key, order |-> job[w].order, old |-> job[w].old]
                /\ \A v \in Workers : v # w => job'[v] = job[v]
<1>1. job \in [Workers -> Jobs]
  BY DEF TypeOK
<1>2. Idle \in Jobs
  BY DEF Idle, Jobs
<1>3. ASSUME Finish(w)
      PROVE  /\ job' \in [Workers -> Jobs]
             /\ job'[w] = Idle
             /\ \A v \in Workers : v # w => job'[v] = job[v]
             /\ lock' \in [Owners -> Workers \cup {None}]
             /\ \A p \in Owners : lock[p] # w => lock'[p] = lock[p]
  BY <1>1, <1>2, <1>3 DEF Finish, TypeOK
<1>4. ASSUME NEW at \in {"save", "periods", "count", "insert", "commit", "write", "unlink"},
             Goto(w, at)
      PROVE  /\ job' \in [Workers -> Jobs]
             /\ job'[w] = [op |-> job[w].op, at |-> at, p |-> job[w].p, form |-> job[w].form,
                           key |-> job[w].key, order |-> job[w].order, old |-> job[w].old]
             /\ \A v \in Workers : v # w => job'[v] = job[v]
  <2>1. job' = [job EXCEPT ![w] = [job[w] EXCEPT !.at = at]]
    BY <1>4 DEF Goto
  <2>2. /\ [job[w] EXCEPT !.at = at] \in Jobs
        /\ [job[w] EXCEPT !.at = at]
             = [op |-> job[w].op, at |-> at, p |-> job[w].p, form |-> job[w].form,
                key |-> job[w].key, order |-> job[w].order, old |-> job[w].old]
    BY <1>1 DEF Jobs
  <2> QED BY <1>1, <2>1, <2>2
<1> QED BY <1>3, <1>4

\* Two steps of a job that keep what they read.
LEMMA Noting ==
  ASSUME TypeOK, NEW w \in Workers
  PROVE  /\ \A n \in Nat : job' = [job EXCEPT ![w].order = n, ![w].at = "write"] =>
              /\ job' \in [Workers -> Jobs]
              /\ job'[w] = [op |-> job[w].op, at |-> "write", p |-> job[w].p,
                            form |-> job[w].form, key |-> job[w].key, order |-> n,
                            old |-> job[w].old]
              /\ \A v \in Workers : v # w => job'[v] = job[v]
         /\ \A S \in SUBSET Rows : job' = [job EXCEPT ![w].old = S, ![w].at = "commit"] =>
              /\ job' \in [Workers -> Jobs]
              /\ job'[w] = [op |-> job[w].op, at |-> "commit", p |-> job[w].p,
                            form |-> job[w].form, key |-> job[w].key,
                            order |-> job[w].order, old |-> S]
              /\ \A v \in Workers : v # w => job'[v] = job[v]
<1>1. job \in [Workers -> Jobs] /\ job[w] \in Jobs
  BY DEF TypeOK
<1>2. ASSUME NEW n \in Nat, job' = [job EXCEPT ![w].order = n, ![w].at = "write"]
      PROVE  /\ job' \in [Workers -> Jobs]
             /\ job'[w] = [op |-> job[w].op, at |-> "write", p |-> job[w].p,
                           form |-> job[w].form, key |-> job[w].key, order |-> n,
                           old |-> job[w].old]
             /\ \A v \in Workers : v # w => job'[v] = job[v]
  <2>1. /\ [job[w] EXCEPT !.order = n] \in Jobs
        /\ [job[w] EXCEPT !.order = n]
             = [op |-> job[w].op, at |-> job[w].at, p |-> job[w].p, form |-> job[w].form,
                key |-> job[w].key, order |-> n, old |-> job[w].old]
    BY <1>1 DEF Jobs
  <2>4. \A j \in Jobs :
          [j EXCEPT !.at = "write"]
            = [op |-> j.op, at |-> "write", p |-> j.p, form |-> j.form, key |-> j.key,
               order |-> j.order, old |-> j.old]
    BY DEF Jobs
  <2>2. job' = [job EXCEPT ![w] = [[job[w] EXCEPT !.order = n] EXCEPT !.at = "write"]]
    BY <1>1, <1>2
  <2>3. [op |-> job[w].op, at |-> "write", p |-> job[w].p, form |-> job[w].form,
         key |-> job[w].key, order |-> n, old |-> job[w].old] \in Jobs
    BY <1>1 DEF Jobs
  <2> QED BY <1>1, <2>1, <2>2, <2>3, <2>4
<1>3. ASSUME NEW S \in SUBSET Rows, job' = [job EXCEPT ![w].old = S, ![w].at = "commit"]
      PROVE  /\ job' \in [Workers -> Jobs]
             /\ job'[w] = [op |-> job[w].op, at |-> "commit", p |-> job[w].p,
                           form |-> job[w].form, key |-> job[w].key,
                           order |-> job[w].order, old |-> S]
             /\ \A v \in Workers : v # w => job'[v] = job[v]
  <2>1. /\ [job[w] EXCEPT !.old = S] \in Jobs
        /\ [job[w] EXCEPT !.old = S]
             = [op |-> job[w].op, at |-> job[w].at, p |-> job[w].p, form |-> job[w].form,
                key |-> job[w].key, order |-> job[w].order, old |-> S]
    BY <1>1 DEF Jobs
  <2>4. \A j \in Jobs :
          [j EXCEPT !.at = "commit"]
            = [op |-> j.op, at |-> "commit", p |-> j.p, form |-> j.form, key |-> j.key,
               order |-> j.order, old |-> j.old]
    BY DEF Jobs
  <2>2. job' = [job EXCEPT ![w] = [[job[w] EXCEPT !.old = S] EXCEPT !.at = "commit"]]
    BY <1>1, <1>3
  <2>3. [op |-> job[w].op, at |-> "commit", p |-> job[w].p, form |-> job[w].form,
         key |-> job[w].key, order |-> job[w].order, old |-> S] \in Jobs
    BY <1>1 DEF Jobs
  <2> QED BY <1>1, <2>1, <2>2, <2>3, <2>4
<1> QED BY <1>2, <1>3
\* What a step of w may do to what the other jobs rely on.
Spares(w) ==
  /\ \A v \in Workers \ {w} : job'[v] = job[v]
  /\ \A p \in Owners : lock[p] \in Workers \ {w} =>
       /\ lock'[p] = lock[p]
       /\ periods'[p] = periods[p]
       /\ Cardinality(items'[p]) <= Cardinality(items[p])
       /\ p \notin thinned' => p \notin thinned /\ Cardinality(items'[p]) = Cardinality(items[p])
  /\ \A p \in Owners : located[p] => located'[p]
  /\ uploads' \in Nat /\ uploads <= uploads'
  /\ \A k \in 1..uploads : k # job[w].key =>
       /\ k \in files' <=> k \in files
       /\ \A p \in Owners : k \in KeysOf(p)' <=> k \in KeysOf(p)

LEMMA OthersFit ==
  ASSUME TypeOK, KeysApart, ItemsFit, ItemsFit', NEW w \in Workers, Spares(w),
         NEW v \in Workers, v # w, Fits(v)
  PROVE  Fits(v)'
<1>1. job'[v] = job[v] /\ job[v] \in Jobs /\ v # None /\ uploads \in Nat
  BY ProfessionalsAssumption DEF Spares, TypeOK
<1>2. job[v].key # 0 => job[v].key # job[w].key
  BY DEF KeysApart
<1>3. CASE job[v].op = "idle"
  BY <1>1, <1>3 DEF Fits
<1>4. CASE job[v].op = "update"
  <2>1. UpdateFits(v)
    BY <1>4 DEF Fits
  <2>2. UpdateFits(v)'
    BY <1>1, <2>1 DEF UpdateFits, Spares
  <2> QED BY <1>1, <1>4, <2>2 DEF Fits
<1>5. CASE job[v].op = "upload"
  <2>1. UploadFits(v)
    BY <1>5 DEF Fits
  <2>2. /\ job[v].p \in Owners /\ job[v].key \in 1..uploads /\ job[v].key \in 1..uploads'
        /\ job[v].key # job[w].key
    BY <1>1, <1>2, <2>1 DEF UploadFits, Spares
  <2>3. /\ \A q \in Owners : job[v].key \notin KeysOf(q)'
        /\ job[v].key \in files' <=> job[v].key \in files
    BY <2>1, <2>2 DEF UploadFits, Spares
  <2>4. job[v].at # "lock" => lock'[job[v].p] = v
    BY <1>1, <2>1, <2>2 DEF UploadFits, Spares
  <2>5. job[v].at \in {"write", "insert", "commit"} =>
          /\ job[v].order < Limit
          /\ Cardinality(items'[job[v].p]) <= job[v].order
          /\ job[v].p \notin thinned' => Cardinality(items'[job[v].p]) = job[v].order
    <3> SUFFICES ASSUME job[v].at \in {"write", "insert", "commit"}
                 PROVE  /\ job[v].order < Limit
                        /\ Cardinality(items'[job[v].p]) <= job[v].order
                        /\ job[v].p \notin thinned' =>
                             Cardinality(items'[job[v].p]) = job[v].order
      OBVIOUS
    <3>1. lock[job[v].p] \in Workers \ {w}
      BY <2>1 DEF UploadFits
    <3>2. /\ job[v].order < Limit
          /\ Cardinality(items[job[v].p]) <= job[v].order
          /\ job[v].p \notin thinned => Cardinality(items[job[v].p]) = job[v].order
      BY <2>1 DEF UploadFits
    <3>3. /\ Cardinality(items'[job[v].p]) <= Cardinality(items[job[v].p])
          /\ job[v].p \notin thinned' =>
               /\ job[v].p \notin thinned
               /\ Cardinality(items'[job[v].p]) = Cardinality(items[job[v].p])
      BY <2>2, <3>1 DEF Spares
    <3>4. /\ Cardinality(items'[job[v].p]) \in Nat /\ Cardinality(items[job[v].p]) \in Nat
          /\ job[v].order \in Nat
      BY <1>1, <2>2, FS_CardinalityType DEF ItemsFit, Jobs
    <3> QED BY <3>2, <3>3, <3>4
  <2>6. UploadFits(v)'
    BY <1>1, <2>1, <2>2, <2>3, <2>4, <2>5 DEF UploadFits
  <2> QED BY <1>1, <1>5, <2>6 DEF Fits
<1>6. CASE job[v].op = "delete"
  <2>1. DeleteFits(v)
    BY <1>6 DEF Fits
  <2>2. /\ job[v].p \in Owners /\ job[v].key \in 1..uploads /\ job[v].key \in 1..uploads'
        /\ job[v].key # job[w].key
    BY <1>1, <1>2, <2>1 DEF DeleteFits, Spares
  <2>3. \A q \in Owners : job[v].key \in KeysOf(q)' <=> job[v].key \in KeysOf(q)
    BY <2>2 DEF Spares
  <2>4. DeleteFits(v)'
    BY <1>1, <2>1, <2>2, <2>3 DEF DeleteFits
  <2> QED BY <1>1, <1>6, <2>4 DEF Fits
<1> QED BY <1>1, <1>3, <1>4, <1>5, <1>6 DEF Jobs

\* A step that writes nothing that others see.
LEMMA QuietStep ==
  ASSUME IInv, NEW w \in Workers, UNCHANGED <<rows, files, history>>,
         job' \in [Workers -> Jobs], lock' \in [Owners -> Workers \cup {None}],
         \A v \in Workers : v # w => job'[v] = job[v],
         \A p \in Owners : lock[p] \in Workers \ {w} => lock'[p] = lock[p],
         job'[w].key # 0 => \A v \in Workers \ {w} : job[v].key # job'[w].key,
         \/ job'[w].key = job[w].key
         \/ job[w].key \notin files
         \/ \E p \in Owners : job[w].key \in KeysOf(p),
         Fits(w)'
  PROVE  IInv'
<1>1. /\ form' = form /\ located' = located /\ periods' = periods /\ items' = items
      /\ files' = files /\ uploads' = uploads /\ unheard' = unheard /\ stray' = stray
      /\ thinned' = thinned
  BY DEF rows, history
<1>2. \A p \in Owners : KeysOf(p)' = KeysOf(p)
  BY <1>1 DEF KeysOf
<1>3. TypeOK'
  BY <1>1 DEF IInv, TypeOK
<1>4. ItemsFit'
  BY <1>1 DEF IInv, ItemsFit
<1>5. KeysApart'
  <2>1. ASSUME NEW u \in Workers, NEW v \in Workers, u # v, job'[u].key # 0
        PROVE  job'[u].key # job'[v].key
    <3>1. CASE u = w
      BY <2>1, <3>1
    <3>2. CASE v = w
      BY <2>1, <3>2
    <3>3. CASE u # w /\ v # w
      BY <2>1, <3>3 DEF IInv, KeysApart
    <3> QED BY <3>1, <3>2, <3>3
  <2> QED BY <1>1, <1>2, <2>1 DEF IInv, KeysApart
<1>6. Spares(w)
  <2>1. \A p \in Owners : Cardinality(items[p]) \in Nat
    BY FS_CardinalityType DEF IInv, ItemsFit
  <2> QED BY <1>1, <1>2, <2>1 DEF Spares, IInv, TypeOK
<1>7. \A v \in Workers : Fits(v)'
  BY <1>4, <1>6, OthersFit DEF IInv
<1>8. NoFileForgotten'
  BY <1>1, <1>2 DEF IInv, NoFileForgotten
<1>9. ImagesAreServed' /\ FormsAreSavedWhole' /\ PeriodsDisjoint'
  BY <1>1, <1>2 DEF IInv, ImagesAreServed, Served, FormsAreSavedWhole, Found, PeriodsDisjoint
<1> QED BY <1>3, <1>4, <1>5, <1>7, <1>8, <1>9 DEF IInv
-----------------------------------------------------------------------------
(* Steps that write nothing that others see.                               *)

LEMMA LeftOut ==
  ASSUME IInv, NEW w \in Workers
  PROVE  /\ job[w] = Idle => job[w].key \notin files
         /\ job[w].op = "update" => job[w].key \notin files
         /\ job[w].op = "upload" /\ job[w].at \in {"lock", "count", "write"} => job[w].key \notin files
         /\ job[w].op = "delete" /\ job[w].at = "commit" =>
              \E p \in Owners : job[w].key \in KeysOf(p)
<1>1. 0 \notin files /\ Fits(w)
  BY DEF IInv, TypeOK, Uploads
<1>2. job[w] = Idle => job[w].key = 0
  BY DEF Idle
<1>3. job[w].op = "update" => job[w].key \notin files
  BY <1>1 DEF Fits, UpdateFits
<1>4. job[w].op = "upload" /\ job[w].at \in {"lock", "count", "write"} => job[w].key \notin files
  BY <1>1 DEF Fits, UploadFits
<1>5. job[w].op = "delete" /\ job[w].at = "commit" => \E p \in Owners : job[w].key \in KeysOf(p)
  BY <1>1 DEF Fits, DeleteFits
<1> QED BY <1>1, <1>2, <1>3, <1>4, <1>5

LEMMA FinishQuietly ==
  ASSUME IInv, NEW w \in Workers, UNCHANGED <<rows, files, history>>, Finish(w),
         \/ job[w].key \notin files
         \/ \E p \in Owners : job[w].key \in KeysOf(p)
  PROVE  IInv'
<1>1. /\ job' \in [Workers -> Jobs] /\ job'[w] = Idle
      /\ \A v \in Workers : v # w => job'[v] = job[v]
      /\ lock' \in [Owners -> Workers \cup {None}]
      /\ \A p \in Owners : lock[p] # w => lock'[p] = lock[p]
  BY JobFields DEF IInv
<1>2. job'[w].key = 0 /\ job'[w].op = "idle"
  BY <1>1 DEF Idle
<1>3. Fits(w)'
  BY <1>2 DEF Fits
<1> QED BY <1>1, <1>2, <1>3, QuietStep

LEMMA QuietActions ==
  ASSUME IInv, NEW w \in Workers
  PROVE  /\ \A p \in Owners : \A f \in Forms : StartUpdate(w, p, f) => IInv'
         /\ \A p \in Owners : \A k \in KeysOf(p) : DeleteItem(w, p, k) => IInv'
         /\ LoadProfile(w) \/ SaveProfile(w) \/ ReplacePeriods(w) \/ LockProfile(w) => IInv'
         /\ CountItems(w) \/ Fail(w) => IInv'
<1> USE DEF At
<1>0. TypeOK /\ Fits(w) /\ job[w] \in Jobs /\ w # None
  BY ProfessionalsAssumption DEF IInv, TypeOK
<1>1. ASSUME NEW p \in Owners, NEW f \in Forms, StartUpdate(w, p, f) PROVE IInv'
  <2> DEFINE j == [Idle EXCEPT !.op = "update", !.at = "load", !.p = p, !.form = f]
  <2>1. j \in Jobs /\ j.op = "update" /\ j.at = "load" /\ j.p = p /\ j.form = f /\ j.key = 0
    BY DEF Idle, Jobs
  <2>2. job' = [job EXCEPT ![w] = j] /\ job[w] = Idle /\ lock' = lock
        /\ UNCHANGED <<rows, files, history>> /\ FormAccepted(f)
    BY <1>1 DEF StartUpdate
  <2> HIDE DEF j
  <2>3. /\ job' \in [Workers -> Jobs] /\ job'[w] = j
        /\ \A v \in Workers : v # w => job'[v] = job[v]
    BY <2>1, <2>2 DEF IInv, TypeOK
  <2>4. Fits(w)'
    BY <2>1, <2>2, <2>3 DEF Fits, UpdateFits
  <2>5. job[w].key \notin files
    BY <2>2, LeftOut
  <2>6. lock' \in [Owners -> Workers \cup {None}]
    BY <1>0, <2>2 DEF TypeOK
  <2> QED BY <2>1, <2>2, <2>3, <2>4, <2>5, <2>6, QuietStep
<1>2. ASSUME NEW p \in Owners, NEW k \in KeysOf(p), DeleteItem(w, p, k) PROVE IInv'
  <2> DEFINE j == [Idle EXCEPT !.op = "delete", !.at = "commit", !.p = p, !.key = k]
  <2>0. k \in Uploads /\ k \in 1..uploads
    <3>1. k \in 1..uploads /\ uploads \in 0..MaxUploads /\ MaxUploads \in Nat
      BY ProfessionalsAssumption DEF IInv, KeysApart, TypeOK
    <3> QED BY <3>1 DEF Uploads
  <2>1. j \in Jobs /\ j.op = "delete" /\ j.at = "commit" /\ j.p = p /\ j.key = k
    BY <2>0 DEF Idle, Jobs
  <2>2. /\ job' = [job EXCEPT ![w] = j] /\ job[w] = Idle /\ lock' = lock
        /\ UNCHANGED <<rows, files, history>>
        /\ \A v \in Workers : ~(job[v].op = "delete" /\ job[v].at = "commit" /\ job[v].key = k)
    BY <1>2 DEF DeleteItem
  <2> HIDE DEF j
  <2>3. /\ job' \in [Workers -> Jobs] /\ job'[w] = j
        /\ \A v \in Workers : v # w => job'[v] = job[v]
    BY <2>1, <2>2 DEF IInv, TypeOK
  <2>4. KeysOf(p)' = KeysOf(p) /\ uploads' = uploads
    BY <2>2 DEF KeysOf, rows, history
  <2>5. Fits(w)'
    BY <2>0, <2>1, <2>3, <2>4 DEF Fits, DeleteFits
  <2>6. job[w].key \notin files
    BY <2>2, LeftOut
  <2>7. \A v \in Workers \ {w} : job[v].key # k
    <3> SUFFICES ASSUME NEW v \in Workers, job[v].key = k PROVE FALSE
      OBVIOUS
    <3>1. Fits(v) /\ job[v] \in Jobs /\ k # 0
      BY <2>0 DEF IInv, TypeOK, Uploads
    <3> QED BY <2>2, <3>1 DEF Fits, UpdateFits, UploadFits, DeleteFits, Jobs
  <2>8. lock' \in [Owners -> Workers \cup {None}]
    BY <1>0, <2>2 DEF TypeOK
  <2> QED BY <2>1, <2>2, <2>3, <2>5, <2>6, <2>7, <2>8, QuietStep
<1>3. ASSUME LoadProfile(w) PROVE IInv'
  <2>1. UNCHANGED <<rows, files, history>> /\ job[w].op = "update" /\ job[w].at = "load"
    BY <1>3 DEF LoadProfile
  <2>2. CASE Finish(w)
    BY <2>1, <2>2, LeftOut, FinishQuietly
  <2>3. CASE /\ Goto(w, "save") /\ lock' = lock
             /\ located[job[w].p] \/ job[w].form.placed
             /\ job[w].form.category \in OpenCategories
    <3>1. /\ job' \in [Workers -> Jobs]
          /\ job'[w] = [op |-> job[w].op, at |-> "save", p |-> job[w].p, form |-> job[w].form,
                        key |-> job[w].key, order |-> job[w].order, old |-> job[w].old]
          /\ \A v \in Workers : v # w => job'[v] = job[v]
      BY <1>0, <2>3, JobFields
    <3>2. UpdateFits(w)
      BY <1>0, <2>1 DEF Fits
    <3>3. Fits(w)'
      BY <2>1, <2>3, <3>1, <3>2 DEF Fits, UpdateFits, rows
    <3>4. job'[w].key = 0 /\ job[w].key = 0
      BY <3>1, <3>2 DEF UpdateFits
    <3>5. lock' \in [Owners -> Workers \cup {None}]
      BY <1>0, <2>3 DEF TypeOK
    <3> QED BY <2>1, <2>3, <3>1, <3>3, <3>4, <3>5, QuietStep
  <2> QED BY <1>3, <2>2, <2>3 DEF LoadProfile
<1>4. ASSUME SaveProfile(w) PROVE IInv'
  <2>1. /\ UNCHANGED <<rows, files, history>> /\ job[w].op = "update" /\ job[w].at = "save"
        /\ Goto(w, "periods") /\ lock[job[w].p] = None
        /\ lock' = [lock EXCEPT ![job[w].p] = w]
    BY <1>4 DEF SaveProfile, Take
  <2>2. /\ job' \in [Workers -> Jobs]
        /\ job'[w] = [op |-> job[w].op, at |-> "periods", p |-> job[w].p, form |-> job[w].form,
                      key |-> job[w].key, order |-> job[w].order, old |-> job[w].old]
        /\ \A v \in Workers : v # w => job'[v] = job[v]
    BY <1>0, <2>1, JobFields
  <2>3. UpdateFits(w)
    BY <1>0, <2>1 DEF Fits
  <2>4. /\ lock' \in [Owners -> Workers \cup {None}] /\ lock'[job[w].p] = w
        /\ \A p \in Owners : lock[p] \in Workers \ {w} => lock'[p] = lock[p]
    BY <1>0, <2>1, <2>3, ProfessionalsAssumption DEF TypeOK, UpdateFits
  <2>5. Fits(w)'
    BY <2>1, <2>2, <2>3, <2>4 DEF Fits, UpdateFits, rows
  <2>6. job'[w].key = 0 /\ job[w].key = 0
    BY <2>2, <2>3 DEF UpdateFits
  <2> QED BY <2>1, <2>2, <2>4, <2>5, <2>6, QuietStep
<1>5. ASSUME ReplacePeriods(w) PROVE IInv'
  <2>1. /\ UNCHANGED <<rows, files, history>> /\ job[w].op = "update" /\ job[w].at = "periods"
        /\ job' = [job EXCEPT ![w].old = periods[job[w].p], ![w].at = "commit"] /\ lock' = lock
    BY <1>5 DEF ReplacePeriods
  <2>2. UpdateFits(w)
    BY <1>0, <2>1 DEF Fits
  <2>3. periods[job[w].p] \in SUBSET Rows
    BY <1>0, <2>2 DEF UpdateFits, TypeOK
  <2>4. /\ job' \in [Workers -> Jobs]
        /\ job'[w] = [op |-> job[w].op, at |-> "commit", p |-> job[w].p, form |-> job[w].form,
                      key |-> job[w].key, order |-> job[w].order, old |-> periods[job[w].p]]
        /\ \A v \in Workers : v # w => job'[v] = job[v]
    BY <1>0, <2>1, <2>3, Noting
  <2>5. Fits(w)'
    BY <2>1, <2>2, <2>4 DEF Fits, UpdateFits, rows
  <2>6. job'[w].key = 0 /\ job[w].key = 0
    BY <2>2, <2>4 DEF UpdateFits
  <2>7. lock' \in [Owners -> Workers \cup {None}]
    BY <1>0, <2>1 DEF TypeOK
  <2> QED BY <2>1, <2>4, <2>5, <2>6, <2>7, QuietStep
<1>6. ASSUME LockProfile(w) PROVE IInv'
  <2>1. /\ UNCHANGED <<rows, files, history>> /\ job[w].op = "upload" /\ job[w].at = "lock"
        /\ Goto(w, "count") /\ lock[job[w].p] = None
        /\ lock' = [lock EXCEPT ![job[w].p] = w]
    BY <1>6 DEF LockProfile, Take
  <2>2. /\ job' \in [Workers -> Jobs]
        /\ job'[w] = [op |-> job[w].op, at |-> "count", p |-> job[w].p, form |-> job[w].form,
                      key |-> job[w].key, order |-> job[w].order, old |-> job[w].old]
        /\ \A v \in Workers : v # w => job'[v] = job[v]
    BY <1>0, <2>1, JobFields
  <2>3. UploadFits(w)
    BY <1>0, <2>1 DEF Fits
  <2>4. /\ lock' \in [Owners -> Workers \cup {None}] /\ lock'[job[w].p] = w
        /\ \A p \in Owners : lock[p] \in Workers \ {w} => lock'[p] = lock[p]
    BY <1>0, <2>1, <2>3, ProfessionalsAssumption DEF TypeOK, UploadFits
  <2>5. \A p \in Owners : KeysOf(p)' = KeysOf(p)
    BY <2>1 DEF KeysOf, rows
  <2>6. Fits(w)'
    BY <2>1, <2>2, <2>3, <2>4, <2>5 DEF Fits, UploadFits, history
  <2>7. job'[w].key = job[w].key /\ job[w].key # 0
    BY <2>2, <2>3 DEF UploadFits
  <2>8. \A v \in Workers \ {w} : job[v].key # job'[w].key
    BY <2>7 DEF IInv, KeysApart
  <2> QED BY <2>1, <2>2, <2>4, <2>6, <2>7, <2>8, QuietStep
<1>7. ASSUME CountItems(w) PROVE IInv'
  <2> DEFINE n == Cardinality(items[job[w].p])
  <2>1. UNCHANGED <<rows, files, history>> /\ job[w].op = "upload" /\ job[w].at = "count"
    BY <1>7 DEF CountItems
  <2>2. UploadFits(w)
    BY <1>0, <2>1 DEF Fits
  <2>3. CASE Finish(w)
    BY <2>1, <2>3, LeftOut, FinishQuietly
  <2>4. CASE n < Limit /\ job' = [job EXCEPT ![w].order = n, ![w].at = "write"] /\ lock' = lock
    <3>1. n \in Nat
      BY <2>2, FS_CardinalityType DEF UploadFits, IInv, ItemsFit
    <3> HIDE DEF n
    <3>2. /\ job' \in [Workers -> Jobs]
          /\ job'[w] = [op |-> job[w].op, at |-> "write", p |-> job[w].p, form |-> job[w].form,
                        key |-> job[w].key, order |-> n, old |-> job[w].old]
          /\ \A v \in Workers : v # w => job'[v] = job[v]
      BY <1>0, <2>4, <3>1, Noting
    <3>3. \A p \in Owners : KeysOf(p)' = KeysOf(p)
      BY <2>1 DEF KeysOf, rows
    <3>4. UploadFits(w)'
      <4>1. Cardinality(items'[job'[w].p]) = n
        BY <2>1, <3>2 DEF n, rows
      <4> QED BY <2>1, <2>2, <2>4, <3>1, <3>2, <3>3, <4>1 DEF UploadFits, history
    <3>5. Fits(w)'
      BY <2>1, <3>2, <3>4 DEF Fits
    <3>6. job'[w].key = job[w].key /\ job[w].key # 0
      BY <2>2, <3>2 DEF UploadFits
    <3>7. \A v \in Workers \ {w} : job[v].key # job'[w].key
      BY <3>6 DEF IInv, KeysApart
    <3>8. lock' \in [Owners -> Workers \cup {None}]
      BY <1>0, <2>4 DEF TypeOK
    <3> QED BY <2>1, <2>4, <3>2, <3>5, <3>6, <3>7, <3>8, QuietStep
  <2> QED BY <1>7, <2>3, <2>4 DEF CountItems
<1>8. ASSUME Fail(w) PROVE IInv'
  BY <1>8, LeftOut, FinishQuietly DEF Fail
<1> QED BY <1>1, <1>2, <1>3, <1>4, <1>5, <1>6, <1>7, <1>8
-----------------------------------------------------------------------------
(* Steps that write.                                                       *)

LEMMA Conclude ==
  ASSUME IInv, NEW w \in Workers, Spares(w), Fits(w)', TypeOK', ItemsFit', KeysApart',
         ImagesAreServed', NoFileForgotten', FormsAreSavedWhole', PeriodsDisjoint'
  PROVE  IInv'
<1>1. \A v \in Workers : Fits(v)'
  BY OthersFit DEF IInv
<1> QED BY <1>1 DEF IInv

\* The profile and its periods stay.
LEMMA SameForms ==
  ASSUME IInv, form' = form, located' = located, periods' = periods
  PROVE  FormsAreSavedWhole' /\ PeriodsDisjoint'
BY DEF IInv, FormsAreSavedWhole, Found, PeriodsDisjoint

LEMMA SameKeys ==
  ASSUME KeysApart, NEW w \in Workers, \A v \in Workers : v # w => job'[v] = job[v],
         job'[w].key \in {0, job[w].key}
  PROVE  \A u, v \in Workers : u # v /\ job'[u].key # 0 => job'[u].key # job'[v].key
<1> SUFFICES ASSUME NEW u \in Workers, NEW v \in Workers, u # v, job'[u].key # 0,
                    job'[u].key = job'[v].key
             PROVE  FALSE
  OBVIOUS
<1>1. CASE u = w
  BY <1>1 DEF KeysApart
<1>2. CASE v = w
  BY <1>2 DEF KeysApart
<1>3. CASE u # w /\ v # w
  BY <1>3 DEF KeysApart
<1> QED BY <1>1, <1>2, <1>3

LEMMA UploadStarts ==
  ASSUME IInv, NEW w \in Workers, NEW p \in Owners, StartUpload(w, p)
  PROVE  IInv'
<1> DEFINE j == [Idle EXCEPT !.op = "upload", !.at = "lock", !.p = p, !.key = uploads + 1]
<1>1. /\ job[w] = Idle /\ uploads' = uploads + 1 /\ job' = [job EXCEPT ![w] = j]
      /\ form' = form /\ located' = located /\ periods' = periods /\ items' = items
      /\ files' = files /\ lock' = lock /\ unheard' = unheard /\ stray' = stray
      /\ thinned' = thinned /\ uploads < MaxUploads
  BY DEF StartUpload, rows
<1>2. uploads \in Nat /\ uploads + 1 \in Uploads /\ uploads + 1 \in 0..MaxUploads
  BY <1>1, ProfessionalsAssumption DEF IInv, TypeOK, Uploads
<1>3. j \in Jobs /\ j.op = "upload" /\ j.at = "lock" /\ j.p = p /\ j.key = uploads + 1
  BY <1>2 DEF Idle, Jobs
<1> HIDE DEF j
<1>4. /\ job' \in [Workers -> Jobs] /\ job'[w] = j
      /\ \A v \in Workers : v # w => job'[v] = job[v]
  BY <1>1, <1>3 DEF IInv, TypeOK
<1>5. \A q \in Owners : KeysOf(q)' = KeysOf(q) /\ uploads + 1 \notin KeysOf(q)
  BY <1>1, <1>2 DEF KeysOf, IInv, KeysApart
<1>6. uploads + 1 \notin files /\ \A v \in Workers : job[v].key # uploads + 1
  <2>1. uploads + 1 \notin files
    BY <1>2 DEF IInv, KeysApart
  <2>2. ASSUME NEW v \in Workers PROVE job[v].key # uploads + 1
    <3>1. job[v].key \in 0..uploads
      BY <1>2 DEF IInv, TypeOK, Jobs, Fits, UpdateFits, UploadFits, DeleteFits
    <3> QED BY <1>2, <3>1
  <2> QED BY <2>1, <2>2
<1>7. TypeOK'
  BY <1>1, <1>2, <1>4 DEF IInv, TypeOK
<1>8. ItemsFit'
  BY <1>1 DEF IInv, ItemsFit
<1>9. Fits(w)'
  BY <1>1, <1>2, <1>3, <1>4, <1>5, <1>6 DEF Fits, UploadFits
<1>10. Spares(w)
  <2>1. \A q \in Owners : Cardinality(items[q]) \in Nat
    BY FS_CardinalityType DEF IInv, ItemsFit
  <2> QED BY <1>1, <1>2, <1>4, <1>5, <2>1 DEF Spares
<1>11. KeysApart'
  <2>1. \A u, v \in Workers : u # v /\ job'[u].key # 0 => job'[u].key # job'[v].key
    <3> SUFFICES ASSUME NEW u \in Workers, NEW v \in Workers, u # v, job'[u].key # 0,
                        job'[u].key = job'[v].key
                 PROVE  FALSE
      OBVIOUS
    <3>1. CASE u # w /\ v # w
      BY <1>4, <3>1 DEF IInv, KeysApart
    <3> QED BY <1>3, <1>4, <1>6, <3>1
  <2>2. 1..uploads \subseteq 1..uploads'
    BY <1>1, <1>2
  <2>3. /\ \A q \in Owners : KeysOf(q)' \subseteq 1..uploads'
        /\ files' \subseteq 1..uploads'
    BY <1>1, <1>5, <2>2 DEF IInv, KeysApart
  <2>4. \A q, r \in Owners : \A i \in items'[q], k \in items'[r] :
          i.key = k.key => q = r /\ i = k
    BY <1>1 DEF IInv, KeysApart
  <2> QED BY <2>1, <2>3, <2>4 DEF KeysApart
<1>12. ImagesAreServed'
  BY <1>1, <1>5 DEF IInv, ImagesAreServed, Served
<1>13. NoFileForgotten'
  <2>1. job[w].key = 0 /\ 0 \notin files
    BY <1>1 DEF Idle, IInv, TypeOK, Uploads
  <2> QED BY <1>1, <1>4, <1>5, <2>1 DEF IInv, NoFileForgotten
<1> QED BY <1>1, <1>7, <1>8, <1>9, <1>10, <1>11, <1>12, <1>13, SameForms, Conclude

\* The file of an image that is in no portfolio is removed, or left behind.
LEMMA GivesUp ==
  ASSUME IInv, NEW w \in Workers, GiveUp(w), UNCHANGED <<rows, uploads, unheard, thinned>>,
         job[w].key \in Uploads, \A p \in Owners : job[w].key \notin KeysOf(p)
  PROVE  IInv'
<1>1. /\ form' = form /\ located' = located /\ periods' = periods /\ items' = items
      /\ uploads' = uploads /\ unheard' = unheard /\ thinned' = thinned
      /\ \/ files' = files \ {job[w].key} /\ stray' = stray
         \/ files' = files /\ stray' = stray \cup {job[w].key}
      /\ Finish(w)
  BY DEF GiveUp, rows
<1>2. /\ job' \in [Workers -> Jobs] /\ job'[w] = Idle
      /\ \A v \in Workers : v # w => job'[v] = job[v]
      /\ lock' \in [Owners -> Workers \cup {None}]
      /\ \A p \in Owners : lock[p] # w => lock'[p] = lock[p]
  BY <1>1, JobFields DEF IInv
<1>3. \A q \in Owners : KeysOf(q)' = KeysOf(q)
  BY <1>1 DEF KeysOf
<1>4. job'[w].key = 0 /\ job'[w].op = "idle"
  BY <1>2 DEF Idle
<1>5. TypeOK'
  BY <1>1, <1>2 DEF IInv, TypeOK
<1>6. ItemsFit'
  BY <1>1 DEF IInv, ItemsFit
<1>7. Fits(w)'
  BY <1>4 DEF Fits
<1>8. Spares(w)
  <2>1. \A q \in Owners : Cardinality(items[q]) \in Nat
    BY FS_CardinalityType DEF IInv, ItemsFit
  <2> QED BY <1>1, <1>2, <1>3, <2>1 DEF Spares, IInv, TypeOK
<1>9. KeysApart'
  <2>1. \A u, v \in Workers : u # v /\ job'[u].key # 0 => job'[u].key # job'[v].key
    BY <1>2, <1>4, SameKeys DEF IInv
  <2>2. /\ \A q \in Owners : KeysOf(q)' \subseteq 1..uploads'
        /\ files' \subseteq 1..uploads'
    BY <1>1, <1>3 DEF IInv, KeysApart
  <2>3. \A q, r \in Owners : \A i \in items'[q], k \in items'[r] :
          i.key = k.key => q = r /\ i = k
    BY <1>1 DEF IInv, KeysApart
  <2> QED BY <2>1, <2>2, <2>3 DEF KeysApart
<1>10. ImagesAreServed'
  BY <1>1, <1>3 DEF IInv, ImagesAreServed, Served
<1>11. NoFileForgotten'
  BY <1>1, <1>2, <1>3 DEF IInv, NoFileForgotten
<1> QED BY <1>1, <1>5, <1>6, <1>7, <1>8, <1>9, <1>10, <1>11, SameForms, Conclude

\* The server stops over a file.
LEMMA LeavesFile ==
  ASSUME IInv, NEW w \in Workers, Finish(w), UNCHANGED <<rows, files, uploads, unheard, thinned>>,
         job[w].key \in Uploads, stray' = stray \cup {job[w].key}
  PROVE  IInv'
<1>1. /\ form' = form /\ located' = located /\ periods' = periods /\ items' = items
      /\ uploads' = uploads /\ unheard' = unheard /\ thinned' = thinned /\ files' = files
  BY DEF rows
<1>2. /\ job' \in [Workers -> Jobs] /\ job'[w] = Idle
      /\ \A v \in Workers : v # w => job'[v] = job[v]
      /\ lock' \in [Owners -> Workers \cup {None}]
      /\ \A p \in Owners : lock[p] # w => lock'[p] = lock[p]
  BY JobFields DEF IInv
<1>3. \A q \in Owners : KeysOf(q)' = KeysOf(q)
  BY <1>1 DEF KeysOf
<1>4. job'[w].key = 0 /\ job'[w].op = "idle"
  BY <1>2 DEF Idle
<1>5. TypeOK'
  BY <1>1, <1>2 DEF IInv, TypeOK
<1>6. ItemsFit'
  BY <1>1 DEF IInv, ItemsFit
<1>7. Fits(w)'
  BY <1>4 DEF Fits
<1>8. Spares(w)
  <2>1. \A q \in Owners : Cardinality(items[q]) \in Nat
    BY FS_CardinalityType DEF IInv, ItemsFit
  <2> QED BY <1>1, <1>2, <1>3, <2>1 DEF Spares, IInv, TypeOK
<1>9. KeysApart'
  <2>1. \A u, v \in Workers : u # v /\ job'[u].key # 0 => job'[u].key # job'[v].key
    BY <1>2, <1>4, SameKeys DEF IInv
  <2>2. /\ \A q \in Owners : KeysOf(q)' \subseteq 1..uploads'
        /\ files' \subseteq 1..uploads'
    BY <1>1, <1>3 DEF IInv, KeysApart
  <2>3. \A q, r \in Owners : \A i \in items'[q], k \in items'[r] :
          i.key = k.key => q = r /\ i = k
    BY <1>1 DEF IInv, KeysApart
  <2> QED BY <2>1, <2>2, <2>3 DEF KeysApart
<1>10. ImagesAreServed'
  BY <1>1, <1>3 DEF IInv, ImagesAreServed, Served
<1>11. NoFileForgotten'
  BY <1>1, <1>2, <1>3 DEF IInv, NoFileForgotten
<1> QED BY <1>1, <1>5, <1>6, <1>7, <1>8, <1>9, <1>10, <1>11, SameForms, Conclude
\* The COMMIT of an upload, heard or not.
LEMMA ItemAdded ==
  ASSUME IInv, NEW w \in Workers, At(w, "upload", "commit"), Finish(w),
         UNCHANGED <<form, located, periods, uploads, thinned>>,
         items' = [items EXCEPT ![job[w].p] =
                     @ \cup {[key |-> job[w].key, order |-> job[w].order]}],
         files' \in {files, files \ {job[w].key}},
         files' # files => job[w].key \in unheard',
         unheard \subseteq unheard', unheard' \subseteq Uploads,
         stray \subseteq stray', stray' \subseteq Uploads
  PROVE  IInv'
<1>0. PICK p \in Owners : p = job[w].p
  BY DEF IInv, Fits, UploadFits, At
<1>1. PICK item : p = job[w].p /\ item = [key |-> job[w].key, order |-> job[w].order]
  BY <1>0
<1>2. /\ items' = [items EXCEPT ![p] = @ \cup {item}]
      /\ item.key = job[w].key /\ item.order = job[w].order
  BY <1>1
<1>3. /\ UploadFits(w) /\ job[w] \in Jobs /\ lock[p] = w
      /\ \A q \in Owners : item.key \notin KeysOf(q)
      /\ item.key \in 1..uploads /\ item.key \in Uploads /\ item.key # 0
      /\ item.order \in Nat /\ item \in Item
  <2>1. UploadFits(w) /\ job[w] \in Jobs
    BY DEF IInv, TypeOK, Fits, At
  <2>2. uploads \in 0..MaxUploads /\ MaxUploads \in Nat
    BY ProfessionalsAssumption DEF IInv, TypeOK
  <2>3. /\ item.key \in 1..uploads /\ item.key \in Uploads /\ item.key # 0
        /\ item.order \in Nat
    BY <1>2, <2>1, <2>2 DEF UploadFits, Uploads, Jobs
  <2> QED BY <1>1, <1>2, <2>1, <2>3 DEF UploadFits, At, Item
<1>4. /\ items'[p] = items[p] \cup {item} /\ item \notin items[p]
      /\ \A q \in Owners : q # p => items'[q] = items[q]
  BY <1>2, <1>3 DEF IInv, TypeOK, KeysOf
<1>5. /\ job' \in [Workers -> Jobs] /\ job'[w] = Idle
      /\ \A v \in Workers : v # w => job'[v] = job[v]
      /\ lock' \in [Owners -> Workers \cup {None}]
      /\ \A q \in Owners : lock[q] # w => lock'[q] = lock[q]
  BY JobFields DEF IInv
<1>6. \A q \in Owners : KeysOf(q)' = IF q = p THEN KeysOf(q) \cup {item.key} ELSE KeysOf(q)
  BY <1>4 DEF KeysOf
<1>7. job'[w].key = 0 /\ job'[w].op = "idle"
  BY <1>5 DEF Idle
<1>8. TypeOK'
  <2>1. items' \in [Owners -> SUBSET Item]
    <3>1. items \in [Owners -> SUBSET Item] /\ items[p] \cup {item} \in SUBSET Item
      BY <1>3 DEF IInv, TypeOK
    <3> QED BY <1>2, <3>1
  <2>2. files' \subseteq Uploads
    BY DEF IInv, TypeOK
  <2> QED BY <1>5, <2>1, <2>2 DEF IInv, TypeOK
<1>9. /\ IsFiniteSet(items[p]) /\ IsFiniteSet(items'[p])
      /\ Cardinality(items[p]) \in Nat
      /\ Cardinality(items'[p]) = Cardinality(items[p]) + 1
      /\ Cardinality(items[p]) <= item.order /\ item.order < Limit
      /\ p \notin thinned => Cardinality(items[p]) = item.order
  <2>1. IsFiniteSet(items[p])
    BY DEF IInv, ItemsFit
  <2>2. /\ Cardinality(items[p]) <= item.order /\ item.order < Limit
        /\ p \notin thinned => Cardinality(items[p]) = item.order
    BY <1>1, <1>2, <1>3 DEF UploadFits, At
  <2> QED BY <1>4, <2>1, <2>2, FS_AddElement, FS_CardinalityType
<1>10. ItemsFit'
  <2>1. /\ Cardinality(items'[p]) <= Limit
        /\ p \notin thinned' => \A i \in items'[p] : i.order < Cardinality(items'[p])
    <3>1. Limit \in Nat
      BY ProfessionalsAssumption
    <3>2. ASSUME p \notin thinned', NEW i \in items'[p] PROVE i.order < Cardinality(items'[p])
      <4>1. CASE i = item
        BY <1>3, <1>9, <3>2, <4>1
      <4>2. CASE i \in items[p]
        <5>1. i.order \in Nat /\ i.order < Cardinality(items[p])
          BY <3>2, <4>2 DEF IInv, ItemsFit, TypeOK, Item
        <5> QED BY <1>9, <5>1
      <4> QED BY <1>4, <4>1, <4>2
    <3>3. Cardinality(items'[p]) <= Limit
      BY <1>3, <1>9, <3>1
    <3> QED BY <3>2, <3>3
  <2> QED BY <1>4, <1>9, <2>1 DEF IInv, ItemsFit
<1>11. Fits(w)'
  BY <1>7 DEF Fits
<1>12. Spares(w)
  <2>1. \A q \in Owners : Cardinality(items[q]) \in Nat
    BY FS_CardinalityType DEF IInv, ItemsFit
  <2>2. uploads' \in Nat /\ uploads <= uploads'
    BY DEF IInv, TypeOK
  <2>3. \A k \in 1..uploads : k # job[w].key =>
          /\ k \in files' <=> k \in files
          /\ \A q \in Owners : k \in KeysOf(q)' <=> k \in KeysOf(q)
    BY <1>2, <1>6
  <2> QED BY <1>3, <1>4, <1>5, <2>1, <2>2, <2>3 DEF Spares
<1>13. KeysApart'
  <2>1. \A u, v \in Workers : u # v /\ job'[u].key # 0 => job'[u].key # job'[v].key
    BY <1>5, <1>7, SameKeys DEF IInv
  <2>2. /\ \A q \in Owners : KeysOf(q)' \subseteq 1..uploads'
        /\ files' \subseteq 1..uploads'
    BY <1>3, <1>6 DEF IInv, KeysApart
  <2>3. ASSUME NEW q \in Owners, NEW r \in Owners, NEW i \in items'[q], NEW k \in items'[r],
               i.key = k.key
        PROVE  q = r /\ i = k
    <3>1. \A s \in Owners : \A h \in items[s] : h.key # item.key
      BY <1>3 DEF KeysOf
    <3>2. /\ i \in items[q] \/ (q = p /\ i = item)
          /\ k \in items[r] \/ (r = p /\ k = item)
      BY <1>4
    <3> QED BY <2>3, <3>1, <3>2 DEF IInv, KeysApart
  <2> QED BY <2>1, <2>2, <2>3 DEF KeysApart
<1>14. ImagesAreServed'
  <2>1. item.key \in files
    BY <1>2, <1>3 DEF UploadFits, At
  <2>2. ASSUME NEW q \in Owners, NEW k \in KeysOf(q)' PROVE k \in files' \/ k \in unheard'
    <3>1. CASE k = item.key
      BY <1>2, <2>1, <3>1
    <3>2. CASE k # item.key
      <4>1. k \in files \/ k \in unheard
        BY <1>6, <2>2, <3>2 DEF IInv, ImagesAreServed, Served
      <4> QED BY <1>2, <3>2, <4>1
    <3> QED BY <3>1, <3>2
  <2> QED BY <2>2 DEF ImagesAreServed, Served
<1>15. NoFileForgotten'
  <2>1. ASSUME NEW k \in files'
        PROVE  \/ \E q \in Owners : k \in KeysOf(q)'
               \/ \E v \in Workers : job'[v].key = k
               \/ k \in stray'
    <3>1. CASE k = item.key
      BY <1>6, <3>1
    <3>2. CASE k # item.key
      <4>1. \/ \E q \in Owners : k \in KeysOf(q)
            \/ \E v \in Workers : job[v].key = k
            \/ k \in stray
        BY <2>1 DEF IInv, NoFileForgotten
      <4> QED BY <1>2, <1>5, <1>6, <3>2, <4>1
    <3> QED BY <3>1, <3>2
  <2> QED BY <2>1 DEF NoFileForgotten
<1> QED BY <1>8, <1>10, <1>11, <1>12, <1>13, <1>14, <1>15, SameForms, Conclude

\* The COMMIT of a deletion, heard or not.
LEMMA ItemDeleted ==
  ASSUME IInv, NEW w \in Workers, At(w, "delete", "commit"),
         UNCHANGED <<form, located, periods, files, uploads, unheard>>,
         items' = [items EXCEPT ![job[w].p] = {i \in @ : i.key # job[w].key}],
         thinned' = thinned \cup {job[w].p},
         \/ Goto(w, "unlink") /\ UNCHANGED <<lock, stray>>
         \/ stray' = stray \cup {job[w].key} /\ Finish(w)
  PROVE  IInv'
<1>0. PICK p \in Owners : p = job[w].p
  BY DEF IInv, Fits, DeleteFits, At
<1>1. PICK k : p = job[w].p /\ k = job[w].key
  BY <1>0
<1>2. /\ DeleteFits(w) /\ job[w] \in Jobs /\ k \in KeysOf(p) /\ k \in 1..uploads /\ k \in Uploads
      /\ job[w].op = "delete"
  <2>1. DeleteFits(w) /\ job[w] \in Jobs
    BY DEF IInv, TypeOK, Fits, At
  <2>2. uploads \in 0..MaxUploads /\ MaxUploads \in Nat
    BY ProfessionalsAssumption DEF IInv, TypeOK
  <2> QED BY <1>1, <2>1, <2>2 DEF DeleteFits, At, Uploads
<1>3. /\ items'[p] = {i \in items[p] : i.key # k}
      /\ \A q \in Owners : q # p => items'[q] = items[q]
      /\ \A q \in Owners : items'[q] \subseteq items[q]
  BY <1>1 DEF IInv, TypeOK
<1>4. /\ job' \in [Workers -> Jobs]
      /\ \A v \in Workers : v # w => job'[v] = job[v]
      /\ lock' \in [Owners -> Workers \cup {None}]
      /\ \A q \in Owners : lock[q] # w => lock'[q] = lock[q]
      /\ stray \subseteq stray' /\ stray' \subseteq Uploads
      /\ \/ /\ job'[w].op = "delete" /\ job'[w].at = "unlink" /\ job'[w].p = p /\ job'[w].key = k
         \/ job'[w].op = "idle" /\ job'[w].key = 0 /\ k \in stray'
  <2>1. CASE Goto(w, "unlink") /\ UNCHANGED <<lock, stray>>
    <3>1. /\ job' \in [Workers -> Jobs]
          /\ job'[w] = [op |-> job[w].op, at |-> "unlink", p |-> job[w].p, form |-> job[w].form,
                        key |-> job[w].key, order |-> job[w].order, old |-> job[w].old]
          /\ \A v \in Workers : v # w => job'[v] = job[v]
      BY <2>1, JobFields DEF IInv
    <3>2. /\ job'[w].op = "delete" /\ job'[w].at = "unlink" /\ job'[w].p = p /\ job'[w].key = k
      BY <1>1, <1>2, <3>1
    <3> QED BY <2>1, <3>1, <3>2 DEF IInv, TypeOK
  <2>2. CASE stray' = stray \cup {job[w].key} /\ Finish(w)
    <3>1. /\ job' \in [Workers -> Jobs] /\ job'[w] = Idle
          /\ \A v \in Workers : v # w => job'[v] = job[v]
          /\ lock' \in [Owners -> Workers \cup {None}]
          /\ \A q \in Owners : lock[q] # w => lock'[q] = lock[q]
      BY <2>2, JobFields DEF IInv
    <3>2. job'[w].op = "idle" /\ job'[w].key = 0
      BY <3>1 DEF Idle
    <3> QED BY <1>1, <1>2, <2>2, <3>1, <3>2 DEF IInv, TypeOK
  <2> QED BY <2>1, <2>2
<1>5. \A q \in Owners : KeysOf(q)' = KeysOf(q) \ {k}
  <2>1. KeysOf(p)' = KeysOf(p) \ {k}
    BY <1>3 DEF KeysOf
  <2>2. ASSUME NEW q \in Owners, q # p PROVE KeysOf(q)' = KeysOf(q) \ {k}
    <3>1. KeysOf(q)' = KeysOf(q)
      BY <1>3, <2>2 DEF KeysOf
    <3>2. k \notin KeysOf(q)
      BY <1>2, <2>2 DEF KeysOf, IInv, KeysApart
    <3> QED BY <3>1, <3>2
  <2> QED BY <2>1, <2>2
<1>6. TypeOK'
  <2>1. items' \in [Owners -> SUBSET Item] /\ thinned' \subseteq Owners
    BY <1>1, <1>3 DEF IInv, TypeOK
  <2> QED BY <1>4, <2>1 DEF IInv, TypeOK
<1>7. \A q \in Owners : /\ IsFiniteSet(items'[q])
                        /\ Cardinality(items'[q]) \in Nat /\ Cardinality(items[q]) \in Nat
                        /\ Cardinality(items'[q]) <= Cardinality(items[q])
                        /\ q \notin thinned' => q # p /\ q \notin thinned
  BY <1>1, <1>3, FS_Subset, FS_CardinalityType DEF IInv, ItemsFit
<1>8. ItemsFit'
  <2>1. Limit \in Nat
    BY ProfessionalsAssumption
  <2>2. \A q \in Owners : Cardinality(items'[q]) <= Limit
    BY <1>7, <2>1 DEF IInv, ItemsFit
  <2> QED BY <1>3, <1>7, <2>2 DEF IInv, ItemsFit
<1>9. Fits(w)'
  <2>1. uploads' = uploads
    OBVIOUS
  <2> QED BY <1>2, <1>4, <1>5, <2>1 DEF Fits, DeleteFits
<1>10. Spares(w)
  <2>1. uploads' \in Nat /\ uploads <= uploads'
    BY DEF IInv, TypeOK
  <2>2. \A h \in 1..uploads : h # job[w].key =>
          /\ h \in files' <=> h \in files
          /\ \A q \in Owners : h \in KeysOf(q)' <=> h \in KeysOf(q)
    BY <1>1, <1>5
  <2>3. \A q \in Owners : q \notin thinned' => Cardinality(items'[q]) = Cardinality(items[q])
    BY <1>3, <1>7
  <2> QED BY <1>4, <1>7, <2>1, <2>2, <2>3 DEF Spares
<1>11. KeysApart'
  <2>1. \A u, v \in Workers : u # v /\ job'[u].key # 0 => job'[u].key # job'[v].key
    <3>1. job'[w].key \in {0, job[w].key}
      BY <1>1, <1>4
    <3> QED BY <1>4, <3>1, SameKeys DEF IInv
  <2>2. /\ \A q \in Owners : KeysOf(q)' \subseteq 1..uploads'
        /\ files' \subseteq 1..uploads'
    BY <1>5 DEF IInv, KeysApart
  <2>3. \A q, r \in Owners : \A i \in items'[q], h \in items'[r] : i.key = h.key => q = r /\ i = h
    BY <1>3 DEF IInv, KeysApart
  <2> QED BY <2>1, <2>2, <2>3 DEF KeysApart
<1>12. ImagesAreServed'
  BY <1>5 DEF IInv, ImagesAreServed, Served
<1>13. NoFileForgotten'
  <2>1. ASSUME NEW h \in files'
        PROVE  \/ \E q \in Owners : h \in KeysOf(q)'
               \/ \E v \in Workers : job'[v].key = h
               \/ h \in stray'
    <3>1. CASE h = k
      BY <1>4, <3>1
    <3>2. CASE h # k
      <4>1. \/ \E q \in Owners : h \in KeysOf(q)
            \/ \E v \in Workers : job[v].key = h
            \/ h \in stray
        BY <2>1 DEF IInv, NoFileForgotten
      <4> QED BY <1>1, <1>4, <1>5, <3>2, <4>1
    <3> QED BY <3>1, <3>2
  <2> QED BY <2>1 DEF NoFileForgotten
<1> QED BY <1>6, <1>8, <1>9, <1>10, <1>11, <1>12, <1>13, SameForms, Conclude
LEMMA FileWritten ==
  ASSUME IInv, NEW w \in Workers, WriteFile(w)
  PROVE  IInv'
<1>1. /\ job[w].op = "upload" /\ job[w].at = "write"
      /\ UNCHANGED <<rows, history>>
  BY DEF WriteFile, At
<1>2. UploadFits(w) /\ job[w] \in Jobs
  BY <1>1 DEF IInv, TypeOK, Fits
<1>3. CASE files' = files /\ Finish(w)
  BY <1>1, <1>3, LeftOut, FinishQuietly
<1>4. CASE files' = files \cup {job[w].key} /\ Goto(w, "insert") /\ lock' = lock
  <2>1. /\ form' = form /\ located' = located /\ periods' = periods /\ items' = items
        /\ uploads' = uploads /\ unheard' = unheard /\ stray' = stray /\ thinned' = thinned
    BY <1>1 DEF rows, history
  <2>2. /\ job' \in [Workers -> Jobs]
        /\ job'[w] = [op |-> job[w].op, at |-> "insert", p |-> job[w].p, form |-> job[w].form,
                      key |-> job[w].key, order |-> job[w].order, old |-> job[w].old]
        /\ \A v \in Workers : v # w => job'[v] = job[v]
    BY <1>4, JobFields DEF IInv
  <2>3. \A q \in Owners : KeysOf(q)' = KeysOf(q)
    BY <2>1 DEF KeysOf
  <2>4. job[w].key \in Uploads /\ job[w].key \in 1..uploads /\ job'[w].key = job[w].key
    <3>1. job[w].key \in 1..uploads /\ uploads \in 0..MaxUploads /\ MaxUploads \in Nat
      BY <1>2, ProfessionalsAssumption DEF IInv, TypeOK, UploadFits
    <3> QED BY <2>2, <3>1 DEF Uploads
  <2>5. TypeOK'
    <3>1. files' \subseteq Uploads /\ lock' \in [Owners -> Workers \cup {None}]
      BY <1>4, <2>4 DEF IInv, TypeOK
    <3> QED BY <2>1, <2>2, <3>1 DEF IInv, TypeOK
  <2>6. ItemsFit'
    BY <2>1 DEF IInv, ItemsFit
  <2>7. Fits(w)'
    <3>1. job'[w].key \in files'
      BY <1>4, <2>4
    <3> QED BY <1>1, <1>2, <1>4, <2>1, <2>2, <2>3, <3>1 DEF Fits, UploadFits
  <2>8. Spares(w)
    <3>1. \A q \in Owners : Cardinality(items[q]) \in Nat
      BY FS_CardinalityType DEF IInv, ItemsFit
    <3>2. uploads' \in Nat /\ uploads <= uploads'
      BY <2>1 DEF IInv, TypeOK
    <3> QED BY <1>4, <2>1, <2>2, <2>3, <3>1, <3>2 DEF Spares
  <2>9. KeysApart'
    <3>1. \A u, v \in Workers : u # v /\ job'[u].key # 0 => job'[u].key # job'[v].key
      BY <2>2, <2>4, SameKeys DEF IInv
    <3>2. /\ \A q \in Owners : KeysOf(q)' \subseteq 1..uploads'
          /\ files' \subseteq 1..uploads'
      BY <1>4, <2>1, <2>3, <2>4 DEF IInv, KeysApart
    <3>3. \A q, r \in Owners : \A i \in items'[q], k \in items'[r] :
            i.key = k.key => q = r /\ i = k
      BY <2>1 DEF IInv, KeysApart
    <3> QED BY <3>1, <3>2, <3>3 DEF KeysApart
  <2>10. ImagesAreServed'
    BY <1>4, <2>1, <2>3 DEF IInv, ImagesAreServed, Served
  <2>11. NoFileForgotten'
    <3>1. \A v \in Workers : job'[v].key = job[v].key
      BY <2>2, <2>4
    <3> QED BY <1>4, <2>1, <2>3, <3>1 DEF IInv, NoFileForgotten
  <2> QED BY <2>1, <2>5, <2>6, <2>7, <2>8, <2>9, <2>10, <2>11, SameForms, Conclude
<1> QED BY <1>3, <1>4 DEF WriteFile

\* The COMMIT of a form: its periods replace those there are, which under the
\* lock are the ones its DELETE removed.
LEMMA FormSaved ==
  ASSUME IInv, NEW w \in Workers, CommitUpdate(w)
  PROVE  IInv'
<1>1. PICK p \in Owners, f \in Forms : p = job[w].p /\ f = job[w].form
  BY DEF IInv, Fits, UpdateFits, CommitUpdate, At
<1>2. /\ job[w].op = "update" /\ job[w].at = "commit" /\ Finish(w)
      /\ form' = [form EXCEPT ![p] = f]
      /\ located' = [located EXCEPT ![p] = @ \/ f.placed]
      /\ periods' = [periods EXCEPT ![p] = (@ \ job[w].old) \cup RowsOf(f.periods)]
      /\ UNCHANGED <<items, files, history>>
  BY <1>1 DEF CommitUpdate, At
<1>3. /\ items' = items /\ files' = files /\ uploads' = uploads /\ unheard' = unheard
      /\ stray' = stray /\ thinned' = thinned
  BY <1>2 DEF history
<1>4. UpdateFits(w) /\ job[w] \in Jobs
  BY <1>2 DEF IInv, TypeOK, Fits
<1>5. /\ lock[p] = w /\ job[w].old = periods[p] /\ job[w].key = 0
      /\ located[p] \/ f.placed
      /\ f.category \in OpenCategories /\ FormAccepted(f)
  BY <1>1, <1>2, <1>4 DEF UpdateFits
<1>6. /\ job' \in [Workers -> Jobs] /\ job'[w] = Idle
      /\ \A v \in Workers : v # w => job'[v] = job[v]
      /\ lock' \in [Owners -> Workers \cup {None}]
      /\ \A q \in Owners : lock[q] # w => lock'[q] = lock[q]
  BY <1>2, JobFields DEF IInv
<1>7. job'[w].key = 0 /\ job'[w].op = "idle"
  BY <1>6 DEF Idle
<1>8. f.periods \in Seq(FormPeriods) /\ f.placed \in BOOLEAN
  BY ProfessionalsAssumption
<1>9. RowsOf(f.periods) \subseteq Rows
  <2>1. \A i \in DOMAIN f.periods : f.periods[i] \in FormPeriods
    BY <1>8
  <2> QED BY <2>1, ClockAssumption DEF RowsOf, Row, Rows, FormPeriods
<1>10. /\ form'[p] = f /\ periods'[p] = RowsOf(f.periods)
       /\ located'[p] = (located[p] \/ f.placed)
       /\ \A q \in Owners : q # p => form'[q] = form[q] /\ periods'[q] = periods[q]
                                     /\ located'[q] = located[q]
  BY <1>2, <1>5 DEF IInv, TypeOK
<1>11. TypeOK'
  <2>1. form' \in [Owners -> Forms \cup {None}] /\ periods' \in [Owners -> SUBSET Rows]
    BY <1>2, <1>9, <1>10 DEF IInv, TypeOK
  <2>2. located' \in [Owners -> BOOLEAN]
    <3>1. (located[p] \/ f.placed) \in BOOLEAN
      BY Zenon
    <3> QED BY <1>2, <3>1 DEF IInv, TypeOK
  <2> QED BY <1>3, <1>6, <2>1, <2>2 DEF IInv, TypeOK
<1>12. \A q \in Owners : KeysOf(q)' = KeysOf(q)
  BY <1>3 DEF KeysOf
<1>13. ItemsFit'
  BY <1>3 DEF IInv, ItemsFit
<1>14. Fits(w)'
  BY <1>7 DEF Fits
<1>15. Spares(w)
  <2>1. \A q \in Owners : Cardinality(items[q]) \in Nat
    BY FS_CardinalityType DEF IInv, ItemsFit
  <2>2. uploads' \in Nat /\ uploads <= uploads'
    BY <1>3 DEF IInv, TypeOK
  <2>3. \A q \in Owners : located[q] => located'[q]
    BY <1>10
  <2> QED BY <1>3, <1>5, <1>6, <1>10, <1>12, <2>1, <2>2, <2>3 DEF Spares
<1>16. KeysApart'
  <2>1. \A u, v \in Workers : u # v /\ job'[u].key # 0 => job'[u].key # job'[v].key
    BY <1>6, <1>7, SameKeys DEF IInv
  <2>2. /\ \A q \in Owners : KeysOf(q)' \subseteq 1..uploads'
        /\ files' \subseteq 1..uploads'
    BY <1>3, <1>12 DEF IInv, KeysApart
  <2>3. \A q, r \in Owners : \A i \in items'[q], k \in items'[r] :
          i.key = k.key => q = r /\ i = k
    BY <1>3 DEF IInv, KeysApart
  <2> QED BY <2>1, <2>2, <2>3 DEF KeysApart
<1>17. ImagesAreServed'
  BY <1>3, <1>12 DEF IInv, ImagesAreServed, Served
<1>18. NoFileForgotten'
  <2>1. 0 \notin files
    BY DEF IInv, TypeOK, Uploads
  <2> QED BY <1>3, <1>5, <1>6, <1>12, <2>1 DEF IInv, NoFileForgotten
<1>19. FormsAreSavedWhole'
  <2>1. f # None
    BY ProfessionalsAssumption
  <2>2. /\ form'[p] # None
        /\ periods'[p] = RowsOf(form'[p].periods)
        /\ form'[p].category \in OpenCategories
        /\ located'[p]
    BY <1>5, <1>10, <2>1
  <2>3. Found(p, form[p].category, form[p].now)'
    BY <2>2 DEF Found
  <2>4. ASSUME NEW q \in Owners, q # p, form[q] # None, Found(q, form[q].category, form[q].now)
        PROVE  Found(q, form[q].category, form[q].now)'
    BY <1>10, <2>4 DEF Found
  <2> QED BY <1>10, <2>2, <2>3, <2>4 DEF IInv, FormsAreSavedWhole
<1>20. PeriodsDisjoint'
  <2>1. \A q, r \in RowsOf(f.periods) : q # r => ~Overlap(q, r)
    BY <1>5, <1>8, AcceptedDisjoint DEF FormAccepted
  <2> QED BY <1>10, <2>1 DEF IInv, PeriodsDisjoint
<1> QED BY <1>11, <1>13, <1>14, <1>15, <1>16, <1>17, <1>18, <1>19, <1>20, Conclude

-----------------------------------------------------------------------------
LEMMA Starts == Init => IInv
<1> SUFFICES ASSUME Init PROVE IInv
  OBVIOUS
<1>1. TypeOK
  BY ProfessionalsAssumption DEF Init, TypeOK, Idle, Jobs
<1>2. KeysApart
  BY DEF Init, KeysApart, KeysOf, Idle
<1>3. ItemsFit
  BY FS_EmptySet, ProfessionalsAssumption DEF Init, ItemsFit
<1>4. \A w \in Workers : Fits(w)
  BY DEF Init, Fits, Idle
<1>5. ImagesAreServed /\ NoFileForgotten /\ FormsAreSavedWhole /\ PeriodsDisjoint
  BY DEF Init, ImagesAreServed, KeysOf, NoFileForgotten, FormsAreSavedWhole, PeriodsDisjoint
<1> QED BY <1>1, <1>2, <1>3, <1>4, <1>5 DEF IInv

LEMMA Inductive == IInv /\ [Next]_vars => IInv'
<1> SUFFICES ASSUME IInv, [Next]_vars PROVE IInv'
  OBVIOUS
<1>1. \A w \in Workers : job[w].op \in {"upload", "delete"} => job[w].key \in Uploads
  <2>1. uploads \in 0..MaxUploads /\ MaxUploads \in Nat
    BY ProfessionalsAssumption DEF IInv, TypeOK
  <2>2. \A w \in Workers : job[w].op \in {"upload", "delete"} => job[w].key \in 1..uploads
    BY DEF IInv, Fits, UploadFits, DeleteFits
  <2> QED BY <2>1, <2>2 DEF Uploads
<1>2. ASSUME NEW w \in Workers, Start(w) PROVE IInv'
  BY <1>2, QuietActions, UploadStarts DEF Start
<1>3. ASSUME NEW w \in Workers, InsertItem(w) PROVE IInv'
  <2>1. /\ job[w].op = "upload" /\ job[w].at = "insert"
        /\ UNCHANGED <<rows, uploads, unheard, thinned>>
    BY <1>3 DEF InsertItem, At
  <2>2. UploadFits(w)
    BY <2>1 DEF IInv, Fits
  <2>3. CASE GiveUp(w)
    BY <1>1, <2>1, <2>2, <2>3, GivesUp DEF UploadFits
  <2>4. CASE Goto(w, "commit") /\ UNCHANGED <<files, lock, stray>>
    <3>1. /\ job' \in [Workers -> Jobs]
          /\ job'[w] = [op |-> job[w].op, at |-> "commit", p |-> job[w].p, form |-> job[w].form,
                        key |-> job[w].key, order |-> job[w].order, old |-> job[w].old]
          /\ \A v \in Workers : v # w => job'[v] = job[v]
      BY <2>4, JobFields DEF IInv
    <3>2. UNCHANGED <<rows, files, history>>
      BY <2>1, <2>4 DEF history
    <3>3. \A q \in Owners : KeysOf(q)' = KeysOf(q)
      BY <2>1 DEF rows, KeysOf
    <3>4. Fits(w)'
      BY <2>1, <2>2, <2>4, <3>1, <3>3 DEF Fits, UploadFits, rows
    <3>5. job'[w].key = job[w].key /\ job[w].key # 0
      BY <2>2, <3>1 DEF UploadFits
    <3>6. \A v \in Workers \ {w} : job[v].key # job'[w].key
      BY <3>5 DEF IInv, KeysApart
    <3>7. lock' \in [Owners -> Workers \cup {None}] /\ lock' = lock
      BY <2>4 DEF IInv, TypeOK
    <3> QED BY <3>1, <3>2, <3>4, <3>5, <3>6, <3>7, QuietStep
  <2> QED BY <1>3, <2>3, <2>4 DEF InsertItem
<1>4. ASSUME NEW w \in Workers, CommitUpload(w) PROVE IInv'
  <2>1. /\ At(w, "upload", "commit") /\ UNCHANGED <<form, located, periods, uploads, thinned>>
        /\ job[w].op = "upload"
    BY <1>4 DEF CommitUpload, At
  <2>2. UploadFits(w) /\ job[w].key \in Uploads /\ unheard \subseteq Uploads /\ stray \subseteq Uploads
    BY <1>1, <2>1 DEF IInv, TypeOK, Fits
  <2>3. CASE GiveUp(w) /\ UNCHANGED <<items, unheard>>
    <3>1. UNCHANGED <<rows, uploads, unheard, thinned>>
      BY <2>1, <2>3 DEF rows
    <3> QED BY <2>2, <2>3, <3>1, GivesUp DEF UploadFits
  <2>4. CASE items' = [items EXCEPT ![job[w].p] =
                         @ \cup {[key |-> job[w].key, order |-> job[w].order]}]
    <3>1. CASE Finish(w) /\ UNCHANGED <<files, unheard, stray>>
      BY <2>1, <2>2, <2>4, <3>1, ItemAdded
    <3>2. CASE unheard' = unheard \cup {job[w].key} /\ GiveUp(w)
      <4>1. /\ Finish(w) /\ files' \in {files, files \ {job[w].key}}
            /\ stray \subseteq stray' /\ stray' \subseteq Uploads
        BY <2>2, <3>2 DEF GiveUp
      <4> QED BY <2>1, <2>2, <2>4, <3>2, <4>1, ItemAdded
    <3> QED BY <1>4, <2>1, <2>3, <3>1, <3>2 DEF CommitUpload
  <2> QED BY <1>4, <2>3, <2>4 DEF CommitUpload
<1>5. ASSUME NEW w \in Workers, CommitDelete(w) PROVE IInv'
  <2>1. /\ At(w, "delete", "commit")
        /\ UNCHANGED <<form, located, periods, files, uploads, unheard>>
        /\ job[w].op = "delete" /\ job[w].at = "commit"
    BY <1>5 DEF CommitDelete, At
  <2>2. CASE UNCHANGED <<items, thinned, stray>> /\ Finish(w)
    <3>1. UNCHANGED <<rows, files, history>>
      BY <2>1, <2>2 DEF rows, history
    <3> QED BY <2>1, <2>2, <3>1, LeftOut, FinishQuietly
  <2>3. CASE /\ items' = [items EXCEPT ![job[w].p] = {i \in @ : i.key # job[w].key}]
             /\ thinned' = thinned \cup {job[w].p}
             /\ \/ Goto(w, "unlink") /\ UNCHANGED <<lock, stray>>
                \/ stray' = stray \cup {job[w].key} /\ Finish(w)
    BY <2>1, <2>3, ItemDeleted
  <2> QED BY <1>5, <2>2, <2>3 DEF CommitDelete
<1>6. ASSUME NEW w \in Workers, Unlink(w) PROVE IInv'
  <2>1. /\ job[w].op = "delete" /\ job[w].at = "unlink" /\ GiveUp(w)
        /\ UNCHANGED <<rows, uploads, unheard, thinned>>
    BY <1>6 DEF Unlink, At
  <2>2. DeleteFits(w)
    BY <2>1 DEF IInv, Fits
  <2> QED BY <1>1, <2>1, <2>2, GivesUp DEF DeleteFits
<1>7. ASSUME NEW w \in Workers, Crash(w) PROVE IInv'
  <2>1. job[w].op \in {"upload", "delete"}
    BY <1>7 DEF Crash, At
  <2> QED BY <1>1, <1>7, <2>1, LeavesFile DEF Crash
<1>8. CASE UNCHANGED vars
  <2>1. /\ form' = form /\ located' = located /\ periods' = periods /\ items' = items
        /\ files' = files /\ lock' = lock /\ job' = job /\ uploads' = uploads
        /\ unheard' = unheard /\ stray' = stray /\ thinned' = thinned
    BY <1>8 DEF vars, rows, history
  <2>2. TypeOK' /\ KeysApart' /\ ItemsFit'
    BY <2>1 DEF IInv, TypeOK, KeysApart, KeysOf, ItemsFit
  <2>3. \A w \in Workers : Fits(w)'
    BY <2>1 DEF IInv, Fits, UpdateFits, UploadFits, DeleteFits, KeysOf
  <2>4. ImagesAreServed' /\ NoFileForgotten'
    BY <2>1 DEF IInv, ImagesAreServed, Served, NoFileForgotten, KeysOf
  <2> QED BY <2>1, <2>2, <2>3, <2>4, SameForms DEF IInv
<1> QED BY <1>2, <1>3, <1>4, <1>5, <1>6, <1>7, <1>8, QuietActions, FileWritten, FormSaved
        DEF Next, Step
\* Profiles, portfolios, files and requests are what the model says.
THEOREM ProfessionalTypes == Spec => []TypeOK
<1>1. IInv => TypeOK
  BY DEF IInv
<1> QED BY <1>1, Starts, Inductive, PTL DEF Spec

\* maxPortfolioItems holds, however many uploads of a professional run at once:
\* AddPortfolioItem counts under the lock of the profile.
THEOREM PortfolioLimit == Spec => []WithinLimit
<1>1. IInv => WithinLimit
  BY DEF IInv, ItemsFit, WithinLimit
<1> QED BY <1>1, Starts, Inductive, PTL DEF Spec

\* An image shown in a portfolio has its file, unless a COMMIT went through
\* unheard (AddPortfolioItem then removes the file).
THEOREM ImagesServed == Spec => []ImagesAreServed
<1>1. IInv => ImagesAreServed
  BY DEF IInv
<1> QED BY <1>1, Starts, Inductive, PTL DEF Spec

\* No file is left without an item or a request, but by a stopped server or a
\* failed removal.
THEOREM Remembered == Spec => []NoFileForgotten
<1>1. IInv => NoFileForgotten
  BY DEF IInv
<1> QED BY <1>1, Starts, Inductive, PTL DEF Spec

\* Of forms saved at the same time the columns and the periods come from one
\* (UpdateProfile takes the lock of the row before it replaces the periods).
THEOREM SavedWhole == Spec => []FormsAreSavedWhole
<1>1. IInv => FormsAreSavedWhole
  BY DEF IInv
<1> QED BY <1>1, Starts, Inductive, PTL DEF Spec

\* Whatever periods a form lists, comparing neighbours in the order of their
\* texts keeps every two of a profile apart (validateProfileInput).
THEOREM Disjoint == Spec => []PeriodsDisjoint
<1>1. IInv => PeriodsDisjoint
  BY DEF IInv
<1> QED BY <1>1, Starts, Inductive, PTL DEF Spec

\* A new image does not take the cover while nothing was deleted: its
\* sort_order is the number of items, more than any there is.
THEOREM Cover == Spec => CoverStays
<1> DEFINE Stays == \A p \in Owners : \A i \in Covers(p) :
                      i \in items'[p] /\ p \notin thinned' => i \in Covers(p)'
<1>1. ASSUME IInv, IInv', [Next]_vars, NEW p \in Owners, NEW i \in Covers(p),
             i \in items'[p], p \notin thinned'
      PROVE  i \in Covers(p)'
  <2>1. ASSUME NEW w \in Workers, NEW item \in Item,
               item = [key |-> job[w].key, order |-> job[w].order],
               At(w, "upload", "commit"), thinned' = thinned,
               items' = [items EXCEPT ![job[w].p] = @ \cup {item}]
        PROVE  i \in Covers(p)'
    <3>1. \A j \in items'[p] : j \in items[p] \/ (j = item /\ p = job[w].p)
      BY <2>1 DEF IInv, TypeOK
    <3>2. i \in items[p] /\ \A j \in items[p] \ {i} : Before(i, j)
      BY <1>1 DEF Covers
    <3>3. p = job[w].p => i.order < item.order
      <4>1. UploadFits(w) /\ job[w].at = "commit"
        BY <1>1, <2>1 DEF IInv, Fits, At
      <4>2. item.order = job[w].order
        <5>1. [key |-> job[w].key, order |-> job[w].order].order = job[w].order
          OBVIOUS
        <5> QED BY <2>1, <5>1
      <4> QED BY <1>1, <2>1, <3>2, <4>1, <4>2 DEF IInv, ItemsFit, UploadFits
    <3>4. \A j \in items'[p] \ {i} : Before(i, j)
      BY <3>1, <3>2, <3>3 DEF Before
    <3> QED BY <1>1, <3>4 DEF Covers, Before
  <2>2. CASE items' = items
    BY <1>1, <2>2 DEF Covers, Before
  <2>3. ASSUME NEW w \in Workers, CommitDelete(w), items' # items PROVE i \in Covers(p)'
    <3>1. /\ items' = [items EXCEPT ![job[w].p] = {j \in @ : j.key # job[w].key}]
          /\ thinned' = thinned \cup {job[w].p}
      BY <2>3 DEF CommitDelete
    <3>2. items'[p] = items[p]
      BY <1>1, <3>1 DEF IInv, TypeOK
    <3> QED BY <3>2 DEF Covers, Before
  <2>4. ASSUME NEW w \in Workers, CommitUpload(w), items' # items PROVE i \in Covers(p)'
    <3>1. /\ items' = [items EXCEPT ![job[w].p] =
                         @ \cup {[key |-> job[w].key, order |-> job[w].order]}]
          /\ At(w, "upload", "commit") /\ thinned' = thinned
      BY <2>4 DEF CommitUpload
    <3>2. [key |-> job[w].key, order |-> job[w].order] \in Item
      <4>1. UploadFits(w) /\ job[w] \in Jobs
        BY <1>1, <3>1 DEF IInv, TypeOK, Fits, At
      <4>2. job[w].key # 0
        BY <4>1 DEF UploadFits
      <4> QED BY <4>1, <4>2 DEF Jobs, Item
    <3> QED BY <2>1, <3>1, <3>2
  <2>5. \/ items' = items
        \/ \E w \in Workers : CommitDelete(w) \/ CommitUpload(w)
    BY <1>1 DEF Next, Start, Step, StartUpdate, StartUpload, DeleteItem, LoadProfile, SaveProfile,
           ReplacePeriods, CommitUpdate, LockProfile, CountItems, WriteFile, InsertItem, Unlink,
           Fail, Crash, vars, rows
  <2> QED BY <2>2, <2>3, <2>4, <2>5
<1>2. IInv /\ IInv' /\ [Next]_vars => [Stays]_items
  BY <1>1
<1> QED BY <1>2, Starts, Inductive, PTL DEF Spec, CoverStays
=============================================================================
