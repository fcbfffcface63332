----------------------------- MODULE Availability -----------------------------
(***************************************************************************)
(* Availability periods as the profile form sends them, and the check they *)
(* pass (internal/professionals/service.go, validateProfileInput).         *)
(*                                                                         *)
(* A form names the hours of a period by texts.  parseClock takes "9:00"   *)
(* for "09:00" (Go reads the hour of "15:04" with one digit or two), but   *)
(* the check sorts the periods by the texts, where "10:00" < "9:00".       *)
(***************************************************************************)
EXTENDS Integers, Sequences

CONSTANTS
  Clocks,     \* texts that parseClock accepts
  MinuteOf,   \* [Clocks -> Nat], what it makes of them
  TextRank    \* [Clocks -> Nat], their order as strings

ASSUME ClockAssumption ==
  /\ MinuteOf \in [Clocks -> Nat]
  /\ TextRank \in [Clocks -> Nat]
  /\ \A s, t \in Clocks : TextRank[s] = TextRank[t] => s = t

Weekdays == 0..6
MaxPeriods == 21

FormPeriods == [day : Weekdays, start : Clocks, end : Clocks]

\* The row of a period: the clock values, no longer the texts.
Row(q) == [day |-> q.day, start |-> MinuteOf[q.start], end |-> MinuteOf[q.end]]
Rows == [day : Weekdays, start : Nat, end : Nat]
RowsOf(ps) == {Row(ps[i]) : i \in DOMAIN ps}

\* Right after one another once the periods are sorted by day and text; the
\* neighbours of a tie are any two of it.
Neighbours(ps, i, j) ==
  /\ i # j
  /\ ps[i].day = ps[j].day
  /\ TextRank[ps[i].start] <= TextRank[ps[j].start]
  /\ ~ \E k \in DOMAIN ps :
         /\ ps[k].day = ps[i].day
         /\ TextRank[ps[i].start] < TextRank[ps[k].start]
         /\ TextRank[ps[k].start] < TextRank[ps[j].start]

\* Mutant: the periods are compared in the order of the form.
AsListed(ps) ==
  /\ Len(ps) <= MaxPeriods
  /\ \A i \in DOMAIN ps : MinuteOf[ps[i].start] < MinuteOf[ps[i].end]
  /\ \A i \in 2..Len(ps) :
       ps[i - 1].day = ps[i].day =>
         MinuteOf[ps[i - 1].end] <= MinuteOf[ps[i].start]

\* A day's periods each end after they start, and neighbours do not overlap.
PeriodsAccepted(ps) ==
  /\ Len(ps) <= MaxPeriods
  /\ \A i \in DOMAIN ps : MinuteOf[ps[i].start] < MinuteOf[ps[i].end]
  /\ \A i, j \in DOMAIN ps :
       Neighbours(ps, i, j) => MinuteOf[ps[i].end] <= MinuteOf[ps[j].start]

\* What the check is for.
Overlap(q, r) == q.day = r.day /\ q.start < r.end /\ r.start < q.end
=============================================================================
