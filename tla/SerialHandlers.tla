--------------------------- MODULE SerialHandlers ---------------------------
(***************************************************************************)
(* RequestHandlers when one handler runs at a time, to its end, and in     *)
(* less than a tick of the clock: the tables then change from one handler  *)
(* to the next exactly as ServiceRequests says.  What the abstract module  *)
(* does in one step the statements do in up to fifteen, so the abstract    *)
(* tables are those of the last moment when no handler was running.        *)
(***************************************************************************)
EXTENDS RequestHandlers

VARIABLE before   \* the tables when the running handler started

serialVars == <<vars, before>>

Quiet == \A w \in Workers : job[w] = Idle

SerialInit == Init /\ before = tables

SerialNext ==
  /\ \/ Quiet /\ (HandlerTick \/ \E w \in Workers : Start(w))
     \/ \E w \in Workers : Step(w)
  /\ before' = IF Quiet' THEN tables' ELSE before

SerialSpec == SerialInit /\ [][SerialNext]_serialVars

\* The i-th table as it was before the handler at work, if one is.
Table(i) == IF Quiet THEN tables[i] ELSE before[i]

Atomic == INSTANCE ServiceRequests WITH
  status <- Table(1), publishedAt <- Table(2), expiresAt <- Table(3),
  closedAt <- Table(4), interest <- Table(5), conversation <- Table(6),
  told <- Table(7), cut <- Table(8)

\* Statement by statement, one handler at a time is the handler in one step:
\* the order of the statements, what each remembers of the rows it read, and
\* the place where a refused save() ends it add up to ServiceRequests.
ImplementsHandlers == Atomic!Spec
=============================================================================
