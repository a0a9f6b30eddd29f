----------------------------- MODULE Retention -----------------------------
(***************************************************************************)
(* The request log and its permanent rollup: log_request, prune_old_logs   *)
(* and the lifetime totals of get_metrics.                                 *)
(*                                                                         *)
(* Time and costs are counted in the smallest steps that matter: PerDay    *)
(* ticks to a day, CostUnit of the log's cost steps (1e-8 USD) to the      *)
(* rollup's (1e-6 USD).  A row of the log carries a serial number instead  *)
(* of its log_id, which nothing refers to.                                 *)
(***************************************************************************)
EXTENDS Integers, FiniteSets, FiniteSetsExt, Functions

CONSTANTS
  Kinds,      \* what a row may record: an outcome, and what a hit saves
  PerDay,     \* ticks in a UTC day
  Window,     \* days * 86400, in ticks
  CostUnit,   \* cost steps in the sixth decimal
  MaxNow,     \* bound: ticks over a run
  MaxRows     \* bound: rows logged over a run

ASSUME RetentionAssumption ==
  /\ Kinds \subseteq [hit : BOOLEAN, tokens : Nat, cost : Nat]
  /\ PerDay \in Nat \ {0}
  /\ CostUnit \in Nat \ {0}
  /\ {Window, MaxNow, MaxRows} \subseteq Nat

VARIABLES
  log,      \* request_log: a set of rows
  daily,    \* daily_metrics: day -> totals
  now,      \* time.time()
  ever,     \* history: every row that was ever logged
  roundings \* history: times a day's cost was rounded

retention == <<log, daily, now, ever, roundings>>

\* ref: matched_entry_id, and the entry it meant when the row was written.
Row == [serial : Nat, at : Nat, kind : Kinds, ref : [id : Nat, entry : Nat]]

Totals == [requests : Nat, hits : Nat, tokens : Nat, cost : Nat]

TypeOKRetention ==
  /\ log \subseteq ever
  /\ ever \subseteq Row
  /\ daily \in [DOMAIN daily -> Totals]
  /\ DOMAIN daily \subseteq Nat
  /\ now \in Nat
  /\ roundings \in Nat

-----------------------------------------------------------------------------
\* date(timestamp, 'unixepoch')
Day(row) == row.at \div PerDay

OnDay(rows, d) == {r \in rows : Day(r) = d}

Days(rows) == {Day(r) : r \in rows}

Hits(rows) == {r \in rows : r.kind.hit}

TokensSaved(rows) == SumFunction([r \in Hits(rows) |-> r.kind.tokens])

CostSaved(rows) == SumFunction([r \in Hits(rows) |-> r.kind.cost])

\* Fault: what is below the sixth decimal is cut off.
RoundedDown(cost) == CostUnit * (cost \div CostUnit)

\* ROUND(cost, 6): halves are rounded up.
Rounded(cost) == CostUnit * ((2 * cost + CostUnit) \div (2 * CostUnit))

\* What the SELECT of prune_old_logs makes of the rows of one day.
Aggregate(rows) ==
  [requests |-> Cardinality(rows),
   hits     |-> Cardinality(Hits(rows)),
   tokens   |-> TokensSaved(rows),
   cost     |-> Rounded(CostSaved(rows))]

\* Fault: the row of a day that is there already is replaced.
PlusReplacing(t, u) == u

Plus(t, u) == [f \in DOMAIN t |-> t[f] + u[f]]

\* INSERT ... ON CONFLICT(date) DO UPDATE
Rolled(rows) ==
  [d \in DOMAIN daily \cup Days(rows) |->
     IF d \notin Days(rows) THEN daily[d]
     ELSE IF d \in DOMAIN daily THEN Plus(daily[d], Aggregate(OnDay(rows, d)))
     ELSE Aggregate(OnDay(rows, d))]

\* Fault: the window is not subtracted from the clock.
OldWithoutWindow == {r \in log : r.at < now}

\* "timestamp < cutoff"
Old == {r \in log : r.at < now - Window}

-----------------------------------------------------------------------------
\* prune_old_logs(): the rollup and the delete in one transaction.
Prune ==
  /\ daily' = Rolled(Old)
  /\ log' = log \ Old
  /\ roundings' = roundings + Cardinality(Days(Old))
  /\ UNCHANGED <<now, ever>>

LogRow(kind, ref) ==
  LET row == [serial |-> 1 + Max({r.serial : r \in ever} \cup {0}), at |-> now, kind |-> kind,
              ref |-> ref]
  IN  /\ Cardinality(ever) < MaxRows
      /\ log' = log \cup {row}
      /\ ever' = ever \cup {row}
      /\ UNCHANGED <<daily, now, roundings>>

Tick ==
  /\ now < MaxNow
  /\ now' = now + 1
  /\ UNCHANGED <<log, daily, ever, roundings>>

-----------------------------------------------------------------------------
\* get_metrics(): the rollup and the rows that remain, before the result is
\* rounded for display.
Metrics ==
  LET rolled(f) == SumFunction([d \in DOMAIN daily |-> daily[d][f]])
  IN  [requests |-> rolled("requests") + Cardinality(log),
       hits     |-> rolled("hits") + Cardinality(Hits(log)),
       tokens   |-> rolled("tokens") + TokensSaved(log),
       cost     |-> rolled("cost") + CostSaved(log)]

=============================================================================
