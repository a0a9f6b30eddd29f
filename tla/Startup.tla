------------------------------ MODULE Startup ------------------------------
(***************************************************************************)
(* The lifespan of the process over its database file: init_db with the    *)
(* migration of older databases, seed_test_pairs, the retention pass, and  *)
(* then requests; with kills and restarts anywhere.                        *)
(*                                                                         *)
(* executescript() and DDL commit statement by statement, so each          *)
(* statement that changes the file is a step, and "step" is the next one.  *)
(*                                                                         *)
(* An entry is named after the order in which entries were stored; its     *)
(* entry_id is the key of the table it is in.                              *)
(***************************************************************************)
EXTENDS Retention, Sequences

CONSTANTS
  OldShapes,   \* the shapes of databases the program may find: see Shape
  MaxLeft,     \* bound: the highest id in such a database
  MaxStored,   \* bound: entries stored over a run
  MaxKills     \* bound: times the process ends

Names == {"cache_entries", "cache_entries_v2", "request_log", "request_log_v2"}

\* "none"     no such table
\* "v1"       before user scoping; request_log's CHECK knows no ERROR
\* "scoped"   request_log with user_id and the CHECK of before
\* "current"  the shape of _SCHEMA_V2
Shape == {"none", "v1", "scoped", "current"}

NoRef == [id |-> 0, entry |-> 0]

ASSUME StartupAssumption ==
  /\ OldShapes \subseteq [cache_entries : {"none", "v1", "current"},
                          request_log : Shape]
  /\ {MaxLeft, MaxStored, MaxKills} \subseteq Nat

VARIABLES
  schema,      \* Names -> Shape
  entries,     \* cache_entries: entry_id -> entry
  lastId,      \* its AUTOINCREMENT counter
  copied,      \* cache_entries_v2, whose ids have no gaps
  copiedLog,   \* request_log_v2
  pairs,       \* how often labeled_test_pairs were inserted
  step,        \* the next statement: see Steps
  stored,      \* history: the entries that were ever stored
  renumbered,  \* history: the migration gave an entry another id
  kills        \* times the process ended

cache == <<entries, lastId, copied, stored, renumbered>>
logs == <<retention, copiedLog>>
vars == <<schema, cache, logs, pairs, step, kills>>

Steps == {"down", "create entries", "create log",
          "copy entries", "fill entries", "drop entries", "rename entries",
          "scope log", "copy log", "fill log", "drop log", "rename log",
          "seed", "prune", "serving", "failed"}

\* A table that does not exist holds no rows.
TypeOKStartup ==
  /\ TypeOKRetention
  /\ schema \in [Names -> Shape]
  /\ entries \in [DOMAIN entries -> stored]
  /\ lastId \in Nat /\ DOMAIN entries \subseteq 1 .. lastId
  /\ copied \in Seq(stored)
  /\ copiedLog \subseteq ever
  /\ schema["cache_entries"] = "none" => entries = <<>>
  /\ schema["cache_entries_v2"] = "none" => copied = <<>>
  /\ schema["request_log"] = "none" => log = {}
  /\ schema["request_log_v2"] = "none" => copiedLog = {}
  /\ pairs \in Nat
  /\ step \in Steps
  /\ stored \subseteq Nat
  /\ renumbered \in BOOLEAN
  /\ kills \in 0 .. MaxKills

-----------------------------------------------------------------------------
\* A database that an earlier version left: its log has a row for each entry,
\* and purged entries have left gaps between the ids.
Left(shape, ids, kind) ==
  /\ schema = [t \in Names |-> IF t \in DOMAIN shape THEN shape[t] ELSE "none"]
  /\ entries = [i \in ids |-> i]
  /\ lastId = Max(ids \cup {0})
  /\ log = {[serial |-> i, at |-> 0, kind |-> kind,
             ref |-> [id |-> i, entry |-> i]] : i \in ids}

Init ==
  /\ \E shape \in OldShapes, ids \in SUBSET (1 .. MaxLeft), kind \in Kinds :
       /\ "none" \in {shape.cache_entries, shape.request_log} => ids = {}
       /\ Left(shape, ids, kind)
  /\ stored = DOMAIN entries
  /\ ever = log
  /\ daily = <<>>
  /\ now = 0
  /\ roundings = 0
  /\ copied = <<>>
  /\ copiedLog = {}
  /\ pairs = 0
  /\ step = "down"
  /\ renumbered = FALSE
  /\ kills = 0

\* The statement of step s runs, and the next one is t.
Runs(s, t) == step = s /\ step' = t

\* The rebuild of a table: CREATE TABLE of the copy, which fails if a copy is
\* there already, DROP TABLE and ALTER TABLE ... RENAME.
CreateCopy(s, copy, t) ==
  /\ \/ /\ schema[copy] = "none"
        /\ Runs(s, t)
        /\ schema' = [schema EXCEPT ![copy] = "current"]
     \/ /\ schema[copy] # "none"
        /\ Runs(s, "failed")
        /\ UNCHANGED schema
  /\ UNCHANGED <<cache, logs, pairs, kills>>

Dropped(t) == [schema EXCEPT ![t] = "none"]

Renamed(copy, t) == [schema EXCEPT ![copy] = "none", ![t] = schema[copy]]

\* CREATE TABLE IF NOT EXISTS
CreateIfMissing(s, t, next) ==
  /\ Runs(s, next)
  /\ schema' = IF schema[t] = "none" THEN [schema EXCEPT ![t] = "current"]
               ELSE schema
  /\ UNCHANGED <<cache, logs, pairs, kills>>

-----------------------------------------------------------------------------
(* init_db                                                                 *)

Boot ==
  /\ step \in {"down", "failed"}
  /\ step' = "create entries"
  /\ UNCHANGED <<schema, cache, logs, pairs, kills>>

CreateEntries ==
  CreateIfMissing("create entries", "cache_entries", "create log")

CreateLog ==
  CreateIfMissing("create log", "request_log",
                  IF schema["cache_entries"] = "v1" THEN "copy entries"
                                                    ELSE "scope log")

CopyEntries == CreateCopy("copy entries", "cache_entries_v2", "fill entries")

\* The k-th of ids, from the lowest up.
Nth(ids, k) == CHOOSE i \in ids : Cardinality({j \in ids : j <= i}) = k

\* Fault: the newest entry is copied first.
NewestFirst ==
  LET n == Cardinality(DOMAIN entries)
  IN  [k \in 1 .. n |-> entries[Nth(DOMAIN entries, n + 1 - k)]]

\* INSERT ... SELECT without the ids, in the order of the ids.
InOrder ==
  [k \in 1 .. Cardinality(DOMAIN entries) |-> entries[Nth(DOMAIN entries, k)]]

\* Fault: the INSERT is rolled back when the process ends, the DROP is not.
FillEntriesUncommitted ==
  /\ Runs("fill entries", "drop entries")
  /\ UNCHANGED <<schema, cache, logs, pairs, kills>>

FillEntries ==
  /\ Runs("fill entries", "drop entries")
  /\ copied' = InOrder
  /\ renumbered' = (renumbered \/ DOMAIN entries # 1 .. Cardinality(DOMAIN entries))
  /\ UNCHANGED <<schema, entries, lastId, stored, logs, pairs, kills>>

DropEntries ==
  /\ Runs("drop entries", "rename entries")
  /\ schema' = Dropped("cache_entries")
  /\ entries' = <<>>
  /\ lastId' = 0
  /\ UNCHANGED <<copied, stored, renumbered, logs, pairs, kills>>

\* Fault: the counter is not renamed with the table.
RenameEntriesOnly ==
  /\ Runs("rename entries", "scope log")
  /\ schema' = Renamed("cache_entries_v2", "cache_entries")
  /\ entries' = copied
  /\ copied' = <<>>
  /\ UNCHANGED <<lastId, stored, renumbered, logs, pairs, kills>>

\* sqlite_sequence is renamed with the table.
RenameEntries ==
  /\ Runs("rename entries", "scope log")
  /\ schema' = Renamed("cache_entries_v2", "cache_entries")
  /\ entries' = copied
  /\ lastId' = Len(copied)
  /\ copied' = <<>>
  /\ UNCHANGED <<stored, renumbered, logs, pairs, kills>>

\* Fault: a log that has its users is taken to be up to date.
ScopeLogOnly ==
  /\ Runs("scope log", IF schema["request_log"] = "v1" THEN "copy log" ELSE "seed")
  /\ schema' = IF schema["request_log"] = "v1"
               THEN [schema EXCEPT !["request_log"] = "scoped"] ELSE schema
  /\ UNCHANGED <<cache, logs, pairs, kills>>

\* ADD COLUMN user_id, and whether the CHECK is stale.
ScopeLog ==
  /\ Runs("scope log", IF schema["request_log"] = "current" THEN "seed"
                                                            ELSE "copy log")
  /\ schema' = IF schema["request_log"] = "v1"
               THEN [schema EXCEPT !["request_log"] = "scoped"] ELSE schema
  /\ UNCHANGED <<cache, logs, pairs, kills>>

CopyLog == CreateCopy("copy log", "request_log_v2", "fill log")

FillLog ==
  /\ Runs("fill log", "drop log")
  /\ copiedLog' = log
  /\ UNCHANGED <<schema, cache, retention, pairs, kills>>

DropLog ==
  /\ Runs("drop log", "rename log")
  /\ schema' = Dropped("request_log")
  /\ log' = {}
  /\ UNCHANGED <<cache, daily, now, ever, roundings, copiedLog, pairs, kills>>

RenameLog ==
  /\ Runs("rename log", "seed")
  /\ schema' = Renamed("request_log_v2", "request_log")
  /\ log' = copiedLog
  /\ copiedLog' = {}
  /\ UNCHANGED <<cache, daily, now, ever, roundings, pairs, kills>>

-----------------------------------------------------------------------------
(* The rest of the lifespan                                                *)

\* seed_test_pairs()
Seed ==
  /\ Runs("seed", "prune")
  /\ pairs' = IF pairs = 0 THEN 1 ELSE pairs
  /\ UNCHANGED <<schema, cache, logs, kills>>

\* The retention pass.  Should it raise, the process starts all the same.
PruneOnce ==
  /\ Runs("prune", "serving")
  /\ Prune \/ UNCHANGED retention
  /\ UNCHANGED <<schema, cache, copiedLog, pairs, kills>>

\* store(), of a prompt that is not cached yet.
StoreEntry ==
  LET entry == 1 + Max(stored \cup {0})
  IN  /\ step = "serving" /\ entry <= MaxStored
      /\ lastId' = lastId + 1
      /\ entries' = [i \in DOMAIN entries \cup {lastId + 1} |->
                       IF i = lastId + 1 THEN entry ELSE entries[i]]
      /\ stored' = stored \cup {entry}
      /\ UNCHANGED <<schema, copied, renumbered, logs, pairs, step, kills>>

\* log_request(): a hit refers to the entry that was served.
LogRequest(kind) ==
  /\ step = "serving"
  /\ \/ \E i \in DOMAIN entries : LogRow(kind, [id |-> i, entry |-> entries[i]])
     \/ ~kind.hit /\ LogRow(kind, NoRef)
  /\ UNCHANGED <<schema, cache, copiedLog, pairs, step, kills>>

\* The process is stopped or killed, between any two statements.
Kill ==
  /\ step # "down"
  /\ kills < MaxKills
  /\ kills' = kills + 1
  /\ step' = "down"
  /\ UNCHANGED <<schema, cache, logs, pairs>>

Clock ==
  /\ Tick
  /\ UNCHANGED <<schema, cache, copiedLog, pairs, step, kills>>

\* The process waits for requests.
Idle == step = "serving" /\ UNCHANGED vars

Next ==
  \/ Boot \/ CreateEntries \/ CreateLog
  \/ CopyEntries \/ FillEntries \/ DropEntries \/ RenameEntries
  \/ ScopeLog \/ CopyLog \/ FillLog \/ DropLog \/ RenameLog
  \/ Seed \/ PruneOnce
  \/ StoreEntry \/ (\E kind \in Kinds : LogRequest(kind))
  \/ Kill \/ Clock \/ Idle

Spec == Init /\ [][Next]_vars

-----------------------------------------------------------------------------
(* Properties.                                                             *)

\* Requests are served on the current schema only, with one set of test pairs,
\* however often the process was killed on the way: an ERROR row can be
\* written, and a user id (_migrate_user_scoping).
ServedOnCurrentSchema ==
  step \in {"prune", "serving"} =>
    /\ schema["cache_entries"] = "current"
    /\ schema["request_log"] = "current"
    /\ pairs = 1

\* The rows of a table that a kill left between DROP and RENAME, which no
\* later start takes up.
Stranded == copiedLog \ log

\* "lifetime totals never regress": requests, hits and tokens saved, of the
\* rollup and the remaining rows, are those of all rows ever logged, through
\* retention passes, restarts and migration, except for stranded rows.
LifetimeTotals ==
  /\ Metrics.requests + Cardinality(Stranded) = Cardinality(ever)
  /\ Metrics.hits + Cardinality(Hits(Stranded)) = Cardinality(Hits(ever))
  /\ Metrics.tokens + TokensSaved(Stranded) = TokensSaved(ever)

\* The lifetime cost is right to half a sixth decimal for each time a day was
\* rolled up (ROUND in prune_old_logs).
CostWithinRounding ==
  LET off == Metrics.cost + CostSaved(Stranded) - CostSaved(ever)
  IN  {2 * off, -2 * off} \subseteq -(roundings * CostUnit) .. roundings * CostUnit

\* The rows of the last days are there for the dashboard: a retention pass
\* takes none of them, whatever day they are rolled up to.
WindowKept == \A r \in ever : r.at >= now - Window => r \in log \cup copiedLog

\* No entry is destroyed by the migration, wherever it is killed: it is in
\* cache_entries or in the copy.
EntriesKept == \A e \in stored : (\E i \in DOMAIN entries : entries[i] = e)
                                 \/ (\E i \in DOMAIN copied : copied[i] = e)

\* A log row names the entry that was served then, after the migration too,
\* unless that gave entries other ids (it copies all columns but entry_id) or
\* was killed with the entries in the copy.
ReferencesMeant ==
  step = "serving" /\ ~renumbered /\ schema["cache_entries_v2"] = "none" =>
    \A r \in log : r.ref # NoRef =>
      r.ref.id \in DOMAIN entries /\ entries[r.ref.id] = r.ref.entry

\* init_db's docstring: "Create/migrate tables as needed (idempotent)".
StartsAgain == step # "failed"

=============================================================================
