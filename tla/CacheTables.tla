---------------------------- MODULE CacheTables ----------------------------
(***************************************************************************)
(* The SQLite tables of the proxy and the functions of cache.py that read  *)
(* and write them.  Every caller is a coroutine of one event loop and no   *)
(* function awaits, so each function is one atomic step.                   *)
(*                                                                         *)
(* A prompt stands for the message text that is hashed and embedded; the   *)
(* cosine of two prompts, the veto and "has no content words" are          *)
(* constants, as the code computes them from the texts alone.              *)
(*                                                                         *)
(* An entry keeps what is left of its time to live instead of expires_at:  *)
(* at 0 the clock shows exactly expires_at, at Expired it is past it.      *)
(***************************************************************************)
EXTENDS Integers, FiniteSets, Sequences

CONSTANTS
  Prompts, Users, Models,
  Responses,    \* upstream answers, as stored in response_json
  Ttl,          \* CACHE_DEFAULT_TTL_SECONDS
  Score,        \* cosine similarity of two prompts, scaled to integers
  Threshold,    \* SIMILARITY_THRESHOLD, on the same scale
  Vetoed,       \* the pairs <<query, candidate>> semantic_veto refuses
  Contentless,  \* prompts without content words
  MaxEntries,   \* bound: entries stored over a run
  MaxHits,      \* bound: hits counted on one entry
  MaxLog,       \* bound: rows in the request log
  MaxPurges     \* bound: purges over a run

ASSUME TablesAssumption ==
  /\ Ttl \in Nat
  /\ Score \in [Prompts \X Prompts -> Int]
  /\ Threshold \in Int
  /\ Vetoed \subseteq Prompts \X Prompts
  /\ Contentless \subseteq Prompts
  /\ {MaxEntries, MaxHits, MaxLog, MaxPurges} \subseteq Nat

VARIABLES
  entries,  \* cache_entries: entry_id -> row
  lastId,   \* its AUTOINCREMENT counter
  log,      \* request_log
  audit     \* purge_audit

tables == <<entries, lastId, log, audit>>

Expired == -1
NoEntry == 0    \* NULL, in a column of entry ids

Outcomes == {"HIT", "MISS", "BYPASS", "ERROR"}

Entry == [prompt : Prompts, user : Users, model : Models,
          response : Responses, left : (0 .. Ttl) \cup {Expired}, hits : Nat]

LogRow == [outcome : Outcomes, user : Users, matched : Nat]

AuditRow == [count : Nat, entry : Nat]

Ids == DOMAIN entries

TypeOK ==
  /\ lastId \in Nat
  /\ Ids \subseteq 1 .. lastId
  /\ entries \in [Ids -> Entry]
  /\ log \in Seq(LogRow)
  /\ audit \in Seq(AuditRow)

-----------------------------------------------------------------------------
(* The two-tier lookup of prompt p for user u and model m.                 *)

Similarity(p, q) == Score[<<p, q>>]

Scoped(u, m) == {i \in Ids : entries[i].user = u /\ entries[i].model = m}

\* Fault: the store replaces a row whatever model it was stored for.
SameKeyAnyModel(p, u, m) ==
  {i \in Ids : entries[i].prompt = p /\ entries[i].user = u}

\* The row the exact tier finds: at most one, by the unique index.
SameKey(p, u, m) == {i \in Scoped(u, m) : entries[i].prompt = p}

\* "time.time() > expires_at"
PastExpiry(i) == entries[i].left = Expired

\* Fault: the exact tier does not look at expires_at.
ExactHitStale(p, u, m) == SameKey(p, u, m)

ExactHit(p, u, m) == {i \in SameKey(p, u, m) : ~PastExpiry(i)}

ExactExpired(p, u, m) == {i \in SameKey(p, u, m) : PastExpiry(i)}

\* Fault: the semantic scan forgets whose entries it may compare with.
CandidatesOfAnyone(p, u, m) ==
  {i \in Ids : /\ entries[i].left > 0
               /\ entries[i].prompt \notin Contentless
               /\ Similarity(p, entries[i].prompt) >= Threshold}

\* What the semantic scan may answer with: "expires_at > now" is strict.
Candidates(p, u, m) ==
  {i \in Scoped(u, m) : /\ entries[i].left > 0
                        /\ entries[i].prompt \notin Contentless
                        /\ Similarity(p, entries[i].prompt) >= Threshold}

\* i comes before j: a higher score, or the same found earlier (rowid order).
Beats(p, i, j) ==
  LET s == Similarity(p, entries[i].prompt)
      t == Similarity(p, entries[j].prompt)
  IN  s > t \/ (s = t /\ i < j)

Nearest(p, u, m) ==
  {i \in Candidates(p, u, m) :
     \A j \in Candidates(p, u, m) \ {i} : Beats(p, i, j)}

\* Only the nearest candidate is examined: its veto makes the lookup a miss.
SemanticHit(p, u, m) ==
  {i \in Nearest(p, u, m) : <<p, entries[i].prompt>> \notin Vetoed}

\* What lookup() returns: the id of one entry, or nothing.
Hit(p, u, m) ==
  IF ExactHit(p, u, m) # {} THEN ExactHit(p, u, m) ELSE SemanticHit(p, u, m)

-----------------------------------------------------------------------------
(* Statements.                                                             *)

\* Fault: references to deleted entries stay in the log.
DetachedNever(ids) == log

\* _detach_log_references, for each of ids.
Detached(ids) ==
  [n \in DOMAIN log |->
     IF log[n].matched \in ids THEN [log[n] EXCEPT !.matched = NoEntry]
                               ELSE log[n]]

Without(ids) == [i \in Ids \ ids |-> entries[i]]

Delete(ids) ==
  /\ entries' = Without(ids)
  /\ log' = Detached(ids)

-----------------------------------------------------------------------------
InitTables ==
  /\ entries = <<>>
  /\ lastId = 0
  /\ log = <<>>
  /\ audit = <<>>

\* Fault: a hit gives the entry a whole time to live more.
ServedAndExtended(row) == [row EXCEPT !.hits = @ + 1, !.left = @ + Ttl]

\* "hit_count = hit_count + 1": a hit does not move expires_at.
Served(row) == [row EXCEPT !.hits = @ + 1]

\* lookup(): an expired row of the same key is deleted, whatever the semantic
\* tier then finds; the hit is counted on the entry that is served.
Lookup(p, u, m) ==
  LET gone == ExactExpired(p, u, m)
      hit  == Hit(p, u, m)
  IN  /\ \A i \in hit : entries[i].hits < MaxHits
      /\ entries' = [i \in Ids \ gone |->
                       IF i \in hit THEN Served(entries[i]) ELSE entries[i]]
      /\ log' = Detached(gone)
      /\ UNCHANGED <<lastId, audit>>

\* Fault: the key of an INTEGER PRIMARY KEY without AUTOINCREMENT.
NewIdFromRows ==
  IF Ids = {} THEN 1 ELSE 1 + CHOOSE i \in Ids : \A j \in Ids : j <= i

NewId == lastId + 1

\* Fault: the row is looked for, and not deleted.
StoreKeepingOld(p, u, m, response) ==
  LET row == [prompt |-> p, user |-> u, model |-> m, response |-> response,
              left |-> Ttl, hits |-> 0]
  IN  /\ NewId <= MaxEntries
      /\ lastId' = NewId
      /\ entries' = [i \in Ids \cup {NewId} |->
                       IF i = NewId THEN row ELSE entries[i]]
      /\ UNCHANGED <<log, audit>>

\* store(): the user's row for this prompt and model is replaced.
Store(p, u, m, response) ==
  LET old == SameKey(p, u, m)
      row == [prompt |-> p, user |-> u, model |-> m, response |-> response,
              left |-> Ttl, hits |-> 0]
  IN  /\ NewId <= MaxEntries
      /\ lastId' = NewId
      /\ entries' = [i \in (Ids \ old) \cup {NewId} |->
                       IF i = NewId THEN row ELSE entries[i]]
      /\ log' = Detached(old)
      /\ UNCHANGED audit

\* purge(entry_id): the id may name no entry, or no longer.
Purge(id) ==
  /\ Len(audit) < MaxPurges
  /\ Delete({id})
  /\ audit' = Append(audit, [count |-> Cardinality({id} \cap Ids),
                             entry |-> id])
  /\ UNCHANGED lastId

PurgeAll ==
  /\ Len(audit) < MaxPurges
  /\ Delete(Ids)
  /\ audit' = Append(audit, [count |-> Cardinality(Ids), entry |-> NoEntry])
  /\ UNCHANGED lastId

\* log_request(): the foreign key refuses a reference to a deleted entry.
LogRequest(outcome, u, matched) ==
  /\ Len(log) < MaxLog
  /\ matched \in Ids \cup {NoEntry}
  /\ log' = Append(log, [outcome |-> outcome, user |-> u,
                         matched |-> matched])
  /\ UNCHANGED <<entries, lastId, audit>>

Aged(left) == IF left = Expired THEN Expired ELSE left - 1

\* One second of time.time().
Age ==
  /\ \E i \in Ids : ~PastExpiry(i)
  /\ entries' = [i \in Ids |-> [entries[i] EXCEPT !.left = Aged(@)]]
  /\ UNCHANGED <<lastId, log, audit>>

NextTables ==
  \/ Age
  \/ PurgeAll
  \/ \E id \in 1 .. MaxEntries : Purge(id)
  \/ \E p \in Prompts, u \in Users, m \in Models :
       Lookup(p, u, m) \/ \E r \in Responses : Store(p, u, m, r)
  \/ \E o \in {"HIT", "MISS"}, id \in Ids : LogRequest(o, entries[id].user, id)
  \/ \E o \in {"BYPASS", "ERROR"}, u \in Users : LogRequest(o, u, NoEntry)

TablesSpec == InitTables /\ [][NextTables]_tables

-----------------------------------------------------------------------------
(* Properties.                                                             *)

\* Every log row refers to an entry that exists, or to none: no delete in
\* lookup, store or purge can fail on the log's foreign key, and no row can
\* come to point at another entry (_detach_log_references).
ReferencesLive == \A n \in DOMAIN log : log[n].matched \in Ids \cup {NoEntry}

\* A log row refers to no other user's entry.
ReferencesOwn ==
  \A n \in DOMAIN log :
    log[n].matched \in Ids => entries[log[n].matched].user = log[n].user

\* One row per prompt, user and model: store() never trips the unique index,
\* and the exact tier never has to choose (idx_cache_hash_user_model).
UniqueKey ==
  \A i, j \in Ids :
    /\ entries[i].prompt = entries[j].prompt
    /\ entries[i].user = entries[j].user
    /\ entries[i].model = entries[j].model
    => i = j

\* "responses are NEVER shared across users" and a request never gets another
\* model's answer: whatever a lookup could serve now, in either tier, is an
\* unexpired entry of the same user and model, for the same prompt or for one
\* close enough and not vetoed; at now = expires_at, which the exact tier still
\* serves, for the same prompt only (lookup).
LookupSound ==
  \A p \in Prompts, u \in Users, m \in Models :
    /\ \A i, j \in Hit(p, u, m) : i = j
    /\ \A i \in Hit(p, u, m) :
         /\ entries[i].user = u /\ entries[i].model = m
         /\ ~PastExpiry(i)
         /\ \/ entries[i].prompt = p
            \/ /\ entries[i].left > 0
               /\ Similarity(p, entries[i].prompt) >= Threshold
               /\ <<p, entries[i].prompt>> \notin Vetoed

\* The step stores a successor of entry i, or writes an audit row that counts
\* all the entries it deletes.
Replaced(i) ==
  \E j \in Ids' \ Ids :
    /\ entries'[j].prompt = entries[i].prompt
    /\ entries'[j].user = entries[i].user
    /\ entries'[j].model = entries[i].model

Audited ==
  /\ Len(audit') = Len(audit) + 1
  /\ audit'[Len(audit')].count = Cardinality(Ids \ Ids')

LossAccounted ==
  \A i \in Ids \ Ids' : PastExpiry(i) \/ Replaced(i) \/ Audited

\* An entry disappears only if it had expired, if the same step stored its
\* successor, or if the step wrote an audit row that counts it ("data loss"
\* and "someone purged" can be told apart: the purge_audit table).
NoSilentLoss == [][LossAccounted]_tables

\* What an audit row says was purged by its id stays purged: the id names no
\* entry again, however many are stored later, so purging it a second time, from
\* a list that was read before, cannot hit another entry (AUTOINCREMENT).
PurgedForGood ==
  \A n \in DOMAIN audit : audit[n].count > 0 => audit[n].entry \notin Ids

=============================================================================
