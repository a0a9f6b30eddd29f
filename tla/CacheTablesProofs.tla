------------------------- MODULE CacheTablesProofs -------------------------
(***************************************************************************)
(* The cache tables, for every set of prompts, users and models, every     *)
(* similarity and veto, and every bound.                                   *)
(*                                                                         *)
(* TypeOK, ReferencesLive, ReferencesOwn and UniqueKey are inductive       *)
(* together: a delete keeps the references live because it detaches, a     *)
(* store keeps the key unique because it deletes first and takes an id     *)
(* beyond every id in use.                                                 *)
(***************************************************************************)
EXTENDS CacheTables, FiniteSetTheorems, TLAPS

TInv ==
  /\ TypeOK
  /\ ReferencesLive
  /\ ReferencesOwn
  /\ UniqueKey

-----------------------------------------------------------------------------
LEMMA IdsFinite == TypeOK => IsFiniteSet(Ids)
<1> SUFFICES ASSUME TypeOK PROVE IsFiniteSet(Ids)
  OBVIOUS
<1>1. lastId \in Int /\ 1 \in Int /\ Ids \subseteq 1 .. lastId
  BY DEF TypeOK
<1>2. IsFiniteSet(1 .. lastId)
  BY <1>1, FS_Interval
<1> QED BY <1>1, <1>2, FS_Subset

\* What detaching leaves: the rows as they were, without the references.
LEMMA DetachedRows ==
  ASSUME TypeOK, NEW ids
  PROVE  /\ Detached(ids) \in Seq(LogRow)
         /\ DOMAIN Detached(ids) = DOMAIN log
         /\ \A n \in DOMAIN log :
              /\ Detached(ids)[n].user = log[n].user
              /\ Detached(ids)[n].outcome = log[n].outcome
              /\ Detached(ids)[n].matched
                   = IF log[n].matched \in ids THEN NoEntry ELSE log[n].matched
<1>1. /\ DOMAIN log = 1 .. Len(log) /\ Len(log) \in Nat
      /\ \A n \in DOMAIN log : log[n] \in LogRow
  BY DEF TypeOK
<1>2. ASSUME NEW n \in DOMAIN log
      PROVE  /\ Detached(ids)[n] \in LogRow
             /\ Detached(ids)[n].user = log[n].user
             /\ Detached(ids)[n].outcome = log[n].outcome
             /\ Detached(ids)[n].matched
                  = IF log[n].matched \in ids THEN NoEntry ELSE log[n].matched
  <2>1. CASE log[n].matched \in ids
    <3>1. Detached(ids)[n] = [log[n] EXCEPT !.matched = NoEntry]
      BY <2>1 DEF Detached
    <3> QED BY <1>1, <2>1, <3>1 DEF LogRow, NoEntry
  <2>2. CASE log[n].matched \notin ids
    <3>1. Detached(ids)[n] = log[n]
      BY <2>2 DEF Detached
    <3> QED BY <1>1, <2>2, <3>1
  <2> QED BY <2>1, <2>2
<1>3. Detached(ids) = [n \in 1 .. Len(log) |-> Detached(ids)[n]]
  BY <1>1 DEF Detached
<1>4. Detached(ids) \in Seq(LogRow)
  BY <1>1, <1>2, <1>3
<1>5. DOMAIN Detached(ids) = DOMAIN log
  BY DEF Detached
<1> QED BY <1>2, <1>4, <1>5

\* Deleting entries and detaching the references to them keeps the references
\* live and of one user.
LEMMA DeleteKeepsReferences ==
  ASSUME TInv, NEW ids, log' = Detached(ids), Ids \ ids \subseteq Ids',
         \A i \in Ids \ ids : entries'[i].user = entries[i].user,
         \A i \in Ids' : i \in Ids \/ i > lastId
  PROVE  ReferencesLive' /\ ReferencesOwn'
<1>1. /\ DOMAIN log' = DOMAIN log
      /\ \A n \in DOMAIN log :
           /\ log'[n].user = log[n].user
           /\ log'[n].matched
                = IF log[n].matched \in ids THEN NoEntry ELSE log[n].matched
  BY DetachedRows DEF TInv
<1>2. 0 \notin Ids'
  BY DEF TInv, TypeOK
<1>3. \A n \in DOMAIN log : log'[n].matched = NoEntry
                            \/ (log'[n].matched \in Ids \ ids
                                 /\ log'[n].matched = log[n].matched)
  BY <1>1 DEF TInv, ReferencesLive
<1>4. ReferencesLive'
  BY <1>1, <1>3 DEF ReferencesLive
<1>5. ReferencesOwn'
  BY <1>1, <1>2, <1>3 DEF TInv, ReferencesOwn, NoEntry
<1> QED BY <1>4, <1>5

\* Entries that only disappear or change in what is not their key.
LEMMA SameKeysStayUnique ==
  ASSUME UniqueKey, Ids' \subseteq Ids,
         \A i \in Ids' : /\ entries'[i].prompt = entries[i].prompt
                         /\ entries'[i].user = entries[i].user
                         /\ entries'[i].model = entries[i].model
  PROVE  UniqueKey'
BY DEF UniqueKey

-----------------------------------------------------------------------------
LEMMA InitEstablishesTInv == InitTables => TInv
BY DEF InitTables, TInv, TypeOK, ReferencesLive, ReferencesOwn, UniqueKey, Ids

LEMMA LookupPreservesTInv ==
  ASSUME TInv, NEW p \in Prompts, NEW u \in Users, NEW m \in Models,
         Lookup(p, u, m)
  PROVE  TInv'
<1> DEFINE gone == ExactExpired(p, u, m)
           hit == Hit(p, u, m)
<1>1. /\ entries' = [i \in Ids \ gone |->
                       IF i \in hit THEN Served(entries[i]) ELSE entries[i]]
      /\ log' = Detached(gone)
      /\ lastId' = lastId /\ audit' = audit
  BY DEF Lookup
<1> HIDE DEF gone, hit
<1>2. Ids' = Ids \ gone
  BY <1>1 DEF Ids
<1>3. \A i \in Ids' : /\ entries'[i] \in Entry
                      /\ entries'[i].prompt = entries[i].prompt
                      /\ entries'[i].user = entries[i].user
                      /\ entries'[i].model = entries[i].model
  <2> TAKE i \in Ids'
  <2>1. i \in Ids /\ entries[i] \in Entry
    BY <1>2 DEF TInv, TypeOK
  <2>2. CASE i \in hit
    <3>1. entries'[i] = [entries[i] EXCEPT !.hits = entries[i].hits + 1]
      BY <1>1, <1>2, <2>2 DEF Served
    <3> QED BY <2>1, <3>1 DEF Entry
  <2>3. CASE i \notin hit
    <3>1. entries'[i] = entries[i]
      BY <1>1, <1>2, <2>3
    <3> QED BY <2>1, <3>1
  <2> QED BY <2>2, <2>3
<1>4. entries' \in [Ids' -> Entry]
  BY <1>1, <1>2, <1>3
<1>5. TypeOK'
  BY <1>1, <1>2, <1>4, DetachedRows DEF TInv, TypeOK
<1>6. ReferencesLive' /\ ReferencesOwn'
  BY <1>1, <1>2, <1>3, DeleteKeepsReferences
<1>7. UniqueKey'
  BY <1>2, <1>3, SameKeysStayUnique DEF TInv
<1> QED BY <1>5, <1>6, <1>7 DEF TInv

LEMMA StorePreservesTInv ==
  ASSUME TInv, NEW p \in Prompts, NEW u \in Users, NEW m \in Models,
         NEW r \in Responses, Store(p, u, m, r)
  PROVE  TInv'
<1> DEFINE old == SameKey(p, u, m)
           row == [prompt |-> p, user |-> u, model |-> m, response |-> r,
                   left |-> Ttl, hits |-> 0]
<1>1. /\ lastId' = lastId + 1
      /\ entries' = [i \in (Ids \ old) \cup {lastId + 1} |->
                       IF i = lastId + 1 THEN row ELSE entries[i]]
      /\ log' = Detached(old)
      /\ audit' = audit
  BY DEF Store, NewId
<1>2. old = {i \in Ids : /\ entries[i].prompt = p /\ entries[i].user = u
                         /\ entries[i].model = m}
  BY DEF SameKey, Scoped
<1>3. /\ row \in Entry
      /\ row.prompt = p /\ row.user = u /\ row.model = m
  BY TablesAssumption DEF Entry
<1> HIDE DEF old, row
<1>4. Ids' = (Ids \ old) \cup {lastId + 1} /\ lastId + 1 \notin Ids
  BY <1>1 DEF Ids, TInv, TypeOK
<1>5. entries'[lastId + 1] = row /\ \A i \in Ids \ old : entries'[i] = entries[i]
  BY <1>1, <1>4
<1>6. entries' \in [Ids' -> Entry]
  BY <1>1, <1>3, <1>4 DEF TInv, TypeOK
<1>7. TypeOK'
  <2>1. lastId' \in Nat /\ Ids' \subseteq 1 .. lastId'
    BY <1>1, <1>4 DEF TInv, TypeOK
  <2>2. log' \in Seq(LogRow) /\ audit' \in Seq(AuditRow)
    BY <1>1, DetachedRows DEF TInv, TypeOK
  <2> QED BY <1>6, <2>1, <2>2 DEF TypeOK
<1>8. ReferencesLive' /\ ReferencesOwn'
  <2>1. \A i \in Ids' : i \in Ids \/ i > lastId
    BY <1>4 DEF TInv, TypeOK
  <2> QED BY <1>1, <1>4, <1>5, <2>1, DeleteKeepsReferences
<1>9. UniqueKey'
  <2>1. \A i \in Ids \ old : ~(/\ entries[i].prompt = p
                                /\ entries[i].user = u
                                /\ entries[i].model = m)
    BY <1>2
  <2>2. \A i, j \in Ids \ old :
          /\ entries'[i].prompt = entries'[j].prompt
          /\ entries'[i].user = entries'[j].user
          /\ entries'[i].model = entries'[j].model
          => i = j
    BY <1>5 DEF TInv, UniqueKey
  <2>3. \A i \in Ids \ old : ~(/\ entries'[i].prompt = p
                                /\ entries'[i].user = u
                                /\ entries'[i].model = m)
    BY <1>5, <2>1
  <2> QED BY <1>3, <1>4, <1>5, <2>2, <2>3 DEF UniqueKey
<1> QED BY <1>7, <1>8, <1>9 DEF TInv

LEMMA DeletePreservesTInv ==
  ASSUME TInv, NEW ids, Delete(ids), lastId' = lastId,
         audit' \in Seq(AuditRow)
  PROVE  TInv'
<1>1. Ids' = Ids \ ids /\ \A i \in Ids' : entries'[i] = entries[i]
  BY DEF Delete, Without, Ids
<1>2. entries' \in [Ids' -> Entry]
  BY <1>1 DEF Delete, Without, Ids, TInv, TypeOK
<1>3. TypeOK'
  BY <1>1, <1>2, DetachedRows DEF Delete, TInv, TypeOK
<1>4. ReferencesLive' /\ ReferencesOwn'
  BY <1>1, DeleteKeepsReferences DEF Delete
<1>5. UniqueKey'
  BY <1>1, SameKeysStayUnique DEF TInv
<1> QED BY <1>3, <1>4, <1>5 DEF TInv

LEMMA PurgePreservesTInv ==
  ASSUME TInv, NEW id \in Nat, Purge(id)
  PROVE  TInv'
<1>1. Cardinality({id} \cap Ids) \in Nat
  BY IdsFinite, FS_Intersection, FS_CardinalityType DEF TInv
<1>2. audit' \in Seq(AuditRow)
  BY <1>1 DEF Purge, TInv, TypeOK, AuditRow
<1> QED BY <1>2, DeletePreservesTInv DEF Purge

LEMMA PurgeAllPreservesTInv == TInv /\ PurgeAll => TInv'
<1> SUFFICES ASSUME TInv, PurgeAll PROVE TInv'
  OBVIOUS
<1>1. Cardinality(Ids) \in Nat
  BY IdsFinite, FS_CardinalityType DEF TInv
<1>2. audit' \in Seq(AuditRow)
  BY <1>1 DEF PurgeAll, TInv, TypeOK, AuditRow, NoEntry
<1> QED BY <1>2, DeletePreservesTInv DEF PurgeAll

\* A row may refer to an entry of its own user, or to none.
LEMMA LogRequestPreservesTInv ==
  ASSUME TInv, NEW o \in Outcomes, NEW u \in Users, NEW i \in Ids \cup {NoEntry},
         i \in Ids => entries[i].user = u, LogRequest(o, u, i)
  PROVE  TInv'
<1> DEFINE row == [outcome |-> o, user |-> u, matched |-> i]
<1>1. /\ log' = Append(log, row)
      /\ entries' = entries /\ lastId' = lastId /\ audit' = audit
  BY DEF LogRequest
<1>2. row \in LogRow /\ row.user = u /\ row.matched = i
  BY DEF TInv, TypeOK, LogRow, NoEntry
<1> HIDE DEF row
<1>3. /\ log \in Seq(LogRow) /\ log' \in Seq(LogRow)
      /\ DOMAIN log' = (DOMAIN log) \cup {Len(log) + 1}
      /\ \A n \in DOMAIN log : log'[n] = log[n]
      /\ log'[Len(log) + 1] = row
  BY <1>1, <1>2 DEF TInv, TypeOK
<1>4. TypeOK' /\ UniqueKey'
  BY <1>1, <1>3 DEF TInv, TypeOK, UniqueKey, Ids
<1>5. ReferencesLive' /\ ReferencesOwn'
  BY <1>1, <1>2, <1>3 DEF TInv, ReferencesLive, ReferencesOwn, Ids
<1> QED BY <1>4, <1>5 DEF TInv

LEMMA AgePreservesTInv == TInv /\ Age => TInv'
<1> SUFFICES ASSUME TInv, Age PROVE TInv'
  OBVIOUS
<1>1. /\ entries' = [i \in Ids |-> [entries[i] EXCEPT !.left = Aged(@)]]
      /\ lastId' = lastId /\ log' = log /\ audit' = audit
  BY DEF Age
<1>2. Ids' = Ids
  BY <1>1 DEF Ids
<1>3. \A i \in Ids : /\ entries'[i] \in Entry
                     /\ entries'[i].prompt = entries[i].prompt
                     /\ entries'[i].user = entries[i].user
                     /\ entries'[i].model = entries[i].model
  <2> TAKE i \in Ids
  <2>1. entries[i] \in Entry
    BY DEF TInv, TypeOK
  <2>2. Aged(entries[i].left) \in (0 .. Ttl) \cup {Expired}
    BY <2>1, TablesAssumption DEF Aged, Entry, Expired
  <2> QED BY <1>1, <2>1, <2>2 DEF Entry
<1>4. TypeOK'
  BY <1>1, <1>2, <1>3 DEF TInv, TypeOK
<1>5. ReferencesLive' /\ ReferencesOwn'
  BY <1>1, <1>2, <1>3 DEF TInv, ReferencesLive, ReferencesOwn
<1>6. UniqueKey'
  BY <1>2, <1>3, SameKeysStayUnique DEF TInv
<1> QED BY <1>4, <1>5, <1>6 DEF TInv

LEMMA StutterPreservesTInv == TInv /\ UNCHANGED tables => TInv'
BY DEF tables, TInv, TypeOK, ReferencesLive, ReferencesOwn, UniqueKey, Ids

LEMMA NextPreservesTInv == TInv /\ [NextTables]_tables => TInv'
<1> SUFFICES ASSUME TInv, [NextTables]_tables PROVE TInv'
  OBVIOUS
<1>1. ASSUME NEW id \in 1 .. MaxEntries, Purge(id) PROVE TInv'
  BY <1>1, PurgePreservesTInv, TablesAssumption
<1>2. ASSUME NEW p \in Prompts, NEW u \in Users, NEW m \in Models,
             Lookup(p, u, m)
      PROVE  TInv'
  BY <1>2, LookupPreservesTInv
<1>3. ASSUME NEW p \in Prompts, NEW u \in Users, NEW m \in Models,
             NEW r \in Responses, Store(p, u, m, r)
      PROVE  TInv'
  BY <1>3, StorePreservesTInv
<1>4. ASSUME NEW o \in {"HIT", "MISS"}, NEW i \in Ids,
             LogRequest(o, entries[i].user, i)
      PROVE  TInv'
  <2>1. o \in Outcomes /\ entries[i].user \in Users /\ i \in Ids \cup {NoEntry}
    BY DEF Outcomes, TInv, TypeOK, Entry
  <2> QED BY <1>4, <2>1, LogRequestPreservesTInv
<1>5. ASSUME NEW o \in {"BYPASS", "ERROR"}, NEW u \in Users,
             LogRequest(o, u, NoEntry)
      PROVE  TInv'
  <2>1. o \in Outcomes /\ NoEntry \notin Ids
    BY DEF Outcomes, TInv, TypeOK, NoEntry
  <2> QED BY <1>5, <2>1, LogRequestPreservesTInv
<1> QED
  BY <1>1, <1>2, <1>3, <1>4, <1>5, AgePreservesTInv, PurgeAllPreservesTInv,
     StutterPreservesTInv
  DEF NextTables

-----------------------------------------------------------------------------
(* From the invariant to what a lookup serves and what a step may lose.    *)

\* Of two distinct candidates at most one comes before the other.
LEMMA BeatsIsAsymmetric ==
  ASSUME TypeOK, NEW p \in Prompts, NEW i \in Ids, NEW j \in Ids, Beats(p, i, j)
  PROVE  ~Beats(p, j, i)
<1>1. i \in Int /\ j \in Int
  BY DEF TypeOK
<1>2. /\ Similarity(p, entries[i].prompt) \in Int
      /\ Similarity(p, entries[j].prompt) \in Int
  BY TablesAssumption DEF TypeOK, Entry, Similarity
<1> QED BY <1>1, <1>2 DEF Beats

LEMMA InvariantGivesLookupSound == TInv => LookupSound
<1> SUFFICES ASSUME TInv, NEW p \in Prompts, NEW u \in Users, NEW m \in Models
             PROVE  /\ \A i, j \in Hit(p, u, m) : i = j
                    /\ \A i \in Hit(p, u, m) :
                         /\ entries[i].user = u /\ entries[i].model = m
                         /\ ~PastExpiry(i)
                         /\ \/ entries[i].prompt = p
                            \/ /\ entries[i].left > 0
                               /\ Similarity(p, entries[i].prompt) >= Threshold
                               /\ <<p, entries[i].prompt>> \notin Vetoed
  BY DEF LookupSound
<1>1. CASE ExactHit(p, u, m) # {}
  <2>1. Hit(p, u, m) = ExactHit(p, u, m)
    BY <1>1 DEF Hit
  <2>2. \A i \in ExactHit(p, u, m) :
          /\ i \in Ids /\ entries[i].prompt = p
          /\ entries[i].user = u /\ entries[i].model = m
          /\ ~PastExpiry(i)
    BY DEF ExactHit, SameKey, Scoped
  <2> QED BY <2>1, <2>2 DEF TInv, UniqueKey
<1>2. CASE ExactHit(p, u, m) = {}
  <2>1. Hit(p, u, m) = SemanticHit(p, u, m)
    BY <1>2 DEF Hit
  <2>2. \A i \in SemanticHit(p, u, m) :
          /\ i \in Candidates(p, u, m)
          /\ <<p, entries[i].prompt>> \notin Vetoed
          /\ \A j \in Candidates(p, u, m) \ {i} : Beats(p, i, j)
    BY DEF SemanticHit, Nearest
  <2>3. \A i \in Candidates(p, u, m) :
          /\ i \in Ids /\ entries[i].user = u /\ entries[i].model = m
          /\ entries[i].left > 0
          /\ Similarity(p, entries[i].prompt) >= Threshold
    BY DEF Candidates, Scoped
  <2>4. \A i, j \in SemanticHit(p, u, m) : i = j
    BY <2>2, <2>3, BeatsIsAsymmetric DEF TInv
  <2>5. \A i \in Ids : entries[i].left > 0 => ~PastExpiry(i)
    BY DEF PastExpiry, Expired
  <2> QED BY <2>1, <2>2, <2>3, <2>4, <2>5
<1> QED BY <1>1, <1>2

-----------------------------------------------------------------------------
\* The inductive invariant holds in every reachable state.
THEOREM TablesInvariance == TablesSpec => []TInv
BY InitEstablishesTInv, NextPreservesTInv, PTL DEF TablesSpec

\* Entries, log rows and audit rows keep their types, and every id in use has
\* been given out by the AUTOINCREMENT counter.
THEOREM TablesTyped == TablesSpec => []TypeOK
<1>1. TInv => TypeOK
  BY DEF TInv
<1> QED BY <1>1, TablesInvariance, PTL

\* No log row ever refers to an entry that is gone.
THEOREM ReferencesStayLive == TablesSpec => []ReferencesLive
<1>1. TInv => ReferencesLive
  BY DEF TInv
<1> QED BY <1>1, TablesInvariance, PTL

\* No log row ever refers to another user's entry.
THEOREM ReferencesStayOwn == TablesSpec => []ReferencesOwn
<1>1. TInv => ReferencesOwn
  BY DEF TInv
<1> QED BY <1>1, TablesInvariance, PTL

\* There is never a second row for a prompt, user and model.
THEOREM KeysStayUnique == TablesSpec => []UniqueKey
<1>1. TInv => UniqueKey
  BY DEF TInv
<1> QED BY <1>1, TablesInvariance, PTL

\* Whatever a lookup could serve, at any time, belongs to the caller, was made
\* by the model asked for, has not expired, and answers the same prompt or one
\* close enough that the veto lets through.
THEOREM LookupsAreSound == TablesSpec => []LookupSound
BY InvariantGivesLookupSound, TablesInvariance, PTL

\* What was purged by its id is gone, and its id has been given out.
AuditSound ==
  \A n \in DOMAIN audit :
    audit[n].count > 0 => audit[n].entry \notin Ids /\ audit[n].entry <= lastId

LEMMA NextPreservesAuditSound ==
  ASSUME TInv, AuditSound, [NextTables]_tables
  PROVE  AuditSound'
<1>1. /\ lastId \in Nat /\ audit \in Seq(AuditRow) /\ 0 \notin Ids
      /\ \A i \in Ids : i \in Nat /\ i <= lastId
  BY DEF TInv, TypeOK
<1>2. \A n \in DOMAIN audit : audit[n].entry \in Nat
  <2>1. \A n \in DOMAIN audit : audit[n] \in AuditRow
    BY <1>1
  <2> QED BY <2>1 DEF AuditRow
<1>3. ASSUME audit' = audit, lastId' = lastId, Ids' \subseteq Ids
      PROVE  AuditSound'
  BY <1>3 DEF AuditSound
<1>4. ASSUME NEW p \in Prompts, NEW u \in Users, NEW m \in Models,
             Lookup(p, u, m)
      PROVE  AuditSound'
  BY <1>3, <1>4 DEF Lookup, Ids
<1>5. ASSUME NEW p \in Prompts, NEW u \in Users, NEW m \in Models,
             NEW r \in Responses, Store(p, u, m, r)
      PROVE  AuditSound'
  <2>1. /\ Ids' \subseteq Ids \cup {lastId + 1}
        /\ lastId' = lastId + 1 /\ audit' = audit
    BY <1>5 DEF Store, NewId, Ids
  <2> QED BY <1>1, <1>2, <2>1 DEF AuditSound
<1>6. ASSUME NEW ids, NEW count \in Nat, NEW entry \in Nat,
             Delete(ids), lastId' = lastId,
             audit' = Append(audit, [count |-> count, entry |-> entry]),
             count > 0 => entry \notin Ids \ ids /\ entry <= lastId
      PROVE  AuditSound'
  <2>1. Ids' = Ids \ ids
    BY <1>6 DEF Delete, Without, Ids
  <2>2. [count |-> count, entry |-> entry] \in AuditRow
    BY DEF AuditRow
  <2>3. /\ DOMAIN audit' = DOMAIN audit \cup {Len(audit) + 1}
        /\ \A n \in DOMAIN audit : audit'[n] = audit[n]
        /\ audit'[Len(audit) + 1].count = count
        /\ audit'[Len(audit) + 1].entry = entry
    BY <1>1, <1>6, <2>2
  <2> QED BY <1>6, <2>1, <2>3 DEF AuditSound
<1>7. ASSUME NEW id \in 1 .. MaxEntries, Purge(id) PROVE AuditSound'
  <2>1. Cardinality({id} \cap Ids) \in Nat
    BY IdsFinite, FS_Intersection, FS_CardinalityType DEF TInv
  <2>2. id \in Nat
    BY TablesAssumption
  <2>3. Cardinality({id} \cap Ids) > 0 => id \in Ids
    <3>1. id \notin Ids => {id} \cap Ids = {}
      OBVIOUS
    <3> QED BY <3>1, FS_EmptySet
  <2>4. Cardinality({id} \cap Ids) > 0 => id \notin Ids \ {id} /\ id <= lastId
    BY <1>1, <2>3
  <2>5. /\ Delete({id}) /\ lastId' = lastId
        /\ audit' = Append(audit, [count |-> Cardinality({id} \cap Ids),
                                   entry |-> id])
    BY <1>7 DEF Purge
  <2> QED BY <1>6, <2>1, <2>2, <2>4, <2>5
<1>8. CASE PurgeAll
  <2>1. Cardinality(Ids) \in Nat
    BY IdsFinite, FS_CardinalityType DEF TInv
  <2>2. /\ Delete(Ids) /\ lastId' = lastId
        /\ audit' = Append(audit, [count |-> Cardinality(Ids), entry |-> 0])
    BY <1>8 DEF PurgeAll, NoEntry
  <2> QED BY <1>1, <1>6, <2>1, <2>2
<1>9. CASE Age
  BY <1>3, <1>9 DEF Age, Ids
<1>10. ASSUME NEW o, NEW u, NEW j, LogRequest(o, u, j) PROVE AuditSound'
  BY <1>3, <1>10 DEF LogRequest, Ids
<1>11. CASE UNCHANGED tables
  BY <1>3, <1>11 DEF tables, Ids
<1> QED
  BY <1>4, <1>5, <1>7, <1>8, <1>9, <1>10, <1>11 DEF NextTables

\* Whatever is stored after a purge, the id that was purged names no entry
\* again.
THEOREM PurgesAreForGood == TablesSpec => []PurgedForGood
<1>1. InitTables => AuditSound
  BY DEF InitTables, AuditSound
<1>2. TInv /\ AuditSound /\ [NextTables]_tables => AuditSound'
  BY NextPreservesAuditSound
<1>3. AuditSound => PurgedForGood
  BY DEF AuditSound, PurgedForGood
<1> QED BY <1>1, <1>2, <1>3, TablesInvariance, PTL DEF TablesSpec

\* An entry never disappears unless it had expired, was replaced by the step, or
\* was counted in an audit row the step wrote.
THEOREM NothingIsLostSilently == TablesSpec => NoSilentLoss
<1>1. TInv /\ [NextTables]_tables => [LossAccounted]_tables
  <2> SUFFICES ASSUME TInv, [NextTables]_tables PROVE LossAccounted
    OBVIOUS
  <2>1. ASSUME NEW p \in Prompts, NEW u \in Users, NEW m \in Models,
               Lookup(p, u, m)
        PROVE  LossAccounted
    <3>1. Ids \ Ids' \subseteq ExactExpired(p, u, m)
      BY <2>1 DEF Lookup, Ids
    <3>2. \A i \in ExactExpired(p, u, m) : PastExpiry(i)
      BY DEF ExactExpired
    <3> QED BY <3>1, <3>2 DEF LossAccounted
  <2>2. ASSUME NEW p \in Prompts, NEW u \in Users, NEW m \in Models,
               NEW r \in Responses, Store(p, u, m, r)
        PROVE  LossAccounted
    <3>1. /\ lastId + 1 \in Ids'
          /\ entries'[lastId + 1].prompt = p
          /\ entries'[lastId + 1].user = u
          /\ entries'[lastId + 1].model = m
      BY <2>2 DEF Store, NewId, Ids
    <3>2. lastId + 1 \notin Ids
      BY DEF TInv, TypeOK
    <3>3. Ids \ Ids' \subseteq SameKey(p, u, m)
      BY <2>2 DEF Store, Ids
    <3>4. \A i \in SameKey(p, u, m) : /\ entries[i].prompt = p
                                      /\ entries[i].user = u
                                      /\ entries[i].model = m
      BY DEF SameKey, Scoped
    <3>5. \A i \in Ids \ Ids' : Replaced(i)
      BY <3>1, <3>2, <3>3, <3>4 DEF Replaced
    <3> QED BY <3>5 DEF LossAccounted
  <2>3. ASSUME NEW ids, NEW entry \in Nat, Delete(ids),
               audit' = Append(audit, [count |-> Cardinality(ids \cap Ids),
                                       entry |-> entry])
        PROVE  LossAccounted
    <3>1. Ids \ Ids' = ids \cap Ids
      BY <2>3 DEF Delete, Without, Ids
    <3>2. Cardinality(Ids \ Ids') \in Nat
      BY <3>1, IdsFinite, FS_Intersection, FS_CardinalityType DEF TInv
    <3>3. [count |-> Cardinality(Ids \ Ids'), entry |-> entry] \in AuditRow
      BY <3>2 DEF AuditRow
    <3>4. audit \in Seq(AuditRow)
      BY DEF TInv, TypeOK
    <3>5. audit' = Append(audit, [count |-> Cardinality(Ids \ Ids'), entry |-> entry])
      BY <2>3, <3>1
    <3>6. /\ Len(audit') = Len(audit) + 1
          /\ audit'[Len(audit')] = [count |-> Cardinality(Ids \ Ids'), entry |-> entry]
      BY <3>3, <3>4, <3>5
    <3> QED BY <3>6 DEF LossAccounted, Audited
  <2>4. ASSUME NEW id \in 1 .. MaxEntries, Purge(id) PROVE LossAccounted
    BY <2>4, <2>3, TablesAssumption DEF Purge
  <2>5. CASE PurgeAll
    <3>1. Ids = Ids \cap Ids
      OBVIOUS
    <3> QED BY <2>5, <2>3, <3>1 DEF PurgeAll, NoEntry
  <2>6. CASE Age
    BY <2>6 DEF Age, Ids, LossAccounted
  <2>7. ASSUME NEW o, NEW u, NEW j, LogRequest(o, u, j) PROVE LossAccounted
    BY <2>7 DEF LogRequest, Ids, LossAccounted
  <2>8. CASE UNCHANGED tables
    BY <2>8 DEF tables, Ids, LossAccounted
  <2> QED
    BY <2>1, <2>2, <2>4, <2>5, <2>6, <2>7, <2>8 DEF NextTables
<1> QED BY <1>1, TablesInvariance, PTL DEF TablesSpec, NoSilentLoss

=============================================================================
