--------------------------- MODULE SemanticLookup ---------------------------
(***************************************************************************)
(* _semantic_lookup: the scan of the stored embeddings, row by row, and    *)
(* the veto of what it ends with.  No other coroutine runs meanwhile, so   *)
(* the rows it has fetched stay what they are.                             *)
(*                                                                         *)
(* A row is what the scan sees of a cache entry: its text, and whether its *)
(* blob is an embedding (of the right length, finite and not zero).        *)
(***************************************************************************)
EXTENDS SemanticVeto

CONSTANTS
  Texts,      \* what prompts and entries may say
  Score,      \* cosine similarity of two texts, scaled to integers
  Opposite,   \* the lowest cosine, -1.0, on that scale
  Thresholds  \* values SIMILARITY_THRESHOLD may have, on that scale

ASSUME LookupAssumption ==
  /\ Texts # {}
  /\ \A t \in Texts : t \in Seq(Lexeme)
  /\ Score \in [Texts \X Texts -> Int]
  /\ Opposite \in Int
  /\ \A pair \in Texts \X Texts : Score[pair] >= Opposite
  /\ Thresholds \subseteq {t \in Int : t > Opposite}

VARIABLES
  threshold,  \* get_settings().similarity_threshold
  order,      \* the process's order of the antonym pairs
  stage,      \* "idle", or what the process is doing
  query,      \* prompt_text
  rows,       \* the caller's unexpired rows for the model, in rowid order
  next,       \* the row the loop has come to
  best_score, best_entry,
  answer      \* what the lookup returns

process == <<threshold, order>>
scan == <<query, rows, next, best_score, best_entry, answer>>

NoRow == 0

Row == [text : Texts, sound : BOOLEAN]

TypeOKLookup ==
  /\ threshold \in Thresholds
  /\ order \in Orders
  /\ query \in Texts
  /\ rows \in Seq(Row)
  /\ next \in 1 .. Len(rows) + 1
  /\ best_score \in Int
  /\ {best_entry, answer} \subseteq {NoRow} \cup DOMAIN rows

-----------------------------------------------------------------------------
AnyText == CHOOSE t \in Texts : TRUE

InitLookup ==
  /\ threshold \in Thresholds
  /\ order \in Orders
  /\ stage = "idle"
  /\ query = AnyText
  /\ rows = <<>>
  /\ next = 1
  /\ best_score = Opposite
  /\ best_entry = NoRow
  /\ answer = NoRow

\* The locals of the call are gone.
EndLookup ==
  /\ stage' = "idle"
  /\ query' = AnyText
  /\ rows' = <<>>
  /\ next' = 1
  /\ best_score' = Opposite
  /\ best_entry' = NoRow
  /\ answer' = NoRow

\* The prompt is embedded and the rows are fetched.
Fetch(q, table) ==
  /\ stage = "idle"
  /\ stage' = "scanning"
  /\ query' = q
  /\ rows' = table
  /\ UNCHANGED <<process, next, best_score, best_entry, answer>>

Scored(row) == Score[<<query, row.text>>]

\* Rows without content words, and rows whose blob is no embedding.
Skipped(row) == ContentWords(row.text) = {} \/ ~row.sound

\* Fault: a later row of the same score takes the place of an earlier one.
ImprovesOrTies(row) == ~Skipped(row) /\ Scored(row) >= best_score

Improves(row) == ~Skipped(row) /\ Scored(row) > best_score

CompareRow ==
  /\ stage = "scanning" /\ next \in DOMAIN rows
  /\ IF Improves(rows[next])
     THEN /\ best_score' = Scored(rows[next])
          /\ best_entry' = IF best_score' >= threshold THEN next ELSE best_entry
     ELSE UNCHANGED <<best_score, best_entry>>
  /\ next' = next + 1
  /\ UNCHANGED <<process, stage, query, rows, answer>>

\* Only the best entry is put to the veto.
Decide ==
  /\ stage = "scanning" /\ next \notin DOMAIN rows
  /\ stage' = "answered"
  /\ answer' = IF \/ best_entry = NoRow
                  \/ SemanticVeto(query, rows[best_entry].text, order)
               THEN NoRow ELSE best_entry
  /\ UNCHANGED <<process, query, rows, next, best_score, best_entry>>

Return ==
  /\ stage = "answered"
  /\ EndLookup
  /\ UNCHANGED process

-----------------------------------------------------------------------------
(* Properties.                                                             *)

\* The tables as CacheTables sees them while the scan runs: one user, one
\* model, the sound rows, at threshold th and with the veto of order o.
Tables(th, o) == INSTANCE CacheTables WITH
  Prompts <- Texts, Users <- {"user"}, Models <- {"model"}, Responses <- {"r"},
  Ttl <- 1, Threshold <- th,
  Vetoed <- {qc \in Texts \X Texts : SemanticVeto(qc[1], qc[2], o)},
  Contentless <- {t \in Texts : ContentWords(t) = {}},
  MaxEntries <- 0, MaxHits <- 0, MaxLog <- 0, MaxPurges <- 0,
  entries <- [i \in {i \in DOMAIN rows : rows[i].sound} |->
                [prompt |-> rows[i].text, user |-> "user", model |-> "model",
                 response |-> "r", left |-> 1, hits |-> 0]],
  lastId <- Len(rows), log <- <<>>, audit <- <<>>

\* The loop over the rows, which keeps a running best and skips what it cannot
\* compare, ends with what CacheTables!SemanticHit says of the table as a
\* whole: the nearest sound row that has content and reaches the threshold,
\* the earliest of equals, unless that one is vetoed; a row that is skipped
\* or is no better never changes what the others would have given.
ScanServesNearest ==
  stage = "answered" =>
    \A th \in Thresholds, o \in Orders :
      th = threshold /\ o = order =>
        {answer} \ {NoRow} = Tables(th, o)!SemanticHit(query, "user", "model")

\* A pair of texts is vetoed whichever of them is asked first and whatever
\* hash seed the process was started with (tuple(pair) in
\* antonym_swapped_equal, the two directions of typo_bridged), and no text is
\* vetoed by itself: a prompt that is stored under either of two texts is
\* refused, or served, alike before and after a restart.
VetoStable ==
  stage = "scanning" /\ next \in DOMAIN rows =>
    LET text == rows[next].text
        refused == SemanticVeto(query, text, order)
    IN  /\ \A o \in Orders : SemanticVeto(text, query, o) = refused
        /\ ~SemanticVeto(text, text, order)

IsPrefixOf(a, b) == Len(a) <= Len(b) /\ SubSeq(b, 1, Len(a)) = a

\* What b says beyond a.
Rest(a, b) == SubSeq(b, Len(a) + 1, Len(b))

\* b goes on where a ends, with a token of its own: "the capital of France's
\* history" does not go on from "the capital of France".
Continues(a, b) ==
  IsPrefixOf(a, b) /\ (Rest(a, b) # <<>> => ~Attached(Rest(a, b)[1]))

\* The numbers b adds are no second evidence against those of a.
NumbersAgree(a, b) ==
  NumberTokens(a) = {} \/ NumberTokens(Rest(a, b)) \subseteq NumberTokens(a)

\* "Every signal requires evidence on BOTH sides (single-side absence can never
\* veto)", semantic_veto: whatever a text adds to another that it continues,
\* entities, facts, numbers where there were none, other words, it is not
\* refused for it; only a negation, or a number beside another, is a reason.
ContinuationSpared ==
  stage = "scanning" /\ next \in DOMAIN rows =>
    LET text == rows[next].text
    IN  \A a, b \in {query, text} :
          /\ {a, b} = {query, text}
          /\ Continues(a, b)
          /\ HasNegation(Rest(a, b)) => HasNegation(a)
          /\ NumbersAgree(a, b)
          => ~SemanticVeto(query, text, order)

=============================================================================
