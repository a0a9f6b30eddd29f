--------------------------- MODULE ChatRefinement ---------------------------
(* The handler, with its tables and locks, implements AnswerCache.          *)
EXTENDS ChatProxy

\* Whose answer will do for whom: the same user and model, and the same prompt
\* or one close enough and let through by the veto.
Suits ==
  {ab \in Asks \X Asks :
     LET a == ab[1]
         b == ab[2]
     IN  /\ a.user = b.user /\ a.model = b.model
         /\ \/ a.prompt = b.prompt
            \/ /\ Similarity(a.prompt, b.prompt) >= Threshold
               /\ <<a.prompt, b.prompt>> \notin Vetoed}

Progress(r) ==
  CASE pc[r] = "new" -> "idle"
    [] pc[r] \in {"waiting", "locked", "forwarding", "bypassing"} -> "pending"
    [] pc[r] \in {"serving", "stored"} -> "holding"
    [] pc[r] = "lost" -> "lost"
    [] pc[r] = "done" -> IF reply[r] \in {"HIT", "MISS", "BYPASS"}
                         THEN "answered" ELSE "failed"

AC == INSTANCE AnswerCache WITH
  Questions <- Asks,
  Fits <- Suits,
  Private <- {a \in Asks : a.bypass},
  NoAnswer <- None,
  question <- ask,
  state <- [r \in Requests |-> Progress(r)],
  answer <- [r \in Requests |->
               IF body[r] = None THEN None ELSE body[r].origin],
  known <- {entries[i].response.origin : i \in {i \in Ids : ~PastExpiry(i)}}

\* Whatever the order of lookups, upstream answers, purges, expiry and kills,
\* an answer that is given was obtained for this request or was, at the moment
\* it was taken from the cache, still known and a fitting one of the same user
\* and model; an answer that was purged, replaced or has expired never serves
\* again, also not through a request that waited for a lock meanwhile; and a
\* bypass neither takes from the cache nor leaves anything in it.
AnswerCacheImplemented == AC!Spec

=============================================================================
