-------------------------- MODULE CalibrationProofs --------------------------
(***************************************************************************)
(* The semantic tier, for all texts, similarities, tables and thresholds:  *)
(* what the scan ends with, and what the veto makes of it; and auto-tune:  *)
(* it stays within its types for all pairs and grids, and recommends what  *)
(* it should for all grids and so few pairs as there are.                  *)
(*                                                                         *)
(* Neither is inductive alone.  The scan must be known to have the best of *)
(* the rows it has passed (BestSoFar), and a sweep to have one result that *)
(* is the first of the best (FirstOfBest): that this is so for every       *)
(* number of results is shown along the steps that append them.  The pick  *)
(* is the best of rounded F1 (TuneInv); rounding keeps the order of        *)
(* fractions, and keeps those apart whose denominators are small.          *)
(***************************************************************************)
EXTENDS Calibration, FiniteSetTheorems, SequenceTheorems, WellFoundedInduction, TLAPS

-----------------------------------------------------------------------------
(* The veto, for every lexicon, every hash order and every two texts: it   *)
(* is symmetric, does not depend on the order, and refuses no text for     *)
(* itself.                                                                 *)

\* The counts of Counter are numbers, a text having finitely many tokens.
LEMMA CountIsNat ==
  ASSUME NEW t \in Seq(Lexeme), NEW w
  PROVE  Count(t, w) \in Nat
<1>1. DOMAIN t = 1 .. Len(t) /\ Len(t) \in Int /\ 1 \in Int
  OBVIOUS
<1>2. IsFiniteSet(DOMAIN t)
  BY <1>1, FS_Interval
<1>3. {i \in WordsAt(t) : t[i].word = w} \subseteq DOMAIN t
  BY DEF WordsAt
<1> QED BY <1>2, <1>3, FS_Subset, FS_CardinalityType DEF Count

LEMMA SwapMirrored ==
  ASSUME NEW a, NEW b, NEW x, NEW y, SwapsTo(a, b, x, y)
  PROVE  SwapsTo(b, a, y, x)
BY DEF SwapsTo

\* A pair is swapped one way or the other, whichever word comes first.
LEMMA AntonymsMirrored ==
  ASSUME LexiconAssumption, NEW a, NEW b, NEW o \in Orders, NEW n \in Orders,
         AntonymSwappedEqual(a, b, o)
  PROVE  AntonymSwappedEqual(b, a, n)
<1>1. PICK pair \in ANTONYM_PAIRS : \E y \in pair \ {o[pair]} :
        SwapsTo(a, b, o[pair], y) \/ SwapsTo(b, a, o[pair], y)
  BY DEF AntonymSwappedEqual
<1>2. PICK y \in pair \ {o[pair]} :
        SwapsTo(a, b, o[pair], y) \/ SwapsTo(b, a, o[pair], y)
  BY <1>1
<1>3. o[pair] \in pair /\ n[pair] \in pair
  BY DEF Orders
<1>4. \/ n[pair] = o[pair]
      \/ n[pair] = y /\ o[pair] \in pair \ {n[pair]}
  BY <1>2, <1>3 DEF LexiconAssumption
<1>5. CASE n[pair] = o[pair]
  BY <1>2, <1>5 DEF AntonymSwappedEqual
<1>6. CASE n[pair] = y /\ o[pair] \in pair \ {n[pair]}
  <2>1. SwapsTo(b, a, n[pair], o[pair]) \/ SwapsTo(a, b, n[pair], o[pair])
    BY <1>2, <1>6, SwapMirrored
  <2> QED BY <1>6, <2>1 DEF AntonymSwappedEqual
<1> QED BY <1>4, <1>5, <1>6

\* The other signals, each by the symmetry of union and intersection.
LEMMA SignalsMirrored ==
  ASSUME NEW q, NEW c
  PROVE  /\ EntitySwap(q, c) => EntitySwap(c, q)
         /\ FactSwap(q, c) => FactSwap(c, q)
         /\ TemplateCollision(q, c) => TemplateCollision(c, q)
         /\ NegationMismatch(q, c) => NegationMismatch(c, q)
         /\ NumberMismatch(q, c) => NumberMismatch(c, q)
<1>1. \A A, B : A \cap B = B \cap A /\ A \cup B = B \cup A
  OBVIOUS
<1>2. \A A, B : Disjoint(A, B) => Disjoint(B, A)
  BY DEF Disjoint
<1>3. \A A, B, n, d : AtLeast(A, B, n, d) => AtLeast(B, A, n, d)
  BY <1>1 DEF AtLeast
<1>4. \A A, B, n, d : AtMost(A, B, n, d) => AtMost(B, A, n, d)
  BY <1>1 DEF AtMost
<1>5. EntitySwap(q, c) => EntitySwap(c, q)
  BY <1>2, <1>3 DEF EntitySwap
<1>6. FactSwap(q, c) => FactSwap(c, q)
  BY <1>2 DEF FactSwap
<1>7. TypoBridged(c, q) => TypoBridged(q, c)
  BY DEF TypoBridged
<1>8. TemplateCollision(q, c) => TemplateCollision(c, q)
  BY <1>1, <1>3, <1>4, <1>7 DEF TemplateCollision
<1>9. NegationMismatch(q, c) => NegationMismatch(c, q)
  BY DEF NegationMismatch
<1>10. NumberMismatch(q, c) => NumberMismatch(c, q)
  BY DEF NumberMismatch
<1> QED BY <1>5, <1>6, <1>8, <1>9, <1>10

\* Two texts get one verdict, whichever is asked first and in whatever order
\* the process unpacks the antonym pairs (semantic_veto,
\* antonym_swapped_equal, typo_bridged).
THEOREM VetoSymmetric ==
  ASSUME LexiconAssumption, NEW q, NEW c, NEW o \in Orders, NEW n \in Orders
  PROVE  SemanticVeto(q, c, o) <=> SemanticVeto(c, q, n)
<1>1. SemanticVeto(q, c, o) => SemanticVeto(c, q, n)
  BY SignalsMirrored, AntonymsMirrored DEF SemanticVeto
<1>2. SemanticVeto(c, q, n) => SemanticVeto(q, c, o)
  BY SignalsMirrored, AntonymsMirrored DEF SemanticVeto
<1> QED BY <1>1, <1>2

\* No text is refused for itself.
THEOREM VetoIrreflexive ==
  ASSUME NEW t \in Seq(Lexeme), NEW o
  PROVE  ~SemanticVeto(t, t, o)
<1>1. ~EntitySwap(t, t) /\ ~FactSwap(t, t)
  BY DEF EntitySwap, FactSwap, Disjoint
<1>2. TypoBridged(t, t)
  BY DEF TypoBridged
<1>3. ~TemplateCollision(t, t)
  BY <1>2 DEF TemplateCollision
<1>4. ~NegationMismatch(t, t) /\ ~NumberMismatch(t, t)
  BY DEF NegationMismatch, NumberMismatch
<1>5. ~AntonymSwappedEqual(t, t, o)
  <2>1. \A x, y : ~SwapsTo(t, t, x, y)
    BY CountIsNat DEF SwapsTo
  <2> QED BY <2>1 DEF AntonymSwappedEqual
<1> QED BY <1>1, <1>3, <1>4, <1>5 DEF SemanticVeto

-----------------------------------------------------------------------------
(* The scan and auto-tune.                                                 *)

\* Nothing is left of a call that has returned.
ScanClean ==
  stage = "idle" =>
    next = 1 /\ best_score = Opposite /\ best_entry = NoRow /\ answer = NoRow

TuneClean ==
  /\ tuning = "idle" => results = <<>> /\ grid = <<>>
  /\ tuning \in {"idle", "sweeping"} => best = NoResult /\ borderline = {}
  /\ tuning = "sweeping" => grid # <<>>

\* The running best is the earliest of the highest, and none of the rows that
\* were passed is better.
BestSoFar ==
  /\ \A j \in 1 .. next - 1 : ~Skipped(rows[j]) => Scored(rows[j]) <= best_score
  /\ best_entry = NoRow => best_score < threshold
  /\ best_entry # NoRow =>
       /\ best_entry < next
       /\ ~Skipped(rows[best_entry])
       /\ Scored(rows[best_entry]) = best_score
       /\ best_score >= threshold
       /\ \A j \in 1 .. best_entry - 1 :
            ~Skipped(rows[j]) => Scored(rows[j]) < best_score

\* Only once every row is passed is there an answer, the veto's.
AnswerDecided ==
  stage = "answered" =>
    /\ next = Len(rows) + 1
    /\ answer = IF \/ best_entry = NoRow
                   \/ SemanticVeto(query, rows[best_entry].text, order)
                THEN NoRow ELSE best_entry

\* What is swept may be set.
ResultsFromGrid ==
  /\ grid \in Seq(Thresholds)
  /\ \A i \in DOMAIN results : results[i].threshold \in Thresholds

\* i is what max returns.
IsFirstOfBest(i) ==
  \A j \in DOMAIN results \ {i} :
    \/ BetterResult(results[i], results[j])
    \/ results[i] = results[j] /\ i < j

FirstOfBest == results # <<>> => \E i \in DOMAIN results : IsFirstOfBest(i)

CalInv ==
  /\ TypeOKCalibration
  /\ ScanClean
  /\ TuneClean
  /\ BestSoFar
  /\ AnswerDecided
  /\ ResultsFromGrid
  /\ FirstOfBest

-----------------------------------------------------------------------------
(* A text and one that continues it.                                       *)

LEMMA PrefixAt ==
  ASSUME NEW a \in Seq(Lexeme), NEW b \in Seq(Lexeme), IsPrefixOf(a, b)
  PROVE  /\ \A i \in DOMAIN a : i \in DOMAIN b /\ b[i] = a[i]
         /\ \A i \in DOMAIN b \ DOMAIN a :
              /\ i - Len(a) \in DOMAIN Rest(a, b)
              /\ Rest(a, b)[i - Len(a)] = b[i]
<1>1. Len(a) \in Nat /\ Len(b) \in Nat /\ Len(a) <= Len(b)
  BY DEF IsPrefixOf
<1>2. DOMAIN a = 1 .. Len(a) /\ DOMAIN b = 1 .. Len(b)
  OBVIOUS
<1>3. SubSeq(b, 1, Len(a)) = a
  BY DEF IsPrefixOf
<1>4. \A i \in 1 .. Len(a) : SubSeq(b, 1, Len(a))[i] = b[i]
  BY <1>1, <1>2
<1>5. DOMAIN Rest(a, b) = 1 .. Len(b) - Len(a)
  BY <1>1 DEF Rest
<1>6. \A k \in 1 .. Len(b) - Len(a) : Rest(a, b)[k] = b[k + Len(a)]
  BY <1>1 DEF Rest
<1>7. \A i \in DOMAIN a : i \in DOMAIN b /\ b[i] = a[i]
  BY <1>1, <1>2, <1>3, <1>4
<1>8. \A i \in DOMAIN b \ DOMAIN a :
        /\ i - Len(a) \in DOMAIN Rest(a, b)
        /\ Rest(a, b)[i - Len(a)] = b[i]
  BY <1>1, <1>2, <1>5, <1>6
<1> QED BY <1>7, <1>8

\* What the patterns find in a text they find in its continuation.
LEMMA PrefixFinds ==
  ASSUME NEW a \in Seq(Lexeme), NEW b \in Seq(Lexeme), IsPrefixOf(a, b)
  PROVE  /\ WordsAt(a) \subseteq WordsAt(b)
         /\ Tokens(a) \subseteq Tokens(b)
         /\ ContentWords(a) \subseteq ContentWords(b)
         /\ FactTypes(a) \subseteq FactTypes(b)
         /\ NumberTokens(a) \subseteq NumberTokens(b)
<1>1. \A i \in DOMAIN a : i \in DOMAIN b /\ b[i] = a[i]
  BY PrefixAt
<1>2. WordsAt(a) \subseteq WordsAt(b)
  BY <1>1 DEF WordsAt
<1>3. \A i \in WordsAt(a) : i \in DOMAIN a
  BY DEF WordsAt
<1>4. Tokens(a) \subseteq Tokens(b)
  BY <1>1, <1>2, <1>3 DEF Tokens
<1>5. ContentWords(a) \subseteq ContentWords(b)
  BY <1>4 DEF ContentWords
<1>6. FactTypes(a) \subseteq FactTypes(b)
  BY <1>4 DEF FactTypes
<1>7. NumberTokens(a) \subseteq NumberTokens(b)
  BY <1>4 DEF NumberTokens
<1> QED BY <1>2, <1>4, <1>5, <1>6, <1>7

\* A token of a text is the same token in a continuation that begins with one
\* of its own, and so every entity is found again.
LEMMA EntitiesKept ==
  ASSUME NEW a \in Seq(Lexeme), NEW b \in Seq(Lexeme), Continues(a, b)
  PROVE  Entities(a) \subseteq Entities(b)
<1>1. /\ Len(a) \in Nat /\ Len(b) \in Nat /\ Len(a) <= Len(b)
      /\ DOMAIN a = 1 .. Len(a) /\ DOMAIN b = 1 .. Len(b)
  BY DEF Continues, IsPrefixOf
<1>2. \A i \in DOMAIN a : i \in DOMAIN b /\ b[i] = a[i]
  BY PrefixAt DEF Continues
<1>3. Letters(a) = Letters(b) \cap DOMAIN a
  BY <1>1, <1>2 DEF Letters, WordsAt
<1>4. \A i, k \in Nat : 0 < i /\ k <= Len(a) => (Joined(a, i, k) <=> Joined(b, i, k))
  <2> SUFFICES ASSUME NEW i \in Nat, NEW k \in Nat, 0 < i, k <= Len(a)
               PROVE  Joined(a, i, k) <=> Joined(b, i, k)
    OBVIOUS
  <2>1. \A m \in i + 1 .. k : m \in DOMAIN a
    BY <1>1
  <2>2. \A m \in i + 1 .. k : b[m] = a[m]
    BY <1>2, <2>1
  <2> QED BY <2>2 DEF Joined
<1>5. \A i, k \in Nat : i <= Len(a) /\ Len(a) < k /\ k <= Len(b) => ~Joined(b, i, k)
  <2> SUFFICES ASSUME NEW i \in Nat, NEW k \in Nat,
                      i <= Len(a), Len(a) < k, k <= Len(b)
               PROVE  ~Joined(b, i, k)
    OBVIOUS
  <2>1. Len(a) + 1 \in DOMAIN b \ DOMAIN a /\ Len(a) + 1 \in i + 1 .. k
    BY <1>1
  <2>2. (Len(a) + 1) - Len(a) \in DOMAIN Rest(a, b)
        /\ Rest(a, b)[(Len(a) + 1) - Len(a)] = b[Len(a) + 1]
    BY <2>1, PrefixAt DEF Continues
  <2>3. 1 \in DOMAIN Rest(a, b) /\ Rest(a, b)[1] = b[Len(a) + 1]
    <3>1. (Len(a) + 1) - Len(a) = 1
      BY <1>1
    <3> QED BY <2>2, <3>1
  <2>4. ~Attached(b[Len(a) + 1])
    <3>1. Rest(a, b) # <<>>
      BY <2>3
    <3> QED BY <2>3, <3>1 DEF Continues
  <2> QED BY <2>1, <2>4 DEF Joined
<1> SUFFICES ASSUME NEW i \in Letters(a), a[i].form = "upper", StartsToken(a, i),
                    NEW j \in Letters(a), SameSentence(a, j, i)
             PROVE  Token(a, i) \in Entities(b)
  BY DEF Entities
<1>6. /\ i \in DOMAIN a /\ j \in DOMAIN a /\ i \in 1 .. Len(a) /\ j \in 1 .. Len(a)
      /\ i \in Letters(b) /\ j \in Letters(b)
  BY <1>1, <1>3
<1>7. b[i].form = "upper"
  BY <1>2, <1>6
<1>8. StartsToken(b, i)
  <2> SUFFICES ASSUME NEW k \in Letters(b), k < i
               PROVE  ~Joined(b, k, i)
    BY DEF StartsToken
  <2>1. k \in DOMAIN b /\ k \in DOMAIN a
    <3>1. k \in DOMAIN b
      BY DEF Letters, WordsAt
    <3> QED BY <1>1, <1>6, <3>1
  <2>2. k \in Letters(a)
    BY <1>3, <2>1
  <2>3. ~Joined(a, k, i)
    BY <2>2 DEF StartsToken
  <2> QED BY <1>1, <1>4, <1>6, <2>1, <2>3
<1>9. SameSentence(b, j, i)
  <2>1. \A k \in j .. i : k \in DOMAIN a
    BY <1>1, <1>6
  <2> QED BY <1>2, <2>1 DEF SameSentence
<1>10. Token(a, i) = Token(b, i)
  <2> DEFINE D == {d \in 0 .. Len(a) - i : Joined(a, i, i + d)}
             E == {d \in 0 .. Len(b) - i : Joined(b, i, i + d)}
  <2>1. D = E
    <3>1. \A d \in 0 .. Len(a) - i :
            d \in 0 .. Len(b) - i /\ (Joined(a, i, i + d) <=> Joined(b, i, i + d))
      BY <1>1, <1>4, <1>6
    <3>2. \A d \in 0 .. Len(b) - i : Joined(b, i, i + d) => d \in 0 .. Len(a) - i
      BY <1>1, <1>5, <1>6
    <3> QED BY <3>1, <3>2
  <2>2. \A d \in D : a[i + d] = b[i + d]
    BY <1>1, <1>2, <1>6
  <2> QED BY <2>1, <2>2 DEF Token
<1> QED BY <1>6, <1>7, <1>8, <1>9, <1>10 DEF Entities

\* A continuation that denies no more than the text did, and has no number
\* beside one of the text's, gives no evidence of either.
LEMMA RestFinds ==
  ASSUME NEW a \in Seq(Lexeme), NEW b \in Seq(Lexeme), IsPrefixOf(a, b),
         HasNegation(Rest(a, b)) => HasNegation(a), NumbersAgree(a, b)
  PROVE  /\ HasNegation(a) <=> HasNegation(b)
         /\ NumberTokens(a) = {} \/ NumberTokens(a) = NumberTokens(b)
<1> DEFINE r == Rest(a, b)
<1>1. \A i \in DOMAIN a : i \in DOMAIN b /\ b[i] = a[i]
  BY PrefixAt
<1>2. \A i \in DOMAIN b \ DOMAIN a :
        i - Len(a) \in DOMAIN r /\ r[i - Len(a)] = b[i]
  BY PrefixAt
<1>3. Tokens(a) \subseteq Tokens(b)
  BY PrefixFinds
<1>4. Tokens(b) \subseteq Tokens(a) \cup Tokens(r)
  <2> SUFFICES ASSUME NEW i \in WordsAt(b)
               PROVE  b[i].word \in Tokens(a) \cup Tokens(r)
    BY DEF Tokens
  <2>1. CASE i \in DOMAIN a
    BY <1>1, <2>1 DEF WordsAt, Tokens
  <2>2. CASE i \notin DOMAIN a
    BY <1>2, <2>2 DEF WordsAt, Tokens
  <2> QED BY <2>1, <2>2
<1>5. HasNegation(a) => HasNegation(b)
  BY <1>1, <1>3 DEF HasNegation, WordsAt
<1>6. HasNegation(b) => HasNegation(a) \/ HasNegation(r)
  <2>1. CASE Tokens(b) \cap NEGATION_WORDS # {}
    BY <1>4, <2>1 DEF HasNegation
  <2>2. ASSUME NEW i \in WordsAt(b), b[i].after = "contraction"
        PROVE  HasNegation(a) \/ HasNegation(r)
    <3>1. CASE i \in DOMAIN a
      BY <1>1, <2>2, <3>1 DEF HasNegation, WordsAt
    <3>2. CASE i \notin DOMAIN a
      BY <1>2, <2>2, <3>2 DEF HasNegation, WordsAt
    <3> QED BY <3>1, <3>2
  <2> QED BY <2>1, <2>2 DEF HasNegation
<1>7. NumberTokens(b) = NumberTokens(a) \cup NumberTokens(r)
  <2>1. Tokens(r) \subseteq Tokens(b)
    <3>1. \A k \in DOMAIN r : k + Len(a) \in DOMAIN b /\ r[k] = b[k + Len(a)]
      BY DEF Rest, IsPrefixOf
    <3> QED BY <3>1 DEF Tokens, WordsAt
  <2> QED BY <1>3, <1>4, <2>1 DEF NumberTokens
<1>8. NumberTokens(a) = {} \/ NumberTokens(a) = NumberTokens(b)
  BY <1>7 DEF NumbersAgree
<1> QED BY <1>5, <1>6, <1>8

\* No word is rarer in the continuation.
LEMMA PrefixCounts ==
  ASSUME NEW a \in Seq(Lexeme), NEW b \in Seq(Lexeme), IsPrefixOf(a, b), NEW w
  PROVE  Count(a, w) <= Count(b, w)
<1> DEFINE A == {i \in WordsAt(a) : a[i].word = w}
           B == {i \in WordsAt(b) : b[i].word = w}
<1>1. \A i \in DOMAIN a : i \in DOMAIN b /\ b[i] = a[i]
  BY PrefixAt
<1>2. A \subseteq B
  BY <1>1, PrefixFinds DEF WordsAt
<1>3. DOMAIN b = 1 .. Len(b) /\ Len(b) \in Int /\ 1 \in Int
  OBVIOUS
<1>4. IsFiniteSet(DOMAIN b)
  BY <1>3, FS_Interval
<1>5. B \subseteq DOMAIN b
  BY DEF WordsAt
<1>6. IsFiniteSet(B)
  BY <1>4, <1>5, FS_Subset
<1>7. Cardinality(A) <= Cardinality(B)
  BY <1>2, <1>6, FS_Subset
<1> QED BY <1>7 DEF Count

\* A text that goes on where the other ends, with a token of its own, is not
\* refused, whatever it adds, unless that is a negation, or a number beside
\* another (semantic_veto: "Every signal requires evidence on BOTH sides").
THEOREM ContinuationNotVetoed ==
  ASSUME LexiconAssumption,
         NEW a \in Seq(Lexeme), NEW b \in Seq(Lexeme), NEW o \in Orders,
         Continues(a, b),
         HasNegation(Rest(a, b)) => HasNegation(a), NumbersAgree(a, b)
  PROVE  ~SemanticVeto(a, b, o) /\ ~SemanticVeto(b, a, o)
<1> IsPrefixOf(a, b)
  BY DEF Continues
<1>1. ~EntitySwap(a, b) /\ ~FactSwap(a, b)
  BY PrefixFinds, EntitiesKept DEF EntitySwap, FactSwap, Disjoint
<1>2. TypoBridged(a, b)
  <2>1. ContentWords(a) \ ContentWords(b) = {}
    BY PrefixFinds
  <2> QED BY <2>1 DEF TypoBridged
<1>3. ~TemplateCollision(a, b)
  BY <1>2 DEF TemplateCollision
<1>4. ~NegationMismatch(a, b)
  BY RestFinds DEF NegationMismatch, HasNegation
<1>5. ~NumberMismatch(a, b)
  BY RestFinds DEF NumberMismatch
<1>6. ~AntonymSwappedEqual(a, b, o)
  <2>1. \A x, y : ~SwapsTo(a, b, x, y) /\ ~SwapsTo(b, a, x, y)
    BY PrefixCounts, CountIsNat DEF SwapsTo
  <2> QED BY <2>1 DEF AntonymSwappedEqual
<1>7. ~SemanticVeto(a, b, o)
  BY <1>1, <1>3, <1>4, <1>5, <1>6 DEF SemanticVeto
<1> QED BY <1>7, VetoSymmetric

-----------------------------------------------------------------------------
(* The scan.                                                               *)

LEMMA ScoredIsInt ==
  ASSUME LookupAssumption, query \in Texts, NEW row \in Row
  PROVE  Scored(row) \in Int /\ row.text \in Texts
<1>1. row.text \in Texts
  BY DEF Row
<1>2. <<query, row.text>> \in Texts \X Texts
  BY <1>1
<1> QED BY <1>1, <1>2 DEF LookupAssumption, Scored

LEMMA ComparePreservesCalInv ==
  ASSUME LookupAssumption, CalInv, CompareRow, UNCHANGED tune
  PROVE  CalInv'
<1> USE DEF CalInv
<1>1. /\ stage = "scanning" /\ next \in DOMAIN rows /\ next' = next + 1
      /\ threshold' = threshold /\ order' = order /\ stage' = stage
      /\ query' = query /\ rows' = rows /\ answer' = answer
  BY DEF CompareRow, process
<1>2. /\ tuning' = tuning /\ pairs' = pairs /\ grid' = grid /\ results' = results
      /\ best' = best /\ borderline' = borderline
  BY DEF tune
<1>3. /\ rows \in Seq(Row) /\ query \in Texts /\ best_score \in Int
      /\ threshold \in Int /\ next \in 1 .. Len(rows) /\ Len(rows) \in Nat
      /\ best_entry \in {NoRow} \cup DOMAIN rows
  BY <1>1 DEF TypeOKCalibration, TypeOKLookup, LookupAssumption
<1>4. \A j \in 1 .. Len(rows) : rows[j] \in Row /\ Scored(rows[j]) \in Int
  BY <1>3, ScoredIsInt
<1>5. \A j : (Skipped(rows[j]))' <=> Skipped(rows[j])
  BY <1>1 DEF Skipped
<1>6. \A j : (Scored(rows[j]))' = Scored(rows[j])
  BY <1>1 DEF Scored
<1>7. best_score' \in Int /\ best_entry' \in {NoRow} \cup DOMAIN rows
  <2>1. CASE Improves(rows[next])
    BY <1>1, <1>3, <1>4, <2>1 DEF CompareRow
  <2>2. CASE ~Improves(rows[next])
    BY <1>3, <2>2 DEF CompareRow
  <2> QED BY <2>1, <2>2
<1>8. TypeOKCalibration'
  BY <1>1, <1>2, <1>3, <1>7 DEF TypeOKCalibration, TypeOKLookup, TypeOKTune
<1>9. BestSoFar'
  <2>1. CASE Improves(rows[next]) /\ Scored(rows[next]) >= threshold
    <3>1. best_score' = Scored(rows[next]) /\ best_entry' = next
      BY <2>1 DEF CompareRow
    <3>2. \A j \in 1 .. next - 1 :
            ~Skipped(rows[j]) => Scored(rows[j]) < Scored(rows[next])
      BY <1>3, <1>4, <2>1 DEF BestSoFar, Improves
    <3>3. next \in Int /\ next # NoRow
      BY <1>3 DEF NoRow
    <3>4. \A j \in 1 .. next' - 1 :
            ~(Skipped(rows[j]))' => (Scored(rows[j]))' <= best_score'
      <4>1. \A j \in 1 .. next' - 1 :
              ~Skipped(rows[j]) => Scored(rows[j]) <= Scored(rows[next])
        BY <1>1, <1>3, <1>4, <3>2
      <4> QED BY <1>5, <1>6, <3>1, <4>1
    <3>5. \A j \in 1 .. best_entry' - 1 :
            ~(Skipped(rows[j]))' => (Scored(rows[j]))' < best_score'
      BY <1>5, <1>6, <3>1, <3>2
    <3>6. ~(Skipped(rows[best_entry]))' /\ (Scored(rows[best_entry]))' = best_score'
      BY <1>1, <2>1, <3>1 DEF Improves, Skipped, Scored
    <3>7. best_entry' # NoRow /\ best_entry' < next' /\ best_score' >= threshold'
      BY <1>1, <2>1, <3>1, <3>3
    <3> QED BY <3>4, <3>5, <3>6, <3>7 DEF BestSoFar
  <2>2. CASE Improves(rows[next]) /\ ~(Scored(rows[next]) >= threshold)
    <3>1. best_score' = Scored(rows[next]) /\ best_entry' = best_entry
      BY <2>2 DEF CompareRow
    <3>2. best_entry = NoRow
      BY <1>3, <1>4, <2>2 DEF BestSoFar, Improves
    <3>3. \A j \in 1 .. next' - 1 :
            ~(Skipped(rows[j]))' => (Scored(rows[j]))' <= best_score'
      <4>1. \A j \in 1 .. next - 1 :
              ~Skipped(rows[j]) => Scored(rows[j]) <= Scored(rows[next])
        BY <1>3, <1>4, <2>2 DEF BestSoFar, Improves
      <4>2. \A j \in 1 .. next' - 1 :
              ~Skipped(rows[j]) => Scored(rows[j]) <= Scored(rows[next])
        BY <1>1, <1>3, <1>4, <4>1
      <4> QED BY <1>5, <1>6, <3>1, <4>2
    <3>4. best_entry' = NoRow /\ best_score' < threshold'
      BY <1>1, <1>3, <1>4, <2>2, <3>1, <3>2
    <3> QED BY <3>3, <3>4 DEF BestSoFar
  <2>3. CASE ~Improves(rows[next])
    <3>1. best_score' = best_score /\ best_entry' = best_entry
      BY <2>3 DEF CompareRow
    <3> QED BY <1>1, <1>3, <1>4, <1>5, <1>6, <2>3, <3>1 DEF BestSoFar, Improves, NoRow
  <2> QED BY <2>1, <2>2, <2>3
<1>10. ScanClean' /\ TuneClean' /\ AnswerDecided'
  BY <1>1, <1>2 DEF ScanClean, TuneClean, AnswerDecided
<1>11. ResultsFromGrid' /\ FirstOfBest'
  BY <1>2 DEF ResultsFromGrid, FirstOfBest, IsFirstOfBest, BetterResult
<1> QED BY <1>8, <1>9, <1>10, <1>11

LEMMA InitEstablishesCalInv ==
  ASSUME LookupAssumption, TuneAssumption, Init
  PROVE  CalInv
<1> USE DEF Init, InitLookup, InitTune
<1>1. query \in Texts
  BY DEF LookupAssumption, AnyText
<1>2. threshold \in Int /\ threshold > Opposite /\ Opposite \in Int
  BY DEF LookupAssumption
<1>3. TypeOKLookup
  BY <1>1, <1>2 DEF TypeOKLookup
<1>4. TypeOKTune
  BY FS_EmptySet DEF TypeOKTune, TuneAssumption
<1>5. TypeOKCalibration
  BY <1>3, <1>4 DEF TypeOKCalibration
<1>6. BestSoFar
  BY <1>2 DEF BestSoFar, NoRow
<1>7. ScanClean /\ TuneClean /\ AnswerDecided /\ ResultsFromGrid /\ FirstOfBest
  BY DEF ScanClean, TuneClean, AnswerDecided, ResultsFromGrid, FirstOfBest
<1> QED BY <1>5, <1>6, <1>7 DEF CalInv

LEMMA LookupPreservesCalInv ==
  ASSUME LookupAssumption, CalibrationAssumption, CalInv, Lookup
  PROVE  CalInv'
<1> USE DEF CalInv
<1>1. PICK q \in Texts, table \in Stored : Fetch(q, table)
  BY DEF Lookup
<1>2. /\ stage = "idle" /\ tuning = "idle" /\ stage' = "scanning"
      /\ query' = q /\ rows' = table
      /\ threshold' = threshold /\ order' = order /\ next' = next
      /\ best_score' = best_score /\ best_entry' = best_entry /\ answer' = answer
  BY <1>1 DEF Lookup, Free, Fetch, process
<1>3. /\ tuning' = tuning /\ pairs' = pairs /\ grid' = grid /\ results' = results
      /\ best' = best /\ borderline' = borderline
  BY DEF Lookup, tune
<1>4. next = 1 /\ best_score = Opposite /\ best_entry = NoRow /\ answer = NoRow
  BY <1>2 DEF ScanClean, TuneClean
<1>5. table \in Seq(Row)
  BY DEF CalibrationAssumption
<1>6. threshold \in Int /\ threshold > Opposite /\ Opposite \in Int
  BY DEF TypeOKCalibration, TypeOKLookup, LookupAssumption
<1>7. TypeOKCalibration'
  <2>1. TypeOKLookup'
    BY <1>2, <1>4, <1>5, <1>6 DEF TypeOKCalibration, TypeOKLookup
  <2>2. TypeOKTune'
    BY <1>3 DEF TypeOKCalibration, TypeOKTune
  <2> QED BY <1>2, <1>3, <2>1, <2>2 DEF TypeOKCalibration
<1>8. BestSoFar'
  BY <1>2, <1>4, <1>6 DEF BestSoFar, NoRow
<1>9. ScanClean' /\ TuneClean' /\ AnswerDecided'
  BY <1>2, <1>3 DEF ScanClean, TuneClean, AnswerDecided
<1>10. ResultsFromGrid' /\ FirstOfBest'
  BY <1>3 DEF ResultsFromGrid, FirstOfBest, IsFirstOfBest, BetterResult
<1> QED BY <1>7, <1>8, <1>9, <1>10

LEMMA DecidePreservesCalInv ==
  ASSUME CalInv, Decide, UNCHANGED tune
  PROVE  CalInv'
<1> USE DEF CalInv
<1>1. /\ stage = "scanning" /\ next \notin DOMAIN rows /\ stage' = "answered"
      /\ threshold' = threshold /\ order' = order /\ query' = query /\ rows' = rows
      /\ next' = next /\ best_score' = best_score /\ best_entry' = best_entry
      /\ answer' = IF \/ best_entry = NoRow
                      \/ SemanticVeto(query, rows[best_entry].text, order)
                   THEN NoRow ELSE best_entry
  BY DEF Decide, process
<1>2. /\ tuning' = tuning /\ pairs' = pairs /\ grid' = grid /\ results' = results
      /\ best' = best /\ borderline' = borderline
  BY DEF tune
<1>3. TypeOKCalibration'
  <2>1. TypeOKLookup'
    BY <1>1 DEF TypeOKCalibration, TypeOKLookup
  <2>2. TypeOKTune'
    BY <1>2 DEF TypeOKCalibration, TypeOKTune
  <2> QED BY <1>1, <1>2, <2>1, <2>2 DEF TypeOKCalibration
<1>4. next = Len(rows) + 1
  BY <1>1 DEF TypeOKCalibration, TypeOKLookup
<1>5. AnswerDecided'
  BY <1>1, <1>4 DEF AnswerDecided
<1>6. BestSoFar'
  BY <1>1 DEF BestSoFar, Skipped, Scored
<1>7. ScanClean' /\ TuneClean'
  BY <1>1, <1>2 DEF ScanClean, TuneClean
<1>8. ResultsFromGrid' /\ FirstOfBest'
  BY <1>2 DEF ResultsFromGrid, FirstOfBest, IsFirstOfBest, BetterResult
<1> QED BY <1>3, <1>5, <1>6, <1>7, <1>8

LEMMA ReturnPreservesCalInv ==
  ASSUME LookupAssumption, CalInv, Return, UNCHANGED tune
  PROVE  CalInv'
<1> USE DEF CalInv
<1>1. /\ stage = "answered" /\ stage' = "idle"
      /\ threshold' = threshold /\ order' = order /\ query' = AnyText /\ rows' = <<>>
      /\ next' = 1 /\ best_score' = Opposite /\ best_entry' = NoRow /\ answer' = NoRow
  BY DEF Return, EndLookup, process
<1>2. /\ tuning' = tuning /\ pairs' = pairs /\ grid' = grid /\ results' = results
      /\ best' = best /\ borderline' = borderline
  BY DEF tune
<1>3. threshold \in Int /\ threshold > Opposite /\ Opposite \in Int
  BY DEF TypeOKCalibration, TypeOKLookup, LookupAssumption
<1>4. AnyText \in Texts
  BY DEF LookupAssumption, AnyText
<1>5. TypeOKCalibration'
  <2>1. TypeOKLookup'
    BY <1>1, <1>3, <1>4 DEF TypeOKCalibration, TypeOKLookup
  <2>2. TypeOKTune'
    BY <1>2 DEF TypeOKCalibration, TypeOKTune
  <2> QED BY <1>1, <1>2, <2>1, <2>2 DEF TypeOKCalibration
<1>6. BestSoFar'
  BY <1>1, <1>3 DEF BestSoFar, NoRow
<1>7. ScanClean' /\ TuneClean' /\ AnswerDecided'
  BY <1>1, <1>2 DEF ScanClean, TuneClean, AnswerDecided
<1>8. ResultsFromGrid' /\ FirstOfBest'
  BY <1>2 DEF ResultsFromGrid, FirstOfBest, IsFirstOfBest, BetterResult
<1> QED BY <1>5, <1>6, <1>7, <1>8

-----------------------------------------------------------------------------
(* Auto-tune.                                                              *)

\* A fraction between 0 and 1 is rounded to one.
LEMMA RoundedBounded ==
  ASSUME TuneAssumption, NEW n \in Nat, NEW d \in Nat \ {0}, n <= d
  PROVE  Rounded(n, d) \in 0 .. F1Scale
<1> DEFINE x == 2 * n * F1Scale + d
           y == 2 * d
<1>1. F1Scale \in Nat
  BY DEF TuneAssumption
<1>2. n * F1Scale \in Nat /\ d * F1Scale \in Nat /\ n * F1Scale <= d * F1Scale
  BY <1>1
<1>3. x \in Nat /\ y \in Nat \ {0}
  BY <1>1
<1>4. 2 * n * F1Scale = 2 * (n * F1Scale) /\ (F1Scale + 1) * y = 2 * (d * F1Scale) + 2 * d
  BY <1>1
<1>5. x < (F1Scale + 1) * y
  BY <1>2, <1>4
<1> HIDE DEF x, y
<1>6. x \div y \in Int /\ 0 <= x \div y /\ y * (x \div y) <= x
  BY <1>3
<1>7. x \div y < F1Scale + 1
  <2> DEFINE k == x \div y
  <2> SUFFICES ASSUME ~(k < F1Scale + 1) PROVE FALSE
    OBVIOUS
  <2>1. k \in Int /\ k >= F1Scale + 1 /\ y * k <= x
    BY <1>1, <1>6
  <2> HIDE DEF k
  <2>2. y * k >= y * (F1Scale + 1)
    BY <1>1, <1>3, <2>1
  <2>3. y * (F1Scale + 1) = (F1Scale + 1) * y /\ (F1Scale + 1) * y \in Int
    BY <1>1, <1>3
  <2>4. y * k \in Int
    BY <1>3, <2>1
  <2> QED BY <1>3, <1>5, <2>1, <2>2, <2>3, <2>4
<1>8. x \div y \in 0 .. F1Scale
  BY <1>1, <1>6, <1>7
<1> QED BY <1>8 DEF Rounded, x, y

LEMMA PairsFinite ==
  ASSUME pairs \in Seq(Pair), NEW S \in SUBSET DOMAIN pairs
  PROVE  IsFiniteSet(S) /\ Cardinality(S) \in Nat
<1>1. DOMAIN pairs = 1 .. Len(pairs) /\ Len(pairs) \in Int /\ 1 \in Int
  OBVIOUS
<1>2. IsFiniteSet(DOMAIN pairs)
  BY <1>1, FS_Interval
<1> QED BY <1>2, FS_Subset, FS_CardinalityType

LEMMA F1Bounded ==
  ASSUME TuneAssumption, pairs \in Seq(Pair), NEW t
  PROVE  F1(t) \in 0 .. F1Scale
<1> DEFINE tp == Cardinality(PredictedMatches(t) \cap Labeled)
           fp == Cardinality(PredictedMatches(t) \ Labeled)
           fn == Cardinality(Labeled \ PredictedMatches(t))
<1>1. PredictedMatches(t) \subseteq DOMAIN pairs /\ Labeled \subseteq DOMAIN pairs
  BY DEF PredictedMatches, Labeled
<1>2. tp \in Nat /\ fp \in Nat /\ fn \in Nat
  BY <1>1, PairsFinite
<1>3. F1(t) = IF tp = 0 THEN 0 ELSE Rounded(2 * tp, 2 * tp + fp + fn)
  BY DEF F1
<1> HIDE DEF tp, fp, fn
<1>4. CASE tp = 0
  BY <1>3, <1>4 DEF TuneAssumption
<1>5. CASE tp # 0
  <2>1. /\ 2 * tp \in Nat /\ 2 * tp + fp + fn \in Nat \ {0}
        /\ 2 * tp <= 2 * tp + fp + fn
    BY <1>2, <1>5
  <2> QED BY <1>3, <1>5, <2>1, RoundedBounded
<1> QED BY <1>4, <1>5

\* A new result is the best, or leaves the one that was.
LEMMA AppendKeepsFirst ==
  ASSUME results \in Seq(ThresholdResult), FirstOfBest, NEW r \in ThresholdResult,
         results' = Append(results, r)
  PROVE  FirstOfBest'
<1>0. PICK n \in Nat : n = Len(results)
  OBVIOUS
<1>1. /\ DOMAIN results = 1 .. n /\ DOMAIN results' = 1 .. n + 1
      /\ results'[n + 1] = r
      /\ \A i \in 1 .. n : results'[i] = results[i] /\ results[i] \in ThresholdResult
  BY <1>0
<1>2. \A x \in ThresholdResult : x.f1 \in Int /\ x.threshold \in Int
  BY DEF ThresholdResult
<1>3. CASE n = 0
  <2>1. IsFirstOfBest(1)'
    BY <1>1, <1>3 DEF IsFirstOfBest
  <2> QED BY <1>1, <1>3, <2>1 DEF FirstOfBest
<1>4. CASE n # 0
  <2>1. PICK i \in 1 .. n : IsFirstOfBest(i)
    BY <1>1, <1>4 DEF FirstOfBest
  <2>2. CASE BetterResult(r, results[i])
    <3>1. \A j \in 1 .. n : BetterResult(r, results[j])
      <4> SUFFICES ASSUME NEW j \in 1 .. n, j # i
                   PROVE  BetterResult(r, results[j])
        BY <2>2
      <4>1. BetterResult(results[i], results[j]) \/ results[i] = results[j]
        BY <1>1, <2>1 DEF IsFirstOfBest
      <4>2. CASE results[i] = results[j]
        BY <2>2, <4>2
      <4>3. CASE BetterResult(results[i], results[j])
        BY <1>1, <1>2, <2>2, <4>3 DEF BetterResult
      <4> QED BY <4>1, <4>2, <4>3
    <3>2. IsFirstOfBest(n + 1)'
      BY <1>1, <3>1 DEF IsFirstOfBest, BetterResult
    <3> QED BY <1>1, <3>2 DEF FirstOfBest
  <2>3. CASE ~BetterResult(r, results[i])
    <3>1. BetterResult(results[i], r) \/ (results[i].f1 = r.f1 /\ results[i].threshold = r.threshold)
      BY <1>1, <1>2, <2>3 DEF BetterResult
    <3>2. BetterResult(results[i], r) \/ results[i] = r
      <4>1. results[i] \in [threshold : Int, f1 : 0 .. F1Scale]
            /\ r \in [threshold : Int, f1 : 0 .. F1Scale]
        BY <1>1 DEF ThresholdResult
      <4>2. /\ r = [threshold |-> r.threshold, f1 |-> r.f1]
            /\ results[i] = [threshold |-> results[i].threshold, f1 |-> results[i].f1]
        BY <4>1
      <4> QED BY <3>1, <4>2
    <3>3. IsFirstOfBest(i)'
      BY <1>1, <2>1, <3>2 DEF IsFirstOfBest, BetterResult
    <3> QED BY <1>1, <3>3 DEF FirstOfBest
  <2> QED BY <2>2, <2>3
<1> QED BY <1>3, <1>4

\* The sort by distance is total, so that no two pairs come at one place.
LEMMA CloserOrders ==
  ASSUME TuneAssumption, pairs \in Seq(Pair), NEW t \in Int
  PROVE  /\ \A i, j \in DOMAIN pairs : i # j => Closer(i, j, t) \/ Closer(j, i, t)
         /\ \A i, j, k \in DOMAIN pairs :
              Closer(i, j, t) /\ Closer(j, k, t) => Closer(i, k, t)
         /\ \A i \in DOMAIN pairs : ~Closer(i, i, t)
<1>1. \A i \in DOMAIN pairs : i \in Int /\ pairs[i].similarity \in Int
  <2>1. \A i \in DOMAIN pairs : i \in Int /\ pairs[i] \in Pair
    OBVIOUS
  <2>2. \A p \in Pair : p.similarity \in Int
    BY DEF Pair
  <2> QED BY <2>1, <2>2
<1>2. \A i \in DOMAIN pairs : Distance(i, t) \in Int
  BY <1>1 DEF Distance
<1> QED BY <1>1, <1>2 DEF Closer

\* The pairs that come before pair i in the sorted list.
Ahead(i, t) == {j \in InBand(t) : Closer(j, i, t)}

LEMMA AheadGrows ==
  ASSUME TuneAssumption, pairs \in Seq(Pair), NEW t \in Int,
         NEW i \in InBand(t), NEW j \in InBand(t), Closer(i, j, t)
  PROVE  /\ Ahead(i, t) \subseteq Ahead(j, t) /\ Ahead(i, t) # Ahead(j, t)
         /\ IsFiniteSet(Ahead(j, t))
         /\ Cardinality(Ahead(i, t)) \in Nat /\ Cardinality(Ahead(j, t)) \in Nat
         /\ Cardinality(Ahead(i, t)) < Cardinality(Ahead(j, t))
<1>1. InBand(t) \subseteq DOMAIN pairs
  BY DEF InBand
<1>2. \A k \in Ahead(i, t) : k \in DOMAIN pairs /\ Closer(k, i, t)
  BY <1>1 DEF Ahead
<1>3. Ahead(i, t) \subseteq Ahead(j, t)
  BY <1>1, <1>2, CloserOrders DEF Ahead
<1>4. i \in Ahead(j, t) /\ i \notin Ahead(i, t)
  BY <1>1, CloserOrders DEF Ahead
<1>5. Ahead(i, t) # Ahead(j, t)
  BY <1>4
<1>6. Ahead(i, t) \subseteq DOMAIN pairs /\ Ahead(j, t) \subseteq DOMAIN pairs
  BY <1>1 DEF Ahead
<1>7. /\ IsFiniteSet(Ahead(j, t))
      /\ Cardinality(Ahead(j, t)) \in Nat /\ Cardinality(Ahead(i, t)) \in Nat
  BY <1>6, PairsFinite
<1>8. Cardinality(Ahead(i, t)) <= Cardinality(Ahead(j, t))
  BY <1>3, <1>7, FS_Subset
<1>9. Cardinality(Ahead(i, t)) # Cardinality(Ahead(j, t))
  BY <1>3, <1>5, <1>7, FS_Subset
<1>10. Cardinality(Ahead(i, t)) < Cardinality(Ahead(j, t))
  BY <1>7, <1>8, <1>9
<1> QED BY <1>3, <1>5, <1>7, <1>10

\* borderline[:MAX_BORDERLINE]: each has a place of its own among the first.
LEMMA BorderlineBounded ==
  ASSUME TuneAssumption, pairs \in Seq(Pair), NEW t \in Int
  PROVE  /\ ClosestInBand(t) \subseteq DOMAIN pairs
         /\ Cardinality(ClosestInBand(t)) <= MAX_BORDERLINE
<1> DEFINE C == ClosestInBand(t)
           place == [i \in C |-> Cardinality(Ahead(i, t))]
           Places == 0 .. MAX_BORDERLINE - 1
<1>1. InBand(t) \subseteq DOMAIN pairs /\ C \subseteq InBand(t)
  BY DEF InBand, ClosestInBand
<1>2. MAX_BORDERLINE \in Nat
  BY DEF TuneAssumption
<1>3. \A i \in C : Ahead(i, t) \subseteq DOMAIN pairs
  BY <1>1 DEF Ahead
<1>4. \A i \in C : IsFiniteSet(Ahead(i, t)) /\ Cardinality(Ahead(i, t)) \in Nat
  BY <1>3, PairsFinite
<1>5. \A i \in C : Cardinality(Ahead(i, t)) < MAX_BORDERLINE
  BY DEF ClosestInBand, Ahead
<1>7. \A i \in C : place[i] = Cardinality(Ahead(i, t))
  OBVIOUS
<1>8. place = [i \in C |-> place[i]]
  OBVIOUS
<1> HIDE DEF place
<1>9. \A i \in C : place[i] \in Places
  BY <1>2, <1>4, <1>5, <1>7
<1>10. ASSUME NEW i \in C, NEW j \in C, Closer(i, j, t)
      PROVE  Cardinality(Ahead(i, t)) < Cardinality(Ahead(j, t))
  BY <1>1, <1>10, AheadGrows
<1>11. \A i, j \in C : i # j => place[i] # place[j]
  <2> SUFFICES ASSUME NEW i \in C, NEW j \in C, i # j
               PROVE  place[i] # place[j]
    OBVIOUS
  <2>1. Closer(i, j, t) \/ Closer(j, i, t)
    BY <1>1, CloserOrders
  <2>2. Cardinality(Ahead(i, t)) \in Int /\ Cardinality(Ahead(j, t)) \in Int
    BY <1>4
  <2>3. Cardinality(Ahead(i, t)) # Cardinality(Ahead(j, t))
    BY <1>10, <2>1, <2>2
  <2> QED BY <1>7, <2>3
<1> HIDE DEF C
<1>12. place \in [C -> Places]
  BY <1>8, <1>9
<1>13. place \in Injection(C, Places)
  BY <1>11, <1>12 DEF Injection, IsInjective
<1>14. IsFiniteSet(Places) /\ Cardinality(Places) = MAX_BORDERLINE
  <2>1. 0 \in Int /\ MAX_BORDERLINE - 1 \in Int
    BY <1>2
  <2>2. /\ IsFiniteSet(Places)
        /\ Cardinality(Places) = IF 0 > MAX_BORDERLINE - 1 THEN 0
                                 ELSE MAX_BORDERLINE - 1 - 0 + 1
    BY <2>1, FS_Interval
  <2> HIDE DEF Places
  <2> QED BY <1>2, <2>2
<1> HIDE DEF Places
<1>15. Cardinality(C) <= MAX_BORDERLINE
  BY <1>13, <1>14, FS_Injection
<1> QED BY <1>1, <1>15 DEF C

LEMMA BestResultIsResult ==
  ASSUME FirstOfBest, results # <<>>
  PROVE  BestResult \in DOMAIN results
<1>1. \E i \in DOMAIN results : \A j \in DOMAIN results \ {i} :
        \/ BetterResult(results[i], results[j])
        \/ results[i] = results[j] /\ i < j
  BY DEF FirstOfBest, IsFirstOfBest
<1> QED BY <1>1 DEF BestResult

\* A sweep leaves the lookup's part of the state as it is.
LEMMA ScanUntouched ==
  ASSUME CalInv, UNCHANGED <<process, stage, scan>>
  PROVE  /\ TypeOKLookup' /\ BestSoFar' /\ AnswerDecided'
         /\ stage' = stage /\ ScanClean'
<1>1. /\ threshold' = threshold /\ order' = order /\ stage' = stage /\ query' = query
      /\ rows' = rows /\ next' = next /\ best_score' = best_score
      /\ best_entry' = best_entry /\ answer' = answer
  BY DEF process, scan
<1>2. TypeOKLookup'
  BY <1>1 DEF CalInv, TypeOKCalibration, TypeOKLookup
<1>3. BestSoFar'
  BY <1>1 DEF CalInv, BestSoFar, Skipped, Scored
<1>4. AnswerDecided' /\ ScanClean'
  BY <1>1 DEF CalInv, AnswerDecided, ScanClean, TuneClean
<1> QED BY <1>1, <1>2, <1>3, <1>4

LEMMA AutoTunePreservesCalInv ==
  ASSUME LookupAssumption, CalibrationAssumption, CalInv, AutoTune
  PROVE  CalInv'
<1> USE DEF CalInv
<1>1. PICK ps \in PairLists, g \in Grids : StartSweep(ps, g)
  BY DEF AutoTune
<1>2. /\ tuning = "idle" /\ stage = "idle"
      /\ tuning' = IF ps = <<>> \/ g = <<>> THEN "tuned" ELSE "sweeping"
      /\ pairs' = ps /\ grid' = g
      /\ results' = results /\ best' = best /\ borderline' = borderline
  BY <1>1 DEF AutoTune, Free, StartSweep
<1>3. results = <<>> /\ best = NoResult /\ borderline = {}
  BY <1>2 DEF ScanClean, TuneClean
<1>4. ps \in Seq(Pair) /\ g \in Seq(Thresholds) /\ g \in Seq(Int)
  <2>1. ps \in Seq(Pair) /\ g \in Seq(Thresholds)
    BY DEF CalibrationAssumption
  <2>2. Thresholds \subseteq Int
    BY DEF LookupAssumption
  <2>3. g \in Seq(Int)
    BY <2>1, <2>2, SeqMonotonic
  <2> QED BY <2>1, <2>3
<1>5. UNCHANGED <<process, stage, scan>>
  BY DEF AutoTune
<1>6. TypeOKTune'
  BY <1>2, <1>3, <1>4 DEF TypeOKCalibration, TypeOKTune
<1>7. TypeOKCalibration'
  BY <1>2, <1>5, <1>6, ScanUntouched DEF TypeOKCalibration
<1>8. ScanClean' /\ TuneClean'
  BY <1>2, <1>3, <1>5, ScanUntouched DEF ScanClean, TuneClean
<1>9. ResultsFromGrid' /\ FirstOfBest'
  BY <1>2, <1>3, <1>4 DEF ResultsFromGrid, FirstOfBest
<1> QED BY <1>5, <1>7, <1>8, <1>9, ScanUntouched

LEMMA SweepNextPreservesCalInv ==
  ASSUME LookupAssumption, TuneAssumption, CalInv, SweepNext,
         UNCHANGED <<process, stage, scan>>
  PROVE  CalInv'
<1> USE DEF CalInv
<1> DEFINE t == grid[Len(results) + 1]
           r == [threshold |-> t, f1 |-> F1(t)]
<1>1. /\ tuning = "sweeping" /\ Len(results) < Len(grid) /\ results' = Append(results, r)
      /\ tuning' = tuning /\ pairs' = pairs /\ grid' = grid
      /\ best' = best /\ borderline' = borderline
  BY DEF SweepNext
<1>2. /\ results \in Seq(ThresholdResult) /\ grid \in Seq(Thresholds)
      /\ pairs \in Seq(Pair) /\ borderline = {} /\ best = NoResult
  BY <1>1 DEF TypeOKCalibration, TypeOKTune, ResultsFromGrid, ScanClean, TuneClean
<1>3. t \in Thresholds
  BY <1>1, <1>2
<1>4. t \in Int
  BY <1>3 DEF LookupAssumption
<1>5. F1(t) \in 0 .. F1Scale
  BY <1>2, F1Bounded
<1> HIDE DEF t
<1>6. r \in ThresholdResult /\ r.threshold = t
  BY <1>4, <1>5 DEF ThresholdResult
<1> HIDE DEF r
<1>7. results' \in Seq(ThresholdResult) /\ Len(results') = Len(results) + 1
  BY <1>1, <1>2, <1>6
<1>8. TypeOKTune'
  BY <1>1, <1>2, <1>7 DEF TypeOKCalibration, TypeOKTune
<1>9. TypeOKCalibration'
  BY <1>1, <1>8, ScanUntouched DEF TypeOKCalibration
<1>10. ScanClean' /\ TuneClean'
  BY <1>1, <1>2, ScanUntouched DEF ScanClean, TuneClean
<1>11. ResultsFromGrid'
  <2>1. \A i \in DOMAIN results' :
          results'[i] = r \/ (i \in DOMAIN results /\ results'[i] = results[i])
    BY <1>1, <1>2, <1>6
  <2> QED BY <1>1, <1>3, <1>6, <2>1 DEF ResultsFromGrid
<1>12. FirstOfBest'
  BY <1>1, <1>2, <1>6, AppendKeepsFirst
<1> QED BY <1>9, <1>10, <1>11, <1>12, ScanUntouched

LEMMA PickPreservesCalInv ==
  ASSUME LookupAssumption, TuneAssumption, CalInv, Pick,
         UNCHANGED <<process, stage, scan>>
  PROVE  CalInv'
<1> USE DEF CalInv
<1>1. /\ tuning = "sweeping" /\ Len(results) = Len(grid) /\ tuning' = "tuned"
      /\ best' = BestResult
      /\ borderline' = ClosestInBand(results[BestResult].threshold)
      /\ pairs' = pairs /\ grid' = grid /\ results' = results
  BY DEF Pick
<1>2. grid # <<>> /\ grid \in Seq(Thresholds) /\ pairs \in Seq(Pair)
      /\ results \in Seq(ThresholdResult)
  BY <1>1 DEF ScanClean, TuneClean, ResultsFromGrid, TypeOKCalibration, TypeOKTune
<1>3. results # <<>>
  BY <1>1, <1>2
<1>4. BestResult \in DOMAIN results
  BY <1>3, BestResultIsResult
<1>5. results[BestResult].threshold \in Int
  BY <1>4 DEF ResultsFromGrid, LookupAssumption
<1>6. borderline' \subseteq DOMAIN pairs /\ Cardinality(borderline') <= MAX_BORDERLINE
  BY <1>1, <1>2, <1>5, BorderlineBounded
<1>7. TypeOKTune'
  BY <1>1, <1>4, <1>6 DEF TypeOKCalibration, TypeOKTune
<1>8. TypeOKCalibration'
  BY <1>1, <1>7, ScanUntouched DEF TypeOKCalibration
<1>9. ScanClean' /\ TuneClean'
  BY <1>1, ScanUntouched DEF ScanClean, TuneClean
<1>10. ResultsFromGrid' /\ FirstOfBest'
  BY <1>1 DEF ResultsFromGrid, FirstOfBest, IsFirstOfBest, BetterResult
<1> QED BY <1>8, <1>9, <1>10, ScanUntouched

\* The call ends, and the process may have started again with another threshold.
LEMMA EndTunePreservesCalInv ==
  ASSUME LookupAssumption, TuneAssumption, CalInv, tuning # "idle", EndTune,
         UNCHANGED <<stage, scan>>, threshold' \in Thresholds, order' \in Orders
  PROVE  CalInv'
<1> USE DEF CalInv
<1>1. /\ tuning' = "idle" /\ pairs' = <<>> /\ grid' = <<>> /\ results' = <<>>
      /\ best' = NoResult /\ borderline' = {}
  BY DEF EndTune
<1>2. /\ stage' = stage /\ query' = query /\ rows' = rows /\ next' = next
      /\ best_score' = best_score /\ best_entry' = best_entry /\ answer' = answer
      /\ stage = "idle"
  BY DEF scan, TypeOKCalibration
<1>3. next = 1 /\ best_score = Opposite /\ best_entry = NoRow
  BY <1>2 DEF ScanClean, TuneClean
<1>4. TypeOKLookup'
  BY <1>2 DEF TypeOKCalibration, TypeOKLookup
<1>5. TypeOKTune'
  BY <1>1, FS_EmptySet DEF TypeOKTune, TuneAssumption
<1>6. TypeOKCalibration'
  BY <1>1, <1>2, <1>4, <1>5 DEF TypeOKCalibration
<1>7. BestSoFar'
  <2>1. Opposite \in Int /\ threshold' \in Int /\ threshold' > Opposite
    BY DEF LookupAssumption
  <2> QED BY <1>2, <1>3, <2>1 DEF BestSoFar, NoRow
<1>8. ScanClean' /\ TuneClean' /\ AnswerDecided' /\ ResultsFromGrid' /\ FirstOfBest'
  BY <1>1, <1>2 DEF ScanClean, TuneClean, AnswerDecided, ResultsFromGrid, FirstOfBest
<1> QED BY <1>6, <1>7, <1>8

LEMMA RestartPreservesCalInv ==
  ASSUME LookupAssumption, CalInv, Restart
  PROVE  CalInv'
<1> USE DEF CalInv
<1>1. /\ stage = "idle" /\ order' \in Orders
      /\ threshold' = threshold /\ stage' = stage /\ query' = query /\ rows' = rows
      /\ next' = next /\ best_score' = best_score /\ best_entry' = best_entry
      /\ answer' = answer
      /\ tuning' = tuning /\ pairs' = pairs /\ grid' = grid /\ results' = results
      /\ best' = best /\ borderline' = borderline
  BY DEF Restart, Free, scan, tune
<1>2. TypeOKLookup' /\ TypeOKTune'
  BY <1>1 DEF TypeOKCalibration, TypeOKLookup, TypeOKTune
<1>3. TypeOKCalibration'
  BY <1>1, <1>2 DEF TypeOKCalibration
<1>4. BestSoFar'
  BY <1>1 DEF BestSoFar, Skipped, Scored
<1>5. ScanClean' /\ TuneClean' /\ AnswerDecided'
  BY <1>1 DEF ScanClean, TuneClean, AnswerDecided
<1>6. ResultsFromGrid' /\ FirstOfBest'
  BY <1>1 DEF ResultsFromGrid, FirstOfBest, IsFirstOfBest, BetterResult
<1> QED BY <1>3, <1>4, <1>5, <1>6

LEMMA NextPreservesCalInv ==
  ASSUME LookupAssumption, TuneAssumption, CalibrationAssumption, CalInv, [Next]_vars
  PROVE  CalInv'
<1>1. CASE Lookup
  BY <1>1, LookupPreservesCalInv
<1>2. CASE Scan
  BY <1>2, ComparePreservesCalInv, DecidePreservesCalInv, ReturnPreservesCalInv DEF Scan
<1>3. CASE AutoTune
  BY <1>3, AutoTunePreservesCalInv
<1>4. CASE Sweep
  <2>1. UNCHANGED <<process, stage, scan>>
    BY <1>4 DEF Sweep
  <2>2. CASE SweepNext
    BY <2>1, <2>2, SweepNextPreservesCalInv
  <2>3. CASE Pick
    BY <2>1, <2>3, PickPreservesCalInv
  <2>4. CASE Respond
    <3>1. threshold' \in Thresholds /\ order' \in Orders
      BY <2>1 DEF process, CalInv, TypeOKCalibration, TypeOKLookup
    <3>2. tuning # "idle" /\ EndTune /\ UNCHANGED <<stage, scan>>
      BY <2>1, <2>4 DEF Respond
    <3> QED BY <3>1, <3>2, EndTunePreservesCalInv
  <2> QED BY <1>4, <2>2, <2>3, <2>4 DEF Sweep
<1>5. CASE Restart
  BY <1>5, RestartPreservesCalInv
<1>6. CASE Adopt
  <2>1. best # NoResult /\ threshold' = results[best].threshold
    BY <1>6 DEF Adopt
  <2>2. tuning # "idle" /\ EndTune /\ UNCHANGED <<stage, scan>> /\ order' \in Orders
    <3>1. tuning # "idle"
      BY <2>1 DEF CalInv, TuneClean
    <3> QED BY <1>6, <3>1 DEF Adopt
  <2>3. best \in DOMAIN results
    BY <2>1 DEF CalInv, TypeOKCalibration, TypeOKTune
  <2>4. threshold' \in Thresholds
    BY <2>1, <2>3 DEF CalInv, ResultsFromGrid
  <2> QED BY <2>2, <2>4, EndTunePreservesCalInv
<1>7. CASE UNCHANGED vars
  <2>1. UNCHANGED <<process, stage, scan>> /\ UNCHANGED tune
    BY <1>7 DEF vars
  <2>2. /\ tuning' = tuning /\ pairs' = pairs /\ grid' = grid /\ results' = results
        /\ best' = best /\ borderline' = borderline
    BY <2>1 DEF tune
  <2>3. TypeOKCalibration' /\ TuneClean'
    BY <2>1, <2>2, ScanUntouched DEF CalInv, TypeOKCalibration, TypeOKTune, TuneClean
  <2>4. ResultsFromGrid' /\ FirstOfBest'
    BY <2>2 DEF CalInv, ResultsFromGrid, FirstOfBest, IsFirstOfBest, BetterResult
  <2> QED BY <2>1, <2>3, <2>4, ScanUntouched DEF CalInv
<1> QED BY <1>1, <1>2, <1>3, <1>4, <1>5, <1>6, <1>7 DEF Next

\* The inductive invariant holds through lookups, sweeps and restarts.
THEOREM CalibrationInvariance == Spec => []CalInv
<1>1. Init => CalInv
  BY InitEstablishesCalInv, LookupAssumption, TuneAssumption
<1>2. CalInv /\ [Next]_vars => CalInv'
  BY NextPreservesCalInv, LookupAssumption, TuneAssumption, CalibrationAssumption
<1> QED BY <1>1, <1>2, PTL DEF Spec

\* Auto-tune reports no more pairs than it may, its F1 is a fraction, what it
\* recommends is one of the thresholds asked for, and what the scan returns is
\* one of the rows.
THEOREM CalibrationTyped == Spec => []TypeOKCalibration
<1>1. CalInv => TypeOKCalibration
  BY DEF CalInv
<1> QED BY <1>1, CalibrationInvariance, PTL

-----------------------------------------------------------------------------
(* What the properties say of a state of the invariant.                    *)

\* The candidates of the whole table are the rows the scan does not skip that
\* reach the threshold.
LEMMA CandidatesAre ==
  ASSUME CalInv, NEW th, NEW o, th = threshold, o = order
  PROVE  LET C == Tables(th, o)!Candidates(query, "user", "model")
         IN  \A i : i \in C <=> /\ i \in DOMAIN rows
                               /\ ~Skipped(rows[i])
                               /\ Scored(rows[i]) >= threshold
<1> DEFINE E == [i \in {i \in DOMAIN rows : rows[i].sound} |->
                  [prompt |-> rows[i].text, user |-> "user", model |-> "model",
                   response |-> "r", left |-> 1, hits |-> 0]]
           D == {i \in DOMAIN rows : rows[i].sound}
           S == Tables(th, o)!Scoped("user", "model")
           C == Tables(th, o)!Candidates(query, "user", "model")
<1>1. \A i \in DOMAIN rows : rows[i] \in Row
  BY DEF CalInv, TypeOKCalibration, TypeOKLookup
<1>2. \A i \in DOMAIN rows : rows[i].text \in Texts /\ rows[i].sound \in BOOLEAN
  BY <1>1 DEF Row
<1>3. DOMAIN E = D
  OBVIOUS
<1>4. \A i \in D : /\ E[i].prompt = rows[i].text /\ E[i].user = "user"
                   /\ E[i].model = "model" /\ E[i].left = 1
  OBVIOUS
<1>5. S = {i \in DOMAIN E : E[i].user = "user" /\ E[i].model = "model"}
  BY DEF Tables!Scoped, Tables!Ids
<1>6. C = {i \in S : /\ E[i].left > 0
                     /\ E[i].prompt \notin {t \in Texts : ContentWords(t) = {}}
                     /\ Score[<<query, E[i].prompt>>] >= threshold}
  BY DEF Tables!Candidates, Tables!Similarity
<1> HIDE DEF E, S, C
<1>7. S = D
  BY <1>3, <1>4, <1>5
<1>8. \A i : i \in C <=> /\ i \in D
                        /\ rows[i].text \notin {t \in Texts : ContentWords(t) = {}}
                        /\ Score[<<query, rows[i].text>>] >= threshold
  BY <1>4, <1>6, <1>7
<1>9. \A i : i \in C <=> /\ i \in DOMAIN rows
                        /\ ~Skipped(rows[i])
                        /\ Scored(rows[i]) >= threshold
  BY <1>2, <1>8 DEF Skipped, Scored
<1> QED BY <1>9 DEF C

LEMMA AnswerIsHit ==
  ASSUME LookupAssumption, CalInv, stage = "answered",
         NEW th, NEW o, th = threshold, o = order
  PROVE  {answer} \ {NoRow} = Tables(th, o)!SemanticHit(query, "user", "model")
<1> DEFINE C == Tables(th, o)!Candidates(query, "user", "model")
           N == Tables(th, o)!Nearest(query, "user", "model")
           H == Tables(th, o)!SemanticHit(query, "user", "model")
<1>1. \A i : i \in C <=> /\ i \in DOMAIN rows
                        /\ ~Skipped(rows[i])
                        /\ Scored(rows[i]) >= threshold
  BY CandidatesAre
<1> DEFINE E == [i \in {i \in DOMAIN rows : rows[i].sound} |->
                  [prompt |-> rows[i].text, user |-> "user", model |-> "model",
                   response |-> "r", left |-> 1, hits |-> 0]]
<1>2. N = {i \in C : \A j \in C \ {i} :
             LET s == Score[<<query, E[i].prompt>>]
                 u == Score[<<query, E[j].prompt>>]
             IN  s > u \/ (s = u /\ i < j)}
  BY DEF Tables!Nearest, Tables!Beats, Tables!Similarity
<1>3. H = {i \in N : <<query, E[i].prompt>> \notin
             {qc \in Texts \X Texts : SemanticVeto(qc[1], qc[2], order)}}
  BY DEF Tables!SemanticHit
<1> HIDE DEF C, N, H
<1>4. /\ query \in Texts /\ threshold \in Int /\ rows \in Seq(Row)
      /\ best_score \in Int /\ best_entry \in {NoRow} \cup DOMAIN rows
  BY DEF CalInv, TypeOKCalibration, TypeOKLookup, LookupAssumption
<1>5. \A i \in DOMAIN rows : /\ i \in 1 .. Len(rows) /\ rows[i] \in Row
                            /\ rows[i].text \in Texts /\ Scored(rows[i]) \in Int
  BY <1>4, ScoredIsInt
<1>6. \A i \in C : E[i].prompt = rows[i].text
  BY <1>1 DEF Skipped
<1> HIDE DEF E
<1>7. \A i : i \in N <=> /\ i \in C
                        /\ \A j \in C \ {i} :
                             \/ Scored(rows[i]) > Scored(rows[j])
                             \/ Scored(rows[i]) = Scored(rows[j]) /\ i < j
  <2>1. \A i \in C : Score[<<query, E[i].prompt>>] = Scored(rows[i])
    BY <1>6 DEF Scored
  <2> QED BY <1>2, <2>1
<1>8. H = {i \in N : ~SemanticVeto(query, rows[i].text, order)}
  BY <1>1, <1>3, <1>4, <1>5, <1>6, <1>7
<1>9. /\ next = Len(rows) + 1
      /\ answer = IF \/ best_entry = NoRow
                     \/ SemanticVeto(query, rows[best_entry].text, order)
                  THEN NoRow ELSE best_entry
  BY DEF CalInv, AnswerDecided
<1>10. \A j \in DOMAIN rows : ~Skipped(rows[j]) => Scored(rows[j]) <= best_score
  <2>1. \A j \in DOMAIN rows : j \in 1 .. next - 1
    BY <1>4, <1>9
  <2> QED BY <2>1 DEF CalInv, BestSoFar
<1>11. ASSUME best_entry = NoRow
       PROVE  {answer} \ {NoRow} = H
  <2>1. best_score < threshold
    BY <1>11 DEF CalInv, BestSoFar
  <2>2. C = {}
    BY <1>1, <1>4, <1>5, <1>10, <2>1
  <2> QED BY <1>7, <1>8, <1>9, <1>11, <2>2
<1>12. ASSUME best_entry # NoRow
       PROVE  {answer} \ {NoRow} = H
  <2>1. /\ ~Skipped(rows[best_entry]) /\ Scored(rows[best_entry]) = best_score
        /\ best_score >= threshold /\ best_entry \in DOMAIN rows
        /\ \A j \in 1 .. best_entry - 1 :
             ~Skipped(rows[j]) => Scored(rows[j]) < best_score
    BY <1>4, <1>12 DEF CalInv, BestSoFar
  <2>2. best_entry \in C
    BY <1>1, <2>1
  <2>3. \A j \in C \ {best_entry} :
          \/ best_score > Scored(rows[j])
          \/ best_score = Scored(rows[j]) /\ best_entry < j
    <3> SUFFICES ASSUME NEW j \in C, j # best_entry
                 PROVE  \/ best_score > Scored(rows[j])
                        \/ best_score = Scored(rows[j]) /\ best_entry < j
      OBVIOUS
    <3>1. /\ j \in 1 .. Len(rows) /\ best_entry \in 1 .. Len(rows)
          /\ ~Skipped(rows[j]) /\ Scored(rows[j]) \in Int
          /\ Scored(rows[j]) <= best_score
      BY <1>1, <1>5, <1>10, <2>1
    <3>2. CASE j < best_entry
      <4>1. j \in 1 .. best_entry - 1
        BY <3>1, <3>2
      <4> QED BY <1>4, <2>1, <3>1, <4>1
    <3> QED BY <1>4, <3>1, <3>2
  <2>4. best_entry \in N
    BY <1>7, <2>1, <2>2, <2>3
  <2>5. \A j \in N : j = best_entry
    <3> SUFFICES ASSUME NEW j \in N, j # best_entry PROVE FALSE
      OBVIOUS
    <3>1. /\ j \in C
          /\ \/ Scored(rows[j]) > best_score
             \/ Scored(rows[j]) = best_score /\ j < best_entry
      <4>1. best_entry \in C \ {j}
        BY <2>2
      <4>2. \/ Scored(rows[j]) > Scored(rows[best_entry])
            \/ Scored(rows[j]) = Scored(rows[best_entry]) /\ j < best_entry
        BY <1>7, <4>1
      <4>3. j \in C
        BY <1>7
      <4> QED BY <2>1, <4>2, <4>3
    <3>2. \/ best_score > Scored(rows[j])
          \/ best_score = Scored(rows[j]) /\ best_entry < j
      BY <2>3, <3>1
    <3>3. j \in Int /\ best_entry \in Int /\ Scored(rows[j]) \in Int
      BY <1>1, <1>5, <2>1, <3>1
    <3> QED BY <1>4, <3>1, <3>2, <3>3
  <2>6. H = IF SemanticVeto(query, rows[best_entry].text, order)
            THEN {} ELSE {best_entry}
    BY <1>8, <2>4, <2>5
  <2> QED BY <1>9, <1>12, <2>6
<1>13. {answer} \ {NoRow} = H
  BY <1>11, <1>12
<1> QED BY <1>13 DEF H

-----------------------------------------------------------------------------
\* The scan, row by row, with its running best and its skips, returns what the
\* two-tier tables promise of a semantic hit (_semantic_lookup).
THEOREM ScanServesTheNearest == Spec => []ScanServesNearest
<1>1. CalInv => ScanServesNearest
  <2> SUFFICES ASSUME CalInv, stage = "answered",
                      NEW th \in Thresholds, NEW o \in Orders,
                      th = threshold, o = order
               PROVE  {answer} \ {NoRow} = Tables(th, o)!SemanticHit(query, "user", "model")
    BY DEF ScanServesNearest
  <2> QED BY AnswerIsHit, LookupAssumption
<1> QED BY <1>1, CalibrationInvariance, PTL

\* The texts of the call are sequences of lexemes.
LEMMA TextsAreSeqs ==
  ASSUME LookupAssumption, CalInv, next \in DOMAIN rows
  PROVE  /\ order \in Orders
         /\ query \in Seq(Lexeme) /\ rows[next].text \in Seq(Lexeme)
<1>1. /\ order \in Orders /\ query \in Texts /\ rows \in Seq(Row)
  BY DEF CalInv, TypeOKCalibration, TypeOKLookup
<1>2. rows[next] \in Row
  BY <1>1
<1>3. rows[next].text \in Texts
  BY <1>2 DEF Row
<1> QED BY <1>1, <1>3 DEF LookupAssumption

\* A stored text that is refused, or served, before a restart is so after it,
\* and for the other text of the pair.
THEOREM VetoIsStable == Spec => []VetoStable
<1>1. CalInv => VetoStable
  <2> SUFFICES ASSUME CalInv, next \in DOMAIN rows, NEW o \in Orders
               PROVE  LET text == rows[next].text
                          refused == SemanticVeto(query, text, order)
                      IN  /\ SemanticVeto(text, query, o) = refused
                          /\ ~SemanticVeto(text, text, order)
    BY TextsAreSeqs, LookupAssumption DEF VetoStable
  <2> DEFINE text == rows[next].text
  <2>1. order \in Orders /\ text \in Seq(Lexeme)
    BY TextsAreSeqs, LookupAssumption
  <2> HIDE DEF text
  <2>2. SemanticVeto(text, query, o) <=> SemanticVeto(query, text, order)
    BY <2>1, VetoSymmetric, LexiconAssumption
  <2>3. SemanticVeto(text, query, o) \in BOOLEAN /\ SemanticVeto(query, text, order) \in BOOLEAN
    BY DEF SemanticVeto
  <2>4. ~SemanticVeto(text, text, order)
    BY <2>1, VetoIrreflexive
  <2> QED BY <2>2, <2>3, <2>4 DEF text
<1> QED BY <1>1, CalibrationInvariance, PTL

\* No row is refused for what one of the two texts adds to the other with
\* tokens of its own, a negation or a number beside another apart.
THEOREM ContinuationsSpared == Spec => []ContinuationSpared
<1>1. CalInv => ContinuationSpared
  <2> SUFFICES ASSUME CalInv, next \in DOMAIN rows,
                      NEW a \in {query, rows[next].text},
                      NEW b \in {query, rows[next].text},
                      {a, b} = {query, rows[next].text},
                      Continues(a, b),
                      HasNegation(Rest(a, b)) => HasNegation(a),
                      NumbersAgree(a, b)
               PROVE  ~SemanticVeto(query, rows[next].text, order)
    BY DEF ContinuationSpared
  <2>1. a \in Seq(Lexeme) /\ b \in Seq(Lexeme) /\ order \in Orders
    BY TextsAreSeqs, LookupAssumption
  <2>2. \/ a = query /\ b = rows[next].text
        \/ b = query /\ a = rows[next].text
    OBVIOUS
  <2>3. ~SemanticVeto(a, b, order) /\ ~SemanticVeto(b, a, order)
    BY <2>1, ContinuationNotVetoed, LexiconAssumption
  <2> QED BY <2>2, <2>3
<1> QED BY <1>1, CalibrationInvariance, PTL

-----------------------------------------------------------------------------
(* What is recommended.                                                    *)

\* So few labeled pairs that two F1 that differ do so by more than the last digit
\* that rounding leaves; fewer than 50 at four digits. seed_test_pairs, the only
\* writer of labeled_test_pairs, has 31.
FewPairs == \A ps \in PairLists : 4 * (Len(ps) * Len(ps)) < F1Scale

\* x rounded to the nearest multiple of y, a half upwards.
LEMMA Nearest ==
  ASSUME NEW x \in Nat, NEW d \in Nat \ {0}
  PROVE  /\ (x + d) \div (2 * d) \in Nat
         /\ 2 * d * ((x + d) \div (2 * d)) <= x + d
         /\ x < 2 * d * ((x + d) \div (2 * d)) + d
<1> DEFINE m == x + d
           u == 2 * d
<1>1. m \in Nat /\ u \in Nat \ {0} /\ u = 2 * d /\ m = x + d
  OBVIOUS
<1> HIDE DEF m, u
<1>2. /\ m \div u \in Nat /\ m % u \in 0 .. u - 1
      /\ m = u * (m \div u) + (m % u)
  BY <1>1
<1> DEFINE q == m \div u
           p == u * q
<1>3. p \in Nat /\ q \in Nat
  BY <1>1, <1>2
<1>4. p <= m /\ m < p + u
  <2>1. m % u \in Nat /\ m % u < u /\ m = p + (m % u)
    BY <1>1, <1>2
  <2> HIDE DEF p
  <2> QED BY <1>1, <1>3, <2>1
<1>5. p = 2 * d * ((x + d) \div (2 * d)) /\ q = (x + d) \div (2 * d)
  BY DEF m, u
<1> HIDE DEF p, q
<1>6. p <= x + d /\ x < p + d
  BY <1>1, <1>3, <1>4
<1> QED BY <1>3, <1>5, <1>6

\* The same for the fractions that are compared: their rounding, times both
\* denominators.
LEMMA RoundedTimes ==
  ASSUME TuneAssumption, NEW a \in Nat, NEW w \in Nat \ {0}, NEW v \in Nat \ {0}
  PROVE  /\ Rounded(a, w) \in Nat
         /\ 2 * ((w * v) * Rounded(a, w)) <= 2 * (F1Scale * (a * v)) + w * v
         /\ 2 * (F1Scale * (a * v)) < 2 * ((w * v) * Rounded(a, w)) + w * v
<1>1. F1Scale \in Nat
  BY DEF TuneAssumption
<1> DEFINE x == 2 * a * F1Scale
           q == Rounded(a, w)
<1>2. x \in Nat
  BY <1>1
<1>3. q = (x + w) \div (2 * w)
  BY DEF Rounded
<1> HIDE DEF q
<1>4. q \in Nat /\ 2 * w * q <= x + w /\ x < 2 * w * q + w
  <2> HIDE DEF x
  <2> QED BY <1>2, <1>3, Nearest
<1> DEFINE p == 2 * w * q
<1>5. p \in Nat /\ p <= x + w /\ x < p + w
  BY <1>4
<1>6. /\ x * v = 2 * (F1Scale * (a * v))
      /\ p * v = 2 * ((w * v) * q)
  BY <1>1, <1>4
<1> HIDE DEF p, x
<1>7. p * v <= (x + w) * v /\ x * v < (p + w) * v
  <2>1. \A k, l \in Nat : k <= l => k * v <= l * v
    OBVIOUS
  <2>2. \A k, l \in Nat : k < l => k * v < l * v
    OBVIOUS
  <2>3. x + w \in Nat /\ p + w \in Nat
    BY <1>2, <1>5
  <2> QED BY <1>2, <1>5, <2>1, <2>2, <2>3
<1>8. (x + w) * v = x * v + w * v /\ (p + w) * v = p * v + w * v
  BY <1>2, <1>5
<1> QED BY <1>4, <1>6, <1>7, <1>8 DEF q

\* Rounding keeps the order of fractions.
LEMMA RoundedMonotonic ==
  ASSUME TuneAssumption, NEW a \in Nat, NEW w \in Nat \ {0},
         NEW b \in Nat, NEW v \in Nat \ {0}, a * v >= b * w
  PROVE  Rounded(a, w) >= Rounded(b, v)
<1> DEFINE q == Rounded(a, w)
           p == Rounded(b, v)
           k == w * v
           m == F1Scale * (a * v)
           n == F1Scale * (b * w)
<1>1. F1Scale \in Nat
  BY DEF TuneAssumption
<1>2. k \in Nat \ {0} /\ m \in Nat /\ n \in Nat /\ n <= m /\ v * w = k
  BY <1>1
<1>3. q \in Nat /\ 2 * (k * q) <= 2 * m + k /\ 2 * m < 2 * (k * q) + k
  BY RoundedTimes
<1>4. p \in Nat /\ 2 * (k * p) <= 2 * n + k /\ 2 * n < 2 * (k * p) + k
  BY <1>2, RoundedTimes
<1> HIDE DEF q, p, k, m, n
<1>5. ASSUME q < p PROVE FALSE
  <2>1. k * (q + 1) <= k * p
    BY <1>2, <1>3, <1>4, <1>5
  <2>2. k * (q + 1) = k * q + k /\ k * q \in Nat /\ k * p \in Nat
    BY <1>2, <1>3, <1>4
  <2> QED BY <1>2, <1>3, <1>4, <2>1, <2>2
<1>6. q >= p
  BY <1>3, <1>4, <1>5
<1> QED BY <1>6 DEF q, p

\* Fractions whose denominators are small enough stay apart.
LEMMA RoundedApart ==
  ASSUME TuneAssumption, NEW a \in Nat, NEW w \in Nat \ {0},
         NEW b \in Nat, NEW v \in Nat \ {0}, a * v > b * w, w * v < F1Scale
  PROVE  Rounded(a, w) > Rounded(b, v)
<1> DEFINE q == Rounded(a, w)
           p == Rounded(b, v)
           k == w * v
           m == F1Scale * (a * v)
           n == F1Scale * (b * w)
<1>1. F1Scale \in Nat
  BY DEF TuneAssumption
<1>2. k \in Nat \ {0} /\ m \in Nat /\ n \in Nat /\ v * w = k /\ k < F1Scale
  BY <1>1
<1>3. n + F1Scale <= m
  <2> DEFINE c == a * v
             d == b * w
  <2>1. c \in Nat /\ d \in Nat /\ d + 1 <= c
    OBVIOUS
  <2>2. m = F1Scale * c /\ n = F1Scale * d
    OBVIOUS
  <2> HIDE DEF c, d, m, n
  <2>3. F1Scale * (d + 1) <= F1Scale * c
    BY <1>1, <2>1
  <2>4. F1Scale * (d + 1) = F1Scale * d + F1Scale
    BY <1>1, <2>1
  <2> QED BY <2>2, <2>3, <2>4
<1>4. q \in Nat /\ 2 * m < 2 * (k * q) + k
  BY RoundedTimes
<1>5. p \in Nat /\ 2 * (k * p) <= 2 * n + k
  BY <1>2, RoundedTimes
<1> HIDE DEF q, p, k, m, n
<1>6. ASSUME q <= p PROVE FALSE
  <2>1. k * q <= k * p /\ k * q \in Nat /\ k * p \in Nat
    BY <1>2, <1>4, <1>5, <1>6
  <2> QED BY <1>1, <1>2, <1>3, <1>4, <1>5, <2>1
<1>7. q > p
  BY <1>4, <1>5, <1>6
<1> QED BY <1>7 DEF q, p

\* F1 is the rounded fraction of Agreed and Weighed, whose size the number of
\* pairs bounds.
LEMMA F1IsFraction ==
  ASSUME TuneAssumption, pairs \in Seq(Pair), NEW t \in Int
  PROVE  /\ Agreed(t) \in Nat /\ Weighed(t) \in Nat \ {0}
         /\ F1(t) = Rounded(Agreed(t), Weighed(t))
         /\ Agreed(t) # 0 => Len(pairs) >= 1
         /\ Len(pairs) >= 1 => Weighed(t) <= 2 * Len(pairs)
<1> DEFINE TP == PredictedMatches(t) \cap Labeled
           FP == PredictedMatches(t) \ Labeled
           FN == Labeled \ PredictedMatches(t)
           Wrong == {i \in DOMAIN pairs : Serves(i, t) # (i \in Labeled)}
           n == Len(pairs)
<1>1. n \in Nat /\ DOMAIN pairs = 1 .. n
  OBVIOUS
<1>2. PredictedMatches(t) \subseteq DOMAIN pairs /\ Labeled \subseteq DOMAIN pairs
  BY DEF PredictedMatches, Labeled
<1>3. \A i \in DOMAIN pairs : Serves(i, t) <=> i \in PredictedMatches(t)
  BY DEF PredictedMatches, Serves
<1>4. TP = {i \in Labeled : Serves(i, t)}
  BY <1>2, <1>3
<1>5. Wrong = FP \cup FN
  <2>1. \A i \in DOMAIN pairs : Serves(i, t) \in BOOLEAN
    BY DEF Serves
  <2>2. \A i \in DOMAIN pairs : i \in Wrong <=> i \in FP \cup FN
    <3> SUFFICES ASSUME NEW i \in DOMAIN pairs PROVE i \in Wrong <=> i \in FP \cup FN
      OBVIOUS
    <3>1. i \in Wrong <=> ~(Serves(i, t) <=> i \in Labeled)
      BY <2>1
    <3>2. i \in FP \cup FN <=> ~(i \in PredictedMatches(t) <=> i \in Labeled)
      OBVIOUS
    <3> QED BY <1>3, <3>1, <3>2
  <2>3. Wrong \subseteq DOMAIN pairs /\ FP \cup FN \subseteq DOMAIN pairs
    BY <1>2
  <2> HIDE DEF Wrong, FP, FN
  <2> QED BY <2>2, <2>3
<1> DEFINE tp == Cardinality(TP)
           fp == Cardinality(FP)
           fn == Cardinality(FN)
<1>6. /\ IsFiniteSet(TP) /\ IsFiniteSet(FP) /\ IsFiniteSet(FN)
      /\ tp \in Nat /\ fp \in Nat /\ fn \in Nat
  BY <1>2, PairsFinite
<1>7. Cardinality(Wrong) = fp + fn
  <2>1. FP \cap FN = {}
    OBVIOUS
  <2>2. Cardinality(FP \cap FN) = 0
    BY <2>1, FS_EmptySet
  <2>3. Cardinality(FP \cup FN) = fp + fn - Cardinality(FP \cap FN)
    BY <1>6, FS_Union
  <2> HIDE DEF FP, FN
  <2>4. Cardinality(FP \cup FN) = fp + fn
    BY <1>6, <2>2, <2>3
  <2> QED BY <1>5, <2>4
<1>8. tp + fp + fn <= n /\ tp <= n
  <2>1. /\ TP \cap Wrong = {} /\ TP \cup Wrong \subseteq DOMAIN pairs
        /\ Wrong \subseteq DOMAIN pairs /\ TP \subseteq DOMAIN pairs
    BY <1>2, <1>5
  <2>2. IsFiniteSet(DOMAIN pairs) /\ Cardinality(DOMAIN pairs) = n
    <3>1. 1 \in Int /\ n \in Int
      BY <1>1
    <3>2. /\ IsFiniteSet(1 .. n)
          /\ Cardinality(1 .. n) = IF 1 > n THEN 0 ELSE n - 1 + 1
      BY <3>1, FS_Interval
    <3> HIDE DEF n
    <3> QED BY <1>1, <3>2
  <2>3. IsFiniteSet(Wrong) /\ IsFiniteSet(TP \cup Wrong)
    BY <2>1, PairsFinite
  <2>4. Cardinality(TP \cap Wrong) = 0
    BY <2>1, FS_EmptySet
  <2> HIDE DEF TP, Wrong
  <2>5. Cardinality(TP \cup Wrong) = tp + Cardinality(Wrong) - Cardinality(TP \cap Wrong)
    BY <1>6, <2>3, FS_Union
  <2>6. Cardinality(TP \cup Wrong) <= n
    BY <2>1, <2>2, FS_Subset
  <2>7. tp <= n
    BY <2>1, <2>2, FS_Subset
  <2> HIDE DEF tp, fp, fn, n
  <2> QED BY <1>1, <1>6, <1>7, <2>4, <2>5, <2>6, <2>7
<1>9. Agreed(t) = 2 * tp
  BY <1>4 DEF Agreed
<1>10. Weighed(t) = IF Agreed(t) = 0 THEN 1 ELSE Agreed(t) + Cardinality(Wrong)
  BY DEF Weighed
<1>11. F1(t) = IF tp = 0 THEN 0 ELSE Rounded(2 * tp, 2 * tp + fp + fn)
  BY DEF F1
<1> HIDE DEF tp, fp, fn, Wrong, TP, FP, FN, n
<1>12. Agreed(t) \in Nat /\ Weighed(t) \in Nat \ {0}
  BY <1>6, <1>7, <1>9, <1>10
<1>13. F1(t) = Rounded(Agreed(t), Weighed(t))
  <2>1. CASE tp = 0
    <3>1. Agreed(t) = 0 /\ Weighed(t) = 1 /\ F1(t) = 0
      BY <1>9, <1>10, <1>11, <2>1
    <3>2. F1Scale \in Nat
      BY DEF TuneAssumption
    <3>3. Rounded(0, 1) = 0
      BY <3>2 DEF Rounded
    <3> QED BY <3>1, <3>3
  <2>2. CASE tp # 0
    <3>1. Weighed(t) = 2 * tp + fp + fn
      BY <1>6, <1>7, <1>9, <1>10, <2>2
    <3> QED BY <1>9, <1>11, <2>2, <3>1
  <2> QED BY <2>1, <2>2
<1>14. Agreed(t) # 0 => n >= 1
  BY <1>1, <1>6, <1>8, <1>9
<1>15. n >= 1 => Weighed(t) <= 2 * n
  BY <1>1, <1>6, <1>7, <1>8, <1>9, <1>10
<1> QED BY <1>12, <1>13, <1>14, <1>15 DEF n

\* Of some pairs, one comes before all others.
LEMMA FirstInBand ==
  ASSUME TuneAssumption, pairs \in Seq(Pair), NEW t \in Int,
         NEW S, S \subseteq InBand(t), S # {}
  PROVE  \E k \in S : \A j \in Ahead(k, t) : j \notin S
<1> DEFINE D == DOMAIN pairs
           T == {Ahead(k, t) : k \in S}
<1>1. InBand(t) \subseteq D
  BY DEF InBand
<1>2. IsFiniteSet(D)
  BY PairsFinite
<1>3. T \subseteq SUBSET D /\ T # {}
  BY <1>1 DEF Ahead
<1>4. IsWellFoundedOn(StrictSubsetOrdering(D), SUBSET D)
  <2>1. FiniteSubsetsOf(D) = SUBSET D
    BY <1>2, FS_FiniteSubsetsOfFinite
  <2>2. IsWellFoundedOn(StrictSubsetOrdering(D), FiniteSubsetsOf(D))
    BY FS_StrictSubsetOrderingWellFounded
  <2> QED BY <2>1, <2>2
<1>5. PICK s \in T : \A r \in T : <<r, s>> \notin StrictSubsetOrdering(D)
  <2> HIDE DEF T, D
  <2> QED BY <1>3, <1>4, WFMin
<1>6. PICK k \in S : s = Ahead(k, t)
  BY <1>5
<1>7. ASSUME NEW j \in Ahead(k, t), j \in S PROVE FALSE
  <2>1. j \in InBand(t) /\ k \in InBand(t) /\ Closer(j, k, t)
    BY <1>7 DEF Ahead
  <2>2. Ahead(j, t) \subseteq Ahead(k, t) /\ Ahead(j, t) # Ahead(k, t)
    BY <2>1, AheadGrows
  <2>3. <<Ahead(j, t), s>> \in StrictSubsetOrdering(D)
    BY <1>3, <1>5, <1>6, <1>7, <2>2 DEF StrictSubsetOrdering
  <2> QED BY <1>5, <1>7, <2>3
<1> QED BY <1>7

\* Who is in the band and not in the report was cut off: the report is full, of
\* pairs that come before.
LEMMA CutOffIsFarther ==
  ASSUME TuneAssumption, pairs \in Seq(Pair), NEW t \in Int,
         NEW i \in InBand(t), i \notin ClosestInBand(t)
  PROVE  /\ Cardinality(ClosestInBand(t)) = MAX_BORDERLINE
         /\ \A j \in ClosestInBand(t) : Closer(j, i, t)
<1> DEFINE C == ClosestInBand(t)
           M == MAX_BORDERLINE
<1>1. InBand(t) \subseteq DOMAIN pairs /\ C \subseteq InBand(t) /\ M \in Nat
  BY DEF InBand, ClosestInBand, TuneAssumption
<1>2. \A k \in InBand(t) : k \in C <=> Cardinality(Ahead(k, t)) < M
  BY DEF ClosestInBand, Ahead
<1>3. \A k \in InBand(t) :
        IsFiniteSet(Ahead(k, t)) /\ Cardinality(Ahead(k, t)) \in Nat
  <2>1. \A k \in InBand(t) : Ahead(k, t) \subseteq DOMAIN pairs
    BY <1>1 DEF Ahead
  <2> QED BY <2>1, PairsFinite
<1>4. IsFiniteSet(C) /\ Cardinality(C) \in Nat /\ Cardinality(C) <= M
  <2>1. C \subseteq DOMAIN pairs
    BY <1>1
  <2> QED BY <2>1, PairsFinite, BorderlineBounded
<1> HIDE DEF C, M
<1>5. ASSUME NEW j \in C PROVE Closer(j, i, t)
  <2>1. j \in InBand(t) /\ j # i
    BY <1>1 DEF C
  <2>2. Closer(i, j, t) \/ Closer(j, i, t)
    BY <1>1, <2>1, CloserOrders
  <2>3. ASSUME Closer(i, j, t) PROVE FALSE
    <3>1. Cardinality(Ahead(i, t)) < Cardinality(Ahead(j, t))
      BY <2>1, <2>3, AheadGrows
    <3>2. Cardinality(Ahead(j, t)) < M /\ ~(Cardinality(Ahead(i, t)) < M)
      BY <1>2, <2>1 DEF C
    <3> QED BY <1>1, <1>3, <2>1, <3>1, <3>2
  <2> QED BY <2>2, <2>3
<1>6. ASSUME Cardinality(C) < M PROVE FALSE
  <2> DEFINE S == Ahead(i, t) \ C
  <2>1. C \subseteq Ahead(i, t)
    BY <1>1, <1>5 DEF Ahead
  <2>2. S # {}
    <3>1. ASSUME S = {} PROVE FALSE
      <4>1. Ahead(i, t) = C
        BY <2>1, <3>1
      <4>2. Cardinality(Ahead(i, t)) < M
        BY <1>6, <4>1
      <4> QED BY <1>2, <4>2 DEF C
    <3> QED BY <3>1
  <2>3. S \subseteq InBand(t)
    BY DEF Ahead
  <2>4. PICK k \in S : \A j \in Ahead(k, t) : j \notin S
    <3> HIDE DEF S
    <3> QED BY <2>2, <2>3, FirstInBand
  <2>5. k \in InBand(t) /\ Closer(k, i, t) /\ k \notin C
    BY <2>4 DEF Ahead
  <2>6. Ahead(k, t) \subseteq Ahead(i, t)
    BY <2>5, AheadGrows
  <2>7. Ahead(k, t) \subseteq C
    BY <2>4, <2>6
  <2>8. Cardinality(Ahead(k, t)) <= Cardinality(C)
    BY <1>4, <2>7, FS_Subset
  <2>9. Cardinality(Ahead(k, t)) < M
    BY <1>1, <1>3, <1>4, <1>6, <2>5, <2>8
  <2> QED BY <1>2, <2>5, <2>9
<1>7. Cardinality(C) = M
  BY <1>1, <1>4, <1>6
<1> QED BY <1>5, <1>7 DEF C, M

LEMMA FlipsAreNear ==
  ASSUME TuneAssumption, pairs \in Seq(Pair), NEW t \in Int,
         NEW i \in DOMAIN pairs, Flips(i, t)
  PROVE  i \in InBand(t)
<1> DEFINE s == pairs[i].similarity
<1>1. s \in Int
  <2>1. pairs[i] \in Pair
    OBVIOUS
  <2> QED BY <2>1 DEF Pair
<1>2. BORDERLINE_BAND \in Nat
  BY DEF TuneAssumption
<1>3. PICK u \in t - BORDERLINE_BAND .. t + BORDERLINE_BAND :
        Serves(i, t) # Serves(i, u)
  BY DEF Flips
<1>4. (s >= t /\ ~(s >= u)) \/ (~(s >= t) /\ s >= u)
  BY <1>3 DEF Serves
<1>5. Distance(i, t) = IF s >= t THEN s - t ELSE t - s
  BY DEF Distance
<1> HIDE DEF s
<1>6. Distance(i, t) <= BORDERLINE_BAND
  <2>1. u \in Int /\ u >= t - BORDERLINE_BAND /\ u <= t + BORDERLINE_BAND
    BY <1>2
  <2> QED BY <1>1, <1>2, <1>4, <1>5, <2>1
<1> QED BY <1>6 DEF InBand

\* Every result is the F1 of its place in the grid.
ResultsAreF1 ==
  \A i \in DOMAIN results :
    i \in DOMAIN grid /\ results[i].threshold = grid[i] /\ results[i].f1 = F1(grid[i])

\* Once there is a pick, the sweep is complete; it is what max and the sort gave.
PickRight ==
  best # NoResult =>
    /\ DOMAIN results = DOMAIN grid
    /\ IsFirstOfBest(best)
    /\ borderline = ClosestInBand(results[best].threshold)

TuneInv == pairs \in PairLists \cup {<<>>} /\ ResultsAreF1 /\ PickRight

LEMMA F1Stays ==
  ASSUME pairs' = pairs, grid' = grid, NEW i \in DOMAIN grid
  PROVE  F1(grid[i])' = F1(grid[i])
<1>1. PredictedMatches(grid[i])' = PredictedMatches(grid[i]) /\ Labeled' = Labeled
  BY DEF PredictedMatches, Labeled
<1> QED BY <1>1 DEF F1, Rounded

LEMMA TuneStays ==
  ASSUME TuneInv, pairs' = pairs, grid' = grid, results' = results,
         best' = best, borderline' = borderline
  PROVE  TuneInv'
<1>1. ResultsAreF1'
  BY F1Stays DEF TuneInv, ResultsAreF1
<1>2. PickRight'
  BY DEF TuneInv, PickRight, IsFirstOfBest, BetterResult, ClosestInBand, InBand,
         Closer, Distance
<1> QED BY <1>1, <1>2 DEF TuneInv

LEMMA TuneEnds == ASSUME EndTune PROVE TuneInv'
BY DEF EndTune, TuneInv, ResultsAreF1, PickRight

LEMMA SweepNextKeepsTuneInv ==
  ASSUME CalInv, TuneInv, SweepNext
  PROVE  TuneInv'
<1> DEFINE n == Len(results)
           r == [threshold |-> grid[n + 1], f1 |-> F1(grid[n + 1])]
<1>1. /\ tuning = "sweeping" /\ n < Len(grid) /\ results' = Append(results, r)
      /\ pairs' = pairs /\ grid' = grid /\ best' = best /\ borderline' = borderline
  BY DEF SweepNext
<1>2. results \in Seq(ThresholdResult) /\ grid \in Seq(Int) /\ best = NoResult
  BY <1>1 DEF CalInv, TypeOKCalibration, TypeOKTune, TuneClean
<1>3. n \in Nat /\ n + 1 \in DOMAIN grid /\ DOMAIN results = 1 .. n
  BY <1>1, <1>2
<1>4. r.threshold = grid[n + 1] /\ r.f1 = F1(grid[n + 1])
  OBVIOUS
<1> HIDE DEF r
<1>5. /\ DOMAIN results' = 1 .. n + 1 /\ results'[n + 1] = r
      /\ \A i \in 1 .. n : results'[i] = results[i]
  BY <1>1, <1>2
<1> HIDE DEF n
<1>6. \A i \in 1 .. n + 1 :
        i \in DOMAIN grid /\ results'[i].threshold = grid[i] /\ results'[i].f1 = F1(grid[i])
  <2> SUFFICES ASSUME NEW i \in 1 .. n + 1
               PROVE  /\ i \in DOMAIN grid /\ results'[i].threshold = grid[i]
                      /\ results'[i].f1 = F1(grid[i])
    OBVIOUS
  <2>1. CASE i = n + 1
    BY <1>3, <1>4, <1>5, <2>1
  <2>2. CASE i # n + 1
    <3>1. i \in 1 .. n
      BY <1>3, <2>2
    <3> QED BY <1>3, <1>5, <3>1 DEF TuneInv, ResultsAreF1
  <2> QED BY <2>1, <2>2
<1>7. ResultsAreF1'
  BY <1>1, <1>5, <1>6, F1Stays DEF ResultsAreF1
<1>8. PickRight'
  BY <1>1, <1>2 DEF PickRight
<1> QED BY <1>1, <1>7, <1>8 DEF TuneInv

LEMMA PickKeepsTuneInv ==
  ASSUME CalInv, TuneInv, Pick
  PROVE  TuneInv'
<1>1. /\ tuning = "sweeping" /\ Len(results) = Len(grid)
      /\ best' = BestResult
      /\ borderline' = ClosestInBand(results[BestResult].threshold)
      /\ pairs' = pairs /\ grid' = grid /\ results' = results
  BY DEF Pick
<1>2. /\ grid # <<>> /\ grid \in Seq(Int) /\ results \in Seq(ThresholdResult)
  BY <1>1 DEF CalInv, TuneClean, TypeOKCalibration, TypeOKTune
<1>3. results # <<>> /\ DOMAIN results = DOMAIN grid
  BY <1>1, <1>2
<1>4. IsFirstOfBest(BestResult)
  <2>1. \E i \in DOMAIN results : IsFirstOfBest(i)
    BY <1>3 DEF CalInv, FirstOfBest
  <2> QED BY <2>1 DEF BestResult, IsFirstOfBest
<1>5. ResultsAreF1'
  BY <1>1, F1Stays DEF TuneInv, ResultsAreF1
<1>6. IsFirstOfBest(best)'
  BY <1>1, <1>4 DEF IsFirstOfBest, BetterResult
<1>7. borderline' = ClosestInBand(results[best].threshold)'
  BY <1>1 DEF ClosestInBand, InBand, Closer, Distance
<1>8. PickRight'
  BY <1>1, <1>3, <1>6, <1>7 DEF PickRight
<1> QED BY <1>1, <1>5, <1>8 DEF TuneInv

LEMMA NextKeepsTuneInv ==
  ASSUME CalInv, TuneInv, [Next]_vars
  PROVE  TuneInv'
<1>1. CASE UNCHANGED tune
  BY <1>1, TuneStays DEF tune
<1>2. CASE AutoTune
  <2>1. PICK ps \in PairLists, g \in Grids : StartSweep(ps, g)
    BY <1>2 DEF AutoTune
  <2>2. /\ tuning = "idle" /\ pairs' = ps /\ results' = results /\ best' = best
    BY <2>1 DEF StartSweep
  <2>3. results = <<>> /\ best = NoResult
    BY <2>2 DEF CalInv, TuneClean
  <2> QED BY <2>2, <2>3 DEF TuneInv, ResultsAreF1, PickRight
<1>3. CASE Sweep
  <2>1. CASE Respond
    BY <2>1, TuneEnds DEF Respond
  <2> QED BY <1>3, <2>1, SweepNextKeepsTuneInv, PickKeepsTuneInv DEF Sweep
<1>4. CASE Adopt
  BY <1>4, TuneEnds DEF Adopt
<1>5. CASE Lookup \/ Scan \/ Restart \/ UNCHANGED vars
  BY <1>1, <1>5 DEF Lookup, Scan, Restart, vars
<1> QED BY <1>2, <1>3, <1>4, <1>5 DEF Next

\* Of few pairs, the pick of the rounded F1 is the pick of the exact ones.
LEMMA PickIsOptimal ==
  ASSUME TuneAssumption, FewPairs, CalInv, TuneInv, best # NoResult
  PROVE  Optimal(results[best].threshold)
<1> DEFINE t == results[best].threshold
<1>1. /\ pairs \in Seq(Pair) /\ grid \in Seq(Int) /\ results \in Seq(ThresholdResult)
      /\ best \in DOMAIN results /\ DOMAIN results = DOMAIN grid
      /\ IsFirstOfBest(best)
  BY DEF CalInv, TypeOKCalibration, TypeOKTune, TuneInv, PickRight
<1>2. \A n \in DOMAIN grid :
        grid[n] \in Int /\ results[n].threshold = grid[n] /\ results[n].f1 = F1(grid[n])
  BY <1>1 DEF TuneInv, ResultsAreF1
<1>3. t \in Int /\ t = grid[best]
  BY <1>1, <1>2
<1> SUFFICES ASSUME NEW n \in DOMAIN grid
             PROVE  /\ Agreed(t) * Weighed(grid[n]) >= Agreed(grid[n]) * Weighed(t)
                    /\ Agreed(t) * Weighed(grid[n]) = Agreed(grid[n]) * Weighed(t)
                         => t <= grid[n]
  BY DEF Optimal
<1> DEFINE u == grid[n]
           a == Agreed(t)
           w == Weighed(t)
           b == Agreed(u)
           v == Weighed(u)
           l == Len(pairs)
<1>4. u \in Int /\ results[n].threshold = u /\ results[n].f1 = F1(u)
  BY <1>2
<1>5. results[best].f1 = F1(t)
  BY <1>1, <1>2, <1>3
<1> HIDE DEF t, u
<1>6. /\ a \in Nat /\ w \in Nat \ {0} /\ F1(t) = Rounded(a, w)
      /\ l >= 1 => w <= 2 * l
  BY <1>1, <1>3, F1IsFraction
<1>7. /\ b \in Nat /\ v \in Nat \ {0} /\ F1(u) = Rounded(b, v)
      /\ b # 0 => l >= 1
      /\ l >= 1 => v <= 2 * l
  BY <1>1, <1>4, F1IsFraction
<1>8. F1(t) \in Int /\ F1(u) \in Int
  BY <1>1, F1Bounded
<1>9. F1(t) > F1(u) \/ (F1(t) = F1(u) /\ t <= u)
  <2>1. CASE n = best
    BY <1>3, <1>8, <2>1 DEF u
  <2>2. CASE n # best
    <3>1. BetterResult(results[best], results[n]) \/ results[best] = results[n]
      BY <1>1, <2>2 DEF IsFirstOfBest
    <3>2. CASE BetterResult(results[best], results[n])
      BY <1>3, <1>4, <1>5, <1>8, <3>2 DEF BetterResult, t
    <3>3. CASE results[best] = results[n]
      BY <1>3, <1>4, <1>5, <1>8, <3>3 DEF t
    <3> QED BY <3>1, <3>2, <3>3
  <2> QED BY <2>1, <2>2
<1> HIDE DEF a, w, b, v
<1>10. ASSUME a * v < b * w PROVE FALSE
  <2>1. l \in Nat /\ l >= 1
    <3>1. b # 0
      <4>1. ASSUME b = 0 PROVE FALSE
        <5>1. b * w = 0 /\ a * v >= 0
          BY <1>6, <1>7, <4>1
        <5> QED BY <1>6, <1>7, <1>10, <5>1
      <4> QED BY <4>1
    <3>2. l \in Nat
      BY <1>1
    <3> QED BY <1>7, <3>1, <3>2
  <2>2. 4 * (l * l) < F1Scale
    <3>1. pairs # <<>>
      BY <2>1
    <3>2. pairs \in PairLists
      BY <3>1 DEF TuneInv
    <3> QED BY <3>2 DEF FewPairs
  <2>3. v * w < F1Scale
    <3> HIDE DEF l
    <3>1. v * w <= (2 * l) * (2 * l)
      <4>1. v <= 2 * l /\ w <= 2 * l
        BY <1>6, <1>7, <2>1
      <4>2. v * w <= (2 * l) * w
        BY <1>6, <1>7, <2>1, <4>1
      <4>3. (2 * l) * w <= (2 * l) * (2 * l)
        BY <1>6, <2>1, <4>1
      <4>4. v * w \in Int /\ (2 * l) * w \in Int /\ (2 * l) * (2 * l) \in Int
        BY <1>6, <1>7, <2>1
      <4> QED BY <4>2, <4>3, <4>4
    <3>2. (2 * l) * (2 * l) = 4 * (l * l) /\ l * l \in Nat
      BY <2>1
    <3>3. F1Scale \in Nat /\ v * w \in Nat
      BY <1>6, <1>7 DEF TuneAssumption
    <3> QED BY <2>2, <3>1, <3>2, <3>3
  <2>4. b * w > a * v
    BY <1>6, <1>7, <1>10
  <2>5. Rounded(b, v) > Rounded(a, w)
    BY <1>6, <1>7, <2>3, <2>4, RoundedApart
  <2> QED BY <1>6, <1>7, <1>8, <1>9, <2>5
<1>11. ASSUME a * v = b * w PROVE t <= u
  <2>1. a * v >= b * w /\ b * w >= a * v
    BY <1>6, <1>7, <1>11
  <2>2. Rounded(a, w) >= Rounded(b, v) /\ Rounded(b, v) >= Rounded(a, w)
    BY <1>6, <1>7, <2>1, RoundedMonotonic
  <2> QED BY <1>6, <1>7, <1>8, <1>9, <2>2
<1>12. a * v >= b * w
  <2>1. a * v \in Int /\ b * w \in Int
    BY <1>6, <1>7
  <2> QED BY <1>10, <2>1
<1> QED BY <1>11, <1>12 DEF a, w, b, v, u

\* "Pick the F1-optimal one, and surface borderline pairs" (run_auto_tune): of
\* so few pairs as the program has, the threshold that is recommended is the best
\* of the grid by the exact F1, the lowest of several, and every pair that it
\* decides narrowly is reported unless the report is full of closer ones.
THEOREM RecommendsTheBest ==
  ASSUME FewPairs
  PROVE  Spec => []RecommendationRight
<1>1. Init => TuneInv
  BY DEF Init, InitTune, TuneInv, ResultsAreF1, PickRight
<1>2. CalInv /\ TuneInv /\ [Next]_vars => TuneInv'
  BY NextKeepsTuneInv
<1>3. CalInv /\ TuneInv => RecommendationRight
  <2> SUFFICES ASSUME CalInv, TuneInv, best # NoResult
               PROVE  LET t == results[best].threshold
                      IN  /\ Optimal(t)
                          /\ \A i \in DOMAIN pairs \ borderline : Flips(i, t) =>
                               /\ Cardinality(borderline) = MAX_BORDERLINE
                               /\ \A j \in borderline : Distance(j, t) <= Distance(i, t)
    BY DEF RecommendationRight
  <2> DEFINE t == results[best].threshold
  <2>1. Optimal(t)
    BY PickIsOptimal, TuneAssumption
  <2>2. pairs \in Seq(Pair) /\ t \in Int /\ borderline = ClosestInBand(t)
    <3>1. pairs \in Seq(Pair) /\ best \in DOMAIN results /\ results \in Seq(ThresholdResult)
      BY DEF CalInv, TypeOKCalibration, TypeOKTune
    <3>2. results[best] \in ThresholdResult
      BY <3>1
    <3> QED BY <3>1, <3>2 DEF TuneInv, PickRight, ThresholdResult
  <2> HIDE DEF t
  <2>3. ASSUME NEW i \in DOMAIN pairs \ borderline, Flips(i, t)
        PROVE  /\ Cardinality(borderline) = MAX_BORDERLINE
               /\ \A j \in borderline : Distance(j, t) <= Distance(i, t)
    <3>1. i \in InBand(t) /\ i \notin ClosestInBand(t)
      BY <2>2, <2>3, FlipsAreNear, TuneAssumption
    <3>2. /\ Cardinality(ClosestInBand(t)) = MAX_BORDERLINE
          /\ \A j \in ClosestInBand(t) : Closer(j, i, t)
      BY <2>2, <3>1, CutOffIsFarther, TuneAssumption
    <3>3. \A k \in DOMAIN pairs : Distance(k, t) \in Int
      <4>1. \A k \in DOMAIN pairs : pairs[k] \in Pair
        BY <2>2
      <4>2. \A p \in Pair : p.similarity \in Int
        BY DEF Pair
      <4> QED BY <2>2, <4>1, <4>2 DEF Distance
    <3>4. ClosestInBand(t) \subseteq DOMAIN pairs
      BY DEF ClosestInBand, InBand
    <3>5. \A j \in ClosestInBand(t) : Distance(j, t) <= Distance(i, t)
      BY <3>2, <3>3, <3>4 DEF Closer
    <3> QED BY <2>2, <3>2, <3>5
  <2> QED BY <2>1, <2>3 DEF t
<1>4. Spec => []TuneInv
  BY <1>1, <1>2, CalibrationInvariance, PTL DEF Spec
<1> QED BY <1>3, <1>4, CalibrationInvariance, PTL

=============================================================================
