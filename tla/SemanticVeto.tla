---------------------------- MODULE SemanticVeto ----------------------------
(***************************************************************************)
(* text.py and semantic_veto: which of two texts may answer for the other. *)
(*                                                                         *)
(* A text is the sequence of what the patterns of text.py find in it: its  *)
(* \w+ tokens, in lower case, each with the form it was written in and     *)
(* what stands between it and the one before; bracketed tags such as       *)
(* [user]; the marks .!? that end a sentence; and apostrophes that no      *)
(* token follows, such as a closing quote, which the entity pattern takes  *)
(* into the token before.  "France's" is two tokens with an apostrophe     *)
(* between, and so is "don't", whose n't the pattern of negation finds.    *)
(* The word lists are constants.                                           *)
(***************************************************************************)
EXTENDS Integers, FiniteSets, Sequences

CONSTANTS
  Words,           \* all tokens the texts are made of
  STOPWORDS,
  NUMBERS,         \* number word -> its digits
  Digits,          \* tokens of digits
  FACT_TYPES,
  NEGATION_WORDS,
  ANTONYM_PAIRS,
  Close            \* difflib: <<w, v>> if v is a close match for w; the ratio
                   \* depends on the order of its arguments

ASSUME LexiconAssumption ==
  /\ STOPWORDS \cup FACT_TYPES \cup NEGATION_WORDS \cup Digits \subseteq Words
  /\ DOMAIN NUMBERS \subseteq Words
  /\ \A w \in DOMAIN NUMBERS : NUMBERS[w] \in Digits
  /\ \A pair \in ANTONYM_PAIRS : \E x, y \in Words : x # y /\ pair = {x, y}
  /\ Close \subseteq Words \X Words

WordForms == {"lower", "upper"}

Lexeme ==
  [word : Words, form : WordForms, after : {"gap", "apostrophe", "contraction"}]
    \cup [form : {"tag", "stop", "quote"}]

\* A process iterates over a frozenset in an order that depends on the hash
\* seed it was started with: which word of each pair comes first.
Orders == {o \in [ANTONYM_PAIRS -> Words] :
             \A pair \in ANTONYM_PAIRS : o[pair] \in pair}

-----------------------------------------------------------------------------
(* text.py                                                                 *)

\* Where the words are, the tags stripped.
WordsAt(text) == {i \in DOMAIN text : text[i].form \in WordForms}

Tokens(text) == {text[i].word : i \in WordsAt(text)}

Normal(w) == IF w \in DOMAIN NUMBERS THEN NUMBERS[w] ELSE w

ContentWords(text) == {Normal(w) : w \in Tokens(text) \ STOPWORDS}

\* Nothing but apostrophes stands between the lexeme and the one before.
Attached(lexeme) ==
  \/ lexeme.form = "quote"
  \/ lexeme.form \in WordForms /\ lexeme.after # "gap"

\* [A-Za-z][\w']*: from the first word that begins with a letter (a token of
\* digits does not) through all that is attached to it.
Letters(text) == {i \in WordsAt(text) : text[i].word \notin Digits}

Joined(text, i, k) == \A m \in i + 1 .. k : Attached(text[m])

StartsToken(text, i) ==
  \A j \in Letters(text) : j < i => ~Joined(text, j, i)

Token(text, i) ==
  [d \in {d \in 0 .. Len(text) - i : Joined(text, i, i + d)} |->
     IF text[i + d].form = "quote" THEN "'" ELSE text[i + d].word]

SameSentence(text, j, i) ==
  j < i /\ \A k \in j .. i : text[k].form # "stop"

\* Capitalised tokens, unless they begin their sentence.
Entities(text) ==
  {Token(text, i) : i \in {i \in Letters(text) :
                             /\ text[i].form = "upper"
                             /\ StartsToken(text, i)
                             /\ \E j \in Letters(text) : SameSentence(text, j, i)}}

FactTypes(text) == Tokens(text) \cap FACT_TYPES

HasNegation(text) ==
  \/ Tokens(text) \cap NEGATION_WORDS # {}
  \/ \E i \in WordsAt(text) : text[i].after = "contraction"

NumberTokens(text) ==
  {Normal(w) : w \in Tokens(text) \cap (Digits \cup DOMAIN NUMBERS)}

\* Fault: a text that has no content word of its own is not exempt.
TypoBridgedUnlessContained(a, b) ==
  LET only_a == ContentWords(a) \ ContentWords(b)
      only_b == ContentWords(b) \ ContentWords(a)
  IN  /\ \A w \in only_a : \E v \in only_b : <<w, v>> \in Close
      /\ \A w \in only_b : \E v \in only_a : <<w, v>> \in Close

\* Every content word that is not shared has a near-duplicate across.
TypoBridged(a, b) ==
  LET only_a == ContentWords(a) \ ContentWords(b)
      only_b == ContentWords(b) \ ContentWords(a)
  IN  \/ {} \in {only_a, only_b}
      \/ /\ \A w \in only_a : \E v \in only_b : <<w, v>> \in Close
         /\ \A w \in only_b : \E v \in only_a : <<w, v>> \in Close

\* Counter(...)[w]
Count(text, w) == Cardinality({i \in WordsAt(text) : text[i].word = w})

\* src with one x replaced by y has the tokens of dst, and as often.
SwapsTo(src, dst, x, y) ==
  /\ Count(src, x) = Count(dst, x) + 1
  /\ Count(dst, y) = Count(src, y) + 1
  /\ \A w \in (Tokens(src) \cup Tokens(dst)) \ {x, y} :
       Count(src, w) = Count(dst, w)

\* Fault: only the first word of a pair is taken for the second.
AntonymSwappedEqualOneWay(a, b, order) ==
  \E pair \in ANTONYM_PAIRS : \E y \in pair \ {order[pair]} :
    SwapsTo(a, b, order[pair], y)

\* The tokens agree after one antonym is put for the other, in either text.
AntonymSwappedEqual(a, b, order) ==
  \E pair \in ANTONYM_PAIRS : \E y \in pair \ {order[pair]} :
    SwapsTo(a, b, order[pair], y) \/ SwapsTo(b, a, order[pair], y)

-----------------------------------------------------------------------------
(* semantic_veto, signal by signal.  The Jaccard index of two empty sets   *)
(* is 1.                                                                   *)

\* Jaccard(A, B) >= n / d, and <= n / d.
AtLeast(A, B, n, d) ==
  A \cup B = {} \/ d * Cardinality(A \cap B) >= n * Cardinality(A \cup B)
AtMost(A, B, n, d) ==
  A \cup B # {} /\ d * Cardinality(A \cap B) <= n * Cardinality(A \cup B)

Disjoint(A, B) == A # {} /\ B # {} /\ A \cap B = {}

\* ENTITY_TEMPLATE_FLOOR is 0.2.
EntitySwap(q, c) ==
  /\ Disjoint(Entities(q), Entities(c))
  /\ AtLeast(ContentWords(q), ContentWords(c), 1, 5)

FactSwap(q, c) == Disjoint(FactTypes(q), FactTypes(c))

\* VETO_CONTENT_MAX is 0.34, VETO_TEMPLATE_MIN 0.4, VETO_TEMPLATE_SHARED_MIN 3.
TemplateCollision(q, c) ==
  /\ AtMost(ContentWords(q), ContentWords(c), 34, 100)
  /\ AtLeast(Tokens(q), Tokens(c), 2, 5)
  /\ Cardinality(Tokens(q) \cap Tokens(c)) >= 3
  /\ ~TypoBridged(q, c)

NegationMismatch(q, c) == HasNegation(q) # HasNegation(c)

NumberMismatch(q, c) ==
  LET qn == NumberTokens(q)
      cn == NumberTokens(c)
  IN  qn # {} /\ cn # {} /\ qn # cn

SemanticVeto(q, c, order) ==
  \/ EntitySwap(q, c)
  \/ FactSwap(q, c)
  \/ TemplateCollision(q, c)
  \/ NegationMismatch(q, c)
  \/ AntonymSwappedEqual(q, c, order)
  \/ NumberMismatch(q, c)

=============================================================================
