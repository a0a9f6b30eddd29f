---------------------------- MODULE ThresholdTune ----------------------------
(***************************************************************************)
(* eval.py: the sweep of thresholds over the labeled pairs, and auto-tune, *)
(* which picks one of them and reports the pairs that lie close to it.     *)
(*                                                                         *)
(* Similarities and thresholds are integers on one scale.  Rounding is to  *)
(* the nearest 1 / F1Scale, an exact half upwards.  The F1 of fewer than   *)
(* 32 pairs (seed_test_pairs has 31) is never a half or near one, as its   *)
(* numerator is even and its denominator at most 62: there the floats and  *)
(* round, which sends halves to the even digit, come to the same.          *)
(***************************************************************************)
EXTENDS Integers, FiniteSets, Sequences

CONSTANTS
  BORDERLINE_BAND,
  MAX_BORDERLINE,
  F1Scale           \* 10000: F1 is rounded to four digits

ASSUME TuneAssumption ==
  /\ {BORDERLINE_BAND, MAX_BORDERLINE} \subseteq Nat
  /\ F1Scale \in Nat \ {0}

VARIABLES
  tuning,      \* "idle", "sweeping", or "tuned" with a response to send
  pairs,       \* labeled_test_pairs: similarity and should_match
  grid,        \* the thresholds asked for, in the caller's order
  results,     \* per threshold done so far, its F1
  best,        \* the index of the result that is recommended, or NoResult
  borderline   \* the indices of the pairs that are reported

tune == <<tuning, pairs, grid, results, best, borderline>>

NoResult == 0

Pair == [similarity : Int, should_match : BOOLEAN]

ThresholdResult == [threshold : Int, f1 : 0 .. F1Scale]

TypeOKTune ==
  /\ tuning \in {"idle", "sweeping", "tuned"}
  /\ pairs \in Seq(Pair)
  /\ grid \in Seq(Int)
  /\ results \in Seq(ThresholdResult)
  /\ Len(results) <= Len(grid)
  /\ best \in {NoResult} \cup DOMAIN results
  /\ borderline \subseteq DOMAIN pairs
  /\ Cardinality(borderline) <= MAX_BORDERLINE

-----------------------------------------------------------------------------
PredictedMatches(t) == {i \in DOMAIN pairs : pairs[i].similarity >= t}
Labeled == {i \in DOMAIN pairs : pairs[i].should_match}

Rounded(n, d) == (2 * n * F1Scale + d) \div (2 * d)

\* 2 * precision * recall / (precision + recall), or 0 where one is undefined
\* or both are 0.
F1(t) ==
  LET tp == Cardinality(PredictedMatches(t) \cap Labeled)
      fp == Cardinality(PredictedMatches(t) \ Labeled)
      fn == Cardinality(Labeled \ PredictedMatches(t))
  IN  IF tp = 0 THEN 0 ELSE Rounded(2 * tp, 2 * tp + fp + fn)

\* Fault: a tie goes to the higher threshold, as in max by (f1, threshold).
BeatsHigher(r, s) ==
  r.f1 > s.f1 \/ (r.f1 = s.f1 /\ r.threshold > s.threshold)

\* The key (f1, -threshold).
BetterResult(r, s) ==
  r.f1 > s.f1 \/ (r.f1 = s.f1 /\ r.threshold < s.threshold)

\* max: the first of the best.
BestResult ==
  CHOOSE i \in DOMAIN results : \A j \in DOMAIN results \ {i} :
    \/ BetterResult(results[i], results[j])
    \/ results[i] = results[j] /\ i < j

Distance(i, t) ==
  IF pairs[i].similarity >= t THEN pairs[i].similarity - t
                              ELSE t - pairs[i].similarity

\* The order of the stable sort by distance.
Closer(i, j, t) ==
  \/ Distance(i, t) < Distance(j, t)
  \/ Distance(i, t) = Distance(j, t) /\ i < j

InBand(t) == {i \in DOMAIN pairs : Distance(i, t) <= BORDERLINE_BAND}

\* Fault: the list is not cut off.
ClosestInBandUncut(t) == InBand(t)

\* borderline[:MAX_BORDERLINE]
ClosestInBand(t) ==
  {i \in InBand(t) :
     Cardinality({j \in InBand(t) : Closer(j, i, t)}) < MAX_BORDERLINE}

-----------------------------------------------------------------------------
InitTune ==
  /\ tuning = "idle"
  /\ pairs = <<>> /\ grid = <<>> /\ results = <<>>
  /\ best = NoResult
  /\ borderline = {}

\* The locals of the call are gone.
EndTune ==
  /\ tuning' = "idle"
  /\ pairs' = <<>> /\ grid' = <<>> /\ results' = <<>>
  /\ best' = NoResult
  /\ borderline' = {}

\* The pairs are read and embedded.  Without any, or without a threshold, there
\* is nothing to recommend.
StartSweep(ps, g) ==
  /\ tuning = "idle"
  /\ tuning' = IF ps = <<>> \/ g = <<>> THEN "tuned" ELSE "sweeping"
  /\ pairs' = ps
  /\ grid' = g
  /\ UNCHANGED <<results, best, borderline>>

SweepNext ==
  /\ tuning = "sweeping" /\ Len(results) < Len(grid)
  /\ LET t == grid[Len(results) + 1]
     IN  results' = Append(results, [threshold |-> t, f1 |-> F1(t)])
  /\ UNCHANGED <<tuning, pairs, grid, best, borderline>>

\* run_auto_tune, after the sweep.
Pick ==
  /\ tuning = "sweeping" /\ Len(results) = Len(grid)
  /\ tuning' = "tuned"
  /\ best' = BestResult
  /\ borderline' = ClosestInBand(results[BestResult].threshold)
  /\ UNCHANGED <<pairs, grid, results>>

\* The response is sent: of auto_tune, or of threshold_sweep, which picks none.
Respond ==
  /\ \/ tuning = "tuned"
     \/ tuning = "sweeping" /\ Len(results) = Len(grid)
  /\ EndTune

-----------------------------------------------------------------------------
(* Properties.                                                             *)

\* What a lookup at threshold t would make of pair i ("score >= threshold").
Serves(i, t) == pairs[i].similarity >= t

\* F1 at t is the fraction Agreed(t) / Weighed(t).
Agreed(t) == 2 * Cardinality({i \in Labeled : Serves(i, t)})
Weighed(t) ==
  LET wrong == {i \in DOMAIN pairs : Serves(i, t) # (i \in Labeled)}
  IN  IF Agreed(t) = 0 THEN 1 ELSE Agreed(t) + Cardinality(wrong)

\* A threshold of the grid is at least as good as every other: the exact F1 is
\* no lower, and if it is equal the threshold is no higher.
Optimal(t) ==
  \A n \in DOMAIN grid :
    LET u == grid[n]
    IN  /\ Agreed(t) * Weighed(u) >= Agreed(u) * Weighed(t)
        /\ Agreed(t) * Weighed(u) = Agreed(u) * Weighed(t) => t <= u

\* Pair i would be decided otherwise if t moved within the band.
Flips(i, t) ==
  \E u \in t - BORDERLINE_BAND .. t + BORDERLINE_BAND : Serves(i, t) # Serves(i, u)

\* Auto-tune recommends the F1-optimal threshold for serving, "ties break toward
\* the lower threshold", though it compares rounded values and takes the grid in
\* any order with repetitions; and it reports every pair "that would flip to the
\* other side", unless the report is full of pairs that are at least as close
\* (run_auto_tune, BORDERLINE_BAND).
RecommendationRight ==
  best # NoResult =>
    LET t == results[best].threshold
    IN  /\ Optimal(t)
        /\ \A i \in DOMAIN pairs \ borderline : Flips(i, t) =>
             /\ Cardinality(borderline) = MAX_BORDERLINE
             /\ \A j \in borderline : Distance(j, t) <= Distance(i, t)

=============================================================================
