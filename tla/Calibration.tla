----------------------------- MODULE Calibration -----------------------------
(***************************************************************************)
(* The proxy as its operator calibrates it: lookups at the threshold of    *)
(* the process, auto-tune over the labeled pairs, and a restart with what  *)
(* was recommended, since settings are read once per process.  Lookups and *)
(* sweeps run without an await: one is done before another starts.         *)
(***************************************************************************)
EXTENDS SemanticLookup, ThresholdTune

CONSTANTS
  Stored,     \* the rows a caller may have stored for a model, in rowid order
  PairLists,  \* what labeled_test_pairs may hold
  Grids       \* the lists of thresholds administrators ask for

ASSUME CalibrationAssumption ==
  /\ Stored \subseteq Seq(Row)
  /\ PairLists \subseteq Seq(Pair)
  /\ Grids \subseteq Seq(Thresholds)

vars == <<process, stage, scan, tune>>

TypeOKCalibration ==
  /\ TypeOKLookup
  /\ TypeOKTune
  /\ stage \in {"idle", "scanning", "answered"}
  /\ "idle" \in {stage, tuning}

-----------------------------------------------------------------------------
Init == InitLookup /\ InitTune

\* No handler is at work.
Free == stage = "idle" /\ tuning = "idle"

Lookup ==
  /\ Free
  /\ \E q \in Texts, table \in Stored : Fetch(q, table)
  /\ UNCHANGED tune

Scan ==
  /\ CompareRow \/ Decide \/ Return
  /\ UNCHANGED tune

AutoTune ==
  /\ Free
  /\ \E ps \in PairLists, g \in Grids : StartSweep(ps, g)
  /\ UNCHANGED <<process, stage, scan>>

Sweep ==
  /\ SweepNext \/ Pick \/ Respond
  /\ UNCHANGED <<process, stage, scan>>

\* The process starts again, with another hash seed.
Restart ==
  /\ Free
  /\ order' \in Orders
  /\ UNCHANGED <<threshold, stage, scan, tune>>

\* The operator sets SIMILARITY_THRESHOLD to what was recommended, and starts
\* the process again.
Adopt ==
  /\ best # NoResult
  /\ threshold' = results[best].threshold
  /\ order' \in Orders
  /\ EndTune
  /\ UNCHANGED <<stage, scan>>

Next == Lookup \/ Scan \/ AutoTune \/ Sweep \/ Restart \/ Adopt

Spec == Init /\ [][Next]_vars

=============================================================================
