SPECIFICATION Spec
CONSTANTS
  Calls = {c1, c2, c3}
  FailureThreshold = 2
  ResetSeconds = 2
  Outcomes = {"success", "transient", "rejected"}
INVARIANTS TypeOK OpenIffTripped SingleProbeUnlessStraggled ProbeFlagBacked
PROPERTIES OpenCircuitAdmitsUnlessAbandoned WedgedForGood
