SPECIFICATION Spec
CONSTANTS
  Calls = {c1, c2}
  FailureThreshold = 2
  ResetSeconds = 1
  Outcomes = {"success", "transient", "rejected"}
PROPERTIES OpenCircuitAdmitsAgain
