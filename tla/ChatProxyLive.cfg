SPECIFICATION Spec
CONSTANTS
  p1 = p1
  p2 = p2
  u1 = u1
  u2 = u2
  m1 = m1
  Requests = {r1, r2, r3}
  None = None
  Prompts = {p1, p2}
  Users = {u1, u2}
  Models = {m1}
  Forms = {"valid"}
  Failures = {"failed", "garbled"}
  Keys <- MCKeys
  Responses <- MCResponses
  Asks <- MCAsksShared
  Ttl = 1
  Score <- MCScore
  Threshold = 1
  Vetoed <- MCVetoed
  Contentless = {}
  MaxEntries = 3
  MaxHits = 3
  MaxLog = 3
  MaxPurges = 0
  MaxCrashes = 1
PROPERTIES RequestsEnd
