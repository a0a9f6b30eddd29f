SPECIFICATION TablesSpec
CONSTANTS
  p1 = p1
  p2 = p2
  p3 = p3
  Prompts = {p1, p2, p3}
  Users = {u1, u2}
  Models = {m1, m2}
  Responses = {r1}
  Ttl = 1
  Score <- MCScore
  Threshold = 2
  Vetoed <- MCVetoed
  Contentless = {}
  MaxEntries = 2
  MaxHits = 1
  MaxLog = 2
  MaxPurges = 1
SYMMETRY Symmetry
INVARIANTS TypeOK ReferencesLive UniqueKey LookupSound PurgedForGood
PROPERTY NoSilentLoss
