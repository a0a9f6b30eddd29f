SPECIFICATION Spec
CONSTANTS
  Words <- MCWords
  STOPWORDS <- MCStopwords
  NUMBERS <- MCNumbers
  Digits <- MCDigits
  FACT_TYPES <- MCFactTypes
  NEGATION_WORDS <- MCNegations
  ANTONYM_PAIRS <- MCAntonyms
  Close <- MCClose
  Texts <- MCTexts
  Score <- MCScore
  Opposite <- MCOpposite
  Thresholds <- MCThresholds
  BORDERLINE_BAND = 1
  MAX_BORDERLINE = 2
  F1Scale = 10000
  Stored <- MCStored
  PairLists <- MCPairLists
  Grids <- MCGrids
INVARIANTS TypeOKCalibration ScanServesNearest VetoStable ContinuationSpared RecommendationRight
