SPECIFICATION MCSpec
CONSTANTS
  c1 = c1
  c2 = c2
  c3 = c3
  k1 = k1
  k2 = k2
  NoKey = NoKey
  MaxRow = 2
  Callers <- ThreeCallers
  Keys <- TwoKeys
  Rank <- MCRank
  Latencies <- FastAndSlow
  Answers <- AllAnswers
  HttpTrip = 3
  NetTrip = 5
  Prober = "off"
PROPERTY
  DeadForGood
