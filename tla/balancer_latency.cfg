\* Three addresses sorted into tiers.
CONSTANTS
  a1 = a1  a2 = a2  a3 = a3
  g1 = g1  g2 = g2
  d1 = d1  d2 = d2
  Address = {a1, a2, a3}
  Gen = {g1}
  Target = {d1}
  Config <- ByLatency
  Answers <- Steady
  Latency = {1, 3, 4, 5}
  Tolerate = {TRUE}
  Unlimited = 9
  MaxConns = 0
  NoConfig = NoConfig
SPECIFICATION Spec
SYMMETRY Interchangeable
INVARIANTS LatencyGroupsFit
