\* One connection; idle after two wake periods, promoted after one.
CONSTANTS
  IdleDuration = 2
  ForcePromotionAfter = 1
SPECIFICATION Spec
INVARIANTS TypeOK OneTokenPerConnection
PROPERTIES StoppedForCause ShedWhenOverloaded PromotedWhenBetter EndsWithItsPeers
