\* One connection that is never promoted, idle after two wake periods.
CONSTANTS
  IdleDuration = 2
  ForcePromotionAfter = 0
SPECIFICATION Spec
PROPERTIES IdleConnectionPruned
