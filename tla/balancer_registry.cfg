\* One address that comes and goes, named by two targets, in service or not.
CONSTANTS
  a1 = a1  a2 = a2  a3 = a3
  g1 = g1  g2 = g2
  d1 = d1  d2 = d2
  Address = {a1}
  Gen = {g1, g2}
  Target = {d1, d2}
  Config <- OnAndOff
  Answers <- AnySet
  Latency = {1}
  Tolerate = {TRUE}
  Unlimited = 9
  MaxConns = 2
  NoConfig = NoConfig
SPECIFICATION FairSpec
INVARIANTS TypeOK OneBackendPerAddress
PROPERTIES RegistryConverges DrainedBackendsEmpty
