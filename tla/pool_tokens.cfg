\* Two entries, each enrolled up to twice, two tokens of load 0 to 2.
CONSTANTS
  e1 = e1  e2 = e2  e3 = e3
  g1 = g1  g2 = g2
  t1 = t1  t2 = t2  t3 = t3
  Entry = {e1, e2}
  Gen = {g1, g2}
  Token = {t1, t2}
  Waiter = {}
  Profile <- SwitchProfiles
  PickLoads = {0, 1, 2}
  WaitLoads = {}
  NoMeta = NoMeta
  NoToken = NoToken
SPECIFICATION Spec
SYMMETRY Interchangeable
INVARIANTS TypeOK RegistryInSync LoadAccounting
PROPERTIES LedgerSpec
