\* Calls of Wait for two units, one after another, on two entries of one tier.
CONSTANTS
  e1 = e1  e2 = e2  e3 = e3
  g1 = g1  g2 = g2
  t1 = t1  t2 = t2  t3 = t3
  Entry = {e1, e2}
  Gen = {g1}
  Token = {t1, t2}
  Waiter = {w1}
  Profile <- SmallOrLarge
  PickLoads = {}
  WaitLoads = {2}
  NoMeta = NoMeta
  NoToken = NoToken
SPECIFICATION FairSpec
PROPERTIES WaiterServed
