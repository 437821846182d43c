\* Two calls of Wait, for one and two units, on one entry and two tokens.
CONSTANTS
  e1 = e1  e2 = e2  e3 = e3
  g1 = g1  g2 = g2
  t1 = t1  t2 = t2  t3 = t3
  Entry = {e1}
  Gen = {g1}
  Token = {t1, t2}
  Waiter = {w1, w2}
  Profile <- OnlyLarge
  PickLoads = {1}
  WaitLoads = {1, 2}
  NoMeta = NoMeta
  NoToken = NoToken
SPECIFICATION FairSpec
INVARIANTS LoadAccounting TokenOwnership NilReturnOnlyWhenCancelled
PROPERTIES NoSleepThroughFreedRoom WaiterServed AbandonedGoroutineExits
