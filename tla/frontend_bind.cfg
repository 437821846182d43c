\* One address that another program uses at first.
CONSTANTS
  b1 = b1  b2 = b2  b3 = b3
  g1 = g1  g2 = g2
  Bind = {b1, b2}
  Loop <- TwiceFirst
  Conn = {c1}
  NoLoop = NoLoop
  File <- OneFile
  Free = {b1, b2}
  Busy = {b1}
SPECIFICATION Spec
INVARIANTS EveryBindServed
\* The program ends.
CHECK_DEADLOCK FALSE
