\* An address that is free and two that are in use, files of most kinds, one client.
CONSTANTS
  b1 = b1  b2 = b2  b3 = b3
  g1 = g1  g2 = g2
  Bind = {b1, b2, b3}
  Loop <- TwiceFirst
  Conn = {c1}
  NoLoop = NoLoop
  File <- AllFiles
  Free = {b1}
  Busy = {b2, b3}
SPECIFICATION FairSpec
INVARIANTS TypeOK HandlerHasToken ListenersRegistered DrainedMeansHeldEnded
INVARIANTS SettingsApplied
PROPERTIES StopsOnlyWhatIsGone CrashNeedsFault ConfigurationFollowed StoppedLoopsExit DrainEnds
\* The program ends.
CHECK_DEADLOCK FALSE
