SPECIFICATION Spec
CONSTANTS
  Pool = {h1}
  P2p = p2p
  Main = main
  Nobody = nobody
  WebFirst = FALSE
INVARIANTS QueueSound
PROPERTIES ReadsEnd CallersAnswered ShutdownEnds
CHECK_DEADLOCK FALSE
