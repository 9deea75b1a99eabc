SPECIFICATION Spec
CONSTANTS
  Pool = {h1}
  P2p = p2p
  Main = main
  Nobody = nobody
  WebFirst = TRUE
PROPERTY CallersAnswered
CHECK_DEADLOCK FALSE
