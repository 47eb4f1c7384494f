CONSTANTS
  Nodes = {n1}
  Workers = {w1, w2}
  Threads = {t1, t2}
  MaxOps = 2
  MaxSpawns = 2
  MaxFlight = 1
  None = None
SPECIFICATION FairProxy
INVARIANT NodesSafe
PROPERTIES NoLeaseWhileSick ProxyComesBack
CHECK_DEADLOCK FALSE
