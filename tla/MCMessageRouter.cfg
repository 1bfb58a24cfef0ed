\* A finite run of messages: when all are delivered nothing is left to do.
CHECK_DEADLOCK FALSE
SPECIFICATION FairSpec
CONSTANTS
  a = a
  b = b
  w = w
  main = main
  daemon = daemon
  absent = absent
  None = None
  m1 = m1
  m2 = m2
  lostCall = lostCall
  toDaemon = toDaemon
  signal = signal
  acquired = acquired
  Conns <- MCConns
  Main = main
  Msgs <- MCMsgs
  Calls <- MCCalls
  Dest <- MCDest
  Daemon = daemon
  Absent = absent
  Outgoing <- MCOutgoing
  Watching <- MCWatching
INVARIANTS
  OneDrainer
  Conservation
PROPERTY
  Delivery
