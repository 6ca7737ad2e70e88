\* Three callers, two permits, two connections: the pool saturates, warms,
\* is checked and closed while sessions are in flight.
SPECIFICATION FairSpec
CONSTANTS
  Clients = {u1, u2, u3}
  Conns = {b1, b2}
  NoConn = NoConn
  MaxConnections = 2
  MinConnections = 1
  Strategy = "smart"
  MaxUnnoticed = 1
CHECK_DEADLOCK FALSE
INVARIANT TypeOK
INVARIANT PermitsConserved
INVARIANT WaitersWait
INVARIANT OneOwner
INVARIANT StateStaysWithSession
PROPERTY WaiterServed
