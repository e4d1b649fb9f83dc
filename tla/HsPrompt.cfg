SPECIFICATION FairSpec
CONSTANTS
  c1 = c1
  c2 = c2
  u1 = u1
  u2 = u2
  Conns = {c1}
  Nonces = {u1}
  alice = alice
  bob = bob
  server = server
  oldServer = oldServer
  Keys = {alice, bob, server, oldServer}
  NoKey = NoKey
  NoConn = NoConn
  AuthorizedKeys = {alice}
  Configs <- UsualConfigs
  MaxFaults = 0
CHECK_DEADLOCK FALSE
PROPERTIES
  HandshakeTimeLimit
