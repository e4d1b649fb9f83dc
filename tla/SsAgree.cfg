SPECIFICATION MCSpec
CONSTANTS
  c1 = c1
  c2 = c2
  u1 = u1
  u2 = u2
  Conns = {c1, c2}
  Nonces = {u1, u2}
  alice = alice
  bob = bob
  carol = carol
  server = server
  oldServer = oldServer
  Keys = {alice, bob, carol, server, oldServer}
  NoKey = NoKey
  NoConn = NoConn
  AuthorizedKeys = {alice, carol}
  Configs <- MCConfigs
  MaxFaults = 3
  Data = {d1}
  Keepalive = Keepalive
  MaxPayloads = 2
CHECK_DEADLOCK FALSE
SYMMETRY Symmetry
INVARIANTS
  TypeOK
  CleanHandshakesSucceed
  ServerAgreement
  ClientAgreement
  NoSharedSession
  EndToEnd
  ServesVerified
PROPERTIES
  FormsAgreement
