---------------------------- MODULE MCHandshake ----------------------------
(* Small instances of Handshake for TLC.                                   *)
EXTENDS HandshakeRefines, TLC

CONSTANTS
  c1, c2,                         \* connections
  u1, u2,                         \* challenges
  alice, bob, server, oldServer   \* keys

(* An authorized client and the server it means, known or unknown.         *)
UsualConfigs ==
  [clientKey : {alice}, serverKey : {server}, expected : {NoKey, server},
   clientInsecure : {FALSE}, serverInsecure : {FALSE}]

(* The same pair with the server in known_hosts.                           *)
PinnedConfigs == {f \in UsualConfigs : f.expected = server}

(* Every way two ends can fit together or not: an unauthorized client, a   *)
(* server whose key changed, ends in different signature modes.            *)
AllConfigs ==
  [clientKey : {alice, bob}, serverKey : {server},
   expected : {NoKey, server, oldServer},
   clientInsecure : BOOLEAN, serverInsecure : BOOLEAN]
=============================================================================
