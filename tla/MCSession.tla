----------------------------- MODULE MCSession -----------------------------
(* Small instances of Session, and of Handshake within it, for TLC.        *)
EXTENDS MCHandshake, Session

CONSTANT carol  \* the key of another authorized client

(* A usual connection next to one that does not fit.                       *)
MixedConfigs ==
  {[clientKey |-> alice, serverKey |-> server, expected |-> server,
    clientInsecure |-> FALSE, serverInsecure |-> FALSE],
   [clientKey |-> bob, serverKey |-> server, expected |-> NoKey,
    clientInsecure |-> FALSE, serverInsecure |-> FALSE],
   [clientKey |-> alice, serverKey |-> oldServer, expected |-> server,
    clientInsecure |-> FALSE, serverInsecure |-> FALSE],
   [clientKey |-> alice, serverKey |-> server, expected |-> server,
    clientInsecure |-> TRUE, serverInsecure |-> FALSE],
   [clientKey |-> alice, serverKey |-> server, expected |-> server,
    clientInsecure |-> TRUE, serverInsecure |-> TRUE]}

(* Two authorized users of one server, which is in their known_hosts.      *)
UserConfigs ==
  [clientKey : {alice, carol}, serverKey : {server}, expected : {server},
   clientInsecure : {FALSE}, serverInsecure : {FALSE}]

MCConfigs == UsualConfigs \cup MixedConfigs \cup UserConfigs

AllOf(configs) == \A c \in Conns : conf[c] \in configs

MCInit == /\ SessionInit
          /\ AllOf(UsualConfigs \cup MixedConfigs) \/ AllOf(UserConfigs)

(* Faults are cheap to explore when both connections are alice's to the    *)
(* server she knows, so those get all of MaxFaults, and every other set-up *)
(* gets one.                                                               *)
FaultsAllowed == IF AllOf(PinnedConfigs) THEN MaxFaults ELSE 1

(* The sessions go on where users know their server, with one fault and a  *)
(* payload of each end, or no fault, one user and a second payload.  An    *)
(* end that refuses a frame only stops, so that one does is enough.        *)
SessionGoesOn ==
  /\ AllOf(UserConfigs)
  /\ Cardinality(refused') <= 1
  /\ faults' <= 1
  /\ (\E e \in Ends : Len(wrote'[e]) > 1) => faults' = 0 /\ AllOf(PinnedConfigs)

MCNext ==
  /\ SessionNext
  /\ faults' <= FaultsAllowed
  /\ \/ SessionGoesOn
     \/ sessionVars' = <<[e \in Ends |-> <<>>], [e \in Ends |-> <<>>], {}, {}>>

MCSpec == MCInit /\ [][MCNext]_allVars

(* Connections and challenges are interchangeable: the choices in the      *)
(* mapping to Agreement have one candidate each, so they respect this.     *)
Symmetry == Permutations(Conns) \cup Permutations(Nonces)
=============================================================================
