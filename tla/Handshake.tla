----------------------------- MODULE Handshake -----------------------------
(***************************************************************************)
(* The axsh handshake: ClientStream::new_with_server_pubkey_lookup_timeout *)
(* (src/src/client.rs) against ServerStream::new_with_handshake_timeout    *)
(* (src/src/server.rs), on several connections at once.                    *)
(*                                                                         *)
(* Connection c joins one client and one server stream by a FIFO byte      *)
(* stream in each direction.  Underneath is a radio: up to MaxFaults times *)
(* a frame is lost, garbled, or heard again - possibly late, possibly by   *)
(* another station.  A step is what a task does between two awaits; the    *)
(* handshake timer of either side can fire wherever the task waits, which  *)
(* a client asking its user about an unknown key does not: that callback   *)
(* blocks the task.                                                        *)
(***************************************************************************)
EXTENDS Packets, Naturals, FiniteSets

CONSTANTS
  NoKey,           \* no known_hosts entry for the server
  AuthorizedKeys,  \* the keys in the server's authorized_keys file
  Configs,         \* how the two ends of a connection may be set up
  MaxFaults        \* bound: how often the radio misbehaves

(* The key each end signs with, the key known_hosts has for the server,    *)
(* and whether each end runs with --quantum-insecure.                      *)
ConfigType ==
  [clientKey : Keys, serverKey : Keys, expected : Keys \cup {NoKey},
   clientInsecure : BOOLEAN, serverInsecure : BOOLEAN]

ASSUME ConfigAssumption == /\ NoKey \notin Keys
                           /\ AuthorizedKeys \subseteq Keys
                           /\ Configs \subseteq ConfigType
                           /\ MaxFaults \in Nat

VARIABLES
  conf,      \* conf[c]: the set-up of connection c, fixed
  cPc,       \* where the client task of c is
  cErr,      \* why it failed
  cHello,    \* the ServerHello it read
  cKey,      \* the server key it settled on
  cSent,     \* the ClientHello it sent
  sPc,       \* where the server task of c is
  sErr,      \* why it failed
  sHello,    \* the ServerHello it sent
  sSeen,     \* the ClientHello it accepted
  toServer,  \* frames on their way to the server
  toClient,  \* frames on their way to the client
  air,       \* every frame ever sent
  faults     \* how often the radio has misbehaved

clientVars == <<cPc, cErr, cHello, cKey, cSent>>
serverVars == <<sPc, sErr, sHello, sSeen>>
netVars    == <<toServer, toClient, air, faults>>
vars       == <<conf, clientVars, serverVars, netVars>>

Ended == {"done", "failed"}
ClientReading == {"hello", "pubkey", "complete"}

Init ==
  /\ conf \in [Conns -> Configs]
  /\ cPc = [c \in Conns |-> "hello"]
  /\ cErr = [c \in Conns |-> "none"]
  /\ cHello = [c \in Conns |-> NoFrame]
  /\ cKey = [c \in Conns |-> NoKey]
  /\ cSent = [c \in Conns |-> NoFrame]
  /\ sPc = [c \in Conns |-> "idle"]
  /\ sErr = [c \in Conns |-> "none"]
  /\ sHello = [c \in Conns |-> NoFrame]
  /\ sSeen = [c \in Conns |-> NoFrame]
  /\ toServer = [c \in Conns |-> <<>>]
  /\ toClient = [c \in Conns |-> <<>>]
  /\ air = {}
  /\ faults = 0

-----------------------------------------------------------------------------
(* The byte streams.                                                       *)

SendToServer(c, m) == /\ toServer' = [toServer EXCEPT ![c] = Append(@, m)]
                      /\ air' = air \cup {m}

SendToClient(c, m) == /\ toClient' = [toClient EXCEPT ![c] = Append(@, m)]
                      /\ air' = air \cup {m}

(* The endpoint reads the next frame, of the given packet types, with      *)
(* read_frame_async.                                                       *)
ClientReads(c, types) == /\ toClient[c] # <<>>
                         /\ Head(toClient[c]).type \in types
                         /\ toClient' = [toClient EXCEPT ![c] = Tail(@)]

ServerReads(c, types) == /\ toServer[c] # <<>>
                         /\ Head(toServer[c]).type \in types
                         /\ toServer' = [toServer EXCEPT ![c] = Tail(@)]

(* A handshake future that returns an error drops its stream.              *)
ClientFails(c, why) == /\ cPc' = [cPc EXCEPT ![c] = "failed"]
                       /\ cErr' = [cErr EXCEPT ![c] = why]

ServerFails(c, why) == /\ sPc' = [sPc EXCEPT ![c] = "failed"]
                       /\ sErr' = [sErr EXCEPT ![c] = why]

-----------------------------------------------------------------------------
(* ServerStream::new_inner.                                                *)

ServerPacketKey(c) == <<"server", c>>

(* random_u64 draws 64 bits: two challenges of one run never coincide.     *)
ReusedNonces == Nonces

FreshNonces ==
  {u \in Nonces : \A c \in Conns : sHello[c] # NoFrame => sHello[c].unique # u}

ServerStart(c) ==
  /\ sPc[c] = "idle"
  /\ \E u \in FreshNonces :
       LET hello == ServerHello(u, conf[c].serverKey, ServerPacketKey(c))
       IN  /\ sHello' = [sHello EXCEPT ![c] = hello]
           /\ SendToClient(c, hello)
  /\ sPc' = [sPc EXCEPT ![c] = "hello"]
  /\ UNCHANGED <<conf, clientVars, sErr, sSeen, toServer, faults>>

(* RequestServerPubkey is answered as often as it comes, and the loop      *)
(* reads the next frame.                                                   *)
ServerAnswersKeyRequest(c) ==
  /\ sPc[c] = "hello"
  /\ ServerReads(c, {"RequestServerPubkey"})
  /\ SendToClient(c, ServerPubkey(conf[c].serverKey))
  /\ UNCHANGED <<conf, clientVars, serverVars, faults>>

(* authorized_keys.get(digest).                                            *)
AnyoneAuthorized(digest) == TRUE

Authorized(digest) == digest \in {Digest(k) : k \in AuthorizedKeys}

(* The authorized key whose digest the ClientHello names.                  *)
AuthorizedKey(digest) == digest.sha256

(* peer_verifier and Packet::deserialize with this server's challenge.     *)
DefaultModeVerifies(c, m) ==
  Verifies(AuthorizedKey(m.body.digest), FALSE, m.sig,
           <<sHello[c].unique, m.body>>)

ClientHelloVerifies(c, m) ==
  Verifies(AuthorizedKey(m.body.digest), conf[c].serverInsecure, m.sig,
           <<sHello[c].unique, m.body>>)

Acceptable(c, m) == /\ Parses(m, conf[c].serverInsecure)
                    /\ Authorized(m.body.digest)
                    /\ ClientHelloVerifies(c, m)

(* The accepted ClientHello ends the loop; ServerComplete signs the        *)
(* transcript and is written before the final flush.                       *)
ServerAccepts(c) ==
  /\ sPc[c] = "hello"
  /\ ServerReads(c, {"ClientHello"})
  /\ LET m == Head(toServer[c])
     IN  /\ Acceptable(c, m)
         /\ sSeen' = [sSeen EXCEPT ![c] = m]
         /\ SendToClient(c, ServerComplete(conf[c].serverKey,
                                           conf[c].serverInsecure, sHello[c], m))
  /\ sPc' = [sPc EXCEPT ![c] = "flush"]
  /\ UNCHANGED <<conf, clientVars, sErr, sHello, faults>>

(* Why the loop returns an error for ClientHello m instead.                *)
Refusal(c, m) == IF ~Parses(m, conf[c].serverInsecure) THEN "protocol"
                 ELSE IF ~Authorized(m.body.digest) THEN "unauthorized"
                 ELSE "signature"

ServerRefuses(c) ==
  /\ sPc[c] = "hello"
  /\ ServerReads(c, {"ClientHello"})
  /\ LET m == Head(toServer[c])
     IN  /\ ~Acceptable(c, m)
         /\ ServerFails(c, Refusal(c, m))
  /\ UNCHANGED <<conf, clientVars, sHello, sSeen, toClient, air, faults>>

(* Any other packet, and any frame that does not decode.                   *)
ServerRejectsFrame(c) ==
  /\ sPc[c] = "hello"
  /\ ServerReads(c, FrameTypes \ {"ClientHello", "RequestServerPubkey"})
  /\ ServerFails(c, "protocol")
  /\ UNCHANGED <<conf, clientVars, sHello, sSeen, toClient, air, faults>>

ServerFlushes(c) ==
  /\ sPc[c] = "flush"
  /\ sPc' = [sPc EXCEPT ![c] = "done"]
  /\ UNCHANGED <<conf, clientVars, sErr, sHello, sSeen, netVars>>

ServerWaitsToFlush(c) == sPc[c] = "flush"

ServerWaits(c) == sPc[c] \in {"hello", "flush"}

(* tokio::time::timeout elapses at an await: also at the last flush, when  *)
(* ServerComplete is already on its way.                                   *)
ServerTimeout(c) ==
  /\ ServerWaits(c)
  /\ ServerFails(c, "timeout")
  /\ UNCHANGED <<conf, clientVars, sHello, sSeen, netVars>>

(* The client dropped the stream: a read ends, a flush breaks, and what    *)
(* the client sent last may be gone with the connection.                   *)
ServerHangup(c) ==
  /\ ServerWaits(c)
  /\ cPc[c] = "failed"
  /\ ServerFails(c, "eof")
  /\ UNCHANGED <<conf, clientVars, sHello, sSeen, netVars>>

-----------------------------------------------------------------------------
(* ClientStream::new_with_server_pubkey_lookup_inner.                      *)

ClientPacketKey(c) == <<"client", c>>

(* After the server key is settled: generate a packet key, sign and send   *)
(* ClientHello over the ServerHello that was read.                         *)
SendClientHello(c, key, hello) ==
  LET m == ClientHello(conf[c].clientKey, conf[c].clientInsecure,
                       ClientPacketKey(c), hello.unique)
  IN  /\ cKey' = [cKey EXCEPT ![c] = key]
      /\ cSent' = [cSent EXCEPT ![c] = m]
      /\ cPc' = [cPc EXCEPT ![c] = "complete"]
      /\ SendToServer(c, m)

DigestIsKey(key, hello) == hello.digest = key

DigestMatches(key, hello) == hello.digest = Digest(key)

(* The host is in known_hosts under the key ServerHello names: nothing is  *)
(* requested and nobody is asked.                                          *)
ClientKnowsServer(c) ==
  /\ cPc[c] = "hello"
  /\ conf[c].expected # NoKey
  /\ ClientReads(c, {"ServerHello"})
  /\ LET hello == Head(toClient[c])
     IN  /\ DigestMatches(conf[c].expected, hello)
         /\ cHello' = [cHello EXCEPT ![c] = hello]
         /\ SendClientHello(c, conf[c].expected, hello)
  /\ UNCHANGED <<conf, cErr, serverVars, faults>>

(* The host is in known_hosts under another key.                           *)
ClientRefusesServer(c) ==
  /\ cPc[c] = "hello"
  /\ conf[c].expected # NoKey
  /\ ClientReads(c, {"ServerHello"})
  /\ ~DigestMatches(conf[c].expected, Head(toClient[c]))
  /\ cHello' = [cHello EXCEPT ![c] = Head(toClient[c])]
  /\ ClientFails(c, "digest")
  /\ UNCHANGED <<conf, cKey, cSent, serverVars, toServer, air, faults>>

(* The host is unknown: ask the server for its key.                        *)
ClientRequestsKey(c) ==
  /\ cPc[c] = "hello"
  /\ conf[c].expected = NoKey
  /\ ClientReads(c, {"ServerHello"})
  /\ cHello' = [cHello EXCEPT ![c] = Head(toClient[c])]
  /\ SendToServer(c, RequestServerPubkey)
  /\ cPc' = [cPc EXCEPT ![c] = "pubkey"]
  /\ UNCHANGED <<conf, cErr, cKey, cSent, serverVars, faults>>

(* The key that came must have the digest ServerHello promised; if it has, *)
(* accept_server_pubkey asks the user.                                     *)
ClientReadsKey(c) ==
  /\ cPc[c] = "pubkey"
  /\ ClientReads(c, {"ServerPubkey"})
  /\ LET key == Head(toClient[c]).key
     IN  \/ /\ DigestMatches(key, cHello[c])
            /\ cKey' = [cKey EXCEPT ![c] = key]
            /\ cPc' = [cPc EXCEPT ![c] = "prompt"]
            /\ UNCHANGED cErr
         \/ /\ ~DigestMatches(key, cHello[c])
            /\ ClientFails(c, "digest")
            /\ UNCHANGED cKey
  /\ UNCHANGED <<conf, cHello, cSent, serverVars, toServer, air, faults>>

(* confirm_and_add_known_host: the user types "yes", or anything else.     *)
UserAccepts(c) ==
  /\ cPc[c] = "prompt"
  /\ SendClientHello(c, cKey[c], cHello[c])
  /\ UNCHANGED <<conf, cErr, cHello, serverVars, toClient, faults>>

UserDeclines(c) ==
  /\ cPc[c] = "prompt"
  /\ ClientFails(c, "declined")
  /\ UNCHANGED <<conf, cHello, cKey, cSent, serverVars, netVars>>

CompleteFromServer(c, m) == m.sig.by = cKey[c]

(* verify_detached over the transcript the client holds.                   *)
CompleteVerifies(c, m) ==
  Verifies(cKey[c], conf[c].clientInsecure, m.sig, Transcript(cHello[c], cSent[c]))

ClientCompletes(c) ==
  /\ cPc[c] = "complete"
  /\ ClientReads(c, {"ServerComplete"})
  /\ LET m == Head(toClient[c])
     IN  \/ /\ CompleteVerifies(c, m)
            /\ cPc' = [cPc EXCEPT ![c] = "done"]
            /\ UNCHANGED cErr
         \/ /\ ~CompleteVerifies(c, m)
            /\ ClientFails(c, IF Parses(m, conf[c].clientInsecure)
                              THEN "signature" ELSE "protocol")
  /\ UNCHANGED <<conf, cHello, cKey, cSent, serverVars, toServer, air, faults>>

(* The packet each read expects; any other, or one that does not decode,   *)
(* ends the handshake.                                                     *)
ExpectedType(c) == CASE cPc[c] = "hello" -> "ServerHello"
                     [] cPc[c] = "pubkey" -> "ServerPubkey"
                     [] OTHER -> "ServerComplete"

ClientRejectsFrame(c) ==
  /\ cPc[c] \in ClientReading
  /\ ClientReads(c, FrameTypes \ {ExpectedType(c)})
  /\ ClientFails(c, "protocol")
  /\ UNCHANGED <<conf, cHello, cKey, cSent, serverVars, toServer, air, faults>>

(* The timer fires only where the task awaits: never during the prompt.    *)
FirstReadTimed(c) == cPc[c] = "hello"

ClientTimed(c) == cPc[c] \in ClientReading

ClientTimeout(c) ==
  /\ ClientTimed(c)
  /\ ClientFails(c, "timeout")
  /\ UNCHANGED <<conf, cHello, cKey, cSent, serverVars, netVars>>

ClientHangup(c) ==
  /\ cPc[c] \in ClientReading
  /\ sPc[c] = "failed"
  /\ ClientFails(c, "eof")
  /\ UNCHANGED <<conf, cHello, cKey, cSent, serverVars, netVars>>

-----------------------------------------------------------------------------
(* The radio: a frame is lost before an endpoint reads it, or it reads one *)
(* that is garbled or was sent earlier, on this connection or another.     *)

LoseToServer(c) ==
  /\ faults < MaxFaults
  /\ sPc[c] = "hello"
  /\ toServer[c] # <<>>
  /\ toServer' = [toServer EXCEPT ![c] = Tail(@)]
  /\ faults' = faults + 1
  /\ UNCHANGED <<conf, clientVars, serverVars, toClient, air>>

LoseToClient(c) ==
  /\ faults < MaxFaults
  /\ cPc[c] \in ClientReading
  /\ toClient[c] # <<>>
  /\ toClient' = [toClient EXCEPT ![c] = Tail(@)]
  /\ faults' = faults + 1
  /\ UNCHANGED <<conf, clientVars, serverVars, toServer, air>>

StrayToServer(c) ==
  /\ faults < MaxFaults
  /\ sPc[c] = "hello"
  /\ \E m \in air \cup {Noise} :
       toServer' = [toServer EXCEPT ![c] = <<m>> \o @]
  /\ faults' = faults + 1
  /\ UNCHANGED <<conf, clientVars, serverVars, toClient, air>>

StrayToClient(c) ==
  /\ faults < MaxFaults
  /\ cPc[c] \in ClientReading
  /\ \E m \in air \cup {Noise} :
       toClient' = [toClient EXCEPT ![c] = <<m>> \o @]
  /\ faults' = faults + 1
  /\ UNCHANGED <<conf, clientVars, serverVars, toServer, air>>

Radio(c) == \/ LoseToServer(c)
            \/ LoseToClient(c)
            \/ StrayToServer(c)
            \/ StrayToClient(c)

-----------------------------------------------------------------------------
ServerTask(c) == \/ ServerStart(c)
                 \/ ServerAnswersKeyRequest(c)
                 \/ ServerAccepts(c)
                 \/ ServerRefuses(c)
                 \/ ServerRejectsFrame(c)
                 \/ ServerFlushes(c)

ClientTask(c) == \/ ClientKnowsServer(c)
                 \/ ClientRefusesServer(c)
                 \/ ClientRequestsKey(c)
                 \/ ClientReadsKey(c)
                 \/ ClientCompletes(c)
                 \/ ClientRejectsFrame(c)

User(c) == UserAccepts(c) \/ UserDeclines(c)

Timers(c) == ServerTimeout(c) \/ ClientTimeout(c)

Hangups(c) == ServerHangup(c) \/ ClientHangup(c)

Next == \E c \in Conns : \/ ServerTask(c)
                         \/ ClientTask(c)
                         \/ User(c)
                         \/ Timers(c)
                         \/ Hangups(c)
                         \/ Radio(c)

Spec == Init /\ [][Next]_vars

(* tokio polls every task that can run, and every timer elapses.  Nothing  *)
(* obliges the user to answer, or the radio to behave or misbehave.        *)
FairSpec == /\ Spec
            /\ \A c \in Conns : /\ WF_vars(ServerTask(c))
                                /\ WF_vars(ClientTask(c))
                                /\ WF_vars(ServerTimeout(c))
                                /\ WF_vars(ClientTimeout(c))

(* The user answers every prompt.                                          *)
Attended == \A c \in Conns : WF_vars(User(c))

-----------------------------------------------------------------------------
(* Properties.                                                             *)

Errors == {"none", "protocol", "digest", "unauthorized", "signature",
           "declined", "timeout", "eof"}

(* Every variable holds a value of its kind; in particular only keys, and  *)
(* never their digests, are settled on and signed with.                    *)
TypeOK ==
  /\ conf \in [Conns -> Configs]
  /\ cPc \in [Conns -> {"hello", "pubkey", "prompt", "complete"} \cup Ended]
  /\ cErr \in [Conns -> Errors]
  /\ cHello \in [Conns -> ServerHellos \cup {NoFrame}]
  /\ cKey \in [Conns -> Keys \cup {NoKey}]
  /\ cSent \in [Conns -> ClientHellos \cup {NoFrame}]
  /\ sPc \in [Conns -> {"idle", "hello", "flush"} \cup Ended]
  /\ sErr \in [Conns -> Errors]
  /\ sHello \in [Conns -> ServerHellos \cup {NoFrame}]
  /\ sSeen \in [Conns -> ClientHellos \cup {NoFrame}]
  /\ toServer \in [Conns -> Seq(Frames)]
  /\ toClient \in [Conns -> Seq(Frames)]
  /\ air \in SUBSET Frames
  /\ faults \in 0..MaxFaults

SameMode(c, s) == conf[c].clientInsecure = conf[s].serverInsecure

(* A server that has accepted a ClientHello has it from a client with an   *)
(* authorized key, in the server's own signature mode, that made it for    *)
(* this very ServerHello: never from an earlier or another connection's    *)
(* handshake (server.rs:98-122).                                           *)
ServerAgreement ==
  \A s \in Conns : sSeen[s] # NoFrame =>
    \E c \in Conns : /\ cSent[c] = sSeen[s]
                     /\ cHello[c] = sHello[s]
                     /\ conf[c].clientKey \in AuthorizedKeys
                     /\ SameMode(c, s)

(* A client whose handshake succeeded faces a server that accepted exactly *)
(* its ClientHello and whose key is the one it settled on - the pinned one *)
(* where known_hosts has one; each end will verify payloads with the       *)
(* other's packet key (client.rs:168-243).                                 *)
ClientAgreement ==
  \A c \in Conns : cPc[c] = "done" =>
    /\ conf[c].expected \in {NoKey, cKey[c]}
    /\ \E s \in Conns : /\ sHello[s] = cHello[c]
                        /\ sSeen[s] = cSent[c]
                        /\ conf[s].serverKey = cKey[c]
                        /\ cHello[c].packetKey = ServerPacketKey(s)
                        /\ sSeen[s].body.packetKey = ClientPacketKey(c)

(* No ClientHello opens two sessions and no ServerHello serves two clients *)
(* to completion, however often either is heard (README.md, "Replay").     *)
NoSharedSession ==
  \A a, b \in Conns : a # b =>
    /\ sSeen[a] # NoFrame => sSeen[a] # sSeen[b]
    /\ ~(cPc[a] = "done" /\ cPc[b] = "done" /\ cHello[a] = cHello[b])

(* The ends fit together: same mode, authorized client, no other pinned key. *)
Compatible(c) == /\ conf[c].clientInsecure = conf[c].serverInsecure
                 /\ conf[c].clientKey \in AuthorizedKeys
                 /\ conf[c].expected \in {NoKey, conf[c].serverKey}

(* On a clean radio, ends that fit together fail only because the user     *)
(* declined or a timer fired, and an end of file then has that cause at    *)
(* the other end; no answer is ever mistaken for a protocol error.         *)
CleanHandshakesSucceed ==
  faults = 0 => \A c \in Conns : Compatible(c) =>
    /\ cErr[c] \in {"none", "declined", "timeout", "eof"}
    /\ sErr[c] \in {"none", "timeout", "eof"}
    /\ cErr[c] = "eof" => sErr[c] = "timeout"
    /\ sErr[c] = "eof" => cErr[c] \in {"declined", "timeout"}

(* Every server handshake ends within its timeout, whatever the client,    *)
(* its user or the radio do (server.rs:39-51).                             *)
ServerTimeLimit == \A c \in Conns : <>(sPc[c] \in Ended)

(* Every client handshake ends within its timeout (lib.rs:43, "maximum     *)
(* time allowed for a client/server handshake to complete").               *)
HandshakeTimeLimit == \A c \in Conns : <>(cPc[c] \in Ended)

(* A user who answers the prompt keeps it so: then, and only then, no      *)
(* client outlives its timer (bin/axsh.rs:129-169 runs outside it).        *)
AttendedTimeLimit == Attended => HandshakeTimeLimit

(* Unless a timer fires, the user declines or the radio misbehaves, ends   *)
(* that fit together both reach an established session, once the user      *)
(* answers (client.rs:69-91, server.rs:39-51).                             *)
AttendedCompletes ==
  Attended => \A c \in Conns : Compatible(c) =>
    <>(\/ cPc[c] = "done" /\ sPc[c] = "done"
       \/ faults > 0
       \/ "timeout" \in {cErr[c], sErr[c]}
       \/ cErr[c] = "declined")
=============================================================================
