------------------------------ MODULE Session ------------------------------
(***************************************************************************)
(* Handshakes and the sessions they open (README.md, "Hijack"): ends that  *)
(* are through with the handshake sign payloads with their own packet key  *)
(* and verify what they read with the packet key their handshake left them *)
(* (ClientStream in src/src/client.rs, ServerStream in src/src/server.rs,  *)
(* PacketSign and PacketVerify in src/src/lib.rs).                         *)
(*                                                                         *)
(* An end is named by its packet key.  How one direction of a session gets *)
(* its frames across is PayloadStream's; here any payload ever sent may be *)
(* heard by any end, as often as the radio likes.                          *)
(***************************************************************************)
EXTENDS Handshake

CONSTANTS
  Data,        \* what a payload may carry
  Keepalive,   \* the empty payload
  MaxPayloads  \* bound: payloads an end sends

ASSUME PayloadAssumption == Keepalive \notin Data /\ MaxPayloads \in Nat

VARIABLES
  wrote,     \* wrote[e]: what end e has sent, its length e's sign_counter
  read,      \* read[e]: what e has accepted, its length e's verify_counter
  payloads,  \* every payload ever sent
  refused    \* the ends that met a frame they did not accept

sessionVars == <<wrote, read, payloads, refused>>
allVars     == <<vars, sessionVars>>

Ends == PacketKeys

SessionInit ==
  /\ Init
  /\ wrote = [e \in Ends |-> <<>>]
  /\ read = [e \in Ends |-> <<>>]
  /\ payloads = {}
  /\ refused = {}

-----------------------------------------------------------------------------
(* The client goes on once ServerComplete verifies; as if it went on once  *)
(* ClientHello is sent.                                                    *)
EarlyEstablished(e) == IF e[1] = "client" THEN cPc[e[2]] \in {"complete", "done"}
                       ELSE sPc[e[2]] = "done"

Established(e) == IF e[1] = "client" THEN cPc[e[2]] = "done"
                  ELSE sPc[e[2]] = "done"

(* The packet key in the hello that e accepted.                            *)
PeerKey(e) == IF e[1] = "client" THEN cHello[e[2]].packetKey
              ELSE sSeen[e[2]].body.packetKey

(* PacketSign::sign over the counter and the data; the counter itself is   *)
(* not sent, and nothing else tells whose payload it is.                   *)
Payload(e, n, d) == [type |-> "Payload", key |-> e, counter |-> n, data |-> d]

VerifiesAtAnyCount(e, f) == f.key = PeerKey(e)

(* PacketVerify::verify with the next counter of e.                        *)
PayloadVerifies(e, f) == f = Payload(PeerKey(e), Len(read[e]), f.data)

Write(e) ==
  /\ Established(e)
  /\ e \notin refused
  /\ Len(wrote[e]) < MaxPayloads
  /\ \E d \in Data \cup {Keepalive} :
       /\ wrote' = [wrote EXCEPT ![e] = Append(@, d)]
       /\ payloads' = payloads \cup {Payload(e, Len(wrote[e]), d)}
  /\ UNCHANGED <<vars, read, refused>>

Read(e) ==
  /\ Established(e)
  /\ e \notin refused
  /\ \E f \in payloads :
       /\ PayloadVerifies(e, f)
       /\ read' = [read EXCEPT ![e] = Append(@, f.data)]
  /\ UNCHANGED <<vars, wrote, payloads, refused>>

(* Any other frame - Noise if nothing else - is an error that ends the     *)
(* session for e.                                                          *)
RefuseFrame(e) ==
  /\ Established(e)
  /\ e \notin refused
  /\ refused' = refused \cup {e}
  /\ UNCHANGED <<vars, wrote, read, payloads>>

SessionNext == \/ Next /\ UNCHANGED sessionVars
               \/ \E e \in Ends : Write(e) \/ Read(e) \/ RefuseFrame(e)

SessionSpec == SessionInit /\ [][SessionNext]_allVars

-----------------------------------------------------------------------------
(* Properties.                                                             *)

(* c and s answered one another in the handshake.                          *)
Peers(c, s) == cSent[c] = sSeen[s] /\ cHello[c] = sHello[s]

IsStart(r, w) == Len(r) <= Len(w) /\ \A i \in 1..Len(r) : r[i] = w[i]

(* Every variable of the sessions holds a value of its kind.               *)
SessionTypeOK ==
  /\ wrote \in [Ends -> Seq(Data \cup {Keepalive})]
  /\ read \in [Ends -> Seq(Data \cup {Keepalive})]
  /\ payloads \in SUBSET [type : {"Payload"}, key : Ends,
                          counter : 0..(MaxPayloads - 1),
                          data : Data \cup {Keepalive}]
  /\ refused \in SUBSET Ends
  /\ \A e \in Ends : Len(wrote[e]) <= MaxPayloads

(* All that a client reads was written, in this order and without a gap,   *)
(* by the one server that accepted its ClientHello and has the key it      *)
(* settled on; all that a server reads by the one authorized client that   *)
(* answered it (README.md, "Hijack" and "Replay").                         *)
EndToEnd ==
  /\ \A c \in Conns : read[ClientPacketKey(c)] # <<>> =>
       \E s \in Conns : /\ Peers(c, s)
                        /\ conf[s].serverKey = cKey[c]
                        /\ IsStart(read[ClientPacketKey(c)],
                                   wrote[ServerPacketKey(s)])
  /\ \A s \in Conns : read[ServerPacketKey(s)] # <<>> =>
       \E c \in Conns : /\ Peers(c, s)
                        /\ conf[c].clientKey \in AuthorizedKeys
                        /\ IsStart(read[ServerPacketKey(s)],
                                   wrote[ClientPacketKey(c)])

(* A server acts on nothing before its client has verified the server:     *)
(* what it reads comes from a client whose handshake is done, with it      *)
(* (client.rs:212-243).                                                    *)
ServesVerified ==
  \A s \in Conns : read[ServerPacketKey(s)] # <<>> =>
    \E c \in Conns : /\ Peers(c, s)
                     /\ cPc[c] = "done"
                     /\ conf[s].serverKey = cKey[c]
=============================================================================
