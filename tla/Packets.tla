------------------------------ MODULE Packets ------------------------------
(***************************************************************************)
(* The packets of the axsh handshake (src/src/packet.rs) and the           *)
(* connection signatures they carry (ConnSign and ConnVerify in            *)
(* src/src/lib.rs), as the handshake tells them apart.                     *)
(*                                                                         *)
(* A packet is a record with the fields its codec writes.  The bytes are   *)
(* abstracted: a key is an element of Keys, a SHA-256 digest is an         *)
(* injective constructor, and a signature is the record of what was signed *)
(* and by whom.  What the codec does with a packet of the other signature  *)
(* mode is kept: a signature of a quantum-insecure signer is shorter, so   *)
(* the other mode cuts the packet at the wrong byte.                       *)
(***************************************************************************)
EXTENDS Sequences

CONSTANTS
  Conns,    \* the connections: each joins one ClientStream and one ServerStream
  Keys,     \* long-term ConnSign keys, clients' and servers'
  Nonces    \* values random_u64 can return

(* A public key bundle's digest.  Never equal to a bundle.                 *)
Digest(key) == [sha256 |-> key]
Digests == {Digest(k) : k \in Keys}

(* Ephemeral Ed25519 packet keys: each stream generates one of its own.    *)
PacketKeys == {"client", "server"} \X Conns

(***************************************************************************)
(* ConnSign::signature and ConnVerify::verify.  A verifier accepts the     *)
(* signature only of its own key, in its own mode, over the same bytes.    *)
(***************************************************************************)
Sign(key, insecure, data) == [by |-> key, insecure |-> insecure, over |-> data]

VerifiesAnyData(key, insecure, sig, data) ==
  sig.by = key /\ sig.insecure = insecure

Verifies(key, insecure, sig, data) == sig = Sign(key, insecure, data)

(***************************************************************************)
(* The frames.  ClientHello's signature covers the server's challenge and  *)
(* the body, but only the body is sent.                                    *)
(***************************************************************************)
ServerHello(unique, key, packetKey) ==
  [type |-> "ServerHello", unique |-> unique, digest |-> Digest(key),
   packetKey |-> packetKey]

RequestServerPubkey == [type |-> "RequestServerPubkey"]

ServerPubkey(key) == [type |-> "ServerPubkey", key |-> key]

RawKeyBody(key, packetKey) == [digest |-> key, packetKey |-> packetKey]

ClientBody(key, packetKey) == [digest |-> Digest(key), packetKey |-> packetKey]

ClientHello(key, insecure, packetKey, unique) ==
  LET body == ClientBody(key, packetKey)
  IN  [type |-> "ClientHello", body |-> body,
       sig |-> Sign(key, insecure, <<unique, body>>)]

(* The handshake transcript that ServerComplete signs.                     *)
ServerHalf(serverHello, clientHello) == <<serverHello, serverHello>>

Transcript(serverHello, clientHello) == <<serverHello, clientHello>>

ServerComplete(key, insecure, serverHello, clientHello) ==
  [type |-> "ServerComplete",
   sig |-> Sign(key, insecure, Transcript(serverHello, clientHello))]

(* A frame whose check sequence or packet type is wrong.                   *)
Noise == [type |-> "Noise"]

(* No frame: what a stream remembers before it has read or sent one.       *)
NoFrame == [type |-> "NoFrame"]

(***************************************************************************)
(* A signed packet can be cut into signature and body only in the mode it  *)
(* was signed in: in the other mode it is truncated or leaves trailing     *)
(* bytes (signed_message, decode_client_hello, decode_server_complete).    *)
(***************************************************************************)
Parses(frame, insecure) == frame.sig.insecure = insecure

(* The sets the frames range over.                                         *)
ServerHellos ==
  [type : {"ServerHello"}, unique : Nonces, digest : Digests,
   packetKey : PacketKeys]
ClientBodies == [digest : Digests, packetKey : PacketKeys]
ClientHellos ==
  [type : {"ClientHello"}, body : ClientBodies,
   sig : [by : Keys, insecure : BOOLEAN, over : Nonces \X ClientBodies]]
ServerCompletes ==
  [type : {"ServerComplete"},
   sig : [by : Keys, insecure : BOOLEAN, over : ServerHellos \X ClientHellos]]
ServerPubkeys == [type : {"ServerPubkey"}, key : Keys]
FrameTypes == {"ServerHello", "RequestServerPubkey", "ServerPubkey",
               "ClientHello", "ServerComplete", "Noise"}
Frames == ServerHellos \cup ClientHellos \cup ServerCompletes
            \cup ServerPubkeys \cup {RequestServerPubkey, Noise}
=============================================================================
