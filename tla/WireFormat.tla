----------------------------- MODULE WireFormat -----------------------------
(***************************************************************************)
(* The bytes of the packets (src/src/packet.rs): what Packet::serialize_*  *)
(* writes and Packet::deserialize reads, in both signature modes.          *)
(* Packets.tla takes a packet for a record; this module shows why it may.  *)
(*                                                                         *)
(* The layout is the code's, the widths are parameters.  Signatures are    *)
(* octets like any other: whether they verify is not a matter of format.   *)
(* A parser returns the set of the one packet it read, or of none.         *)
(***************************************************************************)
EXTENDS Octets

CONSTANTS
  Base,          \* an octet is one of 0..Base-1 (256)
  HelloMagic,    \* SERVER_HELLO_MAGIC (four octets)
  HelloVersion,  \* SERVER_HELLO_VERSION
  U64Len,        \* octets of a u64 (8)
  DigestLen,     \* SHA256_DIGEST_LEN (32)
  PacketKeyLen,  \* ED25519_PUBLIC_KEY_LEN (32)
  EdSigLen,      \* ED25519_SIGNATURE_LEN (64)
  MlDsaSigLen,   \* ML_DSA_44_SIGNING.signature_len() (2420)
  Sample         \* bound: the octets that follow the packet type

ASSUME WidthsAssumption ==
  /\ Base \in Nat \ {0}
  /\ HelloMagic \in Seq(0..(Base - 1)) /\ HelloVersion \in 0..(Base - 1)
  /\ {U64Len, DigestLen, PacketKeyLen, EdSigLen, MlDsaSigLen} \subseteq Nat \ {0}
  /\ Sample \subseteq 0..(Base - 1)

-----------------------------------------------------------------------------
(* Writing.                                                                *)

ConnSignatureLen(insecure) == IF insecure THEN EdSigLen ELSE MlDsaSigLen + EdSigLen

U64Octets(u) == ToDigits(Base, U64Len, u)

EncodeServerHello(h) ==
  HelloMagic \o <<HelloVersion>> \o U64Octets(h.unique) \o h.digest \o h.packetKey

EncodeClientHello(h) == U64Octets(h.unique) \o h.digest \o h.packetKey

Serialize(p) ==
  CASE p.type = "ServerHello"         -> <<0>> \o EncodeServerHello(p)
    [] p.type = "RequestServerPubkey" -> <<1>>
    [] p.type = "ServerPubkey"        -> <<2>> \o p.key
    [] p.type = "ClientHello"         -> <<3>> \o p.sig \o EncodeClientHello(p)
    [] p.type = "ServerComplete"      -> <<4>> \o p.sig
    [] p.type = "Payload"             -> <<5>> \o p.sig \o p.data

-----------------------------------------------------------------------------
(* Reading.                                                                *)

TakeU64(octets) == FromDigits(Base, octets)

(* As if trailing octets were left alone.                                  *)
AtLeast(data, n) == Len(data) >= n

(* Every take_* finds what it takes, and nothing is left in the end.       *)
Exactly(data, n) == Len(data) = n

Hellos(type, sig, data, i) ==
  [type |-> type, sig |-> sig,
   unique |-> TakeU64(Part(data, i, U64Len)),
   digest |-> Part(data, i + U64Len, DigestLen),
   packetKey |-> Part(data, i + U64Len + DigestLen, PacketKeyLen)]

ClientBodyLen == U64Len + DigestLen + PacketKeyLen

HelloVersionKnown(data) == data[Len(HelloMagic) + 1] = HelloVersion

DecodeServerHello(data) ==
  IF /\ Exactly(data, Len(HelloMagic) + 1 + ClientBodyLen)
     /\ Part(data, 0, Len(HelloMagic)) = HelloMagic
     /\ HelloVersionKnown(data)
  THEN {Hellos("ServerHello", <<>>, data, Len(HelloMagic) + 1)}
  ELSE {}

(* signed_message and decode_client_hello.                                 *)
DecodeClientHello(data, insecure) ==
  LET n == ConnSignatureLen(insecure)
  IN  IF Len(data) >= n /\ Exactly(From(data, n), ClientBodyLen)
      THEN {Hellos("ClientHello", Part(data, 0, n), data, n)}
      ELSE {}

DecodeServerComplete(data, insecure) ==
  IF Exactly(data, ConnSignatureLen(insecure))
  THEN {[type |-> "ServerComplete", sig |-> data]} ELSE {}

(* PacketVerify::verify cuts off the signature.                            *)
DecodePayload(data) ==
  IF Len(data) >= EdSigLen
  THEN {[type |-> "Payload", sig |-> Part(data, 0, EdSigLen), data |-> From(data, EdSigLen)]}
  ELSE {}

Deserialize(wire, insecure) ==
  IF wire = <<>> THEN {}
  ELSE LET rest == Tail(wire)
       IN  CASE wire[1] = 0 -> DecodeServerHello(rest)
             [] wire[1] = 1 -> IF Exactly(rest, 0)
                               THEN {[type |-> "RequestServerPubkey"]} ELSE {}
             [] wire[1] = 2 -> {[type |-> "ServerPubkey", key |-> rest]}
             [] wire[1] = 3 -> DecodeClientHello(rest, insecure)
             [] wire[1] = 4 -> DecodeServerComplete(rest, insecure)
             [] wire[1] = 5 -> DecodePayload(rest)
             [] OTHER       -> {}

-----------------------------------------------------------------------------
(* Properties.                                                             *)

(* The packets there are, without a word about the order of their bytes.   *)
Octets(n) == [1..n -> Sample]

Uniques == {TakeU64(octets) : octets \in Octets(U64Len)}

HelloPackets(type, sigs) ==
  [type : {type}, sig : sigs, unique : Uniques,
   digest : Octets(DigestLen), packetKey : Octets(PacketKeyLen)]

ModePackets(insecure) ==
  LET sigs == Octets(ConnSignatureLen(insecure))
  IN  HelloPackets("ClientHello", sigs) \cup [type : {"ServerComplete"}, sig : sigs]

OtherPackets(len) ==
  HelloPackets("ServerHello", {<<>>})
    \cup [type : {"RequestServerPubkey"}]
    \cup [type : {"ServerPubkey"}, key : Octets(len - 1)]
    \cup [type : {"Payload"}, sig : Octets(EdSigLen), data : Octets(len - 1 - EdSigLen)]

(* What the writer meant: the packets written as these bytes.              *)
Meaning(wire, insecure) ==
  {p \in ModePackets(insecure) \cup OtherPackets(Len(wire)) : Serialize(p) = wire}

(* A ClientHello or a ServerComplete is read in one signature mode at most:*)
(* a stream of the other mode refuses it before any signature is checked   *)
(* (signed_message, decode_client_hello, decode_server_complete).  This is *)
(* what Packets!Parses says of frames.                                     *)
ModesApart(wire) ==
  wire /= <<>> /\ wire[1] \in {3, 4} =>
    Deserialize(wire, TRUE) = {} \/ Deserialize(wire, FALSE) = {}

(* A receiver reads from any bytes exactly the packet that was written as  *)
(* them, and reads nothing from bytes no packet is written as: so no two   *)
(* packets look alike, every packet survives the trip, and there is no     *)
(* second spelling that would be signed or hashed differently              *)
(* (Packet::deserialize against serialize_unsigned and serialize_*_signed).*)
PacketAsWritten(wire) ==
  /\ \A insecure \in BOOLEAN : Deserialize(wire, insecure) = Meaning(wire, insecure)
  /\ ModesApart(wire)
=============================================================================
