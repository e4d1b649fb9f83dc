------------------------------ MODULE Formats ------------------------------
(***************************************************************************)
(* What axsh keeps in files, sends and takes as an argument: a state is an *)
(* input for one of the readers, or for the writer of frames, of the other *)
(* modules, which have no state; a step makes it longer.                   *)
(***************************************************************************)
EXTENDS Hdlc, WireFormat, KeyBundle, KeyLines, Base64, Durations

CONSTANTS
  Looked,       \* the formats that are looked at
  MaxInput,     \* bound: the longest input of each
  FrameBytes,   \* bounds: the bytes framed,
  TextLines,    \*         the lines of a file,
  Characters,   \*         the characters of a base64 text and
  ArgumentChars \*         of an argument

ASSUME InputsAssumption ==
  /\ FrameBytes \subseteq Byte
  /\ TextLines \subseteq Lines
  /\ Characters \subseteq Sextet \cup {Pad, Invalid}
  /\ ArgumentChars \subseteq Digits \cup Letters

VARIABLES
  format,  \* what is looked at, fixed
  input    \* what is to be read, or the payload to be framed

Symbols ==
  CASE format = "frame"    -> FrameBytes
    [] format = "packet"   -> IF input = <<>> THEN 0..(Base - 1) ELSE Sample
    [] format = "bundle"   -> KeyOctet
    [] format = "lines"    -> TextLines
    [] format = "base64"   -> Characters
    [] format = "duration" -> ArgumentChars
    [] OTHER               -> {}

FormatsInit == /\ format \in Looked
               /\ input = <<>>

ReadOn == \E s \in Symbols : /\ Len(input) < MaxInput[format]
                             /\ input' = Append(input, s)
                             /\ UNCHANGED format

FormatsSpec == FormatsInit /\ [][ReadOn]_<<format, input>>

-----------------------------------------------------------------------------
(* Properties: those of the modules, each for the inputs of its format.    *)

(* Two frames in a stream with noise come out as the two (hdlc.rs:74-149). *)
FramesApart == format = "frame" => FrameApart(input)

(* The check sequence is the one of HDLC (hdlc.rs:188-204).                *)
GoodResidue == format = "frame" => ResidueGood(input)

(* One bit turned on the air is told from the frame (hdlc.rs:112).         *)
OneBitTold == format = "frame" => BitTold(input)

(* Bytes are read as the one packet written as them (Packet::deserialize). *)
PacketsAsWritten == format = "packet" => PacketAsWritten(input)

(* Bytes are read as the one key written as them (lib.rs:511, 545).        *)
KeysAsWritten == format = "bundle" => KeyAsWritten(input)

(* axshd authorizes what its file says (load_authorized_keys).             *)
AuthorizedAsListed == format = "lines" => AuthorizesAsListed(input)

(* axsh knows the hosts its file says (load_known_hosts).                  *)
KnownAsListed == format = "lines" => KnowsAsListed(input)

(* axsh-fingerprint shows the key that is used (load_public_key).          *)
FingerprintsWhatIsUsed == format = "lines" => ShowsWhatIsUsed(input)

(* Just base64 is decoded, to its bits, and survives (decode_base64).      *)
DecodesBits == format = "base64" => TextDecodes(input)

(* An accepted timeout is the one the argument says (parse_duration).      *)
AcceptedIsMeant == format = "duration" => AcceptedMeant(input)

(* The suffixes of lib.rs:51 are accepted (parse_duration).                *)
SuffixesAccepted == format = "duration" => SuffixAccepted(input)
=============================================================================
