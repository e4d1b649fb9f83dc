------------------------------- MODULE Base64 -------------------------------
(***************************************************************************)
(* Base64 as src/src/base64.rs writes and reads it.  A text is a sequence  *)
(* of the 64 values its characters stand for, of the padding, and of       *)
(* characters that are none of these; data is a sequence of octets.        *)
(***************************************************************************)
EXTENDS Loops

CONSTANTS Pad, Invalid  \* "=", and any character outside the alphabet

ASSUME AlphabetAssumption == Pad \notin Nat /\ Invalid \notin Nat /\ Pad # Invalid

Sextet == 0..63
Octet  == 0..255

-----------------------------------------------------------------------------
(* encode_base64: three octets at a time, as a word of 24 bits.            *)

OctetAt(data, i) == IF i <= Len(data) THEN data[i] ELSE 0

EncodeChunk(data, i) ==
  LET word == OctetAt(data, i) * 65536 + OctetAt(data, i + 1) * 256 + OctetAt(data, i + 2)
  IN  <<word \div 262144, (word \div 4096) % 64,
        IF i + 1 <= Len(data) THEN (word \div 64) % 64 ELSE Pad,
        IF i + 2 <= Len(data) THEN word % 64 ELSE Pad>>

Chunks(len, size) == (len + size - 1) \div size

(* The element at place j of chunks that are size long.                    *)
ChunkOf(j, size) == ((j - 1) \div size) + 1
PlaceOf(j, size) == ((j - 1) % size) + 1

EncodeBase64(data) ==
  [j \in 1..(4 * Chunks(Len(data), 3)) |->
     EncodeChunk(data, 3 * ChunkOf(j, 4) - 2)[PlaceOf(j, 4)]]

-----------------------------------------------------------------------------
(* decode_base64: four characters at a time, of which all chunks but the   *)
(* last give three octets.  A shift of an octet loses its upper bits.  {}  *)
(* is an error, {data} a result.                                           *)

Joined(a, b, up, down) == ((a * up) % 256) + (b \div down)

(* As if the last chunk were counted one too far.                          *)
NeverLast(isLast) == FALSE

MayPad(isLast) == isLast

DecodeChunk(a, b, c, d, isLast) ==
  IF {a, b} \cap {Pad, Invalid} # {} THEN {}
  ELSE CASE c = Pad /\ d = Pad ->
              IF MayPad(isLast) THEN {<<Joined(a, b, 4, 16)>>} ELSE {}
         [] c = Pad /\ d # Pad -> {}
         [] c # Pad /\ d = Pad ->
              IF MayPad(isLast) /\ c # Invalid
              THEN {<<Joined(a, b, 4, 16), Joined(b, c, 16, 4)>>} ELSE {}
         [] c # Pad /\ d # Pad ->
              IF Invalid \notin {c, d}
              THEN {<<Joined(a, b, 4, 16), Joined(b, c, 16, 4), Joined(c, d, 64, 1)>>}
              ELSE {}

DecodeBase64(text) ==
  LET n == Len(text) \div 4
      chunks == [i \in 1..n |->
                   DecodeChunk(text[4*i - 3], text[4*i - 2], text[4*i - 1], text[4*i], i = n)]
      octets == [i \in 1..n |-> CHOOSE data \in chunks[i] : TRUE]
      size   == IF n = 0 THEN 0 ELSE 3 * (n - 1) + Len(octets[n])
  IN  IF Len(text) % 4 # 0 \/ \E i \in 1..n : chunks[i] = {} THEN {}
      ELSE {[j \in 1..size |-> octets[ChunkOf(j, 3)][PlaceOf(j, 3)]]}

-----------------------------------------------------------------------------
(* Properties.                                                             *)

(* The bit at place i (from 0) of what a text or data stands for.          *)
Power == <<1, 2, 4, 8, 16, 32, 64, 128>>

TextBit(s, i) == (s[(i \div 6) + 1] \div Power[6 - (i % 6)]) % 2
DataBit(s, i) == (s[(i \div 8) + 1] \div Power[8 - (i % 8)]) % 2

(* The texts of RFC 4648: whole quartets, of which the last may end in one *)
(* or two paddings.                                                        *)
Body(text) == Kept(text, Sextet \cup {Invalid})

WellFormed(text) ==
  /\ Len(text) % 4 = 0
  /\ Len(text) - Len(Body(text)) <= 2
  /\ \A i \in 1..Len(text) : text[i] # Invalid /\ (text[i] = Pad => i > Len(Body(text)))

(* Just the texts of the standard are decoded, and to the bits of their    *)
(* characters in order, in as many whole octets as there are.  Data        *)
(* survives the trip: a key read from a line, written and read again is    *)
(* the same key, and of all texts of a key one is written (encode_base64,  *)
(* decode_base64).                                                         *)
TextDecodes(text) ==
  /\ DecodeBase64(text) # {} <=> WellFormed(text)
  /\ \A data \in DecodeBase64(text) :
       /\ Len(data) = (6 * Len(Body(text))) \div 8
       /\ \A i \in 1..Len(data) : data[i] \in Octet
       /\ \A i \in 0..(8 * Len(data) - 1) : DataBit(data, i) = TextBit(Body(text), i)
       /\ DecodeBase64(EncodeBase64(data)) = {data}
       /\ Len(EncodeBase64(data)) = Len(text)
=============================================================================
