----------------------------- MODULE KeyBundle -----------------------------
(***************************************************************************)
(* The bytes of a connection key, two keys in one (src/src/lib.rs): the    *)
(* public bundle that ServerPubkey carries and that digests are taken of,  *)
(* and the private bundle in a key file.                                   *)
(*                                                                         *)
(* The layout is the code's, the widths are parameters.  A decoder returns *)
(* the set of the one pair of keys it read, or of none.                    *)
(***************************************************************************)
EXTENDS Octets

CONSTANTS
  Radix,       \* an octet is one of 0..Radix-1 (256)
  KeyMagic,    \* CONN_PRIVATE_KEY_MAGIC (eight octets)
  KeyVersion,  \* CONN_PUBLIC_KEY_VERSION
  U32Len,      \* octets of a u32 (4)
  EdKeyLen     \* ED25519_PUBLIC_KEY_LEN (32)

KeyOctet == 0..(Radix - 1)

ASSUME BundleAssumption ==
  /\ Radix \in Nat \ {0} /\ U32Len \in Nat \ {0} /\ EdKeyLen \in Nat \ {0}
  /\ KeyMagic \in Seq(KeyOctet) /\ KeyVersion \in KeyOctet

-----------------------------------------------------------------------------
(* Writing.                                                                *)

EncodePublic(mlDsa, ed) == <<KeyVersion>> \o mlDsa \o ed

U32Octets(n) == ToDigits(Radix, U32Len, n)

(* A length that is no u32 is an error.                                    *)
MaxU32 == FromDigits(Radix, [i \in 1..U32Len |-> Radix - 1])

FitsLength(key) == Len(key) <= MaxU32

EncodePrivate(mlDsa, ed) ==
  IF FitsLength(mlDsa) /\ FitsLength(ed)
  THEN {KeyMagic \o U32Octets(Len(mlDsa)) \o U32Octets(Len(ed)) \o mlDsa \o ed} ELSE {}

-----------------------------------------------------------------------------
(* Reading.                                                                *)

KeyVersionKnown(data) == data[1] = KeyVersion

(* The Ed25519 key is what the end has room for, the rest the ML-DSA key.  *)
DecodePublic(data) ==
  IF Len(data) < 1 + 1 + EdKeyLen \/ ~KeyVersionKnown(data) THEN {}
  ELSE LET n == Len(data) - 1 - EdKeyLen
       IN  {<<Part(data, 1, n), Part(data, 1 + n, EdKeyLen)>>}

ReadU32(octets) == FromDigits(Radix, octets)

(* As if octets left over did no harm.                                     *)
HoldsBoth(rest, n, m) == rest >= n + m

IsBoth(rest, n, m) == rest = n + m

HeaderLen == Len(KeyMagic) + 2 * U32Len

DecodePrivate(data) ==
  IF Len(data) < HeaderLen \/ Part(data, 0, Len(KeyMagic)) # KeyMagic THEN {}
  ELSE LET n == ReadU32(Part(data, Len(KeyMagic), U32Len))
           m == ReadU32(Part(data, Len(KeyMagic) + U32Len, U32Len))
       IN  IF IsBoth(Len(data) - HeaderLen, n, m)
           THEN {<<Part(data, HeaderLen, n), Part(data, HeaderLen + n, m)>>} ELSE {}

-----------------------------------------------------------------------------
(* Properties.                                                             *)

(* Two keys of n octets together, however long each is.                    *)
Pairs(n) == UNION {[1..m -> KeyOctet] \X [1..(n - m) -> KeyOctet] : m \in 0..n}

PublicMeaning(bundle) ==
  {p \in [1..(Len(bundle) - 1 - EdKeyLen) -> KeyOctet] \X [1..EdKeyLen -> KeyOctet] :
     p[1] # <<>> /\ EncodePublic(p[1], p[2]) = bundle}

PrivateMeaning(bundle) ==
  {p \in Pairs(Len(bundle) - HeaderLen) : bundle \in EncodePrivate(p[1], p[2])}

(* Bytes are read as a key exactly when they are written for it.  A public *)
(* key has one spelling, so that its digest stands for it, and none is     *)
(* read from bytes of another version or from too few.  A key file yields  *)
(* the two private keys that were written to it: none is read from a file  *)
(* cut short or with octets to spare, or whose lengths put the cut         *)
(* elsewhere, which is what KeyFile!Decodes relies on                      *)
(* (decode_conn_public_key, decode_conn_private_key_bundle).               *)
KeyAsWritten(bundle) ==
  /\ DecodePublic(bundle) = PublicMeaning(bundle)
  /\ DecodePrivate(bundle) = PrivateMeaning(bundle)
=============================================================================
