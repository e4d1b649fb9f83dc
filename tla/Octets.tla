------------------------------- MODULE Octets -------------------------------
(***************************************************************************)
(* Slices of octets, and numbers as digits of a base, the most significant *)
(* one first: octets (to_be_bytes, from_be_bytes) and decimal digits.      *)
(***************************************************************************)
EXTENDS Loops

From(data, i)    == SubSeq(data, i + 1, Len(data))
Part(data, i, n) == SubSeq(data, i + 1, i + n)

FromDigits(base, digits) ==
  Loop([d \in 0..(base - 1) |-> [n \in Nat |-> n * base + d]], 0, digits)

ToDigits(base, len, n) ==
  LET rest[i \in 0..len] == IF i = 0 THEN n ELSE rest[i - 1] \div base
  IN  [i \in 1..len |-> rest[len - i] % base]
=============================================================================
