----------------------------- MODULE ByteStream -----------------------------
(***************************************************************************)
(* What one direction of an axsh session promises (README.md, "Replay"):   *)
(* an ordered stream of bytes.  The i-th byte the writer hands over is the *)
(* number i, so the reader must get 1, 2, 3, ... and never a byte that has *)
(* not been written, got again or got out of turn.                         *)
(***************************************************************************)
EXTENDS Naturals, Sequences

VARIABLES
  sent,  \* how many bytes the writer has handed over
  got    \* the bytes the reader was given

Init == sent = 0 /\ got = <<>>

Send == /\ sent' \in Nat
        /\ sent' > sent
        /\ UNCHANGED got

Receive == /\ \E n \in 1..(sent - Len(got)) :
                got' = got \o [i \in 1..n |-> Len(got) + i]
           /\ UNCHANGED sent

Next == Send \/ Receive

Spec == Init /\ [][Next]_<<sent, got>>
=============================================================================
